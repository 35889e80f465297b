------------------------------- MODULE Probe -------------------------------
(***************************************************************************)
(* The probes of simulator/probe.c running inside one model process,       *)
(* beside the injector programs that fill the user ring buffers and the    *)
(* reader that empties the kernel one.                                     *)
(*                                                                         *)
(* One pass of the model process over its step function hits the timer,    *)
(* write, read-input and read-output uprobes, in that order.  A probe runs *)
(* to completion in the trapped process, so each is one action; the        *)
(* injectors and the reader interleave between probes.                     *)
(*                                                                         *)
(* Values are abstracted to where they come from: a cell of a signal's     *)
(* trace holds the set of the injected records summed into it (the initial *)
(* trajectory value is always there and left out), and all the write-input *)
(* signals of one cycle, which the code treats alike and one after the     *)
(* other, whatever becomes of those before, are one cell.                  *)
(* Injected records are numbered in the order the injector offers them.    *)
(***************************************************************************)
EXTENDS Integers, Sequences, FiniteSets, Functions

CONSTANTS
  MAX_CYCLES,            \* cycles of the simulation
  MINOR_TO_MAJOR_RATIO,  \* calls of the step function per cycle
  NOF_WISIGNALS,         \* written input signals
  NOF_RISIGNALS,         \* read input signals
  NOF_ROSIGNALS,         \* read output signals
  MODE,                  \* the service that started the simulation
  TraceSize,             \* entries of a trace map (the padded cycle count)
  OutCap,                \* records out_rb can hold
  PertCap,               \* records inj_rb or state_rb can hold
  StateMapCap,           \* entries of state_trace
  WriteAtEntry,          \* write_i is attached to the timer's own address
  MemoryFaults,          \* accesses to the process's memory may fail
  EarlyExit,             \* the model may exit by itself
  MaxInjections,         \* bound: records the client sends
  Times                  \* bound: the times they carry

MODES == {"falsification", "monitoring", "state", "signal"}

ASSUME CyclesAssumption == MAX_CYCLES \in Nat \ {0}
ASSUME RatioAssumption == MINOR_TO_MAJOR_RATIO \in Nat \ {0}
ASSUME SignalsAssumption ==
  /\ NOF_WISIGNALS \in Nat
  /\ NOF_RISIGNALS \in Nat
  /\ NOF_ROSIGNALS \in Nat
ASSUME ModeAssumption == MODE \in MODES
ASSUME CapAssumption ==
  /\ TraceSize \in Nat /\ TraceSize >= MAX_CYCLES
  /\ OutCap \in Nat \ {0}
  /\ PertCap \in Nat \ {0}
  /\ StateMapCap \in Nat \ {0}
  /\ MaxInjections \in Nat
ASSUME FlagsAssumption ==
  /\ WriteAtEntry \in BOOLEAN
  /\ MemoryFaults \in BOOLEAN
  /\ EarlyExit \in BOOLEAN
ASSUME TimesAssumption == Times \subseteq Nat

VARIABLES
  pc,           \* the next probe the model process hits; "gone" when it ended
  signal,       \* "SIGKILL" once it is pending or delivered
  minor_step, is_major, time, log_counter,
  trace,        \* write-input traces: cycle -> injected records summed in
  state_trace,  \* cycle -> record of the state change saved for it, 0 if none
  pert_rb,      \* inj_rb or state_rb, whichever the mode fills
  sent,         \* history: the records offered, with what became of each
  applied,      \* history: by cycle, what write_i wrote and whether it could
  in_trace,     \* read-input traces: cycle -> number of signals recorded
  out_trace,    \* read-output traces, filled when nobody reads out_rb
  out_rb,       \* records waiting for the reader
  consumed,     \* history: records the reader took
  lost          \* history: cycles whose output was not recorded in full

procVars == <<pc, signal, minor_step, is_major, time>>
pertVars == <<trace, state_trace, pert_rb, sent, applied>>
outVars  == <<log_counter, out_trace, out_rb, consumed, lost>>
vars     == <<procVars, pertVars, in_trace, outVars>>

INTERACTIVE == MODE # "falsification"
Cells == 0 .. TraceSize - 1
Ids == 1 .. MaxInjections
Fates == {"queued", "taken", "late", "full", "outside"}
\* A plausible slip: testing the count after the increment.
MajorShifted == (minor_step + 1) % MINOR_TO_MAJOR_RATIO = 0

SentRecords == [time : Times, fate : Fates, slot : Nat]
Major == minor_step % MINOR_TO_MAJOR_RATIO = 0
MAX_NOF_SIGNALS == 16
MAX_NOF_WISIGNALS == 8

\* The cycle the probes work on: time counts the cycles begun.
actual_time == time - 1

(***************************************************************************)
(* The probes in the order the step function meets them.  A probe of a     *)
(* group without signals is not attached.                                  *)
(***************************************************************************)
AfterReadI == IF NOF_ROSIGNALS > 0 THEN "read_o" ELSE "timer"
AfterWrite == IF NOF_RISIGNALS > 0 THEN "read_i" ELSE AfterReadI
AfterTimer == IF NOF_WISIGNALS > 0 THEN "write_i" ELSE AfterWrite

\* SIGKILL takes effect when the trap returns: a write probe attached to the
\* timer's own address still runs.
AfterKill == IF WriteAtEntry /\ NOF_WISIGNALS > 0 THEN "write_i" ELSE "gone"

TypeProc ==
  /\ pc \in {"timer", "write_i", "read_i", "read_o", "gone"}
  /\ signal \in {"none", "SIGKILL"} /\ is_major \in {0, 1}
  /\ minor_step \in Nat
  /\ time \in 0 .. MAX_CYCLES + 1

TypePert ==
  /\ trace \in [Cells -> SUBSET Ids]
  /\ state_trace \in [Times -> Ids \cup {0}]
  /\ pert_rb \in Seq(Ids) /\ Len(pert_rb) <= PertCap
  /\ sent \in Seq(SentRecords)
  /\ Len(sent) <= MaxInjections
  /\ applied \subseteq [cycle : 0 .. MAX_CYCLES, written : BOOLEAN, value : SUBSET Ids]

TypeOut ==
  /\ log_counter \in 0 .. MAX_CYCLES
  /\ in_trace \in [Cells -> 0 .. NOF_RISIGNALS]
  /\ out_trace \in [Cells -> 0 .. NOF_ROSIGNALS]
  /\ out_rb \in Seq(0 .. MAX_CYCLES - 1) /\ Len(out_rb) <= OutCap
  /\ consumed \in Seq(0 .. MAX_CYCLES - 1)
  /\ lost \subseteq 0 .. MAX_CYCLES - 1

\* Every variable has its type; the rings respect their capacity, no probe
\* works on a cycle beyond the simulation and no more than its cycles are
\* logged.
TypeOK == TypeProc /\ TypePert /\ TypeOut

Init ==
  /\ pc = "timer" /\ signal = "none"
  /\ minor_step = 0 /\ is_major = 0 /\ time = 0 /\ log_counter = 0
  /\ trace = [c \in Cells |-> {}]
  /\ state_trace = [t \in Times |-> 0]
  /\ pert_rb = <<>> /\ sent = <<>> /\ applied = {}
  /\ in_trace = [c \in Cells |-> 0]
  /\ out_trace = [c \in Cells |-> 0]
  /\ out_rb = <<>> /\ consumed = <<>> /\ lost = {}
----------------------------------------------------------------------------
(***************************************************************************)
(* uprobe_timer: counts the calls of the step function, begins a cycle on  *)
(* every MINOR_TO_MAJOR_RATIO-th and kills the process when the cycles are *)
(* over.                                                                   *)
(***************************************************************************)
\* A plausible slip: the last cycle is killed as it begins.
ExpiredEarly(t) == t >= MAX_CYCLES

Expired(t) == t > MAX_CYCLES

Timer ==
  /\ pc = "timer"
  /\ IF Major THEN is_major' = 1 /\ time' = time + 1
              ELSE is_major' = 0 /\ time' = time
  /\ minor_step' = minor_step + 1
  /\ IF Expired(time') THEN signal' = "SIGKILL" /\ pc' = AfterKill
                       ELSE signal' = "none" /\ pc' = AfterTimer
  /\ UNCHANGED <<pertVars, in_trace, outVars>>

(***************************************************************************)
(* extract_injected_pert and extract_injected_state_pert: what draining    *)
(* one record does.  Both stop the drain after one record; a record for a  *)
(* past cycle is dropped.                                                  *)
(***************************************************************************)
\* Plausible slips: the cycle just written still counts, or this one is past.
LateByOne(t) == actual_time - 1 > t
LateAtOnce(t) == actual_time >= t

Late(t) == actual_time > t

Saved == {t \in Times : state_trace[t] # 0}

\* inj_signals: the lookup of a cell outside the trace fails.
FateOfSignal(t) == IF Late(t) THEN "late"
                   ELSE IF t \in Cells THEN "taken" ELSE "outside"

\* The update of the hash map fails when a new key does not fit.
FateOfState(t) == IF Late(t) THEN "late"
                  ELSE IF t \in Saved \/ Cardinality(Saved) < StateMapCap
                       THEN "taken" ELSE "outside"

FateOf(t) == IF MODE = "state" THEN FateOfState(t) ELSE FateOfSignal(t)

\* inj_signals adds the record to what the cell already holds.
Summed(cell, id) == cell \cup {id}

\* A plausible slip: BPF_NOEXIST where the code has BPF_ANY.
DrainedKeepFirst(id) ==
  LET t == sent[id].time
      f == FateOf(t)
  IN /\ pert_rb' = Tail(pert_rb)
     /\ sent' = [sent EXCEPT ![id].fate = f]
     /\ trace' = trace
     /\ state_trace' = IF f = "taken" /\ t \notin Saved
                       THEN [state_trace EXCEPT ![t] = id] ELSE state_trace

Drained(id) ==
  LET t == sent[id].time
      f == FateOf(t)
      hit == f = "taken"
  IN /\ pert_rb' = Tail(pert_rb)
     /\ sent' = [sent EXCEPT ![id].fate = f]
     /\ trace' = IF hit /\ MODE = "signal"
                 THEN [trace EXCEPT ![t] = Summed(@, id)] ELSE trace
     /\ state_trace' = IF hit /\ MODE = "state"
                       THEN [state_trace EXCEPT ![t] = id] ELSE state_trace

Drain == IF pert_rb = <<>>
         THEN UNCHANGED <<pert_rb, sent, trace, state_trace>>
         ELSE Drained(Head(pert_rb))

\* What write_i then has to write for a cycle: the state change saved for it,
\* and the sum its trace cell holds (write_signals fails outside the trace).
WrittenState(c) == IF c \in Times /\ state_trace'[c] # 0
                   THEN {state_trace'[c]} ELSE {}
WrittenSignals(c) == IF c \in Cells THEN trace'[c] ELSE {}
Written(c) == IF MODE = "state" THEN WrittenState(c) ELSE WrittenSignals(c)

\* A signal is read, added to and written back, a state is overwritten at the
\* address its record carries: either may fail, and nothing tries again.
WriteOutcomes == IF MemoryFaults THEN BOOLEAN ELSE {TRUE}
WriteRecord(c, ok) ==
  [cycle |-> c, written |-> ok, value |-> IF ok THEN Written(c) ELSE {}]

WriteI ==
  /\ pc = "write_i"
  /\ pc' = IF signal = "SIGKILL" THEN "gone" ELSE AfterWrite
  /\ IF is_major = 1 /\ NOF_WISIGNALS <= MAX_NOF_WISIGNALS
     THEN /\ Drain
          /\ \E ok \in WriteOutcomes :
               applied' = applied \cup {WriteRecord(actual_time, ok)}
     ELSE UNCHANGED pertVars
  /\ UNCHANGED <<signal, minor_step, is_major, time, in_trace, outVars>>

(***************************************************************************)
(* read_signals: reads the n signals in turn and gives up at the first     *)
(* that fails, k is the number it got.                                     *)
(***************************************************************************)
ReadCounts(n) == IF n > MAX_NOF_SIGNALS THEN {0}
                 ELSE IF MemoryFaults THEN 0 .. n ELSE {n}

\* A cell keeps what an earlier probe of the cycle left in it.
Copied(cells, n) == [cells EXCEPT ![actual_time] = n]

ReadI ==
  /\ pc = "read_i"
  /\ pc' = AfterReadI
  /\ IF is_major = 1
     THEN \E k \in ReadCounts(NOF_RISIGNALS) : in_trace' = Copied(in_trace, k)
     ELSE in_trace' = in_trace
  /\ UNCHANGED <<signal, minor_step, is_major, time, pertVars, outVars>>

\* A plausible slip: an incomplete read does not give up.
RecordPartial(k) ==
  LET kept == INTERACTIVE => Len(out_rb) < OutCap
  IN /\ out_rb' = IF kept /\ INTERACTIVE
                  THEN Append(out_rb, actual_time) ELSE out_rb
     /\ out_trace' = IF INTERACTIVE THEN out_trace ELSE Copied(out_trace, k)
     /\ lost' = IF kept THEN lost ELSE lost \cup {actual_time}

\* The record of a cycle, or the trace of it, after reading k signals.
Record(k) ==
  LET whole == k = NOF_ROSIGNALS
      kept == whole /\ (INTERACTIVE => Len(out_rb) < OutCap)
  IN /\ out_rb' = IF kept /\ INTERACTIVE
                  THEN Append(out_rb, actual_time) ELSE out_rb
     /\ out_trace' = IF INTERACTIVE THEN out_trace ELSE Copied(out_trace, k)
     /\ lost' = IF kept THEN lost ELSE lost \cup {actual_time}

\* A plausible slip: the major-step test is missing.
ReadOEveryStep ==
  /\ pc = "read_o"
  /\ pc' = "timer"
  /\ log_counter' = log_counter + 1
  /\ \E k \in ReadCounts(NOF_ROSIGNALS) : Record(k)
  /\ UNCHANGED <<signal, minor_step, is_major, time, pertVars, in_trace, consumed>>

ReadO ==
  /\ pc = "read_o"
  /\ pc' = "timer"
  /\ IF is_major = 1
     THEN /\ log_counter' = log_counter + 1
          /\ \E k \in ReadCounts(NOF_ROSIGNALS) : Record(k)
     ELSE UNCHANGED <<log_counter, out_rb, out_trace, lost>>
  /\ UNCHANGED <<signal, minor_step, is_major, time, pertVars, in_trace, consumed>>

\* The model's main loop ends, the model crashes, or the simulator kills it.
ModelExit ==
  /\ EarlyExit /\ pc # "gone" /\ signal = "none"
  /\ pc' = "gone"
  /\ UNCHANGED <<signal, minor_step, is_major, time, pertVars, in_trace, outVars>>
----------------------------------------------------------------------------
(***************************************************************************)
(* The injector program: reserves and submits one record, or skips it when *)
(* the ring is full.                                                       *)
(*                                                                         *)
(* NextDrain is the cycle whose write probe will drain the next record.    *)
(* Each cycle drains one record, so the ring gives a new record the cycle  *)
(* after those of the records before it: its slot, used by the properties  *)
(* only.                                                                   *)
(***************************************************************************)
NextDrain == IF pc = "write_i" /\ is_major = 1 THEN time - 1 ELSE time
Slot == NextDrain + Len(pert_rb)

\* A plausible slip: one record too many.
RingHasRoomForOneMore == Len(pert_rb) <= PertCap

RingHasRoom == Len(pert_rb) < PertCap

Inject ==
  /\ MODE \in {"signal", "state"}
  /\ Len(sent) < MaxInjections
  /\ \E t \in Times :
       LET id == Len(sent) + 1
       IN /\ sent' = Append(sent, [time |-> t, slot |-> Slot,
                                   fate |-> IF RingHasRoom THEN "queued" ELSE "full"])
          /\ pert_rb' = IF RingHasRoom THEN Append(pert_rb, id) ELSE pert_rb
  /\ UNCHANGED <<procVars, trace, state_trace, applied, in_trace, outVars>>

\* A plausible slip: waiting for a batch and never flushing a short one.
ConsumeBatch ==
  /\ Len(out_rb) > 1
  /\ consumed' = consumed \o out_rb
  /\ out_rb' = <<>>
  /\ UNCHANGED <<procVars, pertVars, in_trace, log_counter, out_trace, lost>>

\* The ring buffer reader of the monitor takes the oldest record.
Consume ==
  /\ out_rb # <<>>
  /\ consumed' = Append(consumed, Head(out_rb))
  /\ out_rb' = Tail(out_rb)
  /\ UNCHANGED <<procVars, pertVars, in_trace, log_counter, out_trace, lost>>

ProcessStep == Timer \/ WriteI \/ ReadI \/ ReadO

Next == \/ Timer \/ WriteI \/ ReadI \/ ReadO \/ ModelExit
        \/ Inject \/ Consume

\* The model's loop never blocks and the monitor polls for ever.
Fairness == WF_vars(ProcessStep) /\ WF_vars(Consume)

Spec == Init /\ [][Next]_vars /\ Fairness
----------------------------------------------------------------------------
(***************************************************************************)
(* Properties                                                              *)
(***************************************************************************)
\* time counts the major steps taken: it is minor_step divided by the ratio,
\* rounded up, and is_major tells whether the call in progress began a cycle.
TimeCountsMajorSteps ==
  /\ MINOR_TO_MAJOR_RATIO * (time - 1) < minor_step
  /\ minor_step <= MINOR_TO_MAJOR_RATIO * time
  /\ is_major = 1 <=> time > 0 /\ minor_step = MINOR_TO_MAJOR_RATIO * (time - 1) + 1

Writes == NOF_WISIGNALS \in 1 .. MAX_NOF_WISIGNALS

\* The timer kills the process only after the write probe of every cycle has
\* run and every cycle is logged: SIGKILL cuts no cycle short.  A process that
\* is not killed has not gone beyond its last cycle.
KilledWhenDone ==
  /\ signal = "SIGKILL" =>
       /\ NOF_ROSIGNALS > 0 => log_counter = MAX_CYCLES
       /\ Writes => \A c \in 0 .. MAX_CYCLES - 1 :
                      \E w \in applied : w.cycle = c
  /\ signal = "none" => time <= MAX_CYCLES

\* The records the reader has or will get.
Published == consumed \o out_rb

\* Every cycle logged by read_o is accounted for exactly once: interactively
\* as one record, in the order of the cycles, or as a loss (failed read,
\* full ring); otherwise as a full cell of the output trace, or as a loss.
OutputAccounted ==
  /\ \A i, j \in DOMAIN Published : i < j => Published[i] < Published[j]
  /\ INTERACTIVE => /\ Range(Published) \cap lost = {}
                    /\ Range(Published) \cup lost = 0 .. log_counter - 1
  /\ ~INTERACTIVE /\ NOF_ROSIGNALS > 0 =>
       {c \in Cells : out_trace[c] = NOF_ROSIGNALS}
          = (0 .. log_counter - 1) \ lost

TakenAt(c) == {id \in DOMAIN sent : sent[id].fate = "taken" /\ sent[id].time = c}

\* What is put into the model's memory for cycle w.cycle is due, all of it, or
\* nothing when the memory cannot be accessed; and it is put there once.
WrittenOnce(due(_)) ==
  /\ \A w \in applied : w.value = IF w.written THEN due(w.cycle) ELSE {}
  /\ \A v, w \in applied : v.cycle = w.cycle => v = w

\* What write_i writes for a cycle is the sum of exactly the records accepted
\* for that cycle: none is accepted for a cycle after that cycle was written,
\* none reaches another cycle, and one that was accepted is lost only with all
\* the others of its cycle, when the signal can not be read or written
\* (probe.c:534, 543); no later cycle makes up for that.
SignalsWrittenExactly == MODE = "signal" => WrittenOnce(TakenAt)

Latest(c) == {id \in TakenAt(c) : \A j \in TakenAt(c) : j <= id}

\* State changes for one cycle replace each other: the last one accepted for
\* it, and only that one, is written, unless the address it came with can not
\* be written (probe.c:588); none is accepted afterwards.
StateWrittenLast == MODE = "state" => WrittenOnce(Latest)

\* One record is drained per cycle, so a drained record is dropped as late
\* exactly when it was timed before the slot its place in the ring gave it:
\* a record offered in time is never overtaken by the simulation, whatever
\* the interleaving, and a late one never slips through.
LateIffOfferedLate ==
  \A id \in DOMAIN sent :
    /\ sent[id].fate = "late" => sent[id].time < sent[id].slot
    /\ sent[id].fate \in {"taken", "outside"} => sent[id].time >= sent[id].slot

\* Under a live reader the simulation ends and every record it published is
\* consumed.
SimulationStops == <>[](pc = "gone" /\ out_rb = <<>>)
============================================================================
