---------------------------- MODULE ProbeProofs ----------------------------
(***************************************************************************)
(* Proofs about Probe, for every number of cycles, ratio, ring capacity    *)
(* and sequence of injected records.                                       *)
(***************************************************************************)
EXTENDS Probe, TLAPS

\* Where the process is in its step function, and how far the logging is.
ProcInv ==
  /\ pc \in {"timer", "read_i", "read_o"} => signal = "none"
  /\ signal = "SIGKILL" => is_major = 1
  /\ signal = "none" => time <= MAX_CYCLES
  /\ is_major = 1 => time >= 1
  /\ pc = "write_i" => NOF_WISIGNALS > 0
  /\ log_counter <= time
  /\ is_major = 1 /\ pc \in {"write_i", "read_i", "read_o"} => log_counter < time

\* The ring holds queued records, oldest first, and nothing newer than them
\* has been drained.
QueueInv ==
  /\ \A p \in DOMAIN pert_rb :
       /\ pert_rb[p] \in DOMAIN sent
       /\ sent[pert_rb[p]].fate = "queued"
       /\ \A id \in DOMAIN sent : sent[id].fate = "taken" => id < pert_rb[p]
  /\ \A p, q \in DOMAIN pert_rb : p < q => pert_rb[p] < pert_rb[q]

TypeInv == TypeOK /\ ProcInv /\ QueueInv

LEMMA PositionFacts ==
  /\ AfterTimer \in {"timer", "write_i", "read_i", "read_o"}
  /\ AfterWrite \in {"timer", "read_i", "read_o"}
  /\ AfterReadI \in {"timer", "read_o"}
  /\ AfterTimer = "write_i" <=> NOF_WISIGNALS > 0
  /\ AfterKill \in {"write_i", "gone"}
  /\ AfterKill = "write_i" => NOF_WISIGNALS > 0
BY DEF AfterKill, AfterTimer, AfterWrite, AfterReadI

LEMMA FateFacts == \A t : FateOf(t) \in Fates \ {"queued"}
BY DEF FateOf, FateOfSignal, FateOfState, Fates

LEMMA ReadCountsFacts == \A n \in Nat : ReadCounts(n) \subseteq 0 .. n
BY DEF ReadCounts

LEMMA SeqFacts ==
  ASSUME NEW S, NEW s \in Seq(S)
  PROVE  Len(s) \in Nat /\ s \in [1 .. Len(s) -> S] /\ DOMAIN s = 1 .. Len(s)
OBVIOUS

LEMMA AppendFacts ==
  ASSUME NEW S, NEW s \in Seq(S), NEW x \in S
  PROVE  /\ Append(s, x) \in Seq(S) /\ Len(s) \in Nat
         /\ Len(Append(s, x)) = Len(s) + 1
OBVIOUS

LEMMA TailFacts ==
  ASSUME NEW S, NEW s \in Seq(S), s # <<>>
  PROVE  /\ Tail(s) \in Seq(S) /\ Len(s) \in Nat
         /\ Len(Tail(s)) = Len(s) - 1 /\ Head(s) \in S
OBVIOUS

LEMMA SeqOfFunction ==
  ASSUME NEW S, NEW n \in Nat, NEW s \in [1 .. n -> S]
  PROVE  s \in Seq(S) /\ Len(s) = n
OBVIOUS

\* The records of sent have a time in Times.
LEMMA SentFacts ==
  ASSUME TypePert
  PROVE  /\ Len(sent) \in Nat /\ DOMAIN sent = 1 .. Len(sent)
         /\ sent \in [1 .. Len(sent) -> SentRecords]
         /\ \A i \in DOMAIN sent : /\ sent[i] \in SentRecords
                                  /\ sent[i].time \in Times /\ sent[i].time \in Nat
                                  /\ sent[i].slot \in Nat
<1>1. sent \in Seq(SentRecords)
  BY DEF TypePert
<1>2. /\ Len(sent) \in Nat /\ DOMAIN sent = 1 .. Len(sent)
      /\ sent \in [1 .. Len(sent) -> SentRecords]
  BY <1>1, SeqFacts
<1>3. \A i \in DOMAIN sent : sent[i] \in SentRecords
  BY <1>2
<1> QED BY <1>2, <1>3, TimesAssumption DEF SentRecords

\* The initial state.
LEMMA InitTypeInv == Init => TypeInv
<1> SUFFICES ASSUME Init PROVE TypeInv
  OBVIOUS
<1>1. TypeProc
  BY CyclesAssumption DEF Init, TypeProc
<1>2. TypePert
  BY CapAssumption DEF Init, TypePert
<1>3. TypeOut
  BY CyclesAssumption, SignalsAssumption, CapAssumption DEF Init, TypeOut
<1>4. ProcInv /\ QueueInv
  BY CyclesAssumption DEF Init, ProcInv, QueueInv
<1> QED BY <1>1, <1>2, <1>3, <1>4 DEF TypeInv, TypeOK

LEMMA TimerTypeInv == TypeInv /\ Timer => TypeInv'
<1> SUFFICES ASSUME TypeInv, Timer PROVE TypeInv'
  OBVIOUS
<1> USE DEF TypeInv, TypeOK
<1>1. TypeProc' /\ ProcInv'
  BY PositionFacts, CyclesAssumption DEF TypeProc, TypeOut, ProcInv, Timer, outVars, Expired
<1>2. TypePert' /\ QueueInv'
  BY DEF TypePert, QueueInv, Timer, pertVars
<1>3. TypeOut'
  BY DEF TypeOut, Timer, outVars
<1> QED BY <1>1, <1>2, <1>3

\* Draining one record: the oldest leaves the ring, the others move up, and
\* nothing but the fate of the drained one changes in sent.
LEMMA DrainedFacts ==
  ASSUME TypeInv, pert_rb # <<>>, Drain
  PROVE  LET id == Head(pert_rb) IN
         /\ id = pert_rb[1] /\ id \in Ids /\ id \in Nat /\ id \in DOMAIN sent
         /\ Len(pert_rb) \in Nat /\ Len(pert_rb) >= 1 /\ 1 \in DOMAIN pert_rb
         /\ pert_rb' \in Seq(Ids) /\ Len(pert_rb') = Len(pert_rb) - 1
         /\ DOMAIN pert_rb' = 1 .. Len(pert_rb) - 1
         /\ \A p \in DOMAIN pert_rb' : /\ p \in Nat \ {0} /\ p + 1 \in DOMAIN pert_rb
                                      /\ pert_rb'[p] = pert_rb[p + 1]
         /\ DOMAIN sent' = DOMAIN sent
         /\ sent' \in [1 .. Len(sent) -> SentRecords]
         /\ \A i \in DOMAIN sent :
              /\ sent'[i].time = sent[i].time
              /\ sent'[i].slot = sent[i].slot
              /\ sent'[i].fate = IF i = id THEN FateOf(sent[id].time)
                                           ELSE sent[i].fate
<1> USE DEF TypeInv, TypeOK
<1> DEFINE id == Head(pert_rb)
           f == FateOf(sent[id].time)
<1>1. /\ pert_rb \in Seq(Ids) /\ Len(pert_rb) \in Nat /\ Len(pert_rb) >= 1
      /\ 1 \in DOMAIN pert_rb /\ Head(pert_rb) = pert_rb[1]
      /\ DOMAIN pert_rb = 1 .. Len(pert_rb)
  BY DEF TypePert
<1>2. id \in Ids /\ id \in DOMAIN sent
  BY <1>1 DEF QueueInv
<1>3. id \in Nat
  BY <1>2, CapAssumption DEF Ids
<1>4. pert_rb' = Tail(pert_rb) /\ sent' = [sent EXCEPT ![id].fate = f]
  BY DEF Drain, Drained
<1>5. /\ pert_rb' \in Seq(Ids) /\ Len(pert_rb') = Len(pert_rb) - 1
      /\ DOMAIN pert_rb' = 1 .. Len(pert_rb) - 1
      /\ \A p \in 1 .. Len(pert_rb) - 1 : pert_rb'[p] = pert_rb[p + 1]
  BY <1>1, <1>4
<1>6. sent' = [sent EXCEPT ![id] = [sent[id] EXCEPT !.fate = f]]
  BY <1>4
<1>7. [sent[id] EXCEPT !.fate = f] \in SentRecords
  BY <1>2, FateFacts, SentFacts DEF SentRecords
<1>8. sent' \in [1 .. Len(sent) -> SentRecords] /\ DOMAIN sent' = DOMAIN sent
  BY <1>6, <1>7, SentFacts
<1>9. \A i \in DOMAIN sent :
        /\ sent'[i].time = sent[i].time
        /\ sent'[i].slot = sent[i].slot
        /\ sent'[i].fate = IF i = id THEN f ELSE sent[i].fate
  BY <1>2, <1>6, SentFacts DEF SentRecords
<1> QED BY <1>1, <1>2, <1>3, <1>5, <1>8, <1>9

LEMMA DrainTyped ==
  ASSUME TypeInv, Drain
  PROVE  /\ trace' \in [Cells -> SUBSET Ids]
         /\ state_trace' \in [Times -> Ids \cup {0}]
         /\ pert_rb' \in Seq(Ids) /\ Len(pert_rb') <= PertCap
         /\ sent' \in Seq(SentRecords) /\ Len(sent') = Len(sent)
         /\ QueueInv'
<1> USE DEF TypeInv, TypeOK
<1>1. CASE pert_rb = <<>>
  BY <1>1 DEF Drain, TypePert, QueueInv
<1>2. CASE pert_rb # <<>>
  <2> DEFINE id == Head(pert_rb)
  <2> HIDE DEF id
  <2>1. /\ id = Head(pert_rb) /\ id \in Ids /\ id \in Nat
        /\ id \in DOMAIN sent /\ id = pert_rb[1] /\ 1 \in DOMAIN pert_rb
    BY <1>2, DrainedFacts DEF id
  <2>2. /\ \A p \in DOMAIN pert_rb' : /\ p \in Nat \ {0} /\ p + 1 \in DOMAIN pert_rb
                                     /\ pert_rb'[p] = pert_rb[p + 1]
        /\ DOMAIN sent' = DOMAIN sent
        /\ \A i \in DOMAIN sent :
             sent'[i].fate = IF i = id THEN FateOf(sent[id].time) ELSE sent[i].fate
    BY <1>2, DrainedFacts DEF id
  <2>3. trace' \in [Cells -> SUBSET Ids]
    <3>1. trace \in [Cells -> SUBSET Ids]
      BY DEF TypePert
    <3>2. trace' = trace \/ \E t : trace' = [trace EXCEPT ![t] = trace[t] \cup {id}]
      BY <1>2, <2>1 DEF Drain, Drained, Summed
    <3> QED BY <2>1, <3>1, <3>2
  <2>4. state_trace' \in [Times -> Ids \cup {0}]
    BY <1>2, <2>1 DEF Drain, Drained, TypePert
  <2>5. sent' \in Seq(SentRecords) /\ Len(sent') = Len(sent)
    BY <1>2, DrainedFacts, SeqOfFunction, SentFacts
  <2>6. pert_rb' \in Seq(Ids) /\ Len(pert_rb') <= PertCap
    BY <1>2, DrainedFacts, CapAssumption DEF TypePert
  <2>7. \A p \in DOMAIN pert_rb' : id < pert_rb'[p]
    BY <2>1, <2>2 DEF QueueInv
  <2>8. ASSUME NEW p \in DOMAIN pert_rb'
        PROVE  /\ pert_rb'[p] \in DOMAIN sent'
               /\ sent'[pert_rb'[p]].fate = "queued"
    <3>1. /\ pert_rb'[p] \in DOMAIN sent
          /\ sent[pert_rb'[p]].fate = "queued"
      BY <2>2 DEF QueueInv
    <3>2. pert_rb'[p] # id
      BY <2>7, <2>1
    <3> QED BY <2>2, <3>1, <3>2
  <2>9. \A p \in DOMAIN pert_rb' :
          \A i \in DOMAIN sent' : sent'[i].fate = "taken" => i < pert_rb'[p]
    BY <2>2, <2>7, ZenonT(60) DEF QueueInv, TypePert
  <2>10. \A p, q \in DOMAIN pert_rb' : p < q => pert_rb'[p] < pert_rb'[q]
    BY <2>2 DEF QueueInv, TypePert
  <2> QED BY <2>3, <2>4, <2>5, <2>6, <2>8, <2>9, <2>10 DEF QueueInv
<1> QED BY <1>1, <1>2

LEMMA WriteITypeInv == TypeInv /\ WriteI => TypeInv'
<1> SUFFICES ASSUME TypeInv, WriteI PROVE TypeInv'
  OBVIOUS
<1> USE DEF TypeInv, TypeOK
<1>1. TypeProc' /\ ProcInv'
  BY PositionFacts, CyclesAssumption DEF TypeProc, TypeOut, ProcInv, WriteI, outVars
<1>2. TypeOut'
  BY DEF TypeOut, WriteI, outVars
<1>3. TypePert' /\ QueueInv'
  <2>1. CASE is_major = 1 /\ NOF_WISIGNALS <= MAX_NOF_WISIGNALS
    <3>1. Drain /\ \E ok \in BOOLEAN :
                      applied' = applied \cup {WriteRecord(actual_time, ok)}
      BY <2>1 DEF WriteI, WriteOutcomes
    <3>2. actual_time \in 0 .. MAX_CYCLES
      BY <2>1, CyclesAssumption DEF actual_time, ProcInv, TypeProc
    <3>3. Written(actual_time) \in SUBSET Ids
      BY <3>1, DrainTyped DEF Written, WrittenState, WrittenSignals
    <3>4. applied' \subseteq
            [cycle : 0 .. MAX_CYCLES, written : BOOLEAN, value : SUBSET Ids]
      BY <3>1, <3>2, <3>3 DEF TypePert, WriteRecord
    <3> QED BY <3>1, <3>4, DrainTyped DEF TypePert
  <2>2. CASE ~(is_major = 1 /\ NOF_WISIGNALS <= MAX_NOF_WISIGNALS)
    BY <2>2 DEF WriteI, pertVars, TypePert, QueueInv
  <2> QED BY <2>1, <2>2
<1> QED BY <1>1, <1>2, <1>3

LEMMA ReadITypeInv == TypeInv /\ ReadI => TypeInv'
<1> SUFFICES ASSUME TypeInv, ReadI PROVE TypeInv'
  OBVIOUS
<1> USE DEF TypeInv, TypeOK
<1>1. TypeProc' /\ ProcInv'
  BY PositionFacts, CyclesAssumption DEF TypeProc, TypeOut, ProcInv, ReadI, outVars
<1>2. in_trace' \in [Cells -> 0 .. NOF_RISIGNALS]
  BY ReadCountsFacts, SignalsAssumption DEF TypeOut, ReadI, Copied
<1>3. TypeOut'
  BY <1>2 DEF TypeOut, ReadI, outVars
<1>4. TypePert' /\ QueueInv'
  BY DEF TypePert, QueueInv, ReadI, pertVars
<1> QED BY <1>1, <1>3, <1>4

LEMMA ReadOTypeInv == TypeInv /\ ReadO => TypeInv'
<1> SUFFICES ASSUME TypeInv, ReadO PROVE TypeInv'
  OBVIOUS
<1> USE DEF TypeInv, TypeOK
<1>1. TypeProc' /\ ProcInv'
  BY PositionFacts, CyclesAssumption DEF TypeProc, TypeOut, ProcInv, ReadO
<1>2. TypeOut'
  <2>1. CASE is_major = 1
    <3>1. actual_time \in 0 .. MAX_CYCLES - 1 /\ log_counter + 1 \in 0 .. MAX_CYCLES
      BY <2>1, CyclesAssumption DEF actual_time, ProcInv, TypeProc, TypeOut, ReadO
    <3>2. PICK k \in 0 .. NOF_ROSIGNALS : Record(k)
      BY <2>1, ReadCountsFacts, SignalsAssumption DEF ReadO
    <3>3. out_rb' \in Seq(0 .. MAX_CYCLES - 1) /\ Len(out_rb') <= OutCap
      <4>1. out_rb' = out_rb \/ /\ out_rb' = Append(out_rb, actual_time)
                                /\ Len(out_rb) < OutCap
        BY <3>2 DEF Record
      <4>2. out_rb \in Seq(0 .. MAX_CYCLES - 1) /\ Len(out_rb) <= OutCap
        BY DEF TypeOut
      <4>3. /\ Len(out_rb) \in Nat
            /\ Append(out_rb, actual_time) \in Seq(0 .. MAX_CYCLES - 1)
            /\ Len(Append(out_rb, actual_time)) = Len(out_rb) + 1
        BY <3>1, <4>2, AppendFacts
      <4>4. CASE out_rb' = out_rb
        BY <4>2, <4>4
      <4>5. CASE out_rb' = Append(out_rb, actual_time) /\ Len(out_rb) < OutCap
        <5>1. out_rb' \in Seq(0 .. MAX_CYCLES - 1)
          BY <4>3, <4>5
        <5>2. Len(out_rb') = Len(out_rb) + 1 /\ Len(out_rb) \in Nat
          BY <4>3, <4>5
        <5> QED BY <4>5, <5>1, <5>2, CapAssumption
      <4> QED BY <4>1, <4>4, <4>5
    <3>4. out_trace' \in [Cells -> 0 .. NOF_ROSIGNALS]
      BY <3>2 DEF Record, Copied, TypeOut
    <3>5. lost' \subseteq 0 .. MAX_CYCLES - 1
      BY <3>1, <3>2 DEF Record, TypeOut
    <3> QED BY <2>1, <3>1, <3>3, <3>4, <3>5 DEF TypeOut, ReadO
  <2>2. CASE is_major # 1
    BY <2>2 DEF TypeOut, ReadO
  <2> QED BY <2>1, <2>2
<1>3. TypePert' /\ QueueInv'
  BY DEF TypePert, QueueInv, ReadO, pertVars
<1> QED BY <1>1, <1>2, <1>3

LEMMA ModelExitTypeInv == TypeInv /\ ModelExit => TypeInv'
<1> SUFFICES ASSUME TypeInv, ModelExit PROVE TypeInv'
  OBVIOUS
<1> USE DEF TypeInv, TypeOK
<1>1. TypeProc' /\ ProcInv'
  BY DEF TypeProc, TypeOut, ProcInv, ModelExit, outVars
<1>2. TypeOut'
  BY DEF TypeOut, ModelExit, outVars
<1>3. TypePert' /\ QueueInv'
  BY DEF TypePert, QueueInv, ModelExit, pertVars
<1> QED BY <1>1, <1>2, <1>3

LEMMA InjectTypeInv == TypeInv /\ Inject => TypeInv'
<1> SUFFICES ASSUME TypeInv, Inject PROVE TypeInv'
  OBVIOUS
<1> USE DEF TypeInv, TypeOK
<1> DEFINE id == Len(sent) + 1
<1>1. TypeProc' /\ ProcInv' /\ TypeOut'
  BY DEF TypeProc, TypeOut, ProcInv, Inject, procVars, outVars
<1>2. PICK t \in Times :
        /\ sent' = Append(sent, [time |-> t, slot |-> Slot,
                       fate |-> IF RingHasRoom THEN "queued" ELSE "full"])
        /\ pert_rb' = IF RingHasRoom THEN Append(pert_rb, id) ELSE pert_rb
  BY DEF Inject
<1>3. Slot \in Nat
  BY CyclesAssumption DEF Slot, NextDrain, TypeProc, TypePert, ProcInv
<1>4. sent' \in Seq(SentRecords) /\ Len(sent') <= MaxInjections
  BY <1>2, <1>3, CapAssumption DEF Inject, TypePert, SentRecords, Fates
<1>5. id \in Ids
  BY SentFacts, CapAssumption DEF Inject, Ids
<1>6. pert_rb' \in Seq(Ids) /\ Len(pert_rb') <= PertCap
  BY <1>2, <1>5, CapAssumption DEF TypePert, RingHasRoom
<1>7. TypePert'
  BY <1>4, <1>6 DEF TypePert, Inject
<1>8. QueueInv'
  BY <1>2, SentFacts, SMTT(30) DEF QueueInv, TypePert, RingHasRoom
<1> QED BY <1>1, <1>7, <1>8

LEMMA ConsumeTypeInv == TypeInv /\ Consume => TypeInv'
<1> SUFFICES ASSUME TypeInv, Consume PROVE TypeInv'
  OBVIOUS
<1> USE DEF TypeInv, TypeOK
<1>1. TypeProc' /\ ProcInv'
  BY DEF TypeProc, TypeOut, ProcInv, Consume, procVars
<1>2. TypePert' /\ QueueInv'
  BY DEF TypePert, QueueInv, Consume, pertVars
<1>3. TypeOut'
  <2>1. out_rb # <<>> /\ out_rb' = Tail(out_rb) /\ consumed' = Append(consumed, Head(out_rb))
    BY DEF Consume
  <2>2. out_rb \in Seq(0 .. MAX_CYCLES - 1) /\ consumed \in Seq(0 .. MAX_CYCLES - 1)
    BY DEF TypeOut
  <2>3. /\ Head(out_rb) \in 0 .. MAX_CYCLES - 1
        /\ out_rb' \in Seq(0 .. MAX_CYCLES - 1)
        /\ Len(out_rb) \in Nat /\ Len(out_rb') = Len(out_rb) - 1
    BY <2>1, <2>2, TailFacts
  <2>4. consumed' \in Seq(0 .. MAX_CYCLES - 1)
    BY <2>1, <2>2, <2>3, AppendFacts
  <2> QED BY <2>3, <2>4, CapAssumption DEF TypeOut, Consume
<1> QED BY <1>1, <1>2, <1>3

LEMMA StutterTypeInv == TypeInv /\ UNCHANGED vars => TypeInv'
BY DEF TypeInv, TypeOK, TypeProc, TypePert, TypeOut, ProcInv, QueueInv,
       vars, procVars, pertVars, outVars

\* The inductive invariant behind type correctness holds in every state.
THEOREM TypeInvariant == Spec => []TypeInv
<1>1. TypeInv /\ [Next]_vars => TypeInv'
  BY TimerTypeInv, WriteITypeInv, ReadITypeInv, ReadOTypeInv, ModelExitTypeInv,
     InjectTypeInv, ConsumeTypeInv, StutterTypeInv DEF Next
<1> QED BY InitTypeInv, <1>1, PTL DEF Spec

\* Every reachable state is well typed: no ring overflows, no probe works on
\* a cycle beyond the simulation, at most MAX_CYCLES cycles are logged.
THEOREM TypeCorrect == Spec => []TypeOK
BY TypeInvariant, PTL DEF TypeInv
----------------------------------------------------------------------------
(***************************************************************************)
(* What becomes of the injected records: LateIffOfferedLate,               *)
(* SignalsWrittenExactly and StateWrittenLast.                             *)
(***************************************************************************)
\* While the process lives and drains at all, the record at place p of the
\* ring will be drained by the write probe of cycle NextDrain + p - 1.
SlotInv ==
  Writes /\ pc # "gone" =>
    \A p \in DOMAIN pert_rb : sent[pert_rb[p]].slot = NextDrain + p - 1

LateInv == SlotInv /\ LateIffOfferedLate

\* What was written of due, when it was.
Due(w, due) == IF w.written THEN due ELSE {}

\* A cycle is written once.
OnceInv == \A v, w \in applied : v.cycle = w.cycle => v = w

\* Each trace cell is the sum of the records accepted for it, and the cycles
\* already written are behind the next drain.
SignalInv ==
  MODE = "signal" =>
    /\ \A c \in Cells : trace[c] = TakenAt(c)
    /\ \A i \in DOMAIN sent : sent[i].fate = "taken" => sent[i].time \in Cells
    /\ \A w \in applied : w.cycle < NextDrain /\ w.value = Due(w, TakenAt(w.cycle))
    /\ OnceInv

\* The state map holds the last record accepted for each time.
StateInv ==
  MODE = "state" =>
    /\ \A t \in Times : Latest(t) = IF state_trace[t] = 0 THEN {} ELSE {state_trace[t]}
    /\ \A w \in applied : w.cycle < NextDrain /\ w.value = Due(w, Latest(w.cycle))
    /\ OnceInv
    /\ \A t \in Times : \A id \in TakenAt(t) : id \in Nat /\ state_trace[t] # 0

InjInv == LateInv /\ SignalInv /\ StateInv

LEMMA NextDrainFacts ==
  ASSUME TypeInv
  PROVE  NextDrain \in Int /\ NextDrain <= time /\ time \in Nat
BY CyclesAssumption DEF TypeInv, TypeOK, TypeProc, NextDrain

LEMMA InitInjInv == Init => InjInv
<1> SUFFICES ASSUME Init PROVE InjInv
  OBVIOUS
<1>1. \A c : TakenAt(c) = {}
  BY DEF Init, TakenAt
<1>2. LateInv
  BY DEF Init, LateInv, SlotInv, LateIffOfferedLate
<1>3. SignalInv
  BY <1>1 DEF Init, SignalInv, OnceInv
<1>4. StateInv
  BY <1>1 DEF Init, StateInv, Latest, OnceInv
<1> QED BY <1>2, <1>3, <1>4 DEF InjInv

(***************************************************************************)
(* A step that touches none of the records preserves the invariant when    *)
(* the next drain stays the same while the process lives, and does not go  *)
(* back when it ends.                                                      *)
(***************************************************************************)
LEMMA QuietInjInv ==
  ASSUME TypeInv, InjInv, UNCHANGED pertVars, TypeInv',
         NextDrain' >= NextDrain,
         Writes /\ pc' # "gone" => pc # "gone" /\ NextDrain' = NextDrain
  PROVE  InjInv'
<1> USE DEF InjInv, pertVars
<1>1. \A c : TakenAt(c)' = TakenAt(c) /\ Latest(c)' = Latest(c)
  BY DEF TakenAt, Latest
<1>2. NextDrain \in Int /\ NextDrain' \in Int
  BY CyclesAssumption DEF TypeInv, TypeOK, TypeProc, NextDrain
<1>3. LateInv'
  BY DEF LateInv, SlotInv, LateIffOfferedLate
<1>4. \A w \in applied' : w.cycle \in Nat
  BY CyclesAssumption DEF TypeInv, TypeOK, TypePert
<1>5. \A w \in applied' : w \in applied
  OBVIOUS
<1>6. SignalInv'
  BY <1>1, <1>2, <1>4, <1>5 DEF SignalInv, Due, OnceInv
<1>7. StateInv'
  BY <1>1, <1>2, <1>4, <1>5 DEF StateInv, Due, OnceInv
<1> QED BY <1>3, <1>6, <1>7

LEMMA TimerInjInv == TypeInv /\ InjInv /\ TypeInv' /\ Timer => InjInv'
<1> SUFFICES ASSUME TypeInv, InjInv, TypeInv', Timer PROVE InjInv'
  OBVIOUS
<1>1. NextDrain = time /\ time \in Nat /\ pc = "timer" /\ time <= MAX_CYCLES
  BY CyclesAssumption DEF TypeInv, TypeOK, TypeProc, ProcInv, NextDrain, Timer
<1>2. CASE Major
  <2>1. time' = time + 1 /\ is_major' = 1
    BY <1>2 DEF Timer
  <2>2. NextDrain' >= NextDrain
    BY <1>1, <2>1 DEF NextDrain
  <2>3. Writes /\ pc' # "gone" => pc' = "write_i"
    BY SignalsAssumption DEF Timer, Writes, AfterTimer, AfterKill
  <2>4. Writes /\ pc' # "gone" => NextDrain' = NextDrain
    BY <1>1, <2>1, <2>3 DEF NextDrain
  <2> QED BY <1>1, <2>2, <2>4, QuietInjInv DEF Timer
<1>3. CASE ~Major
  <2>1. time' = time /\ is_major' = 0
    BY <1>3 DEF Timer
  <2>2. NextDrain' = NextDrain
    BY <1>1, <2>1 DEF NextDrain
  <2> QED BY <1>1, <2>2, QuietInjInv DEF Timer
<1> QED BY <1>2, <1>3

LEMMA ReadInjInv ==
  TypeInv /\ InjInv /\ TypeInv' /\ (ReadI \/ ReadO \/ ModelExit \/ Consume) => InjInv'
<1> SUFFICES ASSUME TypeInv, InjInv, TypeInv', ReadI \/ ReadO \/ ModelExit \/ Consume
             PROVE InjInv'
  OBVIOUS
<1>1. CASE ReadI \/ ReadO
  BY <1>1, QuietInjInv, PositionFacts, NextDrainFacts DEF ReadI, ReadO, NextDrain
<1>2. CASE ModelExit
  BY <1>2, QuietInjInv, NextDrainFacts DEF ModelExit, NextDrain
<1>3. CASE Consume
  BY <1>3, QuietInjInv, NextDrainFacts DEF Consume, NextDrain, procVars
<1> QED BY <1>1, <1>2, <1>3

LEMMA StutterInjInv == TypeInv /\ InjInv /\ TypeInv' /\ UNCHANGED vars => InjInv'
BY QuietInjInv, NextDrainFacts DEF vars, procVars, NextDrain

\* A new record gets the slot after the last of the ring; its fate is not
\* decided, so what was accepted so far stays.
LEMMA InjectInjInv == TypeInv /\ InjInv /\ TypeInv' /\ Inject => InjInv'
<1> SUFFICES ASSUME TypeInv, InjInv, TypeInv', Inject PROVE InjInv'
  OBVIOUS
<1> USE DEF InjInv
<1> DEFINE id == Len(sent) + 1
<1>1. PICK t \in Times :
        /\ sent' = Append(sent, [time |-> t, slot |-> Slot,
                       fate |-> IF RingHasRoom THEN "queued" ELSE "full"])
        /\ pert_rb' = IF RingHasRoom THEN Append(pert_rb, id) ELSE pert_rb
  BY DEF Inject
<1>2. /\ Len(sent) \in Nat /\ DOMAIN sent = 1 .. Len(sent)
      /\ sent \in Seq(SentRecords)
      /\ pert_rb \in Seq(Ids) /\ Len(pert_rb) \in Nat
      /\ DOMAIN pert_rb = 1 .. Len(pert_rb)
  BY SentFacts DEF TypeInv, TypeOK, TypePert
<1>3. /\ DOMAIN sent' = 1 .. id
      /\ \A i \in DOMAIN sent : sent'[i] = sent[i]
      /\ sent'[id].slot = Slot /\ sent'[id].fate \in {"queued", "full"}
  BY <1>1, <1>2
<1>4. NextDrain' = NextDrain /\ NextDrain \in Int /\ pc' = pc
      /\ UNCHANGED <<trace, state_trace, applied>>
  BY NextDrainFacts DEF Inject, procVars, NextDrain
<1>5. \A c : TakenAt(c)' = TakenAt(c)
  BY <1>2, <1>3 DEF TakenAt
<1>6. \A c : Latest(c)' = Latest(c)
  BY <1>5 DEF Latest
<1>7. SlotInv'
  <2>1. CASE RingHasRoom
    <3>1. /\ DOMAIN pert_rb' = 1 .. Len(pert_rb) + 1
          /\ \A p \in DOMAIN pert_rb : pert_rb'[p] = pert_rb[p]
          /\ pert_rb'[Len(pert_rb) + 1] = id
      BY <2>1, <1>1, <1>2
    <3> SUFFICES ASSUME Writes, pc # "gone", NEW p \in DOMAIN pert_rb'
                 PROVE  sent'[pert_rb'[p]].slot = NextDrain + p - 1
      BY <1>4 DEF SlotInv
    <3>2. CASE p \in DOMAIN pert_rb
      <4>1. pert_rb[p] \in DOMAIN sent
        BY <3>2 DEF TypeInv, QueueInv
      <4> QED BY <3>1, <3>2, <4>1, <1>3 DEF LateInv, SlotInv
    <3>3. CASE p = Len(pert_rb) + 1
      BY <3>1, <3>3, <1>2, <1>3, <1>4 DEF Slot
    <3> QED BY <3>1, <3>2, <3>3, <1>2
  <2>2. CASE ~RingHasRoom
    <3>1. pert_rb' = pert_rb
      BY <2>2, <1>1
    <3> QED BY <3>1, <1>3, <1>4 DEF LateInv, SlotInv, TypeInv, QueueInv
  <2> QED BY <2>1, <2>2
<1>8. LateIffOfferedLate'
  BY <1>2, <1>3 DEF LateInv, LateIffOfferedLate
<1>9. SignalInv'
  BY <1>2, <1>3, <1>4, <1>5 DEF SignalInv, Due, OnceInv
<1>10. StateInv'
  BY <1>4, <1>5, <1>6 DEF StateInv, Due, OnceInv
<1> QED BY <1>7, <1>8, <1>9, <1>10 DEF LateInv

(***************************************************************************)
(* The write probe of a cycle: one record is drained, then the cycle is    *)
(* written.  DrainStep collects what the drain does to the history.        *)
(***************************************************************************)
LEMMA DrainStep ==
  ASSUME TypeInv, InjInv, WriteI, is_major = 1, NOF_WISIGNALS <= MAX_NOF_WISIGNALS
  PROVE  /\ Drain /\ Writes /\ pc = "write_i" /\ pc' # "write_i"
         /\ time \in Nat \ {0} /\ actual_time = time - 1
         /\ NextDrain = time - 1 /\ NextDrain' = time
         /\ \E ok \in BOOLEAN : applied' = applied \cup {WriteRecord(time - 1, ok)}
<1>1. time \in Nat \ {0} /\ pc = "write_i" /\ actual_time = time - 1
      /\ NextDrain = time - 1
  BY CyclesAssumption DEF TypeInv, TypeOK, TypeProc, ProcInv, WriteI, NextDrain, actual_time
<1>2. Writes
  BY <1>1, SignalsAssumption DEF TypeInv, ProcInv, Writes
<1>3. pc' # "write_i" /\ time' = time
  BY PositionFacts DEF WriteI
<1>4. NextDrain' = time
  BY <1>1, <1>3 DEF NextDrain
<1>5. Drain /\ \E ok \in BOOLEAN : applied' = applied \cup {WriteRecord(actual_time, ok)}
  BY DEF WriteI, WriteOutcomes
<1> QED BY <1>1, <1>2, <1>3, <1>4, <1>5

LEMMA DrainLateInv ==
  ASSUME TypeInv, InjInv, WriteI, is_major = 1, NOF_WISIGNALS <= MAX_NOF_WISIGNALS
  PROVE  LateInv'
<1> USE DEF InjInv, LateInv
<1>1. CASE pert_rb = <<>>
  <2>1. UNCHANGED <<pert_rb, sent>>
    BY <1>1, DrainStep DEF Drain
  <2> QED BY <1>1, <2>1 DEF SlotInv, LateIffOfferedLate
<1>2. CASE pert_rb # <<>>
  <2> DEFINE id == Head(pert_rb)
  <2> HIDE DEF id
  <2>1. /\ id = pert_rb[1] /\ id \in DOMAIN sent /\ 1 \in DOMAIN pert_rb
        /\ \A p \in DOMAIN pert_rb' : /\ p \in Nat \ {0} /\ p + 1 \in DOMAIN pert_rb
                                     /\ pert_rb'[p] = pert_rb[p + 1]
        /\ DOMAIN sent' = DOMAIN sent
        /\ \A i \in DOMAIN sent :
             /\ sent'[i].time = sent[i].time
             /\ sent'[i].slot = sent[i].slot
             /\ sent'[i].fate = IF i = id THEN FateOf(sent[id].time)
                                          ELSE sent[i].fate
    BY <1>2, DrainStep, DrainedFacts DEF id
  <2>2. sent[id].slot = time - 1 /\ sent[id].time \in Nat /\ time \in Nat
    BY <2>1, DrainStep, SentFacts DEF SlotInv, TypeInv, TypeOK
  <2>3. FateOf(sent[id].time) = "late" <=> sent[id].time < sent[id].slot
    BY <2>2, DrainStep DEF FateOf, FateOfSignal, FateOfState, Late
  <2>4. LateIffOfferedLate'
    BY <2>1, <2>2, <2>3 DEF LateIffOfferedLate
  <2>5. SlotInv'
    <3> SUFFICES ASSUME NEW p \in DOMAIN pert_rb'
                 PROVE  sent'[pert_rb'[p]].slot = time + p - 1
      BY DrainStep DEF SlotInv
    <3>1. /\ p \in Nat /\ p + 1 \in DOMAIN pert_rb
          /\ pert_rb'[p] = pert_rb[p + 1] /\ pert_rb[p + 1] \in DOMAIN sent
      BY <2>1 DEF TypeInv, QueueInv
    <3>2. sent[pert_rb[p + 1]].slot = time - 1 + (p + 1) - 1
      BY <3>1, DrainStep DEF SlotInv
    <3> QED BY <2>1, <2>2, <3>1, <3>2
  <2> QED BY <2>4, <2>5
<1> QED BY <1>1, <1>2

\* The records accepted for each cycle, after a drain: the drained one joins
\* those of its time when it is accepted, and it is newer than all of them.
LEMMA DrainTaken ==
  ASSUME TypeInv, Drain, pert_rb # <<>>
  PROVE  LET id == Head(pert_rb)
             t == sent[id].time
         IN /\ id \in Nat \ {0} /\ t \in Times /\ t \in Nat
            /\ \A c : TakenAt(c)' = IF FateOf(t) = "taken" /\ c = t
                                    THEN TakenAt(c) \cup {id} ELSE TakenAt(c)
            /\ \A c : \A j \in TakenAt(c) : j \in Nat /\ j < id
<1> DEFINE id == Head(pert_rb)
           t == sent[id].time
<1> HIDE DEF id
<1>1. /\ id = pert_rb[1] /\ id \in Ids /\ id \in DOMAIN sent /\ 1 \in DOMAIN pert_rb
      /\ DOMAIN sent' = DOMAIN sent
      /\ \A i \in DOMAIN sent :
           /\ sent'[i].time = sent[i].time
           /\ sent'[i].fate = IF i = id THEN FateOf(t) ELSE sent[i].fate
  BY DrainedFacts DEF id
<1>2. t \in Times /\ t \in Nat
  BY <1>1, SentFacts DEF TypeInv, TypeOK
<1>3. \A j \in DOMAIN sent : j \in Nat
  BY SentFacts DEF TypeInv, TypeOK
<1>4. \A c : \A j \in TakenAt(c) : j \in Nat /\ j < id
  BY <1>1, <1>3 DEF TakenAt, TypeInv, QueueInv
<1>5. \A c : TakenAt(c)' = IF FateOf(t) = "taken" /\ c = t
                           THEN TakenAt(c) \cup {id} ELSE TakenAt(c)
  <2> SUFFICES ASSUME NEW c
               PROVE  TakenAt(c)' = IF FateOf(t) = "taken" /\ c = t
                                    THEN TakenAt(c) \cup {id} ELSE TakenAt(c)
    OBVIOUS
  <2>1. sent[id].fate = "queued"
    BY <1>1 DEF TypeInv, QueueInv
  <2>2. TakenAt(c)' = {i \in DOMAIN sent : sent'[i].fate = "taken" /\ sent'[i].time = c}
    BY <1>1 DEF TakenAt
  <2>3. id \notin TakenAt(c)
    BY <2>1 DEF TakenAt
  <2>4. \A i : i # id => (i \in TakenAt(c)' <=> i \in TakenAt(c))
    BY <1>1, <2>2 DEF TakenAt
  <2>5. id \in TakenAt(c)' <=> FateOf(t) = "taken" /\ c = t
    BY <1>1, <2>2
  <2>6. CASE FateOf(t) = "taken" /\ c = t
    <3>1. TakenAt(c)' = TakenAt(c) \cup {id}
      BY <2>6, <2>4, <2>5
    <3> QED BY <2>6, <3>1
  <2>7. CASE ~(FateOf(t) = "taken" /\ c = t)
    <3>1. id \notin TakenAt(c)' /\ id \notin TakenAt(c)
      BY <2>7, <2>3, <2>5
    <3>2. \A i : i \in TakenAt(c)' <=> i \in TakenAt(c)
      BY <3>1, <2>4
    <3>3. TakenAt(c)' = TakenAt(c)
      <4> DEFINE A == TakenAt(c)'
                 B == TakenAt(c)
      <4>1. \A i : i \in A <=> i \in B
        BY <3>2
      <4> HIDE DEF A, B
      <4>2. A = B
        BY <4>1
      <4> QED BY <4>2 DEF A, B
    <3> QED BY <2>7, <3>3
  <2> QED BY <2>6, <2>7
<1>6. id \in Nat \ {0}
  BY <1>1, CapAssumption DEF Ids
<1> QED BY <1>2, <1>4, <1>5, <1>6 DEF id

\* The drain accepts nothing for a cycle before the one being written.
LEMMA AcceptedNotPast ==
  ASSUME NEW t \in Nat, FateOf(t) = "taken", time \in Nat
  PROVE  t >= time - 1 /\ (MODE # "state" => t \in Cells)
BY DEF FateOf, FateOfSignal, FateOfState, Late, actual_time

LEMMA DrainSignalInv ==
  ASSUME TypeInv, InjInv, WriteI, is_major = 1, NOF_WISIGNALS <= MAX_NOF_WISIGNALS
  PROVE  SignalInv'
<1> USE DEF InjInv
<1>0. (\A c : c \notin Cells => TakenAt(c)' = {})
        => \A i \in DOMAIN sent' : sent'[i].fate = "taken" => sent'[i].time \in Cells
  BY DEF TakenAt
<1> SUFFICES ASSUME MODE = "signal"
             PROVE  /\ \A c \in Cells : trace'[c] = TakenAt(c)'
                    /\ \A c : c \notin Cells => TakenAt(c)' = {}
                    /\ \A w \in applied' : /\ w.cycle < NextDrain'
                                            /\ w.value = Due(w, TakenAt(w.cycle)')
                    /\ OnceInv'
  BY <1>0 DEF SignalInv, Due
<1>1. \A c \in Cells : trace[c] = TakenAt(c)
  BY DEF SignalInv
<1>2. \A c : c \notin Cells => TakenAt(c) = {}
  BY DEF SignalInv, TakenAt
<1>3. /\ time \in Nat \ {0} /\ NextDrain = time - 1 /\ NextDrain' = time
      /\ \A w \in applied : /\ w.cycle \in Nat /\ w.cycle < time - 1
                            /\ w.value = Due(w, TakenAt(w.cycle))
      /\ OnceInv
  BY DrainStep, CyclesAssumption DEF SignalInv, TypeInv, TypeOK, TypePert
<1>4. /\ \A c \in Cells : trace'[c] = TakenAt(c)'
      /\ \A c : c \notin Cells => TakenAt(c)' = {}
      /\ \A c : c \in Nat /\ c < time - 1 => TakenAt(c)' = TakenAt(c)
  <2>1. CASE pert_rb = <<>>
    <3>1. UNCHANGED <<trace, sent>>
      BY <2>1, DrainStep DEF Drain
    <3> QED BY <3>1, <1>1, <1>2 DEF TakenAt
  <2>2. CASE pert_rb # <<>>
    <3> DEFINE id == Head(pert_rb)
               t == sent[id].time
    <3>1. trace' = IF FateOf(t) = "taken" THEN [trace EXCEPT ![t] = trace[t] \cup {id}]
                                          ELSE trace
      BY <2>2, DrainStep DEF Drain, Drained, Summed
    <3>2. /\ t \in Nat
          /\ \A c : TakenAt(c)' = IF FateOf(t) = "taken" /\ c = t
                                  THEN TakenAt(c) \cup {id} ELSE TakenAt(c)
      BY <2>2, DrainStep, DrainTaken
    <3> HIDE DEF id, t
    <3>3. FateOf(t) = "taken" => t >= time - 1 /\ t \in Cells
      BY <3>2, <1>3, AcceptedNotPast
    <3>4. trace \in [Cells -> SUBSET Ids]
      BY DEF TypeInv, TypeOK, TypePert
    <3>5. \A c \in Cells : trace'[c] = TakenAt(c)'
      BY <3>1, <3>2, <3>3, <3>4, <1>1
    <3>6. \A c : c \notin Cells => TakenAt(c)' = {}
      BY <3>2, <3>3, <1>2
    <3>7. \A c : c \in Nat /\ c < time - 1 => TakenAt(c)' = TakenAt(c)
      BY <3>2, <3>3, <1>3
    <3> QED BY <3>5, <3>6, <3>7
  <2> QED BY <2>1, <2>2
<1>5. \A c : Written(c) = TakenAt(c)'
  BY <1>4 DEF Written, WrittenSignals
<1>6. PICK ok \in BOOLEAN : applied' = applied \cup {WriteRecord(time - 1, ok)}
  BY DrainStep
<1>7. ASSUME NEW w \in applied'
      PROVE  w.cycle < NextDrain' /\ w.value = Due(w, TakenAt(w.cycle)')
  <2>1. CASE w \in applied
    BY <2>1, <1>3, <1>4 DEF Due
  <2>2. CASE w = WriteRecord(time - 1, ok)
    BY <2>2, <1>3, <1>5 DEF WriteRecord, Due
  <2> QED BY <2>1, <2>2, <1>6
<1>8. OnceInv'
  <2>1. WriteRecord(time - 1, ok).cycle = time - 1
    BY DEF WriteRecord
  <2>2. \A w \in applied : w.cycle # time - 1
    BY <1>3
  <2> QED BY <2>1, <2>2, <1>3, <1>6 DEF OnceInv
<1> QED BY <1>4, <1>7, <1>8

LEMMA DrainStateInv ==
  ASSUME TypeInv, InjInv, WriteI, is_major = 1, NOF_WISIGNALS <= MAX_NOF_WISIGNALS
  PROVE  StateInv'
<1> USE DEF InjInv
<1> SUFFICES ASSUME MODE = "state" PROVE StateInv'
  BY DEF StateInv
<1> DEFINE Held(c) == IF state_trace[c] = 0 THEN {} ELSE {state_trace[c]}
<1>1. \A c \in Times : Latest(c) = Held(c)
  BY DEF StateInv
<1>2. \A c : c \notin Times => TakenAt(c) = {}
  BY SentFacts DEF TakenAt, TypeInv, TypeOK
<1>3. /\ time \in Nat \ {0} /\ NextDrain = time - 1 /\ NextDrain' = time
      /\ \A w \in applied : /\ w.cycle \in Nat /\ w.cycle < time - 1
                            /\ w.value = Due(w, Latest(w.cycle))
      /\ OnceInv
  BY DrainStep, CyclesAssumption DEF StateInv, TypeInv, TypeOK, TypePert
<1>4. /\ \A c \in Times : Latest(c)' = Held(c)'
      /\ \A c \in Times : \A i \in TakenAt(c)' : i \in Nat /\ state_trace'[c] # 0
      /\ \A c : c \notin Times => TakenAt(c)' = {}
      /\ \A c : c \in Nat /\ c < time - 1 => Latest(c)' = Latest(c)
  <2>1. CASE pert_rb = <<>>
    <3>1. UNCHANGED <<state_trace, sent>>
      BY <2>1, DrainStep DEF Drain
    <3>2. \A c : TakenAt(c)' = TakenAt(c) /\ Latest(c)' = Latest(c)
      BY <3>1 DEF TakenAt, Latest
    <3> QED BY <3>1, <3>2, <1>1, <1>2 DEF StateInv
  <2>2. CASE pert_rb # <<>>
    <3> DEFINE id == Head(pert_rb)
               t == sent[id].time
    <3>1. state_trace' = IF FateOf(t) = "taken" THEN [state_trace EXCEPT ![t] = id]
                                                ELSE state_trace
      BY <2>2, DrainStep DEF Drain, Drained
    <3>2. /\ id \in Nat \ {0} /\ t \in Nat /\ t \in Times
          /\ \A c : TakenAt(c)' = IF FateOf(t) = "taken" /\ c = t
                                  THEN TakenAt(c) \cup {id} ELSE TakenAt(c)
          /\ \A c : \A j \in TakenAt(c) : j \in Nat /\ j < id
      BY <2>2, DrainStep, DrainTaken
    <3> HIDE DEF id, t
    <3>3. FateOf(t) = "taken" => t >= time - 1
      BY <3>2, <1>3, AcceptedNotPast
    <3>4. \A c : Latest(c)' = {i \in TakenAt(c)' : \A j \in TakenAt(c)' : j <= i}
      BY DEF Latest
    <3>5. \A c : Latest(c)' = IF FateOf(t) = "taken" /\ c = t THEN {id} ELSE Latest(c)
      <4> SUFFICES ASSUME NEW c
                   PROVE  Latest(c)' = IF FateOf(t) = "taken" /\ c = t
                                       THEN {id} ELSE Latest(c)
        OBVIOUS
      <4>1. CASE FateOf(t) = "taken" /\ c = t
        <5>1. TakenAt(c)' = TakenAt(c) \cup {id}
          BY <4>1, <3>2
        <5>2. id \in Latest(c)'
          BY <5>1, <3>2, <3>4
        <5>3. \A i \in Latest(c)' : i = id
          BY <5>1, <3>2, <3>4
        <5> QED BY <4>1, <5>2, <5>3
      <4>2. CASE ~(FateOf(t) = "taken" /\ c = t)
        <5>1. TakenAt(c)' = TakenAt(c)
          BY <4>2, <3>2
        <5> QED BY <4>2, <5>1, <3>4 DEF Latest
      <4> QED BY <4>1, <4>2
    <3>6. state_trace \in [Times -> Ids \cup {0}]
      BY DEF TypeInv, TypeOK, TypePert
    <3>7. \A c \in Times : Latest(c)' = Held(c)'
      BY <3>1, <3>2, <3>5, <3>6, <1>1
    <3>8. \A c \in Times : \A i \in TakenAt(c)' : i \in Nat /\ state_trace'[c] # 0
      BY <3>1, <3>2, <3>6 DEF StateInv
    <3>9. \A c : c \notin Times => TakenAt(c)' = {}
      BY <3>2, <1>2
    <3>10. \A c : c \in Nat /\ c < time - 1 => Latest(c)' = Latest(c)
      BY <3>3, <3>5, <1>3, <3>2
    <3> QED BY <3>7, <3>8, <3>9, <3>10
  <2> QED BY <2>1, <2>2
<1>5. \A c : Written(c) = Latest(c)'
  BY <1>4 DEF Written, WrittenState, Latest
<1>6. PICK ok \in BOOLEAN : applied' = applied \cup {WriteRecord(time - 1, ok)}
  BY DrainStep
<1>7. ASSUME NEW w \in applied'
      PROVE  w.cycle < NextDrain' /\ w.value = Due(w, Latest(w.cycle)')
  <2>1. CASE w \in applied
    BY <2>1, <1>3, <1>4 DEF Due
  <2>2. CASE w = WriteRecord(time - 1, ok)
    BY <2>2, <1>3, <1>5 DEF WriteRecord, Due
  <2> QED BY <2>1, <2>2, <1>6
<1>8. OnceInv'
  <2>1. WriteRecord(time - 1, ok).cycle = time - 1
    BY DEF WriteRecord
  <2>2. \A w \in applied : w.cycle # time - 1
    BY <1>3
  <2> QED BY <2>1, <2>2, <1>3, <1>6 DEF OnceInv
<1> QED BY <1>4, <1>7, <1>8 DEF StateInv, Due

LEMMA WriteIInjInv == TypeInv /\ InjInv /\ TypeInv' /\ WriteI => InjInv'
<1> SUFFICES ASSUME TypeInv, InjInv, TypeInv', WriteI PROVE InjInv'
  OBVIOUS
<1>1. CASE is_major = 1 /\ NOF_WISIGNALS <= MAX_NOF_WISIGNALS
  BY <1>1, DrainLateInv, DrainSignalInv, DrainStateInv DEF InjInv
<1>2. CASE ~(is_major = 1 /\ NOF_WISIGNALS <= MAX_NOF_WISIGNALS)
  <2>1. UNCHANGED pertVars /\ UNCHANGED time /\ pc = "write_i" /\ pc' # "write_i"
    BY <1>2, PositionFacts DEF WriteI
  <2>2. NextDrain' >= NextDrain
    BY <2>1, NextDrainFacts DEF NextDrain
  <2>3. Writes => NextDrain' = NextDrain
    BY <1>2, <2>1 DEF NextDrain, Writes
  <2> QED BY <2>1, <2>2, <2>3, QuietInjInv
<1> QED BY <1>1, <1>2

\* The fates, slots and written values of the injected records are consistent.
THEOREM InjInvariant == Spec => []InjInv
<1>1. TypeInv /\ TypeInv' /\ InjInv /\ [Next]_vars => InjInv'
  BY TimerInjInv, WriteIInjInv, ReadInjInv, InjectInjInv, StutterInjInv DEF Next
<1> QED BY InitInjInv, TypeInvariant, <1>1, PTL DEF Spec

\* A drained record is late exactly when it was timed before its slot.
THEOREM LateIsDecidedByTheRing == Spec => []LateIffOfferedLate
BY InjInvariant, PTL DEF InjInv, LateInv

\* What is written for a cycle is the sum of exactly the records accepted for
\* it, once, or nothing if the signal cannot be accessed (probe.c:505).
THEOREM SignalsAreWrittenExactly == Spec => []SignalsWrittenExactly
<1>1. InjInv => SignalsWrittenExactly
  BY DEF InjInv, SignalInv, Due, OnceInv, SignalsWrittenExactly, WrittenOnce
<1> QED BY InjInvariant, <1>1, PTL

\* The last state change accepted for a cycle is the one written, once, unless
\* its address cannot be written (probe.c:581).
THEOREM LastStateIsWritten == Spec => []StateWrittenLast
<1>1. InjInv => StateWrittenLast
  BY DEF InjInv, StateInv, Due, OnceInv, StateWrittenLast, WrittenOnce
<1> QED BY InjInvariant, <1>1, PTL
============================================================================
