-------------------------- MODULE ProbeOutProofs ---------------------------
(***************************************************************************)
(* Cycles and outputs of module Probe: proofs of TimeCountsMajorSteps,     *)
(* KilledWhenDone and OutputAccounted, for every ratio of minor to major   *)
(* steps, number of cycles, mode and ring capacity.                        *)
(***************************************************************************)
EXTENDS ProbeProofs, SequenceTheorems

(***************************************************************************)
(* Between the timer probe of a cycle and the probe that logs or writes    *)
(* it, the cycle is counted but not logged, or not written.                *)
(***************************************************************************)
InCycle == is_major = 1 /\ pc \in {"write_i", "read_i", "read_o"}

LogInv ==
  /\ pc = "read_o" => NOF_ROSIGNALS > 0
  /\ NOF_ROSIGNALS = 0 => log_counter = 0
  /\ NOF_ROSIGNALS > 0 =>
       /\ pc # "gone" /\ signal = "none" => log_counter = IF InCycle THEN time - 1 ELSE time
       /\ signal = "SIGKILL" => log_counter = MAX_CYCLES

CycleWritten(c) == \E w \in applied : w.cycle = c

WriteInv ==
  Writes =>
    /\ pc \in {"timer", "read_i", "read_o"} => \A c \in 0 .. time - 1 : CycleWritten(c)
    /\ pc = "write_i" => \A c \in 0 .. time - 2 : CycleWritten(c)
    /\ pc = "write_i" /\ is_major = 0 => \A c \in 0 .. time - 1 : CycleWritten(c)
    /\ signal = "SIGKILL" => \A c \in 0 .. MAX_CYCLES - 1 : CycleWritten(c)

\* What the cycles logged so far left in the ring, at the reader, or in the
\* output trace.  That a record is missing for every loss bounds the length.
RecordInv ==
  /\ lost \subseteq 0 .. log_counter - 1
  /\ \A i, j \in DOMAIN Published : i < j => Published[i] < Published[j]
  /\ Range(Published) \cap lost = {}
  /\ INTERACTIVE => Range(Published) \cup lost = 0 .. log_counter - 1
  /\ Len(Published) <= log_counter
  /\ lost # {} => Len(Published) < log_counter

TraceInv ==
  ~INTERACTIVE =>
    /\ out_rb = <<>> /\ consumed = <<>>
    /\ NOF_ROSIGNALS > 0 =>
         {c \in Cells : out_trace[c] = NOF_ROSIGNALS} = (0 .. log_counter - 1) \ lost

OutInv == TypeInv /\ LogInv /\ WriteInv /\ RecordInv /\ TraceInv /\ TimeCountsMajorSteps
----------------------------------------------------------------------------
(***************************************************************************)
(* The ratio of minor to major steps.                                      *)
(***************************************************************************)
LEMMA StrictProducts ==
  ASSUME NEW r \in Nat \ {0}, NEW p \in Int, NEW q \in Int, p < q
  PROVE  r * p + r <= r * q
<1>1. PICK d \in Nat : q = p + 1 + d
  <2>1. q - p - 1 \in Nat /\ q = p + 1 + (q - p - 1)
    OBVIOUS
  <2> QED BY <2>1
<1>2. r * q = r * p + r + r * d
  BY <1>1
<1>3. r * d \in Nat
  BY <1>1
<1> QED BY <1>2, <1>3

LEMMA MultipleModulo ==
  ASSUME NEW r \in Nat \ {0}, NEW m \in Nat, NEW q \in Nat, m = r * q
  PROVE  m % r = 0
OBVIOUS

LEMMA ModuloMultiple ==
  ASSUME NEW r \in Nat \ {0}, NEW m \in Nat, m % r = 0
  PROVE  \E q \in Nat : m = r * q
OBVIOUS

LEMMA MajorSteps ==
  ASSUME NEW r \in Nat \ {0}, NEW m \in Nat, NEW t \in Nat,
         r * (t - 1) < m, m <= r * t
  PROVE  m % r = 0 <=> m = r * t
<1>1. ASSUME m % r = 0 PROVE m = r * t
  <2>1. PICK q \in Nat : m = r * q
    BY <1>1, ModuloMultiple
  <2>2. r * q \in Int /\ r * t \in Int /\ r * (t - 1) \in Int
    OBVIOUS
  <2>3. t < q => r * t + r <= r * q
    BY StrictProducts
  <2>4. q < t - 1 => r * q + r <= r * (t - 1)
    BY StrictProducts
  <2>5. q = t
    BY <2>1, <2>2, <2>3, <2>4
  <2> QED BY <2>1, <2>5
<1>2. ASSUME m = r * t PROVE m % r = 0
  BY <1>2, MultipleModulo
<1> QED BY <1>1, <1>2

LEMMA TimerCounts ==
  ASSUME TypeInv, TimeCountsMajorSteps, Timer
  PROVE  TimeCountsMajorSteps'
<1> DEFINE r == MINOR_TO_MAJOR_RATIO
<1>1. /\ r \in Nat \ {0} /\ minor_step \in Nat /\ minor_step' = minor_step + 1
      /\ time \in Nat
  BY RatioAssumption, CyclesAssumption DEF TypeInv, TypeOK, TypeProc, Timer
<1>2. r * (time - 1) < minor_step /\ minor_step <= r * time
  BY DEF TimeCountsMajorSteps
<1>3. Major <=> minor_step = r * time
  BY <1>1, <1>2, MajorSteps DEF Major
<1> HIDE DEF r
<1>4. r * (time - 1) \in Int /\ r * time \in Int /\ r * (time + 1) = r * time + r
  BY <1>1
<1>5. CASE Major
  <2>1. time' = time + 1 /\ is_major' = 1
    BY <1>5 DEF Timer
  <2> QED BY <1>1, <1>2, <1>3, <1>4, <1>5, <2>1 DEF TimeCountsMajorSteps, r
<1>6. CASE ~Major
  <2>1. time' = time /\ is_major' = 0
    BY <1>6 DEF Timer
  <2>2. minor_step < r * time /\ minor_step # r * (time - 1)
    BY <1>1, <1>2, <1>3, <1>4, <1>6
  <2> QED BY <1>1, <1>2, <1>4, <2>1, <2>2 DEF TimeCountsMajorSteps, r
<1> QED BY <1>5, <1>6
----------------------------------------------------------------------------
(***************************************************************************)
(* Logging and writing.                                                    *)
(***************************************************************************)
LEMMA InitOutInv == Init => OutInv
<1> SUFFICES ASSUME Init PROVE OutInv
  OBVIOUS
<1>1. LogInv /\ WriteInv
  BY CyclesAssumption DEF Init, LogInv, WriteInv, InCycle
<1>2. Published = <<>> /\ Range(Published) = {}
  BY DEF Init, Published, Range
<1>3. RecordInv
  BY <1>2 DEF Init, RecordInv
<1>4. TraceInv
  BY SignalsAssumption DEF Init, TraceInv
<1>5. TimeCountsMajorSteps
  BY RatioAssumption DEF Init, TimeCountsMajorSteps
<1> QED BY <1>1, <1>3, <1>4, <1>5, InitTypeInv DEF OutInv

\* Nothing but read_o logs, but for the timer nothing kills.
LEMMA TimerLogs == TypeInv /\ LogInv /\ WriteInv /\ Timer => LogInv' /\ WriteInv'
<1> SUFFICES ASSUME TypeInv, LogInv, WriteInv, Timer PROVE LogInv' /\ WriteInv'
  OBVIOUS
<1>1. /\ pc = "timer" /\ signal = "none" /\ time \in Nat /\ time <= MAX_CYCLES
      /\ UNCHANGED <<log_counter, applied>> /\ MAX_CYCLES \in Nat
      /\ \/ is_major' = 1 /\ time' = time + 1
         \/ is_major' = 0 /\ time' = time
      /\ \/ time' > MAX_CYCLES /\ signal' = "SIGKILL" /\ pc' = AfterKill
         \/ time' <= MAX_CYCLES /\ signal' = "none" /\ pc' = AfterTimer
  BY CyclesAssumption DEF Timer, Expired, TypeInv, TypeOK, TypeProc, ProcInv, pertVars, outVars
<1>2. LogInv'
  <2>1. AfterTimer = "read_o" => NOF_ROSIGNALS > 0
    BY DEF AfterTimer, AfterWrite, AfterReadI
  <2>2. NOF_ROSIGNALS > 0 => AfterTimer # "timer" /\ log_counter = time
    BY <1>1 DEF AfterTimer, AfterWrite, AfterReadI, LogInv, InCycle
  <2> QED BY <1>1, <2>1, <2>2, PositionFacts DEF LogInv, InCycle
<1>3. WriteInv'
  <2>1. Writes => AfterTimer = "write_i" /\ \A c \in 0 .. time - 1 : CycleWritten(c)
    BY <1>1, SignalsAssumption DEF Writes, WriteInv, AfterTimer
  <2> QED BY <1>1, <2>1, PositionFacts DEF WriteInv, CycleWritten
<1> QED BY <1>2, <1>3

LEMMA WriteILogs == TypeInv /\ LogInv /\ WriteInv /\ WriteI => LogInv' /\ WriteInv'
<1> SUFFICES ASSUME TypeInv, LogInv, WriteInv, WriteI PROVE LogInv' /\ WriteInv'
  OBVIOUS
<1>1. /\ pc = "write_i" /\ pc' = IF signal = "SIGKILL" THEN "gone" ELSE AfterWrite
      /\ UNCHANGED <<signal, is_major, time, log_counter>>
      /\ is_major \in {0, 1} /\ time \in Nat /\ signal \in {"none", "SIGKILL"}
      /\ signal = "none" => pc' = AfterWrite
      /\ signal = "SIGKILL" => is_major = 1 /\ pc' = "gone"
  BY CyclesAssumption DEF WriteI, outVars, TypeInv, TypeOK, TypeProc, ProcInv
<1>2. LogInv'
  <2>1. /\ AfterWrite = "read_o" => NOF_ROSIGNALS > 0
        /\ NOF_ROSIGNALS > 0 => AfterWrite # "timer"
    BY DEF AfterWrite, AfterReadI
  <2> QED BY <1>1, <2>1, PositionFacts DEF LogInv, InCycle
<1>3. WriteInv'
  <2> SUFFICES ASSUME Writes PROVE WriteInv'
    BY DEF WriteInv
  <2>1. \A c : CycleWritten(c) => CycleWritten(c)'
    BY DEF WriteI, CycleWritten, pertVars
  <2>2. is_major = 1 => CycleWritten(time - 1)'
    <3>1. CASE is_major = 1
      <4>1. PICK ok \in WriteOutcomes :
              applied' = applied \cup {WriteRecord(actual_time, ok)}
        BY <3>1 DEF WriteI, Writes, MAX_NOF_WISIGNALS
      <4>2. /\ WriteRecord(actual_time, ok) \in applied' /\ time' = time
            /\ WriteRecord(actual_time, ok).cycle = time - 1
        BY <4>1 DEF WriteI, WriteRecord, actual_time
      <4> QED BY <4>2 DEF CycleWritten
    <3> QED BY <3>1
  <2>3. \A c \in 0 .. time - 1 : CycleWritten(c)'
    <3>1. CASE is_major = 1
      BY <1>1, <2>1, <2>2, <3>1 DEF WriteInv
    <3>2. CASE is_major = 0
      BY <1>1, <2>1, <3>2 DEF WriteInv
    <3> QED BY <1>1, <3>1, <3>2
  <2>4. signal = "SIGKILL" => \A c \in 0 .. MAX_CYCLES - 1 : CycleWritten(c)'
    BY <2>1 DEF WriteInv
  <2> QED BY <1>1, <2>3, <2>4, PositionFacts DEF WriteInv, CycleWritten
<1> QED BY <1>2, <1>3

LEMMA ReadLogs == TypeInv /\ LogInv /\ WriteInv /\ (ReadI \/ ReadO) => LogInv' /\ WriteInv'
<1> SUFFICES ASSUME TypeInv, LogInv, WriteInv, ReadI \/ ReadO PROVE LogInv' /\ WriteInv'
  OBVIOUS
<1>1. /\ pc \in {"read_i", "read_o"} /\ signal = "none"
      /\ UNCHANGED <<signal, is_major, time, applied>>
      /\ pc' \in {"timer", "read_o"} /\ is_major \in {0, 1} /\ time \in Nat
  BY PositionFacts, CyclesAssumption
     DEF ReadI, ReadO, pertVars, TypeInv, TypeOK, TypeProc, ProcInv
<1>2. LogInv'
  <2>1. CASE ReadI
    BY <1>1, <2>1 DEF ReadI, AfterReadI, LogInv, InCycle, outVars
  <2>2. CASE ReadO
    BY <1>1, <2>2 DEF ReadO, LogInv, InCycle
  <2> QED BY <2>1, <2>2
<1>3. WriteInv'
  BY <1>1 DEF WriteInv, CycleWritten
<1> QED BY <1>2, <1>3

LEMMA OtherLogs ==
  ASSUME LogInv, WriteInv, ModelExit \/ UNCHANGED <<procVars, applied, log_counter>>
  PROVE  LogInv' /\ WriteInv'
<1>1. CASE ModelExit
  BY <1>1 DEF ModelExit, LogInv, InCycle, WriteInv, CycleWritten, outVars, pertVars
<1>2. CASE UNCHANGED <<procVars, applied, log_counter>>
  BY <1>2 DEF LogInv, InCycle, WriteInv, CycleWritten, procVars
<1> QED BY <1>1, <1>2
----------------------------------------------------------------------------
(***************************************************************************)
(* The records.                                                            *)
(***************************************************************************)
LEMMA PublishedType ==
  ASSUME TypeOK
  PROVE  /\ out_rb \in Seq(0 .. MAX_CYCLES - 1) /\ consumed \in Seq(0 .. MAX_CYCLES - 1)
         /\ Published \in Seq(0 .. MAX_CYCLES - 1) /\ Len(Published) \in Nat
         /\ DOMAIN Published = 1 .. Len(Published)
BY ConcatProperties, LenProperties DEF TypeOK, TypeOut, Published

\* The cycle read_o works on is the next one to log.
LEMMA LogsInOrder ==
  ASSUME TypeInv, LogInv, ReadO, is_major = 1
  PROVE  actual_time = log_counter /\ log_counter \in 0 .. MAX_CYCLES - 1
BY CyclesAssumption, SignalsAssumption
   DEF ReadO, LogInv, InCycle, actual_time, TypeInv, TypeOK, TypeProc, TypeOut, ProcInv

LEMMA ReadORecords ==
  ASSUME OutInv, ReadO
  PROVE  RecordInv' /\ TraceInv'
<1> USE DEF OutInv
<1>1. CASE is_major # 1
  <2>1. UNCHANGED <<log_counter, out_rb, out_trace, lost, consumed>>
    BY <1>1 DEF ReadO
  <2> QED BY <2>1 DEF RecordInv, TraceInv, Published
<1>2. CASE is_major = 1
  <2>1. /\ actual_time = log_counter /\ log_counter \in 0 .. MAX_CYCLES - 1
        /\ log_counter' = log_counter + 1 /\ consumed' = consumed /\ MAX_CYCLES \in Nat
    BY <1>2, LogsInOrder, CyclesAssumption DEF ReadO
  <2>2. PICK k : k \in ReadCounts(NOF_ROSIGNALS) /\ Record(k)
    BY <1>2 DEF ReadO
  <2> DEFINE kept == k = NOF_ROSIGNALS /\ (INTERACTIVE => Len(out_rb) < OutCap)
  <2>3. lost' = IF kept THEN lost ELSE lost \cup {log_counter}
    BY <2>1, <2>2 DEF Record
  <2>p. /\ out_rb \in Seq(0 .. MAX_CYCLES - 1) /\ consumed \in Seq(0 .. MAX_CYCLES - 1)
        /\ Published \in Seq(0 .. MAX_CYCLES - 1) /\ Len(Published) \in Nat
        /\ DOMAIN Published = 1 .. Len(Published)
    BY PublishedType DEF TypeInv
  <2>l. /\ lost \subseteq 0 .. log_counter - 1 /\ log_counter \notin lost
        /\ lost' \subseteq 0 .. log_counter
    BY <2>1, <2>3 DEF RecordInv
  <2>4. CASE kept /\ INTERACTIVE
    <3>1. out_rb' = Append(out_rb, log_counter) /\ lost' = lost
      BY <2>1, <2>2, <2>4 DEF Record
    <3>2. Published' = Append(Published, log_counter)
      <4>1. Append(out_rb, log_counter) = out_rb \o <<log_counter>>
        BY <2>1, <2>p, AppendIsConcat
      <4>2. Append(Published, log_counter) = Published \o <<log_counter>>
        BY <2>1, <2>p, AppendIsConcat
      <4>3. <<log_counter>> \in Seq(0 .. MAX_CYCLES - 1)
        BY <2>1
      <4>4. consumed \o (out_rb \o <<log_counter>>) = (consumed \o out_rb) \o <<log_counter>>
        BY <2>p, <4>3, ConcatAssociative
      <4>5. Published' = consumed \o (out_rb \o <<log_counter>>)
        BY <2>1, <3>1, <4>1 DEF Published
      <4> QED BY <4>2, <4>4, <4>5, Zenon DEF Published
    <3>3. /\ Range(Published') = Range(Published) \cup {log_counter}
          /\ Len(Published') = Len(Published) + 1
          /\ DOMAIN Published' = 1 .. Len(Published) + 1
          /\ \A i \in 1 .. Len(Published) : Published'[i] = Published[i]
          /\ Published'[Len(Published) + 1] = log_counter
      <4>1. /\ Published' \in Seq(0 .. MAX_CYCLES - 1)
            /\ Len(Published') = Len(Published) + 1
            /\ \A i \in 1 .. Len(Published) : Published'[i] = Published[i]
            /\ Published'[Len(Published) + 1] = log_counter
        BY <2>1, <2>p, <3>2, AppendProperties
      <4>2. DOMAIN Published' = 1 .. Len(Published) + 1
        BY <4>1, LenProperties
      <4>3. Range(Published') = Range(Published) \cup {log_counter}
        <5>1. Range(Published) = {Published[i] : i \in DOMAIN Published}
          BY DEF Range
        <5>2. Range(Published') = {Published'[i] : i \in DOMAIN (Published')}
          BY DEF Range
        <5>3. {Published'[i] : i \in 1 .. Len(Published) + 1} = {Published[i] : i \in 1 .. Len(Published)} \cup {log_counter}
          BY <2>p, <4>1
        <5> QED BY <2>p, <4>2, <5>1, <5>2, <5>3
      <4> QED BY <4>1, <4>2, <4>3
    <3>4. \A i \in 1 .. Len(Published) : Published[i] < log_counter
      <4>1. \A i \in 1 .. Len(Published) : Published[i] \in 0 .. log_counter - 1
        BY <2>p, <2>4 DEF RecordInv, Range
      <4> QED BY <2>1, <4>1
    <3>5. \A i, j \in DOMAIN Published' : i < j => Published'[i] < Published'[j]
      BY <2>p, <3>3, <3>4 DEF RecordInv
    <3>6. Range(Published') \cap lost' = {}
      BY <2>l, <3>1, <3>3 DEF RecordInv
    <3>7. Range(Published') \cup lost' = 0 .. log_counter
      <4>1. 0 .. log_counter = (0 .. log_counter - 1) \cup {log_counter}
        BY <2>1
      <4> QED BY <2>4, <3>1, <3>3, <4>1 DEF RecordInv
    <3> QED BY <2>1, <2>4, <2>l, <2>p, <3>1, <3>3, <3>5, <3>6, <3>7 DEF RecordInv, TraceInv, INTERACTIVE
  <2>5. CASE ~(kept /\ INTERACTIVE)
    <3>1. out_rb' = out_rb /\ Published' = Published
      BY <2>1, <2>2, <2>5 DEF Record, Published
    <3>2. INTERACTIVE => lost' = lost \cup {log_counter}
      BY <2>3, <2>5
    <3>3. INTERACTIVE => Range(Published) \cup lost' = 0 .. log_counter
      <4>1. 0 .. log_counter = (0 .. log_counter - 1) \cup {log_counter}
        BY <2>1
      <4> QED BY <3>2, <4>1 DEF RecordInv
    <3>4. Range(Published) \cap lost' = {}
      <4>1. CASE INTERACTIVE
        <5>1. log_counter \notin Range(Published)
          BY <2>1, <4>1 DEF RecordInv
        <5> QED BY <3>2, <4>1, <5>1 DEF RecordInv
      <4>2. CASE ~INTERACTIVE
        <5>1. Published = <<>>
          BY <4>2 DEF TraceInv, Published
        <5> QED BY <5>1 DEF Range
      <4> QED BY <4>1, <4>2
    <3>5. RecordInv'
      BY <2>1, <2>l, <2>p, <3>1, <3>3, <3>4 DEF RecordInv, INTERACTIVE
    <3>6. TraceInv'
      <4> SUFFICES ASSUME ~INTERACTIVE, NOF_ROSIGNALS > 0
                   PROVE  {c \in Cells : out_trace'[c] = NOF_ROSIGNALS}
                            = (0 .. log_counter) \ lost'
        BY <2>1, <3>1 DEF TraceInv, INTERACTIVE
      <4>1. /\ DOMAIN out_trace = Cells /\ log_counter \in Cells
            /\ {c \in Cells : out_trace[c] = NOF_ROSIGNALS} = (0 .. log_counter - 1) \ lost
        BY <2>1, CapAssumption DEF TypeInv, TypeOK, TypeOut, TraceInv, Cells
      <4>2. \A c \in Cells : out_trace'[c] = IF c = log_counter THEN k ELSE out_trace[c]
        BY <2>1, <2>2, <4>1 DEF Record, Copied
      <4>3. 0 .. log_counter = (0 .. log_counter - 1) \cup {log_counter}
            /\ log_counter \notin 0 .. log_counter - 1
        BY <2>1
      <4>4. kept <=> k = NOF_ROSIGNALS
        OBVIOUS
      <4> HIDE DEF kept
      <4> QED BY <2>3, <2>l, <4>1, <4>2, <4>3, <4>4
    <3> QED BY <3>5, <3>6
  <2> QED BY <2>4, <2>5
<1> QED BY <1>1, <1>2

\* Taking a record from the ring publishes nothing new.
LEMMA ConsumeMoves ==
  ASSUME TypeOK, Consume
  PROVE  Published' = Published
<1>1. /\ out_rb # <<>> /\ out_rb' = Tail(out_rb) /\ consumed' = Append(consumed, Head(out_rb))
      /\ out_rb \in Seq(0 .. MAX_CYCLES - 1) /\ consumed \in Seq(0 .. MAX_CYCLES - 1)
  BY PublishedType DEF Consume
<1>2. /\ Head(out_rb) \in 0 .. MAX_CYCLES - 1 /\ out_rb' \in Seq(0 .. MAX_CYCLES - 1)
      /\ Len(out_rb') = Len(out_rb) - 1 /\ Len(out_rb) \in Nat \ {0} /\ Len(consumed) \in Nat
      /\ \A i \in 1 .. Len(out_rb) - 1 : out_rb'[i] = out_rb[i + 1]
      /\ Head(out_rb) = out_rb[1]
  <2>1. Len(out_rb) \in Nat \ {0} /\ Len(consumed) \in Nat
    BY <1>1, LenProperties, EmptySeq
  <2>2. /\ Head(out_rb) \in 0 .. MAX_CYCLES - 1 /\ Tail(out_rb) \in Seq(0 .. MAX_CYCLES - 1)
        /\ Len(Tail(out_rb)) = Len(out_rb) - 1
        /\ \A i \in 1 .. Len(Tail(out_rb)) : Tail(out_rb)[i] = out_rb[i + 1]
    BY <1>1, HeadTailProperties
  <2>3. Head(out_rb) = out_rb[1]
    BY <1>1, <2>1
  <2> QED BY <1>1, <2>1, <2>2, <2>3
<1>3. /\ consumed' \in Seq(0 .. MAX_CYCLES - 1) /\ Len(consumed') = Len(consumed) + 1
      /\ \A i \in 1 .. Len(consumed) : consumed'[i] = consumed[i]
      /\ consumed'[Len(consumed) + 1] = out_rb[1]
  BY <1>1, <1>2, AppendProperties
<1>4. /\ Published \in Seq(0 .. MAX_CYCLES - 1) /\ Len(Published) = Len(consumed) + Len(out_rb)
      /\ \A i \in 1 .. Len(consumed) + Len(out_rb) :
           Published[i] = IF i <= Len(consumed) THEN consumed[i] ELSE out_rb[i - Len(consumed)]
  BY <1>1, ConcatProperties DEF Published
<1>5. /\ Published' \in Seq(0 .. MAX_CYCLES - 1) /\ Len(Published') = Len(consumed) + Len(out_rb)
      /\ \A i \in 1 .. Len(consumed) + Len(out_rb) :
           Published'[i] = IF i <= Len(consumed) + 1 THEN consumed'[i]
                           ELSE out_rb'[i - (Len(consumed) + 1)]
  <2>1. /\ Published' \in Seq(0 .. MAX_CYCLES - 1)
        /\ Len(Published') = Len(consumed') + Len(out_rb')
        /\ \A i \in 1 .. Len(consumed') + Len(out_rb') :
             Published'[i] = IF i <= Len(consumed') THEN consumed'[i]
                             ELSE out_rb'[i - Len(consumed')]
    BY <1>2, <1>3, ConcatProperties DEF Published
  <2>2. Len(consumed') + Len(out_rb') = Len(consumed) + Len(out_rb)
    BY <1>2, <1>3
  <2> QED BY <1>3, <2>1, <2>2
<1>6. \A i \in 1 .. Len(Published) : Published'[i] = Published[i]
  <2> TAKE i \in 1 .. Len(Published)
  <2>1. CASE i <= Len(consumed)
    BY <1>2, <1>3, <1>4, <1>5, <2>1, SMTT(30)
  <2>2. CASE i = Len(consumed) + 1
    <3>1. Published'[i] = out_rb[1]
      BY <1>2, <1>3, <1>5, <2>2
    <3>2. Published[i] = out_rb[i - Len(consumed)] /\ i - Len(consumed) = 1
      BY <1>2, <1>4, <2>2
    <3> QED BY <3>1, <3>2
  <2>3. CASE i > Len(consumed) + 1
    <3>1. /\ Published'[i] = out_rb'[i - (Len(consumed) + 1)]
          /\ Published[i] = out_rb[i - Len(consumed)]
      BY <1>2, <1>4, <1>5, <2>3
    <3>2. /\ i - (Len(consumed) + 1) \in 1 .. Len(out_rb) - 1
          /\ i - (Len(consumed) + 1) + 1 = i - Len(consumed)
      BY <1>2, <1>4, <2>3
    <3> QED BY <1>2, <3>1, <3>2
  <2> QED BY <1>2, <1>4, <2>1, <2>2, <2>3
<1> QED BY <1>4, <1>5, <1>6, SeqEqual

LEMMA ConsumeRecords ==
  ASSUME OutInv, Consume
  PROVE  RecordInv' /\ TraceInv'
<1>1. Published' = Published /\ UNCHANGED <<log_counter, lost, out_trace>>
  BY ConsumeMoves DEF Consume, OutInv, TypeInv
<1>2. RecordInv'
  BY <1>1 DEF OutInv, RecordInv, INTERACTIVE
<1>3. TraceInv'
  BY DEF Consume, OutInv, TraceInv, INTERACTIVE
<1> QED BY <1>2, <1>3

LEMMA OthersRecord ==
  ASSUME OutInv, UNCHANGED outVars
  PROVE  RecordInv' /\ TraceInv'
BY DEF outVars, OutInv, RecordInv, TraceInv, Published, INTERACTIVE

LEMMA OutInvStep == OutInv /\ [Next]_vars => OutInv'
<1> SUFFICES ASSUME OutInv, [Next]_vars PROVE OutInv'
  OBVIOUS
<1> USE DEF OutInv
<1>1. TypeInv'
  BY TimerTypeInv, WriteITypeInv, ReadITypeInv, ReadOTypeInv, ModelExitTypeInv,
     InjectTypeInv, ConsumeTypeInv, StutterTypeInv DEF Next
<1>2. LogInv' /\ WriteInv'
  <2>1. CASE Timer \/ WriteI \/ ReadI \/ ReadO
    BY <2>1, TimerLogs, WriteILogs, ReadLogs
  <2>2. CASE Inject \/ Consume \/ UNCHANGED vars
    BY <2>2, OtherLogs DEF Inject, Consume, vars, pertVars, outVars
  <2> QED BY <2>1, <2>2, OtherLogs DEF Next
<1>3. RecordInv' /\ TraceInv'
  <2>1. CASE Timer \/ WriteI \/ ReadI \/ ModelExit \/ Inject \/ UNCHANGED vars
    BY <2>1, OthersRecord DEF Timer, WriteI, ReadI, ModelExit, Inject, vars
  <2> QED BY <2>1, ReadORecords, ConsumeRecords DEF Next
<1>4. TimeCountsMajorSteps'
  <2>1. CASE ~Timer
    BY <2>1 DEF Next, WriteI, ReadI, ReadO, ModelExit, Inject, Consume, vars, procVars,
       TimeCountsMajorSteps
  <2> QED BY <2>1, TimerCounts
<1> QED BY <1>1, <1>2, <1>3, <1>4

\* The invariant behind the theorems of this module.
THEOREM OutInvariant == Spec => []OutInv
  BY InitOutInv, OutInvStep, PTL DEF Spec

\* time is the number of major steps, whatever their ratio (probe.c:362).
THEOREM TimeIsMajorSteps == Spec => []TimeCountsMajorSteps
  BY OutInvariant, PTL DEF OutInv

\* The timer kills no simulation before its last cycle was written and logged
\* in full, and every one that goes on (probe.c:369).
THEOREM KilledOnlyWhenDone == Spec => []KilledWhenDone
<1>1. OutInv => KilledWhenDone
  BY DEF OutInv, TypeInv, ProcInv, LogInv, WriteInv, CycleWritten, KilledWhenDone
<1> QED BY <1>1, OutInvariant, PTL

\* Every logged cycle is published or kept in the trace once, in order, or is
\* among the lost ones (probe.c:419).
THEOREM EveryOutputIsAccounted == Spec => []OutputAccounted
<1>1. OutInv => OutputAccounted
  BY DEF OutInv, RecordInv, TraceInv, OutputAccounted
<1> QED BY <1>1, OutInvariant, PTL
============================================================================
