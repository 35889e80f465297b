-------------------------- MODULE PipelineProofs ---------------------------
(***************************************************************************)
(* Probes, ring buffer and monitor implement the stream of module Stream,  *)
(* for every number of cycles, ring capacity and batch size.               *)
(***************************************************************************)
EXTENDS Pipeline, ProbeOutProofs

(***************************************************************************)
(* What the monitor has taken is in its batch or in Redis, and as many     *)
(* records as it has counted; the batch of a failed monitor is lost.       *)
(***************************************************************************)
BatchInv ==
  /\ mpc # "failed" =>
       /\ Range(consumed) = redis \cup Range(records)
       /\ Len(consumed) = writtenRecords + Len(records)
  /\ mpc = "flush" => Len(consumed) = MAX_CYCLES
  /\ mpc = "read" => Len(records) < BATCH
  /\ mpc = "start" => records = <<>>

PipelineInv == OutInv /\ PipelineTypeOK /\ BatchInv
----------------------------------------------------------------------------
\* Every step of the pipeline is a step of the probes, or hides from them.
LEMMA PipelineIsProbe == [PipelineNext]_pipelineVars => [Next]_vars
BY DEF PipelineNext, ProcessStep, MonitorStep, StartMonitor, ReadRecord, ReadTimesOut, WriteBatch,
   Flush, MonitorFails, pipelineVars, Next

LEMMA InitPipelineInv == PipelineInit => PipelineInv
<1> SUFFICES ASSUME PipelineInit PROVE PipelineInv
  OBVIOUS
<1>1. OutInv
  BY InitOutInv DEF PipelineInit
<1>2. PipelineTypeOK
  BY CyclesAssumption, PipelineAssumption DEF PipelineInit, PipelineTypeOK
<1>3. BatchInv
  BY PipelineAssumption DEF PipelineInit, Init, BatchInv, Range
<1> QED BY <1>1, <1>2, <1>3 DEF PipelineInv

LEMMA MonitorTypes ==
  ASSUME PipelineInv
  PROVE  /\ TypeOK /\ records \in Seq(0 .. MAX_CYCLES - 1) /\ consumed \in Seq(0 .. MAX_CYCLES - 1)
         /\ out_rb \in Seq(0 .. MAX_CYCLES - 1)
         /\ Len(records) \in Nat /\ Len(consumed) \in Nat /\ Len(out_rb) \in Nat
         /\ DOMAIN records = 1 .. Len(records) /\ DOMAIN consumed = 1 .. Len(consumed)
         /\ BATCH \in Nat /\ BATCH > 0 /\ MAX_CYCLES \in Nat
         /\ log_counter \in Nat /\ log_counter <= MAX_CYCLES
BY PublishedType, LenProperties, PipelineAssumption, CyclesAssumption
   DEF PipelineInv, PipelineTypeOK, OutInv, TypeInv, TypeOK, TypeOut

\* The number of records published is at most the number of cycles logged.
LEMMA TakenAreLogged ==
  ASSUME PipelineInv
  PROVE  /\ Len(consumed) + Len(out_rb) <= log_counter
         /\ lost # {} => Len(consumed) + Len(out_rb) < log_counter
BY MonitorTypes, ConcatProperties DEF PipelineInv, OutInv, RecordInv, Published

LEMMA ReadRecordBatch ==
  ASSUME PipelineInv, ReadRecord
  PROVE  PipelineTypeOK' /\ BatchInv'
<1> DEFINE x == Head(out_rb)
<1>1. /\ mpc = "read" /\ out_rb # <<>>
      /\ consumed' = Append(consumed, x) /\ records' = Append(records, x)
      /\ mpc' = IF BatchFull(records') THEN "write" ELSE "read"
      /\ UNCHANGED <<writtenRecords, redis>>
  BY DEF ReadRecord, Consume
<1>2. x \in 0 .. MAX_CYCLES - 1
  BY <1>1, MonitorTypes, HeadTailProperties
<1> HIDE DEF x
<1>3. /\ records' \in Seq(0 .. MAX_CYCLES - 1) /\ Len(records') = Len(records) + 1
      /\ \A i \in 1 .. Len(records) : records'[i] = records[i]
      /\ records'[Len(records) + 1] = x
  BY <1>1, <1>2, MonitorTypes, AppendProperties
<1>4. /\ consumed' \in Seq(0 .. MAX_CYCLES - 1) /\ Len(consumed') = Len(consumed) + 1
      /\ \A i \in 1 .. Len(consumed) : consumed'[i] = consumed[i]
      /\ consumed'[Len(consumed) + 1] = x
  BY <1>1, <1>2, MonitorTypes, AppendProperties
<1>5. Range(records') = Range(records) \cup {x}
  <2>1. DOMAIN records' = 1 .. Len(records) + 1
    BY <1>3, LenProperties
  <2>2. Range(records) = {records[i] : i \in DOMAIN records} /\ Range(records') = {records'[i] : i \in DOMAIN (records')}
    BY DEF Range
  <2>3. {records'[i] : i \in 1 .. Len(records) + 1} = {records[i] : i \in 1 .. Len(records)} \cup {x}
    <3>1. Len(records) \in Nat
      BY MonitorTypes
    <3> QED BY <1>3, <3>1
  <2> QED BY <2>1, <2>2, <2>3, MonitorTypes
<1>6. Range(consumed') = Range(consumed) \cup {x}
  <2>1. DOMAIN consumed' = 1 .. Len(consumed) + 1
    BY <1>4, LenProperties
  <2>2. Range(consumed) = {consumed[i] : i \in DOMAIN consumed} /\ Range(consumed') = {consumed'[i] : i \in DOMAIN (consumed')}
    BY DEF Range
  <2>3. {consumed'[i] : i \in 1 .. Len(consumed) + 1} = {consumed[i] : i \in 1 .. Len(consumed)} \cup {x}
    <3>1. Len(consumed) \in Nat
      BY MonitorTypes
    <3> QED BY <1>4, <3>1
  <2> QED BY <2>1, <2>2, <2>3, MonitorTypes
<1>7. /\ Len(records) < BATCH /\ mpc' \in {"read", "write"}
      /\ mpc' = "read" => Len(records') < BATCH
  BY <1>1, <1>3, MonitorTypes DEF PipelineInv, BatchInv, BatchFull
<1>8. PipelineTypeOK'
  BY <1>1, <1>3, <1>7, MonitorTypes DEF PipelineInv, PipelineTypeOK
<1>9. BatchInv'
  <2>1. Range(consumed) = redis \cup Range(records) /\ Len(consumed) = writtenRecords + Len(records)
    BY <1>1 DEF PipelineInv, BatchInv
  <2>2. /\ Range(consumed') = redis' \cup Range(records')
        /\ Len(consumed') = writtenRecords' + Len(records')
    BY <1>1, <1>3, <1>4, <1>5, <1>6, <2>1, MonitorTypes DEF PipelineInv, PipelineTypeOK
  <2> QED BY <1>7, <2>2 DEF BatchInv
<1> QED BY <1>8, <1>9

LEMMA WriteRecordsBatch ==
  ASSUME PipelineInv, writeToRedis, UNCHANGED vars,
         (mpc = "write" /\ mpc' = "read") \/ (mpc = "flush" /\ mpc' = "ended")
  PROVE  /\ PipelineTypeOK' /\ BatchInv' /\ redis' = Range(consumed)
<1>1. /\ redis' = redis \cup Range(records) /\ writtenRecords' = writtenRecords + Len(records)
      /\ records' = <<>> /\ consumed' = consumed
  BY DEF writeToRedis, vars, outVars
<1>2. Range(records) \subseteq 0 .. MAX_CYCLES - 1
  BY MonitorTypes DEF Range
<1>3. Len(consumed) = writtenRecords + Len(records) /\ redis' = Range(consumed)
  BY <1>1 DEF PipelineInv, BatchInv
<1>4. Len(consumed) <= MAX_CYCLES
  BY MonitorTypes, TakenAreLogged
<1>5. PipelineTypeOK'
  <2>1. redis' \subseteq 0 .. MAX_CYCLES - 1
    BY <1>1, <1>2 DEF PipelineInv, PipelineTypeOK
  <2>2. writtenRecords' \in 0 .. MAX_CYCLES
    BY <1>1, <1>3, <1>4, MonitorTypes DEF PipelineInv, PipelineTypeOK
  <2>3. records' \in Seq(0 .. MAX_CYCLES - 1) /\ Len(records') <= BATCH
    BY <1>1, MonitorTypes
  <2>4. mpc' \in {"read", "ended"}
    OBVIOUS
  <2> QED BY <2>1, <2>2, <2>3, <2>4 DEF PipelineTypeOK
<1>6. Range(records') = {} /\ Len(records') = 0
  BY <1>1 DEF Range
<1>7. BatchInv'
  BY <1>1, <1>3, <1>6, MonitorTypes DEF PipelineInv, PipelineTypeOK, BatchInv
<1> QED BY <1>3, <1>5, <1>7

LEMMA PipelineInvStep == PipelineInv /\ [PipelineNext]_pipelineVars => PipelineInv'
<1> SUFFICES ASSUME PipelineInv, [PipelineNext]_pipelineVars PROVE PipelineInv'
  OBVIOUS
<1>1. OutInv'
  BY PipelineIsProbe, OutInvStep DEF PipelineInv
<1>2. PipelineTypeOK' /\ BatchInv'
  <2>1. ASSUME UNCHANGED monitorVars, UNCHANGED consumed PROVE PipelineTypeOK' /\ BatchInv'
    BY <2>1 DEF monitorVars, PipelineInv, PipelineTypeOK, BatchInv
  <2>2. CASE (ProcessStep \/ ModelExit \/ Inject) /\ UNCHANGED monitorVars
    BY <2>1, <2>2 DEF ProcessStep, Timer, WriteI, ReadI, ReadO, ModelExit, Inject, outVars
  <2>3. CASE UNCHANGED pipelineVars
    BY <2>1, <2>3 DEF pipelineVars, vars, outVars
  <2>4. CASE StartMonitor \/ ReadTimesOut
    <3>1. /\ UNCHANGED <<consumed, records, writtenRecords, redis>>
          /\ \/ mpc = "start" /\ mpc' = "read"
             \/ mpc = "read" /\ mpc' = "flush" /\ Complete
      BY <2>4 DEF StartMonitor, ReadTimesOut, vars, outVars
    <3>2. Complete /\ mpc = "read" => Len(consumed) = MAX_CYCLES
      BY DEF Complete, PipelineInv, BatchInv
    <3> QED BY <3>1, <3>2, MonitorTypes, PipelineAssumption DEF PipelineInv, PipelineTypeOK, BatchInv
  <2>5. CASE WriteBatch \/ Flush
    <3>1. /\ writeToRedis /\ UNCHANGED vars
          /\ (mpc = "write" /\ mpc' = "read") \/ (mpc = "flush" /\ mpc' = "ended")
      BY <2>5 DEF WriteBatch, Flush
    <3> QED BY <3>1, WriteRecordsBatch
  <2>6. CASE MonitorFails
    BY <2>6 DEF MonitorFails, vars, outVars, PipelineInv, PipelineTypeOK, BatchInv
  <2> QED BY <2>2, <2>3, <2>4, <2>5, <2>6, ReadRecordBatch DEF PipelineNext, MonitorStep
<1> QED BY <1>1, <1>2 DEF PipelineInv
----------------------------------------------------------------------------
(***************************************************************************)
(* The refinement.                                                         *)
(***************************************************************************)
\* The records taken are those of the cycles before some cycle, but the lost.
LEMMA TakenInOrder ==
  ASSUME PipelineInv
  PROVE  \E n \in 0 .. log_counter : Range(consumed) = (0 .. n - 1) \ lost
<1> DEFINE n == IF out_rb = <<>> THEN log_counter ELSE out_rb[1]
           c == Len(consumed)
           o == Len(out_rb)
<1>1. /\ c \in Nat /\ o \in Nat /\ Len(Published) = c + o /\ DOMAIN Published = 1 .. c + o
      /\ \A i \in 1 .. c + o : Published[i] = IF i <= c THEN consumed[i] ELSE out_rb[i - c]
      /\ DOMAIN consumed = 1 .. c
      /\ log_counter \in Nat
  BY MonitorTypes, ConcatProperties, PublishedType DEF Published
<1>2. /\ \A i, j \in 1 .. c + o : i < j => Published[i] < Published[j]
      /\ Range(Published) \cap lost = {}
      /\ Range(Published) \cup lost = 0 .. log_counter - 1
  BY <1>1, PipelineAssumption DEF PipelineInv, OutInv, RecordInv
<1>3. \A i \in 1 .. c + o : Published[i] \in 0 .. log_counter - 1 /\ Published[i] \notin lost
  BY <1>1, <1>2 DEF Range
<1>4. o > 0 => out_rb # <<>> /\ out_rb[1] = Published[c + 1]
  <2>1. o > 0 => out_rb # <<>>
    OBVIOUS
  <2>2. o > 0 => c + 1 \in 1 .. c + o /\ ~(c + 1 <= c) /\ c + 1 - c = 1
    BY <1>1
  <2>3. o > 0 => Published[c + 1] = out_rb[c + 1 - c]
    BY <1>1, <2>2
  <2> QED BY <2>1, <2>2, <2>3
<1>5. o = 0 => out_rb = <<>>
  BY MonitorTypes, EmptySeq
<1>6. n \in 0 .. log_counter
  BY <1>1, <1>3, <1>4, <1>5
<1>7. \A i \in 1 .. c : Published[i] < n
  BY <1>1, <1>2, <1>3, <1>4, <1>5
<1>8. \A i \in 1 .. c + o : i > c => Published[i] >= n
  <2> TAKE i \in 1 .. c + o
  <2>1. i = c + 1 => Published[i] = n
    BY <1>1, <1>4
  <2>2. i > c + 1 => Published[c + 1] < Published[i] /\ Published[c + 1] = n
    BY <1>1, <1>2, <1>4
  <2>3. Published[i] \in Int /\ n \in Int
    BY <1>3, <1>6
  <2> QED BY <1>1, <2>1, <2>2, <2>3
<1>9. \A v : v \in Range(consumed) <=> \E i \in 1 .. c : v = Published[i]
  BY <1>1, SMTT(30) DEF Range
<1>10. \A v : v \in Range(Published) <=> \E i \in 1 .. c + o : v = Published[i]
  BY <1>1 DEF Range
<1> HIDE DEF n, c, o
<1>11. \A v : v \in Range(consumed) => v \in 0 .. n - 1 /\ v \notin lost
  BY <1>1, <1>3, <1>6, <1>7, <1>9
<1>12. ASSUME NEW v \in (0 .. n - 1) \ lost PROVE v \in Range(consumed)
  <2>1. v \in 0 .. log_counter - 1
    BY <1>1, <1>6
  <2>2. PICK i \in 1 .. c + o : v = Published[i]
    BY <1>2, <1>10, <2>1
  <2>3. i <= c
    BY <1>1, <1>6, <1>8, <2>2
  <2> QED BY <1>1, <1>9, <2>2, <2>3
<1>13. Range(consumed) = (0 .. n - 1) \ lost
  BY <1>11, <1>12
<1> QED BY <1>6, <1>13

LEMMA InitWatched == PipelineInit => Watched!Init
BY DEF PipelineInit, Init, Watched!Init

LEMMA ProbeWatched ==
  ASSUME PipelineInv, ProcessStep \/ ModelExit \/ Inject, UNCHANGED monitorVars
  PROVE  [Watched!Next]_(Watched!vars)
<1>1. UNCHANGED <<redis, mpc>>
  BY DEF monitorVars
<1>2. CASE ReadO /\ is_major = 1
  <2>1. actual_time = log_counter /\ log_counter \in 0 .. MAX_CYCLES - 1
    BY <1>2, LogsInOrder DEF PipelineInv, OutInv
  <2>2. log_counter' = log_counter + 1 /\ lost' \in {lost, lost \cup {log_counter}}
    BY <1>2, <2>1 DEF ReadO, Record
  <2>3. log_counter < MAX_CYCLES
    BY <2>1, CyclesAssumption
  <2>4. Watched!Log
    BY <1>1, <2>2, <2>3 DEF Watched!Log
  <2> QED BY <2>4 DEF Watched!Next
<1>3. CASE ~(ReadO /\ is_major = 1)
  <2>1. UNCHANGED <<log_counter, lost>>
    BY <1>3 DEF ProcessStep, Timer, WriteI, ReadI, ReadO, ModelExit, Inject, outVars
  <2> QED BY <1>1, <2>1 DEF Watched!vars
<1> QED BY <1>2, <1>3

LEMMA MonitorWatched ==
  ASSUME PipelineInv, MonitorStep
  PROVE  [Watched!Next]_(Watched!vars)
<1>1. UNCHANGED <<log_counter, lost>>
  BY DEF MonitorStep, StartMonitor, ReadRecord, Consume, ReadTimesOut, WriteBatch, Flush,
     MonitorFails, vars, outVars
<1>2. CASE StartMonitor \/ ReadRecord \/ ReadTimesOut
  <2>1. redis' = redis /\ mpc \in {"start", "read"} /\ mpc' \in {"read", "write", "flush"}
    BY <1>2 DEF StartMonitor, ReadRecord, ReadTimesOut
  <2> QED BY <1>1, <2>1 DEF Watched!vars
<1>3. CASE WriteBatch
  <2>1. redis' = Range(consumed) /\ mpc = "write" /\ mpc' = "read" /\ redis \subseteq redis'
    <3>1. writeToRedis /\ UNCHANGED vars /\ mpc = "write" /\ mpc' = "read"
      BY <1>3 DEF WriteBatch
    <3>2. redis' = Range(consumed)
      BY <3>1, WriteRecordsBatch
    <3> QED BY <3>1, <3>2 DEF writeToRedis
  <2>2. PICK n \in 0 .. log_counter : Range(consumed) = (0 .. n - 1) \ lost
    BY TakenInOrder
  <2>3. redis' = redis \cup ((0 .. n - 1) \ lost)
    BY <2>1, <2>2
  <2>4. Watched!Show
    BY <1>1, <2>1, <2>3 DEF Watched!Show
  <2> QED BY <2>4 DEF Watched!Next
<1>4. CASE Flush
  <2>1. redis' = Range(consumed) /\ mpc = "flush" /\ mpc' = "ended"
    BY <1>4, WriteRecordsBatch DEF Flush
  <2>2. Len(consumed) = MAX_CYCLES
    BY <2>1 DEF PipelineInv, BatchInv
  <2>3. log_counter = MAX_CYCLES /\ lost = {} /\ Len(out_rb) = 0
    BY <2>2, MonitorTypes, TakenAreLogged
  <2>4. Published = consumed
    BY <2>3, MonitorTypes, EmptySeq, ConcatEmptySeq DEF Published
  <2>5. Range(consumed) = 0 .. MAX_CYCLES - 1
    BY <2>3, <2>4, PipelineAssumption DEF PipelineInv, OutInv, RecordInv
  <2>6. Watched!End
    BY <1>1, <2>1, <2>3, <2>5 DEF Watched!End
  <2> QED BY <2>6 DEF Watched!Next
<1>5. CASE MonitorFails
  <2>1. redis' = redis /\ mpc \in {"start", "write", "flush"} /\ mpc' = "failed"
    BY <1>5 DEF MonitorFails
  <2>2. Watched!Fail
    BY <1>1, <2>1 DEF Watched!Fail
  <2> QED BY <2>2 DEF Watched!Next
<1> QED BY <1>2, <1>3, <1>4, <1>5 DEF MonitorStep

LEMMA StepWatched ==
  PipelineInv /\ [PipelineNext]_pipelineVars => [Watched!Next]_(Watched!vars)
<1> SUFFICES ASSUME PipelineInv, [PipelineNext]_pipelineVars PROVE [Watched!Next]_(Watched!vars)
  OBVIOUS
<1>1. CASE UNCHANGED pipelineVars
  BY <1>1 DEF pipelineVars, vars, outVars, monitorVars, Watched!vars
<1> QED BY <1>1, ProbeWatched, MonitorWatched DEF PipelineNext

\* The types of the monitor, whose batch never outgrows its capacity and whose
\* count never passes the cycles (simulator.go:818).
THEOREM MonitorTypeCorrect == PipelineSpec => []PipelineTypeOK
<1>1. PipelineInv => PipelineTypeOK
  BY DEF PipelineInv
<1> QED BY <1>1, InitPipelineInv, PipelineInvStep, PTL DEF PipelineSpec

\* Whoever watches Redis sees the cycles in order and without gaps but for the
\* lost, and the end of the simulation only when it has them all
\* (simulator.go:700, probe.c:419).
THEOREM PipelineImplementsStream == PipelineSpec => ImplementsStream
<1>1. PipelineSpec => []PipelineInv
  BY InitPipelineInv, PipelineInvStep, PTL DEF PipelineSpec
<1> QED BY <1>1, InitWatched, StepWatched, PTL DEF PipelineSpec, ImplementsStream, Watched!Spec

(***************************************************************************)
(* What is proved about the probes holds while a monitor reads their ring: *)
(* the pipeline is a run of Probe, and every logged cycle that is not lost *)
(* is with the monitor, in the ring or in the trace (simulator.go:768).    *)
(***************************************************************************)
THEOREM PipelineRunsProbes ==
  PipelineSpec => Init /\ [][Next]_vars /\ []OutputAccounted
<1>1. PipelineInit => Init
  BY DEF PipelineInit
<1>2. PipelineInv => OutputAccounted
  BY DEF PipelineInv, OutInv, RecordInv, TraceInv, OutputAccounted
<1> QED BY <1>1, <1>2, PipelineIsProbe, InitPipelineInv, PipelineInvStep, PTL DEF PipelineSpec
============================================================================
