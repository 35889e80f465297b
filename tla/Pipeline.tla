------------------------------ MODULE Pipeline -------------------------------
(***************************************************************************)
(* The way of the outputs from the probes to the dashboard: module Probe   *)
(* composed with the monitor of simulator/simulator.go.                    *)
(*                                                                         *)
(* The monitor takes the records from out_rb, which it shares with the     *)
(* probes, collects them into batches and adds each batch to a sorted set  *)
(* in Redis.  It asks itself whether it is done only when no record came   *)
(* for 50 ms, and it is done when it has counted a record for every cycle. *)
(* The members of that set which other runs left are not modelled: the     *)
(* monitor never looks at them.                                            *)
(***************************************************************************)
EXTENDS Probe

CONSTANTS
  BATCH,        \* records written to Redis at once (50)
  RedisFaults   \* Redis may refuse or be gone, the reader may not be created

ASSUME PipelineAssumption ==
  INTERACTIVE /\ BATCH \in Nat \ {0} /\ RedisFaults \in BOOLEAN

VARIABLES
  mpc,             \* where the monitor is
  records,         \* cycles of the records of the batch
  writtenRecords,  \* number of records written
  redis            \* cycles whose record is a member of the sorted set

monitorVars == <<mpc, records, writtenRecords, redis>>
pipelineVars == <<vars, monitorVars>>

PipelineTypeOK ==
  /\ mpc \in {"start", "read", "write", "flush", "ended", "failed"}
  /\ records \in Seq(0 .. MAX_CYCLES - 1) /\ Len(records) <= BATCH
  /\ writtenRecords \in 0 .. MAX_CYCLES
  /\ redis \subseteq 0 .. MAX_CYCLES - 1

PipelineInit ==
  /\ Init
  /\ mpc = "start" /\ records = <<>> /\ writtenRecords = 0
  /\ redis = {}
----------------------------------------------------------------------------
\* The simulation is registered in Redis and the ring reader created.
StartMonitor ==
  /\ mpc = "start"
  /\ mpc' = "read"
  /\ UNCHANGED <<vars, records, writtenRecords, redis>>

\* A plausible slip: one record too many.
BatchOverfull(batch) == Len(batch) > BATCH

BatchFull(batch) == Len(batch) >= BATCH

ReadRecord ==
  /\ mpc = "read"
  /\ Consume
  /\ records' = Append(records, Head(out_rb))
  /\ mpc' = IF BatchFull(records') THEN "write" ELSE "read"
  /\ UNCHANGED <<writtenRecords, redis>>

\* A plausible slip: records not yet written do not count.
CompleteWritten == writtenRecords = MAX_CYCLES

Complete == writtenRecords + Len(records) = MAX_CYCLES

\* No record came for 50 ms.
ReadTimesOut ==
  /\ mpc = "read" /\ out_rb = <<>> /\ Complete
  /\ mpc' = "flush"
  /\ UNCHANGED <<vars, records, writtenRecords, redis>>

\* The records join the sorted set, with their cycle as the score.
writeToRedis ==
  /\ redis' = redis \cup Range(records)
  /\ writtenRecords' = writtenRecords + Len(records)
  /\ records' = <<>>

WriteBatch ==
  /\ mpc = "write"
  /\ writeToRedis
  /\ mpc' = "read"
  /\ UNCHANGED vars

\* A plausible slip: the loop ends and the last batch is forgotten.
FlushNothing ==
  /\ mpc = "flush"
  /\ mpc' = "ended"
  /\ UNCHANGED <<vars, records, writtenRecords, redis>>

Flush ==
  /\ mpc = "flush"
  /\ writeToRedis
  /\ mpc' = "ended"
  /\ UNCHANGED vars

\* An error of Redis or of the ring reader ends the monitor; its batch is lost.
MonitorFails ==
  /\ RedisFaults /\ mpc \in {"start", "write", "flush"}
  /\ mpc' = "failed"
  /\ UNCHANGED <<vars, records, writtenRecords, redis>>
----------------------------------------------------------------------------
MonitorStep ==
  StartMonitor \/ ReadRecord \/ ReadTimesOut \/ WriteBatch \/ Flush \/ MonitorFails

PipelineNext ==
  \/ (ProcessStep \/ ModelExit \/ Inject) /\ UNCHANGED monitorVars
  \/ MonitorStep

\* The model's loop never blocks; the monitor polls for ever.
PipelineFairness ==
  WF_pipelineVars(ProcessStep /\ UNCHANGED monitorVars) /\ WF_pipelineVars(MonitorStep)

PipelineSpec == PipelineInit /\ [][PipelineNext]_pipelineVars /\ PipelineFairness
----------------------------------------------------------------------------
(***************************************************************************)
(* Properties                                                              *)
(***************************************************************************)
Watched == INSTANCE Stream WITH
  Cycles <- MAX_CYCLES,
  logged <- log_counter,
  shown <- redis,
  status <- IF mpc \in {"ended", "failed"} THEN mpc ELSE "open"

\* Probes, ring and monitor together implement the stream a watcher is
\* promised: in order, without duplicates or inventions, and ended well only
\* when every cycle of the simulation is in Redis.
ImplementsStream == Watched!Spec

\* A simulation that logs all its cycles and loses none is seen to end, unless
\* Redis fails.
CompleteRunEnds ==
  log_counter = MAX_CYCLES /\ lost = {} ~> mpc \in {"ended", "failed"}

\* The simulation stops, and unless Redis failed everything it published is
\* taken from the ring.
PipelineStops == <>[](pc = "gone" /\ (out_rb = <<>> \/ mpc = "failed"))
==============================================================================
