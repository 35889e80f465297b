------------------------------- MODULE Server -------------------------------
(***************************************************************************)
(* The four services of server/server.go, the lock they share, and the     *)
(* simulations of simulator/simulator.go they start.                       *)
(*                                                                         *)
(* Each service is a sequential accept loop.  A handler takes the lock,    *)
(* reads its request, starts simulator.Start in a goroutine of its own and *)
(* waits for the WaitGroup.  Start pins one map per signal under a path    *)
(* all simulations share, attaches the uprobes, launches the model, and    *)
(* calls wg.Done before its deferred cleanup runs, so that the cleanup of  *)
(* one simulation overlaps with the next request.                          *)
(*                                                                         *)
(* Requests are numbered in the order they are accepted.  The cycles of a  *)
(* simulation are module Probe's matter: here the model process runs and   *)
(* ends, and the record of a cycle may be lost.  A fault is anything that  *)
(* makes a step of the code fail; faults are recorded per request.         *)
(***************************************************************************)
EXTENDS Integers, Sequences, FiniteSets, Functions

CONSTANTS
  Services,     \* the services offered
  MaxRequests,  \* bound: requests accepted
  NofInputs,    \* write-input and read-input signals
  NofOutputs,   \* read-output signals
  Faults,       \* the kinds of faults that may happen
  MaxFaults,    \* bound: faults in a behaviour
  MaxCrashes    \* bound: crashes of the server program

AllServices == {"monitoring", "falsification", "state", "signal"}
FaultKinds == {"client", "load", "pin", "fill", "link", "launch", "model",
               "record", "harvest", "monitor"}

ASSUME ServicesAssumption == Services \subseteq AllServices
ASSUME RequestsAssumption == MaxRequests \in Nat \ {0}
ASSUME SignalsAssumption == NofInputs \in Nat /\ NofOutputs \in Nat \ {0}
ASSUME FaultsAssumption == Faults \subseteq FaultKinds /\ MaxFaults \in Nat /\ MaxCrashes \in Nat

Requests == 1 .. MaxRequests
NofSignals == NofInputs + NofOutputs
Signals == 1 .. NofSignals
Perturbations == {"state", "signal"}

VARIABLES
  hpc,       \* where the handler of each service is
  conn,      \* the request each handler serves
  lock,      \* SERVER_BUSY: the service that holds it, or "free"
  accepted,  \* number of requests accepted
  svc,       \* the service of each request
  phase,     \* where the Start goroutine of each request is
  npins,     \* deferred Unpins registered and not run yet
  errCh,     \* "error" once an error was sent
  done,      \* requests whose WaitGroup is done
  monErr,    \* requests whose monitor returned an error
  pins,      \* signal -> the request whose map is pinned at its path, 0 if none
  rb_pins,   \* the same for the pinned user ring buffers
  attached,  \* requests whose uprobes are attached to the model executable
  proc,      \* the model process of each request
  result,    \* owners of the maps a falsification has read
  reply,     \* what the client was sent at the end
  faults,    \* history: the faults each request met
  crashes    \* history: crashes and restarts so far; down when odd

handlerVars == <<hpc, conn, lock, accepted, svc, reply>>
startVars == <<phase, npins, errCh, done, monErr, result>>
kernelVars == <<pins, rb_pins, attached, proc>>
vars == <<handlerVars, startVars, kernelVars, faults, crashes>>

\* Start's work, up to wg.Done, and its deferred cleanup after it.
Working == {"load", "pin", "fill", "link", "launch", "wait", "harvest",
            "pin_rb", "monitor", "finish"}
Cleaning == {"unpin_rb", "cancel", "detach", "unpin"}
Phases == Working \cup Cleaning \cup {"none", "gone"}

TypeHandlers ==
  /\ hpc \in [Services -> {"accept", "lock", "read", "wait", "unlock"}]
  /\ conn \in [Services -> 0 .. MaxRequests]
  /\ lock \in Services \cup {"free"}
  /\ accepted \in 0 .. MaxRequests
  /\ svc \in [Requests -> Services \cup {"none"}]
  /\ reply \in [Requests -> {"none", "result", "ended", "dropped"}]

TypeStart ==
  /\ phase \in [Requests -> Phases]
  /\ npins \in [Requests -> 0 .. NofSignals]
  /\ errCh \in [Requests -> {"empty", "error"}]
  /\ done \subseteq Requests /\ monErr \subseteq Requests
  /\ result \in [Requests -> Seq(Requests)]
  /\ \A r \in Requests : Len(result[r]) <= NofOutputs

TypeKernel ==
  /\ pins \in [Signals -> 0 .. MaxRequests]
  /\ rb_pins \in [Perturbations -> 0 .. MaxRequests]
  /\ attached \subseteq Requests
  /\ proc \in [Requests -> {"none", "running", "dying", "ended", "quit", "crashed"}]

TypeHistory ==
  /\ faults \in [Requests -> SUBSET FaultKinds]
  /\ crashes \in 0 .. 2 * MaxCrashes

TypeOK == TypeHandlers /\ TypeStart /\ TypeKernel /\ TypeHistory

Init ==
  /\ hpc = [s \in Services |-> "accept"]
  /\ conn = [s \in Services |-> 0]
  /\ lock = "free" /\ accepted = 0
  /\ svc = [r \in Requests |-> "none"]
  /\ phase = [r \in Requests |-> "none"]
  /\ npins = [r \in Requests |-> 0]
  /\ errCh = [r \in Requests |-> "empty"]
  /\ done = {} /\ monErr = {}
  /\ pins = [p \in Signals |-> 0]
  /\ rb_pins = [b \in Perturbations |-> 0]
  /\ attached = {}
  /\ proc = [r \in Requests |-> "none"]
  /\ result = [r \in Requests |-> <<>>]
  /\ reply = [r \in Requests |-> "none"]
  /\ faults = [r \in Requests |-> {}]
  /\ crashes = 0

Up == crashes % 2 = 0

\* A fault of kind f hits request r.
NofFaults == Cardinality({rf \in Requests \X FaultKinds : rf[2] \in faults[rf[1]]})
FaultHits(r, f) ==
  /\ f \in Faults /\ NofFaults < MaxFaults
  /\ faults' = [faults EXCEPT ![r] = @ \cup {f}]
----------------------------------------------------------------------------
(***************************************************************************)
(* The handlers.                                                           *)
(***************************************************************************)
Accept(s) ==
  /\ Up /\ hpc[s] = "accept" /\ accepted < MaxRequests
  /\ accepted' = accepted + 1
  /\ conn' = [conn EXCEPT ![s] = accepted + 1]
  /\ svc' = [svc EXCEPT ![accepted + 1] = s]
  /\ hpc' = [hpc EXCEPT ![s] = "lock"]
  /\ UNCHANGED <<lock, reply, startVars, kernelVars, faults, crashes>>

\* A plausible slip: the request is served without taking the lock.
LockSkipped(s) ==
  /\ Up /\ hpc[s] = "lock"
  /\ hpc' = [hpc EXCEPT ![s] = "read"]
  /\ UNCHANGED <<lock, conn, accepted, svc, reply, startVars, kernelVars, faults, crashes>>

Lock(s) ==
  /\ Up /\ hpc[s] = "lock" /\ lock = "free"
  /\ lock' = s
  /\ hpc' = [hpc EXCEPT ![s] = "read"]
  /\ UNCHANGED <<conn, accepted, svc, reply, startVars, kernelVars, faults, crashes>>

\* getData and deserialize: the lock is already held.
ReadRequest(s) ==
  /\ Up /\ hpc[s] = "read"
  /\ hpc' = [hpc EXCEPT ![s] = "wait"]
  /\ phase' = [phase EXCEPT ![conn[s]] = "load"]
  /\ UNCHANGED <<conn, lock, accepted, svc, reply, npins, errCh, done, monErr,
                 result, kernelVars, faults, crashes>>

\* A plausible slip: an early return that leaves the lock taken.
ReadFailsLocked(s) ==
  /\ Up /\ hpc[s] = "read"
  /\ FaultHits(conn[s], "client")
  /\ hpc' = [hpc EXCEPT ![s] = "accept"]
  /\ reply' = [reply EXCEPT ![conn[s]] = "dropped"]
  /\ UNCHANGED <<conn, lock, accepted, svc, startVars, kernelVars, crashes>>

ReadFails(s) ==
  /\ Up /\ hpc[s] = "read"
  /\ FaultHits(conn[s], "client")
  /\ hpc' = [hpc EXCEPT ![s] = "unlock"]
  /\ reply' = [reply EXCEPT ![conn[s]] = "dropped"]
  /\ UNCHANGED <<conn, lock, accepted, svc, startVars, kernelVars, crashes>>

\* What the handler makes of a finished simulation: a falsification also
\* waits for the result.
Outcome(r) == IF errCh[r] = "error" THEN "dropped"
              ELSE IF svc[r] = "falsification" THEN "result" ELSE "ended"

Reply(s) ==
  LET r == conn[s]
  IN /\ Up /\ hpc[s] = "wait" /\ r \in done
     /\ Outcome(r) = "result" => Len(result[r]) = NofOutputs
     /\ reply' = [reply EXCEPT ![r] = Outcome(r)]
     /\ hpc' = [hpc EXCEPT ![s] = "unlock"]
     /\ UNCHANGED <<conn, lock, accepted, svc, startVars, kernelVars, faults, crashes>>

\* The deferred unlockServer and conn.Close.
Unlock(s) ==
  /\ Up /\ hpc[s] = "unlock"
  /\ lock' = "free"
  /\ hpc' = [hpc EXCEPT ![s] = "accept"]
  /\ conn' = [conn EXCEPT ![s] = 0]
  /\ UNCHANGED <<accepted, svc, reply, startVars, kernelVars, faults, crashes>>
----------------------------------------------------------------------------
(***************************************************************************)
(* simulator.Start.  Goto moves it on; Done is wg.Done, after which the    *)
(* deferred calls run, the last registered first; Fail reports an error    *)
(* before Done.                                                            *)
(***************************************************************************)
Goto(r, p) == phase' = [phase EXCEPT ![r] = p]

FirstCleanup == "unpin_rb"

Done(r) ==
  /\ done' = done \cup {r}
  /\ Goto(r, FirstCleanup)

Fail(r) ==
  /\ errCh' = [errCh EXCEPT ![r] = "error"]
  /\ Done(r)

At(r, p) == Up /\ phase[r] = p

\* Probe, configuration, variables and trajectory, before anything is pinned.
Load(r) ==
  /\ At(r, "load")
  /\ Goto(r, "pin")
  /\ UNCHANGED <<handlerVars, npins, errCh, done, monErr, result, kernelVars, faults, crashes>>

LoadFails(r) ==
  /\ At(r, "load") /\ FaultHits(r, "load")
  /\ Fail(r)
  /\ UNCHANGED <<handlerVars, npins, monErr, result, kernelVars, crashes>>

\* The next signal's map is created and pinned, unless its path is taken.
NextPin(r) == npins[r] + 1

\* A plausible slip: a pin that is in the way is removed.
PathAlwaysFree(p) == p \in Signals

PathFree(p) == pins[p] = 0

\* A plausible slip: a map that is already pinned is reused.
PinReused(r) ==
  /\ At(r, "pin")
  /\ pins' = [pins EXCEPT ![NextPin(r)] = IF @ = 0 THEN r ELSE @]
  /\ Goto(r, "fill")
  /\ UNCHANGED <<handlerVars, npins, errCh, done, monErr, result,
                 rb_pins, attached, proc, faults, crashes>>

Pin(r) ==
  /\ At(r, "pin") /\ PathFree(NextPin(r))
  /\ pins' = [pins EXCEPT ![NextPin(r)] = r]
  /\ Goto(r, "fill")
  /\ UNCHANGED <<handlerVars, npins, errCh, done, monErr, result,
                 rb_pins, attached, proc, faults, crashes>>

PinFails(r) ==
  /\ At(r, "pin")
  /\ IF PathFree(NextPin(r)) THEN FaultHits(r, "pin") ELSE UNCHANGED faults
  /\ Fail(r)
  /\ UNCHANGED <<handlerVars, npins, monErr, result, kernelVars, crashes>>

\* The trajectory goes into the pinned map; only then is its Unpin deferred.
Fill(r) ==
  /\ At(r, "fill")
  /\ npins' = [npins EXCEPT ![r] = NextPin(r)]
  /\ Goto(r, IF NextPin(r) < NofSignals THEN "pin" ELSE "link")
  /\ UNCHANGED <<handlerVars, errCh, done, monErr, result, kernelVars, faults, crashes>>

FillFails(r) ==
  /\ At(r, "fill") /\ FaultHits(r, "fill")
  /\ Fail(r)
  /\ UNCHANGED <<handlerVars, npins, monErr, result, kernelVars, crashes>>

\* The uprobes are attached in turn; an error leaves those before it attached.
Link(r) ==
  /\ At(r, "link")
  /\ attached' = attached \cup {r}
  /\ Goto(r, "launch")
  /\ UNCHANGED <<handlerVars, npins, errCh, done, monErr, result,
                 pins, rb_pins, proc, faults, crashes>>

LinkFails(r) ==
  /\ At(r, "link") /\ FaultHits(r, "link")
  /\ attached' \in {attached, attached \cup {r}}
  /\ Fail(r)
  /\ UNCHANGED <<handlerVars, npins, monErr, result, pins, rb_pins, proc, crashes>>

\* The model is launched; what follows depends on the service.
AfterLaunch(s) == CASE s = "falsification" -> "wait"
                    [] s = "monitoring" -> "monitor"
                    [] OTHER -> "pin_rb"

Launch(r) ==
  /\ At(r, "launch")
  /\ proc' = [proc EXCEPT ![r] = "running"]
  /\ Goto(r, AfterLaunch(svc[r]))
  /\ UNCHANGED <<handlerVars, npins, errCh, done, monErr, result,
                 pins, rb_pins, attached, faults, crashes>>

LaunchFails(r) ==
  /\ At(r, "launch") /\ FaultHits(r, "launch")
  /\ Fail(r)
  /\ UNCHANGED <<handlerVars, npins, monErr, result, kernelVars, crashes>>

\* Falsification: the process is gone, killed by the timer probe (which
\* cmdWasSigkilled recognises), or by itself.
Wait(r) ==
  /\ At(r, "wait") /\ proc[r] \in {"ended", "quit", "crashed"}
  /\ IF proc[r] = "crashed"
     THEN Fail(r)
     ELSE Goto(r, "harvest") /\ UNCHANGED <<errCh, done>>
  /\ UNCHANGED <<handlerVars, npins, monErr, result, kernelVars, faults, crashes>>

\* The output maps are loaded from their paths, one after the other.
\* A plausible slip: the keys of the outputs start at the first signal.
HarvestFromFirst(r) == Len(result[r]) + 1

NextHarvest(r) == NofInputs + Len(result[r]) + 1

Harvest(r) ==
  /\ At(r, "harvest") /\ pins[NextHarvest(r)] # 0
  /\ result' = [result EXCEPT ![r] = Append(@, pins[NextHarvest(r)])]
  /\ Goto(r, IF NextHarvest(r) = NofSignals THEN "finish" ELSE "harvest")
  /\ UNCHANGED <<handlerVars, npins, errCh, done, monErr, kernelVars, faults, crashes>>

HarvestFails(r) ==
  /\ At(r, "harvest")
  /\ IF pins[NextHarvest(r)] # 0 THEN FaultHits(r, "harvest") ELSE UNCHANGED faults
  /\ Fail(r)
  /\ UNCHANGED <<handlerVars, npins, monErr, result, kernelVars, crashes>>

\* Perturbation: the user ring buffer is pinned for the injector.
PinRb(r) ==
  /\ At(r, "pin_rb") /\ rb_pins[svc[r]] = 0
  /\ rb_pins' = [rb_pins EXCEPT ![svc[r]] = r]
  /\ Goto(r, "monitor")
  /\ UNCHANGED <<handlerVars, npins, errCh, done, monErr, result,
                 pins, attached, proc, faults, crashes>>

PinRbFails(r) ==
  /\ At(r, "pin_rb")
  /\ IF rb_pins[svc[r]] = 0 THEN FaultHits(r, "pin") ELSE UNCHANGED faults
  /\ Fail(r)
  /\ UNCHANGED <<handlerVars, npins, monErr, result, kernelVars, crashes>>

\* The monitor has read a record per cycle, which takes a process that ran
\* them all and lost none; otherwise it waits for ever.
MonitorEnds(r) ==
  /\ At(r, "monitor") /\ proc[r] \in {"running", "ended"} /\ "record" \notin faults[r]
  /\ Goto(r, "finish")
  /\ UNCHANGED <<handlerVars, npins, errCh, done, monErr, result, kernelVars, faults, crashes>>

\* Its error fails a monitoring; a perturbation keeps it in errChm, which
\* nobody reads, and finishes as usual.
\* A plausible slip: the error is dropped for a monitoring, too.
MonitorFailsSilently(r) ==
  /\ At(r, "monitor") /\ FaultHits(r, "monitor")
  /\ monErr' = monErr \cup {r}
  /\ Goto(r, "finish")
  /\ UNCHANGED <<handlerVars, npins, errCh, done, result, kernelVars, crashes>>

MonitorFails(r) ==
  /\ At(r, "monitor") /\ FaultHits(r, "monitor")
  /\ monErr' = monErr \cup {r}
  /\ IF svc[r] = "monitoring"
     THEN Fail(r)
     ELSE Goto(r, "finish") /\ UNCHANGED <<errCh, done>>
  /\ UNCHANGED <<handlerVars, npins, result, kernelVars, crashes>>

Finish(r) ==
  /\ At(r, "finish")
  /\ Done(r)
  /\ UNCHANGED <<handlerVars, npins, errCh, monErr, result, kernelVars, faults, crashes>>

(***************************************************************************)
(* The deferred calls.  What was not registered has nothing to undo.       *)
(***************************************************************************)
UnpinRb(r) ==
  /\ At(r, "unpin_rb")
  /\ rb_pins' = [b \in Perturbations |-> IF rb_pins[b] = r THEN 0 ELSE rb_pins[b]]
  /\ Goto(r, "cancel")
  /\ UNCHANGED <<handlerVars, npins, errCh, done, monErr, result,
                 pins, attached, proc, faults, crashes>>

\* cancelSimulation: another goroutine delivers the kill.
Cancel(r) ==
  /\ At(r, "cancel")
  /\ proc' = [proc EXCEPT ![r] = IF @ = "running" THEN "dying" ELSE @]
  /\ Goto(r, "detach")
  /\ UNCHANGED <<handlerVars, npins, errCh, done, monErr, result,
                 pins, rb_pins, attached, faults, crashes>>

Detach(r) ==
  /\ At(r, "detach")
  /\ attached' = attached \ {r}
  /\ Goto(r, "unpin")
  /\ UNCHANGED <<handlerVars, npins, errCh, done, monErr, result,
                 pins, rb_pins, proc, faults, crashes>>

\* A plausible slip: the first map stays pinned.
UnpinButFirst(r) ==
  /\ At(r, "unpin")
  /\ IF npins[r] > 1
     THEN /\ pins' = [pins EXCEPT ![npins[r]] = 0]
          /\ npins' = [npins EXCEPT ![r] = @ - 1]
          /\ UNCHANGED phase
     ELSE Goto(r, "gone") /\ UNCHANGED <<pins, npins>>
  /\ UNCHANGED <<handlerVars, errCh, done, monErr, result,
                 rb_pins, attached, proc, faults, crashes>>

\* The maps are unpinned in the reverse order; Unpin removes the path,
\* whatever is pinned there.
Unpin(r) ==
  /\ At(r, "unpin")
  /\ IF npins[r] > 0
     THEN /\ pins' = [pins EXCEPT ![npins[r]] = 0]
          /\ npins' = [npins EXCEPT ![r] = @ - 1]
          /\ UNCHANGED phase
     ELSE Goto(r, "gone") /\ UNCHANGED <<pins, npins>>
  /\ UNCHANGED <<handlerVars, errCh, done, monErr, result,
                 rb_pins, attached, proc, faults, crashes>>
----------------------------------------------------------------------------
(***************************************************************************)
(* The model process: it ends with its last cycle, killed by any timer     *)
(* probe attached to the executable; the kill of cancelSimulation is       *)
(* delivered; or it quits early, with or without an error.                 *)
(***************************************************************************)
ProcEnds(r) ==
  /\ \/ proc[r] = "running" /\ attached # {}
     \/ proc[r] = "dying" /\ Up
  /\ proc' = [proc EXCEPT ![r] = "ended"]
  /\ UNCHANGED <<handlerVars, startVars, pins, rb_pins, attached, faults, crashes>>

ProcQuits(r) ==
  /\ proc[r] = "running" /\ FaultHits(r, "model")
  /\ \E how \in {"quit", "crashed"} : proc' = [proc EXCEPT ![r] = how]
  /\ UNCHANGED <<handlerVars, startVars, pins, rb_pins, attached, crashes>>

\* A read_o probe can not read its signals, or finds no room in out_rb: the
\* record of its cycle, or that part of the output traces, is missing.
LoseRecord(r) ==
  /\ proc[r] = "running" /\ r \in attached /\ phase[r] \in {"wait", "pin_rb", "monitor"}
  /\ FaultHits(r, "record")
  /\ UNCHANGED <<handlerVars, startVars, kernelVars, crashes>>

(***************************************************************************)
(* The server program crashes: its goroutines, connections, links and      *)
(* unpinned maps are gone, a kill not delivered is lost, and the pins and  *)
(* the model processes stay.  It is started again by make run, which       *)
(* removes the pins.                                                       *)
(***************************************************************************)
Alive(r) == phase[r] \notin {"none", "gone"}

Crash ==
  /\ Up /\ crashes < 2 * MaxCrashes
  /\ crashes' = crashes + 1
  /\ hpc' = [s \in Services |-> "accept"]
  /\ conn' = [s \in Services |-> 0]
  /\ lock' = "free"
  /\ reply' = [r \in Requests |-> IF r <= accepted /\ reply[r] = "none"
                                  THEN "dropped" ELSE reply[r]]
  /\ phase' = [r \in Requests |-> IF Alive(r) THEN "gone" ELSE phase[r]]
  /\ npins' = [r \in Requests |-> 0]
  /\ attached' = {}
  /\ proc' = [r \in Requests |-> IF proc[r] = "dying" THEN "running" ELSE proc[r]]
  /\ UNCHANGED <<accepted, svc, errCh, done, monErr, result, pins, rb_pins, faults>>

Restart ==
  /\ ~Up
  /\ crashes' = crashes + 1
  /\ pins' = [p \in Signals |-> 0]
  /\ rb_pins' = [b \in Perturbations |-> 0]
  /\ UNCHANGED <<handlerVars, startVars, attached, proc, faults>>
----------------------------------------------------------------------------
HandlerStep(s) == Lock(s) \/ ReadRequest(s) \/ ReadFails(s) \/ Reply(s) \/ Unlock(s)

StartStep(r) ==
  \/ Load(r) \/ LoadFails(r) \/ Pin(r) \/ PinFails(r) \/ Fill(r) \/ FillFails(r)
  \/ Link(r) \/ LinkFails(r) \/ Launch(r) \/ LaunchFails(r)
  \/ Wait(r) \/ Harvest(r) \/ HarvestFails(r)
  \/ PinRb(r) \/ PinRbFails(r) \/ MonitorEnds(r) \/ MonitorFails(r) \/ Finish(r)
  \/ UnpinRb(r) \/ Cancel(r) \/ Detach(r) \/ Unpin(r)

Next ==
  \/ \E s \in Services : Accept(s) \/ HandlerStep(s)
  \/ \E r \in Requests : StartStep(r) \/ ProcEnds(r) \/ ProcQuits(r) \/ LoseRecord(r)
  \/ Crash \/ Restart

\* The Go scheduler runs every goroutine that can run, but no fault has to
\* happen: a monitor that waits for a lost record is not rescued by an error
\* of Redis.  Clients send their request or go away (getData has no deadline
\* of its own); a model process under the timer probe ends; make run is
\* repeated after a crash.
Fairness ==
  /\ \A s \in Services : WF_vars(HandlerStep(s) /\ faults' = faults)
  /\ \A r \in Requests : /\ WF_vars(StartStep(r) /\ faults' = faults)
                         /\ WF_vars(ProcEnds(r))
  /\ WF_vars(Restart)

Spec == Init /\ [][Next]_vars /\ Fairness
----------------------------------------------------------------------------
(***************************************************************************)
(* Properties                                                              *)
(***************************************************************************)
\* One simulation works at a time, for the handler that holds the lock.
SimulationsSerialized ==
  \A r \in Requests : phase[r] \in Working =>
    \E s \in Services : lock = s /\ conn[s] = r /\ hpc[s] = "wait"

\* Although a simulation is cleaned up while the next one starts, at most one
\* has its uprobes attached: the next cannot get past its first pin before
\* the last unpin of the other, which comes after its detach.
OneAttached == \A r1, r2 \in attached : r1 = r2

\* A falsification reads, by path, only the maps it pinned itself.
OwnTraces == \A r \in Requests : \A i \in DOMAIN result[r] : result[r][i] = r

PinOwed(r, p) == p <= npins[r] \/ (phase[r] = "fill" /\ p = NextPin(r))

\* While the server is up, every pin belongs to a simulation that will remove
\* it, or to one that failed between pinning and deferring the Unpin.
PinsAccounted ==
  Up => /\ \A p \in Signals : pins[p] # 0 =>
             (Alive(pins[p]) /\ PinOwed(pins[p], p)) \/ "fill" \in faults[pins[p]]
        /\ \A b \in Perturbations : rb_pins[b] # 0 => Alive(rb_pins[b])

\* A pin disappears only in its owner's own cleanup, or at a restart.
PinsRemovedByOwner ==
  [][\A p \in Signals : pins[p] # 0 /\ pins'[p] # pins[p] =>
       pins'[p] = 0 /\ (phase[pins[p]] = "unpin" \/ ~Up)]_vars

\* Monitoring and falsification clients are told of success only when no
\* fault of the server hit their simulation, and a falsification then has
\* every output; a monitored one has lost no record, while a falsification
\* does not notice when a cycle is missing in an output.
SuccessIsReal ==
  \A r \in Requests :
    /\ svc[r] \in {"monitoring", "falsification"} /\ reply[r] \in {"result", "ended"} =>
         /\ faults[r] \subseteq {"model"} \cup
                                (IF svc[r] = "falsification" THEN {"record"} ELSE {})
         /\ r \notin monErr
    /\ reply[r] = "result" => svc[r] = "falsification" /\ Len(result[r]) = NofOutputs

\* The monitor of r counts records, and will never count one for each cycle:
\* one was lost (probe.c:441, 456), or the model has quit.
Stuck(r) ==
  At(r, "monitor") /\ ("record" \in faults[r] \/ proc[r] \in {"quit", "crashed"})
Hung == \E r \in Requests : Stuck(r)

\* Every accepted request is answered or dropped in the end, whatever fails,
\* but for one thing: a monitor that misses a record keeps its request and,
\* with the lock, all others waiting for ever (simulator.go:818).
RequestsAnswered ==
  \A r \in Requests : svc[r] # "none" ~> (reply[r] # "none" \/ []Hung)

\* In the end nothing is left behind: no simulation, no lock, no uprobe, and
\* no pin but the one a failed Fill leaves; or else a monitor misses a record,
\* and its simulation keeps everything it has.
AllCleanedUp ==
  \/ <>[](/\ lock = "free" /\ attached = {}
          /\ \A r \in Requests : ~Alive(r)
          /\ \A p \in Signals : pins[p] # 0 => "fill" \in faults[pins[p]])
  \/ <>[]Hung

\* The abstract service: the lock's holder serves its connection, who has
\* uprobes attached drives the executable, and a monitor that misses a record
\* is stuck.
Promise == INSTANCE Service WITH
  Answers <- {"result", "ended", "dropped"},
  came <- 1 .. accepted,
  serving <- IF lock = "free" THEN {} ELSE {conn[lock]},
  answer <- reply,
  driving <- attached,
  stuck <- {r \in Requests : Stuck(r)}

\* The server implements the abstract service: requests are served one at a
\* time, each is answered once and, while no monitor is stuck, in the end, and
\* although simulations are cleaned up after their answer, none attaches
\* before the last has detached.
ImplementsService == Promise!Spec

\* server.go says of handleFalsification that it "sends the result back to
\* the client": a falsification that met no fault is answered with its result.
FaultFreeGetsResult ==
  \A r \in Requests :
    svc[r] = "falsification" /\ faults[r] = {} /\ crashes = 0 => reply[r] # "dropped"

\* simulator.go says of the end of a perturbed simulation "return the error
\* if occured": a monitor error is not reported as success.
MonitorErrorReported ==
  \A r \in Requests : r \in monErr => reply[r] # "ended"
============================================================================
