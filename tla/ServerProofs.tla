---------------------------- MODULE ServerProofs ----------------------------
(***************************************************************************)
(* Proofs about module Server, for any number of requests and signals and  *)
(* any faults and crashes.                                                 *)
(***************************************************************************)
EXTENDS Server, TLAPS

(***************************************************************************)
(* The handlers: requests are not shared, and only the handler that holds  *)
(* the lock is past lockServer, with a simulation that is at work only     *)
(* while the handler waits for it.                                         *)
(***************************************************************************)
Serving(s) == hpc[s] # "accept"

FreshRequests ==
  /\ \A r \in Requests : r > accepted => phase[r] = "none"
  /\ \A s \in Services : Serving(s) => conn[s] \in 1 .. accepted
  /\ \A s, t \in Services : Serving(s) /\ Serving(t) /\ s # t => conn[s] # conn[t]
  /\ \A s \in Services : hpc[s] \in {"lock", "read"} => phase[conn[s]] = "none"

LockHeld ==
  /\ \A s \in Services : hpc[s] \in {"read", "wait", "unlock"} => lock = s
  /\ \A r \in done : phase[r] \notin Working \cup {"none"}
  /\ ~Up => \A r \in Requests : ~Alive(r)
  /\ ~Up => \A s \in Services : ~Serving(s)

HandlerInv == FreshRequests /\ LockHeld /\ SimulationsSerialized

(***************************************************************************)
(* The pins: what a simulation has pinned is its own until it unpins it,   *)
(* and past "link" that is every signal.                                   *)
(***************************************************************************)
Pinned == {"link", "launch", "wait", "harvest", "pin_rb", "monitor", "finish"}

PinsOwned ==
  /\ \A r \in Requests : \A p \in 1 .. npins[r] : pins[p] = r
  /\ \A r \in Requests : phase[r] \in {"none", "load"} => npins[r] = 0
  /\ \A r \in Requests : phase[r] \in {"pin", "fill"} => npins[r] < NofSignals
  /\ \A r \in Requests : phase[r] = "fill" => pins[NextPin(r)] = r
  /\ \A r \in Requests : phase[r] \in Pinned => npins[r] = NofSignals
  /\ ~Up => attached = {} /\ \A r \in Requests : npins[r] = 0

AttachedPinned ==
  \A r \in attached : /\ npins[r] = NofSignals
                      /\ phase[r] \in Pinned \cup {"unpin_rb", "cancel", "detach"}

\* The outputs are read once, and only those there are.
Unread == {"none", "load", "pin", "fill", "link", "launch", "wait"}

HarvestInv ==
  \A r \in Requests : /\ phase[r] \in Unread => result[r] = <<>>
                      /\ phase[r] = "harvest" => NextHarvest(r) <= NofSignals

PinInv == PinsOwned /\ AttachedPinned /\ OneAttached /\ OwnTraces

Inv == TypeOK /\ HarvestInv /\ HandlerInv /\ PinInv
-----------------------------------------------------------------------------
LEMMA ConstFacts ==
  /\ MaxRequests \in Nat /\ MaxRequests > 0
  /\ NofSignals \in Nat /\ NofSignals > 0
  /\ NofInputs \in Nat /\ NofOutputs \in Nat /\ NofOutputs > 0 /\ NofSignals = NofInputs + NofOutputs
  /\ MaxCrashes \in Nat /\ MaxFaults \in Nat
  /\ Faults \subseteq FaultKinds
  /\ Services \subseteq AllServices /\ "free" \notin Services /\ "none" \notin Services
BY RequestsAssumption, SignalsAssumption, FaultsAssumption, ServicesAssumption
   DEF NofSignals, AllServices

LEMMA InitInv == Init => Inv
<1>1. Init => TypeOK
  BY ConstFacts DEF Init, TypeOK, TypeHandlers, TypeStart, TypeKernel, TypeHistory,
     Phases, Requests, Signals, Perturbations
<1>2. Init => HarvestInv /\ HandlerInv /\ PinInv
  BY ConstFacts DEF Init, HarvestInv, HandlerInv, FreshRequests, LockHeld, SimulationsSerialized,
     Unread, NextHarvest, PinInv, PinsOwned, AttachedPinned, OneAttached, OwnTraces, Serving, Working, Pinned,
     Alive, Requests, Signals, Up
<1> QED BY <1>1, <1>2 DEF Inv

(***************************************************************************)
(* Types.                                                                  *)
(***************************************************************************)
LEMMA TypeHandlersStep ==
  ASSUME TypeOK, HandlerInv, [Next]_vars
  PROVE  TypeHandlers'
<1> USE ConstFacts DEF TypeOK, TypeHandlers, Requests
<1>1. ASSUME NEW s \in Services, Accept(s) PROVE TypeHandlers'
  BY <1>1 DEF Accept
<1>2. ASSUME NEW s \in Services, HandlerStep(s) PROVE TypeHandlers'
  <2>1. CASE Lock(s)
    BY <2>1 DEF Lock
  <2>2. CASE ReadRequest(s)
    BY <2>2 DEF ReadRequest
  <2>3. CASE ReadFails(s)
    BY <2>3 DEF ReadFails
  <2>4. CASE Reply(s)
    BY <2>4 DEF Reply, Outcome
  <2>5. CASE Unlock(s)
    BY <2>5 DEF Unlock
  <2> QED BY <1>2, <2>1, <2>2, <2>3, <2>4, <2>5 DEF HandlerStep
<1>3. ASSUME UNCHANGED handlerVars PROVE TypeHandlers'
  BY <1>3 DEF handlerVars
<1>4. ASSUME NEW r \in Requests, StartStep(r) PROVE UNCHANGED handlerVars
  BY <1>4 DEF StartStep, Load, LoadFails, Pin, PinFails, Fill, FillFails, Link, LinkFails,
     Launch, LaunchFails, Wait, Harvest, HarvestFails, PinRb, PinRbFails, MonitorEnds,
     MonitorFails, Finish, UnpinRb, Cancel, Detach, Unpin
<1>5. ASSUME NEW r \in Requests, ProcEnds(r) \/ ProcQuits(r) \/ LoseRecord(r) PROVE UNCHANGED handlerVars
  BY <1>5 DEF ProcEnds, ProcQuits, LoseRecord, kernelVars
<1>6. CASE Crash
  BY <1>6 DEF Crash
<1>7. CASE Restart
  BY <1>7, <1>3 DEF Restart
<1>8. CASE UNCHANGED vars
  BY <1>8, <1>3 DEF vars
<1> QED BY <1>1, <1>2, <1>3, <1>4, <1>5, <1>6, <1>7, <1>8 DEF Next

LEMMA TypeStartStep ==
  ASSUME TypeOK, HarvestInv, HandlerInv, PinsOwned, [Next]_vars
  PROVE  TypeStart'
<1> USE ConstFacts DEF TypeOK, TypeStart, Requests, Phases, Working, Cleaning
<1>1. ASSUME UNCHANGED startVars PROVE TypeStart'
  BY <1>1 DEF startVars
<1>2. ASSUME NEW r \in Requests, StartStep(r) PROVE TypeStart'
  <2> USE DEF Goto, Done, Fail, FirstCleanup
  <2>1. CASE Load(r)
    BY <2>1 DEF Load
  <2>2. CASE LoadFails(r)
    BY <2>2 DEF LoadFails
  <2>3. CASE Pin(r)
    BY <2>3 DEF Pin
  <2>4. CASE PinFails(r)
    BY <2>4 DEF PinFails
  <2>5. CASE Fill(r)
    BY <2>5, SMTT(30) DEF Fill, At, NextPin, PinsOwned
  <2>6. CASE FillFails(r)
    BY <2>6 DEF FillFails
  <2>7. CASE Link(r)
    BY <2>7 DEF Link
  <2>8. CASE LinkFails(r)
    BY <2>8 DEF LinkFails
  <2>9. CASE Launch(r)
    BY <2>9 DEF Launch, AfterLaunch
  <2>10. CASE LaunchFails(r)
    BY <2>10 DEF LaunchFails
  <2>11. CASE Wait(r)
    BY <2>11 DEF Wait
  <2>12. CASE Harvest(r)
    <3>1. NextHarvest(r) \in Signals /\ NextHarvest(r) <= NofSignals
      BY <2>12 DEF Harvest, At, HarvestInv, NextHarvest, Signals
    <3>2. pins[NextHarvest(r)] \in Requests
      BY <2>12, <3>1 DEF Harvest, TypeKernel
    <3>3. Len(Append(result[r], pins[NextHarvest(r)])) <= NofOutputs
      BY <3>1, <3>2 DEF NextHarvest
    <3>4. result' = [result EXCEPT ![r] = Append(result[r], pins[NextHarvest(r)])]
      BY <2>12 DEF Harvest
    <3>5. result' \in [Requests -> Seq(Requests)]
      BY <3>2, <3>4
    <3>6. \A q \in Requests : Len(result'[q]) <= NofOutputs
      BY <3>3, <3>4
    <3> QED BY <2>12, <3>5, <3>6 DEF Harvest
  <2>13. CASE HarvestFails(r)
    BY <2>13 DEF HarvestFails
  <2>14. CASE PinRb(r)
    BY <2>14 DEF PinRb
  <2>15. CASE PinRbFails(r)
    BY <2>15 DEF PinRbFails
  <2>16. CASE MonitorEnds(r)
    BY <2>16 DEF MonitorEnds
  <2>17. CASE MonitorFails(r)
    BY <2>17 DEF MonitorFails
  <2>18. CASE Finish(r)
    BY <2>18 DEF Finish
  <2>19. CASE UnpinRb(r)
    BY <2>19 DEF UnpinRb
  <2>20. CASE Cancel(r)
    BY <2>20 DEF Cancel
  <2>21. CASE Detach(r)
    BY <2>21 DEF Detach
  <2>22. CASE Unpin(r)
    <3>1. CASE npins[r] > 0
      <4>1. npins[r] - 1 \in 0 .. NofSignals
        BY <3>1
      <4>2. npins' \in [Requests -> 0 .. NofSignals]
        BY <2>22, <3>1, <4>1 DEF Unpin
      <4> QED BY <2>22, <3>1, <4>2 DEF Unpin
    <3>2. CASE ~(npins[r] > 0)
      BY <2>22, <3>2 DEF Unpin
    <3> QED BY <3>1, <3>2
  <2> QED BY <1>2, <2>1, <2>2, <2>3, <2>4, <2>5, <2>6, <2>7, <2>8, <2>9, <2>10, <2>11, <2>12, <2>13, <2>14, <2>15, <2>16, <2>17, <2>18, <2>19, <2>20, <2>21, <2>22 DEF StartStep
<1>3. ASSUME NEW s \in Services, Accept(s) \/ HandlerStep(s) PROVE TypeStart'
  <2>1. CASE ReadRequest(s)
    BY <2>1 DEF ReadRequest, TypeHandlers
  <2>2. CASE ~ReadRequest(s)
    BY <1>1, <1>3, <2>2 DEF Accept, HandlerStep, Lock, ReadFails, Reply, Unlock
  <2> QED BY <2>1, <2>2
<1>4. ASSUME NEW r \in Requests, ProcEnds(r) \/ ProcQuits(r) \/ LoseRecord(r) PROVE TypeStart'
  BY <1>1, <1>4 DEF ProcEnds, ProcQuits, LoseRecord, kernelVars
<1>5. CASE Crash
  BY <1>5 DEF Crash
<1>6. CASE Restart
  BY <1>1, <1>6 DEF Restart
<1>7. CASE UNCHANGED vars
  BY <1>1, <1>7 DEF vars
<1> QED BY <1>2, <1>3, <1>4, <1>5, <1>6, <1>7 DEF Next

LEMMA TypeKernelStep ==
  ASSUME TypeOK, [Next]_vars
  PROVE  TypeKernel'
<1> USE ConstFacts DEF TypeOK, TypeKernel, Requests
<1>1. ASSUME UNCHANGED kernelVars PROVE TypeKernel'
  BY <1>1 DEF kernelVars
<1>2. ASSUME NEW r \in Requests, StartStep(r) PROVE TypeKernel'
  <2>0. r \in 0 .. MaxRequests
    OBVIOUS
  <2>1. CASE Pin(r)
    BY <2>0, <2>1 DEF Pin
  <2>2. CASE Link(r)
    BY <2>2 DEF Link
  <2>3. CASE LinkFails(r)
    BY <2>3 DEF LinkFails
  <2>4. CASE Launch(r)
    BY <2>4 DEF Launch
  <2>5. CASE PinRb(r)
    BY <2>0, <2>5 DEF PinRb
  <2>6. CASE UnpinRb(r)
    BY <2>6 DEF UnpinRb
  <2>7. CASE Cancel(r)
    BY <2>7 DEF Cancel
  <2>8. CASE Detach(r)
    BY <2>8 DEF Detach
  <2>9. CASE Unpin(r)
    BY <2>9 DEF Unpin
  <2>10. CASE UNCHANGED kernelVars
    BY <1>1, <2>10
  <2> QED BY <1>2, <2>1, <2>2, <2>3, <2>4, <2>5, <2>6, <2>7, <2>8, <2>9, <2>10 DEF StartStep, Load, LoadFails, PinFails, Fill, FillFails, LaunchFails, Wait, Harvest, HarvestFails, PinRbFails, MonitorEnds, MonitorFails, Finish
<1>3. ASSUME NEW s \in Services, Accept(s) \/ HandlerStep(s) PROVE TypeKernel'
  BY <1>1, <1>3 DEF Accept, HandlerStep, Lock, ReadRequest, ReadFails, Reply, Unlock
<1>4. ASSUME NEW r \in Requests, ProcEnds(r) \/ ProcQuits(r) \/ LoseRecord(r) PROVE TypeKernel'
  BY <1>4 DEF ProcEnds, ProcQuits, LoseRecord, kernelVars
<1>5. CASE Crash
  BY <1>5 DEF Crash
<1>6. CASE Restart
  BY <1>6 DEF Restart
<1>7. CASE UNCHANGED vars
  BY <1>1, <1>7 DEF vars
<1> QED BY <1>2, <1>3, <1>4, <1>5, <1>6, <1>7 DEF Next

LEMMA TypeHistoryStep ==
  ASSUME TypeOK, [Next]_vars
  PROVE  TypeHistory'
<1> USE ConstFacts DEF TypeOK, TypeHistory
<1>1. CASE UNCHANGED faults /\ UNCHANGED crashes
  BY <1>1
<1>2. ASSUME NEW r \in Requests, NEW f \in FaultKinds, FaultHits(r, f), UNCHANGED crashes
      PROVE  TypeHistory'
  BY <1>2 DEF FaultHits
<1>3. CASE Crash
  BY <1>3 DEF Crash, Up
<1>4. CASE Restart
  BY <1>4 DEF Restart, Up
<1>5. ASSUME NEW s \in Services, Accept(s) \/ HandlerStep(s) PROVE TypeHistory'
  <2>1. CASE ReadFails(s)
    BY <1>2, <2>1 DEF ReadFails, FaultKinds, FaultHits
  <2> QED BY <1>1, <1>5, <2>1 DEF Accept, HandlerStep, Lock, ReadRequest, Reply, Unlock
<1>6. ASSUME NEW r \in Requests, StartStep(r) PROVE TypeHistory'
  <2>1. \/ UNCHANGED faults
        \/ \E f \in FaultKinds : FaultHits(r, f)
    BY <1>6 DEF StartStep, FaultKinds, Load, LoadFails, Pin, PinFails, Fill, FillFails, Link,
       LinkFails, Launch, LaunchFails, Wait, Harvest, HarvestFails, PinRb, PinRbFails,
       MonitorEnds, MonitorFails, Finish, UnpinRb, Cancel, Detach, Unpin
  <2>2. UNCHANGED crashes
    BY <1>6 DEF StartStep, Load, LoadFails, Pin, PinFails, Fill, FillFails, Link, LinkFails,
       Launch, LaunchFails, Wait, Harvest, HarvestFails, PinRb, PinRbFails, MonitorEnds,
       MonitorFails, Finish, UnpinRb, Cancel, Detach, Unpin
  <2> QED BY <1>1, <1>2, <2>1, <2>2
<1>7. ASSUME NEW r \in Requests, ProcEnds(r) \/ ProcQuits(r) \/ LoseRecord(r) PROVE TypeHistory'
  BY <1>1, <1>2, <1>7 DEF ProcEnds, ProcQuits, LoseRecord, FaultKinds
<1>8. CASE UNCHANGED vars
  BY <1>1, <1>8 DEF vars
<1> QED BY <1>3, <1>4, <1>5, <1>6, <1>7, <1>8 DEF Next

(***************************************************************************)
(* The handlers.                                                           *)
(***************************************************************************)
\* What the handlers see of a step of Start: it works on, or it is done.
StartMoves(r, p) ==
  /\ phase' = [phase EXCEPT ![r] = p]
  /\ done' \in {done, done \cup {r}}
  /\ p \in Working => phase[r] \in Working /\ done' = done

LEMMA StartShape ==
  ASSUME TypeOK, NEW r \in Requests, StartStep(r)
  PROVE  /\ UNCHANGED handlerVars /\ UNCHANGED crashes /\ Up /\ Alive(r)
         /\ \E p \in Working \cup Cleaning \cup {"gone"} : StartMoves(r, p)
<1> DEFINE Goal == /\ UNCHANGED handlerVars /\ UNCHANGED crashes /\ Up /\ Alive(r)
                   /\ \E p \in Working \cup Cleaning \cup {"gone"} : StartMoves(r, p)
<1> USE DEF StartMoves, Goto, Done, Fail, FirstCleanup, At, Alive, Working, Cleaning
<1>1. CASE Load(r)
  BY <1>1 DEF Load
<1>2. CASE LoadFails(r)
  BY <1>2 DEF LoadFails
<1>3. CASE Pin(r)
  BY <1>3 DEF Pin
<1>4. CASE PinFails(r)
  BY <1>4 DEF PinFails
<1>5. CASE Fill(r)
  BY <1>5 DEF Fill
<1>6. CASE FillFails(r)
  BY <1>6 DEF FillFails
<1>7. CASE Link(r)
  BY <1>7 DEF Link
<1>8. CASE LinkFails(r)
  BY <1>8 DEF LinkFails
<1>9. CASE Launch(r)
  BY <1>9 DEF Launch, AfterLaunch
<1>10. CASE LaunchFails(r)
  BY <1>10 DEF LaunchFails
<1>11. CASE Wait(r)
  BY <1>11 DEF Wait
<1>12. CASE Harvest(r)
  BY <1>12 DEF Harvest
<1>13. CASE HarvestFails(r)
  BY <1>13 DEF HarvestFails
<1>14. CASE PinRb(r)
  BY <1>14 DEF PinRb
<1>15. CASE PinRbFails(r)
  BY <1>15 DEF PinRbFails
<1>16. CASE MonitorEnds(r)
  BY <1>16 DEF MonitorEnds
<1>17. CASE MonitorFails(r)
  BY <1>17 DEF MonitorFails
<1>18. CASE Finish(r)
  BY <1>18 DEF Finish
<1>19. CASE UnpinRb(r)
  BY <1>19 DEF UnpinRb
<1>20. CASE Cancel(r)
  BY <1>20 DEF Cancel
<1>21. CASE Detach(r)
  BY <1>21 DEF Detach
<1>22. CASE Unpin(r)
  BY <1>22 DEF Unpin, TypeOK, TypeStart
<1> QED BY <1>1, <1>2, <1>3, <1>4, <1>5, <1>6, <1>7, <1>8, <1>9, <1>10, <1>11, <1>12, <1>13, <1>14, <1>15, <1>16, <1>17, <1>18, <1>19, <1>20, <1>21, <1>22 DEF StartStep

LEMMA StartKeepsHandlerInv ==
  ASSUME TypeOK, HandlerInv, NEW r \in Requests, StartStep(r)
  PROVE  HandlerInv'
<1>1. /\ UNCHANGED handlerVars /\ UNCHANGED crashes /\ Up /\ Alive(r)
      /\ \E p \in Working \cup Cleaning \cup {"gone"} : StartMoves(r, p)
  BY StartShape
<1>2. PICK p \in Working \cup Cleaning \cup {"gone"} : StartMoves(r, p)
  BY <1>1
<1>3. Up' /\ \A q \in Requests : phase'[q] = IF q = r THEN p ELSE phase[q]
  BY <1>1, <1>2 DEF Up, StartMoves, TypeOK, TypeStart
<1>4. FreshRequests'
  BY <1>1, <1>2, <1>3, SMTT(30) DEF HandlerInv, FreshRequests, handlerVars, Serving, Alive,
     TypeOK, TypeHandlers, Requests
<1>5. LockHeld'
  BY <1>1, <1>2, <1>3 DEF HandlerInv, LockHeld, handlerVars, StartMoves, Working, Cleaning,
     TypeOK, TypeStart
<1>6. SimulationsSerialized'
  BY <1>1, <1>2, <1>3 DEF HandlerInv, SimulationsSerialized, handlerVars, StartMoves
<1> QED BY <1>4, <1>5, <1>6 DEF HandlerInv

\* A handler changes its own program counter only, and starts a simulation only
\* for a request that has none yet.
LEMMA HandlerKeepsHandlerInv ==
  ASSUME TypeOK, HandlerInv, NEW s \in Services, Accept(s) \/ HandlerStep(s)
  PROVE  HandlerInv'
<1> USE DEF HandlerInv, FreshRequests, LockHeld, SimulationsSerialized, Serving, Up
<1>t. /\ hpc \in [Services -> {"accept", "lock", "read", "wait", "unlock"}]
      /\ DOMAIN conn = Services /\ DOMAIN phase = Requests
      /\ lock \in Services \cup {"free"} /\ "free" \notin Services
      /\ accepted \in Nat /\ MaxRequests \in Nat /\ done \subseteq Requests
      /\ \A t \in Services : conn[t] \in Nat
  BY ConstFacts DEF TypeOK, TypeHandlers, TypeStart
<1>r. Requests = {r \in Nat : 1 <= r /\ r <= MaxRequests}
  BY <1>t DEF Requests
<1>1. CASE Accept(s)
  <2>1. /\ accepted + 1 \in Requests /\ accepted' = accepted + 1
        /\ UNCHANGED <<lock, phase, done, crashes>>
    BY <1>1, <1>t, <1>r DEF Accept, startVars
  <2>2. /\ \A t \in Services : hpc'[t] = IF t = s THEN "lock" ELSE hpc[t]
        /\ \A t \in Services : conn'[t] = IF t = s THEN accepted + 1 ELSE conn[t]
        /\ hpc[s] = "accept" /\ Up
    BY <1>1, <1>t DEF Accept
  <2>3. FreshRequests'
    <3>1. \A q \in Requests : q > accepted' => phase'[q] = "none"
      BY <1>t, <1>r, <2>1
    <3>2. \A t \in Services : Serving(t)' => conn'[t] \in 1 .. accepted'
      BY <1>t, <2>1, <2>2
    <3>3. \A t, u \in Services : Serving(t)' /\ Serving(u)' /\ t # u => conn'[t] # conn'[u]
      BY <1>t, <2>1, <2>2
    <3>4. \A t \in Services : hpc'[t] \in {"lock", "read"} => phase'[conn'[t]] = "none"
      BY <1>t, <1>r, <2>1, <2>2
    <3> QED BY <3>1, <3>2, <3>3, <3>4
  <2>4. LockHeld'
    BY <1>t, <2>1, <2>2 DEF Alive
  <2>5. SimulationsSerialized'
    BY <1>t, <2>1, <2>2
  <2> QED BY <2>3, <2>4, <2>5
<1>2. CASE Lock(s)
  BY <1>2, <1>t DEF Lock, startVars
<1>3. CASE ReadRequest(s)
  <2>1. conn[s] \in Requests /\ conn[s] \in 1 .. accepted /\ phase[conn[s]] = "none" /\ lock = s
    BY <1>3, <1>t, <1>r, ConstFacts DEF ReadRequest, TypeOK, TypeHandlers
  <2>2. \A q \in Requests : phase'[q] = IF q = conn[s] THEN "load" ELSE phase[q]
    BY <1>3, <1>t, <2>1 DEF ReadRequest
  <2>3. \A t \in Services : hpc'[t] = IF t = s THEN "wait" ELSE hpc[t]
    BY <1>3, <1>t DEF ReadRequest
  <2>4. /\ UNCHANGED <<conn, lock, accepted, done, crashes>>
        /\ hpc[s] = "read" /\ Up /\ conn[s] \notin done
    BY <1>3, <2>1 DEF ReadRequest
  <2>5. FreshRequests'
    <3>1. \A q \in Requests : q > accepted' => phase'[q] = "none"
      BY <1>t, <2>1, <2>2, <2>4
    <3>2. \A t \in Services : Serving(t)' => conn'[t] \in 1 .. accepted'
      BY <1>t, <2>1, <2>3, <2>4
    <3>3. \A t, u \in Services : Serving(t)' /\ Serving(u)' /\ t # u => conn'[t] # conn'[u]
      BY <1>t, <2>3, <2>4
    <3>4. \A t \in Services : hpc'[t] \in {"lock", "read"} => phase'[conn'[t]] = "none"
      <4> TAKE t \in Services
      <4> HAVE hpc'[t] \in {"lock", "read"}
      <4>1. t # s /\ hpc[t] \in {"lock", "read"} /\ conn[t] # conn[s]
        BY <2>3, <2>4
      <4>2. conn[t] \in Requests
        BY <4>1, <1>t, <1>r, ConstFacts DEF TypeOK, TypeHandlers
      <4> QED BY <2>2, <2>4, <4>1, <4>2
    <3> QED BY <3>1, <3>2, <3>3, <3>4
  <2>6. LockHeld'
    <3>1. \A q \in done : phase'[q] = phase[q]
      BY <1>t, <2>2, <2>4
    <3> QED BY <1>t, <2>1, <2>3, <2>4, <3>1
  <2>7. SimulationsSerialized'
    BY <1>t, <2>1, <2>2, <2>3, <2>4
  <2> QED BY <2>5, <2>6, <2>7
<1>4. CASE ReadFails(s)
  BY <1>4, <1>t DEF ReadFails, startVars
<1>5. CASE Reply(s)
  <2>1. FreshRequests' /\ LockHeld'
    BY <1>5, <1>t DEF Reply, startVars, Alive
  <2>2. conn[s] \in done /\ phase[conn[s]] \notin Working
    BY <1>5 DEF Reply
  <2>3. SimulationsSerialized'
    BY <1>5, <1>t, <2>2 DEF Reply, startVars
  <2> QED BY <2>1, <2>3
<1>6. CASE Unlock(s)
  BY <1>6, <1>t DEF Unlock, startVars
<1> QED BY <1>1, <1>2, <1>3, <1>4, <1>5, <1>6 DEF HandlerStep

LEMMA HandlerInvStep ==
  ASSUME TypeOK, HandlerInv, [Next]_vars
  PROVE  HandlerInv'
<1> USE DEF HandlerInv, FreshRequests, LockHeld, SimulationsSerialized, Serving, Alive, Up
<1>1. ASSUME UNCHANGED <<handlerVars, phase, done, crashes>> PROVE HandlerInv'
  BY <1>1 DEF handlerVars
<1>2. ASSUME NEW r \in Requests, ProcEnds(r) \/ ProcQuits(r) \/ LoseRecord(r) PROVE HandlerInv'
  BY <1>1, <1>2 DEF ProcEnds, ProcQuits, LoseRecord, kernelVars, startVars
<1>3. CASE Crash
  BY <1>3, ConstFacts DEF Crash, TypeOK, TypeHandlers, TypeStart, TypeHistory, Working, Requests
<1>4. CASE Restart
  BY <1>4 DEF Restart, TypeOK, TypeHistory, startVars, handlerVars
<1>5. CASE UNCHANGED vars
  BY <1>1, <1>5 DEF vars, startVars
<1> QED BY <1>2, <1>3, <1>4, <1>5, StartKeepsHandlerInv, HandlerKeepsHandlerInv DEF Next

(***************************************************************************)
(* The pins.                                                               *)
(***************************************************************************)
LEMMA PinTypes ==
  ASSUME TypeOK
  PROVE  /\ DOMAIN phase = Requests /\ DOMAIN npins = Requests /\ DOMAIN pins = Signals
         /\ \A r \in Requests : npins[r] \in Nat /\ npins[r] <= NofSignals /\ r \in Nat /\ r # 0
         /\ NofSignals \in Nat /\ NofSignals > 0
         /\ \A n \in Nat : n > 0 /\ n <= NofSignals => n \in Signals
BY ConstFacts DEF TypeOK, TypeStart, TypeKernel, Requests, Signals

\* A step that leaves the pins alone keeps them owned if no simulation comes
\* to a phase that asks for more.
LEMMA QuietKeepsPins ==
  ASSUME TypeOK, PinsOwned, NEW r \in Requests, NEW p,
         UNCHANGED <<pins, npins>>, Up, Up', phase' = [phase EXCEPT ![r] = p],
         p \in {"load", "fill"} => phase[r] = p,
         p = "none" => phase[r] = p,
         p = "pin" => phase[r] \in {"load", "pin"},
         p \in Pinned => phase[r] \in Pinned
  PROVE  PinsOwned'
<1>1. \A q \in Requests : phase'[q] = IF q = r THEN p ELSE phase[q]
  BY PinTypes
<1>2. (\A q \in Requests : \A n \in 1 .. npins[q] : pins[n] = q)'
  BY DEF PinsOwned
<1>3. (\A q \in Requests : phase[q] \in {"none", "load"} => npins[q] = 0)'
  BY <1>1 DEF PinsOwned
<1>4. (\A q \in Requests : phase[q] \in {"pin", "fill"} => npins[q] < NofSignals)'
  BY <1>1, PinTypes DEF PinsOwned
<1>5. (\A q \in Requests : phase[q] = "fill" => pins[NextPin(q)] = q)'
  BY <1>1 DEF PinsOwned, NextPin
<1>6. (\A q \in Requests : phase[q] \in Pinned => npins[q] = NofSignals)'
  BY <1>1 DEF PinsOwned
<1> QED BY <1>2, <1>3, <1>4, <1>5, <1>6 DEF PinsOwned

LEMMA PinKeepsPins ==
  ASSUME TypeOK, PinsOwned, NEW r \in Requests, Pin(r)
  PROVE  PinsOwned'
<1>1. /\ UNCHANGED npins /\ Up' /\ pins[NextPin(r)] = 0 /\ phase[r] = "pin"
      /\ \A q \in Requests : phase'[q] = IF q = r THEN "fill" ELSE phase[q]
  BY PinTypes DEF Pin, At, PathFree, Goto, Up
<1>2. NextPin(r) \in Signals /\ NextPin(r) = npins[r] + 1
  BY <1>1, PinTypes DEF PinsOwned, NextPin
<1>3. \A n \in Signals : pins'[n] = IF n = NextPin(r) THEN r ELSE pins[n]
  BY <1>2, PinTypes DEF Pin
<1>4. (\A q \in Requests : \A n \in 1 .. npins[q] : pins[n] = q)'
  <2> TAKE q \in Requests
  <2> TAKE n \in 1 .. npins'[q]
  <2>1. n \in 1 .. npins[q] /\ n \in Signals
    BY <1>1, PinTypes
  <2>2. pins[n] = q /\ pins[n] # 0
    BY <2>1, PinTypes DEF PinsOwned
  <2> QED BY <1>1, <1>3, <2>1, <2>2
<1>5. (\A q \in Requests : phase[q] = "fill" => pins[NextPin(q)] = q)'
  <2> TAKE q \in Requests
  <2>1. NextPin(q)' = NextPin(q)
    BY <1>1 DEF NextPin
  <2>2. CASE q = r
    BY <1>2, <1>3, <2>1, <2>2
  <2>3. CASE q # r /\ phase[q] = "fill"
    <3>1. NextPin(q) \in Signals /\ pins[NextPin(q)] = q /\ q # 0
      BY <2>3, PinTypes DEF PinsOwned, NextPin
    <3> QED BY <1>1, <1>3, <2>1, <3>1
  <2> QED BY <1>1, <2>2, <2>3
<1> QED BY <1>1, <1>4, <1>5 DEF PinsOwned, Pinned

LEMMA FillKeepsPins ==
  ASSUME TypeOK, PinsOwned, NEW r \in Requests, Fill(r)
  PROVE  PinsOwned'
<1>1. /\ UNCHANGED pins /\ Up' /\ phase[r] = "fill" /\ npins[r] < NofSignals
      /\ pins[npins[r] + 1] = r
      /\ \A q \in Requests : npins'[q] = IF q = r THEN npins[r] + 1 ELSE npins[q]
      /\ \A q \in Requests :
           phase'[q] = IF q = r THEN IF npins[r] + 1 < NofSignals THEN "pin" ELSE "link"
                                ELSE phase[q]
  BY PinTypes DEF Fill, At, Goto, Up, kernelVars, NextPin, PinsOwned
<1>2. (\A q \in Requests : \A n \in 1 .. npins[q] : pins[n] = q)'
  <2> TAKE q \in Requests
  <2> TAKE n \in 1 .. npins'[q]
  <2>1. CASE q = r /\ n = npins[r] + 1
    BY <1>1, <2>1
  <2>2. CASE ~(q = r /\ n = npins[r] + 1)
    <3>1. n \in 1 .. npins[q]
      BY <1>1, <2>2, PinTypes
    <3> QED BY <1>1, <3>1 DEF PinsOwned
  <2> QED BY <2>1, <2>2
<1>3. (\A q \in Requests : phase[q] \in {"pin", "fill"} => npins[q] < NofSignals)'
  BY <1>1, PinTypes DEF PinsOwned
<1>4. (\A q \in Requests : phase[q] = "fill" => pins[NextPin(q)] = q)'
  BY <1>1, PinTypes DEF PinsOwned, NextPin
<1>5. (\A q \in Requests : phase[q] \in Pinned => npins[q] = NofSignals)'
  BY <1>1, PinTypes DEF PinsOwned, Pinned
<1>6. (\A q \in Requests : phase[q] \in {"none", "load"} => npins[q] = 0)'
  BY <1>1 DEF PinsOwned
<1> QED BY <1>1, <1>2, <1>3, <1>4, <1>5, <1>6 DEF PinsOwned

LEMMA UnpinKeepsPins ==
  ASSUME TypeOK, PinsOwned, NEW r \in Requests, Unpin(r), npins[r] > 0
  PROVE  PinsOwned'
<1>1. /\ Up' /\ phase[r] = "unpin" /\ UNCHANGED phase
      /\ npins[r] \in Signals /\ pins[npins[r]] = r
      /\ \A q \in Requests : npins'[q] = IF q = r THEN npins[r] - 1 ELSE npins[q]
      /\ \A n \in Signals : pins'[n] = IF n = npins[r] THEN 0 ELSE pins[n]
  BY PinTypes DEF Unpin, At, Up, PinsOwned
<1>2. (\A q \in Requests : \A n \in 1 .. npins[q] : pins[n] = q)'
  <2> TAKE q \in Requests
  <2> TAKE n \in 1 .. npins'[q]
  <2>1. n # npins[r] \/ q # r
    BY <1>1, PinTypes
  <2>2. n \in 1 .. npins[q] /\ n \in Signals
    BY <1>1, PinTypes
  <2>3. pins[n] = q
    BY <2>2 DEF PinsOwned
  <2> QED BY <1>1, <2>1, <2>2, <2>3
<1>3. (\A q \in Requests : phase[q] = "fill" => pins[NextPin(q)] = q)'
  <2> TAKE q \in Requests
  <2> HAVE phase'[q] = "fill"
  <2>1. q # r /\ phase[q] = "fill" /\ NextPin(q)' = NextPin(q)
    BY <1>1 DEF NextPin
  <2>2. NextPin(q) \in Signals /\ pins[NextPin(q)] = q
    BY <2>1, PinTypes DEF PinsOwned, NextPin
  <2> QED BY <1>1, <2>1, <2>2
<1> QED BY <1>1, <1>2, <1>3 DEF PinsOwned, Pinned

\* The steps of Start that leave the pins alone.
Quiet(r) ==
  \/ Load(r) \/ LoadFails(r) \/ PinFails(r) \/ FillFails(r)
  \/ Link(r) \/ LinkFails(r) \/ Launch(r) \/ LaunchFails(r)
  \/ Wait(r) \/ Harvest(r) \/ HarvestFails(r)
  \/ PinRb(r) \/ PinRbFails(r) \/ MonitorEnds(r) \/ MonitorFails(r) \/ Finish(r)
  \/ UnpinRb(r) \/ Cancel(r) \/ Detach(r)

LEMMA StartKeepsPins ==
  ASSUME TypeOK, PinsOwned, NEW r \in Requests, StartStep(r)
  PROVE  PinsOwned'
<1>1. CASE Quiet(r)
  <2>1. \E p \in Phases : /\ phase' = [phase EXCEPT ![r] = p]
                          /\ p = "pin" => phase[r] = "load"
                          /\ p \notin {"none", "load", "fill"}
                          /\ p \in Pinned => phase[r] \in Pinned
    BY <1>1 DEF Quiet, Phases, Working, Cleaning, Pinned, At, Goto, Done, Fail, FirstCleanup,
       AfterLaunch, Load, LoadFails, PinFails, FillFails, Link, LinkFails, Launch, LaunchFails,
       Wait, Harvest, HarvestFails, PinRb, PinRbFails,
       MonitorEnds, MonitorFails, Finish, UnpinRb, Cancel, Detach
  <2>2. UNCHANGED <<pins, npins, crashes>> /\ Up
    BY <1>1 DEF Quiet, kernelVars, At, Fail, Done,
       Load, LoadFails, PinFails, FillFails, Link, LinkFails, Launch, LaunchFails,
       Wait, Harvest, HarvestFails, PinRb, PinRbFails,
       MonitorEnds, MonitorFails, Finish, UnpinRb, Cancel, Detach
  <2> QED BY <2>1, <2>2, QuietKeepsPins DEF Up
<1>2. CASE Unpin(r) /\ ~(npins[r] > 0)
  BY <1>2, QuietKeepsPins DEF Unpin, At, Up, Goto, Pinned
<1> QED BY <1>1, <1>2, PinKeepsPins, FillKeepsPins, UnpinKeepsPins DEF StartStep, Quiet

LEMMA PinsOwnedStep ==
  ASSUME TypeOK, HandlerInv, PinsOwned, [Next]_vars
  PROVE  PinsOwned'
<1>1. ASSUME UNCHANGED <<phase, npins, pins, attached, crashes>> PROVE PinsOwned'
  BY <1>1 DEF PinsOwned, NextPin, Up
<1>2. ASSUME NEW s \in Services, Accept(s) \/ HandlerStep(s) PROVE PinsOwned'
  <2>1. CASE ReadRequest(s)
    <3>1. /\ conn[s] \in Requests /\ npins[conn[s]] = 0
          /\ UNCHANGED <<npins, pins, attached, crashes>> /\ Up
      BY <2>1, ConstFacts DEF ReadRequest, kernelVars, HandlerInv, FreshRequests, PinsOwned,
         Serving, TypeOK, TypeHandlers, Requests
    <3>2. \A q \in Requests : phase'[q] = IF q = conn[s] THEN "load" ELSE phase[q]
      BY <2>1, <3>1, PinTypes DEF ReadRequest
    <3>3. Up'
      BY <3>1 DEF Up
    <3> QED BY <3>1, <3>2, <3>3 DEF PinsOwned, NextPin, Pinned
  <2> QED BY <1>1, <1>2, <2>1 DEF Accept, HandlerStep, Lock, ReadFails, Reply, Unlock,
             startVars, kernelVars
<1>3. ASSUME NEW r \in Requests, ProcEnds(r) \/ ProcQuits(r) \/ LoseRecord(r) PROVE PinsOwned'
  BY <1>1, <1>3 DEF ProcEnds, ProcQuits, LoseRecord, kernelVars, startVars
<1>4. CASE Crash
  <2>1. \A q \in Requests : npins'[q] = 0 /\ phase'[q] \in {"none", "gone"}
    BY <1>4, PinTypes DEF Crash, Alive
  <2> QED BY <1>4, <2>1, PinTypes DEF Crash, PinsOwned, Pinned
<1>5. CASE Restart
  <2>1. UNCHANGED <<npins, phase, attached>> /\ ~Up
    BY <1>5 DEF Restart, startVars
  <2>2. \A q \in Requests : npins[q] = 0 /\ phase[q] \in {"none", "gone"}
    BY <2>1 DEF PinsOwned, HandlerInv, LockHeld, Alive
  <2> QED BY <2>1, <2>2, PinTypes DEF PinsOwned, Pinned
<1>6. CASE UNCHANGED vars
  BY <1>1, <1>6 DEF vars, startVars, kernelVars
<1> QED BY <1>2, <1>3, <1>4, <1>5, <1>6, StartKeepsPins DEF Next

(***************************************************************************)
(* The uprobes and the outputs.                                            *)
(***************************************************************************)
LEMMA AttachedPinnedStep ==
  ASSUME TypeOK, HandlerInv, PinsOwned, AttachedPinned, [Next]_vars
  PROVE  AttachedPinned'
<1>1. ASSUME UNCHANGED <<phase, npins, attached>> PROVE AttachedPinned'
  BY <1>1 DEF AttachedPinned
<1>2. ASSUME NEW s \in Services, Accept(s) \/ HandlerStep(s) PROVE AttachedPinned'
  <2>1. CASE ReadRequest(s)
    <3>1. phase[conn[s]] = "none" /\ UNCHANGED <<npins, attached>>
      BY <2>1 DEF ReadRequest, kernelVars, HandlerInv, FreshRequests, Serving
    <3>2. \A q \in Requests : q # conn[s] => phase'[q] = phase[q]
      BY <2>1, PinTypes DEF ReadRequest
    <3> QED BY <3>1, <3>2 DEF AttachedPinned, Pinned, TypeOK, TypeKernel
  <2> QED BY <1>1, <1>2, <2>1 DEF Accept, HandlerStep, Lock, ReadFails, Reply, Unlock,
             startVars, kernelVars
<1>3. ASSUME NEW r \in Requests, StartStep(r) PROVE AttachedPinned'
  <2>1. CASE r \notin attached /\ ~Link(r) /\ ~LinkFails(r)
    <3>1. \A q \in Requests : q # r => phase'[q] = phase[q] /\ npins'[q] = npins[q]
      BY <1>3, PinTypes DEF StartStep, Goto, Done, Fail, Load, LoadFails, Pin, PinFails, Fill,
         FillFails, Link, LinkFails, Launch, LaunchFails, Wait, Harvest, HarvestFails, PinRb,
         PinRbFails, MonitorEnds, MonitorFails, Finish, UnpinRb, Cancel, Detach, Unpin
    <3>2. attached' \subseteq attached
      BY <1>3, <2>1 DEF StartStep, kernelVars, Load, LoadFails, Pin, PinFails, Fill, FillFails,
         Launch, LaunchFails, Wait, Harvest, HarvestFails, PinRb, PinRbFails, MonitorEnds,
         MonitorFails, Finish, UnpinRb, Cancel, Detach, Unpin
    <3> QED BY <2>1, <3>1, <3>2 DEF AttachedPinned, TypeOK, TypeKernel
  <2>2. CASE Link(r) \/ LinkFails(r)
    <3>1. npins' = npins /\ npins[r] = NofSignals /\ attached' \subseteq attached \cup {r}
      BY <2>2 DEF Link, LinkFails, At, PinsOwned, Pinned
    <3>2. /\ phase'[r] \in {"launch", "unpin_rb"}
          /\ \A q \in Requests : q # r => phase'[q] = phase[q]
      BY <2>2, PinTypes DEF Link, LinkFails, Goto, Fail, Done, FirstCleanup
    <3> QED BY <3>1, <3>2 DEF AttachedPinned, Pinned, TypeOK, TypeKernel
  <2>3. CASE r \in attached /\ ~Link(r) /\ ~LinkFails(r)
    <3>1. npins[r] = NofSignals /\ phase[r] \in Pinned \cup {"unpin_rb", "cancel", "detach"}
      BY <2>3 DEF AttachedPinned
    <3>2. /\ \A q \in Requests : q # r => phase'[q] = phase[q]
          /\ UNCHANGED npins
          /\ attached' \in {attached, attached \ {r}}
          /\ r \in attached' => phase'[r] \in Pinned \cup {"unpin_rb", "cancel", "detach"}
      BY <1>3, <2>3, <3>1, PinTypes DEF StartStep, At, Goto, Done, Fail, FirstCleanup, Pinned,
         AfterLaunch, kernelVars, Load, LoadFails, Pin, PinFails, Fill, FillFails, Launch,
         LaunchFails, Wait, Harvest, HarvestFails, PinRb, PinRbFails, MonitorEnds,
         MonitorFails, Finish, UnpinRb, Cancel, Detach, Unpin
    <3> QED BY <3>1, <3>2 DEF AttachedPinned, TypeOK, TypeKernel
  <2> QED BY <2>1, <2>2, <2>3
<1>4. ASSUME NEW r \in Requests, ProcEnds(r) \/ ProcQuits(r) \/ LoseRecord(r) PROVE AttachedPinned'
  BY <1>1, <1>4 DEF ProcEnds, ProcQuits, LoseRecord, kernelVars, startVars
<1>5. CASE Crash
  BY <1>5 DEF Crash, AttachedPinned
<1>6. CASE Restart
  BY <1>1, <1>6 DEF Restart, startVars
<1>7. CASE UNCHANGED vars
  BY <1>1, <1>7 DEF vars, startVars, kernelVars
<1> QED BY <1>2, <1>3, <1>4, <1>5, <1>6, <1>7 DEF Next

\* Who is attached has pinned every signal, the first one among them.
LEMMA AttachedIsPinned ==
  ASSUME TypeOK, PinsOwned, AttachedPinned
  PROVE  OneAttached
<1>1. \A r \in attached : r \in Requests /\ 1 \in 1 .. npins[r]
  BY PinTypes DEF AttachedPinned, TypeOK, TypeKernel
<1>2. \A r \in attached : pins[1] = r
  BY <1>1 DEF PinsOwned
<1> QED BY <1>2 DEF OneAttached

LEMMA HarvestIsOwn ==
  ASSUME TypeOK, HarvestInv, PinsOwned, NEW r \in Requests, Harvest(r)
  PROVE  pins[NextHarvest(r)] = r
<1>1. npins[r] = NofSignals /\ NextHarvest(r) \in 1 .. npins[r]
  BY ConstFacts DEF Harvest, At, HarvestInv, PinsOwned, Pinned, NextHarvest, TypeOK, TypeStart
<1> QED BY <1>1 DEF PinsOwned

LEMMA OutputsStep ==
  ASSUME TypeOK, HandlerInv, HarvestInv, PinsOwned, OwnTraces, [Next]_vars
  PROVE  HarvestInv' /\ OwnTraces'
<1>t. DOMAIN phase = Requests /\ result \in [Requests -> Seq(Requests)]
  BY DEF TypeOK, TypeStart
<1>1. ASSUME UNCHANGED <<phase, result>> PROVE HarvestInv' /\ OwnTraces'
  BY <1>1 DEF HarvestInv, OwnTraces, NextHarvest
<1>2. ASSUME NEW r \in Requests, NEW p, phase' = [phase EXCEPT ![r] = p], UNCHANGED result,
             p \in Unread => phase[r] \in Unread, p = "harvest" => phase[r] = "wait"
      PROVE  HarvestInv' /\ OwnTraces'
  <2>1. \A q \in Requests : phase'[q] = IF q = r THEN p ELSE phase[q]
    BY <1>t, <1>2
  <2>2. p = "harvest" => NextHarvest(r) <= NofSignals
    BY <1>2, ConstFacts DEF HarvestInv, NextHarvest, Unread
  <2>3. \A q \in Requests : NextHarvest(q)' = NextHarvest(q)
    BY <1>2 DEF NextHarvest
  <2> QED BY <1>2, <2>1, <2>2, <2>3 DEF HarvestInv, OwnTraces, Unread
<1>3. ASSUME NEW r \in Requests, Harvest(r) PROVE HarvestInv' /\ OwnTraces'
  <2>1. /\ pins[NextHarvest(r)] = r /\ phase[r] = "harvest" /\ NextHarvest(r) <= NofSignals
        /\ \A q \in Requests :
             result'[q] = IF q = r THEN Append(result[r], r) ELSE result[q]
        /\ phase'[r] \in {"finish", "harvest"}
        /\ phase'[r] = "harvest" => NextHarvest(r) # NofSignals
        /\ \A q \in Requests : q # r => phase'[q] = phase[q]
    BY <1>t, <1>3, HarvestIsOwn DEF Harvest, At, HarvestInv, Goto
  <2>2. OwnTraces'
    <3>1. \A i \in DOMAIN Append(result[r], r) : Append(result[r], r)[i] = r
      BY <1>t DEF OwnTraces
    <3> QED BY <2>1, <3>1 DEF OwnTraces
  <2>3. NextHarvest(r)' = NextHarvest(r) + 1 /\ NextHarvest(r) \in Nat
    <3>1. result[r] \in Seq(Requests) /\ result'[r] = Append(result[r], r)
      BY <1>t, <2>1
    <3>2. Len(result'[r]) = Len(result[r]) + 1 /\ Len(result[r]) \in Nat
      BY <3>1
    <3> QED BY <3>2, ConstFacts DEF NextHarvest
  <2>4. \A q \in Requests : q # r => NextHarvest(q)' = NextHarvest(q)
    BY <2>1 DEF NextHarvest
  <2>5. HarvestInv'
    BY <2>1, <2>3, <2>4, ConstFacts DEF HarvestInv, Unread
  <2> QED BY <2>2, <2>5
<1>4. ASSUME NEW r \in Requests, StartStep(r), ~Harvest(r) PROVE HarvestInv' /\ OwnTraces'
  <2>1. \E p \in Phases : /\ phase' = [phase EXCEPT ![r] = p]
                          /\ p \in Unread => phase[r] \in Unread
                          /\ p = "harvest" => phase[r] = "wait"
    BY <1>4, <1>t DEF StartStep, TypeOK, TypeStart, Phases, Working, Cleaning, Unread, At, Goto, Done, Fail,
       FirstCleanup, AfterLaunch, Load, LoadFails, Pin, PinFails, Fill, FillFails, Link,
       LinkFails, Launch, LaunchFails, Wait, HarvestFails, PinRb, PinRbFails, MonitorEnds,
       MonitorFails, Finish, UnpinRb, Cancel, Detach, Unpin
  <2>2. UNCHANGED result
    BY <1>4 DEF StartStep, Load, LoadFails, Pin, PinFails, Fill, FillFails, Link,
       LinkFails, Launch, LaunchFails, Wait, HarvestFails, PinRb, PinRbFails, MonitorEnds,
       MonitorFails, Finish, UnpinRb, Cancel, Detach, Unpin
  <2> QED BY <1>2, <2>1, <2>2
<1>5. ASSUME NEW s \in Services, Accept(s) \/ HandlerStep(s) PROVE HarvestInv' /\ OwnTraces'
  <2>1. CASE ReadRequest(s)
    <3>1. conn[s] \in Requests /\ phase[conn[s]] = "none" /\ UNCHANGED result
          /\ phase' = [phase EXCEPT ![conn[s]] = "load"]
      BY <2>1, ConstFacts DEF ReadRequest, HandlerInv, FreshRequests, Serving,
         TypeOK, TypeHandlers, Requests
    <3> QED BY <1>2, <3>1 DEF Unread
  <2> QED BY <1>1, <1>5, <2>1 DEF Accept, HandlerStep, Lock, ReadFails, Reply, Unlock, startVars
<1>6. ASSUME NEW r \in Requests, ProcEnds(r) \/ ProcQuits(r) \/ LoseRecord(r) PROVE HarvestInv' /\ OwnTraces'
  BY <1>1, <1>6 DEF ProcEnds, ProcQuits, LoseRecord, kernelVars, startVars
<1>7. CASE Crash
  BY <1>t, <1>7 DEF Crash, HarvestInv, OwnTraces, Unread, Alive
<1>8. CASE Restart
  BY <1>1, <1>8 DEF Restart, startVars
<1>9. CASE UNCHANGED vars
  BY <1>1, <1>9 DEF vars, startVars
<1> QED BY <1>3, <1>4, <1>5, <1>6, <1>7, <1>8, <1>9 DEF Next

-----------------------------------------------------------------------------
LEMMA InvStep == Inv /\ [Next]_vars => Inv'
<1> SUFFICES ASSUME Inv, [Next]_vars PROVE Inv'
  OBVIOUS
<1> USE DEF Inv, PinInv
<1>1. TypeOK'
  BY TypeHandlersStep, TypeStartStep, TypeKernelStep, TypeHistoryStep DEF TypeOK
<1>2. HandlerInv'
  BY HandlerInvStep
<1>3. PinsOwned' /\ AttachedPinned'
  BY PinsOwnedStep, AttachedPinnedStep
<1>4. HarvestInv' /\ OwnTraces'
  BY OutputsStep
<1>5. OneAttached'
  BY <1>1, <1>3, AttachedIsPinned, PTL
<1> QED BY <1>1, <1>2, <1>3, <1>4, <1>5

\* Whatever the requests, faults and crashes, the server's state stays within
\* its types, the lock serialises the simulations, and every simulation owns
\* the paths it has pinned.
THEOREM ServerInvariant == Spec => []Inv
  BY InitInv, InvStep, PTL DEF Spec

\* The type invariant of the server (StartService and simulator.Start).
THEOREM ServerTypeCorrect == Spec => []TypeOK
  BY ServerInvariant, PTL DEF Inv

\* SERVER_BUSY serialises the work of all simulations: one works only while
\* the handler that started it holds the lock and waits for it.
THEOREM LockSerializes == Spec => []SimulationsSerialized
  BY ServerInvariant, PTL DEF Inv, HandlerInv

\* Although Start cleans up after wg.Done, never are the uprobes of two
\* simulations attached to the model executable at once.
THEOREM NeverTwoAttached == Spec => []OneAttached
  BY ServerInvariant, PTL DEF Inv, PinInv

\* A falsification that loads its output maps by path gets its own.
THEOREM OutputsAreOwn == Spec => []OwnTraces
  BY ServerInvariant, PTL DEF Inv, PinInv

\* A pin is removed by the deferred Unpin of the simulation that made it, or
\* by make run after a crash.
THEOREM OnlyOwnersUnpin == Spec => PinsRemovedByOwner
<1>1. ASSUME Inv, [Next]_vars, NEW p \in Signals, pins[p] # 0, pins'[p] # pins[p]
      PROVE  pins'[p] = 0 /\ (phase[pins[p]] = "unpin" \/ ~Up)
  <2>1. CASE Restart
    BY <2>1 DEF Restart
  <2>2. ASSUME NEW r \in Requests, Pin(r) PROVE FALSE
    BY <1>1, <2>2 DEF Pin, PathFree, Inv, TypeOK, TypeKernel
  <2>3. ASSUME NEW r \in Requests, Unpin(r)
        PROVE  pins'[p] = 0 /\ phase[pins[p]] = "unpin"
    <3>1. npins[r] > 0 /\ p = npins[r] /\ pins'[p] = 0 /\ phase[r] = "unpin"
      BY <1>1, <2>3 DEF Unpin, At, Inv, TypeOK, TypeKernel
    <3>2. pins[p] = r
      BY <1>1, <3>1, PinTypes DEF Inv, PinInv, PinsOwned
    <3> QED BY <3>1, <3>2
  <2>4. CASE UNCHANGED pins
    BY <1>1, <2>4
  <2>5. ASSUME NEW r \in Requests, StartStep(r), ~Pin(r), ~Unpin(r) PROVE UNCHANGED pins
    BY <2>5 DEF StartStep, kernelVars, Load, LoadFails, PinFails, Fill, FillFails, Link,
       LinkFails, Launch, LaunchFails, Wait, Harvest, HarvestFails, PinRb, PinRbFails,
       MonitorEnds, MonitorFails, Finish, UnpinRb, Cancel, Detach
  <2>6. ASSUME NEW s \in Services, Accept(s) \/ HandlerStep(s) PROVE UNCHANGED pins
    BY <2>6 DEF kernelVars, Accept, HandlerStep, Lock, ReadRequest, ReadFails, Reply, Unlock
  <2>7. (\E r \in Requests : ProcEnds(r) \/ ProcQuits(r) \/ LoseRecord(r)) \/ Crash \/ UNCHANGED vars
          => UNCHANGED pins
    BY DEF ProcEnds, ProcQuits, LoseRecord, Crash, vars, kernelVars
  <2> QED BY <1>1, <2>1, <2>2, <2>3, <2>4, <2>5, <2>6, <2>7 DEF Next
<1>2. Inv /\ [Next]_vars =>
        [\A p \in Signals : pins[p] # 0 /\ pins'[p] # pins[p] =>
           pins'[p] = 0 /\ (phase[pins[p]] = "unpin" \/ ~Up)]_vars
  BY <1>1
<1> QED BY <1>2, ServerInvariant, PTL DEF Spec, PinsRemovedByOwner
=============================================================================
