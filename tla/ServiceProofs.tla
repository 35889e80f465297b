--------------------------- MODULE ServiceProofs ----------------------------
(***************************************************************************)
(* The server of module Server implements the abstract service of module   *)
(* Service, and does not hide its faults: proofs of the safety part of the *)
(* refinement, of PinsAccounted and of SuccessIsReal.                      *)
(***************************************************************************)
EXTENDS ServerProofs

(***************************************************************************)
(* What the refinement needs beside the invariant of ServerProofs: who     *)
(* holds the lock is serving, and a request is answered when its handler   *)
(* goes on to the deferred calls; and a simulation attaches once.          *)
(***************************************************************************)
AnsweredOnce ==
  /\ \A r \in Requests : r > accepted => reply[r] = "none"
  /\ \A s \in Services : hpc[s] \in {"lock", "read", "wait"} => reply[conn[s]] = "none"
  /\ \A s \in Services : hpc[s] = "unlock" => reply[conn[s]] # "none"

LockServes == \A s \in Services : lock = s => hpc[s] \in {"read", "wait", "unlock"}

AttachesOnce == \A r \in attached : phase[r] # "link"

ServiceInv == AnsweredOnce /\ LockServes /\ AttachesOnce

LEMMA InitServiceInv == Init => ServiceInv
BY ConstFacts DEF Init, ServiceInv, AnsweredOnce, LockServes, AttachesOnce

LEMMA HandlerTypes ==
  ASSUME TypeOK
  PROVE  /\ hpc \in [Services -> {"accept", "lock", "read", "wait", "unlock"}]
         /\ DOMAIN conn = Services /\ DOMAIN phase = Requests /\ DOMAIN reply = Requests
         /\ lock \in Services \cup {"free"} /\ "free" \notin Services
         /\ accepted \in Nat /\ MaxRequests \in Nat /\ accepted <= MaxRequests
         /\ attached \subseteq Requests
         /\ Requests = {r \in Nat : 1 <= r /\ r <= MaxRequests}
BY ConstFacts DEF TypeOK, TypeHandlers, TypeStart, TypeKernel, Requests

LEMMA ServedAreRequests ==
  ASSUME Inv, NEW s \in Services, hpc[s] # "accept"
  PROVE  conn[s] \in Requests /\ conn[s] \in 1 .. accepted
BY HandlerTypes DEF Inv, HandlerInv, FreshRequests, Serving

LEMMA KernelTypes ==
  ASSUME TypeOK
  PROVE  /\ pins \in [Signals -> 0 .. MaxRequests] /\ rb_pins \in [Perturbations -> 0 .. MaxRequests]
         /\ DOMAIN faults = Requests /\ DOMAIN errCh = Requests /\ DOMAIN svc = Requests
         /\ DOMAIN npins = Requests /\ DOMAIN result = Requests /\ DOMAIN proc = Requests
         /\ \A q \in 0 .. MaxRequests : q # 0 => q \in Requests
         /\ \A q \in Requests : npins[q] \in Nat
BY ConstFacts DEF TypeOK, TypeHandlers, TypeStart, TypeKernel, TypeHistory, Requests

LEMMA FaultsGrow ==
  ASSUME TypeOK, NEW r \in Requests, StartStep(r)
  PROVE  \A q \in Requests : faults[q] \subseteq faults'[q] /\ (q # r => faults'[q] = faults[q])
<1>1. faults' = faults \/ \E f \in FaultKinds : FaultHits(r, f)
  BY DEF StartStep, FaultKinds, Load, LoadFails, Pin, PinFails, Fill, FillFails, Link, LinkFails,
     Launch, LaunchFails, Wait, Harvest, HarvestFails, PinRb, PinRbFails, MonitorEnds, MonitorFails,
     Finish, UnpinRb, Cancel, Detach, Unpin
<1> QED BY <1>1, KernelTypes DEF FaultHits

\* A fault of the client, of the model, or a lost record.
LEMMA OtherFaultsGrow ==
  ASSUME TypeOK, NEW r \in Requests, NEW f \in FaultKinds, FaultHits(r, f)
  PROVE  \A q \in Requests : faults'[q] = IF q = r THEN faults[q] \cup {f} ELSE faults[q]
BY KernelTypes DEF FaultHits

\* A step that the handlers and the uprobes do not take part in.
LEMMA QuietKeepsServiceInv ==
  ASSUME Inv, ServiceInv, UNCHANGED <<handlerVars, attached>>,
         \A r \in attached : phase'[r] = "link" => phase[r] = "link"
  PROVE  ServiceInv'
BY DEF ServiceInv, AnsweredOnce, LockServes, AttachesOnce, handlerVars

LEMMA HandlerKeepsServiceInv ==
  ASSUME Inv, ServiceInv, NEW s \in Services, Accept(s) \/ HandlerStep(s)
  PROVE  ServiceInv'
<1> USE HandlerTypes DEF Inv, ServiceInv, AnsweredOnce, LockServes
<1>a. AttachesOnce'
  <2>1. CASE ReadRequest(s)
    BY <2>1, ServedAreRequests DEF ReadRequest, AttachesOnce, kernelVars
  <2>2. CASE ~ReadRequest(s)
    BY <2>2 DEF AttachesOnce, Accept, HandlerStep, Lock, ReadFails, Reply, Unlock, kernelVars, startVars
  <2> QED BY <2>1, <2>2
<1>1. CASE Accept(s)
  <2>1. /\ accepted + 1 \in Requests /\ accepted' = accepted + 1
        /\ UNCHANGED <<lock, reply>> /\ hpc[s] = "accept"
    BY <1>1 DEF Accept
  <2>2. \A t \in Services : /\ hpc'[t] = IF t = s THEN "lock" ELSE hpc[t]
                            /\ conn'[t] = IF t = s THEN accepted + 1 ELSE conn[t]
    BY <1>1 DEF Accept
  <2> QED BY <1>a, <2>1, <2>2
<1>2. CASE Lock(s) \/ ReadRequest(s)
  <2>1. /\ UNCHANGED <<accepted, reply, conn>>
        /\ \A t \in Services : hpc'[t] = IF t = s THEN (IF Lock(s) THEN "read" ELSE "wait") ELSE hpc[t]
        /\ hpc[s] \in {"lock", "read"}
        /\ lock' \in {lock, s}
    BY <1>2 DEF Lock, ReadRequest
  <2> QED BY <1>a, <2>1
<1>3. CASE ReadFails(s) \/ Reply(s)
  <2>1. /\ UNCHANGED <<accepted, conn, lock>> /\ hpc[s] \in {"read", "wait"}
        /\ \A t \in Services : hpc'[t] = IF t = s THEN "unlock" ELSE hpc[t]
    BY <1>3 DEF ReadFails, Reply
  <2>2. conn[s] \in Requests /\ conn[s] \in 1 .. accepted
    BY <2>1, ServedAreRequests
  <2>3. PICK a \in {"result", "ended", "dropped"} : reply' = [reply EXCEPT ![conn[s]] = a]
    BY <1>3 DEF ReadFails, Reply, Outcome
  <2>4. \A q \in Requests : reply'[q] = IF q = conn[s] THEN a ELSE reply[q]
    BY <2>2, <2>3
  <2>5. \A t \in Services : t # s /\ hpc[t] # "accept" => conn[t] # conn[s] /\ conn[t] \in Requests
    BY <2>1, ServedAreRequests DEF HandlerInv, FreshRequests, Serving
  <2> QED BY <1>a, <2>1, <2>2, <2>4, <2>5
<1>4. CASE Unlock(s)
  <2>1. /\ UNCHANGED <<accepted, reply>> /\ lock' = "free"
        /\ \A t \in Services : /\ hpc'[t] = IF t = s THEN "accept" ELSE hpc[t]
                               /\ t # s => conn'[t] = conn[t]
    BY <1>4 DEF Unlock
  <2> QED BY <1>a, <2>1
<1> QED BY <1>1, <1>2, <1>3, <1>4 DEF HandlerStep

LEMMA StartKeepsServiceInv ==
  ASSUME Inv, ServiceInv, NEW r \in Requests, StartStep(r)
  PROVE  ServiceInv'
<1>1. UNCHANGED handlerVars
  BY StartShape DEF Inv
<1>2. AnsweredOnce' /\ LockServes'
  BY <1>1 DEF ServiceInv, AnsweredOnce, LockServes, handlerVars
<1>3. AttachesOnce'
  <2> USE HandlerTypes DEF Inv, ServiceInv, AttachesOnce
  <2>1. CASE Link(r)
    BY <2>1 DEF Link, Goto
  <2>2. CASE LinkFails(r)
    BY <2>2 DEF LinkFails, Goto, Fail, Done, FirstCleanup
  <2>3. CASE Fill(r)
    BY <2>3 DEF Fill, Goto, At, PinInv, AttachedPinned, Pinned, kernelVars
  <2>4. CASE ~Link(r) /\ ~LinkFails(r) /\ ~Fill(r)
    <3>1. attached' \subseteq attached /\ phase'[r] # "link"
            /\ \A q \in Requests \ {r} : phase'[q] = phase[q]
      BY <2>4, PinTypes DEF StartStep, Load, LoadFails, Pin, PinFails, FillFails, Launch, LaunchFails,
         AfterLaunch, Wait, Harvest, HarvestFails, PinRb, PinRbFails, MonitorEnds, MonitorFails,
         Finish, UnpinRb, Cancel, Detach, Unpin, Goto, Fail, Done, FirstCleanup, At, kernelVars
    <3> QED BY <3>1
  <2> QED BY <2>1, <2>2, <2>3, <2>4
<1> QED BY <1>2, <1>3 DEF ServiceInv

LEMMA ServiceInvStep == Inv /\ ServiceInv /\ [Next]_vars => ServiceInv'
<1> SUFFICES ASSUME Inv, ServiceInv, [Next]_vars PROVE ServiceInv'
  OBVIOUS
<1>1. CASE Crash
  BY <1>1, HandlerTypes DEF Crash, Inv, ServiceInv, AnsweredOnce, LockServes, AttachesOnce
<1>2. CASE Restart
  BY <1>2, QuietKeepsServiceInv DEF Restart, startVars
<1>3. ASSUME NEW r \in Requests, ProcEnds(r) \/ ProcQuits(r) \/ LoseRecord(r) PROVE ServiceInv'
  BY <1>3, QuietKeepsServiceInv DEF ProcEnds, ProcQuits, LoseRecord, startVars, kernelVars
<1>4. CASE UNCHANGED vars
  BY <1>4, QuietKeepsServiceInv DEF vars, startVars, kernelVars
<1> QED BY <1>1, <1>2, <1>3, <1>4, HandlerKeepsServiceInv, StartKeepsServiceInv DEF Next
----------------------------------------------------------------------------
(***************************************************************************)
(* The refinement.                                                         *)
(***************************************************************************)
LEMMA InitServes == Init => Promise!Init
<1> SUFFICES ASSUME Init PROVE Promise!Init
  OBVIOUS
<1>1. {r \in Requests : Stuck(r)} = {}
  BY DEF Init, Stuck, At
<1> QED BY <1>1, ConstFacts DEF Init, Promise!Init

\* A simulation at work is the one being served, and has no answer.
LEMMA WorkingIsServed ==
  ASSUME Inv, ServiceInv, NEW r \in Requests, phase[r] \in Working
  PROVE  lock # "free" /\ conn[lock] = r /\ reply[r] = "none"
<1>1. PICK s \in Services : lock = s /\ conn[s] = r /\ hpc[s] = "wait"
  BY DEF Inv, HandlerInv, SimulationsSerialized
<1> QED BY <1>1, HandlerTypes DEF Inv, ServiceInv, AnsweredOnce

\* Steps that the abstract service does not see.
LEMMA HiddenStep ==
  ASSUME UNCHANGED <<accepted, lock, conn, reply, attached>>,
         \A q \in Requests : Stuck(q)' <=> Stuck(q)
  PROVE  UNCHANGED Promise!vars
<1>1. {q \in Requests : Stuck(q)'} = {q \in Requests : Stuck(q)}
  OBVIOUS
<1> QED BY <1>1 DEF Promise!vars

\* Steps of which it sees at most that a simulation gets stuck, or recovers.
LEMMA StuckStep ==
  ASSUME Inv, ServiceInv, NEW r \in Requests,
         UNCHANGED <<accepted, lock, conn, reply, attached>>,
         \A q \in Requests \ {r} : Stuck(q)' <=> Stuck(q),
         Stuck(r)' => phase[r] \in Working
  PROVE  [Promise!Next]_(Promise!vars)
<1>1. CASE Stuck(r)' <=> Stuck(r)
  BY <1>1, HiddenStep
<1>2. CASE Stuck(r)' /\ ~Stuck(r)
  <2>1. lock # "free" /\ conn[lock] = r /\ reply[r] = "none"
    BY <1>2, WorkingIsServed
  <2>2. {q \in Requests : Stuck(q)'} = {q \in Requests : Stuck(q)} \cup {r}
    BY <1>2
  <2>3. Promise!Hang
    BY <2>1, <2>2 DEF Promise!Hang
  <2> QED BY <2>3 DEF Promise!Next
<1>3. CASE ~Stuck(r)' /\ Stuck(r)
  <2>1. {q \in Requests : Stuck(q)'} = {q \in Requests : Stuck(q)} \ {r}
    BY <1>3
  <2>2. r \in {q \in Requests : Stuck(q)}
    BY <1>3
  <2>3. Promise!Recover
    BY <2>1, <2>2 DEF Promise!Recover
  <2> QED BY <2>3 DEF Promise!Next
<1> QED BY <1>1, <1>2, <1>3

LEMMA HandlerKeepsStuck ==
  ASSUME Inv, NEW s \in Services, Accept(s) \/ HandlerStep(s)
  PROVE  \A q \in Requests : Stuck(q)' <=> Stuck(q)
<1>1. UNCHANGED <<proc, crashes>>
  BY DEF Accept, HandlerStep, Lock, ReadRequest, ReadFails, Reply, Unlock, kernelVars
<1>2. CASE ReadRequest(s) \/ ReadFails(s)
  <2>1. conn[s] \in Requests /\ phase[conn[s]] = "none"
    BY <1>2, ServedAreRequests DEF ReadRequest, ReadFails, Inv, HandlerInv, FreshRequests
  <2>2. phase'[conn[s]] # "monitor" /\ \A q \in Requests \ {conn[s]} : phase'[q] = phase[q]
    BY <1>2, <2>1, HandlerTypes DEF ReadRequest, ReadFails, startVars, Inv
  <2>3. \A q \in Requests \ {conn[s]} : faults'[q] = faults[q]
    BY <1>2, HandlerTypes DEF ReadRequest, ReadFails, FaultHits, Inv, TypeOK, TypeHistory
  <2> QED BY <1>1, <2>1, <2>2, <2>3 DEF Stuck, At, Up
<1>3. CASE ~(ReadRequest(s) \/ ReadFails(s))
  <2>1. UNCHANGED <<phase, faults>>
    BY <1>3 DEF Accept, HandlerStep, Lock, Reply, Unlock, startVars
  <2> QED BY <1>1, <2>1 DEF Stuck, At, Up
<1> QED BY <1>2, <1>3

LEMMA HandlerServes ==
  ASSUME Inv, ServiceInv, NEW s \in Services, Accept(s) \/ HandlerStep(s)
  PROVE  [Promise!Next]_(Promise!vars)
<1> USE HandlerTypes DEF Inv
<1>s. {q \in Requests : Stuck(q)'} = {q \in Requests : Stuck(q)}
  BY HandlerKeepsStuck
<1>1. CASE Accept(s)
  <2>1. /\ accepted + 1 \in Requests /\ accepted' = accepted + 1
        /\ UNCHANGED <<lock, reply, attached>> /\ hpc[s] = "accept"
    BY <1>1 DEF Accept, kernelVars
  <2>2. lock # "free" => conn'[lock] = conn[lock]
    BY <1>1, <2>1 DEF Accept, ServiceInv, LockServes
  <2>3. 1 .. accepted' = (1 .. accepted) \cup {accepted + 1} /\ accepted + 1 \notin 1 .. accepted
    BY <2>1
  <2>4. Promise!Come
    BY <1>s, <2>1, <2>2, <2>3 DEF Promise!Come
  <2> QED BY <2>4 DEF Promise!Next
<1>2. CASE Lock(s)
  <2>1. /\ lock = "free" /\ lock' = s /\ UNCHANGED <<conn, accepted, reply, attached>>
        /\ conn[s] \in 1 .. accepted /\ reply[conn[s]] = "none"
    BY <1>2, ServedAreRequests DEF Lock, kernelVars, ServiceInv, AnsweredOnce
  <2>2. Promise!Begin
    BY <1>s, <2>1 DEF Promise!Begin
  <2> QED BY <2>2 DEF Promise!Next
<1>3. CASE ReadRequest(s)
  BY <1>3, HiddenStep, HandlerKeepsStuck DEF ReadRequest, kernelVars
<1>4. CASE ReadFails(s) \/ Reply(s)
  <2>1. UNCHANGED <<accepted, conn, lock, attached>> /\ lock = s /\ reply[conn[s]] = "none"
    BY <1>4 DEF ReadFails, Reply, kernelVars, HandlerInv, LockHeld, ServiceInv, AnsweredOnce
  <2>2. PICK a \in {"result", "ended", "dropped"} : reply' = [reply EXCEPT ![conn[s]] = a]
    BY <1>4 DEF ReadFails, Reply, Outcome
  <2>3. conn[s] \notin {q \in Requests : Stuck(q)}
    BY <1>4 DEF ReadFails, Reply, HandlerInv, FreshRequests, LockHeld, Stuck, At, Working
  <2>4. Promise!Answer
    BY <1>s, <2>1, <2>2, <2>3 DEF Promise!Answer
  <2> QED BY <2>4 DEF Promise!Next
<1>5. CASE Unlock(s)
  <2>1. /\ lock = s /\ lock' = "free" /\ reply[conn[s]] # "none"
        /\ UNCHANGED <<accepted, reply, attached>>
    BY <1>5 DEF Unlock, kernelVars, HandlerInv, LockHeld, ServiceInv, AnsweredOnce
  <2>2. Promise!Release
    BY <1>s, <2>1 DEF Promise!Release
  <2> QED BY <2>2 DEF Promise!Next
<1> QED BY <1>1, <1>2, <1>3, <1>4, <1>5 DEF HandlerStep

\* A simulation that has pinned every signal finds nobody else attached.
LEMMA LinkFindsNobody ==
  ASSUME Inv, ServiceInv, NEW r \in Requests, phase[r] = "link"
  PROVE  attached = {}
<1> SUFFICES ASSUME NEW q \in attached PROVE FALSE
  OBVIOUS
<1>1. npins[r] = NofSignals /\ npins[q] = NofSignals /\ q \in Requests /\ q # r
  BY HandlerTypes DEF Inv, PinInv, PinsOwned, AttachedPinned, Pinned, ServiceInv, AttachesOnce
<1>2. pins[1] = r /\ pins[1] = q
  BY <1>1, ConstFacts DEF Inv, PinInv, PinsOwned
<1> QED BY <1>1, <1>2

LEMMA StartServes ==
  ASSUME Inv, ServiceInv, NEW r \in Requests, StartStep(r)
  PROVE  [Promise!Next]_(Promise!vars)
<1>1. UNCHANGED <<accepted, lock, conn, reply>>
  BY StartShape DEF Inv, handlerVars
<1>2. \A q \in Requests \ {r} : Stuck(q)' <=> Stuck(q)
  <2>1. UNCHANGED crashes /\ \A q \in Requests \ {r} : phase'[q] = phase[q]
    BY StartShape, PinTypes DEF Inv, StartMoves
  <2>2. \A q \in Requests \ {r} : faults'[q] = faults[q]
    BY FaultsGrow DEF Inv
  <2>3. \A q \in Requests \ {r} : proc'[q] = proc[q]
    BY KernelTypes DEF Inv, StartStep, Load, LoadFails, Pin, PinFails, Fill, FillFails, Link,
       LinkFails, Launch, LaunchFails, Wait, Harvest, HarvestFails, PinRb, PinRbFails,
       MonitorEnds, MonitorFails, Finish, UnpinRb, Cancel, Detach, Unpin, kernelVars
  <2> QED BY <2>1, <2>2, <2>3 DEF Stuck, At, Up
<1>3. CASE phase[r] = "link" /\ phase'[r] # "monitor" /\ attached' = attached \cup {r}
  <2>1. lock # "free" /\ conn[lock] = r /\ reply[r] = "none"
    BY <1>3, WorkingIsServed DEF Working
  <2>2. attached = {}
    BY <1>3, LinkFindsNobody
  <2>3. {q \in Requests : Stuck(q)'} = {q \in Requests : Stuck(q)}
    BY <1>2, <1>3 DEF Stuck, At
  <2>4. Promise!Attach
    BY <1>1, <1>3, <2>1, <2>2, <2>3 DEF Promise!Attach
  <2> QED BY <2>4 DEF Promise!Next
<1>4. CASE /\ phase[r] = "detach" /\ phase'[r] # "monitor"
           /\ r \in attached /\ attached' = attached \ {r}
  <2>1. attached = {r}
    BY <1>4, HandlerTypes DEF Inv, PinInv, OneAttached
  <2>2. {q \in Requests : Stuck(q)'} = {q \in Requests : Stuck(q)}
    BY <1>2, <1>4 DEF Stuck, At
  <2>3. Promise!Detach
    BY <1>1, <1>4, <2>1, <2>2 DEF Promise!Detach
  <2> QED BY <2>3 DEF Promise!Next
<1>5. CASE attached' = attached
  <2>1. Stuck(r)' => phase[r] \in Working
    BY StartShape, PinTypes DEF Inv, StartMoves, Stuck, At, Working
  <2> QED BY <1>1, <1>2, <1>5, <2>1, StuckStep
<1>6. \/ phase[r] = "link" /\ phase'[r] # "monitor" /\ attached' = attached \cup {r}
      \/ phase[r] = "detach" /\ phase'[r] # "monitor" /\ attached' = attached \ {r}
      \/ attached' = attached
  BY PinTypes DEF Inv, StartStep, Load, LoadFails, Pin, PinFails, Fill, FillFails, Link,
     LinkFails, Launch, LaunchFails, Wait, Harvest, HarvestFails, PinRb, PinRbFails,
     MonitorEnds, MonitorFails, Finish, UnpinRb, Cancel, Detach, Unpin, At, kernelVars,
     Goto, Fail, Done, FirstCleanup
<1> QED BY <1>3, <1>4, <1>5, <1>6

\* The model process ends or quits, or a record is lost.
LEMMA ProcServes ==
  ASSUME Inv, ServiceInv, NEW r \in Requests, ProcEnds(r) \/ ProcQuits(r) \/ LoseRecord(r)
  PROVE  [Promise!Next]_(Promise!vars)
<1>1. UNCHANGED <<accepted, lock, conn, reply, attached, phase, crashes>>
  BY DEF ProcEnds, ProcQuits, LoseRecord, handlerVars, startVars, kernelVars
<1>2. \A q \in Requests \ {r} : proc'[q] = proc[q] /\ faults'[q] = faults[q]
  BY KernelTypes DEF Inv, ProcEnds, ProcQuits, LoseRecord, kernelVars, FaultHits
<1>3. \A q \in Requests \ {r} : Stuck(q)' <=> Stuck(q)
  BY <1>1, <1>2 DEF Stuck, At, Up
<1>4. Stuck(r)' => phase[r] \in Working
  BY <1>1 DEF Stuck, At, Working
<1> QED BY <1>1, <1>3, <1>4, StuckStep

LEMMA CrashServes ==
  ASSUME Inv, Crash
  PROVE  Promise!Drop
<1>1. lock' = "free" /\ attached' = {} /\ accepted' = accepted
  BY DEF Crash
<1>2. reply' = [r \in Requests |-> IF r \in 1 .. accepted /\ reply[r] = "none"
                                   THEN "dropped" ELSE reply[r]]
  BY HandlerTypes DEF Crash, Inv
<1>3. {r \in Requests : Stuck(r)'} = {}
  BY DEF Crash, Stuck, At, Up, Inv, TypeOK, TypeHistory
<1> QED BY <1>1, <1>2, <1>3 DEF Promise!Drop

LEMMA StepServes == Inv /\ ServiceInv /\ [Next]_vars => [Promise!Next]_(Promise!vars)
<1> SUFFICES ASSUME Inv, ServiceInv, [Next]_vars PROVE [Promise!Next]_(Promise!vars)
  OBVIOUS
<1>1. CASE Crash
  BY <1>1, CrashServes DEF Promise!Next
<1>2. CASE Restart
  <2>1. \A q \in Requests : phase[q] # "monitor"
    BY <1>2 DEF Restart, Inv, HandlerInv, LockHeld, Alive
  <2>2. \A q \in Requests : Stuck(q)' <=> Stuck(q)
    BY <1>2, <2>1 DEF Restart, startVars, Stuck, At
  <2> QED BY <1>2, <2>2, HiddenStep DEF Restart, handlerVars
<1>3. CASE UNCHANGED vars
  <2>1. \A q \in Requests : Stuck(q)' <=> Stuck(q)
    BY <1>3 DEF vars, startVars, kernelVars, Stuck, At, Up
  <2> QED BY <1>3, <2>1, HiddenStep DEF vars, handlerVars, kernelVars
<1> QED BY <1>1, <1>2, <1>3, ProcServes, HandlerServes, StartServes DEF Next

\* The server implements the abstract service, as far as safety goes: requests
\* are served one at a time, each is answered once and not while its monitor
\* misses a record, and no simulation attaches to the model executable before
\* the last one has detached (server.go:477, simulator.go:342, 818).
THEOREM ServerServes == Spec => Promise!Init /\ [][Promise!Next]_(Promise!vars)
<1>1. Spec => [](Inv /\ ServiceInv)
  BY InitInv, InvStep, InitServiceInv, ServiceInvStep, PTL DEF Spec
<1> QED BY <1>1, InitServes, StepServes, PTL DEF Spec
----------------------------------------------------------------------------
(***************************************************************************)
(* What Server does with faults: no pin is forgotten, but for the one a    *)
(* failed Fill leaves, and success is real.                                *)
(***************************************************************************)
(***************************************************************************)
(* Pins: a ring buffer is pinned from PinRb to UnpinRb.                    *)
(***************************************************************************)
RbOwned ==
  Up => \A b \in Perturbations :
    rb_pins[b] # 0 => phase[rb_pins[b]] \in {"monitor", "finish", "unpin_rb"}

MapsAccounted ==
  Up => \A p \in Signals : pins[p] # 0 =>
    (Alive(pins[p]) /\ PinOwed(pins[p], p)) \/ "fill" \in faults[pins[p]]

(***************************************************************************)
(* Faults: of a monitoring or a falsification each one is in errCh, or its *)
(* client was disconnected; and what was answered stays true.  A lost      *)
(* record is not reported, but keeps a monitoring in its monitor.          *)
(***************************************************************************)
Reporting == {"monitoring", "falsification"}

Unreported(r) ==
  {"model"} \cup (IF svc[r] = "falsification" \/ phase[r] = "monitor" THEN {"record"} ELSE {})

FaultsReported ==
  \A r \in Requests : svc[r] \in Reporting \/ r > accepted =>
    \/ faults[r] \subseteq Unreported(r) /\ r \notin monErr
    \/ errCh[r] = "error" \/ reply[r] = "dropped"

\* Which services monitor, wait, or pin a user ring buffer.
MonitorsMonitored ==
  \A r \in Requests : /\ r > accepted => svc[r] = "none"
                      /\ phase[r] = "monitor" => svc[r] # "falsification"
                      /\ phase[r] = "wait" => svc[r] = "falsification"
                      /\ phase[r] = "pin_rb" => svc[r] \notin Reporting

AnswersTrue ==
  \A r \in Requests : reply[r] \in {"result", "ended"} =>
    /\ errCh[r] = "empty" /\ r \in done
    /\ reply[r] = "result" => svc[r] = "falsification" /\ Len(result[r]) = NofOutputs

OutcomeInv == FaultsReported /\ MonitorsMonitored /\ AnswersTrue

LEMMA InitFaultInv == Init => RbOwned /\ MapsAccounted /\ OutcomeInv
BY ConstFacts DEF Init, RbOwned, MapsAccounted, OutcomeInv, FaultsReported, MonitorsMonitored,
   AnswersTrue, Perturbations, Signals, Reporting, Unreported
----------------------------------------------------------------------------
(***************************************************************************)
(* Pins.                                                                   *)
(***************************************************************************)
\* A step of Start that neither pins nor unpins a map, nor leaves "fill".
PinSteps(r) == Pin(r) \/ Fill(r) \/ FillFails(r) \/ Unpin(r)

LEMMA OtherStepsKeepPins ==
  ASSUME TypeOK, NEW r \in Requests, StartStep(r), ~PinSteps(r)
  PROVE  /\ UNCHANGED <<pins, npins>> /\ phase[r] # "fill"
         /\ Alive(r)' /\ \A q \in Requests \ {r} : phase'[q] = phase[q]
BY PinTypes DEF StartStep, PinSteps, Load, LoadFails, PinFails, Link, LinkFails, Launch, LaunchFails,
   AfterLaunch, Wait, Harvest, HarvestFails, PinRb, PinRbFails, MonitorEnds, MonitorFails, Finish,
   UnpinRb, Cancel, Detach, Goto, Fail, Done, FirstCleanup, At, Alive, kernelVars

LEMMA StartKeepsMapsAccounted ==
  ASSUME Inv, MapsAccounted, NEW r \in Requests, StartStep(r)
  PROVE  MapsAccounted'
<1> USE KernelTypes, PinTypes DEF Inv
<1>0. /\ Up /\ Up' /\ Alive(r)
      /\ \A q \in Requests : faults[q] \subseteq faults'[q]
  BY StartShape, FaultsGrow DEF Up
<1>p. \A p \in Signals : pins[p] # 0 =>
        /\ pins[p] \in Requests
        /\ (Alive(pins[p]) /\ PinOwed(pins[p], p)) \/ "fill" \in faults[pins[p]]
  BY <1>0 DEF MapsAccounted
<1>1. CASE Pin(r)
  <2>1. /\ pins' = [pins EXCEPT ![NextPin(r)] = r] /\ npins' = npins
        /\ \A q \in Requests : phase'[q] = IF q = r THEN "fill" ELSE phase[q]
        /\ phase[r] = "pin"
    BY <1>1 DEF Pin, Goto, At
  <2> SUFFICES ASSUME NEW p \in Signals, pins'[p] # 0
               PROVE  (Alive(pins[p])' /\ PinOwed(pins[p], p)') \/ "fill" \in faults'[pins'[p]]
    BY DEF MapsAccounted
  <2>2. CASE p = NextPin(r)
    BY <2>1, <2>2 DEF Alive, PinOwed, NextPin
  <2>3. CASE p # NextPin(r)
    BY <1>0, <1>p, <2>1, <2>3 DEF Alive, PinOwed, NextPin
  <2> QED BY <2>2, <2>3
<1>2. CASE Fill(r)
  <2>1. /\ pins' = pins /\ phase[r] = "fill"
        /\ \A q \in Requests : npins'[q] = IF q = r THEN npins[r] + 1 ELSE npins[q]
        /\ \A q \in Requests : q # r => phase'[q] = phase[q]
        /\ phase'[r] \in {"pin", "link"}
    BY <1>2 DEF Fill, Goto, At, NextPin, kernelVars
  <2>2. \A p \in Signals, q \in Requests :
          Alive(q) /\ PinOwed(q, p) => Alive(q)' /\ PinOwed(q, p)'
    BY <2>1, ConstFacts, SMTT(30) DEF Alive, PinOwed, NextPin, Signals
  <2> QED BY <1>0, <1>p, <2>1, <2>2 DEF MapsAccounted
<1>3. CASE FillFails(r)
  <2>1. /\ pins' = pins /\ npins' = npins
        /\ "fill" \in faults'[r]
        /\ \A q \in Requests : q # r => phase'[q] = phase[q]
    BY <1>3 DEF FillFails, Fail, Done, Goto, FaultHits, kernelVars
  <2>2. \A p \in Signals, q \in Requests : q # r /\ Alive(q) /\ PinOwed(q, p)
                                             => Alive(q)' /\ PinOwed(q, p)'
    BY <2>1 DEF Alive, PinOwed, NextPin
  <2> QED BY <1>0, <1>p, <2>1, <2>2 DEF MapsAccounted
<1>4. CASE Unpin(r)
  <2>1. phase[r] = "unpin" /\ \A q \in Requests : q # r => phase'[q] = phase[q] /\ npins'[q] = npins[q]
    BY <1>4 DEF Unpin, Goto, At
  <2>2. \A p \in Signals, q \in Requests : q # r /\ Alive(q) /\ PinOwed(q, p)
                                             => Alive(q)' /\ PinOwed(q, p)'
    BY <2>1 DEF Alive, PinOwed, NextPin
  <2>3. CASE npins[r] > 0
    <3>1. /\ pins' = [pins EXCEPT ![npins[r]] = 0] /\ npins'[r] = npins[r] - 1
          /\ phase' = phase
      BY <1>4, <2>3 DEF Unpin
    <3>2. \A p \in Signals : p # npins[r] /\ PinOwed(r, p) => PinOwed(r, p)' /\ Alive(r)'
      BY <2>1, <3>1, ConstFacts DEF PinOwed, Alive, Signals, NextPin
    <3>3. \A p \in Signals : pins'[p] # 0 => p # npins[r] /\ pins'[p] = pins[p]
      BY <3>1
    <3> QED BY <1>0, <1>p, <2>2, <3>2, <3>3 DEF MapsAccounted
  <2>4. CASE ~(npins[r] > 0)
    <3>1. pins' = pins /\ \A p \in Signals : ~PinOwed(r, p)
      BY <1>4, <2>1, <2>4, ConstFacts DEF Unpin, PinOwed, Signals
    <3> QED BY <1>0, <1>p, <2>2, <3>1 DEF MapsAccounted
  <2> QED BY <2>3, <2>4
<1>5. CASE ~PinSteps(r)
  <2>1. \A p \in Signals, q \in Requests : Alive(q) /\ PinOwed(q, p) => Alive(q)' /\ PinOwed(q, p)'
    BY <1>5, OtherStepsKeepPins DEF Alive, PinOwed, NextPin
  <2>2. pins' = pins
    BY <1>5, OtherStepsKeepPins
  <2> QED BY <1>0, <1>p, <2>1, <2>2 DEF MapsAccounted
<1> QED BY <1>1, <1>2, <1>3, <1>4, <1>5 DEF PinSteps

LEMMA StartKeepsRbOwned ==
  ASSUME Inv, RbOwned, NEW r \in Requests, StartStep(r)
  PROVE  RbOwned'
<1> USE KernelTypes, PinTypes DEF Inv
<1>0. Up /\ Up'
  BY StartShape DEF Up
<1>1. CASE PinRb(r)
  BY <1>0, <1>1 DEF RbOwned, PinRb, Goto
<1>2. CASE UnpinRb(r)
  <2>1. /\ \A b \in Perturbations : rb_pins'[b] = IF rb_pins[b] = r THEN 0 ELSE rb_pins[b]
        /\ \A q \in Requests : q # r => phase'[q] = phase[q]
    BY <1>2 DEF UnpinRb, Goto
  <2> QED BY <1>0, <2>1 DEF RbOwned
<1>3. CASE ~PinRb(r) /\ ~UnpinRb(r)
  <2>1. /\ rb_pins' = rb_pins /\ \A q \in Requests : q # r => phase'[q] = phase[q]
        /\ phase[r] \in {"monitor", "finish", "unpin_rb"} => phase'[r] \in {"monitor", "finish", "unpin_rb"}
    BY <1>3 DEF StartStep, Load, LoadFails, Pin, PinFails, Fill, FillFails, Link, LinkFails, Launch,
       LaunchFails, Wait, Harvest, HarvestFails, PinRbFails, MonitorEnds, MonitorFails, Finish,
       Cancel, Detach, Unpin, Goto, Fail, Done, FirstCleanup, At, kernelVars
  <2> QED BY <1>0, <2>1 DEF RbOwned
<1> QED BY <1>1, <1>2, <1>3

LEMMA HandlerKeepsPinsAccounted ==
  ASSUME Inv, MapsAccounted, RbOwned, NEW s \in Services, Accept(s) \/ HandlerStep(s)
  PROVE  MapsAccounted' /\ RbOwned'
<1> USE KernelTypes, PinTypes DEF Inv
<1>1. UNCHANGED <<pins, rb_pins, npins, crashes>>
  BY DEF Accept, HandlerStep, Lock, ReadRequest, ReadFails, Reply, Unlock, kernelVars, startVars
<1>2. \A q \in Requests : faults[q] \subseteq faults'[q]
  <2>1. CASE ReadFails(s)
    <3>1. FaultHits(conn[s], "client") /\ conn[s] \in Requests /\ "client" \in FaultKinds
      BY <2>1, ServedAreRequests DEF ReadFails, FaultKinds
    <3>2. \A q \in Requests : faults'[q] = IF q = conn[s] THEN faults[q] \cup {"client"} ELSE faults[q]
      BY <3>1, OtherFaultsGrow
    <3> QED BY <3>2
  <2>2. CASE ~ReadFails(s)
    BY <2>2 DEF Accept, HandlerStep, Lock, ReadRequest, Reply, Unlock
  <2> QED BY <2>1, <2>2
<1>3. \A q \in Requests : phase[q] # "none" => phase'[q] = phase[q]
  <2>1. CASE ReadRequest(s)
    BY <2>1, ServedAreRequests DEF ReadRequest, HandlerInv, FreshRequests
  <2>2. CASE ~ReadRequest(s)
    BY <2>2 DEF Accept, HandlerStep, Lock, ReadFails, Reply, Unlock, startVars
  <2> QED BY <2>1, <2>2
<1>4. \A p \in Signals, q \in Requests : Alive(q) /\ PinOwed(q, p) => Alive(q)' /\ PinOwed(q, p)'
  BY <1>1, <1>3 DEF Alive, PinOwed, NextPin
<1>5. MapsAccounted'
  BY <1>1, <1>2, <1>4 DEF MapsAccounted, Up
<1>6. RbOwned'
  BY <1>1, <1>3 DEF RbOwned, Up
<1> QED BY <1>5, <1>6

LEMMA PinsAccountedStep ==
  Inv /\ MapsAccounted /\ RbOwned /\ [Next]_vars => MapsAccounted' /\ RbOwned'
<1> SUFFICES ASSUME Inv, MapsAccounted, RbOwned, [Next]_vars PROVE MapsAccounted' /\ RbOwned'
  OBVIOUS
<1> USE DEF MapsAccounted, RbOwned, Up, Inv
<1>1. CASE Crash
  <2>1. ~Up'
    BY <1>1 DEF Crash, TypeOK, TypeHistory
  <2> QED BY <2>1
<1>2. CASE Restart
  BY <1>2 DEF Restart
<1>3. ASSUME NEW r \in Requests, ProcEnds(r) PROVE MapsAccounted' /\ RbOwned'
  BY <1>3 DEF ProcEnds, startVars, Alive, PinOwed, NextPin
<1>4. ASSUME NEW r \in Requests, ProcQuits(r) \/ LoseRecord(r)
      PROVE  MapsAccounted' /\ RbOwned'
  <2>1. \A q \in Requests : faults[q] \subseteq faults'[q]
    <3>1. PICK f \in FaultKinds : FaultHits(r, f)
      BY <1>4 DEF ProcQuits, LoseRecord, FaultKinds
    <3> QED BY <3>1, OtherFaultsGrow
  <2>2. \A p \in Signals : pins[p] # 0 => pins[p] \in Requests
    BY KernelTypes
  <2> QED BY <1>4, <2>1, <2>2 DEF ProcQuits, LoseRecord, startVars, kernelVars, Alive, PinOwed,
             NextPin
<1>5. CASE UNCHANGED vars
  BY <1>5 DEF vars, startVars, kernelVars, Alive, PinOwed, NextPin
<1> QED BY <1>1, <1>2, <1>3, <1>4, <1>5, StartKeepsMapsAccounted, StartKeepsRbOwned,
           HandlerKeepsPinsAccounted DEF Next

\* While the server is up every pin is owed by a simulation that will remove
\* it, or was left by a failed Fill (simulator.go:257).
THEOREM EveryPinIsAccounted == Spec => []PinsAccounted
<1>1. Spec => [](Inv /\ MapsAccounted /\ RbOwned)
  BY InitInv, InvStep, InitFaultInv, PinsAccountedStep, PTL DEF Spec
<1>2. MapsAccounted /\ RbOwned => PinsAccounted
  BY DEF MapsAccounted, RbOwned, PinsAccounted, Alive
<1> QED BY <1>1, <1>2, PTL
----------------------------------------------------------------------------
(***************************************************************************)
(* Faults and answers.                                                     *)
(***************************************************************************)
LEMMA StartKeepsOutcome ==
  ASSUME Inv, ServiceInv, OutcomeInv, NEW r \in Requests, StartStep(r)
  PROVE  OutcomeInv'
<1> USE KernelTypes, PinTypes DEF Inv
<1>0. /\ UNCHANGED <<svc, reply, accepted>> /\ phase[r] \notin {"none", "gone"} /\ ~(r > accepted)
      /\ \A q \in Requests : q # r => phase'[q] = phase[q]
    BY StartShape DEF handlerVars, Alive, StartMoves, HandlerInv, FreshRequests
<1>d. done \subseteq done'
    BY StartShape DEF StartMoves
<1>o. \A q \in Requests : q # r => /\ errCh'[q] = errCh[q] /\ result'[q] = result[q]
                                   /\ faults'[q] = faults[q] /\ (q \in monErr' <=> q \in monErr)
  <2>1. \A q \in Requests : q # r => errCh'[q] = errCh[q] /\ result'[q] = result[q]
    BY DEF StartStep, Load, LoadFails, Pin, PinFails, Fill, FillFails, Link, LinkFails, Launch,
       LaunchFails, Wait, Harvest, HarvestFails, PinRb, PinRbFails, MonitorEnds, MonitorFails, Finish,
       UnpinRb, Cancel, Detach, Unpin, Fail, Done, Goto
  <2>2. \A q \in Requests : q # r => (q \in monErr' <=> q \in monErr)
    BY DEF StartStep, Load, LoadFails, Pin, PinFails, Fill, FillFails, Link, LinkFails, Launch,
       LaunchFails, Wait, Harvest, HarvestFails, PinRb, PinRbFails, MonitorEnds, MonitorFails, Finish,
       UnpinRb, Cancel, Detach, Unpin, Fail, Done, Goto
  <2> QED BY <2>1, <2>2, FaultsGrow
<1>u. \A q \in Requests : q # r => Unreported(q)' = Unreported(q)
  BY <1>0 DEF Unreported
\* A step of r either reports an error, or no fault was seen but by the monitor
\* of a perturbation.
<1>r. \/ errCh'[r] = "error" /\ phase[r] \in Working
      \/ UNCHANGED <<faults, monErr, errCh>>
      \/ MonitorFails(r) /\ svc[r] # "monitoring" /\ UNCHANGED errCh
  BY DEF StartStep, Load, LoadFails, Pin, PinFails, Fill, FillFails, Link, LinkFails, Launch,
     LaunchFails, Wait, Harvest, HarvestFails, PinRb, PinRbFails, MonitorEnds, MonitorFails, Finish,
     UnpinRb, Cancel, Detach, Unpin, Fail, Done, Goto, At, Working
<1>1. FaultsReported'
  <2>1. CASE MonitorFails(r) /\ svc[r] # "monitoring"
    <3>1. svc[r] \notin Reporting
      BY <2>1 DEF MonitorFails, At, OutcomeInv, MonitorsMonitored, Reporting
    <3> QED BY <1>0, <1>o, <1>u, <3>1 DEF OutcomeInv, FaultsReported
  <2>2. CASE errCh'[r] = "error"
    BY <1>0, <1>o, <1>u, <2>2 DEF OutcomeInv, FaultsReported
  <2>3. CASE UNCHANGED <<faults, monErr, errCh>> /\ ~(MonitorFails(r) /\ svc[r] # "monitoring")
    <3>1. phase[r] = "monitor" => errCh'[r] = "error" \/ "record" \notin faults[r]
      BY <2>3 DEF StartStep, MonitorEnds, MonitorFails, Load, LoadFails, Pin, PinFails, Fill,
         FillFails, Link, LinkFails, Launch, LaunchFails, Wait, Harvest, HarvestFails, PinRb,
         PinRbFails, Finish, UnpinRb, Cancel, Detach, Unpin, At, Fail
    <3>2. faults[r] \subseteq Unreported(r) =>
            errCh'[r] = "error" \/ faults'[r] \subseteq Unreported(r)'
      BY <1>0, <2>3, <3>1 DEF Unreported
    <3> QED BY <1>0, <1>u, <2>3, <3>2 DEF OutcomeInv, FaultsReported
  <2> QED BY <1>r, <2>1, <2>2, <2>3
<1>2. MonitorsMonitored'
  <2>1. /\ r > accepted => svc[r] = "none"
        /\ phase'[r] = "monitor" => svc[r] # "falsification"
        /\ phase'[r] = "wait" => svc[r] = "falsification"
        /\ phase'[r] = "pin_rb" => svc[r] \notin Reporting
    <3>1. CASE Launch(r)
      <4>1. phase'[r] = AfterLaunch(svc[r])
        BY <3>1 DEF Launch, Goto
      <4> QED BY <1>0, <4>1 DEF AfterLaunch, Reporting
    <3>2. CASE PinRb(r)
      BY <1>0, <3>2 DEF PinRb, Goto, At, OutcomeInv, MonitorsMonitored, Reporting
    <3>3. CASE ~Launch(r) /\ ~PinRb(r)
      <4>1. phase'[r] \notin {"monitor", "wait", "pin_rb"}
        BY <3>3 DEF StartStep, Load, LoadFails, Pin, PinFails, Fill, FillFails, Link, LinkFails,
           LaunchFails, Wait, Harvest, HarvestFails, PinRbFails, MonitorEnds, MonitorFails, Finish,
           UnpinRb, Cancel, Detach, Unpin, Goto, Fail, Done, FirstCleanup, At
      <4> QED BY <1>0, <4>1
    <3> QED BY <1>0, <3>1, <3>2, <3>3
  <2> QED BY <1>0, <2>1 DEF OutcomeInv, MonitorsMonitored
<1>3. AnswersTrue'
  <2>1. r \in done => phase[r] \notin Working
    BY DEF HandlerInv, LockHeld
  <2>2. phase[r] \notin Working => result' = result
    BY DEF StartStep, Load, LoadFails, Pin, PinFails, Fill, FillFails, Link, LinkFails, Launch,
       LaunchFails, Wait, Harvest, HarvestFails, PinRb, PinRbFails, MonitorEnds, MonitorFails, Finish,
       UnpinRb, Cancel, Detach, Unpin, At, Working
  <2>3. phase[r] \notin Working => errCh' = errCh
    BY <1>r DEF MonitorFails, At, Working
  <2> QED BY <1>0, <1>d, <1>o, <2>1, <2>2, <2>3 DEF OutcomeInv, AnswersTrue
<1> QED BY <1>1, <1>2, <1>3 DEF OutcomeInv

LEMMA HandlerKeepsOutcome ==
  ASSUME Inv, ServiceInv, OutcomeInv, NEW s \in Services, Accept(s) \/ HandlerStep(s)
  PROVE  OutcomeInv'
<1> USE KernelTypes, HandlerTypes DEF Inv
<1>0. UNCHANGED <<errCh, done, monErr, result>>
  BY DEF Accept, HandlerStep, Lock, ReadRequest, ReadFails, Reply, Unlock, startVars
<1>1. CASE Accept(s)
  <2>1. /\ UNCHANGED <<reply, phase, faults>> /\ accepted + 1 \in Requests
        /\ accepted' = accepted + 1
        /\ \A q \in Requests : svc'[q] = IF q = accepted + 1 THEN s ELSE svc[q]
    BY <1>1 DEF Accept, startVars
  <2>2. phase[accepted + 1] = "none" /\ reply[accepted + 1] = "none"
    BY <2>1 DEF HandlerInv, FreshRequests, ServiceInv, AnsweredOnce
  <2>3. FaultsReported'
    <3>1. \A q \in Requests : Unreported(q) \subseteq Unreported(q)'
      BY <2>1, <2>2 DEF Unreported, OutcomeInv, MonitorsMonitored
    <3>2. \A q \in Requests : svc'[q] \in Reporting \/ q > accepted' =>
                                svc[q] \in Reporting \/ q > accepted
      BY <2>1
    <3>3. \A q \in Requests : faults[q] \subseteq Unreported(q) => faults'[q] \subseteq Unreported(q)'
      BY <2>1, <3>1
    <3> QED BY <1>0, <2>1, <3>2, <3>3 DEF OutcomeInv, FaultsReported
  <2>4. MonitorsMonitored'
    BY <2>1, <2>2 DEF OutcomeInv, MonitorsMonitored
  <2>5. AnswersTrue'
    BY <1>0, <2>1, <2>2 DEF OutcomeInv, AnswersTrue
  <2> QED BY <2>3, <2>4, <2>5 DEF OutcomeInv
<1>2. CASE Lock(s) \/ Unlock(s)
  BY <1>2 DEF Lock, Unlock, startVars, OutcomeInv, FaultsReported, MonitorsMonitored, AnswersTrue,
     Unreported
<1>3. CASE ReadRequest(s)
  <2>1. \A q \in Requests : phase'[q] \in {phase[q], "load"}
    BY <1>3 DEF ReadRequest
  <2>2. \A q \in Requests : phase[q] = "monitor" => phase'[q] = "monitor"
    BY <1>3, ServedAreRequests DEF ReadRequest, HandlerInv, FreshRequests
  <2>3. \A q \in Requests : Unreported(q)' = Unreported(q)
    BY <1>3, <2>1, <2>2 DEF ReadRequest, Unreported
  <2> QED BY <1>3, <2>1, <2>3 DEF ReadRequest, OutcomeInv, FaultsReported, MonitorsMonitored, AnswersTrue
<1>4. CASE ReadFails(s)
  <2>1. conn[s] \in Requests /\ reply[conn[s]] = "none"
    BY <1>4, ServedAreRequests DEF ReadFails, ServiceInv, AnsweredOnce
  <2>2. FaultHits(conn[s], "client") /\ "client" \in FaultKinds
    BY <1>4 DEF ReadFails, FaultKinds
  <2>3. \A q \in Requests : q # conn[s] => faults'[q] = faults[q]
    BY <2>1, <2>2, OtherFaultsGrow
  <2>4. /\ UNCHANGED <<svc, accepted, phase>>
        /\ \A q \in Requests : reply'[q] = IF q = conn[s] THEN "dropped" ELSE reply[q]
    BY <1>4 DEF ReadFails, startVars
  <2>5. \A q \in Requests : Unreported(q)' = Unreported(q)
    BY <2>4 DEF Unreported
  <2> QED BY <1>0, <2>1, <2>3, <2>4, <2>5
          DEF OutcomeInv, FaultsReported, MonitorsMonitored, AnswersTrue
<1>5. CASE Reply(s)
  <2>1. /\ conn[s] \in Requests /\ reply[conn[s]] = "none" /\ conn[s] \in done
        /\ UNCHANGED <<svc, accepted, phase, faults>>
        /\ \A q \in Requests : reply'[q] = IF q = conn[s] THEN Outcome(q) ELSE reply[q]
        /\ Outcome(conn[s]) = "result" => Len(result[conn[s]]) = NofOutputs
    BY <1>5, ServedAreRequests DEF Reply, ServiceInv, AnsweredOnce, startVars
  <2>2. errCh \in [Requests -> {"empty", "error"}]
    BY DEF TypeOK, TypeStart
  <2>3. FaultsReported'
    <3>1. \A q \in Requests : Unreported(q)' = Unreported(q)
      BY <2>1 DEF Unreported
    <3> QED BY <1>0, <2>1, <3>1 DEF OutcomeInv, FaultsReported
  <2>4. AnswersTrue'
    BY <1>0, <2>1, <2>2 DEF OutcomeInv, AnswersTrue, Outcome
  <2> QED BY <2>1, <2>3, <2>4 DEF OutcomeInv, MonitorsMonitored
<1> QED BY <1>1, <1>2, <1>3, <1>4, <1>5 DEF HandlerStep

LEMMA OutcomeStep == Inv /\ ServiceInv /\ OutcomeInv /\ [Next]_vars => OutcomeInv'
<1> SUFFICES ASSUME Inv, ServiceInv, OutcomeInv, [Next]_vars PROVE OutcomeInv'
  OBVIOUS
<1> USE DEF OutcomeInv, MonitorsMonitored, AnswersTrue
<1>1. CASE Crash
  <2>1. \A q \in Requests : /\ reply'[q] \in {reply[q], "dropped"}
                            /\ reply[q] = "dropped" => reply'[q] = "dropped"
                            /\ phase'[q] \in {phase[q], "gone"}
    BY <1>1 DEF Crash
  <2>2. \A q \in Requests : phase[q] = "monitor" => reply'[q] = "dropped"
    <3> SUFFICES ASSUME NEW q \in Requests, phase[q] = "monitor" PROVE reply'[q] = "dropped"
      OBVIOUS
    <3>1. reply[q] = "none"
      BY WorkingIsServed DEF Working
    <3>2. q <= accepted
      BY HandlerTypes DEF Inv, HandlerInv, FreshRequests
    <3> QED BY <1>1, <3>1, <3>2 DEF Crash
  <2>3. \A q \in Requests : phase[q] # "monitor" => Unreported(q)' = Unreported(q)
    BY <1>1, <2>1 DEF Crash, Unreported
  <2>4. FaultsReported'
    BY <1>1, <2>1, <2>2, <2>3 DEF Crash, FaultsReported
  <2> QED BY <1>1, <2>1, <2>4 DEF Crash
<1>2. CASE Restart
  BY <1>2 DEF Restart, handlerVars, startVars, FaultsReported, Unreported
<1>3. ASSUME NEW r \in Requests, ProcEnds(r) PROVE OutcomeInv'
  BY <1>3 DEF ProcEnds, handlerVars, startVars, FaultsReported, Unreported
<1>4. ASSUME NEW r \in Requests, ProcQuits(r) \/ LoseRecord(r) PROVE OutcomeInv'
  <2>1. UNCHANGED <<handlerVars, startVars>>
    BY <1>4 DEF ProcQuits, LoseRecord
  <2>2. PICK f \in {"model", "record"} :
          /\ FaultHits(r, f)
          /\ f = "record" => phase[r] \in {"wait", "pin_rb", "monitor"}
    BY <1>4 DEF ProcQuits, LoseRecord
  <2>3. \A q \in Requests : faults'[q] = IF q = r THEN faults[q] \cup {f} ELSE faults[q]
    <3>1. f \in FaultKinds
      BY DEF FaultKinds
    <3> QED BY <2>2, <3>1, OtherFaultsGrow DEF Inv
  <2>4. \A q \in Requests : Unreported(q)' = Unreported(q)
    BY <2>1 DEF handlerVars, startVars, Unreported
  <2>5. svc[r] \in Reporting \/ r > accepted => f \in Unreported(r)
    BY <2>2 DEF Unreported, Inv, HandlerInv, FreshRequests
  <2>6. FaultsReported'
    BY <2>1, <2>3, <2>4, <2>5 DEF FaultsReported, handlerVars, startVars
  <2> QED BY <2>1, <2>6 DEF handlerVars, startVars
<1>5. CASE UNCHANGED vars
  BY <1>5 DEF vars, handlerVars, startVars, FaultsReported, Unreported
<1> QED BY <1>1, <1>2, <1>3, <1>4, <1>5, StartKeepsOutcome, HandlerKeepsOutcome DEF Next

\* A monitoring or falsification client is told of success (server.go:360,
\* 453) only if no step of its simulation failed in the server; a falsification
\* then has every output, and a monitored simulation has lost no record.
THEOREM SuccessIsTrue == Spec => []SuccessIsReal
<1>1. Spec => [](Inv /\ ServiceInv /\ OutcomeInv)
  BY InitInv, InvStep, InitServiceInv, ServiceInvStep, InitFaultInv, OutcomeStep, PTL DEF Spec
<1>2. Inv /\ OutcomeInv => SuccessIsReal
  <2> SUFFICES ASSUME Inv, OutcomeInv PROVE SuccessIsReal
    OBVIOUS
  <2>1. \A r \in Requests : reply[r] \in {"result", "ended"} => phase[r] # "monitor"
    BY DEF Inv, HandlerInv, LockHeld, Working, OutcomeInv, AnswersTrue
  <2> QED BY <2>1 DEF OutcomeInv, FaultsReported, Unreported, AnswersTrue, SuccessIsReal, Reporting
<1> QED BY <1>1, <1>2, PTL
============================================================================
