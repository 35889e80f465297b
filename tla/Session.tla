------------------------------- MODULE Session -------------------------------
(***************************************************************************)
(* The perturbation services: what happens on one connection beside the    *)
(* handler and the simulation of module Server.                            *)
(*                                                                         *)
(* A reader goroutine takes perturbations from the connection, confirms    *)
(* each to the client and puts it in a channel.  Once Start has pinned the *)
(* ring buffer, an injector goroutine takes perturbations from the channel *)
(* and runs the injector program, which opens the ring by its path.  The   *)
(* handler waits for neither of the two: when the simulation is over it    *)
(* closes the channel and the connection.                                  *)
(*                                                                         *)
(* The steps of Server are taken as they are; those that start or end a    *)
(* goroutine of the session also change the variables of this module.      *)
(* Perturbations are numbered in the order their client sends them.        *)
(***************************************************************************)
EXTENDS Server

CONSTANTS
  ChanCap,         \* capacity of the perturbation channel
  InjectorFaults,  \* the temporary file or the injector program may fail
  MaxPerts,        \* bound: perturbations a client sends
  PertsOf          \* bound: perturbations each client sends

ASSUME SessionAssumption ==
  /\ Services \subseteq Perturbations
  /\ InjectorFaults \in BOOLEAN
  /\ MaxPerts \in Nat /\ PertsOf \in [Requests -> 0 .. MaxPerts]
  /\ ChanCap \in Nat \ {0}

VARIABLES
  sent,      \* perturbations each client has sent
  piped,     \* clients that sent one before the answer to the last message
  got,       \* perturbations the reader has taken from the connection
  started,   \* requests whose client was told that its simulation started
  rd,        \* where the reader goroutine of each request is
  ch,        \* perturbations in the channel
  closed,    \* requests whose channel is closed
  inj,       \* where the injector goroutine of each request is
  item,      \* the perturbation it works on, 0 if none or an empty one
  target,    \* the request whose ring the injector program has opened
  taken,     \* history: perturbations taken from the channel
  failed,    \* history: perturbations whose injection failed
  ring,      \* history: what was written to the ring of each request
  panicked   \* history: requests whose reader has panicked

clientVars == <<sent, piped>>
readerVars == <<got, started, rd, ch, closed>>
injectorVars == <<inj, item, target, taken, failed, ring>>
sessionVars == <<clientVars, readerVars, injectorVars, panicked>>
allVars == <<vars, sessionVars>>

Perts == 1 .. MaxPerts

SessionTypeOK ==
  /\ sent \in [Requests -> 0 .. MaxPerts] /\ got \in [Requests -> 0 .. MaxPerts]
  /\ piped \subseteq Requests /\ started \subseteq Requests /\ closed \subseteq Requests
  /\ rd \in [Requests -> {"none", "read", "ack", "send", "overread", "gone"}]
  /\ ch \in [Requests -> Seq(Perts)]
  /\ inj \in [Requests -> {"none", "select", "open", "write", "gone"}]
  /\ item \in [Requests -> 0 .. MaxPerts]
  /\ target \in [Requests -> 0 .. MaxRequests]
  /\ taken \in [Requests -> Seq(Perts)]
  /\ failed \in [Requests -> SUBSET Perts]
  /\ ring \in [Requests -> Seq([req : Requests, no : Perts])]
  /\ panicked \subseteq Requests

SessionInit ==
  /\ Init
  /\ sent = [r \in Requests |-> 0] /\ got = [r \in Requests |-> 0]
  /\ piped = {} /\ started = {} /\ closed = {} /\ panicked = {}
  /\ rd = [r \in Requests |-> "none"]
  /\ ch = [r \in Requests |-> <<>>]
  /\ inj = [r \in Requests |-> "none"]
  /\ item = [r \in Requests |-> 0]
  /\ target = [r \in Requests |-> 0]
  /\ taken = [r \in Requests |-> <<>>]
  /\ failed = [r \in Requests |-> {}]
  /\ ring = [r \in Requests |-> <<>>]

\* The connection of r is open.
Open(r) == \E s \in Services : conn[s] = r

Read(r, p) == rd' = [rd EXCEPT ![r] = p]
InjectorAt(r, p) == inj' = [inj EXCEPT ![r] = p]
----------------------------------------------------------------------------
(***************************************************************************)
(* The client.  The demo clients send a perturbation when they have had a  *)
(* message for each one sent before it; others need not wait.  The         *)
(* messages are "Simulation started", "Perturbation received correctly"    *)
(* and "Simulation ended without errors"; the clients take any for any.    *)
(***************************************************************************)
Ended(r) == reply[r] = "ended"
Confirmed(r) == got[r] - (IF rd[r] = "ack" THEN 1 ELSE 0)
Messages(r) == Confirmed(r) + (IF r \in started THEN 1 ELSE 0) + (IF Ended(r) THEN 1 ELSE 0)
Answered(r) == Messages(r) > sent[r]

ClientSends(r) ==
  /\ Open(r) /\ sent[r] < PertsOf[r]
  /\ sent' = [sent EXCEPT ![r] = @ + 1]
  /\ piped' = IF Answered(r) THEN piped ELSE piped \cup {r}
  /\ UNCHANGED <<vars, readerVars, injectorVars, panicked>>
----------------------------------------------------------------------------
(***************************************************************************)
(* The handler.                                                            *)
(***************************************************************************)
\* getData asks for up to 16384 bytes, even when less is missing: what it
\* reads beyond the end of the message makes its length never match, and
\* getData reads on until the connection ends.
HandlerOverreads(s) ==
  LET r == conn[s]
  IN /\ Up /\ hpc[s] = "read" /\ rd[r] = "none" /\ sent[r] > 0
     /\ Read(r, "overread")
     /\ UNCHANGED <<vars, clientVars, got, started, ch, closed, injectorVars, panicked>>

\* Start and the reader are started together.
StartSession(s) ==
  /\ ReadRequest(s)
  /\ rd[conn[s]] = "none"
  /\ Read(conn[s], "read")
  /\ UNCHANGED <<clientVars, got, started, ch, closed, injectorVars, panicked>>

DropSession(s) ==
  /\ ReadFails(s)
  /\ Read(conn[s], "gone")
  /\ UNCHANGED <<clientVars, got, started, ch, closed, injectorVars, panicked>>

\* Sent before Start has done anything, and also when it fails.
ConfirmStart(s) ==
  LET r == conn[s]
  IN /\ Up /\ hpc[s] = "wait" /\ r \notin started
     /\ started' = started \cup {r}
     /\ UNCHANGED <<vars, clientVars, got, rd, ch, closed, injectorVars, panicked>>

\* A plausible slip: the first message is left to a goroutine.
EndSessionUnconfirmed(s) == Reply(s) /\ UNCHANGED sessionVars

\* The polling loop sees the simulation done.
EndSession(s) ==
  /\ Reply(s)
  /\ conn[s] \in started
  /\ UNCHANGED sessionVars

\* A plausible slip: the close is not deferred.
CloseChannelEarly(s) ==
  LET r == conn[s]
  IN /\ Up /\ hpc[s] \in {"wait", "unlock"} /\ phase[r] # "none" /\ r \notin closed
     /\ closed' = closed \cup {r}
     /\ UNCHANGED <<vars, clientVars, got, started, rd, ch, injectorVars, panicked>>

\* The deferred close of the channel; cancelling the context only changes
\* what the reader logs.
CloseChannel(s) ==
  LET r == conn[s]
  IN /\ Up /\ hpc[s] = "unlock" /\ phase[r] # "none" /\ r \notin closed
     /\ closed' = closed \cup {r}
     /\ UNCHANGED <<vars, clientVars, got, started, rd, ch, injectorVars, panicked>>

CloseConnection(s) ==
  /\ Unlock(s)
  /\ phase[conn[s]] # "none" => conn[s] \in closed
  /\ UNCHANGED sessionVars
----------------------------------------------------------------------------
(***************************************************************************)
(* The reader: readPerturbationFromNet, readStatePerturbationFromNet.      *)
(***************************************************************************)
\* A plausible slip: an empty message counts as a perturbation.
ReaderGetsEmpty(r) ==
  /\ rd[r] = "read" /\ Open(r)
  /\ got' = [got EXCEPT ![r] = @ + 1]
  /\ Read(r, "ack")
  /\ UNCHANGED <<vars, clientVars, started, ch, closed, injectorVars, panicked>>

ReaderGets(r) ==
  /\ rd[r] = "read" /\ Open(r) /\ got[r] < sent[r]
  /\ got' = [got EXCEPT ![r] = @ + 1]
  /\ Read(r, "ack")
  /\ UNCHANGED <<vars, clientVars, started, ch, closed, injectorVars, panicked>>

\* getData reads beyond the end of a message when the next one is there.
ReaderOverreads(r) ==
  /\ rd[r] = "read" /\ Open(r) /\ got[r] + 1 < sent[r]
  /\ Read(r, "overread")
  /\ UNCHANGED <<vars, clientVars, got, started, ch, closed, injectorVars, panicked>>

ReaderAcks(r) ==
  /\ rd[r] = "ack"
  /\ Read(r, "send")
  /\ UNCHANGED <<vars, clientVars, got, started, ch, closed, injectorVars, panicked>>

\* A plausible slip: a send that does not wait for room in the channel.
ReaderOffers(r) ==
  /\ rd[r] = "send" /\ r \notin closed
  /\ ch' = IF Len(ch[r]) < ChanCap THEN [ch EXCEPT ![r] = Append(@, got[r])] ELSE ch
  /\ Read(r, "read")
  /\ UNCHANGED <<vars, clientVars, got, started, closed, injectorVars, panicked>>

ReaderSends(r) ==
  /\ rd[r] = "send" /\ r \notin closed /\ Len(ch[r]) < ChanCap
  /\ ch' = [ch EXCEPT ![r] = Append(@, got[r])]
  /\ Read(r, "read")
  /\ UNCHANGED <<vars, clientVars, got, started, closed, injectorVars, panicked>>

\* The goroutines of all sessions go with the server.
CrashSessions ==
  /\ Crash
  /\ rd' = [q \in Requests |-> IF rd[q] = "none" THEN "none" ELSE "gone"]
  /\ inj' = [q \in Requests |-> IF inj[q] = "none" THEN "none" ELSE "gone"]
  /\ UNCHANGED <<clientVars, got, started, ch, closed, item, target, taken, failed, ring>>

\* A send on a closed channel, also one that is blocked when it is closed,
\* panics: the whole server goes down.
ReaderPanics(r) ==
  /\ rd[r] = "send" /\ r \in closed
  /\ CrashSessions
  /\ panicked' = panicked \cup {r}

\* So it does when another goroutine panics, at an index past a slice
\* (simulator.go:97, 757) or a link that is nil (418), or when it is killed.
\* Bound: one of the crashes is left for a reader.
OtherCrash ==
  /\ crashes + 2 < 2 * MaxCrashes
  /\ CrashSessions
  /\ UNCHANGED panicked

\* The connection is closed while the reader waits for data.
ReaderEnds(r) ==
  /\ rd[r] \in {"read", "overread"} /\ ~Open(r)
  /\ Read(r, "gone")
  /\ UNCHANGED <<vars, clientVars, got, started, ch, closed, injectorVars, panicked>>

\* The client goes away, or sends something that is not a perturbation.
ReaderGivesUp(r) ==
  /\ rd[r] \in {"read", "overread"} /\ Open(r) /\ hpc[svc[r]] # "read"
  /\ Read(r, "gone")
  /\ UNCHANGED <<vars, clientVars, got, started, ch, closed, injectorVars, panicked>>
----------------------------------------------------------------------------
(***************************************************************************)
(* The simulation, and the injector goroutine it starts.                   *)
(***************************************************************************)
\* Start starts the injector when it has pinned the ring.
Simulate(r) ==
  /\ StartStep(r)
  /\ InjectorAt(r, IF phase[r] = "pin_rb" /\ phase'[r] = "monitor"
                   THEN "select" ELSE inj[r])
  /\ UNCHANGED <<clientVars, readerVars, item, target, taken, failed, ring, panicked>>

\* A plausible slip: nobody cancels the injector's context.
CancelForgotten(r) == phase[r] = "none"

\* The deferred cancel of Start's context comes with its cancelSimulation.
Cancelled(r) == phase[r] \in {"detach", "unpin", "gone"}

\* The select takes any branch that is ready.  A closed channel that is empty
\* yields an empty perturbation, again and again.
Take(r) ==
  /\ inj[r] = "select" /\ ch[r] # <<>>
  /\ item' = [item EXCEPT ![r] = Head(ch[r])]
  /\ ch' = [ch EXCEPT ![r] = Tail(@)]
  /\ taken' = [taken EXCEPT ![r] = Append(@, Head(ch[r]))]
  /\ InjectorAt(r, "open")
  /\ UNCHANGED <<vars, clientVars, got, started, rd, closed, target, failed, ring, panicked>>

TakeNothing(r) ==
  /\ inj[r] = "select" /\ ch[r] = <<>> /\ r \in closed
  /\ InjectorAt(r, "open")
  /\ UNCHANGED <<vars, clientVars, readerVars, item, target, taken, failed, ring, panicked>>

Stop(r) ==
  /\ inj[r] = "select" /\ Cancelled(r)
  /\ InjectorAt(r, "gone")
  /\ UNCHANGED <<vars, clientVars, readerVars, item, target, taken, failed, ring, panicked>>

\* The injector program opens the ring that is pinned now.
OpenRing(r) ==
  /\ inj[r] = "open" /\ rb_pins[svc[r]] # 0
  /\ target' = [target EXCEPT ![r] = rb_pins[svc[r]]]
  /\ InjectorAt(r, "write")
  /\ UNCHANGED <<vars, clientVars, readerVars, item, taken, failed, ring, panicked>>

\* There is none, or something else fails on the way there.
OpenFails(r) ==
  /\ inj[r] = "open" /\ (rb_pins[svc[r]] = 0 \/ InjectorFaults)
  /\ failed' = [failed EXCEPT ![r] = @ \cup ({item[r]} \ {0})]
  /\ item' = [item EXCEPT ![r] = 0]
  /\ InjectorAt(r, "select")
  /\ UNCHANGED <<vars, clientVars, readerVars, target, taken, ring, panicked>>

\* Its records are written; for an empty perturbation there are none.
WriteRing(r) ==
  /\ inj[r] = "write"
  /\ ring' = IF item[r] = 0 THEN ring
             ELSE [ring EXCEPT ![target[r]] = Append(@, [req |-> r, no |-> item[r]])]
  /\ item' = [item EXCEPT ![r] = 0]
  /\ target' = [target EXCEPT ![r] = 0]
  /\ InjectorAt(r, "select")
  /\ UNCHANGED <<vars, clientVars, readerVars, taken, failed, panicked>>
----------------------------------------------------------------------------
SessionHandler(s) ==
  \/ Lock(s) /\ UNCHANGED sessionVars
  \/ StartSession(s) \/ DropSession(s) \/ ConfirmStart(s)
  \/ EndSession(s) \/ CloseChannel(s) \/ CloseConnection(s)

ReaderStep(r) ==
  ReaderGets(r) \/ ReaderAcks(r) \/ ReaderSends(r) \/ ReaderPanics(r) \/ ReaderEnds(r)

InjectorStep(r) ==
  Take(r) \/ TakeNothing(r) \/ OpenRing(r) \/ OpenFails(r) \/ WriteRing(r)

SessionNext ==
  \/ \E s \in Services :
       \/ Accept(s) /\ UNCHANGED sessionVars
       \/ HandlerOverreads(s)
       \/ SessionHandler(s)
  \/ \E r \in Requests :
       \/ ClientSends(r) \/ ReaderOverreads(r) \/ ReaderGivesUp(r)
       \/ ReaderStep(r) \/ Simulate(r) \/ InjectorStep(r) \/ Stop(r)
       \/ (ProcEnds(r) \/ ProcQuits(r) \/ LoseRecord(r)) /\ UNCHANGED sessionVars
  \/ OtherCrash
  \/ Restart /\ UNCHANGED sessionVars

\* Goroutines that can run do run, and a select does not pass over a ready
\* branch for ever, but no fault of Server has to happen; a model process under
\* the timer probe ends.
SessionFairness ==
  /\ \A s \in Services : WF_allVars(SessionHandler(s) /\ faults' = faults)
  /\ \A r \in Requests :
       /\ WF_allVars(ReaderStep(r)) /\ WF_allVars(Simulate(r) /\ faults' = faults)
       /\ WF_allVars(InjectorStep(r)) /\ SF_allVars(Stop(r))
       /\ WF_allVars(ProcEnds(r) /\ UNCHANGED sessionVars)
  /\ WF_allVars(Restart /\ UNCHANGED sessionVars)

SessionSpec == SessionInit /\ [][SessionNext]_allVars /\ SessionFairness
----------------------------------------------------------------------------
(***************************************************************************)
(* Properties                                                              *)
(***************************************************************************)
\* What has come through the channel or is still in it.
Queue(r) == taken[r] \o ch[r]
Holds(r) == rd[r] \in {"ack", "send"}

\* The places a perturbation can be in once it is taken from the channel.
Hands(r, k) == IF inj[r] \in {"open", "write"} /\ item[r] = k THEN {"injector"} ELSE {}
Trash(r, k) == IF k \in failed[r] THEN {"failed"} ELSE {}
Rings(r, k) == {q \in Requests : \E i \in DOMAIN ring[q] :
                                   ring[q][i] = [req |-> r, no |-> k]}

\* Perturbations reach the injector in the order they were sent, without a
\* gap; one that was taken from the channel is in the injector's hands, has
\* failed, or was written to one ring, once.
InjectedOnceInOrder ==
  /\ \A r \in Requests :
       /\ \A i \in DOMAIN Queue(r) : Queue(r)[i] = i
       /\ crashes = 0 => got[r] = Len(Queue(r)) + (IF Holds(r) THEN 1 ELSE 0)
       /\ \A k \in 1 .. Len(taken[r]) : crashes = 0 =>
            Cardinality(Hands(r, k)) + Cardinality(Trash(r, k))
              + Cardinality(Rings(r, k)) = 1
  /\ \A q \in Requests : IsInjective(ring[q])

\* A perturbation may be written to the ring of another simulation, since the
\* injector program opens it by path; but only to that of a later one, when
\* everything its own simulation had pinned is gone.
StrayOnlyAfterCleanup ==
  \A q \in Requests : \A i \in DOMAIN ring[q] :
    LET r == ring[q][i].req
    IN r # q => r < q /\ phase[r] \in {"unpin", "gone"} /\ npins[r] = 0

\* Of the panics the one of a reader, a send on a channel the handler has
\* closed (server.go:342, 437), happens only over a client that had a
\* perturbation on its way when its simulation was over.
SurvivesPunctualClients ==
  \A r \in panicked : r \in done /\ Len(Queue(r)) < sent[r]

\* A client that waits for its answers loses no perturbation to getData, unless
\* it took the last message of the session for an answer; and the first it
\* hears is that its simulation has started.
PatientClientsAreRead ==
  \A r \in Requests \ piped :
    /\ rd[r] = "overread" => Ended(r)
    /\ Messages(r) > 0 => r \in started

\* When the connection of a session is closed, its goroutines end.
GoroutinesEnd ==
  \A r \in Requests :
    rd[r] # "none" /\ ~Open(r) ~> rd[r] = "gone" /\ inj[r] \in {"none", "gone"}

\* getData has read beyond the first message and waits for more.
Overreading == \E s \in Services : hpc[s] = "read" /\ rd[conn[s]] = "overread"

\* A session ends, unless one, be it another that holds the lock, hangs for
\* ever: in getData, or in a monitor that misses a record (simulator.go:818).
SessionsEnd ==
  \A s \in Services : conn[s] # 0 ~> (conn[s] = 0 \/ [](Hung \/ Overreading))
==============================================================================
