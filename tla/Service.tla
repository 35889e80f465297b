------------------------------- MODULE Service -------------------------------
(***************************************************************************)
(* What the server promises, without its goroutines, pins and processes.   *)
(*                                                                         *)
(* Requests are served one at a time and each is answered once.  A         *)
(* simulation drives the model executable through the uprobes it attaches  *)
(* while its request is served; it may let go of the executable later,     *)
(* when its request has been answered and other requests are served, but   *)
(* no other one attaches before that.  A simulation that is served may get *)
(* stuck: until it recovers, which nothing makes it do, nobody is served.  *)
(***************************************************************************)
EXTENDS Integers

CONSTANTS
  Requests,  \* the requests, in the order they come
  Answers    \* what a client may be answered, "dropped" among them

VARIABLES
  came,      \* requests that have come
  serving,   \* the request being served, in a set
  answer,    \* the answer of each request, "none" before
  driving,   \* the simulation attached to the executable, in a set
  stuck      \* simulations that do not end by themselves

vars == <<came, serving, answer, driving, stuck>>

Init ==
  /\ came = {} /\ serving = {} /\ driving = {} /\ stuck = {}
  /\ answer = [r \in Requests |-> "none"]

Come ==
  /\ \E r \in Requests \ came : came' = came \cup {r}
  /\ UNCHANGED <<serving, answer, driving, stuck>>

Begin ==
  /\ serving = {}
  /\ \E r \in came : answer[r] = "none" /\ serving' = {r}
  /\ UNCHANGED <<came, answer, driving, stuck>>

Attach ==
  /\ driving = {}
  /\ \E r \in serving : answer[r] = "none" /\ driving' = {r}
  /\ UNCHANGED <<came, serving, answer, stuck>>

Answer ==
  /\ \E r \in serving \ stuck, a \in Answers :
       answer[r] = "none" /\ answer' = [answer EXCEPT ![r] = a]
  /\ UNCHANGED <<came, serving, driving, stuck>>

Release ==
  /\ serving # {} /\ \A r \in serving : answer[r] # "none"
  /\ serving' = {}
  /\ UNCHANGED <<came, answer, driving, stuck>>

Detach ==
  /\ driving # {}
  /\ driving' = {}
  /\ UNCHANGED <<came, serving, answer, stuck>>

Hang ==
  /\ \E r \in serving : answer[r] = "none" /\ stuck' = stuck \cup {r}
  /\ UNCHANGED <<came, serving, answer, driving>>

Recover ==
  /\ \E r \in stuck : stuck' = stuck \ {r}
  /\ UNCHANGED <<came, serving, answer, driving>>

\* The server goes down: its clients are disconnected.
Drop ==
  /\ serving' = {} /\ driving' = {} /\ stuck' = {}
  /\ answer' = [r \in Requests |-> IF r \in came /\ answer[r] = "none"
                                   THEN "dropped" ELSE answer[r]]
  /\ UNCHANGED came

Next == Come \/ Begin \/ Attach \/ Answer \/ Release \/ Detach \/ Hang \/ Recover \/ Drop

\* What is not stuck goes on.
Fairness ==
  /\ WF_vars(Begin) /\ WF_vars(Answer /\ stuck = {})
  /\ WF_vars(Release) /\ WF_vars(Detach /\ stuck = {})

Spec == Init /\ [][Next]_vars /\ Fairness
==============================================================================
