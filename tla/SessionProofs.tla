--------------------------- MODULE SessionProofs ----------------------------
(***************************************************************************)
(* Sessions are runs of the server of module Server; and what the          *)
(* injectors and the network readers that outlive a simulation can do to   *)
(* others.                                                                 *)
(***************************************************************************)
EXTENDS Session, ServiceProofs, SequenceTheorems, FiniteSetTheorems

(***************************************************************************)
(* The ring buffers: who has one pinned has every map pinned, and serves   *)
(* the service it is pinned for.                                           *)
(***************************************************************************)
RbInv ==
  Up => \A b \in Perturbations : rb_pins[b] # 0 =>
    svc[rb_pins[b]] = b /\ npins[rb_pins[b]] = NofSignals

GoneInv == \A r \in Requests : phase[r] = "gone" => npins[r] = 0

(***************************************************************************)
(* A service accepts one request after the other.                          *)
(***************************************************************************)
InTurn ==
  /\ \A r \in Requests : r > accepted => svc[r] = "none"
  /\ \A s \in Services : Serving(s) =>
       svc[conn[s]] = s /\ \A q \in Requests : svc[q] = s => q <= conn[s]

(***************************************************************************)
(* The injectors: one that was started belongs to a simulation that has    *)
(* pinned its ring, and finds no ring of an earlier one of its service.    *)
(***************************************************************************)
AfterRing == {"monitor", "finish", "unpin_rb", "cancel", "detach", "unpin", "gone"}

InjectorInv ==
  \A r \in Requests : inj[r] # "none" =>
    /\ svc[r] \in Perturbations
    /\ phase[r] \in AfterRing
    /\ phase[r] \in AfterRing \ {"unpin", "gone"} => npins[r] = NofSignals
    /\ \A q \in Requests : q < r /\ svc[q] = svc[r] => rb_pins[svc[r]] # q
    /\ ~Up => inj[r] = "gone"

CleanedUp(r) == phase[r] \in {"unpin", "gone"} /\ npins[r] = 0
MayReach(r, q) == r # q => r < q /\ CleanedUp(r)

TargetInv == \A r \in Requests : inj[r] = "write" => target[r] \in Requests /\ MayReach(r, target[r])

RingInv ==
  \A q \in Requests : \A i \in DOMAIN ring[q] :
    ring[q][i].req \in Requests /\ MayReach(ring[q][i].req, q)

StrayInv == RbInv /\ GoneInv /\ InTurn /\ InjectorInv /\ TargetInv /\ RingInv

(***************************************************************************)
(* The readers: what they hold is yet to go through the channel, which is  *)
(* closed when the simulation is over.                                     *)
(***************************************************************************)
ReaderInv ==
  /\ \A r \in Requests : got[r] <= sent[r]
  /\ \A r \in Requests : Holds(r) => got[r] = Len(taken[r]) + Len(ch[r]) + 1
  /\ \A r \in Requests : rd[r] \in {"none", "read"} => got[r] = Len(taken[r]) + Len(ch[r])

UnlocksWhenDone ==
  \A s \in Services : hpc[s] = "unlock" /\ phase[conn[s]] # "none" => conn[s] \in done

ClosedWhenDone == closed \subseteq done

\* The reader that brought the server down left a perturbation behind.
LeftBehind(r) == rd[r] = "gone" /\ Len(taken[r]) + Len(ch[r]) < sent[r]

PanicInv == \A r \in panicked : r \in done /\ LeftBehind(r)
----------------------------------------------------------------------------
LEMMA SessionStepIsStep == [SessionNext]_allVars => [Next]_vars
BY DEF SessionNext, SessionHandler, HandlerOverreads, StartSession, DropSession, ConfirmStart,
   EndSession, CloseChannel, CloseConnection, ClientSends, ReaderOverreads, ReaderGivesUp, ReaderStep,
   ReaderGets, ReaderAcks, ReaderSends, ReaderPanics, CrashSessions, ReaderEnds, Simulate, InjectorStep, Take,
   TakeNothing, OpenRing, OpenFails, WriteRing, Stop, OtherCrash, allVars, Next, HandlerStep

\* A session is a run of the server, whose theorems hold in it.
THEOREM SessionsAreServed == SessionSpec => Init /\ [][Next]_vars /\ []Inv
<1>1. Init /\ [][Next]_vars => []Inv
  BY InitInv, InvStep, PTL
<1> QED BY <1>1, SessionStepIsStep, PTL DEF SessionSpec, SessionInit
----------------------------------------------------------------------------
(***************************************************************************)
(* Types.                                                                  *)
(***************************************************************************)
Records == [req : Requests, no : Perts]

LEMMA SessionTypes ==
  ASSUME SessionTypeOK
  PROVE  /\ DOMAIN sent = Requests /\ DOMAIN got = Requests /\ DOMAIN rd = Requests
         /\ DOMAIN ch = Requests /\ DOMAIN inj = Requests /\ DOMAIN item = Requests
         /\ DOMAIN target = Requests /\ DOMAIN taken = Requests /\ DOMAIN failed = Requests
         /\ DOMAIN ring = Requests /\ MaxPerts \in Nat
         /\ \A r \in Requests : /\ ch[r] \in Seq(Perts) /\ taken[r] \in Seq(Perts)
                                /\ Len(ch[r]) \in Nat /\ Len(taken[r]) \in Nat
                                /\ ring[r] \in Seq(Records)
                                /\ sent[r] \in Nat /\ got[r] \in Nat
                                /\ item[r] \in 0 .. MaxPerts /\ sent[r] <= MaxPerts
<1>1. /\ DOMAIN sent = Requests /\ DOMAIN got = Requests /\ DOMAIN rd = Requests
      /\ DOMAIN ch = Requests /\ DOMAIN inj = Requests /\ DOMAIN item = Requests
      /\ DOMAIN target = Requests /\ DOMAIN taken = Requests /\ DOMAIN failed = Requests
      /\ DOMAIN ring = Requests
  BY DEF SessionTypeOK
<1>2. MaxPerts \in Nat
  BY SessionAssumption
<1>3. ASSUME NEW r \in Requests
      PROVE  /\ ch[r] \in Seq(Perts) /\ taken[r] \in Seq(Perts) /\ ring[r] \in Seq(Records)
             /\ sent[r] \in 0 .. MaxPerts /\ got[r] \in 0 .. MaxPerts /\ item[r] \in 0 .. MaxPerts
  BY DEF SessionTypeOK, Records
<1>4. \A r \in Requests : Len(ch[r]) \in Nat /\ Len(taken[r]) \in Nat
  BY <1>3
<1>5. \A r \in Requests : sent[r] \in Nat /\ got[r] \in Nat /\ sent[r] <= MaxPerts
  BY <1>2, <1>3
<1> QED BY <1>1, <1>2, <1>3, <1>4, <1>5

LEMMA InitSessionTypes == SessionInit => SessionTypeOK /\ ReaderInv
<1> SUFFICES ASSUME SessionInit PROVE SessionTypeOK /\ ReaderInv
  OBVIOUS
<1>1. 0 \in 0 .. MaxPerts /\ 0 \in 0 .. MaxRequests
  BY SessionAssumption, ConstFacts
<1>2. SessionTypeOK
  BY <1>1 DEF SessionInit, SessionTypeOK
<1>3. ReaderInv
  BY DEF SessionInit, ReaderInv, Holds
<1> QED BY <1>2, <1>3

LEMMA HandlerKeepsSessionTypes ==
  ASSUME SessionTypeOK, UNCHANGED <<clientVars, got, ch, injectorVars, panicked>>,
         NEW r \in Requests, NEW p \in {"read", "overread", "gone", "send"},
         rd' \in {rd, [rd EXCEPT ![r] = p]}, started' \in {started, started \cup {r}},
         closed' \in {closed, closed \cup {r}}
  PROVE  SessionTypeOK'
BY DEF SessionTypeOK, clientVars, injectorVars

LEMMA CrashKeepsSessionTypes ==
  ASSUME SessionTypeOK, CrashSessions, panicked' \subseteq Requests
  PROVE  SessionTypeOK'
<1>1. /\ rd' \in [Requests -> {"none", "read", "ack", "send", "overread", "gone"}]
      /\ inj' \in [Requests -> {"none", "select", "open", "write", "gone"}]
  BY DEF CrashSessions
<1> QED BY <1>1 DEF CrashSessions, SessionTypeOK, clientVars

LEMMA ReaderKeepsSessionTypes ==
  ASSUME SessionTypeOK, ReaderInv, NEW r \in Requests, ReaderStep(r)
  PROVE  SessionTypeOK'
<1> USE SessionTypes DEF Read
<1>1. CASE ReaderGets(r)
  <2>1. got' \in [Requests -> 0 .. MaxPerts] /\ rd' = [rd EXCEPT ![r] = "ack"]
    <3>1. got[r] + 1 \in 0 .. MaxPerts
      BY <1>1 DEF ReaderGets
    <3>2. got \in [Requests -> 0 .. MaxPerts]
      BY DEF SessionTypeOK
    <3> QED BY <1>1, <3>1, <3>2 DEF ReaderGets
  <2>2. rd' \in [Requests -> {"none", "read", "ack", "send", "overread", "gone"}]
    BY <2>1 DEF SessionTypeOK
  <2>3. UNCHANGED <<sent, piped, started, closed, ch, inj, item, target, taken, failed, ring, panicked>>
    BY <1>1 DEF ReaderGets, clientVars, injectorVars
  <2> QED BY <2>1, <2>2, <2>3 DEF SessionTypeOK
<1>2. CASE ReaderAcks(r)
  BY <1>2, HandlerKeepsSessionTypes DEF ReaderAcks
<1>3. CASE ReaderSends(r)
  <2>1. got[r] \in Perts
    BY <1>3 DEF ReaderSends, ReaderInv, Holds, Perts, SessionTypeOK
  <2>2. Append(ch[r], got[r]) \in Seq(Perts)
    BY <2>1
  <2>3. ch' \in [Requests -> Seq(Perts)] /\ rd' = [rd EXCEPT ![r] = "read"]
    BY <1>3, <2>2 DEF ReaderSends, SessionTypeOK
  <2>4. rd' \in [Requests -> {"none", "read", "ack", "send", "overread", "gone"}]
    BY <2>3 DEF SessionTypeOK
  <2>5. UNCHANGED <<sent, piped, got, started, closed, inj, item, target, taken, failed, ring, panicked>>
    BY <1>3 DEF ReaderSends, clientVars, injectorVars
  <2> QED BY <2>3, <2>4, <2>5 DEF SessionTypeOK
<1>4. CASE ReaderPanics(r)
  <2>1. CrashSessions /\ panicked' \subseteq Requests
    BY <1>4 DEF ReaderPanics, SessionTypeOK
  <2> QED BY <2>1, CrashKeepsSessionTypes
<1>5. CASE ReaderEnds(r)
  BY <1>5, HandlerKeepsSessionTypes DEF ReaderEnds
<1> QED BY <1>1, <1>2, <1>3, <1>4, <1>5 DEF ReaderStep

LEMMA InjectorKeepsSessionTypes ==
  ASSUME SessionTypeOK, TypeOK, NEW r \in Requests, InjectorStep(r) \/ Stop(r) \/ Simulate(r),
         inj[r] = "write" => target[r] \in Requests,
         inj[r] # "none" => svc[r] \in Perturbations
  PROVE  SessionTypeOK'
<1> USE SessionTypes DEF InjectorAt
<1>z. 0 \in 0 .. MaxPerts /\ 0 \in 0 .. MaxRequests
  BY SessionAssumption, ConstFacts
<1>i. inj' \in [Requests -> {"none", "select", "open", "write", "gone"}]
  BY DEF InjectorStep, Take, TakeNothing, OpenRing, OpenFails, WriteRing, Stop, Simulate, SessionTypeOK
<1>1. CASE Take(r)
  <2>1. Head(ch[r]) \in Perts /\ Tail(ch[r]) \in Seq(Perts) /\ Perts \subseteq 0 .. MaxPerts
    BY <1>1 DEF Take, Perts
  <2>2. Append(taken[r], Head(ch[r])) \in Seq(Perts)
    BY <2>1
  <2>3. /\ item' \in [Requests -> 0 .. MaxPerts] /\ ch' \in [Requests -> Seq(Perts)]
        /\ taken' \in [Requests -> Seq(Perts)]
    BY <1>1, <2>1, <2>2 DEF Take, SessionTypeOK
  <2> QED BY <1>1, <1>i, <2>3 DEF Take, SessionTypeOK, clientVars
<1>2. CASE TakeNothing(r) \/ Stop(r) \/ Simulate(r)
  <2>1. UNCHANGED <<clientVars, readerVars, item, target, taken, failed, ring, panicked>>
    BY <1>2 DEF TakeNothing, Stop, Simulate
  <2> QED BY <2>1, <1>i DEF SessionTypeOK, clientVars, readerVars
<1>3. CASE OpenRing(r)
  <2>1. rb_pins[svc[r]] \in 0 .. MaxRequests
    BY <1>3 DEF OpenRing, TypeOK, TypeKernel
  <2>2. target' \in [Requests -> 0 .. MaxRequests]
    BY <1>3, <2>1 DEF OpenRing, SessionTypeOK
  <2> QED BY <1>3, <1>i, <2>2 DEF OpenRing, SessionTypeOK, clientVars, readerVars
<1>4. CASE OpenFails(r)
  <2>1. failed[r] \cup ({item[r]} \ {0}) \in SUBSET Perts
    BY DEF SessionTypeOK, Perts
  <2>2. failed' \in [Requests -> SUBSET Perts]
    BY <1>4, <2>1 DEF OpenFails, SessionTypeOK
  <2>3. item' \in [Requests -> 0 .. MaxPerts]
    <3>1. item \in [Requests -> 0 .. MaxPerts]
      BY DEF SessionTypeOK
    <3> QED BY <1>4, <1>z, <3>1 DEF OpenFails
  <2> QED BY <1>4, <1>i, <2>2, <2>3 DEF OpenFails, SessionTypeOK, clientVars, readerVars
<1>5. CASE WriteRing(r)
  <2>1. item' \in [Requests -> 0 .. MaxPerts] /\ target' \in [Requests -> 0 .. MaxRequests]
    <3>1. item \in [Requests -> 0 .. MaxPerts] /\ target \in [Requests -> 0 .. MaxRequests]
      BY DEF SessionTypeOK
    <3> QED BY <1>5, <1>z, <3>1 DEF WriteRing
  <2>2. ring' \in [Requests -> Seq(Records)]
    <3>1. CASE item[r] = 0
      <4>1. ring' = ring
        BY <1>5, <3>1 DEF WriteRing
      <4> QED BY <4>1 DEF SessionTypeOK, Records
    <3>2. CASE item[r] # 0
      <4>1. [req |-> r, no |-> item[r]] \in Records /\ target[r] \in Requests
        BY <1>5, <3>2 DEF WriteRing, SessionTypeOK, Records, Perts
      <4>2. Append(ring[target[r]], [req |-> r, no |-> item[r]]) \in Seq(Records)
        BY <4>1
      <4> QED BY <1>5, <3>2, <4>1, <4>2 DEF WriteRing, SessionTypeOK, Records
    <3> QED BY <3>1, <3>2
  <2> QED BY <1>5, <1>i, <2>1, <2>2 DEF WriteRing, SessionTypeOK, Records, clientVars, readerVars
<1> QED BY <1>1, <1>2, <1>3, <1>4, <1>5 DEF InjectorStep
----------------------------------------------------------------------------
(***************************************************************************)
(* Readers: a perturbation that is held comes on top of those that have    *)
(* gone through the channel, which is what a panic leaves behind.          *)
(***************************************************************************)
LEMMA HandlerKeepsReaders ==
  ASSUME SessionTypeOK, ReaderInv, UNCHANGED <<got, ch, taken, sent>>,
         \A q \in Requests : rd'[q] = rd[q] \/ rd'[q] \in {"overread", "gone"}
                                           \/ (rd[q] = "none" /\ rd'[q] = "read")
  PROVE  ReaderInv'
BY DEF ReaderInv, Holds

LEMMA CrashKeepsReaders ==
  ASSUME SessionTypeOK, ReaderInv, CrashSessions
  PROVE  ReaderInv'
<1>1. /\ UNCHANGED <<sent, got, ch, taken>>
      /\ \A q \in Requests : rd'[q] = IF rd[q] = "none" THEN "none" ELSE "gone"
  BY DEF CrashSessions, clientVars
<1> QED BY <1>1 DEF ReaderInv, Holds

LEMMA MovedOne == \A a, b \in Nat : \A c, d : c = a + 1 /\ d = b - 1 => c + d = a + b
OBVIOUS

LEMMA OneMore == \A a, b \in Nat : \A e : e = a + b + 1 => e = a + (b + 1)
OBVIOUS

LEMMA ReaderKeepsReaders ==
  ASSUME SessionTypeOK, ReaderInv, NEW r \in Requests, ReaderStep(r)
  PROVE  ReaderInv'
<1> USE DEF Read
<1>0. /\ DOMAIN got = Requests /\ DOMAIN rd = Requests /\ DOMAIN ch = Requests
      /\ \A q \in Requests : /\ sent[q] \in Nat /\ got[q] \in Nat
                             /\ Len(ch[q]) \in Nat /\ Len(taken[q]) \in Nat
  BY SessionTypes
<1>1. CASE ReaderGets(r)
  <2>1. /\ UNCHANGED <<sent, ch, taken>> /\ rd[r] = "read" /\ got[r] < sent[r]
        /\ \A q \in Requests : got'[q] = IF q = r THEN got[r] + 1 ELSE got[q]
        /\ \A q \in Requests : rd'[q] = IF q = r THEN "ack" ELSE rd[q]
    BY <1>0, <1>1 DEF ReaderGets, clientVars, injectorVars
  <2>2. \A q \in Requests : got'[q] <= sent'[q]
    <3>1. got[r] + 1 <= sent[r]
      BY <1>0, <2>1
    <3> QED BY <2>1, <3>1 DEF ReaderInv
  <2>3. ASSUME NEW q \in Requests
        PROVE  /\ Holds(q)' => got'[q] = Len(taken'[q]) + Len(ch'[q]) + 1
               /\ rd'[q] \in {"none", "read"} => got'[q] = Len(taken'[q]) + Len(ch'[q])
    <3>1. CASE q = r
      BY <2>1, <3>1 DEF ReaderInv, Holds
    <3>2. CASE q # r
      BY <2>1, <3>2 DEF ReaderInv, Holds
    <3> QED BY <3>1, <3>2
  <2> QED BY <2>2, <2>3 DEF ReaderInv
<1>2. CASE ReaderAcks(r)
  <2>1. /\ UNCHANGED <<sent, got, ch, taken>> /\ rd[r] = "ack"
        /\ \A q \in Requests : rd'[q] = IF q = r THEN "send" ELSE rd[q]
    BY <1>0, <1>2 DEF ReaderAcks, clientVars, injectorVars
  <2> QED BY <2>1 DEF ReaderInv, Holds
<1>3. CASE ReaderSends(r)
  <2>1. /\ UNCHANGED <<sent, got, taken>> /\ rd[r] = "send"
        /\ \A q \in Requests : rd'[q] = IF q = r THEN "read" ELSE rd[q]
        /\ \A q \in Requests : ch'[q] = IF q = r THEN Append(ch[r], got[r]) ELSE ch[q]
    BY <1>0, <1>3 DEF ReaderSends, clientVars, injectorVars
  <2>2. Len(ch'[r]) = Len(ch[r]) + 1
    <3>1. ch[r] \in Seq(Perts) /\ got[r] \in Nat
      BY SessionTypes
    <3>2. got[r] \in Perts
      BY <2>1, SessionAssumption DEF ReaderInv, Holds, SessionTypeOK, Perts
    <3>3. Len(Append(ch[r], got[r])) = Len(ch[r]) + 1
      BY <3>1, <3>2, AppendProperties
    <3> QED BY <2>1, <3>3
  <2>3. \A q \in Requests : Len(ch'[q]) = IF q = r THEN Len(ch[r]) + 1 ELSE Len(ch[q])
    BY <2>1, <2>2
  <2>4. got[r] = Len(taken[r]) + Len(ch[r]) + 1
    BY <2>1 DEF ReaderInv, Holds
  <2>5. \A q \in Requests : got'[q] <= sent'[q]
    BY <2>1 DEF ReaderInv
  <2>6. ASSUME NEW q \in Requests
        PROVE  /\ Holds(q)' => got'[q] = Len(taken'[q]) + Len(ch'[q]) + 1
               /\ rd'[q] \in {"none", "read"} => got'[q] = Len(taken'[q]) + Len(ch'[q])
    <3>1. CASE q = r
      <4>0. Len(taken[r]) \in Nat /\ Len(ch[r]) \in Nat
        BY <1>0
      <4>1. got[r] = Len(taken[r]) + (Len(ch[r]) + 1)
        BY <2>4, <4>0, OneMore, Zenon
      <4> QED BY <2>1, <2>2, <3>1, <4>1 DEF Holds
    <3>2. CASE q # r
      BY <2>1, <3>2 DEF ReaderInv, Holds
    <3> QED BY <3>1, <3>2
  <2> QED BY <2>5, <2>6 DEF ReaderInv
<1>4. CASE ReaderPanics(r)
  BY <1>4, CrashKeepsReaders DEF ReaderPanics
<1>5. CASE ReaderEnds(r)
  BY <1>5, HandlerKeepsReaders DEF ReaderEnds, clientVars, injectorVars
<1> QED BY <1>1, <1>2, <1>3, <1>4, <1>5 DEF ReaderStep

LEMMA InjectorKeepsReaders ==
  ASSUME SessionTypeOK, ReaderInv, NEW r \in Requests, InjectorStep(r) \/ Stop(r) \/ Simulate(r)
  PROVE  /\ ReaderInv' /\ UNCHANGED <<rd, sent>>
         /\ \A q \in Requests : Len(taken'[q]) + Len(ch'[q]) = Len(taken[q]) + Len(ch[q])
<1>1. CASE Take(r)
  <2>1. /\ UNCHANGED <<sent, got, rd>> /\ ch[r] # <<>>
        /\ \A q \in Requests : ch'[q] = IF q = r THEN Tail(ch[r]) ELSE ch[q]
        /\ \A q \in Requests : taken'[q] = IF q = r THEN Append(taken[r], Head(ch[r])) ELSE taken[q]
    BY <1>1, SessionTypes DEF Take, clientVars
  <2>2. /\ ch[r] \in Seq(Perts) /\ taken[r] \in Seq(Perts)
        /\ \A q \in Requests : Len(ch[q]) \in Nat /\ Len(taken[q]) \in Nat
    BY SessionTypes
  <2>3. Len(ch'[r]) = Len(ch[r]) - 1
    <3>1. Len(Tail(ch[r])) = Len(ch[r]) - 1
      BY <2>1, <2>2, HeadTailProperties
    <3> QED BY <2>1, <3>1
  <2>4. Len(taken'[r]) = Len(taken[r]) + 1
    <3>1. Head(ch[r]) \in Perts
      BY <2>1, <2>2, HeadTailProperties
    <3>2. Len(Append(taken[r], Head(ch[r]))) = Len(taken[r]) + 1
      BY <2>2, <3>1, AppendProperties
    <3> QED BY <2>1, <3>2
  <2>5. \A q \in Requests : Len(taken'[q]) + Len(ch'[q]) = Len(taken[q]) + Len(ch[q])
    <3>0. Len(taken[r]) \in Nat /\ Len(ch[r]) \in Nat
      BY <2>2
    <3>a. \A c, d : c = Len(taken[r]) + 1 /\ d = Len(ch[r]) - 1
                      => c + d = Len(taken[r]) + Len(ch[r])
      BY <3>0, MovedOne, Zenon
    <3>1. Len(taken'[r]) + Len(ch'[r]) = Len(taken[r]) + Len(ch[r])
      BY <2>3, <2>4, <3>a
    <3>2. \A q \in Requests : q # r => taken'[q] = taken[q] /\ ch'[q] = ch[q]
      BY <2>1
    <3> QED BY <3>1, <3>2
  <2> QED BY <2>1, <2>2, <2>5 DEF ReaderInv, Holds
<1>2. CASE ~Take(r)
  <2>1. UNCHANGED <<sent, got, rd, ch, taken>>
    BY <1>2 DEF InjectorStep, TakeNothing, OpenRing, OpenFails, WriteRing, Stop, Simulate,
       clientVars, readerVars
  <2> QED BY <2>1 DEF ReaderInv, Holds
<1> QED BY <1>1, <1>2
----------------------------------------------------------------------------
(***************************************************************************)
(* The server's side of the injectors: rings, and the requests of a        *)
(* service.                                                                *)
(***************************************************************************)
LEMMA StartPastRing ==
  ASSUME Inv, NEW r \in Requests, StartStep(r)
  PROVE  /\ \A q \in Requests : q # r => phase'[q] = phase[q] /\ npins'[q] = npins[q]
         /\ phase[r] # "gone"
         /\ phase[r] \in AfterRing => phase'[r] \in AfterRing
         /\ phase[r] \in AfterRing \ {"unpin"} => npins'[r] = npins[r]
         /\ phase[r] = "unpin" => phase'[r] \in {"unpin", "gone"}
         /\ phase[r] = "unpin" /\ npins[r] = 0 => npins'[r] = 0
         /\ phase'[r] = "gone" => npins'[r] = 0
<1> USE PinTypes DEF Inv, Goto, At, AfterRing
<1>1. CASE Unpin(r)
  BY <1>1 DEF Unpin
<1>2. CASE Fill(r)
  BY <1>2 DEF Fill
<1>3. CASE ~Unpin(r) /\ ~Fill(r)
  <2>1. npins' = npins /\ phase[r] \notin {"unpin", "gone"} /\ phase'[r] # "gone"
    BY <1>3 DEF StartStep, Load, LoadFails, Pin, PinFails, FillFails, Link, LinkFails, Launch,
       AfterLaunch, LaunchFails, Wait, Harvest, HarvestFails, PinRb, PinRbFails, MonitorEnds,
       MonitorFails, Finish, UnpinRb, Cancel, Detach, Fail, Done, FirstCleanup
  <2>2. \A q \in Requests : q # r => phase'[q] = phase[q]
    BY <1>3 DEF StartStep, Load, LoadFails, Pin, PinFails, FillFails, Link, LinkFails, Launch,
       AfterLaunch, LaunchFails, Wait, Harvest, HarvestFails, PinRb, PinRbFails, MonitorEnds,
       MonitorFails, Finish, UnpinRb, Cancel, Detach, Fail, Done, FirstCleanup
  <2>3. phase[r] \in AfterRing => phase'[r] \in AfterRing
    BY <1>3 DEF StartStep, Load, LoadFails, Pin, PinFails, FillFails, Link, LinkFails, Launch,
       LaunchFails, Wait, Harvest, HarvestFails, PinRb, PinRbFails, MonitorEnds,
       MonitorFails, Finish, UnpinRb, Cancel, Detach, Fail, Done, FirstCleanup
  <2> QED BY <2>1, <2>2, <2>3
<1> QED BY <1>1, <1>2, <1>3

\* A simulation past PinRb keeps its service and its pins until it unpins them.
LEMMA PastRing ==
  ASSUME Inv, GoneInv, [Next]_vars, NEW r \in Requests, phase[r] \in AfterRing
  PROVE  /\ svc'[r] = svc[r] /\ phase'[r] \in AfterRing
         /\ CleanedUp(r) => CleanedUp(r)'
         /\ phase'[r] \in AfterRing \ {"unpin", "gone"} =>
              npins'[r] = npins[r] /\ phase[r] \in AfterRing \ {"unpin", "gone"}
<1> USE DEF CleanedUp
<1>0. phase[r] # "none" /\ r \in 1 .. accepted
  BY HandlerTypes DEF AfterRing, Inv, HandlerInv, FreshRequests
<1>1. ASSUME NEW s \in Services, Accept(s)
      PROVE  svc'[r] = svc[r] /\ phase' = phase /\ npins' = npins
  BY <1>0, <1>1, HandlerTypes DEF Accept, startVars, Inv
<1>2. ASSUME NEW s \in Services, HandlerStep(s)
      PROVE  svc' = svc /\ phase'[r] = phase[r] /\ npins' = npins
  <2>1. CASE ReadRequest(s)
    BY <1>0, <2>1, ServedAreRequests DEF ReadRequest, Inv, HandlerInv, FreshRequests
  <2>2. CASE ~ReadRequest(s)
    BY <1>2, <2>2 DEF HandlerStep, Lock, ReadFails, Reply, Unlock, startVars
  <2> QED BY <2>1, <2>2
<1>3. ASSUME NEW q \in Requests, StartStep(q) PROVE svc' = svc
  BY <1>3, StartShape DEF Inv, handlerVars
<1>4. CASE \E q \in Requests : StartStep(q)
  <2>1. PICK q \in Requests : StartStep(q)
    BY <1>4
  <2>2. CASE q = r
    BY <1>3, <2>1, <2>2, StartPastRing DEF AfterRing
  <2>3. CASE q # r
    BY <1>3, <2>1, <2>3, StartPastRing DEF AfterRing
  <2> QED BY <2>2, <2>3
<1>5. CASE Crash
  <2>1. svc' = svc /\ phase'[r] = "gone" /\ npins'[r] = 0
    BY <1>0, <1>5 DEF Crash, Alive
  <2> QED BY <2>1 DEF AfterRing
<1>6. CASE Restart \/ (\E q \in Requests : ProcEnds(q) \/ ProcQuits(q) \/ LoseRecord(q)) \/ UNCHANGED vars
  BY <1>6 DEF Restart, ProcEnds, ProcQuits, LoseRecord, vars, startVars, handlerVars
<1> QED BY <1>1, <1>2, <1>4, <1>5, <1>6 DEF Next

LEMMA GoneInvStep ==
  ASSUME Inv, GoneInv, [Next]_vars
  PROVE  GoneInv'
<1> USE DEF GoneInv
<1>1. ASSUME NEW s \in Services, Accept(s) \/ HandlerStep(s)
      PROVE  npins' = npins /\ \A q \in Requests : phase'[q] = "gone" => phase[q] = "gone"
  BY <1>1, PinTypes DEF Inv, Accept, HandlerStep, Lock, ReadRequest, ReadFails, Reply, Unlock, startVars
<1>2. ASSUME NEW q \in Requests, StartStep(q) PROVE GoneInv'
  BY <1>2, StartPastRing
<1>3. CASE Crash
  BY <1>3 DEF Crash
<1>4. CASE Restart \/ (\E q \in Requests : ProcEnds(q) \/ ProcQuits(q) \/ LoseRecord(q)) \/ UNCHANGED vars
  BY <1>4 DEF Restart, ProcEnds, ProcQuits, LoseRecord, vars, startVars
<1> QED BY <1>1, <1>2, <1>3, <1>4 DEF Next

\* The requests of a service are served in the order they are accepted.
LEMMA InTurnStep ==
  ASSUME Inv, InTurn, [Next]_vars
  PROVE  InTurn'
<1> USE HandlerTypes DEF Inv, Serving
<1>t. DOMAIN svc = Requests /\ \A q \in Requests : q \in Nat
  BY DEF TypeOK, TypeHandlers
<1>1. ASSUME NEW s \in Services, Accept(s) PROVE InTurn'
  <2>1. /\ accepted + 1 \in Requests /\ accepted' = accepted + 1
        /\ \A q \in Requests : svc'[q] = IF q = accepted + 1 THEN s ELSE svc[q]
        /\ \A t \in Services : hpc'[t] = IF t = s THEN "lock" ELSE hpc[t]
        /\ \A t \in Services : conn'[t] = IF t = s THEN accepted + 1 ELSE conn[t]
    BY <1>1, <1>t DEF Accept
  <2>2. \A q \in Requests : q > accepted' => svc'[q] = "none"
    BY <1>t, <2>1 DEF InTurn
  <2>3. ASSUME NEW t \in Services, Serving(t)'
        PROVE  svc'[conn'[t]] = t /\ \A q \in Requests : svc'[q] = t => q <= conn'[t]
    <3>1. CASE t = s
      <4>1. \A q \in Requests : svc'[q] = s => q <= accepted + 1
        <5>1. "none" \notin Services
          BY ConstFacts
        <5> QED BY <1>t, <2>1, <5>1 DEF InTurn
      <4> QED BY <2>1, <3>1, <4>1
    <3>2. CASE t # s
      <4>1. conn[t] \in Requests /\ conn[t] # accepted + 1
        BY <1>t, <2>1, <2>3, <3>2, ServedAreRequests
      <4> QED BY <1>t, <2>1, <2>3, <3>2, <4>1 DEF InTurn
    <3> QED BY <3>1, <3>2
  <2> QED BY <2>2, <2>3 DEF InTurn
<1>2. ASSUME NEW s \in Services, HandlerStep(s) PROVE InTurn'
  <2>1. /\ UNCHANGED <<svc, accepted>>
        /\ \A t \in Services : Serving(t)' => Serving(t) /\ conn'[t] = conn[t]
    BY <1>2 DEF HandlerStep, Lock, ReadRequest, ReadFails, Reply, Unlock
  <2> QED BY <2>1 DEF InTurn
<1>3. ASSUME NEW q \in Requests, StartStep(q) PROVE UNCHANGED handlerVars
  BY <1>3, StartShape
<1>4. CASE UNCHANGED handlerVars
  BY <1>4 DEF InTurn, handlerVars
<1>5. CASE Crash
  BY <1>5 DEF Crash, InTurn
<1>6. CASE Restart \/ (\E q \in Requests : ProcEnds(q) \/ ProcQuits(q) \/ LoseRecord(q)) \/ UNCHANGED vars
  BY <1>4, <1>6 DEF Restart, ProcEnds, ProcQuits, LoseRecord, vars
<1> QED BY <1>1, <1>2, <1>3, <1>4, <1>5, <1>6 DEF Next

\* Who is at pin_rb is the last request of its service.
LEMMA PinsRbInTurn ==
  ASSUME Inv, InTurn, NEW r \in Requests, phase[r] \in Working
  PROVE  svc[r] \in Perturbations /\ \A q \in Requests : svc[q] = svc[r] => q <= r
<1>1. PICK s \in Services : conn[s] = r /\ Serving(s)
  BY DEF Inv, HandlerInv, SimulationsSerialized, Serving
<1> QED BY <1>1, SessionAssumption DEF InTurn

\* The rings change when one is pinned and when one is unpinned.
LEMMA RingsPinned ==
  ASSUME Inv, [Next]_vars, NEW b \in Perturbations, rb_pins'[b] # 0, rb_pins'[b] # rb_pins[b]
  PROVE  \E r \in Requests : PinRb(r) /\ b = svc[r] /\ rb_pins'[b] = r
<1> USE KernelTypes DEF Inv
<1>1. PICK r \in Requests : StartStep(r)
  BY DEF Next, Accept, HandlerStep, Lock, ReadRequest, ReadFails, Reply, Unlock, ProcEnds, ProcQuits, LoseRecord,
     Crash, Restart, vars, kernelVars
<1>2. CASE PinRb(r)
  BY <1>2 DEF PinRb
<1>3. CASE ~PinRb(r)
  BY <1>1, <1>3 DEF StartStep, Load, LoadFails, Pin, PinFails, Fill, FillFails, Link, LinkFails, Launch,
     LaunchFails, Wait, Harvest, HarvestFails, PinRbFails, MonitorEnds, MonitorFails, Finish,
     UnpinRb, Cancel, Detach, Unpin, kernelVars
<1> QED BY <1>2, <1>3

LEMMA RbInvStep ==
  ASSUME Inv, RbOwned, RbOwned', GoneInv, InTurn, RbInv, [Next]_vars
  PROVE  RbInv'
<1> SUFFICES ASSUME Up', NEW b \in Perturbations, rb_pins'[b] # 0
             PROVE  svc'[rb_pins'[b]] = b /\ npins'[rb_pins'[b]] = NofSignals
  BY DEF RbInv
<1> USE KernelTypes DEF Inv
<1>1. CASE rb_pins'[b] # rb_pins[b]
  <2>1. PICK r \in Requests : PinRb(r) /\ b = svc[r] /\ rb_pins'[b] = r
    BY <1>1, RingsPinned
  <2>2. npins[r] = NofSignals
    BY <2>1 DEF PinRb, At, PinInv, PinsOwned, Pinned
  <2> QED BY <2>1, <2>2 DEF PinRb, handlerVars
<1>2. CASE rb_pins'[b] = rb_pins[b]
  <2>1. Up
    <3>1. CASE Restart
      BY <1>2, <3>1 DEF Restart
    <3>2. CASE ~Restart /\ ~Up
      <4>1. crashes' = crashes
        BY <3>2, StartShape DEF Next, Accept, HandlerStep, Lock, ReadRequest, ReadFails, Reply, Unlock,
           ProcEnds, ProcQuits, LoseRecord, Crash, vars
      <4> QED BY <3>2, <4>1 DEF Up
    <3> QED BY <3>1, <3>2
  <2>2. /\ rb_pins[b] \in Requests /\ phase[rb_pins[b]] \in AfterRing
        /\ phase'[rb_pins[b]] \in AfterRing \ {"unpin", "gone"}
    BY <1>2, <2>1 DEF RbOwned, AfterRing
  <2>3. npins'[rb_pins[b]] = npins[rb_pins[b]] /\ svc'[rb_pins[b]] = svc[rb_pins[b]]
    BY <2>2, PastRing
  <2> QED BY <1>2, <2>1, <2>3 DEF RbInv
<1> QED BY <1>1, <1>2
----------------------------------------------------------------------------
(***************************************************************************)
(* The injectors.                                                          *)
(***************************************************************************)
InjectorAction(r) ==
  Take(r) \/ TakeNothing(r) \/ Stop(r) \/ OpenRing(r) \/ OpenFails(r) \/ WriteRing(r)

\* A step is one of an injector, one of Start, a crash, or leaves the injectors
\* as they are.
LEMMA SessionKinds ==
  ASSUME [SessionNext]_allVars
  PROVE  \/ \E r \in Requests : InjectorAction(r)
         \/ \E r \in Requests : Simulate(r)
         \/ CrashSessions
         \/ UNCHANGED <<inj, target, ring>> /\ (~Up => ~Up' \/ Restart) /\ (Up => Up')
<1>1. ASSUME UNCHANGED vars PROVE (~Up => ~Up') /\ (Up => Up')
  BY <1>1 DEF vars, Up
<1>2. ASSUME Restart PROVE Up => Up'
  BY <1>2 DEF Restart
<1>3. ASSUME NEW s \in Services, Accept(s) \/ HandlerStep(s) PROVE (~Up => ~Up') /\ (Up => Up')
  BY <1>3 DEF Accept, HandlerStep, Lock, ReadRequest, ReadFails, Reply, Unlock, Up
<1>4. ASSUME NEW r \in Requests, ProcEnds(r) \/ ProcQuits(r) \/ LoseRecord(r) PROVE (~Up => ~Up') /\ (Up => Up')
  BY <1>4 DEF ProcEnds, ProcQuits, LoseRecord, Up
<1>5. CASE UNCHANGED allVars
  BY <1>1, <1>5 DEF allVars, sessionVars, injectorVars
<1>6. ASSUME NEW s \in Services,
             (Accept(s) /\ UNCHANGED sessionVars) \/ HandlerOverreads(s) \/ SessionHandler(s)
      PROVE  UNCHANGED <<inj, target, ring>> /\ (~Up => ~Up') /\ (Up => Up')
  <2>1. UNCHANGED <<inj, target, ring>>
    BY <1>6 DEF HandlerOverreads, SessionHandler, StartSession, DropSession, ConfirmStart, EndSession,
       CloseChannel, CloseConnection, sessionVars, injectorVars
  <2>2. Accept(s) \/ HandlerStep(s) \/ UNCHANGED vars
    BY <1>6 DEF HandlerOverreads, SessionHandler, StartSession, DropSession, ConfirmStart, EndSession,
       CloseChannel, CloseConnection, HandlerStep
  <2> QED BY <1>1, <1>3, <2>1, <2>2
<1>7. ASSUME NEW r \in Requests,
             \/ ClientSends(r) \/ ReaderOverreads(r) \/ ReaderGivesUp(r)
             \/ ReaderGets(r) \/ ReaderAcks(r) \/ ReaderSends(r) \/ ReaderEnds(r)
             \/ (ProcEnds(r) \/ ProcQuits(r) \/ LoseRecord(r)) /\ UNCHANGED sessionVars
      PROVE  UNCHANGED <<inj, target, ring>> /\ (~Up => ~Up') /\ (Up => Up')
  BY <1>1, <1>4, <1>7 DEF ClientSends, ReaderOverreads, ReaderGivesUp, ReaderGets, ReaderAcks,
     ReaderSends, ReaderEnds, sessionVars, injectorVars
<1>8. CASE Restart /\ UNCHANGED sessionVars
  BY <1>2, <1>8 DEF sessionVars, injectorVars
<1>9. (\E r \in Requests : ReaderPanics(r)) \/ OtherCrash => CrashSessions
  BY DEF ReaderPanics, OtherCrash
<1> QED BY <1>5, <1>6, <1>7, <1>8, <1>9 DEF SessionNext, ReaderStep, InjectorStep, InjectorAction

LEMMA InjectorMoves ==
  ASSUME TypeOK, SessionTypeOK, [SessionNext]_allVars, NEW r \in Requests,
         ~Up => \A q \in Requests : inj[q] \in {"none", "gone"}
  PROVE  /\ inj'[r] # "none" => inj[r] # "none" \/ (PinRb(r) /\ Up')
         /\ inj'[r] = "write" => \/ inj[r] = "write" /\ target'[r] = target[r]
                                \/ OpenRing(r)
         /\ ~Up' => inj'[r] \in {"none", "gone"}
<1>d. DOMAIN inj = Requests /\ DOMAIN target = Requests
  BY SessionTypes
<1>1. ASSUME NEW q \in Requests, InjectorAction(q)
      PROVE  /\ inj[q] \notin {"none", "gone"}
             /\ \A p \in Requests : p # q => inj'[p] = inj[p] /\ target'[p] = target[p]
             /\ inj'[q] = "write" => OpenRing(q)
             /\ Up' = Up
  BY <1>d, <1>1 DEF Up, vars, InjectorAction, Take, TakeNothing, Stop, OpenRing, OpenFails, WriteRing, InjectorAt
<1>2. ASSUME NEW q \in Requests, Simulate(q)
      PROVE  /\ Up' /\ target' = target
             /\ \A p \in Requests : inj'[p] = inj[p] \/ (p = q /\ inj'[p] = "select")
             /\ inj'[q] # inj[q] => PinRb(q)
  <2>1. StartStep(q) /\ crashes' = crashes /\ Up
    BY <1>2 DEF Simulate, StartStep, Load, LoadFails, Pin, PinFails, Fill, FillFails, Link, LinkFails,
       Launch, LaunchFails, Wait, Harvest, HarvestFails, PinRb, PinRbFails, MonitorEnds, MonitorFails,
       Finish, UnpinRb, Cancel, Detach, Unpin, At
  <2>2. phase[q] = "pin_rb" /\ phase'[q] = "monitor" => PinRb(q)
    BY <2>1, PinTypes DEF StartStep, Load, LoadFails, Pin, PinFails, Fill, FillFails, Link, LinkFails,
       Launch, LaunchFails, Wait, Harvest, HarvestFails, PinRbFails, MonitorEnds, MonitorFails, Finish,
       UnpinRb, Cancel, Detach, Unpin, At, Goto, Fail, Done, FirstCleanup
  <2> QED BY <1>d, <1>2, <2>1, <2>2 DEF Simulate, InjectorAt, Up
<1>3. CrashSessions => \A p \in Requests : inj'[p] = IF inj[p] = "none" THEN "none" ELSE "gone"
  BY DEF CrashSessions
<1> QED BY <1>1, <1>2, <1>3, SessionKinds

LEMMA SvcKept ==
  ASSUME Inv, [Next]_vars, NEW r \in Requests, r \in 1 .. accepted
  PROVE  svc'[r] = svc[r]
<1>1. ASSUME NEW s \in Services, Accept(s) PROVE svc'[r] = svc[r]
  BY <1>1, HandlerTypes DEF Accept, Inv
<1>2. ASSUME NEW q \in Requests, StartStep(q) PROVE svc' = svc
  BY <1>2, StartShape DEF Inv, handlerVars
<1> QED BY <1>1, <1>2 DEF Next, HandlerStep, Lock, ReadRequest, ReadFails, Reply, Unlock, ProcEnds,
           ProcQuits, LoseRecord, Crash, Restart, vars, handlerVars

LEMMA InjectorInvStep ==
  ASSUME Inv, GoneInv, InTurn, SessionTypeOK, InjectorInv, [SessionNext]_allVars
  PROVE  InjectorInv'
<1> SUFFICES ASSUME NEW r \in Requests, inj'[r] # "none"
             PROVE  /\ svc'[r] \in Perturbations /\ phase'[r] \in AfterRing
                    /\ phase'[r] \in AfterRing \ {"unpin", "gone"} => npins'[r] = NofSignals
                    /\ \A q \in Requests : q < r /\ svc'[q] = svc'[r] => rb_pins'[svc'[r]] # q
                    /\ ~Up' => inj'[r] = "gone"
  BY DEF InjectorInv
<1>n. [Next]_vars
  BY SessionStepIsStep
<1>g. ~Up => \A q \in Requests : inj[q] \in {"none", "gone"}
  BY DEF InjectorInv
<1>m. /\ inj[r] # "none" \/ (PinRb(r) /\ Up')
      /\ ~Up' => inj'[r] = "gone"
  BY <1>g, InjectorMoves DEF Inv
<1>1. CASE inj[r] # "none"
  <2>1. /\ svc[r] \in Perturbations /\ phase[r] \in AfterRing
        /\ phase[r] \in AfterRing \ {"unpin", "gone"} => npins[r] = NofSignals
        /\ \A q \in Requests : q < r /\ svc[q] = svc[r] => rb_pins[svc[r]] # q
    BY <1>1 DEF InjectorInv
  <2>2. /\ svc'[r] = svc[r] /\ phase'[r] \in AfterRing
        /\ phase'[r] \in AfterRing \ {"unpin", "gone"} =>
             npins'[r] = npins[r] /\ phase[r] \in AfterRing \ {"unpin", "gone"}
    BY <1>n, <2>1, PastRing
  <2>3. r \in 1 .. accepted
    BY <2>1, HandlerTypes DEF Inv, HandlerInv, FreshRequests, AfterRing
  <2>4. ASSUME NEW q \in Requests, q < r, svc'[q] = svc'[r], rb_pins'[svc[r]] = q
        PROVE  FALSE
    <3>1. q \in 1 .. accepted /\ q # 0
      BY <2>3, <2>4, HandlerTypes DEF Inv
    <3>2. svc[q] = svc[r]
      BY <1>n, <2>2, <2>4, <3>1, SvcKept
    <3>3. rb_pins'[svc[r]] # rb_pins[svc[r]]
      BY <2>1, <2>4, <3>2
    <3>4. PinRb(q)
      BY <1>n, <2>1, <2>4, <3>1, <3>3, RingsPinned
    <3>5. r <= q
      BY <3>2, <3>4, PinsRbInTurn DEF PinRb, At, Working
    <3> QED BY <2>4, <3>5, HandlerTypes DEF Inv
  <2> QED BY <1>m, <2>1, <2>2, <2>4
<1>2. CASE PinRb(r) /\ Up'
  <2>1. phase[r] = "pin_rb" /\ svc' = svc /\ npins' = npins /\ phase'[r] = "monitor"
    BY <1>2, PinTypes DEF PinRb, At, Goto, handlerVars, Inv
  <2>2. svc[r] \in Perturbations /\ npins[r] = NofSignals
    BY <2>1, PinsRbInTurn DEF Working, Inv, PinInv, PinsOwned, Pinned
  <2>3. rb_pins'[svc[r]] = r
    BY <1>2, <2>2, KernelTypes DEF PinRb, Inv
  <2>4. \A q \in Requests : q < r => q # r
    BY HandlerTypes DEF Inv
  <2> QED BY <1>2, <2>1, <2>2, <2>3, <2>4 DEF AfterRing
<1> QED BY <1>m, <1>1, <1>2

\* The ring that is opened is the simulation's own, or that of a later one when
\* its own is cleaned up.
LEMMA OpenedRing ==
  ASSUME Inv, InTurn, RbInv, SessionTypeOK, InjectorInv, NEW r \in Requests, OpenRing(r)
  PROVE  target'[r] \in Requests /\ MayReach(r, target'[r])
<1> DEFINE q == rb_pins[svc[r]]
<1>1. /\ svc[r] \in Perturbations /\ phase[r] \in AfterRing /\ Up
      /\ phase[r] \in AfterRing \ {"unpin", "gone"} => npins[r] = NofSignals
      /\ \A p \in Requests : p < r /\ svc[p] = svc[r] => q # p
  BY DEF OpenRing, InjectorInv
<1>2. q \in Requests /\ target'[r] = q
  BY <1>1, KernelTypes, SessionTypes DEF OpenRing, Inv
<1>3. svc[q] = svc[r] /\ npins[q] = NofSignals
  BY <1>1, <1>2, HandlerTypes DEF RbInv, Inv
<1>4. pins[1] = q
  BY <1>2, <1>3, ConstFacts DEF Inv, PinInv, PinsOwned
<1>5. ASSUME q # r PROVE r < q /\ CleanedUp(r)
  <2>1. r < q
    BY <1>1, <1>2, <1>3, <1>5, HandlerTypes DEF Inv
  <2>2. npins[r] = 0
    <3>1. npins[r] > 0 => pins[1] = r
      BY PinTypes DEF Inv, PinInv, PinsOwned
    <3> QED BY <1>4, <1>5, <3>1, PinTypes DEF Inv
  <2>3. phase[r] \in {"unpin", "gone"}
    BY <1>1, <2>2, ConstFacts DEF AfterRing
  <2> QED BY <2>1, <2>2, <2>3 DEF CleanedUp
<1> QED BY <1>2, <1>5 DEF MayReach

\* What is cleaned up stays cleaned up.
LEMMA CleanedUpKept ==
  ASSUME Inv, GoneInv, [SessionNext]_allVars, NEW r \in Requests, CleanedUp(r)
  PROVE  CleanedUp(r)'
<1>1. phase[r] \in AfterRing
  BY DEF CleanedUp, AfterRing
<1> QED BY <1>1, PastRing, SessionStepIsStep

LEMMA TargetInvStep ==
  ASSUME Inv, GoneInv, InTurn, RbInv, SessionTypeOK, InjectorInv, TargetInv, [SessionNext]_allVars
  PROVE  TargetInv'
<1> SUFFICES ASSUME NEW r \in Requests, inj'[r] = "write"
             PROVE  target'[r] \in Requests /\ (r # target'[r] => r < target'[r] /\ CleanedUp(r)')
  BY DEF TargetInv, MayReach
<1>g. ~Up => \A q \in Requests : inj[q] \in {"none", "gone"}
  BY DEF InjectorInv
<1>1. (inj[r] = "write" /\ target'[r] = target[r]) \/ OpenRing(r)
  BY <1>g, InjectorMoves DEF Inv
<1>2. CASE inj[r] = "write" /\ target'[r] = target[r]
  <2>1. target[r] \in Requests /\ (r # target[r] => r < target[r] /\ CleanedUp(r))
    BY <1>2 DEF TargetInv, MayReach
  <2>2. CleanedUp(r) => CleanedUp(r)'
    BY CleanedUpKept
  <2> QED BY <1>2, <2>1, <2>2
<1>3. CASE OpenRing(r)
  <2>1. target'[r] \in Requests /\ (r # target'[r] => r < target'[r] /\ CleanedUp(r))
    BY <1>3, OpenedRing DEF MayReach
  <2>2. CleanedUp(r) => CleanedUp(r)'
    BY CleanedUpKept
  <2> QED BY <2>1, <2>2
<1> QED BY <1>1, <1>2, <1>3

\* A record in a ring was there, or is what an injector writes to its target.
LEMMA RingsGrow ==
  ASSUME SessionTypeOK, TargetInv, [SessionNext]_allVars,
         NEW q \in Requests, NEW i \in DOMAIN ring'[q]
  PROVE  \/ i \in DOMAIN ring[q] /\ ring'[q][i] = ring[q][i]
         \/ ring'[q][i].req \in Requests /\ inj[ring'[q][i].req] = "write"
            /\ q = target[ring'[q][i].req]
<1>1. CASE ring' = ring
  BY <1>1
<1>2. ASSUME NEW r \in Requests, WriteRing(r), item[r] # 0
      PROVE  \/ i \in DOMAIN ring[q] /\ ring'[q][i] = ring[q][i]
             \/ ring'[q][i].req \in Requests /\ inj[ring'[q][i].req] = "write"
                /\ q = target[ring'[q][i].req]
  <2>1. /\ inj[r] = "write" /\ target[r] \in Requests
        /\ ring' = [ring EXCEPT ![target[r]] = Append(@, [req |-> r, no |-> item[r]])]
    BY <1>2 DEF WriteRing, TargetInv
  <2>2. CASE q = target[r]
    <3>1. ring'[q] = Append(ring[q], [req |-> r, no |-> item[r]]) /\ ring[q] \in Seq(Records)
      BY <2>1, <2>2, SessionTypes
    <3>2. [req |-> r, no |-> item[r]] \in Records
      BY <1>2, SessionTypes, SessionAssumption, SMTT(30) DEF Records, Perts
    <3>3. /\ DOMAIN ring'[q] = 1 .. Len(ring[q]) + 1 /\ DOMAIN ring[q] = 1 .. Len(ring[q])
          /\ \A j \in 1 .. Len(ring[q]) : ring'[q][j] = ring[q][j]
          /\ ring'[q][Len(ring[q]) + 1] = [req |-> r, no |-> item[r]]
          /\ Len(ring[q]) \in Nat
      BY <3>1, <3>2, AppendProperties
    <3>4. CASE i = Len(ring[q]) + 1
      BY <2>1, <2>2, <3>3, <3>4
    <3>5. CASE i # Len(ring[q]) + 1
      BY <3>3, <3>5
    <3> QED BY <3>4, <3>5
  <2>3. CASE q # target[r]
    BY <2>1, <2>3, SessionTypes
  <2> QED BY <2>2, <2>3
<1>3. ring' = ring \/ \E r \in Requests : WriteRing(r) /\ item[r] # 0
  <2>1. CASE \E r \in Requests : InjectorAction(r)
    BY <2>1 DEF InjectorAction, Take, TakeNothing, Stop, OpenRing, OpenFails, WriteRing
  <2>2. CASE (\E r \in Requests : Simulate(r)) \/ CrashSessions
    BY <2>2 DEF Simulate, CrashSessions
  <2> QED BY <2>1, <2>2, SessionKinds
<1> QED BY <1>1, <1>2, <1>3

LEMMA RingInvStep ==
  ASSUME Inv, GoneInv, SessionTypeOK, TargetInv, RingInv, [SessionNext]_allVars
  PROVE  RingInv'
<1> SUFFICES ASSUME NEW q \in Requests, NEW i \in DOMAIN ring'[q]
             PROVE  /\ ring'[q][i].req \in Requests
                    /\ \A r \in Requests : r = ring'[q][i].req /\ r # q => r < q /\ CleanedUp(r)'
  BY DEF RingInv, MayReach, CleanedUp
<1>1. /\ ring'[q][i].req \in Requests
      /\ \A r \in Requests : r = ring'[q][i].req /\ r # q => r < q /\ CleanedUp(r)
  <2>1. CASE i \in DOMAIN ring[q] /\ ring'[q][i] = ring[q][i]
    BY <2>1 DEF RingInv, MayReach
  <2>2. CASE /\ ring'[q][i].req \in Requests /\ inj[ring'[q][i].req] = "write"
             /\ q = target[ring'[q][i].req]
    BY <2>2 DEF TargetInv, MayReach
  <2> QED BY <2>1, <2>2, RingsGrow
<1>2. \A r \in Requests : CleanedUp(r) => CleanedUp(r)'
  BY CleanedUpKept
<1> QED BY <1>1, <1>2
----------------------------------------------------------------------------
(***************************************************************************)
(* The readers, and the panic.                                             *)
(***************************************************************************)
LEMMA DoneGrows ==
  ASSUME Inv, [Next]_vars
  PROVE  done \subseteq done'
<1>1. ASSUME NEW r \in Requests, StartStep(r) PROVE done \subseteq done'
  BY <1>1, StartShape DEF Inv, StartMoves
<1> QED BY <1>1 DEF Next, Accept, HandlerStep, Lock, ReadRequest, ReadFails, Reply, Unlock, ProcEnds,
           ProcQuits, LoseRecord, Crash, Restart, vars, startVars

LEMMA UnlocksWhenDoneStep ==
  ASSUME Inv, UnlocksWhenDone, [Next]_vars
  PROVE  UnlocksWhenDone'
<1> USE HandlerTypes DEF Inv
<1>d. done \subseteq done'
  BY DoneGrows
<1>1. ASSUME NEW s \in Services, Accept(s) PROVE UnlocksWhenDone'
  BY <1>1, <1>d DEF Accept, UnlocksWhenDone, startVars
<1>2. ASSUME NEW s \in Services, Lock(s) \/ Unlock(s) PROVE UnlocksWhenDone'
  BY <1>2, <1>d DEF Lock, Unlock, UnlocksWhenDone, startVars
<1>3. ASSUME NEW s \in Services, ReadRequest(s) PROVE UnlocksWhenDone'
  <2>1. \A t \in Services : hpc'[t] = "unlock" => hpc[t] = "unlock" /\ t # s /\ conn'[t] = conn[t]
    BY <1>3 DEF ReadRequest
  <2>2. \A t \in Services : hpc[t] = "unlock" => conn[t] \in Requests /\ conn[t] # conn[s]
    BY <1>3, ServedAreRequests DEF ReadRequest, HandlerInv, FreshRequests, Serving
  <2>3. \A q \in Requests : q # conn[s] => phase'[q] = phase[q]
    BY <1>3 DEF ReadRequest
  <2> QED BY <1>d, <2>1, <2>2, <2>3 DEF UnlocksWhenDone
<1>4. ASSUME NEW s \in Services, ReadFails(s) \/ Reply(s) PROVE UnlocksWhenDone'
  <2>1. /\ UNCHANGED <<conn, phase, done>>
        /\ (phase[conn[s]] = "none" \/ conn[s] \in done)
        /\ \A t \in Services : hpc'[t] = "unlock" => t = s \/ hpc[t] = "unlock"
    BY <1>4 DEF ReadFails, Reply, HandlerInv, FreshRequests, startVars
  <2> QED BY <2>1 DEF UnlocksWhenDone
<1>5. ASSUME NEW r \in Requests, StartStep(r) PROVE UnlocksWhenDone'
  <2>1. UNCHANGED <<hpc, conn>> /\ phase[r] # "none"
        /\ \A q \in Requests : q # r => phase'[q] = phase[q]
    BY <1>5, StartShape, StartPastRing DEF handlerVars, Alive
  <2>2. \A t \in Services : hpc[t] = "unlock" => conn[t] \in Requests
    BY ServedAreRequests
  <2> QED BY <1>d, <2>1, <2>2 DEF UnlocksWhenDone
<1>6. CASE Crash
  BY <1>6 DEF Crash, UnlocksWhenDone
<1>7. CASE Restart \/ (\E q \in Requests : ProcEnds(q) \/ ProcQuits(q) \/ LoseRecord(q)) \/ UNCHANGED vars
  BY <1>7 DEF Restart, ProcEnds, ProcQuits, LoseRecord, vars, startVars, handlerVars, UnlocksWhenDone
<1> QED BY <1>1, <1>2, <1>3, <1>4, <1>5, <1>6, <1>7 DEF Next, HandlerStep

\* What a step of a handler does to its session.
SessionHandlerStep(s) ==
  (Accept(s) /\ UNCHANGED sessionVars) \/ HandlerOverreads(s) \/ SessionHandler(s)

LEMMA HandlerShape ==
  ASSUME Inv, SessionTypeOK, NEW s \in Services, SessionHandlerStep(s)
  PROVE  /\ UNCHANGED <<clientVars, got, ch, injectorVars, panicked>>
         /\ \E r \in Requests, p \in {"read", "overread", "gone", "send"} :
              /\ rd' \in {rd, [rd EXCEPT ![r] = p]}
              /\ started' \in {started, started \cup {r}}
              /\ closed' = closed \/ (r \notin closed /\ closed' = closed \cup {r} /\ CloseChannel(s)
                                                           /\ r = conn[s])
         /\ \A q \in Requests : rd'[q] = rd[q] \/ rd'[q] = "gone"
                                \/ (rd[q] = "none" /\ rd'[q] \in {"read", "overread"})
<1> USE SessionTypes DEF Read
<1>1. hpc[s] # "accept" => conn[s] \in Requests
  BY ServedAreRequests
<1>2. CASE UNCHANGED sessionVars
  <2>1. 1 \in Requests
    BY ConstFacts DEF Requests
  <2> QED BY <1>2, <2>1 DEF sessionVars, readerVars
<1>3. CASE HandlerOverreads(s)
  BY <1>1, <1>3 DEF HandlerOverreads
<1>4. CASE StartSession(s)
  BY <1>1, <1>4 DEF StartSession, ReadRequest
<1>5. CASE DropSession(s)
  BY <1>1, <1>5 DEF DropSession, ReadFails
<1>6. CASE ConfirmStart(s)
  BY <1>1, <1>6 DEF ConfirmStart
<1>7. CASE CloseChannel(s)
  BY <1>1, <1>7 DEF CloseChannel
<1> QED BY <1>2, <1>3, <1>4, <1>5, <1>6, <1>7
        DEF SessionHandlerStep, SessionHandler, EndSession, CloseConnection

\* The steps that are not of a handler, of a reader, of Start or of an injector.
OtherStep ==
  \/ \E r \in Requests : (ProcEnds(r) \/ ProcQuits(r) \/ LoseRecord(r)) /\ UNCHANGED sessionVars
  \/ Restart /\ UNCHANGED sessionVars
  \/ UNCHANGED allVars

LEMMA SessionParts ==
  ASSUME [SessionNext]_allVars
  PROVE  \/ \E s \in Services : SessionHandlerStep(s)
         \/ \E r \in Requests : ClientSends(r)
         \/ \E r \in Requests : ReaderOverreads(r) \/ ReaderGivesUp(r)
         \/ \E r \in Requests : ReaderStep(r)
         \/ \E r \in Requests : InjectorStep(r) \/ Stop(r) \/ Simulate(r)
         \/ OtherCrash
         \/ OtherStep
BY DEF SessionNext, SessionHandlerStep, OtherStep

LEMMA ClientShape ==
  ASSUME SessionTypeOK, NEW r \in Requests, ClientSends(r)
  PROVE  /\ sent' \in [Requests -> 0 .. MaxPerts] /\ piped' \subseteq Requests
         /\ \A q \in Requests : sent'[q] >= sent[q]
<1>1. sent \in [Requests -> 0 .. MaxPerts] /\ piped \subseteq Requests
  BY DEF SessionTypeOK
<1>2. sent[r] \in Nat /\ sent[r] < PertsOf[r] /\ PertsOf[r] \in 0 .. MaxPerts
  BY <1>1, SessionTypes, SessionAssumption DEF ClientSends
<1>3. sent[r] + 1 \in 0 .. MaxPerts /\ sent' = [sent EXCEPT ![r] = sent[r] + 1]
  BY <1>2, SessionTypes DEF ClientSends
<1>4. \A q \in Requests : sent[q] \in Nat
  BY SessionTypes
<1>5. \A q \in Requests : sent'[q] = IF q = r THEN sent[r] + 1 ELSE sent[q]
  BY <1>1, <1>3
<1>6. \A q \in Requests : sent'[q] >= sent[q]
  BY <1>4, <1>5
<1> QED BY <1>1, <1>3, <1>6 DEF ClientSends

LEMMA SessionTypesStep ==
  ASSUME Inv, SessionTypeOK, ReaderInv, InjectorInv, TargetInv, [SessionNext]_allVars
  PROVE  SessionTypeOK' /\ ReaderInv'
<1>1. ASSUME NEW s \in Services, SessionHandlerStep(s) PROVE SessionTypeOK' /\ ReaderInv'
  <2>1. SessionTypeOK'
    BY <1>1, HandlerShape, HandlerKeepsSessionTypes
  <2>2. ReaderInv'
    BY <1>1, HandlerShape, HandlerKeepsReaders DEF clientVars, injectorVars
  <2> QED BY <2>1, <2>2
<1>2. ASSUME NEW r \in Requests, ClientSends(r) PROVE SessionTypeOK' /\ ReaderInv'
  <2>1. SessionTypeOK'
    BY <1>2, ClientShape DEF ClientSends, SessionTypeOK, readerVars, injectorVars
  <2>2. UNCHANGED <<got, rd, ch, taken>>
    BY <1>2 DEF ClientSends, readerVars, injectorVars
  <2>3. \A q \in Requests : sent'[q] >= sent[q] /\ sent[q] \in Nat /\ got[q] \in Nat /\ sent'[q] \in Nat
    BY <1>2, <2>1, ClientShape, SessionTypes, SessionAssumption
  <2>4. \A q \in Requests : got'[q] <= sent'[q]
    BY <2>2, <2>3 DEF ReaderInv
  <2>5. ReaderInv'
    BY <2>2, <2>4 DEF ReaderInv, Holds
  <2> QED BY <2>1, <2>5
<1>3. ASSUME NEW r \in Requests, ReaderOverreads(r) \/ ReaderGivesUp(r)
      PROVE  SessionTypeOK' /\ ReaderInv'
  <2>1. /\ UNCHANGED <<clientVars, got, started, ch, closed, injectorVars, panicked>>
        /\ rd' \in {[rd EXCEPT ![r] = "overread"], [rd EXCEPT ![r] = "gone"]}
    BY <1>3 DEF ReaderOverreads, ReaderGivesUp, Read
  <2>2. \A q \in Requests : rd'[q] = rd[q] \/ rd'[q] \in {"overread", "gone"}
    BY <2>1, SessionTypes
  <2>3. SessionTypeOK'
    BY <2>1, HandlerKeepsSessionTypes
  <2>4. ReaderInv'
    BY <2>1, <2>2, HandlerKeepsReaders DEF clientVars, injectorVars
  <2> QED BY <2>3, <2>4
<1>4. ASSUME NEW r \in Requests, InjectorStep(r) \/ Stop(r) \/ Simulate(r)
      PROVE  SessionTypeOK' /\ ReaderInv'
  <2>1. /\ inj[r] = "write" => target[r] \in Requests
        /\ inj[r] # "none" => svc[r] \in Perturbations
    BY DEF InjectorInv, TargetInv
  <2> QED BY <1>4, <2>1, InjectorKeepsSessionTypes, InjectorKeepsReaders DEF Inv
<1>5. CASE OtherStep
  <2>1. UNCHANGED sessionVars
    BY <1>5 DEF OtherStep, allVars
  <2> QED BY <2>1 DEF sessionVars, clientVars, readerVars, injectorVars, SessionTypeOK, ReaderInv, Holds
<1>6. CASE OtherCrash
  <2>1. CrashSessions /\ panicked' \subseteq Requests
    BY <1>6 DEF OtherCrash, SessionTypeOK
  <2> QED BY <2>1, CrashKeepsSessionTypes, CrashKeepsReaders
<1> QED BY <1>1, <1>2, <1>3, <1>4, <1>5, <1>6, SessionParts, ReaderKeepsSessionTypes, ReaderKeepsReaders

LEMMA LeftBehindKept ==
  ASSUME Inv, SessionTypeOK, ReaderInv, [SessionNext]_allVars, NEW q \in Requests, LeftBehind(q)
  PROVE  LeftBehind(q)'
<1>t. /\ sent[q] \in Nat /\ Len(taken[q]) + Len(ch[q]) \in Nat
      /\ DOMAIN rd = Requests /\ DOMAIN ch = Requests
  BY SessionTypes
<1>1. ASSUME NEW s \in Services, SessionHandlerStep(s) PROVE LeftBehind(q)'
  BY <1>1, HandlerShape DEF LeftBehind, clientVars, injectorVars
<1>2. ASSUME NEW r \in Requests, ClientSends(r) PROVE LeftBehind(q)'
  <2>1. UNCHANGED <<rd, ch, taken>>
    BY <1>2 DEF ClientSends, readerVars, injectorVars
  <2>2. sent'[q] \in Nat /\ sent'[q] >= sent[q]
    BY <1>2, ClientShape, SessionAssumption
  <2> QED BY <1>t, <2>1, <2>2 DEF LeftBehind
<1>3. ASSUME NEW r \in Requests, ReaderOverreads(r) \/ ReaderGivesUp(r) \/ ReaderStep(r)
      PROVE  LeftBehind(q)'
  <2>1. UNCHANGED <<sent, taken>> /\ rd'[q] = "gone" /\ ch'[q] = ch[q]
    BY <1>t, <1>3 DEF ReaderOverreads, ReaderGivesUp, ReaderStep, ReaderGets, ReaderAcks, ReaderSends,
       ReaderPanics, CrashSessions, ReaderEnds, Read, LeftBehind, clientVars, injectorVars
  <2> QED BY <2>1 DEF LeftBehind
<1>4. ASSUME NEW r \in Requests, InjectorStep(r) \/ Stop(r) \/ Simulate(r) PROVE LeftBehind(q)'
  BY <1>4, InjectorKeepsReaders DEF LeftBehind
<1>5. CASE OtherStep
  BY <1>5 DEF OtherStep, allVars, sessionVars, clientVars, readerVars, injectorVars, LeftBehind
<1>6. CASE OtherCrash
  BY <1>6 DEF OtherCrash, CrashSessions, LeftBehind, clientVars
<1> QED BY <1>1, <1>2, <1>3, <1>4, <1>5, <1>6, SessionParts

\* A channel is closed when its simulation is done.
LEMMA ClosedWhenDoneStep ==
  ASSUME Inv, SessionTypeOK, UnlocksWhenDone, ClosedWhenDone, [SessionNext]_allVars
  PROVE  ClosedWhenDone'
<1>1. done \subseteq done'
  BY DoneGrows, SessionStepIsStep
<1>2. closed' = closed \/ \E r \in done : closed' = closed \cup {r}
  <2>1. ASSUME NEW s \in Services, SessionHandlerStep(s)
        PROVE  closed' = closed \/ \E r \in done : closed' = closed \cup {r}
    <3>1. CloseChannel(s) => conn[s] \in done
      BY DEF CloseChannel, UnlocksWhenDone
    <3> QED BY <2>1, <3>1, HandlerShape
  <2>2. (\E r \in Requests : \/ ClientSends(r) \/ ReaderOverreads(r) \/ ReaderGivesUp(r)
                             \/ ReaderStep(r) \/ InjectorStep(r) \/ Stop(r) \/ Simulate(r))
        => closed' = closed
    BY DEF ClientSends, ReaderOverreads, ReaderGivesUp, ReaderStep, ReaderGets, ReaderAcks, ReaderSends,
       ReaderPanics, CrashSessions, ReaderEnds, InjectorStep, Take, TakeNothing, OpenRing, OpenFails, WriteRing, Stop,
       Simulate, readerVars
  <2>3. OtherStep \/ OtherCrash => closed' = closed
    BY DEF OtherStep, OtherCrash, CrashSessions, allVars, sessionVars, readerVars
  <2> QED BY <2>1, <2>2, <2>3, SessionParts
<1> QED BY <1>1, <1>2 DEF ClosedWhenDone

\* It takes a reader that still holds a perturbation to bring the server down.
LEMMA PanicLeavesBehind ==
  ASSUME Inv, SessionTypeOK, ReaderInv, ClosedWhenDone, NEW r \in Requests, ReaderPanics(r)
  PROVE  r \in done /\ LeftBehind(r)'
<1>1. rd[r] = "send" /\ r \in done /\ rd'[r] = "gone" /\ UNCHANGED <<sent, taken, ch>>
  BY DEF ReaderPanics, CrashSessions, ClosedWhenDone, clientVars
<1>2. got[r] = Len(taken[r]) + Len(ch[r]) + 1 /\ got[r] <= sent[r]
  BY <1>1 DEF ReaderInv, Holds
<1>3. Len(taken[r]) + Len(ch[r]) \in Nat /\ got[r] \in Nat /\ sent[r] \in Nat
  BY SessionTypes
<1>4. \A a, g, n \in Nat : g = a + 1 /\ g <= n => a < n
  OBVIOUS
<1>5. Len(taken[r]) + Len(ch[r]) < sent[r]
  BY <1>2, <1>3, <1>4, Zenon
<1> QED BY <1>1, <1>5 DEF LeftBehind

\* Only a crash and a restart are counted.
LEMMA CrashesCounted ==
  ASSUME Inv, [SessionNext]_allVars
  PROVE  \/ crashes' = crashes
         \/ crashes' = crashes + 1 /\ (CrashSessions \/ ~Up)
<1>1. ASSUME NEW s \in Services, Accept(s) \/ HandlerStep(s) PROVE crashes' = crashes
  BY <1>1 DEF Accept, HandlerStep, Lock, ReadRequest, ReadFails, Reply, Unlock
<1>2. ASSUME NEW r \in Requests, StartStep(r) \/ ProcEnds(r) \/ ProcQuits(r) \/ LoseRecord(r) PROVE crashes' = crashes
  BY <1>2, StartShape DEF Inv, ProcEnds, ProcQuits, LoseRecord
<1>3. ASSUME UNCHANGED vars PROVE crashes' = crashes
  BY <1>3 DEF vars
<1>4. ASSUME NEW s \in Services, SessionHandlerStep(s) PROVE crashes' = crashes
  <2>1. Accept(s) \/ HandlerStep(s) \/ UNCHANGED vars
    BY <1>4 DEF SessionHandlerStep, HandlerOverreads, SessionHandler, StartSession, DropSession,
       ConfirmStart, EndSession, CloseChannel, CloseConnection, HandlerStep
  <2> QED BY <1>1, <1>3, <2>1
<1>5. ASSUME NEW r \in Requests,
             \/ ClientSends(r) \/ ReaderOverreads(r) \/ ReaderGivesUp(r)
             \/ (ReaderStep(r) /\ ~ReaderPanics(r))
             \/ InjectorStep(r) \/ Stop(r)
      PROVE  UNCHANGED vars
  BY <1>5 DEF ClientSends, ReaderOverreads, ReaderGivesUp, ReaderStep, ReaderGets, ReaderAcks,
     ReaderSends, ReaderEnds, InjectorStep, Take, TakeNothing, OpenRing, OpenFails, WriteRing, Stop
<1>6. CASE OtherStep
  BY <1>2, <1>3, <1>6 DEF OtherStep, Restart, allVars
<1>7. CrashSessions => crashes' = crashes + 1
  BY DEF CrashSessions, Crash
<1>9. (\E r \in Requests : ReaderPanics(r)) \/ OtherCrash => CrashSessions
  BY DEF ReaderPanics, OtherCrash
<1>8. ASSUME NEW r \in Requests, Simulate(r) PROVE crashes' = crashes
  BY <1>2, <1>8 DEF Simulate
<1> QED BY <1>3, <1>4, <1>5, <1>6, <1>7, <1>8, <1>9, SessionParts

LEMMA PanicInvStep ==
  ASSUME Inv, SessionTypeOK, ReaderInv, ClosedWhenDone, PanicInv, [SessionNext]_allVars
  PROVE  PanicInv'
<1>1. done \subseteq done' /\ panicked \subseteq Requests
  BY DoneGrows, SessionStepIsStep DEF SessionTypeOK
<1>2. ASSUME NEW q \in panicked PROVE q \in done' /\ LeftBehind(q)'
  BY <1>1, <1>2, LeftBehindKept DEF PanicInv
<1>3. panicked' = panicked \/ \E r \in Requests : ReaderPanics(r) /\ panicked' = panicked \cup {r}
  <2>1. (\E s \in Services : SessionHandlerStep(s)) => panicked' = panicked
    BY HandlerShape
  <2>2. (\E r \in Requests : \/ ClientSends(r) \/ ReaderOverreads(r) \/ ReaderGivesUp(r)
                             \/ (ReaderStep(r) /\ ~ReaderPanics(r))
                             \/ InjectorStep(r) \/ Stop(r) \/ Simulate(r))
        => panicked' = panicked
    BY DEF ClientSends, ReaderOverreads, ReaderGivesUp, ReaderStep, ReaderGets, ReaderAcks, ReaderSends,
       ReaderEnds, InjectorStep, Take, TakeNothing, OpenRing, OpenFails, WriteRing, Stop, Simulate
  <2>3. OtherStep \/ OtherCrash => panicked' = panicked
    BY DEF OtherStep, OtherCrash, allVars, sessionVars
  <2>4. \A r \in Requests : ReaderPanics(r) => panicked' = panicked \cup {r}
    BY DEF ReaderPanics
  <2> QED BY <2>1, <2>2, <2>3, <2>4, SessionParts
<1>4. ASSUME NEW r \in Requests, ReaderPanics(r) PROVE r \in done' /\ LeftBehind(r)'
  BY <1>1, <1>4, PanicLeavesBehind
<1>5. ASSUME NEW q \in panicked' PROVE q \in done' /\ LeftBehind(q)'
  BY <1>2, <1>3, <1>4, <1>5
<1> QED BY <1>5 DEF PanicInv, LeftBehind
----------------------------------------------------------------------------
(***************************************************************************)
(* Strays and panics: the theorems.                                        *)
(***************************************************************************)
SessionInv ==
  /\ Inv /\ MapsAccounted /\ RbOwned
  /\ SessionTypeOK /\ StrayInv
  /\ ReaderInv /\ UnlocksWhenDone /\ ClosedWhenDone /\ PanicInv

LEMMA InitSessionInv == SessionInit => SessionInv
<1> SUFFICES ASSUME SessionInit PROVE SessionInv
  OBVIOUS
<1>1. Init /\ Inv /\ MapsAccounted /\ RbOwned
  BY InitInv, InitFaultInv DEF SessionInit
<1>2. SessionTypeOK /\ ReaderInv
  BY InitSessionTypes
<1>3. UnlocksWhenDone /\ ClosedWhenDone /\ PanicInv
  BY DEF SessionInit, Init, UnlocksWhenDone, ClosedWhenDone, PanicInv
<1>4. RbInv /\ GoneInv /\ InTurn
  BY <1>1 DEF Init, RbInv, GoneInv, InTurn, Serving
<1>5. InjectorInv /\ TargetInv /\ RingInv
  BY DEF SessionInit, InjectorInv, TargetInv, RingInv
<1> QED BY <1>1, <1>2, <1>3, <1>4, <1>5 DEF SessionInv, StrayInv

LEMMA SessionInvStep == SessionInv /\ [SessionNext]_allVars => SessionInv'
<1> SUFFICES ASSUME SessionInv, [SessionNext]_allVars PROVE SessionInv'
  OBVIOUS
<1> USE DEF SessionInv, StrayInv
<1>1. [Next]_vars
  BY SessionStepIsStep
<1>2. Inv' /\ MapsAccounted' /\ RbOwned'
  BY <1>1, InvStep, PinsAccountedStep
<1>3. RbInv' /\ GoneInv' /\ InTurn' /\ UnlocksWhenDone'
  BY <1>1, <1>2, RbInvStep, GoneInvStep, InTurnStep, UnlocksWhenDoneStep
<1>4. InjectorInv' /\ TargetInv' /\ RingInv'
  BY InjectorInvStep, TargetInvStep, RingInvStep
<1>5. SessionTypeOK' /\ ReaderInv' /\ ClosedWhenDone' /\ PanicInv'
  BY SessionTypesStep, ClosedWhenDoneStep, PanicInvStep
<1> QED BY <1>2, <1>3, <1>4, <1>5

\* Who may reach whose ring, and who may bring the server down (simulator.go:605,
\* server.go:342), as one inductive invariant.
THEOREM SessionInvariant == SessionSpec => []SessionInv
BY InitSessionInv, SessionInvStep, PTL DEF SessionSpec

\* The sessions' variables keep their types (server.go:170, simulator.go:605).
THEOREM SessionTypeCorrect == SessionSpec => []SessionTypeOK
<1>1. SessionInv => SessionTypeOK
  BY DEF SessionInv
<1> QED BY <1>1, SessionInvariant, PTL

\* The injector program, which opens a ring by its path (simulator.go:662), never
\* reaches that of an earlier simulation, and that of a later one only when
\* its own has no pin left.
THEOREM StraysComeAfterCleanup == SessionSpec => []StrayOnlyAfterCleanup
<1>1. SessionInv => StrayOnlyAfterCleanup
  BY DEF SessionInv, StrayInv, RingInv, MayReach, CleanedUp, StrayOnlyAfterCleanup
<1> QED BY <1>1, SessionInvariant, PTL

\* A reader panics, over a send on a channel the handler has closed
\* (server.go:342, 437), only if its client sent a perturbation that had not gone
\* through when the simulation was over.
THEOREM PunctualClientsAreSafe == SessionSpec => []SurvivesPunctualClients
<1>1. SessionInv => SurvivesPunctualClients
  <2> SUFFICES ASSUME SessionInv, NEW r \in panicked
               PROVE  r \in done /\ Len(Queue(r)) < sent[r]
    BY DEF SurvivesPunctualClients
  <2>1. r \in done /\ LeftBehind(r) /\ r \in Requests
    BY DEF SessionInv, PanicInv, SessionTypeOK
  <2>2. ch[r] \in Seq(Perts) /\ taken[r] \in Seq(Perts)
    BY <2>1, SessionTypes DEF SessionInv
  <2>3. Len(Queue(r)) = Len(taken[r]) + Len(ch[r])
    BY <2>2, ConcatProperties DEF Queue
  <2> QED BY <2>1, <2>3 DEF LeftBehind
<1> QED BY <1>1, SessionInvariant, PTL
----------------------------------------------------------------------------
(***************************************************************************)
(* Order: a channel passes its perturbations on as they come.              *)
(***************************************************************************)
\* Successive numbers after base.
From(base, q) == \A i \in 1 .. Len(q) : q[i] = base + i

OrderInv == \A r \in Requests : From(0, taken[r]) /\ From(Len(taken[r]), ch[r])

LEMMA NumbersAppended ==
  ASSUME NEW S, NEW q \in Seq(S), NEW x \in S, NEW base \in Nat, From(base, q), x = base + (Len(q) + 1)
  PROVE  From(base, Append(q, x)) /\ Len(Append(q, x)) = Len(q) + 1
<1>1. /\ Len(Append(q, x)) = Len(q) + 1 /\ Len(q) \in Nat
      /\ \A i \in 1 .. Len(q) : Append(q, x)[i] = q[i]
      /\ Append(q, x)[Len(q) + 1] = x
  BY AppendProperties
<1>2. ASSUME NEW i \in 1 .. Len(q) + 1 PROVE Append(q, x)[i] = base + i
  <2>1. CASE i = Len(q) + 1
    BY <1>1, <2>1
  <2>2. CASE i # Len(q) + 1
    <3>1. i \in 1 .. Len(q)
      BY <1>1, <2>2
    <3> QED BY <1>1, <3>1 DEF From
  <2> QED BY <2>1, <2>2
<1> QED BY <1>1, <1>2 DEF From

LEMMA NumbersTaken ==
  ASSUME NEW S, NEW q \in Seq(S), q # <<>>, NEW base \in Nat, From(base, q)
  PROVE  /\ Head(q) \in S /\ Head(q) = base + 1
         /\ From(base + 1, Tail(q))
<1>1. /\ Len(q) \in Nat /\ Len(q) >= 1 /\ Head(q) = q[1] /\ Head(q) \in S
      /\ Len(Tail(q)) = Len(q) - 1
      /\ \A i \in 1 .. Len(Tail(q)) : Tail(q)[i] = q[i + 1]
  BY HeadTailProperties, EmptySeq, LenProperties
<1>2. Head(q) = base + 1
  BY <1>1 DEF From
<1>3. ASSUME NEW i \in 1 .. Len(q) - 1 PROVE Tail(q)[i] = (base + 1) + i
  <2>1. i + 1 \in 1 .. Len(q) /\ i \in Nat
    BY <1>1
  <2>2. q[i + 1] = base + (i + 1)
    BY <2>1 DEF From
  <2> QED BY <1>1, <2>1, <2>2
<1> QED BY <1>1, <1>2, <1>3 DEF From

LEMMA SendsInOrder ==
  ASSUME SessionTypeOK, ReaderInv, OrderInv, NEW r \in Requests, ReaderSends(r)
  PROVE  OrderInv'
<1>1. ch[r] \in Seq(Perts) /\ Len(ch[r]) \in Nat /\ Len(taken[r]) \in Nat /\ got[r] \in 0 .. MaxPerts
  BY SessionTypes DEF SessionTypeOK
<1>2. /\ taken' = taken
      /\ \A q \in Requests : ch'[q] = IF q = r THEN Append(ch[r], got[r]) ELSE ch[q]
  BY SessionTypes DEF ReaderSends, injectorVars
<1>3. got[r] = Len(taken[r]) + Len(ch[r]) + 1
  BY DEF ReaderSends, ReaderInv, Holds
<1>4. \A m, n \in Nat : \A g \in 0 .. MaxPerts : g = m + n + 1 => g \in Perts /\ g = m + (n + 1)
  BY SessionAssumption DEF Perts
<1>5. got[r] \in Perts /\ got[r] = Len(taken[r]) + (Len(ch[r]) + 1)
  BY <1>1, <1>3, <1>4, Zenon
<1>6. From(Len(taken[r]), Append(ch[r], got[r]))
  BY <1>1, <1>5, NumbersAppended DEF OrderInv
<1> QED BY <1>2, <1>6 DEF OrderInv

LEMMA TakenInOrder ==
  ASSUME SessionTypeOK, OrderInv, NEW r \in Requests, Take(r)
  PROVE  /\ OrderInv' /\ Head(ch[r]) = Len(taken[r]) + 1
         /\ Len(taken'[r]) = Len(taken[r]) + 1
<1>1. /\ ch[r] \in Seq(Perts) /\ taken[r] \in Seq(Perts) /\ Len(taken[r]) \in Nat
  BY SessionTypes
<1>2. /\ ch[r] # <<>>
      /\ \A q \in Requests : ch'[q] = IF q = r THEN Tail(ch[r]) ELSE ch[q]
      /\ \A q \in Requests : taken'[q] = IF q = r THEN Append(taken[r], Head(ch[r])) ELSE taken[q]
  BY SessionTypes DEF Take
<1>3. /\ Head(ch[r]) \in Perts /\ Head(ch[r]) = Len(taken[r]) + 1
      /\ From(Len(taken[r]) + 1, Tail(ch[r]))
  BY <1>1, <1>2, NumbersTaken DEF OrderInv
<1>4. Head(ch[r]) = 0 + (Len(taken[r]) + 1)
  BY <1>1, <1>3
<1>5. From(0, Append(taken[r], Head(ch[r]))) /\ Len(Append(taken[r], Head(ch[r]))) = Len(taken[r]) + 1
  BY <1>1, <1>3, <1>4, NumbersAppended DEF OrderInv
<1> QED BY <1>2, <1>3, <1>5 DEF OrderInv

LEMMA OrderInvStep ==
  ASSUME Inv, SessionTypeOK, ReaderInv, OrderInv, [SessionNext]_allVars
  PROVE  OrderInv'
<1>1. ASSUME UNCHANGED <<ch, taken>> PROVE OrderInv'
  BY <1>1 DEF OrderInv
<1>2. ASSUME NEW s \in Services, SessionHandlerStep(s) PROVE UNCHANGED <<ch, taken>>
  BY <1>2, HandlerShape DEF injectorVars
<1>3. ASSUME NEW r \in Requests,
             \/ ClientSends(r) \/ ReaderOverreads(r) \/ ReaderGivesUp(r)
             \/ (ReaderStep(r) /\ ~ReaderSends(r))
             \/ ((InjectorStep(r) \/ Stop(r) \/ Simulate(r)) /\ ~Take(r))
      PROVE  UNCHANGED <<ch, taken>>
  BY <1>3 DEF ClientSends, ReaderOverreads, ReaderGivesUp, ReaderStep, ReaderGets, ReaderAcks,
     ReaderPanics, CrashSessions, ReaderEnds, InjectorStep, TakeNothing, OpenRing, OpenFails, WriteRing, Stop,
     Simulate, readerVars, injectorVars
<1>4. OtherStep \/ OtherCrash => UNCHANGED <<ch, taken>>
  BY DEF OtherStep, OtherCrash, CrashSessions, allVars, sessionVars, readerVars, injectorVars
<1> QED BY <1>1, <1>2, <1>3, <1>4, SessionParts, SendsInOrder, TakenInOrder
----------------------------------------------------------------------------
(***************************************************************************)
(* The first steps of a session.                                           *)
(***************************************************************************)
NotReading == {"none", "overread", "gone"}

FreshSessions ==
  /\ \A r \in Requests : r > accepted => r \notin started /\ rd[r] = "none"
  /\ \A s \in Services : hpc[s] \in {"lock", "read"} =>
       conn[s] \notin started /\ rd[conn[s]] \in NotReading

LEMMA FreshSessionsStep ==
  ASSUME Inv, SessionTypeOK, FreshSessions, [SessionNext]_allVars
  PROVE  FreshSessions'
<1> USE HandlerTypes DEF Inv
<1>d. DOMAIN rd = Requests
  BY SessionTypes
<1>c. \A s, t \in Services : hpc[s] # "accept" /\ hpc[t] # "accept" /\ s # t =>
        conn[s] \in Requests /\ conn[t] \in Requests /\ conn[s] # conn[t]
  BY ServedAreRequests DEF HandlerInv, FreshRequests, Serving
<1>a. \A s \in Services : hpc[s] # "accept" => conn[s] \in Requests /\ ~(conn[s] > accepted)
  BY ServedAreRequests
<1>1. ASSUME NEW s \in Services, Accept(s), UNCHANGED sessionVars PROVE FreshSessions'
  <2>1. /\ accepted + 1 \in Requests /\ accepted' = accepted + 1 /\ UNCHANGED <<rd, started>>
        /\ \A t \in Services : hpc'[t] = IF t = s THEN "lock" ELSE hpc[t]
        /\ \A t \in Services : conn'[t] = IF t = s THEN accepted + 1 ELSE conn[t]
    BY <1>1 DEF Accept, sessionVars, readerVars
  <2>2. accepted + 1 > accepted /\ \A r \in Requests : r > accepted + 1 => r > accepted
    OBVIOUS
  <2>3. accepted + 1 \notin started /\ rd[accepted + 1] = "none"
    BY <2>1, <2>2 DEF FreshSessions
  <2> QED BY <2>1, <2>2, <2>3 DEF FreshSessions, NotReading
\* A handler step that leaves other sessions alone, and does not go on to lock or read.
<1>2. ASSUME NEW s \in Services, hpc[s] # "accept", UNCHANGED <<conn, accepted>>,
             \A t \in Services : t # s => hpc'[t] = hpc[t],
             \A q \in Requests : q # conn[s] => rd'[q] = rd[q] /\ (q \in started' <=> q \in started),
             hpc'[s] \in {"lock", "read"} => /\ hpc[s] \in {"lock", "read"}
                                          /\ rd'[conn[s]] \in {rd[conn[s]], "overread"}
                                          /\ UNCHANGED started
      PROVE  FreshSessions'
  BY <1>2, <1>a, <1>c DEF FreshSessions, NotReading
<1>3. ASSUME NEW s \in Services, SessionHandler(s) \/ HandlerOverreads(s) PROVE FreshSessions'
  <2> USE DEF Read
  <2>1. CASE HandlerOverreads(s)
    BY <1>2, <1>a, <1>d, <2>1 DEF HandlerOverreads, vars, handlerVars
  <2>2. CASE Lock(s) /\ UNCHANGED sessionVars
    BY <1>2, <2>2 DEF Lock, sessionVars, readerVars
  <2>3. CASE StartSession(s)
    BY <1>2, <1>a, <1>d, <2>3 DEF StartSession, ReadRequest
  <2>4. CASE DropSession(s)
    BY <1>2, <1>a, <1>d, <2>4 DEF DropSession, ReadFails
  <2>5. CASE ConfirmStart(s)
    BY <1>2, <2>5 DEF ConfirmStart, vars, handlerVars
  <2>6. CASE EndSession(s)
    BY <1>2, <2>6 DEF EndSession, Reply, sessionVars, readerVars
  <2>7. CASE CloseChannel(s)
    BY <1>2, <2>7 DEF CloseChannel, vars, handlerVars
  <2>8. CASE CloseConnection(s)
    <3>1. /\ UNCHANGED <<accepted, rd, started>>
          /\ \A t \in Services : hpc'[t] = IF t = s THEN "accept" ELSE hpc[t]
          /\ \A t \in Services : t # s => conn'[t] = conn[t]
      BY <2>8 DEF CloseConnection, Unlock, sessionVars, readerVars
    <3> QED BY <3>1 DEF FreshSessions
  <2> QED BY <1>3, <2>1, <2>2, <2>3, <2>4, <2>5, <2>6, <2>7, <2>8 DEF SessionHandler
\* A step that only sees readers that have started.
<1>4. ASSUME UNCHANGED <<hpc, conn, accepted, started>>,
             \A q \in Requests : rd'[q] = rd[q] \/ rd[q] \in {"read", "ack", "send"}
                                              \/ (rd[q] # "none" /\ rd'[q] = "gone")
      PROVE  FreshSessions'
  BY <1>4, <1>a DEF FreshSessions, NotReading
<1>5. ASSUME NEW r \in Requests,
             \/ ClientSends(r) \/ ReaderOverreads(r) \/ ReaderGivesUp(r)
             \/ (ReaderStep(r) /\ ~ReaderPanics(r)) \/ InjectorStep(r) \/ Stop(r)
      PROVE  FreshSessions'
  <2>1. UNCHANGED <<hpc, conn, accepted, started>>
    BY <1>5 DEF ClientSends, ReaderOverreads, ReaderGivesUp, ReaderStep, ReaderGets, ReaderAcks,
       ReaderSends, ReaderEnds, InjectorStep, Take, TakeNothing, OpenRing, OpenFails, WriteRing, Stop,
       readerVars, vars, handlerVars
  <2>2. \A q \in Requests : rd'[q] = rd[q] \/ rd[q] \in {"read", "ack", "send"}
                                          \/ (rd[q] # "none" /\ rd'[q] = "gone")
    BY <1>d, <1>5 DEF ClientSends, ReaderOverreads, ReaderGivesUp, ReaderStep, ReaderGets, ReaderAcks,
       ReaderSends, ReaderEnds, InjectorStep, Take, TakeNothing, OpenRing, OpenFails, WriteRing, Stop,
       readerVars, Read
  <2> QED BY <1>4, <2>1, <2>2
<1>6. CASE CrashSessions
  <2>1. /\ UNCHANGED <<accepted, started>> /\ \A t \in Services : hpc'[t] = "accept"
        /\ \A q \in Requests : rd[q] = "none" => rd'[q] = "none"
    BY <1>6 DEF CrashSessions, Crash
  <2> QED BY <2>1 DEF FreshSessions
<1>9. (\E r \in Requests : ReaderPanics(r)) \/ OtherCrash => CrashSessions
  BY DEF ReaderPanics, OtherCrash
<1>7. ASSUME NEW r \in Requests, Simulate(r) PROVE FreshSessions'
  <2>1. UNCHANGED <<hpc, conn, accepted, started, rd>>
    BY <1>7, StartShape DEF Simulate, handlerVars, readerVars
  <2> QED BY <2>1 DEF FreshSessions
<1>8. CASE OtherStep
  <2>1. UNCHANGED <<hpc, conn, accepted, started, rd>>
    BY <1>8 DEF OtherStep, ProcEnds, ProcQuits, LoseRecord, Restart, allVars, vars, handlerVars, sessionVars, readerVars
  <2> QED BY <2>1 DEF FreshSessions
<1> QED BY <1>1, <1>3, <1>5, <1>6, <1>7, <1>8, <1>9, SessionParts DEF SessionHandlerStep

\* What a handler's step does to the readers.
LEMMA HandlerReads ==
  ASSUME Inv, SessionTypeOK, FreshSessions, NEW s \in Services, SessionHandlerStep(s), NEW q \in Requests
  PROVE  /\ rd'[q] = rd[q] \/ (~Holds(q) /\ ~Holds(q)')
         /\ rd'[q] = "overread" => rd[q] = "overread" \/ (HandlerOverreads(s) /\ q = conn[s])
<1> USE SessionTypes DEF Read, Holds
<1>1. CASE DropSession(s)
  <2>1. rd[conn[s]] \in NotReading /\ rd' = [rd EXCEPT ![conn[s]] = "gone"]
    BY <1>1 DEF DropSession, ReadFails, FreshSessions
  <2> QED BY <2>1 DEF NotReading
<1>2. CASE StartSession(s)
  BY <1>2 DEF StartSession
<1>3. CASE HandlerOverreads(s)
  BY <1>3 DEF HandlerOverreads
<1>4. CASE rd' = rd
  BY <1>4
<1> QED BY <1>1, <1>2, <1>3, <1>4 DEF SessionHandlerStep, SessionHandler, ConfirmStart, EndSession,
           CloseChannel, CloseConnection, sessionVars, readerVars

\* Without a crash nothing that was read is forgotten.
CountInv ==
  crashes = 0 => \A r \in Requests : ~Holds(r) => got[r] = Len(taken[r]) + Len(ch[r])

LEMMA CountInvStep ==
  ASSUME Inv, SessionTypeOK, ReaderInv, ReaderInv', FreshSessions, CountInv, [SessionNext]_allVars
  PROVE  CountInv'
<1> SUFFICES ASSUME crashes' = 0, NEW q \in Requests, ~Holds(q)'
             PROVE  got'[q] = Len(taken'[q]) + Len(ch'[q])
  BY DEF CountInv, Holds
<1>1. crashes = 0 /\ Up
  BY CrashesCounted DEF Inv, TypeOK, TypeHistory, Up
<1>2. ~Holds(q) => got[q] = Len(taken[q]) + Len(ch[q])
  BY <1>1 DEF CountInv
<1>3. ASSUME NEW s \in Services, SessionHandlerStep(s) PROVE ~Holds(q) /\ UNCHANGED <<got, taken, ch>>
  BY <1>3, HandlerShape, HandlerReads DEF Holds, injectorVars
<1>4. ASSUME NEW r \in Requests, ClientSends(r) \/ ReaderOverreads(r) \/ ReaderGivesUp(r)
      PROVE  ~Holds(q) /\ UNCHANGED <<got, taken, ch>>
  BY <1>4, SessionTypes DEF ClientSends, ReaderOverreads, ReaderGivesUp, Holds, Read, readerVars, injectorVars
<1>5. ASSUME NEW r \in Requests, ReaderStep(r) PROVE got'[q] = Len(taken'[q]) + Len(ch'[q])
  <2>1. CASE ReaderSends(r) /\ q = r
    <3>1. rd'[q] = "read"
      BY <2>1, SessionTypes DEF ReaderSends, Read
    <3> QED BY <3>1 DEF ReaderInv
  <2>2. CASE ReaderPanics(r)
    <3>1. crashes' = crashes + 1
      BY <2>2 DEF ReaderPanics, CrashSessions, Crash
    <3> QED BY <1>1, <3>1
  <2>3. CASE ~ReaderPanics(r) /\ ~(ReaderSends(r) /\ q = r)
    <3>1. ~Holds(q) /\ got'[q] = got[q] /\ taken' = taken /\ ch'[q] = ch[q]
      BY <1>5, <2>3, SessionTypes DEF ReaderStep, ReaderGets, ReaderAcks, ReaderSends, ReaderEnds, Holds,
         Read, injectorVars
    <3> QED BY <1>2, <3>1
  <2> QED BY <2>1, <2>2, <2>3
<1>6. ASSUME NEW r \in Requests, InjectorStep(r) \/ Stop(r) \/ Simulate(r)
      PROVE  got'[q] = Len(taken'[q]) + Len(ch'[q])
  <2>1. rd' = rd /\ Len(taken'[q]) + Len(ch'[q]) = Len(taken[q]) + Len(ch[q])
    BY <1>6, InjectorKeepsReaders
  <2>2. got' = got
    BY <1>6 DEF InjectorStep, Take, TakeNothing, OpenRing, OpenFails, WriteRing, Stop, Simulate, readerVars
  <2> QED BY <1>2, <2>1, <2>2 DEF Holds
<1>7. CASE OtherStep
  BY <1>2, <1>7 DEF OtherStep, allVars, sessionVars, readerVars, injectorVars, Holds
<1>8. ~OtherCrash
  BY <1>1 DEF OtherCrash, CrashSessions, Crash
<1> QED BY <1>2, <1>3, <1>4, <1>5, <1>6, <1>7, <1>8, SessionParts
----------------------------------------------------------------------------
(***************************************************************************)
(* Clients that wait for their answers.                                    *)
(***************************************************************************)
PatientClient(r) ==
  /\ sent[r] <= Messages(r)
  /\ Messages(r) > 0 => r \in started
  /\ rd[r] = "overread" => Ended(r)

PatientInv == \A r \in Requests \ piped : PatientClient(r)

LEMMA MessageCounts ==
  ASSUME SessionTypeOK, NEW r \in Requests
  PROVE  Messages(r) \in Int /\ sent[r] \in Nat /\ got[r] \in Nat
BY SessionTypes DEF Messages, Confirmed

\* Answers stay, and a session that ends well had started.
LEMMA RepliesStay ==
  ASSUME Inv, ServiceInv, SessionTypeOK, [SessionNext]_allVars, NEW r \in Requests
  PROVE  /\ Ended(r) => Ended(r)'
         /\ Ended(r)' => Ended(r) \/ (r \in started /\ UNCHANGED sessionVars)
<1> USE HandlerTypes DEF Inv
<1>1. ASSUME NEW s \in Services, HandlerStep(s)
      PROVE  \/ reply' = reply
             \/ /\ reply[conn[s]] = "none" /\ Reply(s)
                /\ \A q \in Requests : q # conn[s] => reply'[q] = reply[q]
             \/ \A q \in Requests : reply'[q] # reply[q] => reply[q] = "none" /\ reply'[q] = "dropped"
  <2>1. CASE ReadFails(s)
    <3>1. reply[conn[s]] = "none" /\ reply' = [reply EXCEPT ![conn[s]] = "dropped"]
      BY <2>1 DEF ReadFails, ServiceInv, AnsweredOnce
    <3> QED BY <3>1
  <2>2. CASE Reply(s)
    <3>1. reply[conn[s]] = "none" /\ reply' = [reply EXCEPT ![conn[s]] = Outcome(conn[s])]
      BY <2>2 DEF Reply, ServiceInv, AnsweredOnce
    <3> QED BY <2>2, <3>1
  <2> QED BY <1>1, <2>1, <2>2 DEF HandlerStep, Lock, ReadRequest, Unlock
<1>2. ASSUME NEW s \in Services, SessionHandlerStep(s)
      PROVE  /\ Ended(r) => Ended(r)'
             /\ Ended(r)' => Ended(r) \/ (r \in started /\ UNCHANGED sessionVars)
  <2>1. CASE Reply(s)
    <3>1. EndSession(s)
      BY <1>2, <2>1 DEF SessionHandlerStep, SessionHandler, HandlerOverreads, StartSession, DropSession,
         ConfirmStart, EndSession, CloseChannel, CloseConnection, Accept, Lock, ReadRequest, ReadFails,
         Reply, Unlock, vars, handlerVars
    <3>2. reply[conn[s]] = "none" /\ \A q \in Requests : q # conn[s] => reply'[q] = reply[q]
      BY <1>1, <2>1 DEF HandlerStep, Reply, ServiceInv, AnsweredOnce
    <3> QED BY <3>1, <3>2 DEF EndSession, Ended
  <2>2. CASE ~Reply(s)
    <3>1. reply' = reply \/ HandlerStep(s)
      BY <1>2 DEF SessionHandlerStep, SessionHandler, HandlerOverreads, StartSession, DropSession,
         ConfirmStart, EndSession, CloseChannel, CloseConnection, Accept, HandlerStep, vars, handlerVars
    <3> QED BY <1>1, <2>2, <3>1 DEF Ended
  <2> QED BY <2>1, <2>2
<1>3. (\E q \in Requests : ReaderPanics(q)) \/ OtherCrash => (Ended(r)' <=> Ended(r))
  BY DEF ReaderPanics, OtherCrash, CrashSessions, Crash, Ended
<1>4. ASSUME NEW q \in Requests, Simulate(q) PROVE reply' = reply
  BY <1>4, StartShape DEF Simulate, handlerVars
<1>5. ASSUME NEW q \in Requests,
             \/ ClientSends(q) \/ ReaderOverreads(q) \/ ReaderGivesUp(q)
             \/ (ReaderStep(q) /\ ~ReaderPanics(q)) \/ InjectorStep(q) \/ Stop(q)
      PROVE  reply' = reply
  BY <1>5 DEF ClientSends, ReaderOverreads, ReaderGivesUp, ReaderStep, ReaderGets, ReaderAcks,
     ReaderSends, ReaderEnds, InjectorStep, Take, TakeNothing, OpenRing, OpenFails, WriteRing, Stop,
     vars, handlerVars
<1>6. OtherStep => reply' = reply
  BY DEF OtherStep, ProcEnds, ProcQuits, LoseRecord, Restart, allVars, vars, handlerVars
<1> QED BY <1>2, <1>3, <1>4, <1>5, <1>6, SessionParts DEF Ended

LEMMA PatienceCounts ==
  ASSUME NEW n \in Nat, NEW c \in Int, NEW d \in Int, NEW a \in {0, 1}, NEW b \in {0, 1},
         NEW a2 \in {0, 1}, NEW b2 \in {0, 1}, a <= a2, b <= b2,
         n <= c + a + b, c + a + b > 0 => a = 1,
         d = c \/ (d = c + 1 /\ c + a + b > 0), b2 = 1 => b = 1 \/ a = 1
  PROVE  n <= d + a2 + b2 /\ (d + a2 + b2 > 0 => a2 = 1)
<1>1. n <= d + a2 + b2
  OBVIOUS
<1>2. ASSUME d + a2 + b2 > 0, a2 = 0 PROVE FALSE
  BY <1>2
<1> QED BY <1>1, <1>2

\* Messages only come, and each but the first comes after "Simulation started".
LEMMA PatienceKept ==
  ASSUME SessionTypeOK, SessionTypeOK', NEW r \in Requests, PatientClient(r), sent'[r] = sent[r],
         Confirmed(r)' = Confirmed(r) \/ (Confirmed(r)' = Confirmed(r) + 1 /\ Messages(r) > 0),
         started \subseteq started', Ended(r) => Ended(r)', Ended(r)' => Ended(r) \/ r \in started,
         rd'[r] = "overread" => rd[r] = "overread" \/ Ended(r)
  PROVE  PatientClient(r)'
<1> DEFINE c == Confirmed(r)
           a == IF r \in started THEN 1 ELSE 0
           b == IF Ended(r) THEN 1 ELSE 0
           m == c + a + b
<1>1. c \in Int /\ c' \in Int /\ sent[r] \in Nat
  <2>1. got[r] \in Nat /\ got'[r] \in Nat /\ sent[r] \in Nat
    BY SessionTypes DEF SessionTypeOK
  <2> QED BY <2>1 DEF Confirmed
<1>2. a \in {0, 1} /\ b \in {0, 1} /\ a' \in {0, 1} /\ b' \in {0, 1}
  OBVIOUS
<1>3. a <= a' /\ b <= b'
  OBVIOUS
<1>4. (a = 1 <=> r \in started) /\ (a' = 1 <=> r \in started') /\ (b = 1 <=> Ended(r)) /\ (b' = 1 <=> Ended(r)')
  OBVIOUS
<1>5. Messages(r) = m /\ Messages(r)' = m'
  BY DEF Messages
<1>6. sent[r] <= m /\ (m > 0 => a = 1)
  BY <1>4, <1>5 DEF PatientClient
<1>7. c' = c \/ (c' = c + 1 /\ m > 0)
  BY <1>5
<1>8. b' = 1 => b = 1 \/ a = 1
  BY <1>4
<1>9. sent[r] <= c' + a' + b' /\ (c' + a' + b' > 0 => a' = 1)
  BY <1>1, <1>2, <1>3, <1>6, <1>7, <1>8, PatienceCounts, Zenon
<1>10. sent'[r] <= Messages(r)' /\ (Messages(r)' > 0 => r \in started')
  BY <1>4, <1>5, <1>9
<1>11. rd'[r] = "overread" => Ended(r)'
  BY DEF PatientClient
<1> QED BY <1>10, <1>11 DEF PatientClient

LEMMA PatientInvStep ==
  ASSUME Inv, ServiceInv, SessionTypeOK, SessionTypeOK', ReaderInv, FreshSessions, PatientInv,
         [SessionNext]_allVars
  PROVE  PatientInv'
<1> SUFFICES ASSUME NEW r \in Requests, r \notin piped' PROVE PatientClient(r)'
  BY DEF PatientInv, PatientClient, Messages, Confirmed, Ended
<1>t. sent[r] \in Nat /\ got[r] \in Nat /\ DOMAIN rd = Requests /\ DOMAIN got = Requests /\ DOMAIN sent = Requests
  BY SessionTypes
<1>e. (Ended(r) => Ended(r)') /\ (Ended(r)' => Ended(r) \/ (r \in started /\ UNCHANGED sessionVars))
  BY RepliesStay
<1>p. piped \subseteq piped'
  BY DEF SessionNext, SessionHandler, HandlerOverreads, StartSession, DropSession, ConfirmStart,
     EndSession, CloseChannel, CloseConnection, ClientSends, ReaderOverreads, ReaderGivesUp, ReaderStep,
     ReaderGets, ReaderAcks, ReaderSends, ReaderPanics, CrashSessions, ReaderEnds, Simulate, InjectorStep, Take,
     TakeNothing, OpenRing, OpenFails, WriteRing, Stop, OtherCrash, allVars, sessionVars, clientVars
<1>c. PatientClient(r)
  BY <1>p DEF PatientInv
<1>1. ASSUME NEW s \in Services, SessionHandlerStep(s) PROVE PatientClient(r)'
  <2>1. UNCHANGED <<sent, got>> /\ started \subseteq started'
    BY <1>1, HandlerShape DEF clientVars
  <2>2. rd'[r] = rd[r] \/ (~Holds(r) /\ ~Holds(r)')
    BY <1>1, HandlerReads
  <2>3. Confirmed(r)' = Confirmed(r)
    BY <2>1, <2>2 DEF Confirmed, Holds
  <2>4. rd'[r] = "overread" => rd[r] = "overread"
    <3>1. CASE HandlerOverreads(s) /\ r = conn[s]
      <4>1. sent[r] > 0 /\ r \notin started
        BY <3>1 DEF HandlerOverreads, FreshSessions
      <4>2. Messages(r) > 0
        BY <1>c, <1>t, <4>1, MessageCounts DEF PatientClient
      <4> QED BY <1>c, <4>1, <4>2 DEF PatientClient
    <3> QED BY <1>1, <3>1, HandlerReads
  <2> QED BY <1>c, <1>e, <2>1, <2>3, <2>4, PatienceKept
<1>2. ASSUME NEW q \in Requests, ClientSends(q) PROVE PatientClient(r)'
  <2>1. UNCHANGED <<got, rd, started, reply>>
    BY <1>2 DEF ClientSends, readerVars, vars, handlerVars
  <2>2. Messages(r)' = Messages(r) /\ (Ended(r)' <=> Ended(r))
    BY <2>1 DEF Messages, Confirmed, Ended
  <2>3. CASE q = r
    <3>1. Messages(r) > sent[r] /\ sent'[r] = sent[r] + 1
      BY <1>2, <1>t, <2>3 DEF ClientSends, Answered
    <3>2. sent'[r] <= Messages(r)
      BY <1>t, <3>1, MessageCounts
    <3> QED BY <1>c, <2>1, <2>2, <3>2 DEF PatientClient
  <2>4. CASE q # r
    <3>1. sent'[r] = sent[r]
      BY <1>2, <1>t, <2>4 DEF ClientSends
    <3> QED BY <1>c, <2>1, <2>2, <3>1 DEF PatientClient
  <2> QED BY <2>3, <2>4
<1>3. ASSUME NEW q \in Requests, ReaderOverreads(q) PROVE PatientClient(r)'
  <2>1. UNCHANGED <<sent, got, started>>
    BY <1>3 DEF ReaderOverreads, clientVars
  <2>2. CASE q # r
    <3>1. rd'[r] = rd[r]
      BY <1>3, <1>t, <2>2 DEF ReaderOverreads, Read
    <3>2. Confirmed(r)' = Confirmed(r)
      BY <2>1, <3>1 DEF Confirmed
    <3> QED BY <1>c, <1>e, <2>1, <3>1, <3>2, PatienceKept
  <2>3. CASE q = r
    <3>1. rd[r] = "read" /\ rd'[r] = "overread" /\ got[r] + 1 < sent[r]
      BY <1>3, <1>t, <2>3 DEF ReaderOverreads, Read
    <3>2. Confirmed(r) = got[r] /\ Confirmed(r)' = got[r]
      BY <1>t, <2>1, <3>1 DEF Confirmed
    <3>3. Ended(r)
      <4>1. got[r] + 1 < Messages(r)
        BY <1>c, <1>t, <3>1, MessageCounts DEF PatientClient
      <4> QED BY <1>t, <3>2, <4>1 DEF Messages
    <3> QED BY <1>c, <1>e, <2>1, <3>2, <3>3, PatienceKept
  <2> QED BY <2>2, <2>3
<1>4. ASSUME NEW q \in Requests, ReaderStep(q) \/ ReaderGivesUp(q) \/ OtherCrash PROVE PatientClient(r)'
  <2>1. UNCHANGED <<sent, started>>
    BY <1>4 DEF ReaderStep, ReaderGets, ReaderAcks, ReaderSends, ReaderPanics, CrashSessions, ReaderEnds,
       ReaderGivesUp, OtherCrash, clientVars
  <2>2. rd'[r] = "overread" => rd[r] = "overread"
    BY <1>4, <1>t DEF ReaderStep, ReaderGets, ReaderAcks, ReaderSends, ReaderPanics, CrashSessions, ReaderEnds,
       ReaderGivesUp, OtherCrash, Read
  <2>3. \/ got'[r] = got[r] /\ (rd[r] = "ack" <=> rd'[r] = "ack")
        \/ got'[r] = got[r] + 1 /\ rd[r] = "read" /\ rd'[r] = "ack"
        \/ got'[r] = got[r] /\ rd[r] = "ack" /\ rd'[r] # "ack"
    BY <1>4, <1>t DEF ReaderStep, ReaderGets, ReaderAcks, ReaderSends, ReaderPanics, CrashSessions, ReaderEnds,
       ReaderGivesUp, OtherCrash, Read
  <2>4. rd[r] = "ack" => Messages(r) > 0
    <3>1. rd[r] = "ack" => sent[r] > 0
      <4>1. Len(taken[r]) \in Nat /\ Len(ch[r]) \in Nat
        BY SessionTypes
      <4>2. rd[r] = "ack" => got[r] = Len(taken[r]) + Len(ch[r]) + 1 /\ got[r] <= sent[r]
        BY DEF ReaderInv, Holds
      <4>3. \A m, n, g, k \in Nat : g = m + n + 1 /\ g <= k => k > 0
        OBVIOUS
      <4> QED BY <1>t, <4>1, <4>2, <4>3, Zenon
    <3> QED BY <1>c, <1>t, <3>1, MessageCounts DEF PatientClient
  <2>5. Confirmed(r)' = Confirmed(r) \/ (Confirmed(r)' = Confirmed(r) + 1 /\ Messages(r) > 0)
    BY <1>t, <2>3, <2>4 DEF Confirmed
  <2> QED BY <1>c, <1>e, <2>1, <2>2, <2>5, PatienceKept
<1>5. ASSUME UNCHANGED <<sent, got, rd, started>> PROVE PatientClient(r)'
  <2>1. Confirmed(r)' = Confirmed(r)
    BY <1>5 DEF Confirmed
  <2> QED BY <1>5, <1>c, <1>e, <2>1, PatienceKept
<1>6. ASSUME NEW q \in Requests, InjectorStep(q) \/ Stop(q) \/ Simulate(q)
      PROVE  UNCHANGED <<sent, got, rd, started>>
  BY <1>6 DEF InjectorStep, Take, TakeNothing, OpenRing, OpenFails, WriteRing, Stop, Simulate,
     clientVars, readerVars
<1>7. OtherStep => UNCHANGED <<sent, got, rd, started>>
  BY DEF OtherStep, allVars, sessionVars, clientVars, readerVars
<1>8. OtherCrash => PatientClient(r)'
  <2>1. 1 \in Requests
    BY ConstFacts DEF Requests
  <2> QED BY <1>4, <2>1
<1> QED BY <1>1, <1>2, <1>3, <1>4, <1>5, <1>6, <1>7, <1>8, SessionParts
----------------------------------------------------------------------------
(***************************************************************************)
(* Where perturbations go: the last one taken may be in the injector's     *)
(* hands; of those before it each has failed or is in one ring.            *)
(***************************************************************************)
HandsInv ==
  \A r \in Requests :
    /\ item[r] = 0 \/ item[r] = Len(taken[r])
    /\ inj[r] \in {"none", "select"} => item[r] = 0
    /\ inj[r] = "gone" /\ crashes = 0 => item[r] = 0

InOnePlace(r, k) ==
  \/ k \in failed[r] /\ Rings(r, k) = {}
  \/ k \notin failed[r] /\ \E q \in Requests : Rings(r, k) = {q}

Nowhere(r, k) == k \notin failed[r] /\ Rings(r, k) = {}

PlaceInv ==
  \A r \in Requests, k \in Perts :
    IF item[r] = k \/ k > Len(taken[r]) THEN Nowhere(r, k) ELSE InOnePlace(r, k)

OnceInv == \A q \in Requests : \A i, j \in DOMAIN ring[q] : ring[q][i] = ring[q][j] => i = j

LEMMA HandsInvStep ==
  ASSUME Inv, SessionTypeOK, OrderInv, InjectorInv, HandsInv, [SessionNext]_allVars
  PROVE  HandsInv'
<1>t. DOMAIN inj = Requests /\ DOMAIN item = Requests
  BY SessionTypes
<1>c. crashes' = 0 => crashes = 0
  BY CrashesCounted DEF Inv, TypeOK, TypeHistory
<1>1. ASSUME UNCHANGED <<inj, item, taken>> PROVE HandsInv'
  BY <1>1, <1>c DEF HandsInv
<1>2. ASSUME NEW r \in Requests, Take(r) PROVE HandsInv'
  <2>1. /\ \A q \in Requests : inj'[q] = IF q = r THEN "open" ELSE inj[q]
        /\ \A q \in Requests : item'[q] = IF q = r THEN Head(ch[r]) ELSE item[q]
        /\ \A q \in Requests : q # r => taken'[q] = taken[q]
    BY <1>t, <1>2, SessionTypes DEF Take, InjectorAt
  <2>2. Head(ch[r]) = Len(taken'[r])
    BY <1>2, TakenInOrder
  <2> QED BY <1>c, <2>1, <2>2 DEF HandsInv
<1>3. ASSUME NEW r \in Requests, TakeNothing(r) \/ Stop(r) \/ OpenRing(r) PROVE HandsInv'
  <2>1. /\ UNCHANGED <<item, taken>> /\ \A q \in Requests : q # r => inj'[q] = inj[q]
        /\ inj'[r] \in {"open", "write", "gone"} /\ (inj'[r] = "gone" => inj[r] = "select")
    BY <1>t, <1>3 DEF TakeNothing, Stop, OpenRing, InjectorAt
  <2> QED BY <1>c, <2>1 DEF HandsInv
<1>4. ASSUME NEW r \in Requests, OpenFails(r) \/ WriteRing(r) PROVE HandsInv'
  <2>1. /\ taken' = taken
        /\ \A q \in Requests : inj'[q] = IF q = r THEN "select" ELSE inj[q]
        /\ \A q \in Requests : item'[q] = IF q = r THEN 0 ELSE item[q]
    BY <1>t, <1>4 DEF OpenFails, WriteRing, InjectorAt
  <2> QED BY <1>c, <2>1 DEF HandsInv
<1>5. ASSUME NEW r \in Requests, Simulate(r) PROVE HandsInv'
  <2>1. /\ UNCHANGED <<item, taken>> /\ \A q \in Requests : q # r => inj'[q] = inj[q]
        /\ inj'[r] = inj[r] \/ (phase[r] = "pin_rb" /\ inj'[r] = "select")
    BY <1>t, <1>5 DEF Simulate, InjectorAt
  <2>2. phase[r] = "pin_rb" => inj[r] = "none"
    BY DEF InjectorInv, AfterRing
  <2> QED BY <1>c, <2>1, <2>2 DEF HandsInv
<1>6. CASE CrashSessions
  <2>1. /\ UNCHANGED <<item, taken>> /\ crashes' = crashes + 1
        /\ \A q \in Requests : inj'[q] = IF inj[q] = "none" THEN "none" ELSE "gone"
    BY <1>6 DEF CrashSessions, Crash
  <2>2. crashes' # 0
    BY <2>1 DEF Inv, TypeOK, TypeHistory
  <2> QED BY <2>1, <2>2 DEF HandsInv
<1>7. ASSUME NEW s \in Services, SessionHandlerStep(s) PROVE UNCHANGED <<inj, item, taken>>
  BY <1>7, HandlerShape DEF injectorVars
<1>8. ASSUME NEW r \in Requests,
             \/ ClientSends(r) \/ ReaderOverreads(r) \/ ReaderGivesUp(r)
             \/ (ReaderStep(r) /\ ~ReaderPanics(r))
      PROVE  UNCHANGED <<inj, item, taken>>
  BY <1>8 DEF ClientSends, ReaderOverreads, ReaderGivesUp, ReaderStep, ReaderGets, ReaderAcks,
     ReaderSends, ReaderEnds, injectorVars
<1>9. OtherStep => UNCHANGED <<inj, item, taken>>
  BY DEF OtherStep, allVars, sessionVars, injectorVars
<1>10. (\E r \in Requests : ReaderPanics(r)) \/ OtherCrash => CrashSessions
  BY DEF ReaderPanics, OtherCrash
<1> QED BY <1>1, <1>2, <1>3, <1>4, <1>5, <1>6, <1>7, <1>8, <1>9, <1>10, SessionParts DEF InjectorStep

LEMMA OneMoreElement ==
  ASSUME NEW S, NEW q \in Seq(S), NEW x \in S
  PROVE  /\ DOMAIN Append(q, x) = 1 .. Len(q) + 1 /\ DOMAIN q = 1 .. Len(q) /\ Len(q) \in Nat
         /\ \A i \in 1 .. Len(q) : Append(q, x)[i] = q[i]
         /\ Append(q, x)[Len(q) + 1] = x
<1>1. /\ Append(q, x) \in Seq(S) /\ Len(Append(q, x)) = Len(q) + 1
      /\ \A i \in 1 .. Len(q) : Append(q, x)[i] = q[i]
      /\ Append(q, x)[Len(q) + 1] = x
  BY AppendProperties
<1>2. DOMAIN Append(q, x) = 1 .. Len(Append(q, x)) /\ DOMAIN q = 1 .. Len(q) /\ Len(q) \in Nat
  BY <1>1, LenProperties
<1> QED BY <1>1, <1>2

LEMMA WrittenOnce ==
  ASSUME SessionTypeOK, TargetInv, PlaceInv, OnceInv, NEW r \in Requests, WriteRing(r), item[r] # 0
  PROVE  /\ target[r] \in Requests /\ item[r] \in Perts
         /\ \A k \in Perts : k = item[r] => Rings(r, k)' = {target[r]}
         /\ \A p \in Requests, k \in Perts : p # r \/ k # item[r] => Rings(p, k)' = Rings(p, k)
         /\ OnceInv'
<1> DEFINE t == target[r]
           x == [req |-> r, no |-> item[r]]
<1>1. t \in Requests /\ item[r] \in Perts /\ x \in Records /\ ring[t] \in Seq(Records)
  <2>1. t \in Requests
    BY DEF WriteRing, TargetInv
  <2>2. item[r] \in 0 .. MaxPerts
    BY SessionTypes
  <2>3. item[r] \in Perts
    BY <2>2, SessionAssumption DEF Perts
  <2> QED BY <2>1, <2>3, SessionTypes DEF Records
<1>2. \A q \in Requests : ring'[q] = IF q = t THEN Append(ring[t], x) ELSE ring[q]
  BY <1>1, SessionTypes DEF WriteRing
<1>3. /\ DOMAIN ring'[t] = 1 .. Len(ring[t]) + 1 /\ DOMAIN ring[t] = 1 .. Len(ring[t])
      /\ \A i \in 1 .. Len(ring[t]) : ring'[t][i] = ring[t][i]
      /\ ring'[t][Len(ring[t]) + 1] = x
      /\ Len(ring[t]) \in Nat
  <2>1. ring'[t] = Append(ring[t], x)
    BY <1>1, <1>2
  <2> HIDE DEF t, x
  <2>2. /\ DOMAIN Append(ring[t], x) = 1 .. Len(ring[t]) + 1
        /\ DOMAIN ring[t] = 1 .. Len(ring[t]) /\ Len(ring[t]) \in Nat
        /\ \A i \in 1 .. Len(ring[t]) : Append(ring[t], x)[i] = ring[t][i]
        /\ Append(ring[t], x)[Len(ring[t]) + 1] = x
    <3>1. ring[t] \in Seq(Records) /\ x \in Records
      BY <1>1
    <3> QED BY <3>1, OneMoreElement
  <2> QED BY <2>1, <2>2
<1>4. 1 .. Len(ring[t]) + 1 = (1 .. Len(ring[t])) \cup {Len(ring[t]) + 1}
  BY <1>3
<1> HIDE DEF x
<1>5. \A y : (\E i \in DOMAIN ring'[t] : ring'[t][i] = y) <=> ((\E i \in DOMAIN ring[t] : ring[t][i] = y) \/ y = x)
  BY <1>3, <1>4
<1>6. \A p \in Requests, k \in Perts : [req |-> p, no |-> k] = x <=> p = r /\ k = item[r]
  BY DEF x
<1>7. \A p \in Requests, k \in Perts, q \in Requests :
        q \in Rings(p, k)' <=> q \in Rings(p, k) \/ (q = t /\ p = r /\ k = item[r])
  <2> TAKE p \in Requests, k \in Perts, q \in Requests
  <2>1. CASE q = t
    BY <1>5, <1>6, <2>1 DEF Rings
  <2>2. CASE q # t
    BY <1>2, <2>2 DEF Rings
  <2> QED BY <2>1, <2>2
<1>8. Rings(r, item[r]) = {}
  BY <1>1 DEF PlaceInv, Nowhere
<1>9. \A k \in Perts : k = item[r] => Rings(r, k)' = {t}
  <2> TAKE k \in Perts
  <2>1. \A q \in Requests : k = item[r] => (q \in Rings(r, k)' <=> q = t)
    BY <1>7, <1>8
  <2>2. Rings(r, k)' \subseteq Requests
    BY DEF Rings
  <2> QED BY <1>1, <2>1, <2>2
<1>10. \A p \in Requests, k \in Perts : p # r \/ k # item[r] => Rings(p, k)' = Rings(p, k)
  BY <1>7 DEF Rings
<1>11. OnceInv'
  <2>1. \A i \in DOMAIN ring[t] : ring[t][i] # x
    BY <1>1, <1>8 DEF Rings, x
  <2>2. \A i, j \in DOMAIN ring'[t] : ring'[t][i] = ring'[t][j] => i = j
    <3>1. \A i, j \in DOMAIN ring[t] : ring[t][i] = ring[t][j] => i = j
      BY <1>1 DEF OnceInv
    <3>2. \A i \in DOMAIN ring'[t] : i \in DOMAIN ring[t] \/ i = Len(ring[t]) + 1
      BY <1>3, <1>4
    <3>3. \A i \in DOMAIN ring[t] : ring'[t][i] = ring[t][i]
      BY <1>3
    <3> QED BY <1>3, <2>1, <3>1, <3>2, <3>3, Zenon
  <2> QED BY <1>2, <2>2 DEF OnceInv
<1> QED BY <1>1, <1>9, <1>10, <1>11

LEMMA PlaceInvStep ==
  ASSUME Inv, SessionTypeOK, TargetInv, OrderInv, HandsInv, PlaceInv, OnceInv, [SessionNext]_allVars
  PROVE  PlaceInv' /\ OnceInv'
<1>t. \A r \in Requests : Len(taken[r]) \in Nat /\ item[r] \in 0 .. MaxPerts
  BY SessionTypes
<1>p. Perts \subseteq Nat /\ 0 \notin Perts
  BY SessionAssumption DEF Perts
<1>o. ASSUME ring' = ring PROVE OnceInv' /\ \A p \in Requests, k \in Perts : Rings(p, k)' = Rings(p, k)
  BY <1>o DEF OnceInv, Rings
<1>1. ASSUME UNCHANGED <<item, taken, failed, ring>> PROVE PlaceInv' /\ OnceInv'
  BY <1>1, <1>o DEF PlaceInv, InOnePlace, Nowhere
<1>2. ASSUME NEW r \in Requests, Take(r) PROVE PlaceInv' /\ OnceInv'
  <2>1. /\ UNCHANGED <<failed, ring>> /\ inj[r] = "select"
        /\ \A q \in Requests : item'[q] = IF q = r THEN Head(ch[r]) ELSE item[q]
        /\ \A q \in Requests : q # r => taken'[q] = taken[q]
    BY <1>2, SessionTypes DEF Take
  <2>2. Head(ch[r]) = Len(taken[r]) + 1 /\ Len(taken'[r]) = Len(taken[r]) + 1 /\ item[r] = 0
    BY <1>2, <2>1, TakenInOrder DEF HandsInv
  <2>3. ASSUME NEW q \in Requests, NEW k \in Perts
        PROVE  IF item'[q] = k \/ k > Len(taken'[q]) THEN Nowhere(q, k)' ELSE InOnePlace(q, k)'
    <3>1. (Nowhere(q, k)' <=> Nowhere(q, k)) /\ (InOnePlace(q, k)' <=> InOnePlace(q, k))
      BY <1>o, <2>1 DEF Nowhere, InOnePlace
    <3>2. item'[q] = k \/ k > Len(taken'[q]) <=> item[q] = k \/ k > Len(taken[q])
      <4>1. CASE q = r
        BY <1>p, <1>t, <2>1, <2>2, <4>1
      <4>2. CASE q # r
        BY <2>1, <4>2
      <4> QED BY <4>1, <4>2
    <3> QED BY <3>1, <3>2 DEF PlaceInv
  <2> QED BY <1>o, <2>1, <2>3 DEF PlaceInv
<1>3. ASSUME NEW r \in Requests, OpenFails(r) PROVE PlaceInv' /\ OnceInv'
  <2>1. /\ UNCHANGED <<taken, ring>>
        /\ \A q \in Requests : item'[q] = IF q = r THEN 0 ELSE item[q]
        /\ \A q \in Requests, k \in Perts : k \in failed'[q] <=> k \in failed[q] \/ (q = r /\ k = item[r])
    BY <1>3, <1>p, SessionTypes DEF OpenFails
  <2>2. item[r] \in Perts => item[r] <= Len(taken[r])
    BY <1>p, <1>t DEF HandsInv
  <2>3. ASSUME NEW q \in Requests, NEW k \in Perts
        PROVE  IF item'[q] = k \/ k > Len(taken'[q]) THEN Nowhere(q, k)' ELSE InOnePlace(q, k)'
    <3>1. Rings(q, k)' = Rings(q, k)
      BY <1>o, <2>1
    <3>2. CASE q = r /\ k = item[r]
      <4>1. Rings(q, k) = {} /\ k \in failed'[q] /\ item'[q] # k /\ ~(k > Len(taken'[q]))
        BY <1>p, <1>t, <2>1, <2>2, <3>2 DEF PlaceInv, Nowhere
      <4> QED BY <3>1, <4>1 DEF InOnePlace
    <3>3. CASE ~(q = r /\ k = item[r])
      <4>1. (item'[q] = k <=> item[q] = k) /\ taken'[q] = taken[q] /\ (k \in failed'[q] <=> k \in failed[q])
        BY <1>p, <2>1, <3>3
      <4> QED BY <3>1, <4>1 DEF PlaceInv, Nowhere, InOnePlace
    <3> QED BY <3>2, <3>3
  <2> QED BY <1>o, <2>1, <2>3 DEF PlaceInv
<1>4. ASSUME NEW r \in Requests, WriteRing(r) PROVE PlaceInv' /\ OnceInv'
  <2>1. /\ UNCHANGED <<taken, failed>>
        /\ \A q \in Requests : item'[q] = IF q = r THEN 0 ELSE item[q]
    BY <1>4, SessionTypes DEF WriteRing
  <2>2. CASE item[r] = 0
    <3>1. ring' = ring /\ \A q \in Requests : item'[q] = item[q]
      BY <1>4, <2>1, <2>2 DEF WriteRing
    <3> QED BY <1>o, <2>1, <3>1 DEF PlaceInv, InOnePlace, Nowhere
  <2>3. CASE item[r] # 0
    <3>1. /\ target[r] \in Requests /\ item[r] \in Perts /\ OnceInv'
          /\ \A k \in Perts : k = item[r] => Rings(r, k)' = {target[r]}
          /\ \A p \in Requests, k \in Perts : p # r \/ k # item[r] => Rings(p, k)' = Rings(p, k)
      BY <1>4, <2>3, WrittenOnce
    <3>2. item[r] <= Len(taken[r])
      BY <1>p, <1>t, <2>3 DEF HandsInv
    <3>3. ASSUME NEW q \in Requests, NEW k \in Perts
          PROVE  IF item'[q] = k \/ k > Len(taken'[q]) THEN Nowhere(q, k)' ELSE InOnePlace(q, k)'
      <4>1. CASE q = r /\ k = item[r]
        <5>1. Rings(q, k)' = {target[r]} /\ k \notin failed'[q] /\ item'[q] # k /\ ~(k > Len(taken'[q]))
          BY <1>p, <1>t, <2>1, <3>1, <3>2, <4>1 DEF PlaceInv, Nowhere
        <5> QED BY <3>1, <5>1 DEF InOnePlace
      <4>2. CASE ~(q = r /\ k = item[r])
        <5>1. Rings(q, k)' = Rings(q, k)
          BY <3>1, <4>2
        <5>2. (item'[q] = k <=> item[q] = k) /\ taken'[q] = taken[q] /\ failed'[q] = failed[q]
          BY <1>p, <2>1, <4>2
        <5> QED BY <5>1, <5>2 DEF PlaceInv, Nowhere, InOnePlace
      <4> QED BY <4>1, <4>2
    <3> QED BY <3>1, <3>3 DEF PlaceInv
  <2> QED BY <2>2, <2>3
<1>5. ASSUME NEW s \in Services, SessionHandlerStep(s) PROVE UNCHANGED <<item, taken, failed, ring>>
  BY <1>5, HandlerShape DEF injectorVars
<1>6. ASSUME NEW r \in Requests,
             \/ ClientSends(r) \/ ReaderOverreads(r) \/ ReaderGivesUp(r) \/ ReaderStep(r)
             \/ TakeNothing(r) \/ Stop(r) \/ OpenRing(r) \/ Simulate(r)
      PROVE  UNCHANGED <<item, taken, failed, ring>>
  BY <1>6 DEF ClientSends, ReaderOverreads, ReaderGivesUp, ReaderStep, ReaderGets, ReaderAcks,
     ReaderSends, ReaderPanics, CrashSessions, ReaderEnds, TakeNothing, Stop, OpenRing, Simulate, injectorVars
<1>7. OtherStep \/ OtherCrash => UNCHANGED <<item, taken, failed, ring>>
  BY DEF OtherStep, OtherCrash, CrashSessions, allVars, sessionVars, injectorVars
<1> QED BY <1>1, <1>2, <1>3, <1>4, <1>5, <1>6, <1>7, SessionParts DEF InjectorStep
----------------------------------------------------------------------------
(***************************************************************************)
(* The perturbations' theorems.                                            *)
(***************************************************************************)
PertInv ==
  /\ SessionInv /\ ServiceInv /\ FreshSessions
  /\ PatientInv /\ OrderInv /\ CountInv /\ HandsInv /\ PlaceInv /\ OnceInv

LEMMA InitPertInv == SessionInit => PertInv
<1> SUFFICES ASSUME SessionInit PROVE PertInv
  OBVIOUS
<1>1. SessionInv /\ ServiceInv
  BY InitSessionInv, InitServiceInv DEF SessionInit
<1>2. FreshSessions
  <2>1. \A s \in Services : hpc[s] = "accept"
    BY DEF SessionInit, Init
  <2> QED BY <2>1 DEF SessionInit, FreshSessions
<1>3. PatientInv
  <2>1. \A r \in Requests : Messages(r) = 0 /\ sent[r] = 0 /\ rd[r] = "none"
    BY DEF SessionInit, Init, Messages, Confirmed, Ended
  <2> QED BY <2>1 DEF PatientInv, PatientClient
<1>4. \A r \in Requests : /\ taken[r] = <<>> /\ ch[r] = <<>> /\ ring[r] = <<>> /\ got[r] = 0
                          /\ inj[r] = "none" /\ item[r] = 0 /\ failed[r] = {}
  BY DEF SessionInit
<1>5. OrderInv /\ CountInv
  <2>1. \A r \in Requests : Len(taken[r]) = 0 /\ Len(ch[r]) = 0
    BY <1>4
  <2>2. OrderInv
    BY <2>1 DEF OrderInv, From
  <2>3. CountInv
    <3>0. 0 + 0 = 0
      OBVIOUS
    <3>1. \A r \in Requests : got[r] = Len(taken[r]) + Len(ch[r])
      BY <1>4, <2>1, <3>0, Zenon
    <3> QED BY <3>1 DEF CountInv
  <2> QED BY <2>2, <2>3
<1>h. HandsInv
  BY <1>4 DEF HandsInv
<1>o. OnceInv
  BY <1>4 DEF OnceInv
<1>6. PlaceInv
  <2>1. \A r \in Requests, k \in Perts : Rings(r, k) = {} /\ k \notin failed[r]
    BY <1>4 DEF Rings
  <2>2. \A r \in Requests, k \in Perts : k > Len(taken[r])
    BY <1>4 DEF Perts
  <2> QED BY <2>1, <2>2 DEF PlaceInv, Nowhere
<1> QED BY <1>1, <1>2, <1>3, <1>5, <1>6, <1>h, <1>o DEF PertInv

LEMMA PertInvStep == PertInv /\ [SessionNext]_allVars => PertInv'
<1> SUFFICES ASSUME PertInv, [SessionNext]_allVars PROVE PertInv'
  OBVIOUS
<1>1. SessionInv /\ ServiceInv /\ FreshSessions /\ PatientInv /\ OrderInv /\ CountInv /\ HandsInv
      /\ PlaceInv /\ OnceInv
  BY DEF PertInv
<1>2. SessionInv'
  BY <1>1, SessionInvStep
<1>3. Inv /\ SessionTypeOK /\ SessionTypeOK' /\ ReaderInv /\ ReaderInv' /\ TargetInv /\ InjectorInv
  BY <1>1, <1>2 DEF SessionInv, StrayInv
<1>4. ServiceInv'
  BY <1>1, <1>3, SessionStepIsStep, ServiceInvStep
<1>5. FreshSessions' /\ PatientInv'
  BY <1>1, <1>3, FreshSessionsStep, PatientInvStep
<1>6. OrderInv' /\ CountInv' /\ HandsInv'
  BY <1>1, <1>3, OrderInvStep, CountInvStep, HandsInvStep
<1>7. PlaceInv' /\ OnceInv'
  BY <1>1, <1>3, PlaceInvStep
<1> QED BY <1>2, <1>4, <1>5, <1>6, <1>7 DEF PertInv

\* The way of a perturbation from its client to a ring (server.go:276,
\* simulator.go:605), as one inductive invariant.
THEOREM PerturbationInvariant == SessionSpec => []PertInv
BY InitPertInv, PertInvStep, PTL DEF SessionSpec

\* getData reads beyond the end of a message only for a client that did not
\* wait, or that took the last message for an answer (server.go:66).
THEOREM PatientClientsHaveAnswers == SessionSpec => []PatientClientsAreRead
<1>1. PertInv => PatientClientsAreRead
  BY DEF PertInv, PatientInv, PatientClient, PatientClientsAreRead
<1> QED BY <1>1, PerturbationInvariant, PTL

LEMMA JoinedInOrder ==
  ASSUME NEW S, NEW a \in Seq(S), NEW b \in Seq(S), From(0, a), From(Len(a), b)
  PROVE  Len(a \o b) = Len(a) + Len(b) /\ \A i \in DOMAIN (a \o b) : (a \o b)[i] = i
<1>1. /\ a \o b \in Seq(S) /\ Len(a \o b) = Len(a) + Len(b)
      /\ \A i \in 1 .. Len(a) + Len(b) : (a \o b)[i] = IF i <= Len(a) THEN a[i] ELSE b[i - Len(a)]
  BY ConcatProperties
<1>2. DOMAIN (a \o b) = 1 .. Len(a \o b) /\ Len(a) \in Nat /\ Len(b) \in Nat
  BY <1>1, LenProperties
<1>3. ASSUME NEW i \in 1 .. Len(a) + Len(b) PROVE (a \o b)[i] = i
  <2>1. CASE i <= Len(a)
    <3>1. i \in 1 .. Len(a) /\ a[i] = 0 + i
      BY <1>2, <2>1 DEF From
    <3> QED BY <1>1, <2>1, <3>1
  <2>2. CASE ~(i <= Len(a))
    <3>1. i - Len(a) \in 1 .. Len(b)
      BY <1>2, <2>2
    <3>2. b[i - Len(a)] = Len(a) + (i - Len(a))
      BY <3>1 DEF From
    <3> QED BY <1>1, <1>2, <2>2, <3>2
  <2> QED BY <2>1, <2>2
<1> QED BY <1>1, <1>2, <1>3

LEMMA PlacesAddUp ==
  ASSUME PertInv, NEW r \in Requests, NEW k \in 1 .. Len(taken[r]), crashes = 0
  PROVE  Cardinality(Hands(r, k)) + Cardinality(Trash(r, k)) + Cardinality(Rings(r, k)) = 1
<1>1. SessionTypeOK /\ HandsInv /\ PlaceInv /\ OrderInv
  BY DEF PertInv, SessionInv
<1>2. taken[r] \in Seq(Perts) /\ Len(taken[r]) \in Nat
  BY <1>1, SessionTypes
<1>3. k \in Perts
  <2>1. taken[r][k] \in Perts
    BY <1>2, ElementOfSeq
  <2>2. taken[r][k] = 0 + k
    BY <1>1 DEF OrderInv, From
  <2> QED BY <1>2, <2>1, <2>2
<1>4. Cardinality({}) = 0 /\ \A x : Cardinality({x}) = 1
  BY FS_EmptySet, FS_Singleton
<1>5. ~(k > Len(taken[r])) /\ k # 0
  BY <1>2
<1>6. CASE item[r] = k
  <2>1. inj[r] \in {"open", "write"}
    <3>1. inj[r] \in {"none", "select", "open", "write", "gone"}
      BY <1>1 DEF SessionTypeOK
    <3> QED BY <1>1, <1>5, <1>6, <3>1 DEF HandsInv
  <2>2. Hands(r, k) = {"injector"} /\ Trash(r, k) = {} /\ Rings(r, k) = {}
    BY <1>1, <1>3, <1>6, <2>1 DEF Hands, Trash, PlaceInv, Nowhere
  <2>3. Cardinality(Hands(r, k)) = 1 /\ Cardinality(Trash(r, k)) = 0 /\ Cardinality(Rings(r, k)) = 0
    BY <1>4, <2>2, Zenon
  <2> QED BY <2>3
<1>7. CASE item[r] # k
  <2>1. Hands(r, k) = {} /\ InOnePlace(r, k)
    BY <1>1, <1>3, <1>5, <1>7 DEF Hands, PlaceInv
  <2>2. CASE k \in failed[r] /\ Rings(r, k) = {}
    <3>1. Trash(r, k) = {"failed"}
      BY <2>2 DEF Trash
    <3>2. Cardinality(Hands(r, k)) = 0 /\ Cardinality(Trash(r, k)) = 1 /\ Cardinality(Rings(r, k)) = 0
      BY <1>4, <2>1, <2>2, <3>1, Zenon
    <3> QED BY <3>2
  <2>3. CASE k \notin failed[r] /\ \E q \in Requests : Rings(r, k) = {q}
    <3>1. Trash(r, k) = {} /\ Cardinality(Rings(r, k)) = 1
      BY <1>4, <2>3 DEF Trash
    <3> QED BY <1>4, <2>1, <3>1
  <2> QED BY <2>1, <2>2, <2>3 DEF InOnePlace
<1> QED BY <1>6, <1>7

\* Perturbations go through the channel in order and without a gap, and the
\* injector (simulator.go:605) writes each to one ring, once, or fails to.
THEOREM PerturbationsInOrder == SessionSpec => []InjectedOnceInOrder
<1>1. PertInv => InjectedOnceInOrder
  <2> SUFFICES ASSUME PertInv PROVE InjectedOnceInOrder
    OBVIOUS
  <2>1. SessionTypeOK /\ OrderInv /\ CountInv /\ ReaderInv /\ OnceInv
    BY DEF PertInv, SessionInv
  <2>2. ASSUME NEW r \in Requests
        PROVE  /\ Len(Queue(r)) = Len(taken[r]) + Len(ch[r])
               /\ \A i \in DOMAIN Queue(r) : Queue(r)[i] = i
    <3>1. taken[r] \in Seq(Perts) /\ ch[r] \in Seq(Perts)
      BY <2>1, SessionTypes
    <3>2. From(0, taken[r]) /\ From(Len(taken[r]), ch[r])
      BY <2>1 DEF OrderInv
    <3> QED BY <3>1, <3>2, JoinedInOrder DEF Queue
  <2>3. ASSUME NEW r \in Requests, crashes = 0
        PROVE  got[r] = Len(Queue(r)) + (IF Holds(r) THEN 1 ELSE 0)
    <3>1. Len(taken[r]) \in Nat /\ Len(ch[r]) \in Nat
      BY <2>1, SessionTypes
    <3>2. CASE Holds(r)
      BY <2>1, <2>2, <3>1, <3>2 DEF ReaderInv
    <3>3. CASE ~Holds(r)
      <4>1. got[r] = Len(taken[r]) + Len(ch[r])
        BY <2>1, <2>3, <3>3, Zenon DEF CountInv
      <4>2. Len(Queue(r)) = Len(taken[r]) + Len(ch[r])
        BY <2>2
      <4> QED BY <3>1, <3>3, <4>1, <4>2
    <3> QED BY <3>2, <3>3
  <2>4. \A q \in Requests : IsInjective(ring[q])
    BY <2>1 DEF OnceInv, IsInjective
  <2> QED BY <2>2, <2>3, <2>4, PlacesAddUp DEF InjectedOnceInOrder
<1> QED BY <1>1, PerturbationInvariant, PTL
============================================================================
