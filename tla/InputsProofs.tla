---------------------------- MODULE InputsProofs -----------------------------
(***************************************************************************)
(* What simulator/simulator.go makes of its inputs is right for all sizes  *)
(* of a list, a page and a number, and for all requests: the properties of *)
(* Inputs follow from one invariant, and from the addition of              *)
(* Ieee754Proofs.                                                          *)
(***************************************************************************)
EXTENDS Inputs, Ieee754Proofs

\* The lists of the request that have been extracted: numbers, one per cycle.
Extracts(p) ==
  /\ IsGiven(raw, Signals[p]) /\ Numeric(raw[Signals[p]])
  /\ Len(raw[Signals[p]]) <= CYCLES

\* Where Start is tells what it has done.
PhaseInv ==
  /\ phase \in {"extract", "fill", "running"} => CYCLES = config % U32
  /\ phase \in {"fill", "running"} => \A p \in Positions : Extracts(p)
  /\ phase # "running" => records = <<>>

\* What was injected is the whole perturbation, with a value for each signal.
RecordsInv ==
  records # <<>> =>
    ~Spoiled(data) /\ ~TooShort(data) /\ records = extractPerturbationRecords(data)

\* The maps have a cell for each cycle, and each cell holds what the records
\* that were drained have made of the request.
Cell(p, t) ==
  /\ Added(t) = {} => maps[p][t] = Planned(p, t)
  /\ \A i \in Added(t) : Added(t) = {i}
       => maps[p][t] = ieee754_add(ValueAt(data, Signals[p], i), Planned(p, t))
  /\ Signals[p] \notin DOMAIN signalVals(data) /\ (IsNormal(Planned(p, t)) \/ Planned(p, t) = 0)
       => maps[p][t] = Planned(p, t)

CellsInv ==
  phase = "running" =>
    /\ CYCLES <= paddedEntries(CYCLES) /\ CYCLES # 0
    /\ paddedEntries(CYCLES) = TEMPLATE
    /\ \A p \in Positions : /\ DOMAIN maps[p] = 0 .. paddedEntries(CYCLES) - 1
                            /\ \A t \in DOMAIN maps[p] : Cell(p, t)
\* A request that fits gets on.
FitsInv == Fits => phase \notin {"failed", "panicked"}

IInv == InputsTypeOK /\ RequestOK /\ PhaseInv /\ RecordsInv /\ CellsInv /\ FitsInv
----------------------------------------------------------------------------
(***************************************************************************)
(* What the requests and their conversions are.                            *)
(***************************************************************************)
\* The sizes, as numbers.
LEMMA Sizes ==
  /\ U32 \in Nat /\ U32 > 2 /\ PAGE \in Nat /\ PAGE >= 1 /\ 2 * PAGE <= U32
  /\ TEMPLATE = PAGE
  /\ Len(Signals) \in Nat /\ Times = 0 .. U32 - 1
BY SizesAssumption DEF Times

\* In uint32, no cycles take no page, and up to a page of cycles one page.
LEMMA Padding ==
  ASSUME NEW c \in Times
  PROVE  /\ paddedEntries(c) \in Times
         /\ 1 <= c /\ c <= PAGE => paddedEntries(c) = PAGE
         /\ paddedEntries(0) = 0
<1> DEFINE n == (c + PAGE - 1) % U32
           q == n \div PAGE
<1>1. U32 \in Nat \ {0} /\ PAGE \in Nat \ {0} /\ c \in Nat /\ c < U32 /\ c + PAGE - 1 \in Nat
  BY Sizes
<1>2. n \in Nat /\ n <= U32 - 1 /\ (c + PAGE - 1 < U32 => n = c + PAGE - 1)
  <2>1. \A a \in Nat, b \in Nat \ {0} : a % b \in Nat /\ a % b <= b - 1 /\ (a < b => a % b = a)
    OBVIOUS
  <2> QED BY <2>1, <1>1
<1> HIDE DEF n
<1>3. q \in Nat /\ n % PAGE \in 0 .. PAGE - 1 /\ n = PAGE * q + (n % PAGE)
  BY <1>1, <1>2, DivMod, Zenon
<1> HIDE DEF q
<1>4. paddedEntries(c) = q * PAGE /\ q * PAGE \in Nat /\ q * PAGE = PAGE * q
  BY <1>1, <1>3 DEF paddedEntries, n, q
<1>5. paddedEntries(c) \in Times
  <2>1. q * PAGE <= n
    BY <1>1, <1>2, <1>3, <1>4
  <2> QED BY <2>1, <1>1, <1>2, <1>4, Sizes
<1>6. ASSUME 1 <= c, c <= PAGE PROVE paddedEntries(c) = PAGE
  <2>1. n = c + PAGE - 1 /\ PAGE <= n /\ n < 2 * PAGE
    BY <1>1, <1>2, <1>6, Sizes
  <2>2. \A a \in Nat, b \in Nat \ {0} : b <= a /\ a < 2 * b => a \div b = 1
    OBVIOUS
  <2>3. q = 1
    BY <2>1, <2>2, <1>1, <1>2 DEF q
  <2> QED BY <2>3, <1>1, <1>4
<1>7. paddedEntries(0) = 0
  <2>1. \A a \in Nat, b \in Nat \ {0} : a < b => a % b = a /\ a \div b = 0
    OBVIOUS
  <2>2. 0 + PAGE - 1 = PAGE - 1 /\ PAGE - 1 \in Nat /\ PAGE - 1 < PAGE /\ PAGE - 1 < U32
    BY <1>1, Sizes
  <2>3. (0 + PAGE - 1) % U32 = PAGE - 1 /\ (PAGE - 1) \div PAGE = 0
    BY <2>1, <2>2, <1>1
  <2>4. paddedEntries(0) = 0 * PAGE
    BY <2>3 DEF paddedEntries
  <2> QED BY <2>4, <1>1
<1> QED BY <1>5, <1>6, <1>7

\* The list of a name that is given, and the value of one of its elements.
LEMMA GivenList ==
  ASSUME NEW d, NEW Elements, Named(d, Elements), NEW name, IsGiven(d, name)
  PROVE  /\ d[name] \in Seq(Elements \cup {NotNumber})
         /\ \A i \in DOMAIN d[name] : d[name][i] # NotNumber => d[name][i] \in Elements
<1>1. d[name] \in Lists(Elements) /\ d[name] # NotList
  BY DEF Named, IsGiven
<1>2. d[name] \in Seq(Elements \cup {NotNumber})
  BY <1>1 DEF Lists
<1>3. ASSUME NEW i \in DOMAIN d[name], d[name][i] # NotNumber PROVE d[name][i] \in Elements
  <2>1. \A S, q : q \in Seq(S) => \A j \in DOMAIN q : q[j] \in S
    OBVIOUS
  <2>2. d[name][i] \in Elements \cup {NotNumber}
    BY <1>2, <2>1
  <2> QED BY <2>2, <1>3
<1> QED BY <1>2, <1>3

\* The trajectory: the numbers of an extracted list, and 0 after them.
LEMMA PlannedType ==
  ASSUME RequestOK, CYCLES \in Times, NEW p \in Positions, Extracts(p), NEW t \in Nat
  PROVE  /\ raw[Signals[p]] \in Seq(Numbers \cup {NotNumber})
         /\ Planned(p, t) \in Numbers
         /\ Planned(p, t) = Extracted(Signals[p], t)
         /\ t >= CYCLES => Planned(p, t) = 0
<1> DEFINE list == raw[Signals[p]]
<1>1. /\ list \in Seq(Numbers \cup {NotNumber})
      /\ \A i \in DOMAIN list : list[i] # NotNumber => list[i] \in Numbers
  BY GivenList DEF Extracts, RequestOK
<1>2. Len(list) \in Nat /\ DOMAIN list = 1 .. Len(list)
  BY <1>1
<1>3. \A i \in 1 .. Len(list) : list[i] \in Numbers
  BY <1>1, <1>2 DEF Extracts, Numeric
<1>4. t < Len(list) => t + 1 \in 1 .. Len(list)
  BY <1>2
<1>5. Planned(p, t) = IF t < Len(list) THEN list[t + 1] ELSE 0
  BY DEF Planned
<1>6. 0 \in Numbers
  BY Zero
<1>7. t >= CYCLES => ~(t < Len(list))
  <2>1. Len(list) <= CYCLES
    BY DEF Extracts
  <2> QED BY <2>1, <1>2, Sizes
<1> QED BY <1>1, <1>3, <1>4, <1>5, <1>6, <1>7 DEF Extracted

\* The lists of a perturbation that is neither spoiled nor too short.
LEMMA PerturbationLists ==
  ASSUME RequestOK, ~Spoiled(data), ~TooShort(data)
  PROVE  /\ data["time"] \in Seq(Int \cup {NotNumber})
         /\ \A i \in DOMAIN data["time"] :
              /\ data["time"][i] \in Int /\ customConversion(data["time"][i]) \in Times
              /\ \A p \in Positions : ValueAt(data, Signals[p], i) \in Numbers
<1> DEFINE times == [name \in DOMAIN data \cap {"time"} |-> data[name]]
<1>1. /\ IsGiven(data, "time")
      /\ \A i \in DOMAIN data["time"] : IsTime(data["time"][i])
  BY DEF Spoiled
<1>2. Named(times, Int) /\ IsGiven(times, "time") /\ times["time"] = data["time"]
  BY <1>1 DEF RequestOK, IsGiven
<1>3. /\ data["time"] \in Seq(Int \cup {NotNumber})
      /\ \A i \in DOMAIN data["time"] : data["time"][i] # NotNumber => data["time"][i] \in Int
  <2> HIDE DEF times
  <2>1. /\ times["time"] \in Seq(Int \cup {NotNumber})
        /\ \A i \in DOMAIN times["time"] : times["time"][i] # NotNumber => times["time"][i] \in Int
    BY <1>2, GivenList
  <2> QED BY <2>1, <1>2
<1>4. ASSUME NEW i \in DOMAIN data["time"]
      PROVE  data["time"][i] \in Int /\ customConversion(data["time"][i]) \in Times
  <2>1. data["time"][i] \in Int
    BY <1>1, <1>3 DEF IsTime
  <2>2. \A v \in Int, k \in Nat \ {0} : v % k \in 0 .. k - 1
    OBVIOUS
  <2>3. U32 \in Nat \ {0} /\ Times = 0 .. U32 - 1
    BY Sizes
  <2>4. data["time"][i] % U32 \in 0 .. U32 - 1
    BY <2>1, <2>2, <2>3, Zenon
  <2> QED BY <2>1, <2>3, <2>4 DEF customConversion
<1>5. ASSUME NEW i \in DOMAIN data["time"], NEW p \in Positions
      PROVE  ValueAt(data, Signals[p], i) \in Numbers
  <2> DEFINE name == Signals[p]
             d == signalVals(data)
  <2>1. CASE name \in DOMAIN d
    <3>1. name \in DOMAIN data \ {"time"} /\ d[name] = data[name]
      BY <2>1 DEF signalVals
    <3>2. data[name] # NotList /\ \A j \in DOMAIN data[name] : data[name][j] # NotNumber
      BY <3>1 DEF Spoiled
    <3>3. Named(d, Numbers) /\ IsGiven(d, name)
      BY <2>1, <3>1, <3>2 DEF RequestOK, IsGiven
    <3>4. /\ d[name] \in Seq(Numbers \cup {NotNumber})
          /\ \A j \in DOMAIN d[name] : d[name][j] # NotNumber => d[name][j] \in Numbers
      <4> HIDE DEF d, name
      <4> QED BY <3>3, GivenList
    <3>5. ~(Len(data[name]) < Len(data["time"]))
      BY <2>1 DEF TooShort
    <3>6. i \in DOMAIN data[name]
      <4>1. \A S, T, q, r : q \in Seq(S) /\ r \in Seq(T) /\ ~(Len(q) < Len(r))
                              => DOMAIN r \subseteq DOMAIN q
        OBVIOUS
      <4> QED BY <4>1, <1>3, <3>1, <3>4, <3>5
    <3>7. ValueAt(data, name, i) = data[name][i]
      BY <2>1 DEF ValueAt
    <3> QED BY <3>1, <3>2, <3>4, <3>6, <3>7
  <2>2. CASE name \notin DOMAIN d
    BY <2>2, Zero DEF ValueAt
  <2> QED BY <2>1, <2>2
<1> QED BY <1>3, <1>4, <1>5

\* A record is made for each time, with a value for each signal.
LEMMA RecordsAre ==
  ASSUME RequestOK, ~Spoiled(data), ~TooShort(data),
         NEW recs, recs = extractPerturbationRecords(data)
  PROVE  /\ DOMAIN recs = 1 .. Len(recs) /\ Len(recs) \in Nat
         /\ \A i \in DOMAIN recs :
              /\ recs[i].Time = data["time"][i] % U32 /\ recs[i].Time \in Times
              /\ \A p \in Positions : /\ recs[i].Values[p] = ValueAt(data, Signals[p], i)
                                      /\ recs[i].Values[p] \in Numbers
<1>2. /\ data["time"] \in Seq(Int \cup {NotNumber})
      /\ \A j \in DOMAIN data["time"] :
           /\ customConversion(data["time"][j]) \in Times
           /\ \A p \in Positions : ValueAt(data, Signals[p], j) \in Numbers
  BY PerturbationLists
<1>3. DOMAIN recs = DOMAIN data["time"]
  BY DEF extractPerturbationRecords
<1>4. \A i \in DOMAIN recs :
        /\ recs[i].Time = customConversion(data["time"][i])
        /\ \A p \in Positions : recs[i].Values[p] = ValueAt(data, Signals[p], i)
  BY <1>3 DEF extractPerturbationRecords
<1>5. DOMAIN recs = 1 .. Len(recs) /\ Len(recs) \in Nat
  <2>1. \A S, q, r : q \in Seq(S) /\ DOMAIN r = DOMAIN q
                        => DOMAIN q = 1 .. Len(q) /\ Len(q) \in Nat
    OBVIOUS
  <2>2. DOMAIN recs = 1 .. Len(data["time"]) /\ Len(data["time"]) \in Nat
    BY <2>1, <1>2, <1>3
  <2>3. \E V : recs \in Seq(V)
    <3>1. recs \in [1 .. Len(data["time"]) -> {recs[j] : j \in DOMAIN recs}]
      <4>1. recs = [j \in DOMAIN recs |-> recs[j]]
        BY DEF extractPerturbationRecords
      <4> QED BY <4>1, <2>2
    <3>2. \A n \in Nat : \A V, f : f \in [1 .. n -> V] => f \in Seq(V)
      OBVIOUS
    <3> QED BY <3>1, <3>2, <2>2
  <2>4. \A V, r : r \in Seq(V) => DOMAIN r = 1 .. Len(r) /\ Len(r) \in Nat
    OBVIOUS
  <2> QED BY <2>3, <2>4
<1> QED BY <1>2, <1>3, <1>4, <1>5 DEF customConversion
----------------------------------------------------------------------------
(***************************************************************************)
(* Every step keeps the invariant.                                         *)
(***************************************************************************)
\* What a step that leaves the request alone keeps of it.
LEMMA RequestKept ==
  ASSUME UNCHANGED request
  PROVE  (RequestOK => RequestOK') /\ (Fits' => Fits)
<1>1. config' = config /\ raw' = raw /\ data' = data
  BY DEF request
<1>2. RequestOK => RequestOK'
  BY <1>1 DEF RequestOK, Named, signalVals
<1>3. Fits' => Fits
  BY <1>1 DEF Fits, Spoiled, TooShort, IsGiven, signalVals
<1> QED BY <1>2, <1>3

\* The cells stay right when neither they nor what is added to them changes.
LEMMA CellsKept ==
  ASSUME UNCHANGED <<request, CYCLES, maps, drained>>, CellsInv, phase = "running"
  PROVE  CellsInv'
<1>1. raw' = raw /\ data' = data /\ CYCLES' = CYCLES /\ maps' = maps /\ drained' = drained
  BY DEF request
<1>2. \A p, t : Planned(p, t)' = Planned(p, t) /\ Added(t)' = Added(t)
  BY <1>1 DEF Planned, Added
<1>3. \A p, t : Cell(p, t) => Cell(p, t)'
  BY <1>1, <1>2 DEF Cell, signalVals, ValueAt
<1> QED BY <1>1, <1>3 DEF CellsInv

\* What a step that touches neither the maps nor the records keeps.
LEMMA TypeKept ==
  ASSUME InputsTypeOK, UNCHANGED <<maps, records, drained>>, CYCLES' \in Times,
         phase' \in {"configure", "extract", "fill", "running", "failed", "panicked"}
  PROVE  InputsTypeOK'
BY DEF InputsTypeOK

LEMMA InitInv ==
  ASSUME Init
  PROVE  IInv
<1>1. InputsTypeOK
  <2>1. 0 \in Times
    BY Sizes
  <2> QED BY <2>1 DEF Init, InputsTypeOK
<1>2. RequestOK /\ PhaseInv /\ RecordsInv /\ CellsInv /\ FitsInv
  BY DEF Init, PhaseInv, RecordsInv, CellsInv, FitsInv
<1> QED BY <1>1, <1>2 DEF IInv

\* What setCycles stores is the number of the configuration, in 32 bits.
LEMMA SetCyclesInv ==
  ASSUME IInv, SetCycles
  PROVE  IInv'
<1>1. RequestOK' /\ (Fits' => Fits)
  BY RequestKept DEF SetCycles, IInv
<1>2. config \in Nat /\ config' = config
  BY DEF IInv, RequestOK, SetCycles, request
<1>3. config % U32 \in Times
  <2>1. \A n \in Nat, k \in Nat \ {0} : n % k \in 0 .. k - 1
    OBVIOUS
  <2>2. U32 \in Nat \ {0} /\ Times = 0 .. U32 - 1
    BY Sizes
  <2> QED BY <2>1, <2>2, <1>2, Zenon
<1>4. InputsTypeOK'
  <2>1. CYCLES' \in Times
    BY <1>3 DEF SetCycles, IInv, InputsTypeOK
  <2>2. phase' \in {"extract", "failed"}
    BY DEF SetCycles
  <2> QED BY <2>1, <2>2, TypeKept DEF SetCycles, IInv
<1>5. PhaseInv'
  BY <1>2 DEF SetCycles, IInv, PhaseInv
<1>6. RecordsInv'
  BY DEF SetCycles, IInv, PhaseInv, RecordsInv
<1>7. CellsInv'
  BY DEF SetCycles, CellsInv
<1>8. FitsInv'
  <2> SUFFICES ASSUME Fits PROVE phase' = "extract"
    BY <1>1 DEF FitsInv
  <2>1. config < U32
    BY <1>2, Sizes DEF Fits
  <2>2. \A n, k \in Nat : n < k => n < k * k
    <3> SUFFICES ASSUME NEW n \in Nat, NEW k \in Nat, n < k PROVE n < k * k
      OBVIOUS
    <3>1. k <= k * k
      OBVIOUS
    <3> QED BY <3>1
  <2>3. config < U32 * U32
    BY <2>1, <2>2, <1>2, Sizes
  <2> QED BY <2>3 DEF SetCycles
<1> QED BY <1>1, <1>4, <1>5, <1>6, <1>7, <1>8 DEF IInv

\* What becomes of one list: nothing of it is left out when it extracts, and
\* a fitting one does.
LEMMA Outcomes ==
  ASSUME RequestOK, CYCLES \in Times, NEW p \in Positions
  PROVE  /\ SignalOutcome(Signals[p]) \in {"fill", "failed", "panicked"}
         /\ SignalOutcome(Signals[p]) = "fill" <=> Extracts(p)
<1> DEFINE name == Signals[p]
           list == raw[name]
           stops == Misfits(list)
<1>1. SignalOutcome(name) \in {"fill", "failed", "panicked"}
  BY DEF SignalOutcome
<1>2. CASE ~IsGiven(raw, name)
  BY <1>2 DEF SignalOutcome, Extracts
<1>3. CASE IsGiven(raw, name)
  <2>1. list \in Seq(Numbers \cup {NotNumber})
    BY <1>3, GivenList DEF RequestOK
  <2>2. DOMAIN list = 1 .. Len(list) /\ Len(list) \in Nat /\ CYCLES \in Nat
    BY <2>1, Sizes
  <2>3. stops = {} <=> Extracts(p)
    <3>1. \A t \in 1 .. Len(list) : t > CYCLES => Len(list) > CYCLES
      BY <2>2
    <3>2. Len(list) > CYCLES => Len(list) \in 1 .. Len(list)
      BY <2>2
    <3> QED BY <1>3, <2>2, <3>1, <3>2 DEF Extracts, Misfits, Numeric
  <2>4. stops = {} => SignalOutcome(name) = "fill"
    BY <1>3 DEF SignalOutcome, FirstOf
  <2>5. stops # {} => SignalOutcome(name) # "fill"
    BY <1>3 DEF SignalOutcome
  <2> QED BY <1>1, <2>3, <2>4, <2>5
<1> QED BY <1>2, <1>3

LEMMA ExtractTrajectoryInv ==
  ASSUME IInv, ExtractTrajectory
  PROVE  IInv'
<1> DEFINE stops == {p \in Positions : SignalOutcome(Signals[p]) # "fill"}
<1>1. RequestOK' /\ (Fits' => Fits)
  BY RequestKept DEF ExtractTrajectory, IInv
<1>2. /\ phase = "extract" /\ CYCLES \in Times /\ CYCLES = config % U32 /\ RequestOK
      /\ raw' = raw /\ config' = config /\ CYCLES' = CYCLES /\ records' = records /\ records = <<>>
  BY DEF ExtractTrajectory, IInv, InputsTypeOK, PhaseInv, request
<1>3. \A p \in Positions : /\ SignalOutcome(Signals[p]) \in {"fill", "failed", "panicked"}
                           /\ SignalOutcome(Signals[p]) = "fill" <=> Extracts(p)
  BY <1>2, Outcomes
<1>4. stops # {} => \E p \in stops : phase' = SignalOutcome(Signals[p])
  <2> SUFFICES ASSUME stops # {} PROVE \E p \in stops : phase' = SignalOutcome(Signals[p])
    OBVIOUS
  <2>1. stops \in SUBSET Nat
    BY Sizes DEF Positions
  <2>2. \E p \in stops : \A q \in stops : p <= q
    BY <2>1, LeastExists
  <2>3. \E p : p \in FirstOf(stops)
    BY <2>2 DEF FirstOf
  <2>4. (CHOOSE p \in FirstOf(stops) : TRUE) \in FirstOf(stops)
    BY <2>3
  <2>5. FirstOf(stops) \subseteq stops
    BY DEF FirstOf
  <2>6. phase' = SignalOutcome(Signals[CHOOSE p \in FirstOf(stops) : TRUE])
    BY DEF ExtractTrajectory, extractTrajectory
  <2> HIDE DEF stops
  <2> QED BY <2>4, <2>5, <2>6
<1>5. stops = {} => phase' = "fill"
  BY DEF ExtractTrajectory, extractTrajectory
<1>6. phase' \in {"fill", "failed", "panicked"} /\ (phase' = "fill" => stops = {})
  BY <1>3, <1>4, <1>5
<1>7. InputsTypeOK'
  BY <1>2, <1>6, TypeKept DEF ExtractTrajectory, IInv
<1>8. PhaseInv'
  <2>1. \A p : Extracts(p) => Extracts(p)'
    BY <1>2 DEF Extracts, IsGiven
  <2>2. phase' = "fill" => \A p \in Positions : Extracts(p)'
    BY <1>3, <1>6, <2>1
  <2> QED BY <1>2, <1>6, <2>2 DEF PhaseInv
<1>9. RecordsInv' /\ CellsInv'
  BY <1>2, <1>6 DEF RecordsInv, CellsInv
<1>10. FitsInv'
  <2> SUFFICES ASSUME Fits PROVE phase' = "fill"
    BY <1>1 DEF FitsInv
  <2>1. CYCLES = config
    <3>1. \A n, k \in Nat : n < k => n % k = n
      OBVIOUS
    <3>2. config \in Nat /\ config < U32
      BY <1>2, Sizes DEF Fits, RequestOK
    <3> QED BY <3>1, <3>2, <1>2, Sizes
  <2>2. \A p \in Positions : Extracts(p)
    BY <2>1 DEF Fits, Extracts
  <2> QED BY <2>2, <1>3, <1>5
<1> QED BY <1>1, <1>7, <1>8, <1>9, <1>10 DEF IInv

\* The cells are the request's lists and zeroes, as nothing was drained.
LEMMA FillMapsInv ==
  ASSUME IInv, FillMaps
  PROVE  IInv'
<1> DEFINE cells == paddedEntries(CYCLES)
<1>1. RequestOK' /\ (Fits' => Fits)
  BY RequestKept DEF FillMaps, IInv
<1>2. /\ phase = "fill" /\ CYCLES \in Times /\ CYCLES = config % U32 /\ RequestOK
      /\ \A p \in Positions : Extracts(p)
      /\ raw' = raw /\ config' = config /\ data' = data /\ CYCLES' = CYCLES
      /\ records' = records /\ records = <<>> /\ drained' = drained
      /\ phase' = IF cells # 0 /\ CYCLES <= cells /\ cells = TEMPLATE
                   THEN "running" ELSE "failed"
  BY DEF FillMaps, IInv, InputsTypeOK, PhaseInv, request
<1>3. drained = 0
  BY <1>2 DEF IInv, InputsTypeOK
<1>4. cells \in Times /\ U32 \in Nat /\ Times = 0 .. U32 - 1
  BY <1>2, Padding, Sizes
<1>5. phase' = "running" =>
        maps' = [p \in Positions |-> [t \in 0 .. cells - 1 |->
                   IF t < CYCLES THEN Extracted(Signals[p], t) ELSE 0]]
  BY <1>2 DEF FillMaps
<1>6. phase' = "failed" => maps' = maps
  BY <1>2 DEF FillMaps
<1> HIDE DEF cells
<1>7. ASSUME NEW p \in Positions, NEW t \in 0 .. cells - 1, phase' = "running"
      PROVE  /\ maps'[p][t] = Planned(p, t) /\ maps'[p][t] \in Numbers
             /\ t \in Times
  <2>1. t \in Nat /\ t \in Times
    BY <1>4
  <2>2. maps'[p][t] = IF t < CYCLES THEN Extracted(Signals[p], t) ELSE 0
    <3>1. maps'[p] = [k \in 0 .. cells - 1 |->
                        IF k < CYCLES THEN Extracted(Signals[p], k) ELSE 0]
      BY <1>5, <1>7, Zenon
    <3> QED BY <3>1, Zenon
  <2>3. /\ Planned(p, t) \in Numbers /\ Planned(p, t) = Extracted(Signals[p], t)
        /\ t >= CYCLES => Planned(p, t) = 0
    BY <2>1, <1>2, PlannedType
  <2> QED BY <2>1, <2>2, <2>3, <1>2, <1>4
<1>8. phase' = "running" => DOMAIN maps' = Positions /\ \A p \in Positions : DOMAIN maps'[p] = 0 .. cells - 1
  BY <1>5
<1>9. InputsTypeOK'
  <2>1. CASE phase' = "running"
    <3>1. CYCLES' \in Times /\ drained' \in 0 .. Len(records') /\ records' = <<>>
      BY <1>2 DEF IInv, InputsTypeOK
    <3>2. DOMAIN maps' = Positions
          /\ \A p \in Positions : \A t \in DOMAIN maps'[p] : t \in Times /\ maps'[p][t] \in Numbers
      BY <2>1, <1>7, <1>8
    <3> QED BY <2>1, <3>1, <3>2 DEF InputsTypeOK
  <2>2. CASE phase' = "failed"
    BY <2>2, <1>2, <1>6, TypeKept DEF IInv
  <2> QED BY <2>1, <2>2, <1>2
<1>10. PhaseInv'
  <2>1. \A p : Extracts(p) => Extracts(p)'
    BY <1>2 DEF Extracts, IsGiven
  <2> QED BY <2>1, <1>2 DEF PhaseInv
<1>11. RecordsInv'
  BY <1>2 DEF RecordsInv
<1>12. CellsInv'
  <2> SUFFICES ASSUME phase' = "running"
               PROVE  /\ CYCLES' <= paddedEntries(CYCLES') /\ CYCLES' # 0
                      /\ paddedEntries(CYCLES') = TEMPLATE
                      /\ \A p \in Positions : /\ DOMAIN maps'[p] = 0 .. paddedEntries(CYCLES') - 1
                                              /\ \A t \in DOMAIN maps'[p] : Cell(p, t)'
    BY DEF CellsInv, Positions, paddedEntries
  <2>1. CYCLES' <= paddedEntries(CYCLES') /\ CYCLES' # 0 /\ paddedEntries(CYCLES') = TEMPLATE
    BY <1>2, Padding DEF cells
  <2>2. \A p \in Positions : DOMAIN maps'[p] = 0 .. paddedEntries(CYCLES') - 1
    BY <1>2, <1>8 DEF cells
  <2>3. ASSUME NEW p \in Positions, NEW t \in DOMAIN maps'[p] PROVE Cell(p, t)'
    <3>1. Planned(p, t)' = Planned(p, t) /\ Added(t)' = {}
      BY <1>2, <1>3 DEF Planned, Added
    <3>2. maps'[p][t] = Planned(p, t)
      BY <1>7, <1>8, <2>3
    <3> QED BY <3>1, <3>2 DEF Cell
  <2> QED BY <2>1, <2>2, <2>3
<1>13. FitsInv'
  <2> SUFFICES ASSUME Fits PROVE phase' = "running"
    BY <1>1 DEF FitsInv
  <2>1. CYCLES = config /\ 1 <= config /\ config <= PAGE
    <3>1. \A n, k \in Nat : n < k => n % k = n
      OBVIOUS
    <3>2. config \in Nat /\ config < U32 /\ 1 <= config /\ config <= PAGE
      BY <1>2, Sizes DEF Fits, RequestOK
    <3> QED BY <3>1, <3>2, <1>2, Sizes
  <2>2. cells # 0 /\ CYCLES <= cells /\ cells = TEMPLATE
    BY <2>1, <1>2, Padding, Sizes DEF cells
  <2> QED BY <2>2, <1>2
<1> QED BY <1>1, <1>9, <1>10, <1>11, <1>12, <1>13 DEF IInv

\* The records are the perturbation, and none of them is drained yet.
LEMMA InjectInv ==
  ASSUME IInv, Inject
  PROVE  IInv'
<1>1. RequestOK' /\ (Fits' => Fits)
  BY RequestKept DEF Inject, IInv
<1>2. /\ phase = "running" /\ records = <<>> /\ RequestOK /\ InputsTypeOK
      /\ raw' = raw /\ config' = config /\ data' = data /\ CYCLES' = CYCLES
      /\ maps' = maps /\ drained' = drained /\ drained = 0
  BY DEF Inject, IInv, InputsTypeOK, request
<1>3. CASE UNCHANGED <<phase, records>>
  <2>1. InputsTypeOK' /\ PhaseInv' /\ RecordsInv' /\ FitsInv'
    <3>1. \A p : Extracts(p) => Extracts(p)'
      BY <1>2 DEF Extracts, IsGiven
    <3>2. PhaseInv'
      BY <3>1, <1>2, <1>3 DEF IInv, PhaseInv
    <3> QED BY <3>2, <1>1, <1>2, <1>3 DEF IInv, InputsTypeOK, RecordsInv, FitsInv
  <2>2. CellsInv'
    BY <1>2, <1>3, CellsKept DEF IInv, request
  <2> QED BY <2>1, <2>2, <1>1 DEF IInv
<1>4. CASE ~Spoiled(data) /\ TooShort(data) /\ phase' = "panicked" /\ records' = records
  <2>1. InputsTypeOK'
    BY <1>2, <1>4 DEF InputsTypeOK
  <2>2. PhaseInv' /\ RecordsInv' /\ CellsInv'
    BY <1>2, <1>4 DEF PhaseInv, RecordsInv, CellsInv
  <2>3. FitsInv'
    BY <1>1, <1>4 DEF FitsInv, Fits
  <2> QED BY <2>1, <2>2, <2>3, <1>1 DEF IInv
<1>5. CASE /\ ~Spoiled(data) /\ ~TooShort(data) /\ phase' = phase
           /\ records' = extractPerturbationRecords(data)
  <2>1. /\ Len(records') \in Nat
        /\ \A i \in DOMAIN records' :
             /\ records'[i].Time \in Times
             /\ \A p \in Positions : records'[i].Values[p] \in Numbers
    BY <1>2, <1>5, RecordsAre
  <2>2. InputsTypeOK'
    <3>1. drained' \in 0 .. Len(records')
      BY <2>1, <1>2
    <3> QED BY <2>1, <3>1, <1>2, <1>5 DEF InputsTypeOK
  <2>3. PhaseInv'
    <3>1. \A p : Extracts(p) => Extracts(p)'
      BY <1>2 DEF Extracts, IsGiven
    <3> QED BY <3>1, <1>2, <1>5 DEF IInv, PhaseInv
  <2>4. RecordsInv'
    BY <1>2, <1>5 DEF RecordsInv, Spoiled, TooShort, extractPerturbationRecords,
                      IsGiven, signalVals, ValueAt
  <2>5. CellsInv'
    BY <1>2, CellsKept DEF IInv, request
  <2>6. FitsInv'
    BY <1>1, <1>2, <1>5 DEF FitsInv
  <2> QED BY <2>2, <2>3, <2>4, <2>5, <2>6, <1>1 DEF IInv
<1> QED BY <1>3, <1>4, <1>5 DEF Inject

\* The cell of a record's time gets its value, and no other cell changes.
LEMMA DrainInv ==
  ASSUME IInv, Drain
  PROVE  IInv'
<1> DEFINE n == drained + 1
           r == records[n]
<1>1. RequestOK' /\ (Fits' => Fits)
  BY RequestKept DEF Drain, IInv
<1>2. /\ phase = "running" /\ drained \in Nat /\ drained < Len(records)
      /\ RequestOK /\ InputsTypeOK /\ CYCLES \in Times
      /\ phase' = phase /\ raw' = raw /\ config' = config /\ data' = data /\ CYCLES' = CYCLES
      /\ records' = records /\ drained' = n
      /\ \A p \in Positions : Extracts(p)
  BY DEF Drain, IInv, InputsTypeOK, PhaseInv, request
<1>3. ~Spoiled(data) /\ ~TooShort(data) /\ records = extractPerturbationRecords(data)
  <2>1. records # <<>>
    BY <1>2
  <2> QED BY <2>1 DEF IInv, RecordsInv
<1>4. Len(records) \in Nat /\ n \in DOMAIN records /\ n \in 0 .. Len(records)
  <2>1. DOMAIN records = 1 .. Len(records) /\ Len(records) \in Nat
    BY <1>2, <1>3, RecordsAre
  <2> QED BY <2>1, <1>2
<1>5. /\ r.Time = data["time"][n] % U32 /\ r.Time \in Times
      /\ \A p \in Positions : /\ r.Values[p] = ValueAt(data, Signals[p], n)
                              /\ r.Values[p] \in Numbers
  BY <1>2, <1>3, <1>4, RecordsAre
<1>6. \A t : Added(t)' = IF r.Time = t THEN Added(t) \cup {n} ELSE Added(t)
  <2>1. 1 .. n = (1 .. drained) \cup {n}
    BY <1>2
  <2> QED BY <2>1, <1>2, <1>5 DEF Added
<1>7. \A t : n \notin Added(t)
  BY <1>2 DEF Added
<1>8. \A p \in Positions : DOMAIN maps[p] = 0 .. paddedEntries(CYCLES) - 1
  BY <1>2 DEF IInv, CellsInv
<1> HIDE DEF n, r
<1>9. /\ DOMAIN maps' = Positions
      /\ \A p \in Positions : maps'[p] = inj_signals(p, r)
  BY DEF Drain, n, r
<1>10. \A p \in Positions : DOMAIN maps'[p] = DOMAIN maps[p]
  BY <1>9 DEF inj_signals
<1>11. ASSUME NEW p \in Positions, NEW t \in DOMAIN maps[p]
       PROVE  maps'[p][t] = IF r.Time = t THEN ieee754_add(r.Values[p], maps[p][t]) ELSE maps[p][t]
  BY <1>9, <1>11 DEF inj_signals
<1>12. ASSUME NEW p \in Positions, NEW t \in DOMAIN maps[p]
       PROVE  t \in Times /\ maps'[p][t] \in Numbers
  <2>1. t \in Times /\ maps[p][t] \in Numbers
    BY <1>2 DEF InputsTypeOK
  <2>2. ieee754_add(r.Values[p], maps[p][t]) \in Numbers
    BY <2>1, <1>5, AdditionType
  <2> QED BY <2>1, <2>2, <1>11
<1>13. InputsTypeOK'
  BY <1>2, <1>4, <1>9, <1>10, <1>12 DEF InputsTypeOK
<1>14. PhaseInv'
  <2>1. \A p : Extracts(p) => Extracts(p)'
    BY <1>2 DEF Extracts, IsGiven
  <2> QED BY <2>1, <1>2 DEF IInv, PhaseInv
<1>15. RecordsInv'
  BY <1>2, <1>3 DEF RecordsInv, Spoiled, TooShort, extractPerturbationRecords,
                    IsGiven, signalVals, ValueAt
<1>16. ASSUME NEW p \in Positions, NEW t \in DOMAIN maps[p] PROVE Cell(p, t)'
  <2> DEFINE x == Planned(p, t)
             y == ValueAt(data, Signals[p], n)
             unnamed == Signals[p] \notin DOMAIN signalVals(data)
  <2>1. /\ Planned(p, t)' = x
        /\ \A i : ValueAt(data, Signals[p], i)' = ValueAt(data, Signals[p], i)
        /\ signalVals(data)' = signalVals(data)
    BY <1>2 DEF Planned, ValueAt, signalVals
  <2>2. Cell(p, t)
    BY <1>2 DEF IInv, CellsInv
  <2>3. x \in Numbers
    <3>1. t \in Nat
      BY <1>12, Sizes
    <3> QED BY <3>1, <1>2, PlannedType
  <2> HIDE DEF x, y
  <2>4. CASE r.Time # t
    <3>1. Added(t)' = Added(t) /\ maps'[p][t] = maps[p][t]
      BY <2>4, <1>6, <1>11
    <3> QED BY <3>1, <2>1, <2>2 DEF Cell, x
  <2>5. CASE r.Time = t
    <3>1. Added(t)' = Added(t) \cup {n} /\ maps'[p][t] = ieee754_add(y, maps[p][t])
      BY <2>5, <1>5, <1>6, <1>11 DEF y
    <3>2. ASSUME NEW i, Added(t)' = {i}
          PROVE  maps'[p][t] = ieee754_add(ValueAt(data, Signals[p], i), x)
      <4>1. i = n /\ Added(t) = {}
        BY <3>1, <3>2, <1>7
      <4>2. maps[p][t] = x
        BY <4>1, <2>2 DEF Cell, x
      <4> QED BY <4>1, <4>2, <3>1 DEF y
    <3>3. ASSUME unnamed, IsNormal(x) \/ x = 0 PROVE maps'[p][t] = x
      <4>1. y = 0
        BY <3>3 DEF ValueAt, y
      <4>2. maps[p][t] = x
        BY <3>3, <2>2 DEF Cell, x
      <4>3. ieee754_add(0, x) = x
        BY <3>3, <2>3, AddingZero
      <4> QED BY <4>1, <4>2, <4>3, <3>1
    <3>4. Added(t)' # {}
      BY <3>1
    <3> QED BY <3>2, <3>3, <3>4, <2>1 DEF Cell
  <2> QED BY <2>4, <2>5
<1>17. CellsInv'
  <2>1. /\ CYCLES' <= paddedEntries(CYCLES') /\ phase' = "running"
        /\ CYCLES' # 0 /\ paddedEntries(CYCLES') = TEMPLATE
    BY <1>2 DEF IInv, CellsInv
  <2>2. \A p \in Positions : DOMAIN maps'[p] = 0 .. paddedEntries(CYCLES') - 1
    BY <1>2, <1>8, <1>10
  <2>3. \A p \in Positions : \A t \in DOMAIN maps'[p] : Cell(p, t)'
    BY <1>10, <1>16
  <2> QED BY <2>1, <2>2, <2>3 DEF CellsInv, Positions, paddedEntries
<1>18. FitsInv'
  BY <1>1, <1>2 DEF FitsInv
<1> QED BY <1>1, <1>13, <1>14, <1>15, <1>17, <1>18 DEF IInv

\* The invariant is inductive.
LEMMA Inductive ==
  Spec => []IInv
<1>1. Init => IInv
  BY InitInv
<1>2. IInv /\ [Next]_vars => IInv'
  <2> SUFFICES ASSUME IInv, [Next]_vars PROVE IInv'
    OBVIOUS
  <2>1. CASE UNCHANGED vars
    <3>1. \A p, t : Planned(p, t)' = Planned(p, t) /\ Added(t)' = Added(t)
      BY <2>1 DEF vars, Planned, Added
    <3>2. \A p, t : Cell(p, t) => Cell(p, t)'
      BY <2>1, <3>1 DEF vars, Cell, signalVals, ValueAt
    <3>3. RequestOK' /\ (Fits' => Fits)
      BY <2>1, RequestKept DEF vars, request, IInv
    <3>4. CellsInv'
      BY <2>1, <3>2 DEF vars, IInv, CellsInv
    <3>5. InputsTypeOK' /\ FitsInv'
      BY <2>1, <3>3 DEF vars, IInv, InputsTypeOK, FitsInv
    <3>6. PhaseInv' /\ RecordsInv'
      BY <2>1 DEF vars, IInv, PhaseInv, RecordsInv, Extracts, IsGiven, Spoiled, TooShort,
                  extractPerturbationRecords, signalVals, ValueAt
    <3> QED BY <3>3, <3>4, <3>5, <3>6 DEF IInv
  <2> QED BY <2>1, SetCyclesInv, ExtractTrajectoryInv, FillMapsInv, InjectInv, DrainInv DEF Next
<1> QED BY <1>1, <1>2, PTL DEF Spec
----------------------------------------------------------------------------
(***************************************************************************)
(* What the invariant says of the inputs.                                  *)
(***************************************************************************)
\* The numbers stay in their width, whatever a request holds: the times that
\* customConversion wraps, and the sums that ieee754_add makes
\* (simulator.go:672, 82).
THEOREM InputsTypeCorrect == Spec => []InputsTypeOK
<1>1. IInv => InputsTypeOK
  BY DEF IInv
<1> QED BY <1>1, Inductive, PTL

\* What Start reads of a request is in the maps when the probes run: every
\* cell that no perturbation was for, and every element of a list
\* (simulator.go:91, 253).
THEOREM TrajectoryArrives == Spec => []TrajectoryReachesMaps
<1>1. IInv => TrajectoryReachesMaps
  <2> SUFFICES ASSUME IInv, phase = "running", NEW p \in Positions
               PROVE  /\ \A t \in 1 .. Len(raw[Signals[p]]) : t - 1 \in DOMAIN maps[p]
                      /\ \A t \in DOMAIN maps[p] : Added(t) = {} => maps[p][t] = Planned(p, t)
    BY DEF TrajectoryReachesMaps, Running
  <2>1. /\ CYCLES \in Times /\ paddedEntries(CYCLES) \in Times
        /\ CYCLES <= paddedEntries(CYCLES) /\ DOMAIN maps[p] = 0 .. paddedEntries(CYCLES) - 1
        /\ \A t \in DOMAIN maps[p] : Cell(p, t)
    BY Padding DEF IInv, InputsTypeOK, CellsInv
  <2>2. Len(raw[Signals[p]]) \in Nat /\ Len(raw[Signals[p]]) <= CYCLES
    <3>1. Extracts(p) /\ RequestOK /\ 0 \in Nat
      BY DEF IInv, PhaseInv
    <3>2. raw[Signals[p]] \in Seq(Numbers \cup {NotNumber})
      BY <3>1, <2>1, PlannedType
    <3> QED BY <3>1, <3>2 DEF Extracts
  <2>3. \A a, b, c \in Nat : a <= b /\ b <= c => \A t \in 1 .. a : t - 1 \in 0 .. c - 1
    OBVIOUS
  <2>4. \A t \in 1 .. Len(raw[Signals[p]]) : t - 1 \in DOMAIN maps[p]
    <3>1. CYCLES \in Nat /\ paddedEntries(CYCLES) \in Nat
      BY <2>1, Sizes
    <3> QED BY <3>1, <2>1, <2>2, <2>3, Zenon
  <2> QED BY <2>1, <2>4 DEF Cell
<1> QED BY <1>1, Inductive, PTL

\* What a cell holds that one perturbation was for: both are numbers, and the
\* cell was added to once.
LEMMA OneAdded ==
  ASSUME IInv, phase = "running", NEW p \in Positions, NEW t \in DOMAIN maps[p],
         NEW i \in Added(t), Added(t) = {i}
  PROVE  /\ Planned(p, t) \in Numbers /\ ValueAt(data, Signals[p], i) \in Numbers
         /\ maps[p][t] = ieee754_add(ValueAt(data, Signals[p], i), Planned(p, t))
<1>1. RequestOK /\ CYCLES \in Times /\ Extracts(p) /\ t \in Times /\ drained \in 0 .. Len(records)
  BY DEF IInv, InputsTypeOK, PhaseInv
<1>2. Planned(p, t) \in Numbers
  <2>1. t \in Nat
    BY <1>1, Sizes
  <2> QED BY <2>1, <1>1, PlannedType
<1>3. i \in 1 .. drained
  BY DEF Added
<1>4. ~Spoiled(data) /\ ~TooShort(data) /\ records = extractPerturbationRecords(data)
  <2>1. records # <<>>
    <3> SUFFICES ASSUME records = <<>> PROVE FALSE
      OBVIOUS
    <3>1. drained = 0
      BY <1>1
    <3> QED BY <3>1, <1>3
  <2> QED BY <2>1 DEF IInv, RecordsInv
<1>5. ValueAt(data, Signals[p], i) \in Numbers
  <2>1. /\ DOMAIN records = 1 .. Len(records) /\ Len(records) \in Nat
        /\ \A j \in DOMAIN records : \A q \in Positions :
             /\ records[j].Values[q] = ValueAt(data, Signals[q], j)
             /\ records[j].Values[q] \in Numbers
    BY <1>1, <1>4, RecordsAre
  <2>2. i \in DOMAIN records
    BY <2>1, <1>1, <1>3
  <2>3. /\ records[i].Values[p] = ValueAt(data, Signals[p], i)
        /\ records[i].Values[p] \in Numbers
    BY <2>1, <2>2
  <2> QED BY <2>3
<1>6. maps[p][t] = ieee754_add(ValueAt(data, Signals[p], i), Planned(p, t))
  BY DEF IInv, CellsInv, Cell
<1> QED BY <1>2, <1>5, <1>6

\* A cell that one perturbation was for holds the sum of it and of the
\* trajectory, as near as the addition of probe.c comes, for numbers of any
\* width (simulator.go:672).
THEOREM PerturbationsAreAdded == Spec => []CellsHoldSums
<1>1. IInv => CellsHoldSums
  <2> SUFFICES ASSUME IInv, phase = "running", NEW p \in Positions, NEW t \in DOMAIN maps[p],
                      NEW i \in Added(t), Added(t) = {i}, IsFinite(Planned(p, t)),
                      IsFinite(ValueAt(data, Signals[p], i))
               PROVE  IsSum(maps[p][t], Planned(p, t), ValueAt(data, Signals[p], i))
    BY DEF CellsHoldSums, Running
  <2> QED BY OneAdded, AdditionIsSum
<1> QED BY <1>1, Inductive, PTL

\* And to the bit where there is nothing to round (probe.c:278).
THEOREM WholeNumbersAddExactly == Spec => []CellsHoldExactSums
<1>1. IInv => CellsHoldExactSums
  <2> SUFFICES ASSUME IInv, phase = "running", NEW p \in Positions, NEW t \in DOMAIN maps[p],
                      NEW i \in Added(t), Added(t) = {i}, IsNormal(Planned(p, t)),
                      IsNormal(ValueAt(data, Signals[p], i)),
                      Value(Planned(p, t)) % Scale(ValueAt(data, Signals[p], i)) = 0,
                      Value(ValueAt(data, Signals[p], i)) % Scale(Planned(p, t)) = 0,
                      NEW v \in Numbers, IsNormal(v) \/ v = 0,
                      Value(v) = Value(Planned(p, t)) + Value(ValueAt(data, Signals[p], i))
               PROVE  maps[p][t] = v
    BY DEF CellsHoldExactSums, Running
  <2> DEFINE x == Planned(p, t)
             y == ValueAt(data, Signals[p], i)
  <2>1. x \in Numbers /\ y \in Numbers /\ maps[p][t] = ieee754_add(y, x)
    BY OneAdded
  <2> HIDE DEF x, y
  <2>2. /\ IsNormal(x) /\ IsNormal(y) /\ Value(x) % Scale(y) = 0 /\ Value(y) % Scale(x) = 0
        /\ Value(v) = Value(x) + Value(y)
    BY DEF x, y
  <2>3. \A n \in Int, k \in Nat \ {0} : n % k = 0 => \E m \in Int : n = m * k
    <3> SUFFICES ASSUME NEW n \in Int, NEW k \in Nat \ {0}, n % k = 0
                 PROVE  n = (n \div k) * k /\ n \div k \in Int
      OBVIOUS
    <3> QED OBVIOUS
  <2>4. /\ Value(x) \in Int /\ Scale(x) \in Nat \ {0} /\ Value(y) \in Int
        /\ Scale(y) \in Nat \ {0}
    BY <2>1, ValueInt
  <2>5. PICK m \in Int, n \in Int : Value(x) = m * Scale(y) /\ Value(y) = n * Scale(x)
    BY <2>2, <2>3, <2>4
  <2>6. Value(v) = Value(y) + Value(x)
    BY <2>2, <2>4
  <2>7. ieee754_add(y, x) = v
    BY <2>1, <2>2, <2>5, <2>6, AdditionIsExact
  <2> QED BY <2>1, <2>7
<1> QED BY <1>1, Inductive, PTL

\* A signal that a perturbation does not name keeps the cells of its
\* trajectory to the bit, whatever is injected, as adding 0 to a normal
\* number of any width leaves it alone (simulator.go:761).
THEOREM UnnamedAreUntouched == Spec => []UnnamedKeepTheirCells
<1>1. IInv => UnnamedKeepTheirCells
  BY DEF IInv, CellsInv, Cell, UnnamedKeepTheirCells, Running
<1> QED BY <1>1, Inductive, PTL

\* A request that fits is extracted and filled without an error and without a
\* panic, and one with more cycles than a map of tracee_map has entries never
\* runs, for all sizes of a page and of a list (simulator.go:97, 269, 754).
THEOREM FittingRuns == Spec => []FittingIsAccepted
<1>1. ASSUME IInv PROVE FittingIsAccepted
  <2>1. Fits => phase \notin {"failed", "panicked"}
    BY <1>1 DEF IInv, FitsInv
  <2>2. ASSUME phase = "running" PROVE config % U32 \in 1 .. TEMPLATE
    <3>1. /\ CYCLES = config % U32 /\ CYCLES \in Times /\ CYCLES # 0
          /\ CYCLES <= paddedEntries(CYCLES) /\ paddedEntries(CYCLES) = TEMPLATE
      BY <1>1, <2>2 DEF IInv, InputsTypeOK, PhaseInv, CellsInv
    <3> QED BY <3>1, Sizes
  <2> QED BY <2>1, <2>2 DEF FittingIsAccepted, Running
<1> QED BY <1>1, Inductive, PTL
==============================================================================
