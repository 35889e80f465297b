------------------------------- MODULE Inputs --------------------------------
(***************************************************************************)
(* The data that simulator/simulator.go hands to the probes, and what they *)
(* make of it: Start reads the number of cycles, extracts the trajectory   *)
(* and fills a map per signal with it; the injector goroutine turns a      *)
(* perturbation into records; the write_i probe adds each of them to the   *)
(* cells of its time.  A request and a perturbation come from msgpack, so  *)
(* anything may be in their lists.                                         *)
(***************************************************************************)
EXTENDS Ieee754, Sequences

CONSTANTS
  Signals,       \* the names in WRITE_TIMING_I, in their order
  U32, U16, U8,  \* how many values a uint32, uint16, uint8 has
  PAGE,          \* 4096, what paddedEntries rounds to
  TEMPLATE,      \* 4096, the entries tracee_map expects its inner maps to have
  NotNumber,     \* an element of a list that is not of the type expected
  NotList        \* a value in a request that is not a list

ASSUME SizesAssumption ==
  /\ U32 \in Nat /\ U16 \in Nat /\ U8 \in Nat
  /\ 1 < U8 /\ U8 < U16 /\ U16 < U32
  /\ PAGE \in Nat \ {0} /\ 2 * PAGE <= U32 /\ TEMPLATE = PAGE
  /\ Len(Signals) \in Nat

VARIABLES
  phase,    \* where Start is: "configure", "extract", "fill", "running",
            \* "failed"; "panicked" when the server died of it
  config,   \* NOF_CYCLES as config.json has it
  raw,      \* the request: from names to lists
  CYCLES,
  maps,     \* inner_values_<s>: for each signal position, its cells
  data,     \* the perturbation on pertCh: from names to lists
  records,  \* what was injected
  drained   \* how many of the records the probe has drained

vars == <<phase, config, raw, CYCLES, maps, data, records, drained>>
request == <<config, raw, data>>  \* never change

Positions == 1 .. Len(Signals)
Times == 0 .. U32 - 1

\* The first of the positions in S, none when S is empty.
FirstOf(S) == {i \in S : \A j \in S : i <= j}
----------------------------------------------------------------------------
(***************************************************************************)
(* Start.  NOF_CYCLES is parsed as 64 bits and stored in 32.               *)
(***************************************************************************)
SetCycles ==
  /\ phase = "configure"
  /\ IF config < U32 * U32
     THEN phase' = "extract" /\ CYCLES' = config % U32
     ELSE phase' = "failed" /\ UNCHANGED CYCLES
  /\ UNCHANGED <<request, maps, records, drained>>

IsGiven(d, name) == name \in DOMAIN d /\ d[name] # NotList

\* A plausible slip, an index off by one.
MisfitsButLast(list) ==
  {t \in 1 .. Len(list) : list[t] = NotNumber \/ t >= CYCLES}

\* The elements of a list at which the extraction stops: it checks the type
\* of an element, and then indexes a slice of CYCLES elements.
Misfits(list) == {t \in 1 .. Len(list) : list[t] = NotNumber \/ t > CYCLES}

SignalOutcome(name) ==
  IF ~IsGiven(raw, name) THEN "failed"
  ELSE IF \E t \in FirstOf(Misfits(raw[name])) : raw[name][t] = NotNumber
       THEN "failed"
       ELSE IF Misfits(raw[name]) # {} THEN "panicked" ELSE "fill"

\* The first signal that does not extract decides.
extractTrajectory ==
  LET stops == {p \in Positions : SignalOutcome(Signals[p]) # "fill"}
  IN IF stops = {} THEN "fill"
     ELSE SignalOutcome(Signals[CHOOSE p \in FirstOf(stops) : TRUE])

ExtractTrajectory ==
  /\ phase = "extract"
  /\ phase' = extractTrajectory
  /\ UNCHANGED <<request, CYCLES, maps, records, drained>>

\* A plausible slip, a list read from 1.
ExtractedFromOne(name, t) == IF t \in 1 .. Len(raw[name]) THEN raw[name][t] ELSE 0

\* A value of the trajectory: the slice is as long as the simulation, and 0
\* where the list has ended.
Extracted(name, t) == IF t < Len(raw[name]) THEN raw[name][t + 1] ELSE 0

\* A plausible slip, rounded down.
paddedDown(entries) == (entries \div PAGE) * PAGE

\* In uint32.
paddedEntries(entries) == (((entries + PAGE - 1) % U32) \div PAGE) * PAGE

\* A map cannot be empty, a batch update needs a cell for every key, and
\* tracee_map, which was loaded before the size of the simulation is set in
\* its spec, takes only maps of the size it was loaded for.
FillMaps ==
  /\ phase = "fill"
  /\ LET cells == paddedEntries(CYCLES)
     IN IF cells # 0 /\ CYCLES <= cells /\ cells = TEMPLATE
        THEN /\ phase' = "running"
             /\ maps' = [p \in Positions |-> [t \in 0 .. cells - 1 |->
                           IF t < CYCLES THEN Extracted(Signals[p], t) ELSE 0]]
        ELSE phase' = "failed" /\ UNCHANGED maps
  /\ UNCHANGED <<request, CYCLES, records, drained>>
----------------------------------------------------------------------------
(***************************************************************************)
(* The injector goroutine.  msgpack sends an integer in the smallest type  *)
(* that holds it, a small one that is not negative as int8.                *)
(***************************************************************************)
Wire(v) ==
  IF v < 0 THEN IF v >= -(U8 \div 2) THEN "int8"
                ELSE IF v >= -(U16 \div 2) THEN "int16"
                ELSE IF v >= -(U32 \div 2) THEN "int32" ELSE "int64"
  ELSE IF v < U8 \div 2 THEN "int8" ELSE IF v < U8 THEN "uint8"
  ELSE IF v < U16 THEN "uint16" ELSE IF v < U32 THEN "uint32" ELSE "uint64"

Convertible == {"uint32", "uint16", "uint8", "int32", "int16", "int8"}
IsTime(v) == v # NotNumber /\ Wire(v) \in Convertible
\* A plausible slip, a value kept as it came.
conversionUnwrapped(v) == v
customConversion(v) == v % U32

Spoiled(d) ==
  \/ ~IsGiven(d, "time") \/ \E i \in DOMAIN d["time"] : ~IsTime(d["time"][i])
  \/ \E name \in DOMAIN d \ {"time"} :
       d[name] = NotList \/ \E i \in DOMAIN d[name] : d[name][i] = NotNumber

signalVals(d) == [name \in DOMAIN d \ {"time"} |-> d[name]]

\* A signal that is not in the perturbation is not changed; one whose list is
\* shorter than the times is indexed past its end.
TooShort(d) == \E p \in Positions : /\ Signals[p] \in DOMAIN signalVals(d)
                                    /\ Len(d[Signals[p]]) < Len(d["time"])

ValueAt(d, name, i) == IF name \in DOMAIN signalVals(d) THEN d[name][i] ELSE 0

extractPerturbationRecords(d) ==
  [i \in DOMAIN d["time"] |->
     [Time |-> customConversion(d["time"][i]),
      Values |-> [p \in Positions |-> ValueAt(d, Signals[p], i)]]]

\* A perturbation that is spoiled injects no record.
Inject ==
  /\ phase = "running" /\ records = <<>>
  /\ IF Spoiled(data) THEN UNCHANGED <<phase, records>>
     ELSE IF TooShort(data) THEN phase' = "panicked" /\ UNCHANGED records
     ELSE records' = extractPerturbationRecords(data) /\ UNCHANGED phase
  /\ UNCHANGED <<request, CYCLES, maps, drained>>
----------------------------------------------------------------------------
(***************************************************************************)
(* The write_i probe takes a record that is not late, adds its values one  *)
(* signal after the other, and leaves a cell outside the map alone.        *)
(***************************************************************************)
inj_signals(p, r) ==
  IF r.Time \in DOMAIN maps[p]
  THEN [maps[p] EXCEPT ![r.Time] = ieee754_add(r.Values[p], @)]
  ELSE maps[p]

Drain ==
  /\ phase = "running" /\ drained < Len(records)
  /\ drained' = drained + 1
  /\ maps' = [p \in Positions |-> inj_signals(p, records[drained + 1])]
  /\ UNCHANGED <<phase, request, CYCLES, records>>
----------------------------------------------------------------------------
\* What msgpack makes of a request, as far as it is looked at.
Lists(S) == Seq(S \cup {NotNumber}) \cup {NotList}
Named(d, Elements) == \A name \in DOMAIN d : d[name] \in Lists(Elements)
RequestOK ==
  /\ config \in Nat
  /\ Named(raw, Numbers)
  /\ Named(signalVals(data), Numbers)
  /\ Named([name \in DOMAIN data \cap {"time"} |-> data[name]], Int)

Init ==
  /\ RequestOK
  /\ phase = "configure" /\ CYCLES = 0
  /\ maps = [p \in Positions |-> <<>>]
  /\ records = <<>> /\ drained = 0

Next == SetCycles \/ ExtractTrajectory \/ FillMaps \/ Inject \/ Drain

Spec == Init /\ [][Next]_vars
----------------------------------------------------------------------------
(***************************************************************************)
(* The numbers stay in their width, from the lists to the cells.           *)
(***************************************************************************)
InputsTypeOK ==
  /\ phase \in {"configure", "extract", "fill", "running", "failed", "panicked"}
  /\ CYCLES \in Times
  /\ DOMAIN maps = Positions
  /\ \A p \in Positions : \A t \in DOMAIN maps[p] :
       t \in Times /\ maps[p][t] \in Numbers
  /\ drained \in 0 .. Len(records)
  /\ \A i \in DOMAIN records : /\ records[i].Time \in Times
                               /\ \A p \in Positions : records[i].Values[p] \in Numbers

Running == phase = "running"
Planned(p, t) == LET list == raw[Signals[p]] IN IF t < Len(list) THEN list[t + 1] ELSE 0

\* The elements of the perturbation that are in the cells of cycle t by now.
Added(t) == {i \in 1 .. drained : data["time"][i] % U32 = t}

\* extractTrajectory and the batch update: a cell no perturbation was for
\* holds what the request has for its signal and cycle, 0 past its list, and
\* nothing of the request is left over (simulator.go:91, 253).
TrajectoryReachesMaps ==
  Running => \A p \in Positions :
    /\ \A t \in 1 .. Len(raw[Signals[p]]) : t - 1 \in DOMAIN maps[p]
    /\ \A t \in DOMAIN maps[p] : Added(t) = {} => maps[p][t] = Planned(p, t)

\* inj_signals: a cell that one perturbation was for holds the sum of that
\* and of the trajectory, as near as ieee754_add comes, and a time that was
\* negative reaches no cycle but the one it wraps to (simulator.go:672).
CellsHoldSums ==
  Running => \A p \in Positions : \A t \in DOMAIN maps[p] : \A i \in Added(t) :
    LET x == Planned(p, t)
        y == ValueAt(data, Signals[p], i)
    IN Added(t) = {i} /\ IsFinite(x) /\ IsFinite(y) => IsSum(maps[p][t], x, y)

\* inj_signals: where there is nothing to round that sum is exact, as it is for
\* whole numbers of up to 53 bits: both are multiples of the last place of the
\* larger one, and the result is a normal number or 0 (probe.c:278).
CellsHoldExactSums ==
  Running => \A p \in Positions : \A t \in DOMAIN maps[p] : \A i \in Added(t) :
    LET x == Planned(p, t)
        y == ValueAt(data, Signals[p], i)
    IN /\ Added(t) = {i} /\ IsNormal(x) /\ IsNormal(y)
       /\ Value(x) % Scale(y) = 0 /\ Value(y) % Scale(x) = 0
       => \A v \in Numbers :
            (IsNormal(v) \/ v = 0) /\ Value(v) = Value(x) + Value(y) => maps[p][t] = v

\* A signal that a perturbation does not name gets a 0 added to its cells,
\* which leaves every normal number as it is, to the bit (simulator.go:761).
UnnamedKeepTheirCells ==
  Running => \A p \in Positions : \A t \in DOMAIN maps[p] :
    Signals[p] \notin DOMAIN signalVals(data) /\ (IsNormal(Planned(p, t)) \/ Planned(p, t) = 0)
      => maps[p][t] = Planned(p, t)

Numeric(list) == \A i \in DOMAIN list : list[i] # NotNumber
Fits ==
  /\ config \in 1 .. TEMPLATE
  /\ \A p \in Positions : /\ IsGiven(raw, Signals[p])
                          /\ Numeric(raw[Signals[p]]) /\ Len(raw[Signals[p]]) <= config
  /\ Spoiled(data) \/ ~TooShort(data)

\* A request for up to as many cycles as the maps of tracee_map have entries
\* (probe.c:47), with a list of numbers for each signal that is not longer, and
\* with no perturbation shorter than its times, neither fails nor ends the
\* server (simulator.go:97, 754).  A simulation of more cycles, as they are
\* counted in 32 bits, never runs, however the padding of its maps wraps: it is
\* refused when the first of them is to join tracee_map (simulator.go:269).
FittingIsAccepted ==
  /\ Fits => phase \notin {"failed", "panicked"}
  /\ Running => config % U32 \in 1 .. TEMPLATE
============================================================================
