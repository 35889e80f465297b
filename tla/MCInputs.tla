------------------------------ MODULE MCInputs -------------------------------
EXTENDS Inputs

CONSTANTS s1, s2, sx   \* two signals that are written, and one unknown

One == 56              \* 1.0 with 4 bits of exponent and 3 of mantissa
MCSignals == <<s1, s2>>

UpTo(n, S) == UNION {[1 .. k -> S] : k \in 0 .. n}
Nothing == [name \in {} |-> <<>>]

\* A function from some of the names to what is given for them.
Given(f, names) == [name \in names |-> f[name]]

\* Any number of cycles and any lists, with no perturbation.
AnyTrajectory ==
  /\ config \in 0 .. U32 + 2 \cup {U32 * U32}
  /\ \E f \in [{s1, s2} -> UpTo(3, {One, NotNumber}) \cup {NotList}] :
       \E names \in SUBSET {s1, s2} : raw = Given(f, names)
  /\ data = Nothing

\* Any times and lists of a perturbation, of a simulation of two cycles.
AnyPerturbation ==
  /\ config = 2
  /\ raw = [s \in {s1, s2} |-> <<One, One>>]
  /\ \E times \in UpTo(2, -5 .. 8 \cup {NotNumber}) \cup {NotList} :
     \E f \in [{s1, s2, sx} -> {<<>>, <<One>>, <<One, One>>, <<NotNumber>>, NotList}] :
     \E names \in SUBSET {s1, s2, sx} :
       data = [name \in names \cup {"time"} |-> IF name = "time" THEN times ELSE f[name]]

\* Any two numbers, for one cell.
AnyNumbers ==
  /\ config = 1
  /\ \E x \in Numbers, y \in Numbers :
       /\ raw = [s \in {s1, s2} |-> <<x>>]
       /\ data = [name \in {"time", s1} |-> IF name = "time" THEN <<0>> ELSE <<y>>]

MCInit == (AnyTrajectory \/ AnyPerturbation \/ AnyNumbers) /\ Init
MCSpec == MCInit /\ [][Next]_vars
==============================================================================
