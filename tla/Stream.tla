------------------------------- MODULE Stream --------------------------------
(***************************************************************************)
(* What whoever watches a simulation is promised.                          *)
(*                                                                         *)
(* The model logs its cycles one after the other, and the record of a      *)
(* cycle may be lost.  The records that are not lost are shown in order,   *)
(* none before its cycle is logged and none skipped.  The stream ends well *)
(* only when every cycle of the simulation is shown.                       *)
(***************************************************************************)
EXTENDS Integers

CONSTANT Cycles  \* the number of cycles of a simulation

VARIABLES
  logged,  \* number of cycles logged
  lost,    \* cycles whose record is lost
  shown,   \* cycles whose record is shown
  status   \* "open", "ended" or "failed"

vars == <<logged, lost, shown, status>>

Init == logged = 0 /\ lost = {} /\ shown = {} /\ status = "open"

Log ==
  /\ logged < Cycles
  /\ logged' = logged + 1
  /\ lost' \in {lost, lost \cup {logged}}
  /\ UNCHANGED <<shown, status>>

Show ==
  /\ status = "open"
  /\ \E n \in 0 .. logged : shown' = shown \cup ((0 .. n - 1) \ lost)
  /\ UNCHANGED <<logged, lost, status>>

End ==
  /\ status = "open" /\ lost = {} /\ logged = Cycles
  /\ shown' = 0 .. Cycles - 1
  /\ status' = "ended"
  /\ UNCHANGED <<logged, lost>>

Fail ==
  /\ status = "open"
  /\ status' = "failed"
  /\ UNCHANGED <<logged, lost, shown>>

Next == Log \/ Show \/ End \/ Fail

Spec == Init /\ [][Next]_vars
==============================================================================
