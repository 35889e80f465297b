------------------------------ MODULE MCProbe ------------------------------
(***************************************************************************)
(* Small instances of Probe for TLC.  Records may be timed for every cycle *)
(* and for the one after the last, which is outside the trace when the     *)
(* trace has no padding.                                                   *)
(***************************************************************************)
EXTENDS Probe

MCTimes == 0 .. MAX_CYCLES
NoTimes == {}
============================================================================
