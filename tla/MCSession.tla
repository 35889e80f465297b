------------------------------ MODULE MCSession -----------------------------
(***************************************************************************)
(* Small instances of Session for TLC.                                     *)
(***************************************************************************)
EXTENDS Session

\* The second client sends nothing: its simulation meets what the first left.
FirstClientSends == [r \in Requests |-> IF r = 1 THEN MaxPerts ELSE 0]

\* A step that fails before the ring is pinned, one that fails while it is, and
\* what leaves the monitor waiting for ever.
SessionFaults == {"client", "launch", "pin", "monitor", "model", "record"}
EveryClientSends == [r \in Requests |-> MaxPerts]
============================================================================
