------------------------- MODULE MCTerminateChannel -------------------------
(***************************************************************************)
(* TerminateChannel on a run with two sub-runs, one of which has its own,  *)
(* or on some of these runs.                                               *)
(***************************************************************************)
EXTENDS TerminateChannel, TLC

CONSTANTS root, left, right, leaf

MCParent ==
  LET all == (root :> NoRun) @@ (left :> root) @@ (right :> root) @@ (leaf :> left)
  IN  [r \in Runs |-> all[r]]
=============================================================================
