----------------------------- MODULE MCFlotilla -----------------------------
(***************************************************************************)
(* Flotilla on small instances: the constants are given in the cfg files.  *)
(***************************************************************************)
EXTENDS Flotilla, TLC

\* Workers of a kind are alike.
Symmetry == Permutations(Submitters) \union Permutations(Pollers)
=============================================================================
