--------------------------- MODULE MCEksResources ---------------------------
(***************************************************************************)
(* EksResources around the bounds and the thresholds of the adapter.       *)
(***************************************************************************)
EXTENDS EksResources

MCCpus == {-1, 0, 300, 40000}
MCMems == {-1, 0, 36863, 36864, 131071, 131072, 300000}
MCGpus == {-1, 0, 1, 5}
MCEstimates == {[cpu |-> 0, mem |-> 0], [cpu |-> 33000, mem |-> 700], [cpu |-> 257, mem |-> 260000]}
=============================================================================
