--------------------------- MODULE MCContainment ---------------------------
(* Instantiates Containment for TLC.  Pids only name processes, so they    *)
(* may be permuted.                                                        *)
EXTENDS Containment, TLC

PidSymmetry == Permutations(Pids)
=============================================================================
