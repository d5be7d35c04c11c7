---------------------------- MODULE MCStateFile ----------------------------
(* A small instance of StateFile for TLC. *)
EXTENDS StateFile, TLC
CONSTANTS empty, one

Doc(shape, v, r) == [shape |-> shape, version |-> v, rows |-> r]
\* Written by an older build, a newer one, and by hand.
SomeFiles == {Doc("array", 0, one), Doc("object", 2, one), Doc("other", 0, empty)}
Symmetry  == Permutations(Savers) \cup Permutations(Inodes)
=============================================================================
