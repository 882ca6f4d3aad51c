--------------------------- MODULE MCParallelQuery ---------------------------
(***************************************************************************)
(* Instances of ParallelQuery for TLC: the second cluster has no match and *)
(* is one that test() rules out, the others have one entity or two.        *)
(***************************************************************************)
EXTENDS ParallelQuery

MCAnswer == <<<<"a1", "a2">>, <<>>, <<"c1">>>>
MCTest == <<TRUE, FALSE, TRUE>>
=============================================================================
