------------------------ MODULE MCClusterMatchQuery ------------------------
(***************************************************************************)
(* Instances of ClusterMatchQuery for TLC: all clusters of up to MaxSize   *)
(* regexes and all queries over a few examples.                            *)
(***************************************************************************)
EXTENDS ClusterMatchQuery, TLC

Symmetric == Permutations(Examples)
=============================================================================
