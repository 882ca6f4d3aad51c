------------------------------- MODULE Cluster -------------------------------
(***************************************************************************)
(* librereuse/db/cluster.cc: a cluster is a list of entities with an       *)
(* RE2::Set of their patterns.  The answer of the set to a match is a list *)
(* of positions, so set and list must agree, position by position.         *)
(*                                                                         *)
(* RE2::Set is external: Add refuses a pattern that does not parse and any *)
(* pattern once the set is closed; Compile closes it, whatever comes of    *)
(* it, and fails for a set that is closed already.                         *)
(***************************************************************************)
EXTENDS Integers, Sequences, FiniteSets

CONSTANTS Regexes,    \* the entities there are: a pattern and an id each
          Unparsed    \* those whose pattern Add refuses

ClusterRecord ==
    [set : Seq(Regexes), closed : BOOLEAN, compiled : BOOLEAN,
     entities : Seq(Regexes), size : Nat]

Parses(r) == r \notin Unparsed

\* The elements of a list at some of its positions, in their order.
At(list, positions) ==
    [n \in 1 .. Cardinality(positions) |->
        list[CHOOSE i \in positions : Cardinality({j \in positions : j <= i}) = n]]

\* What Add takes of a list.
Accepted(list) == At(list, {i \in DOMAIN list : Parses(list[i])})

\* Faulty: an entity is kept whether or not the set has taken its pattern.
BuildClusterKeepingAll(list) ==
    [set |-> Accepted(list), closed |-> FALSE, compiled |-> FALSE,
     entities |-> list, size |-> Len(Accepted(list))]

\* Cluster(input_entities); Cluster() builds it of nothing.
BuildCluster(list) ==
    [set |-> Accepted(list), closed |-> FALSE, compiled |-> FALSE,
     entities |-> Accepted(list), size |-> Len(Accepted(list))]

\* read_semantic_clusters: a cluster for each list of a file.
ClustersOf(lists) == [i \in DOMAIN lists |-> BuildCluster(lists[i])]

Adds(cluster, r) == Parses(r) /\ ~cluster.closed

AddEntity(cluster, r) ==
    IF Adds(cluster, r)
    THEN [cluster EXCEPT !.set = Append(@, r), !.compiled = FALSE,
                         !.size = @ + 1, !.entities = Append(@, r)]
    ELSE cluster

\* How compile() may leave the cluster: the set may be too large to compile.
CompileOutcomes(cluster) ==
    IF cluster.compiled THEN {cluster}
    ELSE {[cluster EXCEPT !.closed = TRUE, !.compiled = ok] :
             ok \in IF cluster.closed THEN {FALSE} ELSE BOOLEAN}

-----------------------------------------------------------------------------
\* What every user of a cluster relies on.
Aligned(cluster) ==
    cluster.entities = cluster.set /\ cluster.size = Len(cluster.set)
=============================================================================
