----------------------------- MODULE SerialQuery -----------------------------
(***************************************************************************)
(* RegexClusterRepository::deep_query (librereuse/db/                      *)
(* regex_cluster_repository.cc), which its query() returns: one thread     *)
(* visits the clusters in order, skips those that test() rules out, and    *)
(* puts the answer of each of the others before what it has gathered.      *)
(* It is what any repository of clusters answers, so it also serves as the *)
(* abstract specification of ParallelQuery.                                *)
(***************************************************************************)
EXTENDS Naturals, Sequences

CONSTANTS NumClusters,
          Answer,       \* Answer[c]: what query->query returns for cluster c
          Test          \* Test[c]: what query->test returns for cluster c

VARIABLES next,     \* the cluster the loop is at
          results,  \* combined_results
          outcome   \* "running", "returned" or "thrown"

serialVars == <<next, results, outcome>>

SerialInit == next = 1 /\ results = <<>> /\ outcome = "running"

QueryCluster ==
    /\ outcome = "running" /\ next <= NumClusters
    /\ Test[next]
    /\ results' = Answer[next] \o results
    /\ next' = next + 1
    /\ UNCHANGED outcome

SkipCluster ==
    /\ outcome = "running" /\ next <= NumClusters
    /\ ~Test[next]
    /\ next' = next + 1
    /\ UNCHANGED <<results, outcome>>

\* Allocation fails somewhere and the exception leaves the function.
Throw ==
    /\ outcome = "running"
    /\ outcome' = "thrown"
    /\ UNCHANGED <<next, results>>

Return ==
    /\ outcome = "running" /\ next > NumClusters
    /\ outcome' = "returned"
    /\ UNCHANGED <<next, results>>

SerialNext == QueryCluster \/ SkipCluster \/ Throw \/ Return

SerialSafeSpec == SerialInit /\ [][SerialNext]_serialVars

SerialSpec == SerialSafeSpec /\ WF_serialVars(SerialNext)
=============================================================================
