---------------------------- MODULE Repositories ----------------------------
(***************************************************************************)
(* The ways to hold one corpus for searching: the clusters of a file added *)
(* one by one (RegexClusterRepository::add_cluster), the same regexes      *)
(* shuffled into clusters of one size (randomize_clusters), packed in      *)
(* order into clusters of at most a given size (the other constructor), or *)
(* without clusters (RegexRepository); and how each answers a query.       *)
(* performance/memory builds and queries all but the packed one.           *)
(*                                                                         *)
(* Here Match never runs out of memory: ClusterMatchQuery models what      *)
(* happens if it does.                                                     *)
(***************************************************************************)
EXTENDS Cluster

CONSTANTS Files,           \* what a file of clusters may hold
          Refused,         \* the regexes that RE2 cannot compile on their own
          Examples,
          Language,        \* Language[r]: the examples that r matches
          MaxClusterSize   \* of the packing constructor

Members(list) == {list[i] : i \in DOMAIN list}

\* All regexes of a list of clusters, in order: unpack_patterns.
Unpacked(clusters) ==
    LET all[n \in 0 .. Len(clusters)] ==
            IF n = 0 THEN <<>> ELSE all[n - 1] \o clusters[n].entities
    IN all[Len(clusters)]

\* The programs that write clusters put a regex into one cluster, once.
ASSUME FilesAssumption ==
    Files \subseteq {lists \in Seq(Seq(Regexes)) :
        \A i, j \in DOMAIN lists : \A k \in DOMAIN lists[i], l \in DOMAIN lists[j] :
            lists[i][k] = lists[j][l] => i = j /\ k = l}
ASSUME RefusedAssumption == Unparsed \subseteq Refused
ASSUME ExamplesAssumption == IsFiniteSet(Examples)
ASSUME LanguageAssumption == Language \in [Regexes -> SUBSET Examples]
ASSUME MaxAssumption == MaxClusterSize \in Nat \ {0}

VARIABLES file,       \* read_semantic_clusters: the clusters of the file
          kind,       \* which repository is built
          skipTest,   \* skipTestOpt
          left,       \* positions of the regexes not placed in clusters yet
          strings,    \* cluster_strings: the cluster being dealt
          clusters,   \* clusters built and not added yet
          repo,       \* the clusters of the repository
          dropped,    \* how many regexes were in clusters that did not compile
          pc, positive, negative,
          at,         \* deep_query's loop over the clusters
          results, skipped

source == <<file, kind, skipTest>>
placing == <<left, strings, clusters, repo, dropped>>
querying == <<positive, negative, at, results, skipped>>
vars == <<source, placing, pc, querying>>

Kinds == {"semantic", "random", "packed"}
Patterns == Unpacked(file)

Init ==
    /\ \E lists \in Files : file = ClustersOf(lists)
    /\ kind \in Kinds /\ (kind = "random" => file # <<>>)
    /\ skipTest \in BOOLEAN
    /\ IF kind = "semantic" THEN left = {} /\ clusters = file /\ pc = "add"
       ELSE left = DOMAIN Patterns /\ clusters = <<>> /\ pc = "place"
    /\ strings = <<>> /\ repo = <<>> /\ dropped = 0
    /\ positive = {} /\ negative = {} /\ at = 1 /\ results = <<>> /\ skipped = 0

-----------------------------------------------------------------------------
(* Building. *)

\* Faulty: the cluster strings are not cleared.
LeftoverStringsKept(list) == list

\* randomize_clusters clears the strings of a cluster that is full.
AfterFull(list) == <<>>

\* The next regex of a random order; the cluster is built when it has the
\* size of the file's first cluster.
Deal(i) ==
    /\ kind = "random" /\ pc = "place" /\ i \in left
    /\ left' = left \ {i}
    /\ LET list == Append(strings, Patterns[i])
       IN IF Len(list) = file[1].size
          THEN clusters' = Append(clusters, BuildCluster(list)) /\ strings' = AfterFull(list)
          ELSE strings' = list /\ UNCHANGED clusters
    /\ UNCHANGED <<source, repo, dropped, pc, querying>>

\* Faulty: the cluster at the back is filled one beyond the bound.
HasRoomAndOne(list) == list # <<>> /\ list[Len(list)].size <= MaxClusterSize

HasRoom(list) == list # <<>> /\ list[Len(list)].size < MaxClusterSize

\* The next regex in order: into the last cluster if it has room, else into
\* a new one, which is kept only if it takes the regex.
Pack(i) ==
    /\ kind = "packed" /\ pc = "place" /\ i \in left
    /\ \A j \in left : i <= j
    /\ left' = left \ {i}
    /\ clusters' =
           IF HasRoom(clusters)
           THEN [clusters EXCEPT ![Len(clusters)] = AddEntity(@, Patterns[i])]
           ELSE IF Adds(BuildCluster(<<>>), Patterns[i])
                THEN Append(clusters, AddEntity(BuildCluster(<<>>), Patterns[i]))
                ELSE clusters
    /\ UNCHANGED <<source, strings, repo, dropped, pc, querying>>

FinishPlacing ==
    /\ pc = "place" /\ left = {}
    /\ pc' = "add" /\ strings' = <<>>
    /\ UNCHANGED <<source, left, clusters, repo, dropped, querying>>

\* A cluster that does not compile is no part of the repository.
AddCluster ==
    /\ pc = "add" /\ clusters # <<>>
    /\ clusters' = Tail(clusters)
    /\ \E cluster \in CompileOutcomes(Head(clusters)) :
           IF cluster.compiled
           THEN repo' = Append(repo, cluster) /\ UNCHANGED dropped
           ELSE dropped' = dropped + cluster.size /\ UNCHANGED repo
    /\ UNCHANGED <<source, left, strings, pc, querying>>

-----------------------------------------------------------------------------
(* Querying. *)

\* RE2::Set::Match: the positions in the set of the patterns that match.
Hits(cluster, x) == {i \in DOMAIN cluster.set : x \in Language[cluster.set[i]]}

\* Faulty: one regex that matches a negative example rules the cluster out.
TestAny(cluster) ==
    /\ \A x \in positive : Hits(cluster, x) # {}
    /\ \A x \in negative : Hits(cluster, x) = {}

\* ClusterMatchQuery::test and ::query.
Test(cluster) ==
    /\ \A x \in positive : Hits(cluster, x) # {}
    /\ \A x \in negative : Hits(cluster, x) # {} => Cardinality(Hits(cluster, x)) # cluster.size

Answer(cluster) ==
    LET chosen == {i \in 1 .. cluster.size : (\A x \in positive : i \in Hits(cluster, x))
                                          /\ (\A x \in negative : i \notin Hits(cluster, x))}
    IN At(cluster.entities, chosen)

\* Faulty: the counter of skipped clusters outlives the query.
SkippedBefore == skipped

SkippedAtStart == 0

StartQuery ==
    /\ \/ pc = "add" /\ clusters = <<>>
       \/ pc = "answered"
    /\ positive' \in SUBSET Examples /\ negative' \in SUBSET Examples
    /\ pc' = "query" /\ at' = 1 /\ results' = <<>> /\ skipped' = SkippedAtStart
    /\ UNCHANGED <<source, placing>>

QueryCluster ==
    /\ pc = "query" /\ at <= Len(repo)
    /\ at' = at + 1
    /\ IF skipTest \/ Test(repo[at])
       THEN results' = Answer(repo[at]) \o results /\ UNCHANGED skipped
       ELSE skipped' = skipped + 1 /\ UNCHANGED results
    /\ UNCHANGED <<source, placing, pc, positive, negative>>

FinishQuery ==
    /\ pc = "query" /\ at > Len(repo)
    /\ pc' = "answered"
    /\ UNCHANGED <<source, placing, querying>>

Next ==
    \/ \E i \in left : Deal(i) \/ Pack(i)
    \/ FinishPlacing \/ AddCluster
    \/ StartQuery \/ QueryCluster \/ FinishQuery

Spec == Init /\ [][Next]_vars

-----------------------------------------------------------------------------

(* Types; a query skips no more clusters than the repository has.          *)
RepositoryTypeOK ==
    /\ file \in Seq(ClusterRecord) /\ kind \in Kinds /\ skipTest \in BOOLEAN
    /\ left \subseteq DOMAIN Patterns
    /\ strings \in Seq(Regexes) /\ clusters \in Seq(ClusterRecord) /\ repo \in Seq(ClusterRecord)
    /\ dropped \in Nat /\ skipped \in 0 .. Len(repo)
    /\ pc \in {"place", "add", "query", "answered"}
    /\ positive \subseteq Examples /\ negative \subseteq Examples
    /\ at \in 1 .. Len(repo) + 1 /\ results \in Seq(Regexes)

(* The sets and the entity lists of all clusters agree, position by        *)
(* position, and no cluster of a repository is left uncompiled.            *)
ClustersAgree ==
    /\ \A i \in DOMAIN file : Aligned(file[i])
    /\ \A i \in DOMAIN clusters : Aligned(clusters[i])
    /\ \A i \in DOMAIN repo : Aligned(repo[i]) /\ repo[i].compiled

PlacedSoFar == {Patterns[i] : i \in DOMAIN Patterns \ left}
InClusters(list) == Members(Unpacked(list))

(* The packing constructor keeps the regexes that parse, in their order,   *)
(* and every cluster but the last is full; dealing puts no regex into two  *)
(* clusters and fewer than a cluster has into none.                        *)
NothingLost ==
    pc = "place" =>
        /\ kind = "packed" =>
               /\ Unpacked(clusters) =
                      Accepted(SubSeq(Patterns, 1, Len(Patterns) - Cardinality(left)))
               /\ \A i \in DOMAIN clusters :
                      /\ clusters[i].size \in 1 .. MaxClusterSize
                      /\ i < Len(clusters) => clusters[i].size = MaxClusterSize
        /\ kind = "random" =>
               /\ PlacedSoFar = InClusters(clusters) \cup Members(strings)
               /\ Cardinality(PlacedSoFar) = Len(Unpacked(clusters)) + Len(strings)
               /\ file[1].size > 0 => Len(strings) < file[1].size

\* RegexRepository: what RE2 compiles, asked one by one with a MatchQuery,
\* whose MissScore counts the examples on the wrong side and allows none.
SerialRegexes == {r \in Members(Patterns) : r \notin Refused}
Misses(r) == Cardinality(positive \ Language[r]) + Cardinality(negative \cap Language[r])
SerialAnswer == {r \in SerialRegexes : Misses(r) <= 0}

(* However the regexes are clustered and whether or not test() is asked    *)
(* first, a query answers what asking regex by regex does, once each, but  *)
(* for regexes that are in no cluster; and those are only the last of a    *)
(* shuffled corpus and those of clusters that did not compile.             *)
RepositoriesAgree ==
    pc = "answered" =>
        /\ Members(results) \ Refused = SerialAnswer \cap InClusters(repo)
        /\ Cardinality(Members(results)) = Len(results)
        /\ kind # "random" =>
               Cardinality(Members(Patterns)) = Cardinality(InClusters(repo)) + dropped
        /\ kind = "random" /\ file[1].size > 0 =>
               Cardinality(Members(Patterns)) <
                   Cardinality(InClusters(repo)) + dropped + file[1].size
=============================================================================
