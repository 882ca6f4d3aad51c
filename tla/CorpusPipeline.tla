--------------------------- MODULE CorpusPipeline ---------------------------
(***************************************************************************)
(* From a corpus of regexes to the service that searches it: the programs  *)
(* filter and cluster-tool and the start of regexdb, which know each other *)
(* only by the files they read and write.  Each may be run at any time and *)
(* may end at any step: nothing stops one from reading what another is     *)
(* still writing, or has left behind half written.                         *)
(*                                                                         *)
(* A file of patterns is the set of its lines; a file of clusters is a     *)
(* JSON array and is complete or cut short.                                *)
(***************************************************************************)
EXTENDS Cluster

CONSTANTS
    Corpora,          \* the corpus is one of these sets of lines
    Arguments,        \* the options filter is called with: sets of names
    NonAscii, TooLong, Refused, EgretFails,
                      \* the regexes that fail a test of the filter
    Strings,          \* Strings[r]: the strings egret makes up for r
    Language,         \* Language[r]: the strings that r matches in full
    MaxClusterSize,   \* 100
    NoFile

\* Lines without JSON, without the keys, with a key that is not a string.
Junk == {"notJson", "noKeys", "wrongType"}

\* What filter can be told; that it takes only ASCII cannot be changed.
Switches == {"maxLength", "re2", "egret"}

ASSUME CorporaAssumption == Corpora \subseteq SUBSET (Regexes \cup Junk)
ASSUME RegexAssumption == Junk \cap Regexes = {} /\ IsFiniteSet(Regexes)
ASSUME ArgumentsAssumption == Arguments \subseteq SUBSET Switches
ASSUME RefusedAssumption == Unparsed \subseteq Refused
ASSUME MaxAssumption == MaxClusterSize \in Nat
ASSUME StringsAssumption ==
    \A r \in Regexes : IsFiniteSet(Strings[r]) /\ Strings[r] # {}

VARIABLES corpus,       \* the lines of the corpus file
          filtered,     \* the lines of filter's output, or NoFile
          clusterFile,  \* cluster-tool's output, or NoFile
          tool,         \* cluster-tool
          service       \* regexdb

vars == <<corpus, filtered, clusterFile, tool, service>>

ToolIdle == [pc |-> "idle", read |-> {}, regexes |-> {}, clusters |-> <<>>,
             growing |-> <<>>]

ServiceDown == [up |-> FALSE, from |-> {}, repo |-> <<>>, dropped |-> 0]

Init ==
    /\ corpus \in Corpora
    /\ filtered = NoFile /\ clusterFile = NoFile
    /\ tool = ToolIdle
    /\ service = ServiceDown

-----------------------------------------------------------------------------
(* filter. *)

Passes(r, args) ==
    /\ "maxLength" \in args => r \notin TooLong
    /\ r \notin NonAscii
    /\ "re2" \in args => r \notin Refused
    /\ "egret" \in args => r \notin EgretFails

\* It reads the whole corpus, then opens its output and writes line by line:
\* the file has some of the lines while filter runs, and if it is killed.
\* A line of the wrong type ends it before that; other junk is passed over.
FilterCorpus(args) ==
    /\ "wrongType" \notin corpus
    /\ filtered' \in SUBSET {r \in corpus \cap Regexes : Passes(r, args)}
    /\ UNCHANGED <<corpus, clusterFile, tool, service>>

-----------------------------------------------------------------------------
(* cluster-tool. *)

\* read_patterns_from_path: a file that cannot be opened is an empty one.
LinesOf(file) == IF file = NoFile THEN {} ELSE file

\* The constructor of a RegexInfo succeeds; build_regex_infos skips the rest.
Builds(r) == r \notin Refused \cup EgretFails
RegexInfos(lines) == {r \in lines \cap Regexes : Builds(r)}

\* The strings of s on which r and s agree, and the score made of them.
Agreement(r, s) == Cardinality({x \in Strings[s] : x \in Language[r] <=> x \in Language[s]})

Score(r, s) == [hits |-> Agreement(r, s) + Agreement(s, r),
                of |-> Cardinality(Strings[r]) + Cardinality(Strings[s])]

Above(left, right) == left.hits * right.of > right.hits * left.of

\* read_patterns passes over lines that are no JSON; any other junk ends it.
ReadPatterns(file) ==
    /\ tool.pc = "idle"
    /\ LinesOf(file) \cap {"noKeys", "wrongType"} = {}
    /\ tool' = [ToolIdle EXCEPT !.pc = "cluster", !.read = RegexInfos(LinesOf(file)),
                                !.regexes = RegexInfos(LinesOf(file))]
    /\ UNCHANGED <<corpus, filtered, clusterFile, service>>

\* randomly_remove_info gives the seed of a new cluster.
RemoveSeed(r) ==
    /\ tool.pc = "cluster" /\ tool.growing = <<>>
    /\ Cardinality(tool.regexes) > MaxClusterSize
    /\ r \in tool.regexes
    /\ tool' = [tool EXCEPT !.regexes = @ \ {r}, !.growing = <<r>>]
    /\ UNCHANGED <<corpus, filtered, clusterFile, service>>

\* Faulty: the scores are sorted the other way round.
LeastSimilar(r) ==
    \A s \in tool.regexes : ~Above(Score(tool.growing[1], r), Score(tool.growing[1], s))

\* The next of the sorted scores; ties are in any order.
MostSimilar(r) ==
    \A s \in tool.regexes : ~Above(Score(tool.growing[1], s), Score(tool.growing[1], r))

\* Faulty: the loop over the scores goes one too far.
HasRoomAndOne == Len(tool.growing) \in 1 .. MaxClusterSize + 1

HasRoom == Len(tool.growing) \in 1 .. MaxClusterSize

\* Faulty: what has been moved from stays in the list.
LeftAfterCopying(r) == tool.regexes

LeftAfter(r) == tool.regexes \ {r}

StealNext(r) ==
    /\ tool.pc = "cluster" /\ HasRoom
    /\ r \in tool.regexes /\ MostSimilar(r)
    /\ tool' = [tool EXCEPT !.regexes = LeftAfter(r), !.growing = Append(@, r)]
    /\ UNCHANGED <<corpus, filtered, clusterFile, service>>

CloseCluster ==
    /\ tool.pc = "cluster" /\ Len(tool.growing) = MaxClusterSize + 1
    /\ tool' = [tool EXCEPT !.clusters = Append(@, tool.growing), !.growing = <<>>]
    /\ UNCHANGED <<corpus, filtered, clusterFile, service>>

\* The file has some of the clusters while cluster-tool writes it.
OpenOutput ==
    /\ tool.pc = "cluster" /\ tool.growing = <<>>
    /\ Cardinality(tool.regexes) <= MaxClusterSize
    /\ \E k \in 0 .. Len(tool.clusters) :
           clusterFile' = [complete |-> FALSE, from |-> tool.read,
                           clusters |-> SubSeq(tool.clusters, 1, k)]
    /\ tool' = [tool EXCEPT !.pc = "write"]
    /\ UNCHANGED <<corpus, filtered, service>>

CloseOutput ==
    /\ tool.pc = "write"
    /\ clusterFile' = [complete |-> TRUE, from |-> tool.read, clusters |-> tool.clusters]
    /\ tool' = ToolIdle
    /\ UNCHANGED <<corpus, filtered, service>>

ToolKilled ==
    /\ tool.pc # "idle" /\ tool' = ToolIdle
    /\ UNCHANGED <<corpus, filtered, clusterFile, service>>

-----------------------------------------------------------------------------
(* regexdb: QueryServiceImpl. *)

\* Faulty: what could be read of the file is taken for all of it.
ReadableLeniently == clusterFile # NoFile

\* read_semantic_clusters throws if the file is missing or cut short.
Readable == clusterFile # NoFile /\ clusterFile.complete

\* The constructor builds all clusters and adds them to the repository, but
\* for those that do not compile.  What it does in between nobody sees.
StartService ==
    /\ ~service.up /\ Readable
    /\ LET given == ClustersOf(clusterFile.clusters) IN
       \E built \in [DOMAIN given -> UNION {CompileOutcomes(given[i]) : i \in DOMAIN given}] :
           /\ \A i \in DOMAIN given : built[i] \in CompileOutcomes(given[i])
           /\ LET repo == At(built, {i \in DOMAIN built : built[i].compiled})
              IN service' = [up |-> TRUE, from |-> clusterFile.from, repo |-> repo,
                             dropped |-> Len(given) - Len(repo)]
    /\ UNCHANGED <<corpus, filtered, clusterFile, tool>>

StopService ==
    /\ service.up /\ service' = ServiceDown
    /\ UNCHANGED <<corpus, filtered, clusterFile, tool>>

-----------------------------------------------------------------------------

Next ==
    \/ \E args \in Arguments : FilterCorpus(args)
    \/ ReadPatterns(corpus) \/ ReadPatterns(filtered)
    \/ \E r \in Regexes : RemoveSeed(r) \/ StealNext(r)
    \/ CloseCluster \/ OpenOutput \/ CloseOutput \/ ToolKilled
    \/ StartService \/ StopService

Spec == Init /\ [][Next]_vars

-----------------------------------------------------------------------------

ClusterFiles == [complete : BOOLEAN, clusters : Seq(Seq(Regexes)), from : SUBSET Regexes]

CorpusTypeOK ==
    /\ corpus \in Corpora
    /\ filtered \in (SUBSET Regexes) \cup {NoFile}
    /\ clusterFile \in ClusterFiles \cup {NoFile}
    /\ tool \in [pc : {"idle", "cluster", "write"}, read : SUBSET Regexes,
                 regexes : SUBSET Regexes, clusters : Seq(Seq(Regexes)),
                 growing : Seq(Regexes)]
    /\ Len(tool.growing) <= MaxClusterSize + 1
    /\ service \in [up : BOOLEAN, from : SUBSET Regexes,
                    repo : Seq(ClusterRecord), dropped : Nat]

Members(list) == {list[i] : i \in DOMAIN list}
Clustered(clusters) == UNION {Members(clusters[i]) : i \in DOMAIN clusters}
Size(clusters) == Len(clusters) * (MaxClusterSize + 1)

(* While cluster-tool works, each regex it has read is in one place: in    *)
(* one cluster, once, or among those that are left; a cluster has one      *)
(* member more than max_cluster_size.                                      *)
ToolPartitions ==
    tool.pc = "cluster" =>
        LET closed == Clustered(tool.clusters)
            growing == Members(tool.growing)
        IN /\ \A i \in DOMAIN tool.clusters : Len(tool.clusters[i]) = MaxClusterSize + 1
           /\ Cardinality(closed) = Size(tool.clusters)
           /\ Cardinality(growing) = Len(tool.growing)
           /\ tool.read = closed \cup growing \cup tool.regexes
           /\ closed \cap growing = {} /\ (closed \cup growing) \cap tool.regexes = {}

(* No regex that was left when a cluster was formed, whichever cluster it  *)
(* ended in or if it ended in none, is more similar to the cluster's seed  *)
(* than a member of it is.                                                 *)
TakesTheMostSimilar ==
    tool.pc = "cluster" =>
        \A i \in DOMAIN tool.clusters :
            LET seed == tool.clusters[i][1]
                later == tool.regexes \cup Members(tool.growing) \cup
                            Clustered(SubSeq(tool.clusters, i + 1, Len(tool.clusters)))
            IN \A k \in 2 .. Len(tool.clusters[i]), s \in later :
                   ~Above(Score(seed, s), Score(seed, tool.clusters[i][k]))

Served == {service.repo[i].entities : i \in DOMAIN service.repo}

(* A service that is up serves what one complete run of cluster-tool has   *)
(* written: every cluster is whole, because RE2 refuses none of the        *)
(* regexes it is given, no regex is served twice, and of those the tool    *)
(* had read only its leftovers and the clusters that did not compile are   *)
(* missing.                                                                *)
ServesACompleteRun ==
    service.up =>
        LET served == UNION {Members(entities) : entities \in Served}
        IN /\ \A i \in DOMAIN service.repo :
                  /\ service.repo[i].compiled /\ Aligned(service.repo[i])
                  /\ service.repo[i].size = MaxClusterSize + 1
           /\ Cardinality(served) = Size(service.repo)
           /\ served \subseteq service.from
           /\ Cardinality(service.from \ served)
                  <= MaxClusterSize + service.dropped * (MaxClusterSize + 1)
=============================================================================
