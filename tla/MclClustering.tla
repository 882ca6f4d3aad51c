--------------------------- MODULE MclClustering ---------------------------
(***************************************************************************)
(* The program clustering/mcl-clustering, run several times on one machine *)
(* at the same time or one after the other.                                *)
(*                                                                         *)
(* A run names its temporary files with random(), which nobody seeds: the  *)
(* n-th name a run draws is the same in every run.  Two runs therefore     *)
(* write, read and delete each other's files, and a run finds those that   *)
(* one before it has left behind.  Name 0 is a path that the user gave.    *)
(*                                                                         *)
(* Rex and mcl are external: Rex generates strings for the regex in a file *)
(* or fails, mcl fails or writes some partition of the labels of a graph.  *)
(***************************************************************************)
EXTENDS SimilarityGraph, Sequences

CONSTANTS Runs,
          Ids,
          Workers,     \* the threads that make the scorers
          Options,     \* the options a run may be started with
          Corpora,     \* the files of id and pattern pairs
          Empty,       \* the empty pattern
          Refused,     \* the patterns that RE2 refuses
          RexFails     \* the patterns that Rex fails for, or has no string for

\* What a run is told.  A threshold of zero is no pruning.
OptionRecords == [scorer : {"rex", "egret"}, threshold : 0 .. 100,
                  graph : {"temporary", "saved", "existing"}, clusters : {"temporary", "saved"}]

ASSUME IdsAssumption == IsFiniteSet(Ids)
ASSUME WorkersAssumption == Workers \in Nat \ {0}
ASSUME PatternsAssumption == Empty \in Patterns /\ Refused \cup RexFails \subseteq Patterns
ASSUME CorporaAssumption == Corpora \subseteq Seq([id : Ids, pattern : Patterns])
ASSUME OptionsAssumption == Options \subseteq OptionRecords

VARIABLES files,   \* the files of all runs: <<kind, name>> to content
          run,     \* the runs
          alone    \* the runs that no other run has overlapped or followed
vars == <<files, run, alone>>

-----------------------------------------------------------------------------
(* Files. *)

Write(file, content) == [f \in DOMAIN files \cup {file} |-> IF f = file THEN content ELSE files[f]]
Without(removed) == [f \in DOMAIN files \ removed |-> files[f]]

\* Faulty: names are made of the process id, one for all files of a run.
NameOfProcess(p) == 1

\* The next name that random() gives to run p.
Draw(p) == run[p].draws + 1

-----------------------------------------------------------------------------

\* read_patterns_id_pairs: the last line with an id counts.
Pairs(lines) ==
    [i \in {lines[k].id : k \in DOMAIN lines} |->
        LET last == CHOOSE k \in DOMAIN lines :
                        /\ lines[k].id = i
                        /\ \A m \in DOMAIN lines : lines[m].id = i => m <= k
        IN lines[last].pattern]

Queued == [stage |-> "queued", file |-> 0, strings |-> Empty]

NotStarted == [pc |-> "off", options |-> {}, corpus |-> <<>>, scorers |-> <<>>, scores |-> <<>>,
               draws |-> 0, graph |-> 0, clusters |-> {}, out |-> {}, before |-> {}]

Init ==
    /\ files = <<>>
    /\ run = [p \in Runs |-> NotStarted]
    /\ alone = {}

\* The memory of a run that has failed is gone.
Failed == [NotStarted EXCEPT !.pc = "failed"]

Active(p) == run[p].pc \notin {"off", "ended", "failed"}

Start(p, options, lines) ==
    /\ run[p].pc = "off"
    /\ run' = [run EXCEPT ![p] =
                  [@ EXCEPT !.pc = "scorers", !.options = options, !.corpus = Pairs(lines),
                            !.scorers = [i \in DOMAIN Pairs(lines) |-> Queued], !.before = DOMAIN files]]
    /\ alone' = IF \E q \in Runs \ {p} : Active(q) THEN {} ELSE {p}
    /\ UNCHANGED files

-----------------------------------------------------------------------------
(* The scorers, made by the tasks of a pool. *)

Stage(p, i) == run[p].scorers[i].stage
AtWork(p) == {i \in DOMAIN run[p].scorers : Stage(p, i) \in {"asking", "storing"}}

BeginScorer(p, i, scorer) ==
    /\ run[p].pc = "scorers" /\ run[p].options.scorer = scorer
    /\ i \in DOMAIN run[p].scorers /\ Stage(p, i) = "queued"
    /\ Cardinality(AtWork(p)) < Workers

SetScorer(p, i, stage, file, strings) ==
    run' = [run EXCEPT ![p].scorers[i] = [stage |-> stage, file |-> file, strings |-> strings],
                       ![p].draws = IF file # 0 THEN @ + 1 ELSE @]

\* EgretSimilarityScorer; an exception gives a null scorer.
MakeEgretScorer(p, i) ==
    /\ BeginScorer(p, i, "egret")
    /\ LET pattern == run[p].corpus[i]
       IN SetScorer(p, i, IF pattern \in Refused \cup {Empty} THEN "null" ELSE "ready", 0, pattern)
    /\ UNCHANGED <<files, alone>>

\* RexSimilarityScorer, up to the call of Rex: TempRegexFile.
OpenRegexFile(p, i) ==
    /\ BeginScorer(p, i, "rex")
    /\ IF run[p].corpus[i] = Empty
       THEN SetScorer(p, i, "null", 0, Empty) /\ UNCHANGED files
       ELSE /\ SetScorer(p, i, "asking", Draw(p), Empty)
            /\ files' = Write(<<"regex", Draw(p)>>, run[p].corpus[i])
    /\ UNCHANGED alone

\* Rex reads the file; then the file is removed, whosever it is by now.
Generate(p, i) ==
    /\ i \in AtWork(p) /\ Stage(p, i) = "asking" /\ Active(p)
    /\ LET file == <<"regex", run[p].scorers[i].file>>
       IN /\ IF file \in DOMAIN files /\ files[file] \notin RexFails
             THEN SetScorer(p, i, "storing", 0, files[file])
             ELSE SetScorer(p, i, "null", 0, Empty)
          /\ files' = Without({file})
    /\ UNCHANGED alone

\* The strings go to a file, which stays if RE2 then refuses the pattern.
StoreStrings(p, i) ==
    /\ i \in AtWork(p) /\ Stage(p, i) = "storing" /\ Active(p)
    /\ SetScorer(p, i, IF run[p].corpus[i] \in Refused THEN "null" ELSE "ready",
                 Draw(p), run[p].scorers[i].strings)
    /\ files' = Write(<<"strings", Draw(p)>>, run[p].scorers[i].strings)
    /\ UNCHANGED alone

\* Faulty: null scorers are kept.
AllScorers(p) == DOMAIN run[p].scorers

Scorers(p) == {i \in DOMAIN run[p].scorers : Stage(p, i) = "ready"}

FinishScorers(p) ==
    /\ run[p].pc = "scorers"
    /\ \A i \in DOMAIN run[p].scorers : Stage(p, i) \in {"ready", "null"}
    /\ run' = [run EXCEPT ![p].pc = IF run[p].options.graph = "existing" THEN "cluster" ELSE "score"]
    /\ UNCHANGED <<files, alone>>

-----------------------------------------------------------------------------
(* The scores and the graph. *)

StringsFile(p, r) == <<"strings", run[p].scorers[r].file>>

\* load_strings; Egret's strings are in memory.
Loads(p, r) == run[p].options.scorer = "rex" => StringsFile(p, r) \in DOMAIN files

\* One task for each pair.  Rex's strings are read back from their file; if
\* it is gone, the exception ends the program, and its files stay.
Score(p, r, c) ==
    /\ run[p].pc = "score"
    /\ {r, c} \subseteq Scorers(p) /\ <<r, c>> \notin DOMAIN run[p].scores
    /\ LET source == IF run[p].options.scorer = "egret" THEN run[p].corpus[r]
                     ELSE files[StringsFile(p, r)]
       IN IF ~Loads(p, r)
          THEN run' = [run EXCEPT ![p] = Failed]
          ELSE run' = [run EXCEPT ![p].scores = [pair \in DOMAIN @ \cup {<<r, c>>} |->
                                                    IF pair = <<r, c>> THEN source ELSE @[pair]]]
    /\ UNCHANGED <<files, alone>>

\* A score is kept as the pattern whose strings it was made with.
ScoreOf(p, r, c) ==
    IF run[p].options.scorer = "rex" THEN RexScore(run[p].scores[<<r, c>>], run[p].corpus[c])
    ELSE EgretScore(run[p].scores[<<r, c>>], run[p].corpus[c])

Edges(p) ==
    {pair \in {{r, c} : r, c \in Scorers(p)} :
        \A r, c \in pair : pair = {r, c} =>
            IsEdge(Average(ScoreOf(p, r, c), ScoreOf(p, c, r)), run[p].options.threshold)}

\* The name of a temporary file or of the user's, and the names drawn then.
NameFor(p, where) == IF where = "temporary" THEN Draw(p) ELSE 0
DrawsAfter(p, where) == IF where = "temporary" THEN Draw(p) ELSE run[p].draws

WriteGraph(p) ==
    /\ run[p].pc = "score" /\ DOMAIN run[p].scores = Scorers(p) \X Scorers(p)
    /\ LET name == NameFor(p, run[p].options.graph)
       IN /\ files' = Write(<<"graph", name>>, Edges(p))
          /\ run' = [run EXCEPT ![p].pc = "cluster", ![p].graph = name,
                                ![p].draws = DrawsAfter(p, run[p].options.graph)]
    /\ UNCHANGED alone

-----------------------------------------------------------------------------
(* The clusters. *)

Partitions(labels) ==
    {parts \in SUBSET ((SUBSET labels) \ {{}}) :
        UNION parts = labels /\ \A a, b \in parts : a # b => a \cap b = {}}

ClusterFile(p) == <<"clusters", NameFor(p, run[p].options.clusters)>>

\* A label of a graph that is not there, or mcl itself, ends the program.
RunMcl(p) ==
    /\ run[p].pc = "cluster"
    /\ \/ /\ <<"graph", run[p].graph>> \in DOMAIN files
          /\ \E parts \in Partitions(UNION files[<<"graph", run[p].graph>>]) :
                 files' = Write(ClusterFile(p), parts)
          /\ run' = [run EXCEPT ![p].pc = "read"]
       \/ run' = [run EXCEPT ![p] = Failed] /\ UNCHANGED files
    /\ UNCHANGED alone

\* A file that is not there is one without lines.
ReadClusters(p) ==
    /\ run[p].pc = "read"
    /\ run' = [run EXCEPT ![p].pc = "print",
                          ![p].clusters = IF ClusterFile(p) \in DOMAIN files
                                          THEN files[ClusterFile(p)] ELSE {}]
    /\ UNCHANGED <<files, alone>>

\* Faulty: the labels are taken for ids of the corpus, not of the scorers.
PatternsOfCorpus(p, cluster) == {run[p].corpus[i] : i \in cluster \cap DOMAIN run[p].corpus}

\* get_pattern for each id; those without one are left out.
PatternsOf(p, cluster) == {run[p].corpus[i] : i \in cluster \cap Scorers(p)}

\* Faulty: the scorers leave their files.
RemovedButStrings(p) ==
    {file \in {ClusterFile(p), <<"graph", run[p].graph>>} : file[2] # 0}

\* What the destructors of the wrapper, the table and its scorers delete.
Removed(p) ==
    {file \in {ClusterFile(p), <<"graph", run[p].graph>>} : file[2] # 0}
        \cup {StringsFile(p, i) : i \in Scorers(p)}

\* write_patterns, and the end of main.
WriteAndReturn(p) ==
    /\ run[p].pc = "print"
    /\ run' = [run EXCEPT ![p].pc = "ended", ![p].out = {PatternsOf(p, c) : c \in run[p].clusters}]
    /\ files' = Without(Removed(p))
    /\ UNCHANGED alone

Killed(p) ==
    /\ Active(p)
    /\ run' = [run EXCEPT ![p] = Failed]
    /\ UNCHANGED <<files, alone>>

AllOver ==
    /\ \A p \in Runs : run[p].pc \in {"ended", "failed"}
    /\ UNCHANGED vars

Next ==
    \/ AllOver
    \/ \E p \in Runs :
        \/ \E options \in Options, lines \in Corpora : Start(p, options, lines)
        \/ \E i \in Ids : \/ MakeEgretScorer(p, i) \/ OpenRegexFile(p, i)
                          \/ Generate(p, i) \/ StoreStrings(p, i)
        \/ FinishScorers(p)
        \/ \E r, c \in Ids : Score(p, r, c)
        \/ WriteGraph(p) \/ RunMcl(p) \/ ReadClusters(p) \/ WriteAndReturn(p)
        \/ Killed(p)

Spec == Init /\ [][Next]_vars

-----------------------------------------------------------------------------

RunRecord ==
    [pc : {"off", "scorers", "score", "cluster", "read", "print", "ended", "failed"},
     draws : 0 .. 2 * Cardinality(Ids) + 2, graph : Nat,
     clusters : SUBSET SUBSET Ids, out : SUBSET SUBSET Patterns]

(* Types.  Only regexes that have a scorer are scored; no run draws a name *)
(* more often than it has files.                                           *)
MclTypeOK ==
    /\ alone \subseteq Runs /\ Cardinality(alone) <= 1
    /\ \A file \in DOMAIN files :
           /\ file[1] \in {"regex", "strings"} => files[file] \in Patterns
           /\ file[1] = "graph" => files[file] \subseteq SUBSET Ids
           /\ file[1] = "clusters" => files[file] \subseteq SUBSET Ids
    /\ \A p \in Runs :
           /\ [field \in {"pc", "draws", "graph", "clusters", "out"} |-> run[p][field]] \in RunRecord
           /\ DOMAIN run[p].corpus \subseteq Ids
           /\ \A pair \in DOMAIN run[p].scores, k \in 1 .. 2 : Stage(p, pair[k]) = "ready"

Scorable(p) ==
    {i \in DOMAIN run[p].corpus :
        /\ run[p].corpus[i] \notin Refused \cup {Empty}
        /\ run[p].options.scorer = "rex" => run[p].corpus[i] \notin RexFails}

(* A run that no other overlaps makes a scorer for each pattern that can   *)
(* have one and scores each regex with the strings of its own pattern,     *)
(* whatever an earlier run has left behind and however its tasks mix.      *)
ScoresAreOwn ==
    \A p \in alone : run[p].pc \in {"score", "cluster", "read", "print", "ended"} =>
        /\ Scorers(p) = Scorable(p)
        /\ \A pair \in DOMAIN run[p].scores : run[p].scores[pair] = run[p].corpus[pair[1]]

\* The labels of the graph that the corpus of p defines.
Expected(p, i, j) == IF run[p].options.scorer = "rex" THEN RexScore(run[p].corpus[i], run[p].corpus[j])
                   ELSE EgretScore(run[p].corpus[i], run[p].corpus[j])
Similar(p, i, j) == IsEdge(Average(Expected(p, i, j), Expected(p, j, i)), run[p].options.threshold)

(* What such a run writes is the patterns of its corpus that have a scorer *)
(* and are similar enough to one that has, be it themselves: each of them, *)
(* nothing else, and with an existing graph at most those; no cluster is   *)
(* empty unless the graph is an existing one.                              *)
WritesItsPatterns ==
    \A p \in alone : run[p].pc = "ended" =>
        LET connected == {i \in Scorable(p) : \E j \in Scorable(p) : Similar(p, i, j)}
            written == UNION run[p].out
        IN IF run[p].options.graph = "existing"
           THEN written \subseteq {run[p].corpus[i] : i \in Scorable(p)}
           ELSE written = {run[p].corpus[i] : i \in connected} /\ {} \notin run[p].out

(* Such a run leaves nothing in /tmp that it did not find there but the    *)
(* strings of the patterns that Rex accepts and RE2 refuses.               *)
LeavesOnlyRefused ==
    \A p \in alone : run[p].pc = "ended" =>
        LET left == {file \in DOMAIN files \ run[p].before : file[2] # 0}
        IN /\ \A file \in left : file[1] = "strings" /\ files[file] \in Refused
           /\ Cardinality(left) <= Cardinality(DOMAIN run[p].corpus \ Scorers(p))
=============================================================================
