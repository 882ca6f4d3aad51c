------------------------ MODULE MclClusteringProofs ------------------------
(***************************************************************************)
(* Proofs about MclClustering, for any number of runs, ids and workers and *)
(* whatever Rex and mcl make of their input: a run that no other overlaps  *)
(* is not disturbed by the files that are there already, nor by the order  *)
(* in which its tasks take the names of its own.                           *)
(*                                                                         *)
(* The state of a run is a record u, the file system a function f; what a  *)
(* step keeps is said of both, before and after.                           *)
(***************************************************************************)
EXTENDS MclClustering, FiniteSetTheorems, WellFoundedInduction, TLAPS

FileNames == {"regex", "strings", "graph", "clusters"} \X Nat

\* What the files hold.
FileType(f) ==
    /\ DOMAIN f \subseteq FileNames
    /\ \A file \in DOMAIN f :
          /\ file[1] \in {"regex", "strings"} => f[file] \in Patterns
          /\ file[1] = "graph" => f[file] \subseteq SUBSET Ids
          /\ file[1] = "clusters" => f[file] \subseteq SUBSET Ids

ScorerRecords ==
    [stage : {"queued", "asking", "storing", "ready", "null"}, file : Nat, strings : Patterns]

\* Functions of some ids, or of some pairs of them.
CorpusFunctions == UNION {[D -> Patterns] : D \in SUBSET Ids}
ScorerFunctions == UNION {[D -> ScorerRecords] : D \in SUBSET Ids}
ScoreFunctions == UNION {[D -> Patterns] : D \in SUBSET (Ids \X Ids)}

RunRecords ==
    [pc : {"off", "scorers", "score", "cluster", "read", "print", "ended", "failed"},
     options : OptionRecords \cup {{}},
     corpus : CorpusFunctions, scorers : ScorerFunctions, scores : ScoreFunctions,
     draws : Nat, graph : Nat, clusters : SUBSET SUBSET Ids,
     out : SUBSET SUBSET Patterns, before : SUBSET FileNames]

StageIn(u, i) == u.scorers[i].stage
ReadyIn(u) == {i \in DOMAIN u.scorers : StageIn(u, i) = "ready"}
NullIn(u) == {i \in DOMAIN u.scorers : StageIn(u, i) = "null"}

\* The scorers that may still draw two names, and those that may draw one.
Queue(u) == {i \in DOMAIN u.scorers : StageIn(u, i) = "queued"}
Unmade(u) == {i \in DOMAIN u.scorers : StageIn(u, i) \in {"queued", "asking", "storing"}}

\* The names that are drawn and those that the scorers may still draw.
NamesTaken(u) == u.draws + Cardinality(Queue(u)) + Cardinality(Unmade(u))

RunType(u) ==
    /\ u \in RunRecords
    /\ DOMAIN u.scorers = DOMAIN u.corpus
    /\ u.pc \notin {"off", "failed"} => u.options \in OptionRecords
    /\ u.pc = "off" => u = NotStarted
    /\ u.pc # "scorers" => Unmade(u) = {}
    /\ u.pc \in {"off", "scorers", "failed"} => DOMAIN u.scores = {}
    /\ DOMAIN u.scores \subseteq ReadyIn(u) \X ReadyIn(u)
    /\ u.pc \in {"off", "scorers", "score", "failed"} => NamesTaken(u) <= 2 * Cardinality(Ids)
    /\ NamesTaken(u) <= 2 * Cardinality(Ids) + 1

-----------------------------------------------------------------------------
(* A run that is alone. *)

CanScore(q, scorer) == q \notin Refused \cup {Empty} /\ (scorer = "rex" => q \notin RexFails)

ScorableIn(u) == {i \in DOMAIN u.corpus : CanScore(u.corpus[i], u.options.scorer)}

\* The file of this name holds the pattern.
Holds(f, kind, name, q) == name # 0 /\ <<kind, name>> \in DOMAIN f /\ f[<<kind, name>>] = q

\* A scorer s that is made for the pattern q: its strings, and its file.
OwnScorer(s, q, scorer, f) ==
    /\ s.stage = "queued" => s.file = 0
    /\ s.stage = "asking" => scorer = "rex" /\ q # Empty /\ Holds(f, "regex", s.file, q)
    /\ s.stage = "storing" =>
          scorer = "rex" /\ q # Empty /\ q \notin RexFails /\ s.strings = q /\ s.file = 0
    /\ s.stage = "ready" =>
          /\ CanScore(q, scorer)
          /\ IF scorer = "rex" THEN Holds(f, "strings", s.file, q) ELSE s.file = 0
    /\ s.stage = "null" =>
          /\ ~CanScore(q, scorer)
          /\ s.file # 0 => q \in Refused /\ Holds(f, "strings", s.file, q)

OwnScorers(u, f) ==
    \A i \in DOMAIN u.scorers :
        /\ OwnScorer(u.scorers[i], u.corpus[i], u.options.scorer, f)
        /\ u.scorers[i].file <= u.draws
        /\ \A j \in DOMAIN u.scorers :
              i # j /\ u.scorers[i].file # 0 => u.scorers[i].file # u.scorers[j].file

OwnScores(u) == \A pair \in DOMAIN u.scores : u.scores[pair] = u.corpus[pair[1]]

ScoreIn(u, i, j) ==
    IF u.options.scorer = "rex" THEN RexScore(u.corpus[i], u.corpus[j])
    ELSE EgretScore(u.corpus[i], u.corpus[j])
SimilarIn(u, i, j) == IsEdge(Average(ScoreIn(u, i, j), ScoreIn(u, j, i)), u.options.threshold)

\* The graph of the corpus.
GraphIn(u) ==
    {pair \in {{i, j} : i, j \in ScorableIn(u)} :
        \A i, j \in pair : pair = {i, j} => SimilarIn(u, i, j)}

ClusterName(u) == IF u.options.clusters = "temporary" THEN u.draws + 1 ELSE 0

\* The graph and its clusters, from step to step.
OwnClusters(u, f) ==
    u.options.graph # "existing" =>
        /\ u.pc = "cluster" =>
              <<"graph", u.graph>> \in DOMAIN f /\ f[<<"graph", u.graph>>] = GraphIn(u)
        /\ u.pc = "read" =>
              /\ <<"clusters", ClusterName(u)>> \in DOMAIN f
              /\ f[<<"clusters", ClusterName(u)>>] \in Partitions(UNION GraphIn(u))
        /\ u.pc = "print" => u.clusters \in Partitions(UNION GraphIn(u))

PatternsIn(u, ids) == {u.corpus[i] : i \in ids}

OwnPatterns(u) ==
    IF u.options.graph = "existing" THEN UNION u.out \subseteq PatternsIn(u, ScorableIn(u))
    ELSE UNION u.out = PatternsIn(u, UNION GraphIn(u)) /\ {} \notin u.out

\* The temporary files that the run has made, until it removes them.
ScorerFiles(u) == {<<"strings", u.scorers[i].file>> : i \in NullIn(u)}

Accounted(u, file) ==
    \/ \E i \in DOMAIN u.scorers :
          StageIn(u, i) = "asking" /\ file = <<"regex", u.scorers[i].file>>
    \/ \E i \in ReadyIn(u) : file = <<"strings", u.scorers[i].file>>
    \/ file \in ScorerFiles(u)
    \/ u.pc \in {"cluster", "read", "print"} /\ file = <<"graph", u.graph>>
    \/ u.pc \in {"read", "print"} /\ file = <<"clusters", ClusterName(u)>>

OwnFiles(u, f) == \A file \in DOMAIN f \ u.before : file[2] # 0 => Accounted(u, file)

\* What it leaves behind.
Leftovers(u, f) ==
    \A file \in DOMAIN f \ u.before :
        file[2] # 0 => file \in ScorerFiles(u) /\ f[file] \in Refused

Own(u, f) ==
    /\ u.pc \notin {"off", "failed", "ended"} =>
          OwnScorers(u, f) /\ OwnScores(u) /\ OwnClusters(u, f) /\ OwnFiles(u, f)
    /\ u.pc = "ended" =>
          ReadyIn(u) = ScorableIn(u) /\ OwnScores(u) /\ OwnPatterns(u) /\ Leftovers(u, f)

\* The inductive invariant.
MclControl ==
    /\ FileType(files)
    /\ run \in [Runs -> RunRecords]
    /\ \A p \in Runs : RunType(run[p])
    /\ alone \subseteq Runs
    /\ \A a, b \in alone : a = b
    /\ \A p \in alone :
          /\ Own(run[p], files)
          /\ \A q \in Runs : q # p => ~Active(q)

-----------------------------------------------------------------------------
(* Types. *)

(* The parts of a run.                                                     *)
LEMMA RunParts ==
    ASSUME NEW u \in RunRecords
    PROVE  /\ u = [pc |-> u.pc, options |-> u.options, corpus |-> u.corpus,
                   scorers |-> u.scorers, scores |-> u.scores, draws |-> u.draws,
                   graph |-> u.graph, clusters |-> u.clusters, out |-> u.out,
                   before |-> u.before]
           /\ u.draws \in Nat /\ u.graph \in Nat
           /\ u.options \in OptionRecords \cup {{}} /\ u.corpus \in CorpusFunctions
           /\ u.scorers \in ScorerFunctions /\ u.scores \in ScoreFunctions
           /\ u.clusters \in SUBSET SUBSET Ids /\ u.out \in SUBSET SUBSET Patterns
           /\ u.before \in SUBSET FileNames
           /\ DOMAIN u.corpus \subseteq Ids /\ u.corpus \in [DOMAIN u.corpus -> Patterns]
           /\ DOMAIN u.scorers \subseteq Ids /\ u.scorers \in [DOMAIN u.scorers -> ScorerRecords]
           /\ DOMAIN u.scores \subseteq Ids \X Ids /\ u.scores \in [DOMAIN u.scores -> Patterns]
<1>1. PICK D \in SUBSET Ids : u.corpus \in [D -> Patterns]
    BY DEF RunRecords, CorpusFunctions
<1>2. PICK E \in SUBSET Ids : u.scorers \in [E -> ScorerRecords]
    BY DEF RunRecords, ScorerFunctions
<1>3. PICK F \in SUBSET (Ids \X Ids) : u.scores \in [F -> Patterns]
    BY DEF RunRecords, ScoreFunctions
<1>4. QED BY <1>1, <1>2, <1>3 DEF RunRecords

(* Functions of ids and pairs.                                             *)
LEMMA TheirFunctions ==
    /\ \A g : DOMAIN g \subseteq Ids /\ g \in [DOMAIN g -> Patterns] => g \in CorpusFunctions
    /\ \A g : DOMAIN g \subseteq Ids /\ g \in [DOMAIN g -> ScorerRecords] => g \in ScorerFunctions
    /\ \A g : DOMAIN g \subseteq Ids \X Ids /\ g \in [DOMAIN g -> Patterns] => g \in ScoreFunctions
BY DEF CorpusFunctions, ScorerFunctions, ScoreFunctions

(* The sets of scorers are finite.                                         *)
LEMMA ScorersAreFinite ==
    ASSUME NEW u \in RunRecords
    PROVE  /\ IsFiniteSet(DOMAIN u.scorers) /\ Cardinality(DOMAIN u.scorers) <= Cardinality(Ids)
           /\ IsFiniteSet(Queue(u)) /\ Cardinality(Queue(u)) \in Nat
           /\ IsFiniteSet(Unmade(u)) /\ Cardinality(Unmade(u)) \in Nat
           /\ Cardinality(Ids) \in Nat
<1>1. DOMAIN u.scorers \in SUBSET Ids
    BY RunParts
<1>2. IsFiniteSet(DOMAIN u.scorers) /\ Cardinality(DOMAIN u.scorers) <= Cardinality(Ids)
    BY <1>1, IdsAssumption, FS_Subset
<1>3. Queue(u) \in SUBSET DOMAIN u.scorers /\ Unmade(u) \in SUBSET DOMAIN u.scorers
    BY DEF Queue, Unmade
<1>4. IsFiniteSet(Queue(u)) /\ IsFiniteSet(Unmade(u))
    BY <1>2, <1>3, FS_Subset
<1>5. QED BY <1>2, <1>4, IdsAssumption, FS_CardinalityType

\* What a task makes of its scorer: it draws a name at two of three steps.
Makes(stage, s) ==
    \/ stage = "queued" /\ s.stage = "asking" /\ s.file # 0
    \/ stage = "queued" /\ s.stage \in {"ready", "null"} /\ s.file = 0
    \/ stage = "asking" /\ s.stage \in {"storing", "null"} /\ s.file = 0
    \/ stage = "storing" /\ s.stage \in {"ready", "null"} /\ s.file # 0

\* Run u becomes run v when a task makes s of scorer i.
ScorerMade(u, v, i, s) ==
    /\ u.pc = "scorers" /\ i \in DOMAIN u.scorers /\ s \in ScorerRecords
    /\ Makes(StageIn(u, i), s)
    /\ v = [u EXCEPT !.scorers[i] = s, !.draws = IF s.file # 0 THEN @ + 1 ELSE @]

(* What changes in the run.                                                *)
LEMMA ScorerMadeParts ==
    ASSUME NEW u \in RunRecords, NEW v, NEW i, NEW s, ScorerMade(u, v, i, s)
    PROVE  /\ v = [pc |-> "scorers", options |-> u.options, corpus |-> u.corpus,
                   scorers |-> [u.scorers EXCEPT ![i] = s], scores |-> u.scores,
                   draws |-> IF s.file # 0 THEN u.draws + 1 ELSE u.draws,
                   graph |-> u.graph, clusters |-> u.clusters, out |-> u.out,
                   before |-> u.before]
           /\ v \in RunRecords
           /\ DOMAIN v.scorers = DOMAIN u.scorers
           /\ v.scorers[i] = s
           /\ \A j \in DOMAIN u.scorers : j # i => v.scorers[j] = u.scorers[j]
<1>1. v = [pc |-> "scorers", options |-> u.options, corpus |-> u.corpus,
           scorers |-> [u.scorers EXCEPT ![i] = s], scores |-> u.scores,
           draws |-> IF s.file # 0 THEN u.draws + 1 ELSE u.draws,
           graph |-> u.graph, clusters |-> u.clusters, out |-> u.out,
           before |-> u.before]
    BY DEF ScorerMade, RunRecords
<1>2. PICK scorers : scorers = [u.scorers EXCEPT ![i] = s]
    OBVIOUS
<1>3. PICK draws : draws = IF s.file # 0 THEN u.draws + 1 ELSE u.draws
    OBVIOUS
<1>4. /\ DOMAIN scorers = DOMAIN u.scorers /\ scorers \in [DOMAIN scorers -> ScorerRecords]
      /\ scorers[i] = s
      /\ \A j \in DOMAIN u.scorers : j # i => scorers[j] = u.scorers[j]
    BY <1>2, RunParts DEF ScorerMade
<1>5. draws \in Nat
    BY <1>3, RunParts
<1>6. v = [pc |-> "scorers", options |-> u.options, corpus |-> u.corpus,
           scorers |-> scorers, scores |-> u.scores, draws |-> draws,
           graph |-> u.graph, clusters |-> u.clusters, out |-> u.out, before |-> u.before]
    BY <1>1, <1>2, <1>3
<1>7. scorers \in ScorerFunctions
    BY <1>4, RunParts, TheirFunctions
<1>8. v \in RunRecords
    <2>1. /\ u.options \in OptionRecords \cup {{}} /\ u.corpus \in CorpusFunctions
          /\ u.scores \in ScoreFunctions /\ u.graph \in Nat /\ u.clusters \in SUBSET SUBSET Ids
          /\ u.out \in SUBSET SUBSET Patterns /\ u.before \in SUBSET FileNames
        BY RunParts
    <2>2. QED BY <1>5, <1>6, <1>7, <2>1 DEF RunRecords
<1>9. v.scorers = scorers
    BY <1>6
<1>10. QED BY <1>1, <1>4, <1>8, <1>9

(* No step of a task takes more names than are left for it.                *)
LEMMA ScorerMadeType ==
    ASSUME NEW u \in RunRecords, RunType(u), NEW v, NEW i, NEW s, ScorerMade(u, v, i, s)
    PROVE  RunType(v)
<1>1. /\ v \in RunRecords /\ v.pc = "scorers" /\ u.pc = "scorers" /\ i \in DOMAIN u.scorers
      /\ v.options = u.options /\ v.corpus = u.corpus /\ v.scores = u.scores
      /\ v.draws = IF s.file # 0 THEN u.draws + 1 ELSE u.draws
      /\ DOMAIN v.scorers = DOMAIN u.scorers /\ v.scorers[i] = s
      /\ \A j \in DOMAIN u.scorers : j # i => v.scorers[j] = u.scorers[j]
    <2>1. u.pc = "scorers" /\ i \in DOMAIN u.scorers
        BY DEF ScorerMade
    <2>2. QED BY <2>1, ScorerMadeParts
<1>2. /\ \A j \in DOMAIN u.scorers : j # i => StageIn(v, j) = StageIn(u, j)
      /\ StageIn(v, i) = s.stage
    BY <1>1 DEF StageIn
<1>3. NamesTaken(v) <= NamesTaken(u)
    <2> SUFFICES v.draws + Cardinality(Queue(v)) + Cardinality(Unmade(v))
                    <= u.draws + Cardinality(Queue(u)) + Cardinality(Unmade(u))
        BY DEF NamesTaken
    <2>1. /\ IsFiniteSet(Queue(u)) /\ Cardinality(Queue(u)) \in Nat
          /\ IsFiniteSet(Unmade(u)) /\ Cardinality(Unmade(u)) \in Nat /\ u.draws \in Nat
        BY ScorersAreFinite, RunParts
    <2>2. /\ i \in Queue(u) => Cardinality(Queue(u) \ {i}) = Cardinality(Queue(u)) - 1
          /\ i \in Unmade(u) => Cardinality(Unmade(u) \ {i}) = Cardinality(Unmade(u)) - 1
        BY <2>1, FS_RemoveElement
    <2>3. CASE StageIn(u, i) = "queued" /\ s.stage = "asking" /\ s.file # 0
        <3>1. Queue(v) = Queue(u) \ {i} /\ Unmade(v) = Unmade(u) /\ i \in Queue(u)
            BY <1>1, <1>2, <2>3 DEF Queue, Unmade
        <3>2. QED BY <1>1, <2>1, <2>2, <2>3, <3>1
    <2>4. CASE StageIn(u, i) = "queued" /\ s.stage \in {"ready", "null"} /\ s.file = 0
        <3>1. Queue(v) = Queue(u) \ {i} /\ Unmade(v) = Unmade(u) \ {i}
              /\ i \in Queue(u) /\ i \in Unmade(u)
            BY <1>1, <1>2, <2>4 DEF Queue, Unmade
        <3>2. QED BY <1>1, <2>1, <2>2, <2>4, <3>1
    <2>5. CASE StageIn(u, i) = "asking" /\ s.stage \in {"storing", "null"} /\ s.file = 0
        <3>1. CASE s.stage = "storing"
            <4>1. Queue(v) = Queue(u) /\ Unmade(v) = Unmade(u)
                BY <1>1, <1>2, <2>5, <3>1 DEF Queue, Unmade
            <4>2. QED BY <1>1, <2>1, <2>5, <4>1
        <3>2. CASE s.stage = "null"
            <4>1. Queue(v) = Queue(u) /\ Unmade(v) = Unmade(u) \ {i} /\ i \in Unmade(u)
                BY <1>1, <1>2, <2>5, <3>2 DEF Queue, Unmade
            <4>2. QED BY <1>1, <2>1, <2>2, <2>5, <4>1
        <3>3. QED BY <2>5, <3>1, <3>2
    <2>6. CASE StageIn(u, i) = "storing" /\ s.stage \in {"ready", "null"} /\ s.file # 0
        <3>1. Queue(v) = Queue(u) /\ Unmade(v) = Unmade(u) \ {i} /\ i \in Unmade(u)
            BY <1>1, <1>2, <2>6 DEF Queue, Unmade
        <3>2. QED BY <1>1, <2>1, <2>2, <2>6, <3>1
    <2>7. QED BY <2>3, <2>4, <2>5, <2>6 DEF ScorerMade, Makes
<1>4. DOMAIN v.scores \subseteq ReadyIn(v) \X ReadyIn(v)
    BY <1>1 DEF RunType
<1>5. NamesTaken(u) <= 2 * Cardinality(Ids)
    BY <1>1 DEF RunType
<1>6. NamesTaken(u) \in Nat /\ NamesTaken(v) \in Nat /\ Cardinality(Ids) \in Nat
    <2>1. /\ u.draws \in Nat /\ Cardinality(Queue(u)) \in Nat /\ Cardinality(Unmade(u)) \in Nat
          /\ v.draws \in Nat /\ Cardinality(Queue(v)) \in Nat /\ Cardinality(Unmade(v)) \in Nat
          /\ Cardinality(Ids) \in Nat
        BY <1>1, ScorersAreFinite, RunParts
    <2>2. QED BY <2>1 DEF NamesTaken
<1>7. NamesTaken(v) <= 2 * Cardinality(Ids) /\ NamesTaken(v) <= 2 * Cardinality(Ids) + 1
    BY <1>3, <1>5, <1>6
<1>8. QED BY <1>1, <1>4, <1>7 DEF RunType

-----------------------------------------------------------------------------
(* The scorers of a run that is alone. *)

\* What the scorers hold of the files f is in g as well.
KeepsFor(s, f, g) ==
    \A kind \in {"regex", "strings"} :
        s.file # 0 /\ <<kind, s.file>> \in DOMAIN f =>
            <<kind, s.file>> \in DOMAIN g /\ g[<<kind, s.file>>] = f[<<kind, s.file>>]

(* A scorer depends on its own file alone.                                 *)
LEMMA ScorerKept ==
    ASSUME NEW s, NEW q, NEW scorer, NEW f, NEW g,
           OwnScorer(s, q, scorer, f), KeepsFor(s, f, g)
    PROVE  OwnScorer(s, q, scorer, g)
BY DEF OwnScorer, KeepsFor, Holds

\* Of the files of the scorers, the step changes that of scorer i at most,
\* removes it when Rex has read it, and adds that of the name that s draws.
ScorerFilesMade(u, i, s, f, g) ==
    /\ s.file # 0 => s.file = u.draws + 1
    /\ \A j \in DOMAIN u.scorers : j # i => KeepsFor(u.scorers[j], f, g)
    /\ \A file \in DOMAIN g :
          \/ file \in DOMAIN f
          \/ s.stage = "asking" /\ file = <<"regex", s.file>>
          \/ s.stage \in {"ready", "null"} /\ file = <<"strings", s.file>>
    /\ StageIn(u, i) = "asking" => <<"regex", u.scorers[i].file>> \notin DOMAIN g

(* Such a step leaves the scorers, and the files, with their owners.       *)
LEMMA ScorerMadeOwn ==
    ASSUME NEW u \in RunRecords, RunType(u), NEW v, NEW i, NEW s, ScorerMade(u, v, i, s),
           NEW f, NEW g, Own(u, f), ScorerFilesMade(u, i, s, f, g),
           OwnScorer(s, u.corpus[i], u.options.scorer, g)
    PROVE  Own(v, g)
<1>1. u.pc = "scorers" /\ i \in DOMAIN u.scorers /\ Makes(StageIn(u, i), s)
    BY DEF ScorerMade
<1>2. /\ v.pc = "scorers" /\ v.options = u.options /\ v.corpus = u.corpus
      /\ v.scores = u.scores /\ v.before = u.before
      /\ v.draws = IF s.file # 0 THEN u.draws + 1 ELSE u.draws
      /\ DOMAIN v.scorers = DOMAIN u.scorers /\ v.scorers[i] = s
      /\ \A j \in DOMAIN u.scorers : j # i => v.scorers[j] = u.scorers[j]
    BY ScorerMadeParts
<1>3. OwnScorers(u, f) /\ OwnScores(u) /\ OwnFiles(u, f)
    BY <1>1 DEF Own
<1>4. /\ \A j \in DOMAIN u.scorers : u.scorers[j].file \in Nat /\ u.scorers[j].file <= u.draws
      /\ u.draws \in Nat /\ s.file \in Nat /\ (s.file # 0 => s.file = u.draws + 1)
    <2>1. u.draws \in Nat /\ u.scorers \in [DOMAIN u.scorers -> ScorerRecords]
        BY RunParts
    <2>2. s \in ScorerRecords
        BY DEF ScorerMade
    <2>3. \A j \in DOMAIN u.scorers : u.scorers[j].file \in Nat
        BY <2>1 DEF ScorerRecords
    <2>4. QED BY <1>3, <2>1, <2>2, <2>3 DEF OwnScorers, ScorerRecords, ScorerFilesMade
<1>5. ASSUME NEW j \in DOMAIN v.scorers
      PROVE  /\ OwnScorer(v.scorers[j], v.corpus[j], v.options.scorer, g)
             /\ v.scorers[j].file <= v.draws
             /\ \A k \in DOMAIN v.scorers :
                   j # k /\ v.scorers[j].file # 0 => v.scorers[j].file # v.scorers[k].file
    <2>1. CASE j = i
        <3>1. v.scorers[j].file <= v.draws
            BY <1>2, <1>4, <2>1
        <3>2. ASSUME NEW k \in DOMAIN v.scorers, j # k, v.scorers[j].file # 0
              PROVE  v.scorers[j].file # v.scorers[k].file
            BY <1>2, <1>4, <2>1, <3>2
        <3>3. QED BY <1>2, <2>1, <3>1, <3>2
    <2>2. CASE j # i
        <3>1. j \in DOMAIN u.scorers /\ v.scorers[j] = u.scorers[j]
            BY <1>2, <2>2
        <3>2. OwnScorer(u.scorers[j], u.corpus[j], u.options.scorer, f)
            BY <1>3, <3>1 DEF OwnScorers
        <3>3. OwnScorer(u.scorers[j], u.corpus[j], u.options.scorer, g)
            BY <2>2, <3>1, <3>2, ScorerKept DEF ScorerFilesMade
        <3>4. v.scorers[j].file <= v.draws
            BY <1>2, <1>4, <3>1
        <3>5. ASSUME NEW k \in DOMAIN v.scorers, j # k, v.scorers[j].file # 0
              PROVE  v.scorers[j].file # v.scorers[k].file
            <4>1. CASE k = i
                BY <1>2, <1>4, <3>1, <3>5, <4>1
            <4>2. CASE k # i
                BY <1>2, <1>3, <3>1, <3>5, <4>2 DEF OwnScorers
            <4>3. QED BY <4>1, <4>2
        <3>6. QED BY <1>2, <3>1, <3>3, <3>4, <3>5
    <2>3. QED BY <2>1, <2>2
<1>6. OwnFiles(v, g)
    <2> SUFFICES ASSUME NEW file \in DOMAIN g \ v.before, file[2] # 0
                 PROVE  Accounted(v, file)
        BY DEF OwnFiles
    <2>1. /\ \A j \in DOMAIN u.scorers : j # i => StageIn(v, j) = StageIn(u, j)
          /\ StageIn(v, i) = s.stage
        BY <1>2 DEF StageIn
    <2>2. CASE file \in DOMAIN f
        <3>1. Accounted(u, file)
            BY <1>2, <1>3, <2>2 DEF OwnFiles
        <3>2. ASSUME NEW j \in DOMAIN u.scorers, StageIn(u, j) = "asking",
                     file = <<"regex", u.scorers[j].file>>
              PROVE  Accounted(v, file)
            <4>1. j # i
                BY <3>2 DEF ScorerFilesMade
            <4>2. QED BY <1>2, <2>1, <3>2, <4>1 DEF Accounted
        <3>3. ASSUME NEW j \in DOMAIN u.scorers, StageIn(u, j) \in {"ready", "null"},
                     file = <<"strings", u.scorers[j].file>>
              PROVE  Accounted(v, file)
            <4>1. j # i
                BY <1>1, <3>3 DEF Makes
            <4>2. QED BY <1>2, <2>1, <3>3, <4>1 DEF Accounted, ReadyIn, NullIn, ScorerFiles
        <3>4. QED BY <1>1, <3>1, <3>2, <3>3 DEF Accounted, ReadyIn, NullIn, ScorerFiles
    <2>3. CASE s.stage = "asking" /\ file = <<"regex", s.file>>
        BY <1>1, <1>2, <2>1, <2>3 DEF Accounted
    <2>4. CASE s.stage \in {"ready", "null"} /\ file = <<"strings", s.file>>
        BY <1>1, <1>2, <2>1, <2>4 DEF Accounted, ReadyIn, NullIn, ScorerFiles
    <2>5. QED BY <2>2, <2>3, <2>4 DEF ScorerFilesMade
<1>7. OwnScorers(v, g)
    BY <1>5 DEF OwnScorers
<1>8. OwnScores(v) /\ OwnClusters(v, g)
    BY <1>2, <1>3 DEF OwnScores, OwnClusters
<1>9. QED BY <1>2, <1>6, <1>7, <1>8 DEF Own

-----------------------------------------------------------------------------
(* The steps of a run. *)

(* The step of one run is no step of another that is alone.                *)
LEMMA RunMoves ==
    ASSUME MclControl, NEW p \in Runs, Active(p), NEW v, v \in RunRecords, RunType(v),
           run' = [run EXCEPT ![p] = v], UNCHANGED alone, FileType(files'),
           p \in alone => Own(v, files')
    PROVE  MclControl'
<1>1. run \in [Runs -> RunRecords] /\ alone \subseteq Runs /\ \A a, b \in alone : a = b
    BY DEF MclControl
<1>2. run' \in [Runs -> RunRecords] /\ run'[p] = v /\ \A q \in Runs : q # p => run'[q] = run[q]
    BY <1>1
<1>3. \A q \in Runs : RunType(run'[q])
    BY <1>2 DEF MclControl
<1>4. ASSUME NEW a \in alone
      PROVE  Own(run'[a], files') /\ \A q \in Runs : q # a => ~Active(q)'
    <2>1. a = p
        BY <1>1, <1>4 DEF MclControl
    <2>2. \A q \in Runs : q # a => ~Active(q)'
        BY <1>2, <1>4, <2>1 DEF MclControl, Active
    <2>3. QED BY <1>2, <2>1, <2>2, <1>4
<1>5. QED BY <1>1, <1>2, <1>3, <1>4 DEF MclControl

(* What a write and a removal do to the files.                             *)
LEMMA Writing ==
    ASSUME NEW file, NEW content, files' = Write(file, content)
    PROVE  /\ DOMAIN files' = DOMAIN files \cup {file} /\ files'[file] = content
           /\ \A other \in DOMAIN files : other # file => files'[other] = files[other]
BY DEF Write

(* A file system from which files are removed.                             *)
LEMMA Removing ==
    ASSUME NEW removed, files' = Without(removed)
    PROVE  /\ DOMAIN files' = DOMAIN files \ removed
           /\ \A other \in DOMAIN files' : files'[other] = files[other]
BY DEF Without

(* A task's step keeps the invariant if it makes a scorer of its own, of   *)
(* its own files, whenever the run is alone.                               *)
LEMMA TaskMoves ==
    ASSUME MclControl, NEW p \in Runs, run[p].pc = "scorers", NEW i \in DOMAIN run[p].scorers,
           NEW stage, NEW file, NEW strings, SetScorer(p, i, stage, file, strings),
           NEW s \in ScorerRecords, s = [stage |-> stage, file |-> file, strings |-> strings],
           Makes(Stage(p, i), s), UNCHANGED alone, FileType(files'),
           p \in alone =>
              /\ ScorerFilesMade(run[p], i, s, files, files')
              /\ OwnScorer(s, run[p].corpus[i], run[p].options.scorer, files')
    PROVE  MclControl'
<1>1. PICK u : u = run[p]
    OBVIOUS
<1>2. PICK v : v = [u EXCEPT !.scorers[i] = s, !.draws = IF s.file # 0 THEN @ + 1 ELSE @]
    OBVIOUS
<1>3. run \in [Runs -> RunRecords] /\ u \in RunRecords /\ RunType(u) /\ Active(p)
    BY <1>1 DEF MclControl, Active
<1>4. run' = [run EXCEPT ![p] = v]
    BY <1>1, <1>2, <1>3 DEF SetScorer
<1>5. ScorerMade(u, v, i, s)
    BY <1>1, <1>2 DEF ScorerMade, Stage, StageIn
<1>6. v \in RunRecords /\ RunType(v)
    BY <1>3, <1>5, ScorerMadeParts, ScorerMadeType
<1>7. p \in alone => Own(v, files')
    BY <1>1, <1>3, <1>5, ScorerMadeOwn DEF MclControl
<1>8. QED BY <1>3, <1>4, <1>6, <1>7, RunMoves

(* What the tasks read: a pattern of the corpus, a scorer, the next name.  *)
LEMMA TaskReads ==
    ASSUME MclControl, NEW p \in Runs, NEW i \in DOMAIN run[p].scorers
    PROVE  /\ run[p] \in RunRecords /\ run[p].corpus[i] \in Patterns
           /\ run[p].scorers[i] \in ScorerRecords
           /\ Draw(p) \in Nat /\ Draw(p) # 0 /\ Draw(p) = run[p].draws + 1
<1>1. run[p] \in RunRecords /\ DOMAIN run[p].scorers = DOMAIN run[p].corpus
    BY DEF MclControl, RunType
<1>2. QED BY <1>1, RunParts DEF Draw

(* A scorer of egret has no file.                                          *)
LEMMA EgretMoves ==
    ASSUME MclControl, NEW p \in Runs, NEW i \in Ids, MakeEgretScorer(p, i)
    PROVE  MclControl'
<1>1. /\ run[p].pc = "scorers" /\ run[p].options.scorer = "egret"
      /\ i \in DOMAIN run[p].scorers /\ Stage(p, i) = "queued" /\ UNCHANGED <<files, alone>>
    BY DEF MakeEgretScorer, BeginScorer
<1>2. PICK pattern, stage :
        /\ pattern = run[p].corpus[i]
        /\ stage = IF pattern \in Refused \cup {Empty} THEN "null" ELSE "ready"
    OBVIOUS
<1>3. SetScorer(p, i, stage, 0, pattern)
    BY <1>2 DEF MakeEgretScorer
<1>4. PICK s : s = [stage |-> stage, file |-> 0, strings |-> pattern]
    OBVIOUS
<1>5. s \in ScorerRecords
    BY <1>1, <1>2, <1>4, TaskReads DEF ScorerRecords
<1>6. Makes(Stage(p, i), s)
    BY <1>1, <1>2, <1>4 DEF Makes
<1>7. FileType(files')
    BY <1>1 DEF MclControl
<1>8. ScorerFilesMade(run[p], i, s, files, files')
    BY <1>1, <1>2, <1>4 DEF ScorerFilesMade, KeepsFor, Stage, StageIn
<1>9. OwnScorer(s, run[p].corpus[i], run[p].options.scorer, files')
    BY <1>1, <1>2, <1>4 DEF OwnScorer, CanScore
<1>10. QED BY <1>1, <1>3, <1>4, <1>5, <1>6, <1>7, <1>8, <1>9, TaskMoves

(* The file that is opened has a name that no scorer of the run has.       *)
LEMMA OpenMoves ==
    ASSUME MclControl, NEW p \in Runs, NEW i \in Ids, OpenRegexFile(p, i)
    PROVE  MclControl'
<1>1. /\ run[p].pc = "scorers" /\ run[p].options.scorer = "rex"
      /\ i \in DOMAIN run[p].scorers /\ Stage(p, i) = "queued" /\ UNCHANGED alone
    BY DEF OpenRegexFile, BeginScorer
<1>2. PICK pattern, name : pattern = run[p].corpus[i] /\ name = Draw(p)
    OBVIOUS
<1>3. /\ pattern \in Patterns /\ name \in Nat /\ name # 0 /\ name = run[p].draws + 1
      /\ run[p].draws \in Nat /\ FileType(files)
    BY <1>1, <1>2, TaskReads, RunParts DEF MclControl
<1>4. CASE pattern = Empty
    <2>1. SetScorer(p, i, "null", 0, Empty) /\ UNCHANGED files
        BY <1>2, <1>4 DEF OpenRegexFile
    <2>2. PICK s : s = [stage |-> "null", file |-> 0, strings |-> Empty]
        OBVIOUS
    <2>3. s \in ScorerRecords /\ Makes(Stage(p, i), s)
        BY <1>1, <2>2, PatternsAssumption DEF ScorerRecords, Makes
    <2>4. ScorerFilesMade(run[p], i, s, files, files')
        BY <1>1, <2>1, <2>2 DEF ScorerFilesMade, KeepsFor, Stage, StageIn
    <2>5. OwnScorer(s, run[p].corpus[i], run[p].options.scorer, files')
        BY <1>2, <1>4, <2>2 DEF OwnScorer, CanScore
    <2>6. FileType(files')
        BY <1>3, <2>1
    <2>7. QED BY <1>1, <2>1, <2>2, <2>3, <2>4, <2>5, <2>6, TaskMoves
<1>5. CASE pattern # Empty
    <2>1. SetScorer(p, i, "asking", name, Empty) /\ files' = Write(<<"regex", name>>, pattern)
        BY <1>2, <1>5 DEF OpenRegexFile
    <2>2. /\ DOMAIN files' = DOMAIN files \cup {<<"regex", name>>}
          /\ files'[<<"regex", name>>] = pattern
          /\ \A other \in DOMAIN files : other # <<"regex", name>> => files'[other] = files[other]
        BY <2>1, Writing
    <2>3. PICK s : s = [stage |-> "asking", file |-> name, strings |-> Empty]
        OBVIOUS
    <2>4. s \in ScorerRecords /\ Makes(Stage(p, i), s)
        BY <1>1, <1>3, <2>3, PatternsAssumption DEF ScorerRecords, Makes
    <2>5. FileType(files')
        BY <1>3, <2>2 DEF FileType, FileNames
    <2>6. ASSUME p \in alone
          PROVE  ScorerFilesMade(run[p], i, s, files, files')
        <3>1. \A j \in DOMAIN run[p].scorers : run[p].scorers[j].file <= run[p].draws
            BY <1>1, <2>6 DEF MclControl, Own, OwnScorers
        <3>2. \A j \in DOMAIN run[p].scorers : run[p].scorers[j].file # name
            BY <1>3, <3>1
        <3>3. \A j \in DOMAIN run[p].scorers : KeepsFor(run[p].scorers[j], files, files')
            BY <2>2, <3>2 DEF KeepsFor
        <3>4. QED BY <1>1, <1>3, <2>2, <2>3, <3>3 DEF ScorerFilesMade, Stage, StageIn
    <2>7. OwnScorer(s, run[p].corpus[i], run[p].options.scorer, files')
        BY <1>1, <1>2, <1>3, <1>5, <2>2, <2>3 DEF OwnScorer, Holds
    <2>8. QED BY <1>1, <2>1, <2>3, <2>4, <2>5, <2>6, <2>7, TaskMoves
<1>6. QED BY <1>4, <1>5

\* The run has made i so far that its strings are being asked for or stored.
LEMMA TaskAtWork ==
    ASSUME MclControl, NEW p \in Runs, NEW i \in AtWork(p)
    PROVE  i \in DOMAIN run[p].scorers /\ run[p].pc = "scorers"
<1>1. RunType(run[p]) /\ i \in Unmade(run[p])
    BY DEF MclControl, AtWork, Unmade, Stage, StageIn
<1>2. QED BY <1>1 DEF RunType, Unmade

(* A run that is alone finds its own regex in the file, and removes no     *)
(* file of another of its scorers.                                         *)
LEMMA GenerateMoves ==
    ASSUME MclControl, NEW p \in Runs, NEW i \in Ids, Generate(p, i)
    PROVE  MclControl'
<1>1. /\ run[p].pc = "scorers" /\ i \in DOMAIN run[p].scorers
      /\ Stage(p, i) = "asking" /\ UNCHANGED alone
    BY TaskAtWork DEF Generate
<1>2. PICK file : file = <<"regex", run[p].scorers[i].file>>
    OBVIOUS
<1>3. files' = Without({file})
    BY <1>2 DEF Generate
<1>4. DOMAIN files' = DOMAIN files \ {file} /\ \A other \in DOMAIN files' : files'[other] = files[other]
    BY <1>3, Removing
<1>5. FileType(files) /\ FileType(files')
    BY <1>4 DEF MclControl, FileType
<1>6. PICK s : s = IF file \in DOMAIN files /\ files[file] \notin RexFails
                   THEN [stage |-> "storing", file |-> 0, strings |-> files[file]]
                   ELSE [stage |-> "null", file |-> 0, strings |-> Empty]
    OBVIOUS
<1>7. SetScorer(p, i, s.stage, 0, s.strings)
    BY <1>2, <1>6 DEF Generate
<1>8. s \in ScorerRecords /\ s = [stage |-> s.stage, file |-> 0, strings |-> s.strings]
    <2>1. file[1] = "regex" /\ Empty \in Patterns
        BY <1>2, PatternsAssumption
    <2>2. file \in DOMAIN files => files[file] \in Patterns
        BY <1>5, <2>1 DEF FileType
    <2>3. QED BY <1>6, <2>1, <2>2 DEF ScorerRecords
<1>9. Makes(Stage(p, i), s)
    BY <1>1, <1>6 DEF Makes
<1>10. ASSUME p \in alone
       PROVE  /\ ScorerFilesMade(run[p], i, s, files, files')
              /\ OwnScorer(s, run[p].corpus[i], run[p].options.scorer, files')
    <2>1. OwnScorers(run[p], files)
        BY <1>1, <1>10 DEF MclControl, Own
    <2>2. /\ run[p].options.scorer = "rex" /\ run[p].corpus[i] # Empty
          /\ run[p].scorers[i].file # 0 /\ file \in DOMAIN files
          /\ files[file] = run[p].corpus[i]
        BY <1>1, <1>2, <2>1 DEF OwnScorers, OwnScorer, Holds, Stage
    <2>3. \A j \in DOMAIN run[p].scorers :
             j # i /\ run[p].scorers[j].file # 0 => run[p].scorers[j].file # run[p].scorers[i].file
        BY <1>1, <2>1 DEF OwnScorers
    <2>4. \A j \in DOMAIN run[p].scorers : j # i => KeepsFor(run[p].scorers[j], files, files')
        BY <1>2, <1>4, <2>3 DEF KeepsFor
    <2>5. ScorerFilesMade(run[p], i, s, files, files')
        BY <1>2, <1>4, <1>6, <2>4 DEF ScorerFilesMade
    <2>6. OwnScorer(s, run[p].corpus[i], run[p].options.scorer, files')
        BY <1>6, <2>2 DEF OwnScorer, CanScore
    <2>7. QED BY <2>5, <2>6
<1>11. QED BY <1>1, <1>5, <1>7, <1>8, <1>9, <1>10, TaskMoves

(* The strings go to a file of a new name.                                 *)
LEMMA StoreMoves ==
    ASSUME MclControl, NEW p \in Runs, NEW i \in Ids, StoreStrings(p, i)
    PROVE  MclControl'
<1>1. /\ run[p].pc = "scorers" /\ i \in DOMAIN run[p].scorers
      /\ Stage(p, i) = "storing" /\ UNCHANGED alone
    BY TaskAtWork DEF StoreStrings
<1>2. PICK name, strings, stage :
        /\ name = Draw(p) /\ strings = run[p].scorers[i].strings
        /\ stage = IF run[p].corpus[i] \in Refused THEN "null" ELSE "ready"
    OBVIOUS
<1>3. /\ name \in Nat /\ name # 0 /\ name = run[p].draws + 1 /\ strings \in Patterns
      /\ run[p].draws \in Nat /\ FileType(files)
    BY <1>1, <1>2, TaskReads, RunParts DEF MclControl, ScorerRecords
<1>4. SetScorer(p, i, stage, name, strings) /\ files' = Write(<<"strings", name>>, strings)
    BY <1>2 DEF StoreStrings
<1>5. /\ DOMAIN files' = DOMAIN files \cup {<<"strings", name>>}
      /\ files'[<<"strings", name>>] = strings
      /\ \A other \in DOMAIN files : other # <<"strings", name>> => files'[other] = files[other]
    BY <1>4, Writing
<1>6. PICK s : s = [stage |-> stage, file |-> name, strings |-> strings]
    OBVIOUS
<1>7. s \in ScorerRecords /\ Makes(Stage(p, i), s)
    BY <1>1, <1>2, <1>3, <1>6 DEF ScorerRecords, Makes
<1>8. FileType(files')
    BY <1>3, <1>5 DEF FileType, FileNames
<1>9. ASSUME p \in alone
      PROVE  /\ ScorerFilesMade(run[p], i, s, files, files')
             /\ OwnScorer(s, run[p].corpus[i], run[p].options.scorer, files')
    <2>1. OwnScorers(run[p], files)
        BY <1>1, <1>9 DEF MclControl, Own
    <2>2. \A j \in DOMAIN run[p].scorers : run[p].scorers[j].file # name
        BY <1>3, <2>1 DEF OwnScorers
    <2>3. \A j \in DOMAIN run[p].scorers : KeepsFor(run[p].scorers[j], files, files')
        BY <1>5, <2>2 DEF KeepsFor
    <2>4. ScorerFilesMade(run[p], i, s, files, files')
        BY <1>1, <1>2, <1>3, <1>5, <1>6, <2>3 DEF ScorerFilesMade, Stage, StageIn
    <2>5. /\ run[p].options.scorer = "rex" /\ run[p].corpus[i] # Empty
          /\ run[p].corpus[i] \notin RexFails /\ strings = run[p].corpus[i]
        BY <1>1, <1>2, <2>1 DEF OwnScorers, OwnScorer, Stage
    <2>6. OwnScorer(s, run[p].corpus[i], run[p].options.scorer, files')
        BY <1>2, <1>3, <1>5, <1>6, <2>5 DEF OwnScorer, CanScore, Holds
    <2>7. QED BY <2>4, <2>6
<1>10. QED BY <1>1, <1>4, <1>6, <1>7, <1>8, <1>9, TaskMoves

(* The empty function.                                                     *)
LEMMA Nothing == DOMAIN <<>> = {} /\ \A S : <<>> \in [DOMAIN <<>> -> S]
<1>1. ASSUME NEW S PROVE <<>> \in [1 .. 0 -> S]
    <2>1. <<>> \in Seq(S) /\ Len(<<>>) = 0
        OBVIOUS
    <2>2. \A s \in Seq(S) : s \in [1 .. Len(s) -> S]
        OBVIOUS
    <2>3. QED BY <2>1, <2>2
<1>2. 1 .. 0 = {}
    OBVIOUS
<1>3. QED BY <1>1, <1>2

(* A run that has failed has nothing.                                      *)
LEMMA FailedRun == Failed \in RunRecords /\ RunType(Failed) /\ \A f : Own(Failed, f)
<1>1. Failed = [pc |-> "failed", options |-> {}, corpus |-> <<>>, scorers |-> <<>>,
                scores |-> <<>>, draws |-> 0, graph |-> 0, clusters |-> {}, out |-> {},
                before |-> {}]
    <2>1. PICK u : u = NotStarted
        OBVIOUS
    <2>2. u = [pc |-> "off", options |-> {}, corpus |-> <<>>, scorers |-> <<>>,
               scores |-> <<>>, draws |-> 0, graph |-> 0, clusters |-> {}, out |-> {},
               before |-> {}]
        BY <2>1 DEF NotStarted
    <2>3. Failed = [u EXCEPT !.pc = "failed"]
        BY <2>1 DEF Failed
    <2>4. QED BY <2>2, <2>3
<1>2. /\ DOMAIN <<>> = {}
      /\ <<>> \in CorpusFunctions /\ <<>> \in ScorerFunctions /\ <<>> \in ScoreFunctions
    BY Nothing, TheirFunctions
<1>3. Failed \in RunRecords
    BY <1>1, <1>2 DEF RunRecords
<1>4. Queue(Failed) = {} /\ Unmade(Failed) = {}
    BY <1>1, <1>2 DEF Queue, Unmade
<1>5. NamesTaken(Failed) = 0
    <2>1. Failed.draws = 0
        BY <1>1
    <2>2. Cardinality({}) = 0
        BY FS_EmptySet
    <2>3. NamesTaken(Failed) = 0 + 0 + 0
        BY <1>4, <2>1, <2>2 DEF NamesTaken
    <2>4. QED BY <2>3
<1>6. Cardinality(Ids) \in Nat
    BY IdsAssumption, FS_CardinalityType
<1>7. NamesTaken(Failed) <= 2 * Cardinality(Ids) /\ NamesTaken(Failed) <= 2 * Cardinality(Ids) + 1
    BY <1>5, <1>6
<1>8. RunType(Failed)
    BY <1>1, <1>2, <1>3, <1>4, <1>7 DEF RunType
<1>9. \A f : Own(Failed, f)
    BY <1>1 DEF Own
<1>10. QED BY <1>3, <1>8, <1>9

(* A run may fail at any time.                                             *)
LEMMA FailMoves ==
    ASSUME MclControl, NEW p \in Runs, Active(p), run' = [run EXCEPT ![p] = Failed],
           UNCHANGED <<files, alone>>
    PROVE  MclControl'
<1>1. FileType(files')
    BY DEF MclControl
<1>2. QED BY <1>1, FailedRun, RunMoves

(* A step that leaves the scorers leaves what is known by them.            *)
LEMMA SameScorers ==
    ASSUME NEW u, NEW v, v.scorers = u.scorers
    PROVE  /\ Queue(v) = Queue(u) /\ Unmade(v) = Unmade(u)
           /\ ReadyIn(v) = ReadyIn(u) /\ NullIn(v) = NullIn(u) /\ ScorerFiles(v) = ScorerFiles(u)
           /\ \A i \in DOMAIN u.scorers : StageIn(v, i) = StageIn(u, i)
<1>1. \A i \in DOMAIN u.scorers : StageIn(v, i) = StageIn(u, i)
    BY DEF StageIn
<1>2. ReadyIn(v) = ReadyIn(u) /\ NullIn(v) = NullIn(u)
    BY <1>1 DEF ReadyIn, NullIn
<1>3. QED BY <1>1, <1>2 DEF Queue, Unmade, ScorerFiles

(* What a step that leaves corpus, scorers and options leaves alone.       *)
LEMMA SameCorpus ==
    ASSUME NEW u, NEW v, v.corpus = u.corpus, v.options = u.options
    PROVE  ScorableIn(v) = ScorableIn(u) /\ GraphIn(v) = GraphIn(u)
<1>1. ScorableIn(v) = ScorableIn(u)
    BY DEF ScorableIn
<1>2. \A i, j : SimilarIn(v, i, j) = SimilarIn(u, i, j)
    BY DEF SimilarIn, ScoreIn
<1>3. QED BY <1>1, <1>2 DEF GraphIn

\* A run goes on with its scorers as they are; only the graph takes a name.
Continues(u, v, pc, scores, draws, graph, clusters, out) ==
    /\ u.pc \notin {"off", "failed"} /\ Unmade(u) = {}
    /\ pc \in {"score", "cluster", "read", "print", "ended"}
    /\ scores \in ScoreFunctions /\ DOMAIN scores \subseteq ReadyIn(u) \X ReadyIn(u)
    /\ draws \in Nat /\ graph \in Nat
    /\ clusters \in SUBSET SUBSET Ids /\ out \in SUBSET SUBSET Patterns
    /\ v = [u EXCEPT !.pc = pc, !.scores = scores, !.draws = draws, !.graph = graph,
                     !.clusters = clusters, !.out = out]
    /\ draws <= u.draws \/ (u.pc = "score" /\ draws <= u.draws + 1)
    /\ pc = "score" => u.pc \in {"scorers", "score"} /\ draws <= u.draws

(* So it takes no more names than it may.                                  *)
LEMMA GoesOn ==
    ASSUME NEW u \in RunRecords, RunType(u), NEW v, NEW pc, NEW scores, NEW draws, NEW graph,
           NEW clusters, NEW out, Continues(u, v, pc, scores, draws, graph, clusters, out)
    PROVE  /\ v \in RunRecords /\ RunType(v)
           /\ v.pc = pc /\ v.scores = scores /\ v.draws = draws /\ v.graph = graph
           /\ v.clusters = clusters /\ v.out = out /\ v.options = u.options
           /\ v.corpus = u.corpus /\ v.scorers = u.scorers /\ v.before = u.before
<1> USE DEF Continues
<1>1. v = [pc |-> pc, options |-> u.options, corpus |-> u.corpus, scorers |-> u.scorers,
           scores |-> scores, draws |-> draws, graph |-> graph, clusters |-> clusters,
           out |-> out, before |-> u.before]
    BY DEF RunRecords
<1>2. /\ v.pc = pc /\ v.scores = scores /\ v.draws = draws /\ v.graph = graph
      /\ v.clusters = clusters /\ v.out = out /\ v.options = u.options
      /\ v.corpus = u.corpus /\ v.scorers = u.scorers /\ v.before = u.before
    BY <1>1
<1>3. /\ u.options \in OptionRecords \cup {{}} /\ u.corpus \in CorpusFunctions
      /\ u.scorers \in ScorerFunctions /\ u.before \in SUBSET FileNames /\ u.draws \in Nat
    BY RunParts
<1>4. v \in RunRecords
    BY <1>1, <1>3 DEF RunRecords
<1>5. Queue(v) = Queue(u) /\ Unmade(v) = {} /\ Unmade(u) = {} /\ ReadyIn(v) = ReadyIn(u)
    BY <1>2, SameScorers
<1>6. /\ NamesTaken(v) = draws + Cardinality(Queue(u)) + Cardinality(Unmade(u))
      /\ NamesTaken(u) = u.draws + Cardinality(Queue(u)) + Cardinality(Unmade(u))
    BY <1>2, <1>5 DEF NamesTaken
<1>7. /\ NamesTaken(u) <= 2 * Cardinality(Ids) + 1
      /\ u.pc \in {"scorers", "score"} => NamesTaken(u) <= 2 * Cardinality(Ids)
    BY DEF RunType
<1>8. Cardinality(Queue(u)) \in Nat /\ Cardinality(Unmade(u)) \in Nat /\ Cardinality(Ids) \in Nat
    BY ScorersAreFinite
<1>9. NamesTaken(v) <= 2 * Cardinality(Ids) + 1
    <2>1. CASE draws <= u.draws
        BY <1>3, <1>6, <1>7, <1>8, <2>1
    <2>2. CASE u.pc = "score" /\ draws <= u.draws + 1
        BY <1>3, <1>6, <1>7, <1>8, <2>2
    <2>3. QED BY <2>1, <2>2
<1>10. pc = "score" => NamesTaken(v) <= 2 * Cardinality(Ids)
    BY <1>3, <1>6, <1>7, <1>8
<1>11. RunType(v)
    BY <1>2, <1>4, <1>5, <1>9, <1>10 DEF RunType
<1>12. QED BY <1>2, <1>4, <1>11

AtWorkStages == {"scorers", "score", "cluster", "read", "print"}

(* A run that goes on keeps what is its own: the files of its scorers are  *)
(* not touched any more, and those of graph and clusters are remembered.   *)
LEMMA GoesOnAlone ==
    ASSUME NEW u \in RunRecords, NEW v \in RunRecords, NEW f, NEW g, Own(u, f),
           u.pc \in AtWorkStages, v.pc \in AtWorkStages,
           v.scorers = u.scorers, v.corpus = u.corpus, v.options = u.options,
           v.before = u.before, u.draws <= v.draws,
           \A kind \in {"regex", "strings"}, name \in Nat :
              <<kind, name>> \in DOMAIN f =>
                 <<kind, name>> \in DOMAIN g /\ g[<<kind, name>>] = f[<<kind, name>>],
           \A file \in DOMAIN g : file \in DOMAIN f \/ file[2] = 0 \/ Accounted(v, file),
           u.pc \in {"cluster", "read", "print"} =>
              v.pc \in {"cluster", "read", "print"} /\ v.graph = u.graph,
           u.pc \in {"read", "print"} => v.pc \in {"read", "print"} /\ v.draws = u.draws,
           OwnScores(v), OwnClusters(v, g)
    PROVE  Own(v, g)
<1>1. OwnScorers(u, f) /\ OwnFiles(u, f)
    BY DEF Own, AtWorkStages
<1>2. u.draws \in Nat /\ v.draws \in Nat /\ u.scorers \in [DOMAIN u.scorers -> ScorerRecords]
    BY RunParts
<1>3. ASSUME NEW i \in DOMAIN v.scorers
      PROVE  /\ OwnScorer(v.scorers[i], v.corpus[i], v.options.scorer, g)
             /\ v.scorers[i].file <= v.draws
             /\ \A j \in DOMAIN v.scorers :
                   i # j /\ v.scorers[i].file # 0 => v.scorers[i].file # v.scorers[j].file
    <2>1. u.scorers[i].file \in Nat
        BY <1>2 DEF ScorerRecords
    <2>2. KeepsFor(u.scorers[i], f, g)
        BY <2>1 DEF KeepsFor
    <2>3. OwnScorer(u.scorers[i], u.corpus[i], u.options.scorer, f) /\ u.scorers[i].file <= u.draws
        BY <1>1 DEF OwnScorers
    <2>4. OwnScorer(v.scorers[i], v.corpus[i], v.options.scorer, g)
        BY <2>2, <2>3, ScorerKept
    <2>5. v.scorers[i].file <= v.draws
        BY <1>2, <2>1, <2>3
    <2>6. QED BY <1>1, <2>4, <2>5 DEF OwnScorers
<1>4. OwnScorers(v, g)
    BY <1>3 DEF OwnScorers
<1>5. OwnFiles(v, g)
    <2> SUFFICES ASSUME NEW file \in DOMAIN g \ v.before, file[2] # 0, file \in DOMAIN f
                 PROVE  Accounted(v, file)
        BY DEF OwnFiles
    <2>1. Accounted(u, file)
        BY <1>1 DEF OwnFiles
    <2>2. /\ ReadyIn(v) = ReadyIn(u) /\ ScorerFiles(v) = ScorerFiles(u)
          /\ \A i \in DOMAIN u.scorers : StageIn(v, i) = StageIn(u, i)
        BY SameScorers
    <2>3. u.pc \in {"read", "print"} => ClusterName(v) = ClusterName(u)
        BY DEF ClusterName
    <2>4. QED BY <2>1, <2>2, <2>3 DEF Accounted
<1>6. QED BY <1>4, <1>5 DEF Own, AtWorkStages

(* All scorers are made.                                                   *)
LEMMA FinishMoves ==
    ASSUME MclControl, NEW p \in Runs, FinishScorers(p)
    PROVE  MclControl'
<1>1. PICK u, pc : u = run[p] /\ pc = IF u.options.graph = "existing" THEN "cluster" ELSE "score"
    OBVIOUS
<1>2. PICK v : v = [u EXCEPT !.pc = pc]
    OBVIOUS
<1>3. /\ u.pc = "scorers" /\ Active(p) /\ u \in RunRecords /\ RunType(u)
      /\ run \in [Runs -> RunRecords] /\ UNCHANGED <<files, alone>> /\ FileType(files')
      /\ \A i \in DOMAIN u.scorers : StageIn(u, i) \in {"ready", "null"}
    BY <1>1 DEF FinishScorers, MclControl, Active, Stage, StageIn
<1>4. run' = [run EXCEPT ![p] = v]
    BY <1>1, <1>2 DEF FinishScorers
<1>5. Unmade(u) = {}
    BY <1>3 DEF Unmade
<1>6. v = [u EXCEPT !.pc = pc, !.scores = u.scores, !.draws = u.draws, !.graph = u.graph,
                    !.clusters = u.clusters, !.out = u.out]
    BY <1>2, <1>3 DEF RunRecords
<1>7. Continues(u, v, pc, u.scores, u.draws, u.graph, u.clusters, u.out)
    BY <1>1, <1>3, <1>5, <1>6, RunParts DEF RunType, Continues
<1>8. /\ v \in RunRecords /\ RunType(v)
      /\ v.pc = pc /\ v.scores = u.scores /\ v.draws = u.draws /\ v.options = u.options
      /\ v.corpus = u.corpus /\ v.scorers = u.scorers /\ v.before = u.before
    BY <1>3, <1>7, GoesOn
<1>9. ASSUME p \in alone PROVE Own(v, files')
    <2>1. Own(u, files) /\ files' = files
        BY <1>1, <1>3, <1>9 DEF MclControl
    <2>2. OwnScores(v)
        BY <1>3, <1>8, <2>1 DEF Own, OwnScores
    <2>3. OwnClusters(v, files')
        BY <1>1, <1>8 DEF OwnClusters
    <2>4. u.pc \in AtWorkStages /\ v.pc \in AtWorkStages /\ u.draws <= v.draws
        BY <1>1, <1>3, <1>8, RunParts DEF AtWorkStages
    <2>5. QED BY <1>3, <1>8, <2>1, <2>2, <2>3, <2>4, GoesOnAlone
<1>10. QED BY <1>3, <1>4, <1>8, <1>9, RunMoves

(* A run at work, and what is known of it.                                 *)
LEMMA RunAtWork ==
    ASSUME MclControl, NEW p \in Runs, NEW u, u = run[p],
           u.pc \in {"score", "cluster", "read", "print"}
    PROVE  /\ u \in RunRecords /\ RunType(u) /\ Active(p) /\ run \in [Runs -> RunRecords]
           /\ FileType(files) /\ Unmade(u) = {} /\ Scorers(p) = ReadyIn(u)
           /\ DOMAIN u.scores \subseteq ReadyIn(u) \X ReadyIn(u) /\ u.options \in OptionRecords
           /\ DOMAIN u.scorers = DOMAIN u.corpus
           /\ p \in alone => Own(u, files)
<1>1. u \in RunRecords /\ RunType(u) /\ run \in [Runs -> RunRecords] /\ FileType(files)
    BY DEF MclControl
<1>2. Active(p) /\ Scorers(p) = ReadyIn(u)
    BY DEF Active, Scorers, ReadyIn, Stage, StageIn
<1>3. p \in alone => Own(u, files)
    BY DEF MclControl
<1>4. QED BY <1>1, <1>2, <1>3 DEF RunType

(* A run that is alone is at work with what is its own.                    *)
LEMMA OwnAtWork ==
    ASSUME NEW u \in RunRecords, RunType(u), NEW f, Own(u, f),
           u.pc \in {"score", "cluster", "read", "print"}
    PROVE  /\ OwnScorers(u, f) /\ OwnScores(u) /\ OwnClusters(u, f) /\ OwnFiles(u, f)
           /\ ReadyIn(u) = ScorableIn(u) /\ u.pc \in AtWorkStages
           /\ \A i \in DOMAIN u.scorers : StageIn(u, i) \in {"ready", "null"}
<1>1. OwnScorers(u, f) /\ OwnScores(u) /\ OwnClusters(u, f) /\ OwnFiles(u, f)
    BY DEF Own
<1>2. u.scorers \in [DOMAIN u.scorers -> ScorerRecords]
    BY RunParts
<1>3. \A i \in DOMAIN u.scorers :
         StageIn(u, i) \in {"queued", "asking", "storing", "ready", "null"}
    BY <1>2 DEF ScorerRecords, StageIn
<1>4. \A i \in DOMAIN u.scorers : StageIn(u, i) \in {"ready", "null"}
    BY <1>3 DEF RunType, Unmade
<1>5. \A i \in DOMAIN u.scorers :
         CanScore(u.corpus[i], u.options.scorer) <=> StageIn(u, i) = "ready"
    BY <1>1, <1>4 DEF OwnScorers, OwnScorer, StageIn
<1>6. ReadyIn(u) = ScorableIn(u)
    BY <1>5 DEF ReadyIn, ScorableIn, RunType
<1>7. QED BY <1>1, <1>4, <1>6 DEF AtWorkStages

(* A score is made with the strings in the scorer's own file.              *)
LEMMA ScoreMoves ==
    ASSUME MclControl, NEW p \in Runs, NEW r \in Ids, NEW c \in Ids, Score(p, r, c)
    PROVE  MclControl'
<1>1. PICK u : u = run[p]
    OBVIOUS
<1>2. u.pc = "score" /\ {r, c} \subseteq Scorers(p) /\ UNCHANGED <<files, alone>>
    BY <1>1 DEF Score
<1>3. /\ u \in RunRecords /\ RunType(u) /\ Active(p) /\ run \in [Runs -> RunRecords]
      /\ FileType(files) /\ Unmade(u) = {} /\ Scorers(p) = ReadyIn(u)
      /\ DOMAIN u.scores \subseteq ReadyIn(u) \X ReadyIn(u) /\ u.options \in OptionRecords
      /\ DOMAIN u.scorers = DOMAIN u.corpus
      /\ p \in alone => Own(u, files)
    BY <1>1, <1>2, RunAtWork
<1>4. CASE ~Loads(p, r)
    <2>1. run' = [run EXCEPT ![p] = Failed]
        BY <1>4 DEF Score
    <2>2. QED BY <1>2, <1>3, <2>1, FailMoves
<1>5. CASE Loads(p, r)
    <2>1. PICK source : source = IF u.options.scorer = "egret" THEN u.corpus[r]
                                 ELSE files[StringsFile(p, r)]
        OBVIOUS
    <2>2. PICK scores : scores = [pair \in DOMAIN u.scores \cup {<<r, c>>} |->
                                     IF pair = <<r, c>> THEN source ELSE u.scores[pair]]
        OBVIOUS
    <2>3. PICK v : v = [u EXCEPT !.scores = scores]
        OBVIOUS
    <2>4. run' = [run EXCEPT ![p] = v]
        BY <1>1, <1>3, <1>5, <2>1, <2>2, <2>3 DEF Score
    <2>5. u.options.scorer \in {"rex", "egret"}
        BY <1>3 DEF OptionRecords
    <2>6. r \in ReadyIn(u) /\ c \in ReadyIn(u) /\ r \in DOMAIN u.corpus /\ r \in DOMAIN u.scorers
        BY <1>2, <1>3 DEF ReadyIn
    <2>7. source \in Patterns
        <3>1. CASE u.options.scorer = "egret"
            BY <1>3, <2>1, <2>6, <3>1, RunParts
        <3>2. CASE u.options.scorer = "rex"
            <4>1. StringsFile(p, r) \in DOMAIN files /\ StringsFile(p, r)[1] = "strings"
                BY <1>1, <1>5, <3>2 DEF Loads, StringsFile
            <4>2. QED BY <1>3, <2>1, <3>2, <4>1 DEF FileType
        <3>3. QED BY <2>5, <3>1, <3>2
    <2>8. /\ scores \in ScoreFunctions /\ DOMAIN scores \subseteq ReadyIn(u) \X ReadyIn(u)
        <3>1. DOMAIN u.scores \subseteq Ids \X Ids /\ u.scores \in [DOMAIN u.scores -> Patterns]
            BY <1>3, RunParts
        <3>2. DOMAIN scores = DOMAIN u.scores \cup {<<r, c>>} /\ scores \in [DOMAIN scores -> Patterns]
            BY <2>2, <2>7, <3>1
        <3>3. DOMAIN scores \subseteq Ids \X Ids
            BY <3>1, <3>2
        <3>4. scores \in ScoreFunctions
            BY <3>2, <3>3, TheirFunctions
        <3>5. QED BY <1>3, <2>6, <3>2, <3>4
    <2>9. v = [u EXCEPT !.pc = "score", !.scores = scores, !.draws = u.draws, !.graph = u.graph,
                        !.clusters = u.clusters, !.out = u.out]
        BY <1>2, <1>3, <2>3 DEF RunRecords
    <2>10. Continues(u, v, "score", scores, u.draws, u.graph, u.clusters, u.out)
        BY <1>2, <1>3, <2>8, <2>9, RunParts DEF Continues
    <2>11. /\ v \in RunRecords /\ RunType(v)
           /\ v.pc = "score" /\ v.scores = scores /\ v.draws = u.draws /\ v.options = u.options
           /\ v.corpus = u.corpus /\ v.scorers = u.scorers /\ v.before = u.before
        BY <1>3, <2>10, GoesOn
    <2>12. ASSUME p \in alone PROVE Own(v, files')
        <3>1. Own(u, files) /\ files' = files
            BY <1>2, <1>3, <2>12
        <3>2. OwnScorers(u, files) /\ OwnScores(u) /\ u.pc \in AtWorkStages
            BY <1>2, <1>3, <3>1, OwnAtWork
        <3>3. source = u.corpus[r]
            <4>1. CASE u.options.scorer = "egret"
                BY <2>1, <4>1
            <4>2. CASE u.options.scorer = "rex"
                <5>1. Holds(files, "strings", u.scorers[r].file, u.corpus[r])
                    BY <2>6, <3>2, <4>2 DEF OwnScorers, OwnScorer, ReadyIn, StageIn
                <5>2. QED BY <1>1, <2>1, <4>2, <5>1 DEF Holds, StringsFile
            <4>3. QED BY <2>5, <4>1, <4>2
        <3>4. OwnScores(v)
            BY <2>2, <2>11, <3>2, <3>3 DEF OwnScores
        <3>5. OwnClusters(v, files') /\ v.pc \in AtWorkStages /\ u.draws <= v.draws
            BY <1>3, <2>11, RunParts DEF OwnClusters, AtWorkStages
        <3>6. QED BY <1>2, <1>3, <2>11, <3>1, <3>2, <3>4, <3>5, GoesOnAlone
    <2>13. FileType(files')
        BY <1>2, <1>3
    <2>14. QED BY <1>2, <1>3, <2>4, <2>11, <2>12, <2>13, RunMoves
<1>6. QED BY <1>4, <1>5

(* The edges are pairs of ids.                                             *)
LEMMA EdgesAreOfIds ==
    ASSUME NEW p, Scorers(p) \subseteq Ids
    PROVE  Edges(p) \subseteq SUBSET Ids
BY DEF Edges

(* The scores that are its own give a run the graph of its corpus.         *)
LEMMA GraphIsOwn ==
    ASSUME NEW p, NEW u, u = run[p], Scorers(p) = ScorableIn(u), OwnScores(u),
           DOMAIN u.scores = Scorers(p) \X Scorers(p)
    PROVE  Edges(p) = GraphIn(u)
<1>1. ASSUME NEW i \in ScorableIn(u), NEW j \in ScorableIn(u)
      PROVE  /\ IsEdge(Average(ScoreOf(p, i, j), ScoreOf(p, j, i)), run[p].options.threshold)
                   <=> SimilarIn(u, i, j)
    <2>1. <<i, j>> \in DOMAIN u.scores /\ <<j, i>> \in DOMAIN u.scores
        OBVIOUS
    <2>2. u.scores[<<i, j>>] = u.corpus[i] /\ u.scores[<<j, i>>] = u.corpus[j]
        BY <2>1 DEF OwnScores
    <2>3. ScoreOf(p, i, j) = ScoreIn(u, i, j) /\ ScoreOf(p, j, i) = ScoreIn(u, j, i)
        BY <2>2 DEF ScoreOf, ScoreIn
    <2>4. QED BY <2>3 DEF SimilarIn
<1> DEFINE pairs == {{i, j} : i, j \in ScorableIn(u)}
<1>3. \A pair \in pairs : pair \subseteq ScorableIn(u)
    OBVIOUS
<1>4. Edges(p) = {pair \in pairs : \A i, j \in pair : pair = {i, j} =>
                     IsEdge(Average(ScoreOf(p, i, j), ScoreOf(p, j, i)), run[p].options.threshold)}
    BY DEF Edges
<1>5. GraphIn(u) = {pair \in pairs : \A i, j \in pair : pair = {i, j} => SimilarIn(u, i, j)}
    BY DEF GraphIn
<1> HIDE DEF pairs
<1>6. QED BY <1>1, <1>3, <1>4, <1>5

(* The graph goes to a new name or to the user's, and takes no scorer's.   *)
LEMMA GraphMoves ==
    ASSUME MclControl, NEW p \in Runs, WriteGraph(p)
    PROVE  MclControl'
<1>1. PICK u, name, draws :
        /\ u = run[p] /\ name = NameFor(p, u.options.graph)
        /\ draws = DrawsAfter(p, u.options.graph)
    OBVIOUS
<1>2. PICK v : v = [u EXCEPT !.pc = "cluster", !.graph = name, !.draws = draws]
    OBVIOUS
<1>3. /\ u.pc = "score" /\ DOMAIN u.scores = Scorers(p) \X Scorers(p) /\ UNCHANGED alone
      /\ files' = Write(<<"graph", name>>, Edges(p))
    BY <1>1 DEF WriteGraph
<1>4. /\ u \in RunRecords /\ RunType(u) /\ Active(p) /\ run \in [Runs -> RunRecords]
      /\ FileType(files) /\ Unmade(u) = {} /\ Scorers(p) = ReadyIn(u)
      /\ DOMAIN u.scores \subseteq ReadyIn(u) \X ReadyIn(u) /\ u.options \in OptionRecords
      /\ p \in alone => Own(u, files)
    BY <1>1, <1>3, RunAtWork
<1>5. run' = [run EXCEPT ![p] = v]
    BY <1>1, <1>2, <1>4 DEF WriteGraph
<1>6. /\ u.draws \in Nat /\ name \in Nat /\ draws \in Nat
      /\ u.draws <= draws /\ draws <= u.draws + 1
    BY <1>1, <1>4, RunParts DEF NameFor, DrawsAfter, Draw
<1>7. v = [u EXCEPT !.pc = "cluster", !.scores = u.scores, !.draws = draws, !.graph = name,
                    !.clusters = u.clusters, !.out = u.out]
    BY <1>2, <1>4 DEF RunRecords
<1>8. Continues(u, v, "cluster", u.scores, draws, name, u.clusters, u.out)
    BY <1>3, <1>4, <1>6, <1>7, RunParts DEF Continues
<1>9. /\ v \in RunRecords /\ RunType(v)
      /\ v.pc = "cluster" /\ v.scores = u.scores /\ v.draws = draws /\ v.options = u.options
      /\ v.corpus = u.corpus /\ v.scorers = u.scorers /\ v.before = u.before /\ v.graph = name
    BY <1>4, <1>8, GoesOn
<1>10. /\ DOMAIN files' = DOMAIN files \cup {<<"graph", name>>}
       /\ files'[<<"graph", name>>] = Edges(p)
       /\ \A other \in DOMAIN files : other # <<"graph", name>> => files'[other] = files[other]
    BY <1>3, Writing
<1>11. FileType(files')
    <2>1. Scorers(p) \subseteq Ids
        BY <1>4, RunParts DEF ReadyIn
    <2>2. Edges(p) \subseteq SUBSET Ids
        BY <2>1, EdgesAreOfIds
    <2>3. QED BY <1>4, <1>6, <1>10, <2>2 DEF FileType, FileNames
<1>12. ASSUME p \in alone PROVE Own(v, files')
    <2>1. Own(u, files)
        BY <1>4, <1>12
    <2>2. OwnScores(u) /\ ReadyIn(u) = ScorableIn(u) /\ u.pc \in AtWorkStages
        BY <1>3, <1>4, <2>1, OwnAtWork
    <2>3. Edges(p) = GraphIn(u)
        BY <1>1, <1>3, <1>4, <2>2, GraphIsOwn
    <2>4. GraphIn(v) = GraphIn(u)
        BY <1>9, SameCorpus
    <2>5. OwnClusters(v, files')
        BY <1>9, <1>10, <2>3, <2>4 DEF OwnClusters
    <2>6. OwnScores(v) /\ v.pc \in AtWorkStages
        BY <1>9, <2>2 DEF OwnScores, AtWorkStages
    <2>7. Accounted(v, <<"graph", name>>)
        BY <1>9 DEF Accounted
    <2>8. \A file \in DOMAIN files' : file \in DOMAIN files \/ file[2] = 0 \/ Accounted(v, file)
        BY <1>10, <2>7
    <2>9. \A kind \in {"regex", "strings"}, n \in Nat :
             <<kind, n>> \in DOMAIN files =>
                <<kind, n>> \in DOMAIN files' /\ files'[<<kind, n>>] = files[<<kind, n>>]
        BY <1>10
    <2>10. QED BY <1>3, <1>4, <1>6, <1>9, <2>1, <2>2, <2>5, <2>6, <2>8, <2>9, GoesOnAlone
<1>13. QED BY <1>3, <1>4, <1>5, <1>9, <1>11, <1>12, RunMoves

(* The file of the clusters.                                               *)
LEMMA ClusterFileName ==
    ASSUME NEW p, NEW u \in RunRecords, u = run[p]
    PROVE  ClusterFile(p) = <<"clusters", ClusterName(u)>> /\ ClusterName(u) \in Nat
BY RunParts DEF ClusterFile, ClusterName, NameFor, Draw

(* mcl makes clusters of the graph that the run has named.                 *)
LEMMA MclMoves ==
    ASSUME MclControl, NEW p \in Runs, RunMcl(p)
    PROVE  MclControl'
<1>1. PICK u, graph, file : u = run[p] /\ graph = <<"graph", u.graph>> /\ file = ClusterFile(p)
    OBVIOUS
<1>2. u.pc = "cluster" /\ UNCHANGED alone
    BY <1>1 DEF RunMcl
<1>3. /\ u \in RunRecords /\ RunType(u) /\ Active(p) /\ run \in [Runs -> RunRecords]
      /\ FileType(files) /\ Unmade(u) = {}
      /\ DOMAIN u.scores \subseteq ReadyIn(u) \X ReadyIn(u) /\ u.options \in OptionRecords
      /\ p \in alone => Own(u, files)
    BY <1>1, <1>2, RunAtWork
<1>4. CASE run' = [run EXCEPT ![p] = Failed] /\ UNCHANGED files
    BY <1>2, <1>3, <1>4, FailMoves
<1>5. ASSUME graph \in DOMAIN files, NEW parts \in Partitions(UNION files[graph]),
             files' = Write(file, parts), run' = [run EXCEPT ![p].pc = "read"]
      PROVE  MclControl'
    <2>1. PICK v : v = [u EXCEPT !.pc = "read"]
        OBVIOUS
    <2>2. run' = [run EXCEPT ![p] = v]
        BY <1>1, <1>3, <1>5, <2>1
    <2>3. v = [u EXCEPT !.pc = "read", !.scores = u.scores, !.draws = u.draws, !.graph = u.graph,
                        !.clusters = u.clusters, !.out = u.out]
        BY <1>3, <2>1 DEF RunRecords
    <2>4. Continues(u, v, "read", u.scores, u.draws, u.graph, u.clusters, u.out)
        BY <1>2, <1>3, <2>3, RunParts DEF Continues
    <2>5. /\ v \in RunRecords /\ RunType(v)
          /\ v.pc = "read" /\ v.scores = u.scores /\ v.draws = u.draws /\ v.options = u.options
          /\ v.corpus = u.corpus /\ v.scorers = u.scorers /\ v.before = u.before
          /\ v.graph = u.graph
        BY <1>3, <2>4, GoesOn
    <2>6. DOMAIN files' = DOMAIN files \cup {file} /\ files'[file] = parts
          /\ \A other \in DOMAIN files : other # file => files'[other] = files[other]
        BY <1>5, Writing
    <2>7. file = <<"clusters", ClusterName(u)>> /\ ClusterName(u) \in Nat
        BY <1>1, <1>3, ClusterFileName
    <2>8. FileType(files')
        <3>1. files[graph] \subseteq SUBSET Ids
            BY <1>1, <1>3, <1>5 DEF FileType
        <3>2. parts \subseteq SUBSET Ids
            BY <1>5, <3>1 DEF Partitions
        <3>3. QED BY <1>3, <2>6, <2>7, <3>2 DEF FileType, FileNames
    <2>9. ASSUME p \in alone PROVE Own(v, files')
        <3>1. Own(u, files)
            BY <1>3, <2>9
        <3>2. OwnScores(u) /\ OwnClusters(u, files) /\ u.pc \in AtWorkStages
            BY <1>2, <1>3, <3>1, OwnAtWork
        <3>3. u.options.graph # "existing" => files[graph] = GraphIn(u)
            BY <1>1, <1>2, <3>2 DEF OwnClusters
        <3>4. GraphIn(v) = GraphIn(u) /\ ClusterName(v) = ClusterName(u)
            BY <2>5, SameCorpus DEF ClusterName
        <3>5. OwnClusters(v, files')
            BY <1>5, <2>5, <2>6, <2>7, <3>3, <3>4 DEF OwnClusters
        <3>6. OwnScores(v) /\ v.pc \in AtWorkStages /\ u.draws <= v.draws
            BY <1>3, <2>5, <3>2, RunParts DEF OwnScores, AtWorkStages
        <3>7. Accounted(v, file)
            BY <2>5, <2>7, <3>4 DEF Accounted
        <3>8. \A other \in DOMAIN files' :
                 other \in DOMAIN files \/ other[2] = 0 \/ Accounted(v, other)
            BY <2>6, <3>7
        <3>9. \A kind \in {"regex", "strings"}, n \in Nat :
                 <<kind, n>> \in DOMAIN files =>
                    <<kind, n>> \in DOMAIN files' /\ files'[<<kind, n>>] = files[<<kind, n>>]
            BY <2>6, <2>7
        <3>10. QED BY <1>2, <1>3, <2>5, <3>1, <3>2, <3>5, <3>6, <3>8, <3>9, GoesOnAlone
    <2>10. QED BY <1>2, <1>3, <2>2, <2>5, <2>8, <2>9, RunMoves
<1>6. QED BY <1>1, <1>4, <1>5 DEF RunMcl

(* The clusters are read from where mcl has put them.                      *)
LEMMA ReadMoves ==
    ASSUME MclControl, NEW p \in Runs, ReadClusters(p)
    PROVE  MclControl'
<1>1. PICK u, file, clusters :
        /\ u = run[p] /\ file = ClusterFile(p)
        /\ clusters = IF file \in DOMAIN files THEN files[file] ELSE {}
    OBVIOUS
<1>2. u.pc = "read" /\ UNCHANGED <<files, alone>>
    BY <1>1 DEF ReadClusters
<1>3. /\ u \in RunRecords /\ RunType(u) /\ Active(p) /\ run \in [Runs -> RunRecords]
      /\ FileType(files) /\ FileType(files') /\ Unmade(u) = {}
      /\ DOMAIN u.scores \subseteq ReadyIn(u) \X ReadyIn(u) /\ u.options \in OptionRecords
      /\ p \in alone => Own(u, files)
    BY <1>1, <1>2, RunAtWork
<1>4. PICK v : v = [u EXCEPT !.pc = "print", !.clusters = clusters]
    OBVIOUS
<1>5. run' = [run EXCEPT ![p] = v]
    BY <1>1, <1>3, <1>4 DEF ReadClusters
<1>6. file = <<"clusters", ClusterName(u)>> /\ ClusterName(u) \in Nat
    BY <1>1, <1>3, ClusterFileName
<1>7. clusters \in SUBSET SUBSET Ids
    BY <1>1, <1>3, <1>6 DEF FileType
<1>8. v = [u EXCEPT !.pc = "print", !.scores = u.scores, !.draws = u.draws, !.graph = u.graph,
                    !.clusters = clusters, !.out = u.out]
    BY <1>3, <1>4 DEF RunRecords
<1>9. Continues(u, v, "print", u.scores, u.draws, u.graph, clusters, u.out)
    BY <1>2, <1>3, <1>7, <1>8, RunParts DEF Continues
<1>10. /\ v \in RunRecords /\ RunType(v)
       /\ v.pc = "print" /\ v.scores = u.scores /\ v.draws = u.draws /\ v.options = u.options
       /\ v.corpus = u.corpus /\ v.scorers = u.scorers /\ v.before = u.before
       /\ v.graph = u.graph /\ v.clusters = clusters
    BY <1>3, <1>9, GoesOn
<1>11. ASSUME p \in alone PROVE Own(v, files')
    <2>1. Own(u, files) /\ files' = files
        BY <1>2, <1>3, <1>11
    <2>2. OwnScores(u) /\ OwnClusters(u, files) /\ u.pc \in AtWorkStages
        BY <1>2, <1>3, <2>1, OwnAtWork
    <2>3. GraphIn(v) = GraphIn(u)
        BY <1>10, SameCorpus
    <2>4. OwnClusters(v, files')
        BY <1>1, <1>2, <1>6, <1>10, <2>2, <2>3 DEF OwnClusters
    <2>5. OwnScores(v) /\ v.pc \in AtWorkStages /\ u.draws <= v.draws
        BY <1>3, <1>10, <2>2, RunParts DEF OwnScores, AtWorkStages
    <2>6. QED BY <1>2, <1>3, <1>10, <2>1, <2>2, <2>4, <2>5, GoesOnAlone
<1>12. QED BY <1>2, <1>3, <1>5, <1>10, <1>11, RunMoves

(* What is written are patterns of the corpus, those that the graph of the *)
(* corpus connects.                                                        *)
LEMMA WritesOwnPatterns ==
    ASSUME NEW u \in RunRecords, ReadyIn(u) = ScorableIn(u), OwnClusters(u, files), u.pc = "print",
           NEW p, u = run[p], Scorers(p) = ReadyIn(u),
           NEW v, v.out = {PatternsOf(p, c) : c \in u.clusters},
           v.options = u.options, v.corpus = u.corpus
    PROVE  OwnPatterns(v)
<1>1. ScorableIn(v) = ScorableIn(u) /\ GraphIn(v) = GraphIn(u)
    BY SameCorpus
<1>2. \A c : PatternsOf(p, c) = {u.corpus[i] : i \in c \cap ScorableIn(u)}
    BY DEF PatternsOf
<1>3. CASE u.options.graph = "existing"
    BY <1>1, <1>2, <1>3 DEF OwnPatterns, PatternsIn
<1>4. CASE u.options.graph # "existing"
    <2>1. /\ UNION u.clusters = UNION GraphIn(u) /\ \A c \in u.clusters : c # {}
        BY <1>4 DEF OwnClusters, Partitions
    <2>2. UNION GraphIn(u) \subseteq ScorableIn(u)
        BY DEF GraphIn
    <2>3. \A c \in u.clusters : c \subseteq ScorableIn(u)
        BY <2>1, <2>2
    <2>4. \A c \in u.clusters : PatternsOf(p, c) = {u.corpus[i] : i \in c}
        BY <1>2, <2>3
    <2>5. {} \notin v.out
        <3>1. ASSUME NEW c \in u.clusters PROVE PatternsOf(p, c) # {}
            <4>1. PICK i \in c : TRUE
                BY <2>1
            <4>2. u.corpus[i] \in {u.corpus[j] : j \in c}
                OBVIOUS
            <4>3. QED BY <2>4, <4>2
        <3>2. \A q \in v.out : \E c \in u.clusters : q = PatternsOf(p, c)
            OBVIOUS
        <3>3. QED BY <3>1, <3>2
    <2>6. UNION v.out = {u.corpus[i] : i \in UNION u.clusters}
        BY <2>4
    <2>7. QED BY <1>1, <1>4, <2>1, <2>5, <2>6 DEF OwnPatterns, PatternsIn
<1>5. QED BY <1>3, <1>4

(* The files that the run returns without having removed.                  *)
LEMMA LeavesRefused ==
    ASSUME NEW u \in RunRecords, NEW p, u = run[p], u.pc = "print",
           OwnScorers(u, files), OwnFiles(u, files), Scorers(p) = ReadyIn(u),
           \A i \in DOMAIN u.scorers : StageIn(u, i) \in {"ready", "null"},
           files' = Without(Removed(p)), NEW v, v.scorers = u.scorers, v.before = u.before
    PROVE  Leftovers(v, files')
<1>1. /\ DOMAIN files' = DOMAIN files \ Removed(p)
      /\ \A other \in DOMAIN files' : files'[other] = files[other]
    BY Removing
<1> SUFFICES ASSUME NEW file \in DOMAIN files' \ v.before, file[2] # 0
             PROVE  file \in ScorerFiles(v) /\ files'[file] \in Refused
    BY DEF Leftovers
<1>2. file \in DOMAIN files /\ file \notin Removed(p) /\ Accounted(u, file)
    BY <1>1 DEF OwnFiles
<1>3. /\ file # <<"clusters", ClusterName(u)>> /\ file # <<"graph", u.graph>>
      /\ \A i \in ReadyIn(u) : file # <<"strings", u.scorers[i].file>>
    BY <1>2, ClusterFileName DEF Removed, StringsFile
<1>4. file \in ScorerFiles(u)
    BY <1>2, <1>3 DEF Accounted
<1>5. PICK i \in NullIn(u) : file = <<"strings", u.scorers[i].file>>
    BY <1>4 DEF ScorerFiles
<1>6. u.corpus[i] \in Refused /\ Holds(files, "strings", u.scorers[i].file, u.corpus[i])
    BY <1>5 DEF OwnScorers, OwnScorer, NullIn, StageIn
<1>7. files'[file] \in Refused
    BY <1>1, <1>5, <1>6 DEF Holds
<1>8. QED BY <1>4, <1>7, SameScorers

(* The run returns.                                                        *)
LEMMA ReturnMoves ==
    ASSUME MclControl, NEW p \in Runs, WriteAndReturn(p)
    PROVE  MclControl'
<1>1. PICK u, out : u = run[p] /\ out = {PatternsOf(p, c) : c \in u.clusters}
    OBVIOUS
<1>2. u.pc = "print" /\ UNCHANGED alone /\ files' = Without(Removed(p))
    BY <1>1 DEF WriteAndReturn
<1>3. /\ u \in RunRecords /\ RunType(u) /\ Active(p) /\ run \in [Runs -> RunRecords]
      /\ FileType(files) /\ Unmade(u) = {} /\ Scorers(p) = ReadyIn(u)
      /\ DOMAIN u.scores \subseteq ReadyIn(u) \X ReadyIn(u) /\ u.options \in OptionRecords
      /\ DOMAIN u.scorers = DOMAIN u.corpus
      /\ p \in alone => Own(u, files)
    BY <1>1, <1>2, RunAtWork
<1>4. PICK v : v = [u EXCEPT !.pc = "ended", !.out = out]
    OBVIOUS
<1>5. run' = [run EXCEPT ![p] = v]
    BY <1>1, <1>3, <1>4 DEF WriteAndReturn
<1>6. out \in SUBSET SUBSET Patterns
    <2>1. \A i \in ReadyIn(u) : u.corpus[i] \in Patterns
        BY <1>3, RunParts DEF ReadyIn
    <2>2. \A c : PatternsOf(p, c) \in SUBSET Patterns
        BY <1>1, <1>3, <2>1 DEF PatternsOf
    <2>3. QED BY <1>1, <2>2
<1>7. v = [u EXCEPT !.pc = "ended", !.scores = u.scores, !.draws = u.draws, !.graph = u.graph,
                    !.clusters = u.clusters, !.out = out]
    BY <1>3, <1>4 DEF RunRecords
<1>8. Continues(u, v, "ended", u.scores, u.draws, u.graph, u.clusters, out)
    BY <1>2, <1>3, <1>6, <1>7, RunParts DEF Continues
<1>9. /\ v \in RunRecords /\ RunType(v)
      /\ v.pc = "ended" /\ v.scores = u.scores /\ v.options = u.options
      /\ v.corpus = u.corpus /\ v.scorers = u.scorers /\ v.before = u.before /\ v.out = out
    BY <1>3, <1>8, GoesOn
<1>10. FileType(files')
    <2>1. PICK removed : removed = Removed(p)
        OBVIOUS
    <2>2. /\ DOMAIN files' = DOMAIN files \ removed
          /\ \A other \in DOMAIN files' : files'[other] = files[other]
        BY <1>2, <2>1, Removing
    <2>3. QED BY <1>3, <2>2 DEF FileType
<1>11. ASSUME p \in alone PROVE Own(v, files')
    <2>1. Own(u, files)
        BY <1>3, <1>11
    <2>2. /\ OwnScorers(u, files) /\ OwnScores(u) /\ OwnClusters(u, files) /\ OwnFiles(u, files)
          /\ ReadyIn(u) = ScorableIn(u)
          /\ \A i \in DOMAIN u.scorers : StageIn(u, i) \in {"ready", "null"}
        BY <1>2, <1>3, <2>1, OwnAtWork
    <2>3. ReadyIn(v) = ScorableIn(v)
        BY <1>9, <2>2, SameScorers, SameCorpus
    <2>4. OwnScores(v)
        BY <1>9, <2>2 DEF OwnScores
    <2>5. OwnPatterns(v)
        BY <1>1, <1>2, <1>3, <1>9, <2>2, WritesOwnPatterns
    <2>6. Leftovers(v, files')
        BY <1>1, <1>2, <1>3, <1>9, <2>2, LeavesRefused
    <2>7. QED BY <1>9, <2>3, <2>4, <2>5, <2>6 DEF Own
<1>12. QED BY <1>2, <1>3, <1>5, <1>9, <1>10, <1>11, RunMoves

-----------------------------------------------------------------------------
(* The start of a run. *)

(* Every set of naturals has a least element.                              *)
LEMMA LeastNatural ==
    ASSUME NEW T \in SUBSET Nat, T # {}
    PROVE  \E n \in T : \A m \in T : n <= m
<1> DEFINE less == OpToRel(<, Nat)
<1>1. IsWellFoundedOn(less, Nat)
    BY NatLessThanWellFounded
<1> HIDE DEF less
<1>2. PICK n \in T : \A m \in T : ~(<<m, n>> \in less)
    BY <1>1, WFMin
<1>3. \A m \in T : ~(m < n)
    BY <1>2 DEF less, OpToRel
<1>4. QED BY <1>3

(* Of the lines with an id there is a last one, so a corpus is a function  *)
(* of ids to patterns.                                                     *)
LEMMA PairsType ==
    ASSUME NEW lines \in Corpora
    PROVE  DOMAIN Pairs(lines) \subseteq Ids /\ Pairs(lines) \in [DOMAIN Pairs(lines) -> Patterns]
<1>1. /\ DOMAIN lines = 1 .. Len(lines) /\ Len(lines) \in Nat
      /\ \A k \in DOMAIN lines : lines[k].id \in Ids /\ lines[k].pattern \in Patterns
    <2>1. PICK L : L = [id : Ids, pattern : Patterns]
        OBVIOUS
    <2>2. lines \in Seq(L)
        BY <2>1, CorporaAssumption
    <2>3. DOMAIN lines = 1 .. Len(lines) /\ Len(lines) \in Nat
        BY <2>2
    <2>4. \A k \in DOMAIN lines : lines[k] \in L
        BY <2>2
    <2>5. QED BY <2>1, <2>3, <2>4
<1> DEFINE ids == {lines[k].id : k \in DOMAIN lines}
           Last(i, k) == lines[k].id = i /\ \A m \in DOMAIN lines : lines[m].id = i => m <= k
<1>2. DOMAIN Pairs(lines) = ids /\ ids \subseteq Ids
    BY <1>1 DEF Pairs
<1>3. ASSUME NEW i \in ids
      PROVE  Pairs(lines)[i] \in Patterns
    <2> DEFINE T == {n \in Nat : \E k \in DOMAIN lines : lines[k].id = i /\ k + n = Len(lines)}
    <2>1. ASSUME NEW k \in DOMAIN lines, lines[k].id = i
          PROVE  Len(lines) - k \in T
        <3>1. k \in Nat /\ Len(lines) - k \in Nat /\ k + (Len(lines) - k) = Len(lines)
            BY <1>1
        <3>2. QED BY <2>1, <3>1
    <2>2. \E k \in DOMAIN lines : lines[k].id = i
        OBVIOUS
    <2>3. PICK n \in T : \A m \in T : n <= m
        <3>1. T \in SUBSET Nat
            OBVIOUS
        <3>2. T # {}
            BY <2>1, <2>2
        <3> HIDE DEF T
        <3>3. QED BY <3>1, <3>2, LeastNatural
    <2>4. PICK k \in DOMAIN lines : lines[k].id = i /\ n = Len(lines) - k
        <3>1. PICK k \in DOMAIN lines : lines[k].id = i /\ k + n = Len(lines) /\ n \in Nat
            BY <2>3
        <3>2. n = Len(lines) - k
            BY <1>1, <3>1
        <3>3. QED BY <3>1, <3>2
    <2>5. ASSUME NEW m \in DOMAIN lines, lines[m].id = i PROVE m <= k
        <3>1. Len(lines) - m \in T
            BY <2>1, <2>5
        <3>2. Len(lines) - k <= Len(lines) - m
            BY <2>3, <2>4, <3>1
        <3>3. QED BY <1>1, <3>2
    <2>6. \E l \in DOMAIN lines : Last(i, l)
        BY <2>4, <2>5
    <2>7. (CHOOSE l \in DOMAIN lines : Last(i, l)) \in DOMAIN lines
        BY <2>6
    <2>8. Pairs(lines)[i] = lines[CHOOSE l \in DOMAIN lines : Last(i, l)].pattern
        BY DEF Pairs
    <2>9. QED BY <1>1, <2>7, <2>8
<1>4. Pairs(lines) = [i \in DOMAIN Pairs(lines) |-> Pairs(lines)[i]]
    BY DEF Pairs
<1>5. QED BY <1>2, <1>3, <1>4

(* A run that starts has nothing but its corpus.                           *)
LEMMA StartMoves ==
    ASSUME MclControl, NEW p \in Runs, NEW options \in Options, NEW lines \in Corpora,
           Start(p, options, lines)
    PROVE  MclControl'
<1>1. PICK u, corpus : u = run[p] /\ corpus = Pairs(lines)
    OBVIOUS
<1>2. PICK scorers, before :
        scorers = [i \in DOMAIN corpus |-> Queued] /\ before = DOMAIN files
    OBVIOUS
<1>3. PICK v : v = [u EXCEPT !.pc = "scorers", !.options = options, !.corpus = corpus,
                             !.scorers = scorers, !.before = before]
    OBVIOUS
<1>4. /\ u.pc = "off" /\ u = NotStarted /\ run \in [Runs -> RunRecords] /\ FileType(files)
      /\ UNCHANGED files
    BY <1>1 DEF Start, MclControl, RunType
<1>5. run' = [run EXCEPT ![p] = v]
    BY <1>1, <1>2, <1>3, <1>4 DEF Start
<1>6. v = [pc |-> "scorers", options |-> options, corpus |-> corpus, scorers |-> scorers,
           scores |-> <<>>, draws |-> 0, graph |-> 0, clusters |-> {}, out |-> {},
           before |-> before]
    <2>1. u = [pc |-> "off", options |-> {}, corpus |-> <<>>, scorers |-> <<>>, scores |-> <<>>,
               draws |-> 0, graph |-> 0, clusters |-> {}, out |-> {}, before |-> {}]
        BY <1>4 DEF NotStarted
    <2>2. QED BY <1>3, <2>1
<1>7. /\ DOMAIN corpus \subseteq Ids /\ corpus \in CorpusFunctions /\ options \in OptionRecords
      /\ before \in SUBSET FileNames
    BY <1>1, <1>2, <1>4, PairsType, TheirFunctions, OptionsAssumption DEF FileType
<1>8. /\ DOMAIN scorers = DOMAIN corpus /\ scorers \in ScorerFunctions
      /\ \A i \in DOMAIN scorers : scorers[i] = Queued
    <2>1. Queued \in ScorerRecords
        BY PatternsAssumption DEF Queued, ScorerRecords
    <2>2. DOMAIN scorers = DOMAIN corpus /\ scorers \in [DOMAIN corpus -> ScorerRecords]
        BY <1>2, <2>1
    <2>3. QED BY <1>2, <1>7, <2>2, TheirFunctions
<1>9. DOMAIN <<>> = {} /\ <<>> \in ScoreFunctions
    BY Nothing, TheirFunctions
<1>10. v \in RunRecords
    BY <1>6, <1>7, <1>8, <1>9 DEF RunRecords
<1>11. /\ v.pc = "scorers" /\ v.options = options /\ v.corpus = corpus /\ v.scorers = scorers
       /\ v.scores = <<>> /\ v.draws = 0 /\ v.before = before
    BY <1>6
<1>12. RunType(v)
    <2>1. Queue(v) = DOMAIN scorers /\ Unmade(v) = DOMAIN scorers
        <3>1. \A i \in DOMAIN scorers : scorers[i].stage = "queued"
            BY <1>8 DEF Queued
        <3>2. \A i \in DOMAIN scorers : StageIn(v, i) = "queued"
            BY <1>11, <3>1 DEF StageIn
        <3>3. QED BY <1>11, <3>2 DEF Queue, Unmade
    <2>2. /\ Cardinality(DOMAIN scorers) <= Cardinality(Ids) /\ Cardinality(Ids) \in Nat
          /\ Cardinality(DOMAIN scorers) \in Nat
        BY <1>10, <1>11, ScorersAreFinite, FS_CardinalityType
    <2>3. NamesTaken(v) = 0 + Cardinality(DOMAIN scorers) + Cardinality(DOMAIN scorers)
        BY <1>11, <2>1 DEF NamesTaken
    <2>4. NamesTaken(v) <= 2 * Cardinality(Ids) /\ NamesTaken(v) <= 2 * Cardinality(Ids) + 1
        BY <2>2, <2>3
    <2>5. QED BY <1>7, <1>8, <1>9, <1>10, <1>11, <2>4 DEF RunType
<1>13. Own(v, files)
    <2>1. OwnScorers(v, files)
        BY <1>8, <1>11 DEF OwnScorers, OwnScorer, Queued
    <2>2. OwnScores(v) /\ OwnClusters(v, files) /\ OwnFiles(v, files)
        BY <1>2, <1>9, <1>11 DEF OwnScores, OwnClusters, OwnFiles
    <2>3. QED BY <1>11, <2>1, <2>2 DEF Own
<1>14. alone' \subseteq {p} /\ (alone' # {} => \A q \in Runs : q # p => ~Active(q))
    BY DEF Start
<1>15. /\ run' \in [Runs -> RunRecords] /\ run'[p] = v
       /\ \A q \in Runs : q # p => run'[q] = run[q]
    BY <1>4, <1>5, <1>10
<1>16. \A q \in Runs : RunType(run'[q])
    BY <1>12, <1>15 DEF MclControl
<1>17. ASSUME NEW a \in alone'
       PROVE  Own(run'[a], files') /\ \A q \in Runs : q # a => ~Active(q)'
    <2>1. a = p
        BY <1>14
    <2>2. Own(run'[a], files')
        BY <1>4, <1>13, <1>15, <2>1
    <2>3. \A q \in Runs : q # a => ~Active(q)'
        BY <1>14, <1>15, <1>17, <2>1 DEF Active
    <2>4. QED BY <2>2, <2>3
<1>18. FileType(files') /\ alone' \subseteq Runs /\ \A a, b \in alone' : a = b
    BY <1>4, <1>14
<1>19. QED BY <1>15, <1>16, <1>17, <1>18 DEF MclControl

-----------------------------------------------------------------------------
(* The invariant. *)

(* The run that has not started.                                           *)
LEMMA NewRun == NotStarted \in RunRecords /\ RunType(NotStarted)
<1>1. PICK u : u = NotStarted
    OBVIOUS
<1>2. u = [pc |-> "off", options |-> {}, corpus |-> <<>>, scorers |-> <<>>, scores |-> <<>>,
           draws |-> 0, graph |-> 0, clusters |-> {}, out |-> {}, before |-> {}]
    BY <1>1 DEF NotStarted
<1>3. /\ DOMAIN <<>> = {}
      /\ <<>> \in CorpusFunctions /\ <<>> \in ScorerFunctions /\ <<>> \in ScoreFunctions
    BY Nothing, TheirFunctions
<1>4. u \in RunRecords
    BY <1>2, <1>3 DEF RunRecords
<1>5. Queue(u) = {} /\ Unmade(u) = {} /\ u.draws = 0
    BY <1>2, <1>3 DEF Queue, Unmade
<1>6. Cardinality({}) = 0 /\ Cardinality(Ids) \in Nat
    BY IdsAssumption, FS_EmptySet, FS_CardinalityType
<1>7. NamesTaken(u) = 0 + 0 + 0
    BY <1>5, <1>6 DEF NamesTaken
<1>8. NamesTaken(u) <= 2 * Cardinality(Ids) /\ NamesTaken(u) <= 2 * Cardinality(Ids) + 1
    BY <1>6, <1>7
<1>9. RunType(u)
    BY <1>1, <1>2, <1>3, <1>4, <1>5, <1>8 DEF RunType
<1>10. QED BY <1>1, <1>4, <1>9

(* Nothing has started, and there are no files.                            *)
LEMMA MclInit == Init => MclControl
<1> SUFFICES ASSUME Init PROVE MclControl
    OBVIOUS
<1>1. files = <<>> /\ run = [p \in Runs |-> NotStarted] /\ alone = {}
    BY DEF Init
<1>2. FileType(files)
    BY <1>1, Nothing DEF FileType
<1>3. run \in [Runs -> RunRecords] /\ \A p \in Runs : RunType(run[p])
    BY <1>1, NewRun
<1>4. QED BY <1>1, <1>2, <1>3 DEF MclControl

(* Every step keeps it.                                                    *)
LEMMA MclStep == MclControl /\ [Next]_vars => MclControl'
<1> SUFFICES ASSUME MclControl, [Next]_vars PROVE MclControl'
    OBVIOUS
<1>1. CASE UNCHANGED vars
    <2>1. files' = files /\ run' = run /\ alone' = alone
        BY <1>1 DEF vars
    <2>2. QED BY <2>1 DEF MclControl, Active
<1>2. CASE AllOver
    <2>1. files' = files /\ run' = run /\ alone' = alone
        BY <1>2 DEF AllOver, vars
    <2>2. QED BY <2>1 DEF MclControl, Active
<1>3. ASSUME NEW p \in Runs, NEW options \in Options, NEW lines \in Corpora,
             Start(p, options, lines)
      PROVE  MclControl'
    BY <1>3, StartMoves
<1>4. ASSUME NEW p \in Runs, NEW i \in Ids, MakeEgretScorer(p, i) PROVE MclControl'
    BY <1>4, EgretMoves
<1>5. ASSUME NEW p \in Runs, NEW i \in Ids, OpenRegexFile(p, i) PROVE MclControl'
    BY <1>5, OpenMoves
<1>6. ASSUME NEW p \in Runs, NEW i \in Ids, Generate(p, i) PROVE MclControl'
    BY <1>6, GenerateMoves
<1>7. ASSUME NEW p \in Runs, NEW i \in Ids, StoreStrings(p, i) PROVE MclControl'
    BY <1>7, StoreMoves
<1>8. ASSUME NEW p \in Runs, FinishScorers(p) PROVE MclControl'
    BY <1>8, FinishMoves
<1>9. ASSUME NEW p \in Runs, NEW r \in Ids, NEW c \in Ids, Score(p, r, c) PROVE MclControl'
    BY <1>9, ScoreMoves
<1>10. ASSUME NEW p \in Runs, WriteGraph(p) PROVE MclControl'
    BY <1>10, GraphMoves
<1>11. ASSUME NEW p \in Runs, RunMcl(p) PROVE MclControl'
    BY <1>11, MclMoves
<1>12. ASSUME NEW p \in Runs, ReadClusters(p) PROVE MclControl'
    BY <1>12, ReadMoves
<1>13. ASSUME NEW p \in Runs, WriteAndReturn(p) PROVE MclControl'
    BY <1>13, ReturnMoves
<1>14. ASSUME NEW p \in Runs, Killed(p) PROVE MclControl'
    BY <1>14, FailMoves DEF Killed
<1>15. QED BY <1>1, <1>2, <1>3, <1>4, <1>5, <1>6, <1>7, <1>8, <1>9, <1>10, <1>11, <1>12,
              <1>13, <1>14 DEF Next

(* The inductive invariant holds in every reachable state.                 *)
LEMMA MclInvariant == Spec => []MclControl
BY MclInit, MclStep, PTL DEF Spec

-----------------------------------------------------------------------------

(* Whatever the runs do to each other's files, each of them draws at most  *)
(* two names for a scorer and two more, scores only regexes that have a    *)
(* scorer, and reads what it takes for a graph, clusters or strings.       *)
THEOREM MclTypeCorrect == Spec => []MclTypeOK
<1>1. MclControl => MclTypeOK
    <2> SUFFICES ASSUME MclControl PROVE MclTypeOK
        OBVIOUS
    <2>1. alone \subseteq Runs /\ Cardinality(alone) <= 1
        <3>1. alone = {} \/ \E a : alone = {a}
            BY DEF MclControl
        <3>2. Cardinality(alone) = 0 \/ Cardinality(alone) = 1
            BY <3>1, FS_EmptySet, FS_Singleton
        <3>3. QED BY <3>2 DEF MclControl
    <2>2. FileType(files)
        BY DEF MclControl
    <2>3. ASSUME NEW p \in Runs
          PROVE  [field \in {"pc", "draws", "graph", "clusters", "out"} |-> run[p][field]] \in RunRecord
        <3>1. PICK u : u = run[p]
            OBVIOUS
        <3>2. u \in RunRecords /\ RunType(u)
            BY <3>1 DEF MclControl
        <3>3. u.draws \in 0 .. 2 * Cardinality(Ids) + 2
            <4>1. /\ u.draws \in Nat /\ Cardinality(Queue(u)) \in Nat
                  /\ Cardinality(Unmade(u)) \in Nat /\ Cardinality(Ids) \in Nat
                BY <3>2, ScorersAreFinite, RunParts
            <4>2. u.draws + Cardinality(Queue(u)) + Cardinality(Unmade(u))
                     <= 2 * Cardinality(Ids) + 1
                BY <3>2 DEF RunType, NamesTaken
            <4>3. QED BY <4>1, <4>2
        <3>4. /\ u.pc \in {"off", "scorers", "score", "cluster", "read", "print", "ended", "failed"}
              /\ u.graph \in Nat /\ u.clusters \in SUBSET SUBSET Ids
              /\ u.out \in SUBSET SUBSET Patterns
            BY <3>2 DEF RunRecords
        <3>5. QED BY <3>1, <3>3, <3>4 DEF RunRecord
    <2>4. ASSUME NEW p \in Runs
          PROVE  /\ DOMAIN run[p].corpus \subseteq Ids
                 /\ \A pair \in DOMAIN run[p].scores, k \in 1 .. 2 : Stage(p, pair[k]) = "ready"
        <3>1. run[p] \in RunRecords /\ DOMAIN run[p].scores \subseteq ReadyIn(run[p]) \X ReadyIn(run[p])
            BY DEF MclControl, RunType
        <3>2. ASSUME NEW pair \in DOMAIN run[p].scores, NEW k \in 1 .. 2
              PROVE  Stage(p, pair[k]) = "ready"
            <4>1. pair[1] \in ReadyIn(run[p]) /\ pair[2] \in ReadyIn(run[p])
                BY <3>1
            <4>2. k = 1 \/ k = 2
                OBVIOUS
            <4>3. QED BY <4>1, <4>2 DEF ReadyIn, Stage, StageIn
        <3>3. QED BY <3>1, <3>2, RunParts
    <2>5. QED BY <2>1, <2>2, <2>3, <2>4 DEF MclTypeOK, FileType
<1>2. QED BY <1>1, MclInvariant, PTL

(* Whatever lies in /tmp and however its tasks mix, a run that no other    *)
(* overlaps scores each regex that can have a scorer with its own strings. *)
THEOREM ScoresOwnStrings == Spec => []ScoresAreOwn
<1>1. MclControl => ScoresAreOwn
    <2> SUFFICES ASSUME MclControl, NEW p \in alone,
                        run[p].pc \in {"score", "cluster", "read", "print", "ended"}
                 PROVE  /\ Scorers(p) = Scorable(p)
                        /\ \A pair \in DOMAIN run[p].scores :
                              run[p].scores[pair] = run[p].corpus[pair[1]]
        BY DEF ScoresAreOwn
    <2>1. PICK u : u = run[p]
        OBVIOUS
    <2>2. u \in RunRecords /\ RunType(u) /\ Own(u, files)
        BY <2>1 DEF MclControl
    <2>3. Scorers(p) = ReadyIn(u) /\ Scorable(p) = ScorableIn(u)
        BY <2>1 DEF Scorers, ReadyIn, Stage, StageIn, Scorable, ScorableIn, CanScore
    <2>4. ReadyIn(u) = ScorableIn(u) /\ OwnScores(u)
        <3>1. CASE u.pc = "ended"
            BY <2>2, <3>1 DEF Own
        <3>2. CASE u.pc # "ended"
            BY <2>1, <2>2, <3>2, OwnAtWork
        <3>3. QED BY <3>1, <3>2
    <2>5. QED BY <2>1, <2>3, <2>4 DEF OwnScores
<1>2. QED BY <1>1, MclInvariant, PTL

(* Similarity is the same in both directions.                              *)
LEMMA SimilarityIsSymmetric ==
    ASSUME NEW u \in RunRecords, NEW i \in DOMAIN u.corpus, NEW j \in DOMAIN u.corpus
    PROVE  SimilarIn(u, i, j) <=> SimilarIn(u, j, i)
<1>1. u.corpus[i] \in Patterns /\ u.corpus[j] \in Patterns
    BY RunParts
<1>2. ASSUME NEW q \in Patterns, NEW r
      PROVE  /\ RexScore(q, r).hits \in Nat /\ RexScore(q, r).of \in Nat
             /\ EgretScore(q, r).hits \in Nat /\ EgretScore(q, r).of \in Nat
    <2>1. PICK both : both = {x \in Strings[q] : x \in Full[q] <=> x \in Found[r]}
        OBVIOUS
    <2>2. /\ IsFiniteSet(Strings[q])
          /\ Strings[q] \cap Found[r] \in SUBSET Strings[q] /\ both \in SUBSET Strings[q]
        BY <2>1, StringsAssumption
    <2>3. IsFiniteSet(Strings[q] \cap Found[r]) /\ IsFiniteSet(both)
        BY <2>2, FS_Subset
    <2>4. /\ Cardinality(Strings[q]) \in Nat /\ Cardinality(Strings[q] \cap Found[r]) \in Nat
          /\ Cardinality(both) \in Nat
        BY <2>2, <2>3, FS_CardinalityType
    <2>5. QED BY <2>1, <2>4 DEF RexScore, EgretScore
<1>3. /\ ScoreIn(u, i, j).hits \in Nat /\ ScoreIn(u, i, j).of \in Nat
      /\ ScoreIn(u, j, i).hits \in Nat /\ ScoreIn(u, j, i).of \in Nat
    BY <1>1, <1>2 DEF ScoreIn
<1>4. \A a, b, c, d \in Nat : a * d + c * b = c * b + a * d /\ 2 * b * d = 2 * d * b
    OBVIOUS
<1>5. Average(ScoreIn(u, i, j), ScoreIn(u, j, i)) = Average(ScoreIn(u, j, i), ScoreIn(u, i, j))
    BY <1>3, <1>4 DEF Average
<1>6. QED BY <1>5 DEF SimilarIn

(* What the graph of the corpus connects.                                  *)
LEMMA GraphConnects ==
    ASSUME NEW u \in RunRecords
    PROVE  UNION GraphIn(u) = {i \in ScorableIn(u) : \E j \in ScorableIn(u) : SimilarIn(u, i, j)}
<1>1. ASSUME NEW i \in UNION GraphIn(u)
      PROVE  i \in ScorableIn(u) /\ \E j \in ScorableIn(u) : SimilarIn(u, i, j)
    <2>1. PICK pair \in GraphIn(u) : i \in pair
        OBVIOUS
    <2>2. PICK a \in ScorableIn(u), b \in ScorableIn(u) : pair = {a, b}
        BY DEF GraphIn
    <2>3. \A x, y \in pair : pair = {x, y} => SimilarIn(u, x, y)
        BY DEF GraphIn
    <2>4. PICK j \in ScorableIn(u) : pair = {i, j}
        BY <2>1, <2>2
    <2>5. i \in ScorableIn(u) /\ SimilarIn(u, i, j)
        BY <2>1, <2>2, <2>3, <2>4
    <2>6. QED BY <2>5
<1>2. ASSUME NEW i \in ScorableIn(u), NEW j \in ScorableIn(u), SimilarIn(u, i, j)
      PROVE  i \in UNION GraphIn(u)
    <2>1. SimilarIn(u, j, i)
        BY <1>2, SimilarityIsSymmetric DEF ScorableIn
    <2>2. \A x, y \in {i, j} : {i, j} = {x, y} => SimilarIn(u, x, y)
        BY <1>2, <2>1
    <2>3. {i, j} \in GraphIn(u)
        BY <2>2 DEF GraphIn
    <2>4. QED BY <2>3
<1>3. QED BY <1>1, <1>2

(* A run that no other overlaps writes the patterns that are similar to    *)
(* one of its corpus, all of them and no others.                           *)
THEOREM WritesTheSimilar == Spec => []WritesItsPatterns
<1>1. MclControl => WritesItsPatterns
    <2> SUFFICES ASSUME MclControl, NEW p \in alone, run[p].pc = "ended"
                 PROVE  IF run[p].options.graph = "existing"
                        THEN UNION run[p].out \subseteq {run[p].corpus[i] : i \in Scorable(p)}
                        ELSE /\ UNION run[p].out =
                                   {run[p].corpus[i] : i \in
                                       {i \in Scorable(p) : \E j \in Scorable(p) : Similar(p, i, j)}}
                             /\ {} \notin run[p].out
        BY DEF WritesItsPatterns
    <2>1. PICK u : u = run[p]
        OBVIOUS
    <2>2. u \in RunRecords /\ OwnPatterns(u)
        BY <2>1 DEF MclControl, Own
    <2>3. Scorable(p) = ScorableIn(u)
        BY <2>1 DEF Scorable, ScorableIn, CanScore
    <2>4. \A i, j : Similar(p, i, j) = SimilarIn(u, i, j)
        BY <2>1 DEF Similar, Expected, SimilarIn, ScoreIn
    <2>5. UNION GraphIn(u) = {i \in Scorable(p) : \E j \in Scorable(p) : Similar(p, i, j)}
        BY <2>2, <2>3, <2>4, GraphConnects
    <2>6. CASE u.options.graph = "existing"
        <3>1. UNION u.out \subseteq PatternsIn(u, Scorable(p))
            BY <2>2, <2>3, <2>6 DEF OwnPatterns
        <3>2. QED BY <2>1, <2>6, <3>1 DEF PatternsIn
    <2>7. CASE u.options.graph # "existing"
        <3>1. PICK similar : similar = {i \in Scorable(p) : \E j \in Scorable(p) : Similar(p, i, j)}
            OBVIOUS
        <3>2. UNION u.out = PatternsIn(u, similar) /\ {} \notin u.out
            BY <2>2, <2>5, <2>7, <3>1 DEF OwnPatterns
        <3>3. UNION run[p].out = {run[p].corpus[i] : i \in similar} /\ {} \notin run[p].out
            BY <2>1, <3>2 DEF PatternsIn
        <3>4. QED BY <2>1, <2>7, <3>1, <3>3
    <2>8. QED BY <2>6, <2>7
<1>2. QED BY <1>1, MclInvariant, PTL

(* A run that no other overlaps leaves in /tmp only the strings of some of *)
(* its regexes: those that Rex accepts and RE2 refuses.                    *)
THEOREM LeavesNothingElse == Spec => []LeavesOnlyRefused
<1>1. MclControl => LeavesOnlyRefused
    <2> SUFFICES ASSUME MclControl, NEW p \in alone, run[p].pc = "ended", NEW left,
                        left = {file \in DOMAIN files \ run[p].before : file[2] # 0}
                 PROVE  /\ \A file \in left : file[1] = "strings" /\ files[file] \in Refused
                        /\ Cardinality(left) <= Cardinality(DOMAIN run[p].corpus \ Scorers(p))
        BY DEF LeavesOnlyRefused
    <2>1. PICK u : u = run[p]
        OBVIOUS
    <2>2. u \in RunRecords /\ RunType(u) /\ Leftovers(u, files)
        BY <2>1 DEF MclControl, Own
    <2>3. left \subseteq ScorerFiles(u) /\ \A file \in left : files[file] \in Refused
        BY <2>1, <2>2 DEF Leftovers
    <2>4. \A file \in left : file[1] = "strings"
        BY <2>3 DEF ScorerFiles
    <2>5. PICK without : without = DOMAIN u.corpus \ Scorers(p)
        OBVIOUS
    <2>6. IsFiniteSet(without)
        BY <2>2, <2>5, ScorersAreFinite, FS_Subset DEF RunType
    <2>7. NullIn(u) \in SUBSET without
        BY <2>1, <2>2, <2>5 DEF NullIn, Scorers, Stage, StageIn, RunType
    <2>8. PICK file : file = [i \in NullIn(u) |-> <<"strings", u.scorers[i].file>>]
        OBVIOUS
    <2>9. file \in Surjection(NullIn(u), ScorerFiles(u))
        BY <2>8 DEF Surjection, ScorerFiles
    <2>10. IsFiniteSet(NullIn(u)) /\ Cardinality(NullIn(u)) <= Cardinality(without)
        BY <2>6, <2>7, FS_Subset
    <2>11. IsFiniteSet(ScorerFiles(u)) /\ Cardinality(ScorerFiles(u)) <= Cardinality(NullIn(u))
        BY <2>9, <2>10, FS_Surjection
    <2>12. IsFiniteSet(left) /\ Cardinality(left) <= Cardinality(ScorerFiles(u))
        BY <2>3, <2>11, FS_Subset
    <2>13. /\ Cardinality(left) \in Nat /\ Cardinality(ScorerFiles(u)) \in Nat
           /\ Cardinality(NullIn(u)) \in Nat /\ Cardinality(without) \in Nat
        BY <2>6, <2>10, <2>11, <2>12, FS_CardinalityType
    <2>14. Cardinality(left) <= Cardinality(without)
        BY <2>10, <2>11, <2>12, <2>13
    <2>15. QED BY <2>1, <2>3, <2>4, <2>5, <2>14
<1>2. QED BY <1>1, MclInvariant, PTL
=============================================================================
