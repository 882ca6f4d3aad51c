---------------------------- MODULE StringTables ----------------------------
(***************************************************************************)
(* The programs rex-string-generator and similarity-table, run one after   *)
(* the other: the first has Rex make up strings for the regexes of a       *)
(* corpus, in parallel, and the second turns the strings into a graph of   *)
(* similarities, in parallel.  They may run on two machines; a machine may *)
(* report that it has zero processors (hardware_concurrency).              *)
(*                                                                         *)
(* A worker of either program only reads what the others read, so a task   *)
(* is known by how far it is; ThreadPool models the pool itself.           *)
(***************************************************************************)
EXTENDS SimilarityGraph, Sequences

CONSTANTS Inputs,       \* the corpora: lists of patterns
          Processors,   \* what the machines may report
          Refused,      \* the patterns that RE2 refuses
          RexFails,     \* the patterns that Rex fails for
          NoFile

ASSUME InputsAssumption == Inputs \subseteq Seq(Patterns)
ASSUME ProcessorsAssumption == Processors \subseteq Nat
\* generate_strings throws if there are none.
ASSUME RexAssumption == \A q \in Patterns \ RexFails : Strings[q] # {}

VARIABLES input,
          pc,
          processors,   \* of the machine that runs the program
          chunks,       \* the generator: its tasks
          task,         \*   where each is: the next regex, those with strings
          gathered,     \*   how many tasks have been merged
          strings,      \*   the merged map: its keys, the regexes
          file,         \* the file between the programs
          entities,     \* the table: what it has read
          computed,     \*   the rows that tasks have computed
          scores,       \*   the matrix
          graph         \* the ABC file

generator == <<chunks, task, gathered, strings>>
table == <<entities, computed, scores>>
vars == <<input, pc, processors, generator, file, table, graph>>

-----------------------------------------------------------------------------
(* The generator. *)

\* Faulty: a chunk begins at its own number.
ChunkOverlapping(list, n) ==
    [k \in 1 .. n |-> SubSeq(list, k, k + (Len(list) \div n) - 1)]

\* util::chunk.
Chunk(list, n) ==
    LET items == Len(list) \div n
    IN IF n = 0 THEN <<>>
       ELSE IF n = 1 THEN <<list>>
       ELSE [k \in 1 .. n |-> SubSeq(list, (k - 1) * items + 1, k * items)]

Init ==
    /\ input \in Inputs /\ processors \in Processors
    /\ pc = "generate"
    /\ chunks = Chunk(input, processors)
    /\ task = [k \in DOMAIN chunks |-> [next |-> 1, strings |-> {}]]
    /\ gathered = 0 /\ strings = {}
    /\ file = NoFile
    /\ entities = {} /\ computed = {} /\ scores = {} /\ graph = NoFile

TaskEnded(k) == task[k].next > Len(chunks[k])

\* Faulty: a regex that Rex fails for is tried again.
Retrying(k) ==
    IF chunks[k][task[k].next] \in RexFails THEN task[k].next ELSE task[k].next + 1

\* Faulty: the regex after one that Rex fails for is passed over, too.
Skipping(k) ==
    IF chunks[k][task[k].next] \in RexFails THEN task[k].next + 2 ELSE task[k].next + 1

NextAfter(k) == task[k].next + 1

\* The next regex of a task; if Rex fails it is passed over.
GenerateStrings(k) ==
    /\ k \in DOMAIN task /\ ~TaskEnded(k) /\ pc = "generate"
    /\ task' = [task EXCEPT ![k] = [next |-> NextAfter(k),
                                    strings |-> @.strings \cup ({chunks[k][@.next]} \ RexFails)]]
    /\ UNCHANGED <<input, pc, processors, chunks, gathered, strings, file, table, graph>>

\* get() of the next task, in order, and merge.
Gather ==
    /\ pc = "generate" /\ gathered < Len(chunks)
    /\ TaskEnded(gathered + 1)
    /\ gathered' = gathered + 1
    /\ strings' = strings \cup task[gathered + 1].strings
    /\ UNCHANGED <<input, pc, processors, chunks, task, file, table, graph>>

\* The file is cut short until it is closed.
OpenStrings ==
    /\ pc = "generate" /\ gathered = Len(chunks)
    /\ pc' = "write"
    /\ file' = [complete |-> FALSE, strings |-> {}]
    /\ UNCHANGED <<input, processors, generator, table, graph>>

CloseStrings ==
    /\ pc = "write"
    /\ pc' = "generated"
    /\ file' = [complete |-> TRUE, strings |-> strings]
    /\ UNCHANGED <<input, processors, generator, table, graph>>

GeneratorKilled ==
    /\ pc \in {"generate", "write"}
    /\ pc' = "generated"
    /\ UNCHANGED <<input, processors, generator, file, table, graph>>

-----------------------------------------------------------------------------
(* The table. *)

\* The entities are the regexes of the file that RE2 takes; a file that is
\* missing or cut short is no JSON and ends the program.
ReadStrings ==
    /\ pc = "generated"
    /\ processors' \in Processors
    /\ IF file # NoFile /\ file.complete
       THEN pc' = "compute" /\ entities' = file.strings \ Refused
       ELSE pc' = "failed" /\ UNCHANGED entities
    /\ UNCHANGED <<input, generator, file, computed, scores, graph>>

\* A worker's task: the strings of every entity that this one is found in.
ComputeRow(r) ==
    /\ pc = "compute" /\ processors > 0
    /\ r \in entities \ computed
    /\ computed' = computed \cup {r}
    /\ UNCHANGED <<input, pc, processors, generator, file, entities, scores, graph>>

\* get() of a row's task.
SwapRow(r) ==
    /\ pc = "compute" /\ r \in computed \ scores
    /\ scores' = scores \cup {r}
    /\ UNCHANGED <<input, pc, processors, generator, file, entities, computed, graph>>

\* compute_row: the row of r at the column of s.
ScoreAt(r, s) == RexScore(s, r)

\* Faulty: the lower half of the matrix is taken as it is.
LowerHalf(r, s) == ScoreAt(r, s)

HalfMatrix(r, s) == Average(ScoreAt(r, s), ScoreAt(s, r))

WriteGraph ==
    /\ pc = "compute" /\ scores = entities
    /\ pc' = "ended"
    /\ graph' = {[ends |-> {edge[1], edge[2]}, score |-> HalfMatrix(edge[1], edge[2])] :
                     edge \in {pair \in entities \X entities :
                                  IsEdge(HalfMatrix(pair[1], pair[2]), 0)}}
    /\ UNCHANGED <<input, processors, generator, file, table>>

\* Without workers the first get() never returns.
Stuck == pc = "compute" /\ processors = 0 /\ entities # {}

Over ==
    /\ pc \in {"ended", "failed"} \/ Stuck
    /\ UNCHANGED vars

Next ==
    \/ \E k \in DOMAIN task : GenerateStrings(k)
    \/ Gather \/ OpenStrings \/ CloseStrings \/ GeneratorKilled
    \/ ReadStrings
    \/ \E r \in Patterns : ComputeRow(r) \/ SwapRow(r)
    \/ WriteGraph \/ Over

\* Workers and the main thread are scheduled, and Rex returns.
Fairness ==
    /\ \A k \in UNION {1 .. n : n \in Processors} : WF_vars(GenerateStrings(k))
    /\ \A r \in Patterns : WF_vars(ComputeRow(r)) /\ WF_vars(SwapRow(r))
    /\ WF_vars(Gather) /\ WF_vars(OpenStrings) /\ WF_vars(CloseStrings)
    /\ WF_vars(ReadStrings) /\ WF_vars(WriteGraph)

Spec == Init /\ [][Next]_vars /\ Fairness

-----------------------------------------------------------------------------

(* Types.  A chunk's task has strings only for regexes of its chunk, and   *)
(* the chunks are as many as processors.                                   *)
TablesTypeOK ==
    /\ pc \in {"generate", "write", "generated", "compute", "ended", "failed"}
    /\ pc = "generate" => Len(chunks) = processors
    /\ gathered \in 0 .. Len(chunks) /\ strings \subseteq Patterns
    /\ \A k \in DOMAIN task :
           /\ task[k].next \in 1 .. Len(chunks[k]) + 1
           /\ task[k].strings \subseteq {chunks[k][i] : i \in DOMAIN chunks[k]}
    /\ file = NoFile \/ file \in [complete : BOOLEAN, strings : SUBSET Patterns]
    /\ scores \subseteq computed /\ computed \subseteq entities

\* The regexes that reach a task: all but the last Len(input) % n.
Reached == LET n == Len(chunks)
           IN {input[i] : i \in IF n = 0 THEN {} ELSE 1 .. Len(input) - (Len(input) % n)}

(* A complete file has the strings of every regex that reached a task and  *)
(* that Rex can handle, from whichever task and in whatever order they     *)
(* ended; and fewer regexes than there are processors never reach one.     *)
GeneratesForAllReached ==
    /\ file # NoFile => (file.complete => file.strings = Reached \ RexFails)
    /\ \A k \in DOMAIN chunks : \A i \in DOMAIN chunks[k] : chunks[k][i] \in Reached
    /\ Len(chunks) > 0 =>
           \E lost \in 0 .. Len(chunks) - 1 :
               \A i \in 1 .. Len(input) - lost : \E k \in DOMAIN chunks :
                   \E j \in DOMAIN chunks[k] : chunks[k][j] = input[i]

(* The graph joins the regexes that reached a task and that Rex and RE2    *)
(* can handle by the average of their scores both ways, which is how       *)
(* mcl-clustering scores them too; a graph is of a complete file only.     *)
GraphOfTheCorpus ==
    graph # NoFile =>
        LET known == (Reached \ RexFails) \ Refused
        IN graph = {[ends |-> {edge[1], edge[2]},
                     score |-> Average(RexScore(edge[1], edge[2]), RexScore(edge[2], edge[1]))] :
                       edge \in {pair \in known \X known :
                           \/ RexScore(pair[1], pair[2]).hits > 0
                           \/ RexScore(pair[2], pair[1]).hits > 0}}

(* Both programs end, also if Rex fails, unless a machine that reports no  *)
(* processors is to compute rows.                                          *)
EndsIfItCan == <>(pc \in {"ended", "failed"} \/ Stuck)
=============================================================================
