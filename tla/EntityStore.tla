---------------------------- MODULE EntityStore ----------------------------
(***************************************************************************)
(* The table of regex entities: the migrator that fills it, the query      *)
(* server that looks entities up in it (GetRegexesById) and has them       *)
(* ordered by the coverage service (SortByCoverage).                       *)
(*                                                                         *)
(* The store is DynamoDB and external.  A batch is refused if it has no    *)
(* key or one twice, and may fail; of one that succeeds, the store may     *)
(* leave some keys or items unprocessed, which it reports and nobody here  *)
(* looks at.  An item of the old format has a line number that is no       *)
(* number, and no batch with such an item can be unmarshalled.             *)
(***************************************************************************)
EXTENDS Integers, Sequences, FiniteSets

CONSTANTS Ids,
          WriteBatch,    \* 24
          ReadBatch,     \* 100
          LineModulus,   \* 2^32: line numbers are unsigned
          Files,         \* the files of entities to migrate
          OldItems,      \* what the table may hold before: old items by id
          Asked,         \* the lists of ids that queries find
          Coverable,     \* the ids whose pattern the coverage service can handle
          Coverage       \* their scores

\* An entity of a file: a line number is text and may be no number.
OldEntity == [id : Ids, features : Nat, line : Int, isNumber : BOOLEAN]
Item == [id : Ids, features : Nat, line : Int, old : BOOLEAN]

ASSUME BatchAssumption == WriteBatch \in Nat \ {0} /\ ReadBatch \in Nat \ {0}
ASSUME FilesAssumption == Files \subseteq Seq(OldEntity)
ASSUME OldItemsAssumption ==
    \A table \in OldItems : \A id \in DOMAIN table :
        table[id] \in Item /\ table[id].old /\ table[id].id = id
ASSUME AskedAssumption == Asked \subseteq Seq(Ids)
ASSUME ModulusAssumption == LineModulus \in Nat \ {0}
ASSUME CoverageAssumption == Coverable \subseteq Ids /\ Coverage \in [Coverable -> Nat]

VARIABLES table,      \* the store: ids to items
          neglected,  \* whether the store has left anything unprocessed
          migrator,
          reader      \* one query: what it asks for, finds and answers
vars == <<table, neglected, migrator, reader>>

\* Faulty: an item that is there already is kept.
PutIfAbsent(map, list) ==
    [id \in DOMAIN map \cup {list[k].id : k \in DOMAIN list} |->
        IF id \in DOMAIN map THEN map[id] ELSE list[CHOOSE k \in DOMAIN list : list[k].id = id]]

\* The items of later entries replace those of earlier ones with their id.
\* The list may have gaps.
Put(map, list) ==
    LET new(id) == {k \in DOMAIN list : list[k].id = id}
    IN [id \in DOMAIN map \cup {list[k].id : k \in DOMAIN list} |->
           IF new(id) = {} THEN map[id]
           ELSE list[CHOOSE k \in new(id) : \A m \in new(id) : m <= k]]

\* Faulty: a last chunk that is short is left out.
WholeChunks(list, size) ==
    [k \in 1 .. Len(list) \div size |-> SubSeq(list, (k - 1) * size + 1, k * size)]

\* ChunkSlice, of which the migrator has a copy.
ChunkSlice(list, size) ==
    [k \in 1 .. (Len(list) + size - 1) \div size |->
        SubSeq(list, (k - 1) * size + 1,
               IF k * size > Len(list) THEN Len(list) ELSE k * size)]

Init ==
    /\ table \in OldItems
    /\ neglected = FALSE
    /\ migrator = [pc |-> "idle", file |-> <<>>, batches |-> <<>>]
    /\ reader = [pc |-> "idle", ids |-> <<>>, batches |-> <<>>, entities |-> <<>>,
                 answer |-> <<>>, scores |-> <<>>, ready |-> FALSE]

-----------------------------------------------------------------------------
(* The migrator. *)

\* Faulty: a line number keeps its sign.
LineAsItIs(entity) == IF entity.isNumber THEN entity.line ELSE 0

\* Atoi, whose error is ignored, and the conversion to uint32.
FixedLine(entity) == IF entity.isNumber THEN entity.line % LineModulus ELSE 0

Fixed(file) == [k \in DOMAIN file |-> [id |-> file[k].id, features |-> file[k].features,
                                       line |-> FixedLine(file[k]), old |-> FALSE]]

\* It panics for a file without entities.
StartMigration(file) ==
    /\ migrator.pc \in {"idle", "ended", "failed"}
    /\ migrator' = [pc |-> IF file = <<>> THEN "failed" ELSE "write", file |-> file,
                    batches |-> ChunkSlice(Fixed(file), WriteBatch)]
    /\ reader' = [reader EXCEPT !.ready = FALSE]
    /\ UNCHANGED <<table, neglected>>

HasTwice(ids) == \E i, k \in DOMAIN ids : i # k /\ ids[i] = ids[k]

WriteNextBatch ==
    /\ migrator.pc = "write" /\ migrator.batches # <<>>
    /\ LET batch == Head(migrator.batches)
       IN /\ ~HasTwice([k \in DOMAIN batch |-> batch[k].id])
          /\ \E lost \in SUBSET DOMAIN batch :
                 /\ table' = Put(table, [k \in DOMAIN batch \ lost |-> batch[k]])
                 /\ neglected' = (neglected \/ lost # {})
    /\ migrator' = [migrator EXCEPT !.batches = Tail(@)]
    /\ UNCHANGED reader

\* An error, also for an id that is twice in a batch, ends the program.
WriteFails ==
    /\ migrator.pc = "write" /\ migrator.batches # <<>>
    /\ migrator' = [migrator EXCEPT !.pc = "failed", !.batches = <<>>]
    /\ UNCHANGED <<table, neglected, reader>>

EndMigration ==
    /\ migrator.pc = "write" /\ migrator.batches = <<>>
    /\ migrator' = [migrator EXCEPT !.pc = "ended"]
    /\ UNCHANGED <<table, neglected, reader>>

-----------------------------------------------------------------------------
(* The query server. *)

\* ready: whether a migration has ended before and none has begun since.
Ask(ids) ==
    /\ reader.pc \in {"idle", "answered", "failed"}
    /\ reader' = [reader EXCEPT !.pc = "get", !.ids = ids, !.entities = <<>>,
                      !.batches = IF Len(ids) > ReadBatch THEN ChunkSlice(ids, ReadBatch) ELSE <<ids>>,
                      !.answer = <<>>, !.scores = <<>>, !.ready = (migrator.pc = "ended")]
    /\ UNCHANGED <<table, neglected, migrator>>

\* getRegexesByIdUncheckedSize; SortByCoverage takes the entities through a
\* map, so that of two with one id the later stays and their order is lost.
GetNextBatch ==
    /\ reader.pc = "get" /\ reader.batches # <<>>
    /\ LET batch == Head(reader.batches)
           there == {k \in DOMAIN batch : batch[k] \in DOMAIN table}
       IN /\ batch # <<>> /\ ~HasTwice(batch)
          /\ \E lost \in SUBSET there :
                 LET items == [k \in there \ lost |-> table[batch[k]]]
                 IN /\ reader' = [reader EXCEPT !.batches = Tail(@),
                                      !.entities = IF \E k \in DOMAIN items : items[k].old THEN @
                                                   ELSE Put(@, items)]
                    /\ neglected' = (neglected \/ lost # {})
    /\ UNCHANGED <<table, migrator>>

\* Faulty: only the scores are compared, and that of a failure is zero.
ScoreOnlyBefore(left, right, score) == score[left] > score[right]

\* The comparison of SortByCoverage.  Of two failures each is before the
\* other; they end up in any order.
Before(left, right, score) ==
    \/ left \notin Coverable /\ right \notin Coverable
    \/ left \in Coverable /\ right \notin Coverable
    \/ /\ left \in Coverable /\ right \in Coverable
       /\ IF score[left] = score[right]
          THEN reader.entities[left].features < reader.entities[right].features
          ELSE score[left] > score[right]

\* DfaCoverageServiceImpl: a pattern it cannot handle has score zero.
ScoreOf(id) == IF id \in Coverable THEN Coverage[id] ELSE 0

SortByCoverage ==
    /\ reader.pc = "get" /\ reader.batches = <<>>
    /\ LET found == DOMAIN reader.entities
           score == [id \in found |-> ScoreOf(id)]
       IN \E order \in [1 .. Cardinality(found) -> found] :
              /\ \A i, k \in DOMAIN order : i < k =>
                     /\ order[i] # order[k]
                     /\ Before(order[k], order[i], score) => Before(order[i], order[k], score)
              /\ reader' = [reader EXCEPT !.pc = "answered",
                                !.answer = [k \in DOMAIN order |-> reader.entities[order[k]]],
                                !.scores = [k \in DOMAIN order |-> score[order[k]]]]
    /\ UNCHANGED <<table, neglected, migrator>>

\* The store refuses or fails, or the coverage service does.
ReadFails ==
    /\ reader.pc = "get"
    /\ reader' = [reader EXCEPT !.pc = "failed", !.entities = <<>>, !.batches = <<>>]
    /\ UNCHANGED <<table, neglected, migrator>>

Next ==
    \/ \E file \in Files : StartMigration(file)
    \/ WriteNextBatch \/ WriteFails \/ EndMigration
    \/ \E ids \in Asked : Ask(ids)
    \/ GetNextBatch \/ SortByCoverage \/ ReadFails

Spec == Init /\ [][Next]_vars

-----------------------------------------------------------------------------

(* Types.  What a query has found is of the new format, under its own id,  *)
(* and every line number fits its width.                                   *)
StoreTypeOK ==
    /\ neglected \in BOOLEAN
    /\ \A id \in DOMAIN table : table[id] \in Item /\ table[id].id = id
    /\ \A id \in DOMAIN table : ~table[id].old => table[id].line \in 0 .. LineModulus - 1
    /\ migrator.pc \in {"idle", "write", "ended", "failed"}
    /\ reader.pc \in {"idle", "get", "answered", "failed"}
    /\ \A id \in DOMAIN reader.entities :
           reader.entities[id].id = id /\ ~reader.entities[id].old

InFile == {migrator.file[k].id : k \in DOMAIN migrator.file}
LastInFile(id) == migrator.file[CHOOSE k \in DOMAIN migrator.file :
    /\ migrator.file[k].id = id
    /\ \A m \in DOMAIN migrator.file : migrator.file[m].id = id => m <= k]

(* A migration that has ended has replaced every entity of its file, also  *)
(* if it had to be run again, unless the store left items unprocessed.     *)
EndedMigrationIsWhole ==
    migrator.pc = "ended" /\ ~neglected =>
        \A id \in InFile :
            /\ id \in DOMAIN table /\ ~table[id].old
            /\ table[id].features = LastInFile(id).features

(* A query that is asked after a migration and answered before the next    *)
(* has every entity it asks for, if the file has it, nothing was left      *)
(* unprocessed, and no item of the old format is left in the table.        *)
MigratedIsFound ==
    /\ reader.pc = "answered" /\ reader.ready /\ ~neglected
    /\ \A id \in DOMAIN table : ~table[id].old
    => \A k \in DOMAIN reader.ids : reader.ids[k] \in InFile =>
           \E m \in DOMAIN reader.answer : reader.answer[m].id = reader.ids[k]

(* No entity is answered twice; those the coverage service failed for are  *)
(* at the bottom, and the scores that go with the answer do not rise.      *)
FailuresAtTheBottom ==
    reader.pc = "answered" =>
        \A i, k \in DOMAIN reader.answer : i < k =>
            /\ reader.answer[i].id # reader.answer[k].id
            /\ reader.answer[k].id \in Coverable => reader.answer[i].id \in Coverable
            /\ reader.scores[i] >= reader.scores[k]
=============================================================================
