------------------------- MODULE EntityStoreProofs -------------------------
(***************************************************************************)
(* Proofs about EntityStore, for batches of any size, any files and any    *)
(* lists of ids: what the chunks of a list hold, what the store has after  *)
(* a migration that has ended, and what a query makes of it.               *)
(***************************************************************************)
EXTENDS EntityStore, FiniteSetTheorems, SequenceTheorems, TLAPS

-----------------------------------------------------------------------------
(* Chunks. *)

\* Where the k-th chunk ends.
ChunkEnd(length, size, k) == IF k * size > length THEN length ELSE k * size

\* The chunks of a list: one after the other, to its end.
ChunksOf(list, size, pieces) ==
    /\ Len(pieces) \in Nat /\ DOMAIN pieces = 1 .. Len(pieces)
    /\ ChunkEnd(Len(list), size, Len(pieces)) = Len(list)
    /\ \A k \in 1 .. Len(pieces) :
          LET from == ChunkEnd(Len(list), size, k - 1)
              to == ChunkEnd(Len(list), size, k)
          IN /\ DOMAIN pieces[k] = 1 .. to - from
             /\ \A i \in 1 .. to - from : pieces[k][i] = list[from + i]

(* The end of a chunk is between that of the one before it and the end.    *)
LEMMA ChunkEnds ==
    ASSUME NEW length \in Nat, NEW size \in Nat \ {0}, NEW k \in Nat
    PROVE  /\ ChunkEnd(length, size, k) \in 0 .. length
           /\ ChunkEnd(length, size, 0) = 0
           /\ ChunkEnd(length, size, k) <= ChunkEnd(length, size, k + 1)
<1>1. PICK here, next : here = k * size /\ next = (k + 1) * size
    OBVIOUS
<1>2. here \in Nat /\ next = here + size /\ 0 * size = 0
    BY <1>1
<1>3. /\ ChunkEnd(length, size, k) = IF here > length THEN length ELSE here
      /\ ChunkEnd(length, size, k + 1) = IF next > length THEN length ELSE next
      /\ ChunkEnd(length, size, 0) = 0
    BY <1>1, <1>2 DEF ChunkEnd
<1>4. QED BY <1>2, <1>3

(* How many chunks there are: enough, and none of them is empty.           *)
LEMMA ChunkCount ==
    ASSUME NEW length \in Nat, NEW size \in Nat \ {0}, NEW n,
           n = (length + size - 1) \div size
    PROVE  n \in Nat /\ n * size >= length /\ \A k \in 1 .. n : (k - 1) * size < length
<1>1. PICK total : total = length + size - 1
    OBVIOUS
<1>2. total \in Nat /\ n = total \div size
    BY <1>1
<1>3. total \div size \in Nat /\ total % size \in 0 .. size - 1
    BY <1>2
<1>4. total = size * (total \div size) + (total % size)
    BY <1>2, Z3
<1>5. n \in Nat /\ size * n \in Nat /\ n * size = size * n /\ total % size \in 0 .. size - 1
      /\ total = size * n + (total % size)
    BY <1>2, <1>3, <1>4
<1>6. n * size >= length
    BY <1>1, <1>5
<1>7. ASSUME NEW k \in 1 .. n PROVE (k - 1) * size < length
    <2>1. PICK d \in Nat : n = (k - 1) + (1 + d)
        <3>1. n - k \in Nat /\ n = (k - 1) + (1 + (n - k))
            BY <1>5
        <3>2. QED BY <3>1
    <2>2. \A a, b, c \in Nat : (a + b) * c = a * c + b * c /\ a * c \in Nat
        OBVIOUS
    <2>3. n * size = (k - 1) * size + (size + d * size) /\ (k - 1) * size \in Nat /\ d * size \in Nat
        <3>1. k - 1 \in Nat /\ 1 + d \in Nat
            BY <1>5
        <3>2. n * size = (k - 1) * size + (1 + d) * size
            BY <2>1, <2>2, <3>1
        <3>3. (1 + d) * size = 1 * size + d * size
            BY <2>2
        <3>4. (k - 1) * size \in Nat /\ d * size \in Nat
            BY <2>2, <3>1
        <3>5. QED BY <3>2, <3>3, <3>4
    <2>4. QED BY <1>1, <1>5, <2>3
<1>8. QED BY <1>5, <1>6, <1>7

(* What ChunkSlice returns.                                                *)
LEMMA ChunkSliceReturns ==
    ASSUME NEW S, NEW list \in Seq(S), NEW size \in Nat \ {0}
    PROVE  ChunksOf(list, size, ChunkSlice(list, size)) /\ ChunkSlice(list, size) \in Seq(Seq(S))
<1>1. PICK length, n : length = Len(list) /\ n = (length + size - 1) \div size
    OBVIOUS
<1>2. length \in Nat /\ \A i \in 1 .. length : list[i] \in S
    BY <1>1
<1>3. n \in Nat /\ n * size >= length /\ \A k \in 1 .. n : (k - 1) * size < length
    BY <1>1, <1>2, ChunkCount
<1>4. PICK pieces : pieces = [k \in 1 .. n |-> SubSeq(list, (k - 1) * size + 1,
                                                     ChunkEnd(length, size, k))]
    OBVIOUS
<1>5. ChunkSlice(list, size) = pieces
    BY <1>1, <1>4 DEF ChunkSlice, ChunkEnd
<1>6. ASSUME NEW k \in 1 .. n, NEW from, NEW to,
             from = ChunkEnd(length, size, k - 1), to = ChunkEnd(length, size, k)
      PROVE  /\ pieces[k] \in Seq(S) /\ DOMAIN pieces[k] = 1 .. to - from
             /\ \A i \in 1 .. to - from : pieces[k][i] = list[from + i]
    <2>1. k \in Nat /\ k - 1 \in Nat /\ (k - 1) + 1 = k
        BY <1>3
    <2>2. (k - 1) * size \in Nat
        BY <2>1
    <2>3. from = (k - 1) * size
        BY <1>2, <1>3, <1>6, <2>2 DEF ChunkEnd
    <2>4. from \in Nat /\ to \in Nat /\ from <= to /\ to <= length
        BY <1>2, <1>6, <2>1, ChunkEnds
    <2>5. pieces[k] = SubSeq(list, from + 1, to)
        BY <1>4, <1>6, <2>3
    <2>6. \A i \in from + 1 .. to : list[i] \in S
        BY <1>2, <2>4
    <2>7. /\ SubSeq(list, from + 1, to) \in Seq(S)
          /\ Len(SubSeq(list, from + 1, to)) = IF from + 1 <= to THEN to - (from + 1) + 1 ELSE 0
          /\ \A i \in 1 .. to - (from + 1) + 1 :
                SubSeq(list, from + 1, to)[i] = list[(from + 1) + i - 1]
        BY <2>4, <2>6, SubSeqProperties
    <2>8. to - (from + 1) + 1 = to - from /\ \A i \in 1 .. to - from : (from + 1) + i - 1 = from + i
        BY <2>4
    <2>9. Len(pieces[k]) = to - from
        BY <2>4, <2>5, <2>7, <2>8
    <2>10. \A s \in Seq(S) : DOMAIN s = 1 .. Len(s)
        OBVIOUS
    <2>11. QED BY <2>5, <2>7, <2>8, <2>9, <2>10
<1>7. pieces \in [1 .. n -> Seq(S)]
    BY <1>4, <1>6
<1>8. pieces \in Seq(Seq(S)) /\ Len(pieces) = n /\ DOMAIN pieces = 1 .. n
    <2>1. \A T : \A s \in [1 .. n -> T] : s \in Seq(T) /\ Len(s) = n /\ DOMAIN s = 1 .. n
        BY <1>3
    <2>2. QED BY <1>7, <2>1
<1>9. ChunkEnd(length, size, n) = length
    <2>1. n * size \in Nat
        BY <1>3
    <2>2. QED BY <1>2, <1>3, <2>1 DEF ChunkEnd
<1>10. ChunksOf(list, size, pieces)
    BY <1>1, <1>3, <1>6, <1>8, <1>9 DEF ChunksOf
<1>11. QED BY <1>5, <1>8, <1>10

\* What is left of a sequence after its first j elements.
Rest(s, j) == [i \in 1 .. Len(s) - j |-> s[j + i]]

(* Head and Tail walk through a sequence from its rest to the next.        *)
LEMMA RestOf ==
    ASSUME NEW S, NEW s \in Seq(S), NEW j \in 0 .. Len(s)
    PROVE  /\ Rest(s, 0) = s
           /\ Rest(s, j) # <<>> <=> j < Len(s)
           /\ j < Len(s) => Head(Rest(s, j)) = s[j + 1] /\ Tail(Rest(s, j)) = Rest(s, j + 1)
<1>1. PICK n : n = Len(s)
    OBVIOUS
<1>2. n \in Nat /\ \A i \in 1 .. n : s[i] \in S
    BY <1>1
<1>3. Rest(s, 0) = s
    <2>1. Rest(s, 0) = [i \in 1 .. n |-> s[i]]
        BY <1>1, <1>2 DEF Rest
    <2>2. s = [i \in 1 .. n |-> s[i]]
        BY <1>1
    <2>3. QED BY <2>1, <2>2
<1>4. PICK rest : rest = [i \in 1 .. n - j |-> s[j + i]]
    OBVIOUS
<1>5. n - j \in Nat /\ rest \in [1 .. n - j -> S]
    BY <1>1, <1>2, <1>4
<1>6. rest \in Seq(S) /\ Len(rest) = n - j
    <2>1. PICK m \in Nat : m = n - j
        BY <1>5
    <2>2. \A t \in [1 .. m -> S] : t \in Seq(S) /\ Len(t) = m
        OBVIOUS
    <2>3. QED BY <1>5, <2>1, <2>2
<1>7. rest # <<>> <=> j < n
    <2>1. \A t \in Seq(S) : t = <<>> <=> Len(t) = 0
        OBVIOUS
    <2>2. QED BY <1>1, <1>2, <1>6, <2>1
<1>8. ASSUME j < n PROVE Head(rest) = s[j + 1] /\ Tail(rest) = Rest(s, j + 1)
    <2>1. rest # <<>>
        BY <1>7, <1>8
    <2>2. Head(rest) = rest[1] /\ Tail(rest) = [i \in 1 .. Len(rest) - 1 |-> rest[i + 1]]
        <3>1. \A t \in Seq(S) : t # <<>> => Head(t) = t[1]
            OBVIOUS
        <3>2. /\ Tail(rest) \in Seq(S) /\ Len(Tail(rest)) = Len(rest) - 1
              /\ \A i \in 1 .. Len(Tail(rest)) : Tail(rest)[i] = rest[i + 1]
            BY <1>6, <2>1, HeadTailProperties
        <3>3. \A t \in Seq(S) : t = [i \in 1 .. Len(t) |-> t[i]]
            OBVIOUS
        <3>4. Tail(rest) = [i \in 1 .. Len(Tail(rest)) |-> Tail(rest)[i]]
            BY <3>2, <3>3
        <3>5. QED BY <1>6, <2>1, <3>1, <3>2, <3>4
    <2>3. rest[1] = s[j + 1]
        BY <1>1, <1>2, <1>4, <1>8
    <2>4. Len(rest) - 1 = n - (j + 1)
        BY <1>1, <1>2, <1>6
    <2>5. \A i \in 1 .. n - (j + 1) : rest[i + 1] = s[(j + 1) + i]
        <3>1. \A i \in 1 .. n - (j + 1) : i + 1 \in 1 .. n - j /\ j + (i + 1) = (j + 1) + i
            BY <1>1, <1>2
        <3>2. QED BY <1>4, <3>1
    <2>6. Rest(s, j + 1) = [i \in 1 .. n - (j + 1) |-> s[(j + 1) + i]]
        BY <1>1 DEF Rest
    <2>7. QED BY <2>2, <2>3, <2>4, <2>5, <2>6
<1>9. Rest(s, j) = rest
    BY <1>1, <1>4 DEF Rest
<1>10. QED BY <1>1, <1>3, <1>7, <1>8, <1>9

-----------------------------------------------------------------------------
(* Items that are put. *)

\* No two items of the list have the same id.
Distinct(list) == \A i, k \in DOMAIN list : i # k => list[i].id # list[k].id

(* The items of such a list are all in the map, in place of those that had *)
(* their ids.                                                              *)
LEMMA PutReturns ==
    ASSUME NEW map, NEW list, DOMAIN list \subseteq Int, Distinct(list)
    PROVE  /\ DOMAIN Put(map, list) = DOMAIN map \cup {list[k].id : k \in DOMAIN list}
           /\ \A k \in DOMAIN list : Put(map, list)[list[k].id] = list[k]
           /\ \A id \in DOMAIN map :
                 (\A k \in DOMAIN list : list[k].id # id) => Put(map, list)[id] = map[id]
<1> DEFINE new(id) == {k \in DOMAIN list : list[k].id = id}
           ids == DOMAIN map \cup {list[k].id : k \in DOMAIN list}
<1>1. Put(map, list) = [id \in ids |->
          IF new(id) = {} THEN map[id]
          ELSE list[CHOOSE k \in new(id) : \A m \in new(id) : m <= k]]
    BY DEF Put
<1>2. ASSUME NEW k \in DOMAIN list
      PROVE  Put(map, list)[list[k].id] = list[k]
    <2>1. new(list[k].id) = {k}
        BY DEF Distinct
    <2>2. k <= k
        OBVIOUS
    <2>3. (CHOOSE n \in {k} : \A m \in {k} : m <= n) = k
        BY <2>2
    <2>4. list[k].id \in ids
        OBVIOUS
    <2> HIDE DEF ids, new
    <2>5. QED BY <1>1, <2>1, <2>3, <2>4
<1>3. ASSUME NEW id \in DOMAIN map, \A k \in DOMAIN list : list[k].id # id
      PROVE  Put(map, list)[id] = map[id]
    <2>1. new(id) = {} /\ id \in ids
        BY <1>3
    <2> HIDE DEF ids, new
    <2>2. QED BY <1>1, <2>1
<1>4. DOMAIN Put(map, list) = ids
    <2> HIDE DEF ids, new
    <2>1. QED BY <1>1
<1>5. QED BY <1>2, <1>3, <1>4

-----------------------------------------------------------------------------
(* The invariant. *)

\* An item as it is written, and one as the table may hold it.
NewItem(item) == item \in Item /\ ~item.old /\ item.line \in 0 .. LineModulus - 1
TableItem(item) == item \in Item /\ (~item.old => item.line \in 0 .. LineModulus - 1)

TableType == \A id \in DOMAIN table : TableItem(table[id]) /\ table[id].id = id

Batches == ChunkSlice(Fixed(migrator.file), WriteBatch)

\* Position k has the last of the first w entities with this id.
IsLast(k, id, w) ==
    /\ k \in 1 .. w /\ migrator.file[k].id = id
    /\ \A m \in 1 .. w : migrator.file[m].id = id => m <= k

\* The first w entities of the file are in the table, the last of each id.
Written(w) ==
    \A m \in 1 .. w : \E k \in 1 .. w :
        /\ IsLast(k, migrator.file[m].id, w)
        /\ migrator.file[m].id \in DOMAIN table
        /\ table[migrator.file[m].id] = Fixed(migrator.file)[k]

MigratorControl ==
    /\ migrator = [pc |-> migrator.pc, file |-> migrator.file, batches |-> migrator.batches]
    /\ migrator.pc \in {"idle", "write", "ended", "failed"}
    /\ migrator.file \in Seq(OldEntity)
    /\ migrator.pc = "write" => \E j \in 0 .. Len(Batches) :
          /\ migrator.batches = Rest(Batches, j)
          /\ ~neglected => Written(ChunkEnd(Len(migrator.file), WriteBatch, j))
    /\ migrator.pc = "ended" /\ ~neglected => Written(Len(migrator.file))

\* The requests of a query.
Requests(ids) == IF Len(ids) > ReadBatch THEN ChunkSlice(ids, ReadBatch) ELSE <<ids>>

\* What the query reads does not change, and all of it can be read.
Settled ==
    /\ reader.ready /\ ~neglected
    /\ \A id \in DOMAIN table : ~table[id].old

\* The first w ids have been found if they are there.
FoundUpTo(w) ==
    \A k \in 1 .. w : reader.ids[k] \in DOMAIN table => reader.ids[k] \in DOMAIN reader.entities

AnswersAll ==
    \A k \in DOMAIN reader.ids : reader.ids[k] \in DOMAIN table =>
        \E m \in DOMAIN reader.answer : reader.answer[m].id = reader.ids[k]

ReaderShape(r) ==
    r = [pc |-> r.pc, ids |-> r.ids, batches |-> r.batches, entities |-> r.entities,
         answer |-> r.answer, scores |-> r.scores, ready |-> r.ready]

ReaderControl ==
    /\ ReaderShape(reader)
    /\ reader.pc \in {"idle", "get", "answered", "failed"}
    /\ reader.ids \in Seq(Ids)
    /\ reader.ready \in BOOLEAN /\ (reader.ready => migrator.pc = "ended")
    /\ IsFiniteSet(DOMAIN reader.entities)
    /\ \A id \in DOMAIN reader.entities :
          reader.entities[id].id = id /\ ~reader.entities[id].old
    /\ reader.pc = "get" => \E j \in 0 .. Len(Requests(reader.ids)) :
          /\ reader.batches = Rest(Requests(reader.ids), j)
          /\ Settled => FoundUpTo(ChunkEnd(Len(reader.ids), ReadBatch, j))
    /\ reader.pc = "answered" /\ Settled => AnswersAll
    /\ FailuresAtTheBottom

\* The inductive invariant.
StoreControl == neglected \in BOOLEAN /\ TableType /\ MigratorControl /\ ReaderControl

(* What is written of a file.                                              *)
LEMMA FixedFile ==
    ASSUME NEW file \in Seq(OldEntity)
    PROVE  /\ Fixed(file) \in Seq(Item) /\ Len(Fixed(file)) = Len(file)
           /\ DOMAIN file = 1 .. Len(file) /\ Len(file) \in Nat
           /\ \A k \in 1 .. Len(file) : /\ NewItem(Fixed(file)[k])
                                        /\ Fixed(file)[k].id = file[k].id
                                        /\ Fixed(file)[k].features = file[k].features
<1>1. PICK n : n = Len(file)
    OBVIOUS
<1>2. n \in Nat /\ DOMAIN file = 1 .. n /\ \A k \in 1 .. n : file[k] \in OldEntity
    BY <1>1
<1>3. ASSUME NEW k \in 1 .. n
      PROVE  /\ file[k].id \in Ids /\ file[k].features \in Nat
             /\ FixedLine(file[k]) \in 0 .. LineModulus - 1
    <2>1. file[k].id \in Ids /\ file[k].features \in Nat /\ file[k].line \in Int
        BY <1>2 DEF OldEntity
    <2>2. \A l \in Int : l % LineModulus \in 0 .. LineModulus - 1
        BY ModulusAssumption
    <2>3. 0 \in 0 .. LineModulus - 1
        BY ModulusAssumption
    <2>4. QED BY <2>1, <2>2, <2>3 DEF FixedLine
<1>4. PICK fixed : fixed = [k \in 1 .. n |-> [id |-> file[k].id, features |-> file[k].features,
                                              line |-> FixedLine(file[k]), old |-> FALSE]]
    OBVIOUS
<1>5. Fixed(file) = fixed
    BY <1>2, <1>4 DEF Fixed
<1>6. \A l \in 0 .. LineModulus - 1 : l \in Int
    BY ModulusAssumption
<1>7. \A k \in 1 .. n : /\ NewItem(fixed[k]) /\ fixed[k].id = file[k].id
                        /\ fixed[k].features = file[k].features
    BY <1>3, <1>4, <1>6 DEF NewItem, Item
<1>8. fixed \in [1 .. n -> Item]
    BY <1>4, <1>7 DEF NewItem
<1>9. fixed \in Seq(Item) /\ Len(fixed) = n
    <2>1. \A t \in [1 .. n -> Item] : t \in Seq(Item) /\ Len(t) = n
        BY <1>2
    <2>2. QED BY <1>8, <2>1
<1>10. QED BY <1>1, <1>2, <1>5, <1>7, <1>9

(* The batches of a file, and the requests of a query, are its chunks.     *)
LEMMA BatchesAreChunks ==
    ASSUME migrator.file \in Seq(OldEntity)
    PROVE  Batches \in Seq(Seq(Item)) /\ ChunksOf(Fixed(migrator.file), WriteBatch, Batches)
BY FixedFile, ChunkSliceReturns, BatchAssumption DEF Batches

(* The requests of a query are the chunks of its ids, also if there is     *)
(* only one.                                                               *)
LEMMA RequestsAreChunks ==
    ASSUME NEW ids \in Seq(Ids)
    PROVE  Requests(ids) \in Seq(Seq(Ids)) /\ ChunksOf(ids, ReadBatch, Requests(ids))
<1>1. ReadBatch \in Nat \ {0}
    BY BatchAssumption
<1>2. CASE Len(ids) > ReadBatch
    BY <1>1, <1>2, ChunkSliceReturns DEF Requests
<1>3. CASE ~(Len(ids) > ReadBatch)
    <2>1. PICK one, n : one = <<ids>> /\ n = Len(ids)
        OBVIOUS
    <2>2. /\ one \in Seq(Seq(Ids)) /\ Len(one) = 1 /\ DOMAIN one = 1 .. 1 /\ one[1] = ids
          /\ n \in Nat /\ DOMAIN ids = 1 .. n /\ ~(n > ReadBatch)
        BY <1>3, <2>1
    <2>3. ChunkEnd(n, ReadBatch, 0) = 0 /\ ChunkEnd(n, ReadBatch, 1) = n
        BY <1>1, <2>2 DEF ChunkEnd
    <2>4. \A i \in 1 .. n - 0 : 0 + i = i
        BY <2>2
    <2>5. \A k \in 1 .. 1 : k = 1 /\ k - 1 = 0
        OBVIOUS
    <2>6. n - 0 = n
        BY <2>2
    <2>7. ChunksOf(ids, ReadBatch, one)
        BY <2>1, <2>2, <2>3, <2>4, <2>5, <2>6 DEF ChunksOf
    <2>8. QED BY <1>3, <2>1, <2>2, <2>7 DEF Requests
<1>4. QED BY <1>2, <1>3

-----------------------------------------------------------------------------
(* The invariant holds at the beginning, and what does not change it.      *)

(* The empty sequence has no positions.                                    *)
LEMMA Nothing == DOMAIN <<>> = {} /\ \A S : <<>> \in Seq(S)
OBVIOUS

(* A table may hold old items before the first migration.                  *)
LEMMA StoreInit == Init => StoreControl
<1> SUFFICES ASSUME Init PROVE StoreControl
    OBVIOUS
<1> USE DEF Init
<1>1. TableType
    BY OldItemsAssumption DEF TableType, TableItem
<1>2. MigratorControl
    BY Nothing DEF MigratorControl
<1>3. IsFiniteSet(DOMAIN reader.entities)
    BY Nothing, FS_EmptySet
<1>4. ReaderControl
    <2>1. ReaderShape(reader)
        BY DEF ReaderShape
    <2>2. \A id \in DOMAIN reader.entities :
             reader.entities[id].id = id /\ ~reader.entities[id].old
        BY Nothing
    <2>3. FailuresAtTheBottom
        BY DEF FailuresAtTheBottom
    <2>4. QED BY <1>3, <2>1, <2>2, <2>3, Nothing DEF ReaderControl
<1>5. QED BY <1>1, <1>2, <1>4 DEF StoreControl

(* A step of the migrator changes nothing for a query that was asked when  *)
(* it had not ended.                                                       *)
LEMMA ReaderKept ==
    ASSUME ReaderControl, reader' = reader, ~reader.ready
    PROVE  ReaderControl'
<1>1. Settled' = FALSE
    BY DEF Settled
<1>2. FailuresAtTheBottom'
    BY DEF FailuresAtTheBottom, ReaderControl
<1>3. QED BY <1>1, <1>2 DEF ReaderControl, ReaderShape

(* A step of a query changes nothing for the migrator.                     *)
LEMMA MigratorKept ==
    ASSUME MigratorControl, migrator' = migrator, table' = table, neglected => neglected'
    PROVE  MigratorControl'
<1>1. \A w : Written(w) => Written(w)'
    BY DEF Written, IsLast
<1>2. Batches' = Batches
    BY DEF Batches
<1>3. QED BY <1>1, <1>2 DEF MigratorControl

(* What follows from nothing being changed.                                *)
LEMMA StoreStutters == StoreControl /\ UNCHANGED vars => StoreControl'
<1> SUFFICES ASSUME StoreControl, UNCHANGED vars PROVE StoreControl'
    OBVIOUS
<1> USE DEF vars, StoreControl
<1>1. MigratorControl'
    BY MigratorKept
<1>2. TableType'
    BY DEF TableType
<1>3. ReaderControl'
    <2>1. Settled' = Settled /\ AnswersAll' = AnswersAll /\ \A w : FoundUpTo(w)' = FoundUpTo(w)
        BY DEF Settled, AnswersAll, FoundUpTo
    <2>2. FailuresAtTheBottom'
        BY DEF FailuresAtTheBottom, ReaderControl
    <2>3. QED BY <2>1, <2>2 DEF ReaderControl, ReaderShape
<1>4. QED BY <1>1, <1>2, <1>3

-----------------------------------------------------------------------------
(* The steps of the migrator. *)

(* A migration starts with nothing written, and no query is ready.         *)
LEMMA StartMigrationKeeps ==
    ASSUME StoreControl, NEW file \in Files, StartMigration(file)
    PROVE  StoreControl'
<1> USE DEF StartMigration, StoreControl
<1>1. TableType' /\ neglected' \in BOOLEAN
    BY DEF TableType
<1>2. file \in Seq(OldEntity)
    BY FilesAssumption
<1>3. /\ migrator'.file = file /\ migrator'.pc \in {"write", "failed"}
      /\ migrator' = [pc |-> migrator'.pc, file |-> migrator'.file, batches |-> migrator'.batches]
      /\ migrator'.batches = ChunkSlice(Fixed(file), WriteBatch)
    OBVIOUS
<1>4. MigratorControl'
    <2>1. Batches' = migrator'.batches
        BY <1>3 DEF Batches
    <2>2. Batches' \in Seq(Seq(Item))
        BY <1>2, <1>3, <2>1, FixedFile, ChunkSliceReturns, BatchAssumption
    <2>3. 0 \in 0 .. Len(Batches') /\ Rest(Batches', 0) = Batches'
        <3>1. \A s \in Seq(Seq(Item)) : 0 \in 0 .. Len(s)
            OBVIOUS
        <3>2. 0 \in 0 .. Len(Batches')
            BY <2>2, <3>1
        <3>3. QED BY <2>2, <3>2, RestOf
    <2>4. ChunkEnd(Len(migrator'.file), WriteBatch, 0) = 0
        BY <1>2, <1>3, FixedFile, ChunkEnds, BatchAssumption
    <2>5. Written(0)'
        BY DEF Written
    <2>6. QED BY <1>2, <1>3, <2>1, <2>3, <2>4, <2>5 DEF MigratorControl
<1>5. ReaderControl'
    <2>1. ReaderShape(reader)
        BY DEF ReaderControl
    <2>2. reader' = [pc |-> reader.pc, ids |-> reader.ids, batches |-> reader.batches,
                     entities |-> reader.entities, answer |-> reader.answer,
                     scores |-> reader.scores, ready |-> FALSE]
        BY <2>1 DEF ReaderShape
    <2>3. Settled' = FALSE
        BY <2>2 DEF Settled
    <2>4. FailuresAtTheBottom'
        BY <2>2 DEF FailuresAtTheBottom, ReaderControl
    <2>5. QED BY <2>2, <2>3, <2>4 DEF ReaderControl, ReaderShape
<1>6. QED BY <1>1, <1>4, <1>5

(* A migration that has failed promises nothing.                           *)
LEMMA WriteFailsKeeps ==
    ASSUME StoreControl, WriteFails
    PROVE  StoreControl'
<1> USE DEF WriteFails, StoreControl
<1>1. TableType'
    BY DEF TableType
<1>2. MigratorControl'
    BY DEF MigratorControl
<1>3. ~reader.ready
    BY DEF ReaderControl
<1>4. ReaderControl'
    BY <1>3, ReaderKept
<1>5. QED BY <1>1, <1>2, <1>4

(* When no batch is left, the whole file has been written.                 *)
LEMMA EndMigrationKeeps ==
    ASSUME StoreControl, EndMigration
    PROVE  StoreControl'
<1> USE DEF EndMigration, StoreControl
<1>1. TableType'
    BY DEF TableType
<1>2. ~reader.ready
    BY DEF ReaderControl
<1>3. ReaderControl'
    BY <1>2, ReaderKept
<1>4. PICK j \in 0 .. Len(Batches) :
          /\ migrator.batches = Rest(Batches, j)
          /\ ~neglected => Written(ChunkEnd(Len(migrator.file), WriteBatch, j))
    BY DEF MigratorControl
<1>5. migrator.file \in Seq(OldEntity)
    BY DEF MigratorControl
<1>6. Batches \in Seq(Seq(Item)) /\ ChunksOf(Fixed(migrator.file), WriteBatch, Batches)
    BY <1>5, BatchesAreChunks
<1>7. j = Len(Batches)
    <2>1. Len(Batches) \in Nat
        BY <1>6 DEF ChunksOf
    <2>2. ~(j < Len(Batches))
        BY <1>4, <1>6, RestOf
    <2>3. QED BY <2>1, <2>2
<1>8. ChunkEnd(Len(migrator.file), WriteBatch, j) = Len(migrator.file)
    BY <1>5, <1>6, <1>7, FixedFile DEF ChunksOf
<1>9. ~neglected => Written(Len(migrator.file))'
    BY <1>4, <1>8 DEF Written, IsLast, MigratorControl
<1>10. migrator' = [pc |-> "ended", file |-> migrator.file, batches |-> migrator.batches]
    BY DEF MigratorControl
<1>11. MigratorControl'
    BY <1>5, <1>9, <1>10 DEF MigratorControl
<1>12. QED BY <1>1, <1>3, <1>11

(* With the next batch of a file, if the store takes all of it, more of    *)
(* the file is in the table: the batch has no id twice, and so its items   *)
(* are the last of their ids so far.                                       *)
LEMMA WrittenGrows ==
    ASSUME NEW from \in Nat, NEW to \in Nat, from <= to, NEW batch,
           migrator.file \in Seq(OldEntity), to <= Len(migrator.file),
           migrator'.file = migrator.file,
           DOMAIN batch = 1 .. to - from, Distinct(batch),
           \A i \in 1 .. to - from : batch[i] = Fixed(migrator.file)[from + i],
           Written(from), table' = Put(table, batch)
    PROVE  Written(to)'
<1> DEFINE id(m) == migrator.file[m].id
<1>1. \A i \in 1 .. to - from : from + i \in 1 .. to /\ from + i \in 1 .. Len(migrator.file)
    <2>1. Len(migrator.file) \in Nat
        BY FixedFile
    <2>2. QED BY <2>1
<1>2. \A i \in 1 .. to - from : batch[i].id = id(from + i)
    BY <1>1, FixedFile
<1>3. DOMAIN batch \subseteq Int
    OBVIOUS
<1>4. /\ DOMAIN table' = DOMAIN table \cup {batch[k].id : k \in DOMAIN batch}
      /\ \A k \in DOMAIN batch : table'[batch[k].id] = batch[k]
      /\ \A d \in DOMAIN table : (\A k \in DOMAIN batch : batch[k].id # d) => table'[d] = table[d]
    <2>1. PICK map : map = table
        OBVIOUS
    <2>2. /\ DOMAIN Put(map, batch) = DOMAIN map \cup {batch[k].id : k \in DOMAIN batch}
          /\ \A k \in DOMAIN batch : Put(map, batch)[batch[k].id] = batch[k]
          /\ \A d \in DOMAIN map :
                (\A k \in DOMAIN batch : batch[k].id # d) => Put(map, batch)[d] = map[d]
        BY <1>3, PutReturns, Zenon
    <2>3. QED BY <2>1, <2>2
<1>5. \A n \in 1 .. to : ~(n \in 1 .. from) => n - from \in 1 .. to - from /\ from + (n - from) = n
    OBVIOUS
<1>6. ASSUME NEW m \in 1 .. to
      PROVE  \E k \in 1 .. to : /\ IsLast(k, id(m), to)
                                /\ id(m) \in DOMAIN table'
                                /\ table'[id(m)] = Fixed(migrator.file)[k]
    <2>1. CASE \E i \in 1 .. to - from : batch[i].id = id(m)
        <3>1. PICK i \in 1 .. to - from : batch[i].id = id(m)
            BY <2>1
        <3>2. ASSUME NEW n \in 1 .. to, id(n) = id(m) PROVE n <= from + i
            <4>1. CASE n \in 1 .. from
                BY <4>1
            <4>2. CASE ~(n \in 1 .. from)
                <5>1. PICK d : d = n - from
                    OBVIOUS
                <5>2. d \in 1 .. to - from /\ from + d = n
                    BY <1>5, <4>2, <5>1
                <5>3. batch[d].id = id(m)
                    BY <1>2, <3>2, <5>2
                <5>4. d = i
                    BY <3>1, <5>2, <5>3 DEF Distinct
                <5>5. QED BY <5>2, <5>4
            <4>3. QED BY <4>1, <4>2
        <3>3. IsLast(from + i, id(m), to)
            BY <1>1, <1>2, <3>1, <3>2 DEF IsLast
        <3>4. id(m) \in DOMAIN table' /\ table'[id(m)] = Fixed(migrator.file)[from + i]
            BY <1>4, <3>1
        <3>5. QED BY <1>1, <3>3, <3>4
    <2>2. CASE ~ \E i \in 1 .. to - from : batch[i].id = id(m)
        <3>1. \A n \in 1 .. to : id(n) = id(m) => n \in 1 .. from
            BY <1>2, <1>5, <2>2
        <3>2. m \in 1 .. from
            BY <3>1
        <3>3. PICK k \in 1 .. from : /\ IsLast(k, id(m), from)
                                     /\ id(m) \in DOMAIN table
                                     /\ table[id(m)] = Fixed(migrator.file)[k]
            BY <3>2 DEF Written
        <3>4. k \in 1 .. to
            OBVIOUS
        <3>5. IsLast(k, id(m), to)
            BY <3>1, <3>3, <3>4 DEF IsLast
        <3>6. id(m) \in DOMAIN table' /\ table'[id(m)] = table[id(m)]
            BY <1>4, <2>2, <3>3
        <3>7. QED BY <3>3, <3>4, <3>5, <3>6
    <2>3. QED BY <2>1, <2>2
<1>7. QED BY <1>6 DEF Written, IsLast

(* A batch adds its items to the table, all of them new, and brings the    *)
(* migration one chunk further.                                            *)
LEMMA WriteNextBatchKeeps ==
    ASSUME StoreControl, WriteNextBatch
    PROVE  StoreControl'
<1>1. PICK file, L : file = migrator.file /\ L = Len(file)
    OBVIOUS
<1>2. file \in Seq(OldEntity) /\ L \in Nat
    BY <1>1 DEF StoreControl, MigratorControl
<1>3. PICK j \in 0 .. Len(Batches) :
          /\ migrator.batches = Rest(Batches, j)
          /\ ~neglected => Written(ChunkEnd(L, WriteBatch, j))
    BY <1>1 DEF StoreControl, MigratorControl, WriteNextBatch
<1>4. Batches \in Seq(Seq(Item)) /\ ChunksOf(Fixed(file), WriteBatch, Batches)
    BY <1>1, <1>2, BatchesAreChunks
<1>5. Len(Batches) \in Nat
    BY <1>4 DEF ChunksOf
<1>6. /\ j < Len(Batches) /\ Head(migrator.batches) = Batches[j + 1]
      /\ Tail(migrator.batches) = Rest(Batches, j + 1)
    BY <1>3, <1>4, RestOf DEF WriteNextBatch
<1>7. PICK batch, from, to : /\ batch = Batches[j + 1]
                             /\ from = ChunkEnd(L, WriteBatch, j)
                             /\ to = ChunkEnd(L, WriteBatch, j + 1)
    OBVIOUS
<1>8. j \in Nat /\ j + 1 \in 1 .. Len(Batches) /\ (j + 1) - 1 = j
    BY <1>5, <1>6
<1>9. from \in Nat /\ to \in Nat /\ from <= to /\ to <= L
    BY <1>2, <1>7, <1>8, ChunkEnds, BatchAssumption
<1>10. /\ DOMAIN batch = 1 .. to - from
       /\ \A i \in 1 .. to - from : batch[i] = Fixed(file)[from + i]
    BY <1>1, <1>2, <1>4, <1>7, <1>8, FixedFile DEF ChunksOf
<1>11. \A i \in DOMAIN batch : NewItem(batch[i])
    <2>1. \A i \in 1 .. to - from : from + i \in 1 .. L
        BY <1>2, <1>9
    <2>2. QED BY <1>1, <1>2, <1>10, <2>1, FixedFile
<1>12. PICK lost \in SUBSET DOMAIN batch :
           /\ table' = Put(table, [k \in DOMAIN batch \ lost |-> batch[k]])
           /\ neglected' = (neglected \/ lost # {})
    BY <1>6, <1>7 DEF WriteNextBatch
<1>13. Distinct(batch)
    <2>1. ~HasTwice([k \in DOMAIN batch |-> batch[k].id])
        BY <1>6, <1>7 DEF WriteNextBatch
    <2>2. QED BY <2>1 DEF HasTwice, Distinct
<1>14. PICK list : list = [k \in DOMAIN batch \ lost |-> batch[k]]
    OBVIOUS
<1>15. /\ DOMAIN list = DOMAIN batch \ lost /\ Distinct(list) /\ DOMAIN list \subseteq Int
       /\ \A k \in DOMAIN list : NewItem(list[k])
    BY <1>10, <1>11, <1>13, <1>14 DEF Distinct
<1>16. /\ DOMAIN table' = DOMAIN table \cup {list[k].id : k \in DOMAIN list}
       /\ \A k \in DOMAIN list : table'[list[k].id] = list[k]
       /\ \A id \in DOMAIN table :
             (\A k \in DOMAIN list : list[k].id # id) => table'[id] = table[id]
    <2>1. PICK map : map = table
        OBVIOUS
    <2>2. /\ DOMAIN Put(map, list) = DOMAIN map \cup {list[k].id : k \in DOMAIN list}
          /\ \A k \in DOMAIN list : Put(map, list)[list[k].id] = list[k]
          /\ \A id \in DOMAIN map :
                (\A k \in DOMAIN list : list[k].id # id) => Put(map, list)[id] = map[id]
        BY <1>15, PutReturns, Zenon
    <2>3. QED BY <1>12, <1>14, <2>1, <2>2
<1>17. TableType'
    <2>1. \A item : NewItem(item) => TableItem(item)
        BY DEF NewItem, TableItem
    <2>2. ASSUME NEW id \in DOMAIN table' PROVE TableItem(table'[id]) /\ table'[id].id = id
        <3>1. CASE \E k \in DOMAIN list : list[k].id = id
            BY <1>15, <1>16, <2>1, <3>1
        <3>2. CASE ~ \E k \in DOMAIN list : list[k].id = id
            BY <1>16, <2>2, <3>2 DEF StoreControl, TableType
        <3>3. QED BY <3>1, <3>2
    <2>3. QED BY <2>2 DEF TableType, TableItem
<1>18. neglected' \in BOOLEAN
    BY <1>12, Zenon DEF StoreControl
<1>19. migrator' = [pc |-> "write", file |-> file, batches |-> Rest(Batches, j + 1)]
    <2>1. migrator = [pc |-> migrator.pc, file |-> migrator.file, batches |-> migrator.batches]
        BY DEF StoreControl, MigratorControl
    <2>2. QED BY <1>1, <1>6, <2>1 DEF WriteNextBatch
<1>20. ASSUME ~neglected' PROVE Written(to)'
    <2>1. ~neglected /\ lost = {}
        BY <1>12, <1>20, Zenon
    <2>2. DOMAIN batch \ {} = DOMAIN batch /\ batch = [k \in DOMAIN batch |-> batch[k]]
        <3>1. batch \in Seq(Item)
            BY <1>4, <1>7, <1>8
        <3>2. QED BY <3>1
    <2>3. list = batch
        BY <1>14, <2>1, <2>2
    <2>4. Written(from)
        BY <1>3, <1>7, <2>1
    <2>5. table' = Put(table, batch)
        BY <1>12, <1>14, <2>3
    <2>6. migrator'.file = migrator.file
        BY <1>1, <1>19
    <2>7. QED BY <1>1, <1>2, <1>9, <1>10, <1>13, <2>4, <2>5, <2>6, WrittenGrows
<1>21. MigratorControl'
    <2>1. Batches' = Batches
        BY <1>1, <1>19 DEF Batches
    <2>2. j + 1 \in 0 .. Len(Batches)
        BY <1>5, <1>6
    <2>3. QED BY <1>1, <1>2, <1>7, <1>19, <1>20, <2>1, <2>2 DEF MigratorControl
<1>22. ReaderControl'
    <2>1. ~reader.ready
        BY DEF StoreControl, ReaderControl, WriteNextBatch
    <2>2. QED BY <2>1, ReaderKept DEF StoreControl, WriteNextBatch
<1>23. QED BY <1>17, <1>18, <1>21, <1>22 DEF StoreControl

-----------------------------------------------------------------------------
(* The steps of a query. *)

(* A query starts with all its requests and nothing found.                 *)
LEMMA AskKeeps ==
    ASSUME StoreControl, NEW ids \in Asked, Ask(ids)
    PROVE  StoreControl'
<1> USE DEF StoreControl
<1>1. TableType' /\ neglected' \in BOOLEAN
    BY DEF Ask, TableType
<1>2. MigratorControl'
    BY MigratorKept DEF Ask
<1>3. ids \in Seq(Ids)
    BY AskedAssumption
<1>4. reader' = [pc |-> "get", ids |-> ids, batches |-> Requests(ids), entities |-> <<>>,
                 answer |-> <<>>, scores |-> <<>>, ready |-> (migrator.pc = "ended")]
    BY DEF Ask, ReaderControl, ReaderShape, Requests
<1>5. ReaderControl'
    <2>1. ReaderShape(reader)'
        BY <1>4 DEF ReaderShape
    <2>2. IsFiniteSet(DOMAIN reader'.entities) /\ DOMAIN reader'.entities = {}
        BY <1>4, Nothing, FS_EmptySet
    <2>3. Requests(ids) \in Seq(Seq(Ids)) /\ ChunksOf(ids, ReadBatch, Requests(ids))
        BY <1>3, RequestsAreChunks
    <2>4. 0 \in 0 .. Len(Requests(ids))
        BY <2>3 DEF ChunksOf
    <2>5. Rest(Requests(ids), 0) = Requests(ids)
        BY <2>3, <2>4, RestOf
    <2>6. ChunkEnd(Len(ids), ReadBatch, 0) = 0
        <3>1. Len(ids) \in Nat
            BY <1>3
        <3>2. QED BY <3>1, ChunkEnds, BatchAssumption
    <2>7. FoundUpTo(0)'
        BY DEF FoundUpTo
    <2>8. FailuresAtTheBottom'
        BY <1>4 DEF FailuresAtTheBottom
    <2>9. Requests(reader'.ids) = Requests(ids) /\ Requests(reader.ids)' = Requests(reader'.ids)
          /\ Len(reader.ids)' = Len(ids)
        BY <1>4 DEF Requests
    <2>10. reader'.pc = "get" => \E j \in 0 .. Len(Requests(reader.ids))' :
               /\ reader'.batches = Rest(Requests(reader.ids), j)'
               /\ Settled' => FoundUpTo(ChunkEnd(Len(reader.ids), ReadBatch, j))'
        <3>1. /\ 0 \in 0 .. Len(Requests(reader.ids))'
              /\ reader'.batches = Rest(Requests(reader.ids), 0)'
            BY <1>4, <2>4, <2>5, <2>9
        <3>2. FoundUpTo(ChunkEnd(Len(reader.ids), ReadBatch, 0))'
            BY <1>4, <2>6, <2>7 DEF FoundUpTo
        <3>3. QED BY <3>1, <3>2, Zenon
    <2>11. reader'.ready \in BOOLEAN /\ (reader'.ready => migrator'.pc = "ended")
        BY <1>4 DEF Ask
    <2>12. QED BY <1>3, <1>4, <2>1, <2>2, <2>8, <2>10, <2>11 DEF ReaderControl
<1>6. QED BY <1>1, <1>2, <1>5

(* A query that fails answers nothing.                                     *)
LEMMA ReadFailsKeeps ==
    ASSUME StoreControl, ReadFails
    PROVE  StoreControl'
<1> USE DEF ReadFails, StoreControl
<1>1. TableType'
    BY DEF TableType
<1>2. MigratorControl'
    BY MigratorKept
<1>3. reader' = [pc |-> "failed", ids |-> reader.ids, batches |-> <<>>, entities |-> <<>>,
                 answer |-> reader.answer, scores |-> reader.scores, ready |-> reader.ready]
    BY DEF ReaderControl, ReaderShape
<1>4. IsFiniteSet(DOMAIN reader'.entities) /\ DOMAIN reader'.entities = {}
    BY <1>3, Nothing, FS_EmptySet
<1>5. FailuresAtTheBottom'
    BY <1>3 DEF FailuresAtTheBottom
<1>6. ReaderControl'
    BY <1>3, <1>4, <1>5 DEF ReaderControl, ReaderShape
<1>7. QED BY <1>1, <1>2, <1>6

(* The ids of finitely many items are finitely many.                       *)
LEMMA FiniteIds ==
    ASSUME NEW list, IsFiniteSet(DOMAIN list)
    PROVE  IsFiniteSet({list[k].id : k \in DOMAIN list})
<1>1. PICK ids : ids = {list[k].id : k \in DOMAIN list}
    OBVIOUS
<1>2. PICK f : f = [k \in DOMAIN list |-> list[k].id]
    OBVIOUS
<1>3. f \in Surjection(DOMAIN list, ids)
    BY <1>1, <1>2 DEF Surjection
<1>4. QED BY <1>1, <1>3, FS_Surjection

(* What a query has found with the next request: nothing of the old        *)
(* format, and all that is there if it was not left out.                   *)
LEMMA GetNextBatchKeeps ==
    ASSUME StoreControl, GetNextBatch
    PROVE  StoreControl'
<1>1. PICK ids, L : ids = reader.ids /\ L = Len(ids)
    OBVIOUS
<1>2. ids \in Seq(Ids) /\ L \in Nat /\ DOMAIN ids = 1 .. L
    BY <1>1 DEF StoreControl, ReaderControl
<1>3. PICK j \in 0 .. Len(Requests(ids)) :
          /\ reader.batches = Rest(Requests(ids), j)
          /\ Settled => FoundUpTo(ChunkEnd(L, ReadBatch, j))
    BY <1>1 DEF StoreControl, ReaderControl, GetNextBatch
<1>4. Requests(ids) \in Seq(Seq(Ids)) /\ ChunksOf(ids, ReadBatch, Requests(ids))
    BY <1>2, RequestsAreChunks
<1>5. Len(Requests(ids)) \in Nat
    BY <1>4 DEF ChunksOf
<1>6. /\ j < Len(Requests(ids)) /\ Head(reader.batches) = Requests(ids)[j + 1]
      /\ Tail(reader.batches) = Rest(Requests(ids), j + 1)
    BY <1>3, <1>4, RestOf DEF GetNextBatch
<1>7. PICK batch, from, to : /\ batch = Requests(ids)[j + 1]
                             /\ from = ChunkEnd(L, ReadBatch, j)
                             /\ to = ChunkEnd(L, ReadBatch, j + 1)
    OBVIOUS
<1>8. j \in Nat /\ j + 1 \in 1 .. Len(Requests(ids)) /\ (j + 1) - 1 = j
    BY <1>5, <1>6
<1>9. from \in Nat /\ to \in Nat /\ from <= to /\ to <= L
    BY <1>2, <1>7, <1>8, ChunkEnds, BatchAssumption
<1>10. /\ DOMAIN batch = 1 .. to - from
       /\ \A i \in 1 .. to - from : batch[i] = ids[from + i]
    BY <1>1, <1>4, <1>7, <1>8 DEF ChunksOf
<1>11. PICK there : there = {k \in DOMAIN batch : batch[k] \in DOMAIN table}
    OBVIOUS
<1>12. PICK lost \in SUBSET there :
           /\ reader' = [reader EXCEPT !.batches = Tail(@),
                  !.entities = IF \E i \in DOMAIN [k \in there \ lost |-> table[batch[k]]] :
                                         [k \in there \ lost |-> table[batch[k]]][i].old
                               THEN @ ELSE Put(@, [k \in there \ lost |-> table[batch[k]]])]
           /\ neglected' = (neglected \/ lost # {})
    <2> DEFINE head == Head(reader.batches)
               inTable == {k \in DOMAIN head : head[k] \in DOMAIN table}
               got(lost) == [k \in inTable \ lost |-> table[head[k]]]
    <2>1. \E lost \in SUBSET inTable :
             /\ reader' = [reader EXCEPT !.batches = Tail(@),
                    !.entities = IF \E i \in DOMAIN got(lost) : got(lost)[i].old
                                 THEN @ ELSE Put(@, got(lost))]
             /\ neglected' = (neglected \/ lost # {})
        BY DEF GetNextBatch
    <2>2. head = batch
        BY <1>6, <1>7
    <2>3. inTable = there
        BY <1>11, <2>2
    <2>4. ASSUME NEW lost PROVE got(lost) = [k \in there \ lost |-> table[batch[k]]]
        BY <2>2, <2>3
    <2> HIDE DEF head, inTable, got
    <2>5. QED BY <2>1, <2>3, <2>4
<1>13. PICK items, entities : /\ items = [k \in there \ lost |-> table[batch[k]]]
                              /\ entities = reader.entities
    OBVIOUS
<1>14. PICK found : found = IF \E k \in DOMAIN items : items[k].old THEN entities
                            ELSE Put(entities, items)
    OBVIOUS
<1>15. reader' = [pc |-> "get", ids |-> ids, batches |-> Rest(Requests(ids), j + 1),
                  entities |-> found, answer |-> reader.answer, scores |-> reader.scores,
                  ready |-> reader.ready]
    <2>1. ReaderShape(reader) /\ reader.pc = "get"
        BY DEF StoreControl, ReaderControl, GetNextBatch
    <2>2. QED BY <1>1, <1>6, <1>12, <1>13, <1>14, <2>1 DEF ReaderShape
<1>16. ~HasTwice(batch)
    BY <1>6, <1>7 DEF GetNextBatch
<1>17. /\ DOMAIN items = there \ lost /\ there \subseteq 1 .. to - from
       /\ \A k \in DOMAIN items : items[k].id = batch[k] /\ items[k] = table[batch[k]]
    BY <1>10, <1>11, <1>13 DEF StoreControl, TableType
<1>18. Distinct(items) /\ DOMAIN items \subseteq Int
    BY <1>10, <1>16, <1>17 DEF Distinct, HasTwice
<1>19. /\ DOMAIN Put(entities, items) = DOMAIN entities \cup {items[k].id : k \in DOMAIN items}
       /\ \A k \in DOMAIN items : Put(entities, items)[items[k].id] = items[k]
       /\ \A id \in DOMAIN entities :
             (\A k \in DOMAIN items : items[k].id # id) => Put(entities, items)[id] = entities[id]
    BY <1>18, PutReturns, Zenon
<1>20. IsFiniteSet(DOMAIN found)
    <2>1. IsFiniteSet(1 .. to - from)
        <3>1. 1 \in Int /\ to - from \in Int
            BY <1>9
        <3>2. QED BY <3>1, FS_Interval
    <2>2. IsFiniteSet(DOMAIN items)
        <3>1. DOMAIN items \in SUBSET (1 .. to - from)
            BY <1>17
        <3>2. QED BY <2>1, <3>1, FS_Subset
    <2>3. IsFiniteSet({items[k].id : k \in DOMAIN items})
        BY <2>2, FiniteIds
    <2>4. IsFiniteSet(DOMAIN entities)
        BY <1>13 DEF StoreControl, ReaderControl
    <2>5. IsFiniteSet(DOMAIN entities \cup {items[k].id : k \in DOMAIN items})
        BY <2>3, <2>4, FS_Union
    <2>6. QED BY <1>14, <1>19, <2>4, <2>5
<1>21. ASSUME NEW id \in DOMAIN found PROVE found[id].id = id /\ ~found[id].old
    <2>1. id \in DOMAIN entities => entities[id].id = id /\ ~entities[id].old
        BY <1>13 DEF StoreControl, ReaderControl
    <2>2. CASE \E k \in DOMAIN items : items[k].old
        BY <1>14, <1>21, <2>1, <2>2
    <2>3. CASE ~ \E k \in DOMAIN items : items[k].old
        <3>1. found = Put(entities, items)
            BY <1>14, <2>3
        <3>2. CASE \E k \in DOMAIN items : items[k].id = id
            BY <1>19, <2>3, <3>1, <3>2
        <3>3. CASE ~ \E k \in DOMAIN items : items[k].id = id
            BY <1>19, <1>21, <2>1, <3>1, <3>3
        <3>4. QED BY <3>2, <3>3
    <2>4. QED BY <2>2, <2>3
<1>22. UNCHANGED <<table, migrator>>
    BY DEF GetNextBatch
<1>23. ASSUME Settled' PROVE FoundUpTo(to)'
    <2>1. neglected' = FALSE /\ reader.ready /\ \A id \in DOMAIN table : ~table[id].old
        BY <1>15, <1>22, <1>23 DEF Settled
    <2>2. neglected = FALSE /\ lost = {}
        BY <1>12, <2>1, Zenon DEF StoreControl
    <2>3. FoundUpTo(from)
        BY <1>3, <1>7, <2>1, <2>2 DEF Settled
    <2>4. ~ \E k \in DOMAIN items : items[k].old
        BY <1>11, <1>17, <2>1
    <2>5. found = Put(entities, items) /\ DOMAIN items = there
        BY <1>14, <1>17, <2>2, <2>4
    <2>6. ASSUME NEW k \in 1 .. to, ids[k] \in DOMAIN table PROVE ids[k] \in DOMAIN found
        <3>1. CASE k \in 1 .. from
            BY <1>1, <1>13, <1>19, <2>3, <2>5, <2>6, <3>1 DEF FoundUpTo
        <3>2. CASE ~(k \in 1 .. from)
            <4>1. PICK i : i = k - from
                OBVIOUS
            <4>2. i \in 1 .. to - from /\ from + i = k
                BY <1>9, <3>2, <4>1
            <4>3. batch[i] = ids[k]
                BY <1>10, <4>2
            <4>4. i \in DOMAIN items
                BY <1>10, <1>11, <2>5, <2>6, <4>2, <4>3
            <4>5. items[i].id = ids[k]
                BY <1>17, <4>3, <4>4
            <4>6. QED BY <1>19, <2>5, <4>4, <4>5
        <3>3. QED BY <3>1, <3>2
    <2>7. QED BY <1>15, <1>22, <2>6 DEF FoundUpTo
<1>24. ReaderControl'
    <2>1. ReaderShape(reader)'
        BY <1>15 DEF ReaderShape
    <2>2. FailuresAtTheBottom'
        BY <1>15 DEF FailuresAtTheBottom
    <2>3. Requests(reader.ids)' = Requests(ids) /\ Len(reader.ids)' = L
        BY <1>1, <1>15 DEF Requests
    <2>4. j + 1 \in 0 .. Len(Requests(ids))
        BY <1>5, <1>6
    <2>5. reader'.pc = "get" => \E n \in 0 .. Len(Requests(reader.ids))' :
              /\ reader'.batches = Rest(Requests(reader.ids), n)'
              /\ Settled' => FoundUpTo(ChunkEnd(Len(reader.ids), ReadBatch, n))'
        BY <1>7, <1>15, <1>23, <2>3, <2>4
    <2>6. reader'.ready \in BOOLEAN /\ (reader'.ready => migrator'.pc = "ended")
        BY <1>15, <1>22 DEF StoreControl, ReaderControl
    <2>7. \A id \in DOMAIN reader'.entities :
              reader'.entities[id].id = id /\ ~reader'.entities[id].old
        BY <1>15, <1>21
    <2>8. QED BY <1>2, <1>15, <1>20, <2>1, <2>2, <2>5, <2>6, <2>7 DEF ReaderControl
<1>25. neglected' \in BOOLEAN /\ (neglected => neglected')
    BY <1>12, Zenon DEF StoreControl
<1>26. TableType'
    BY <1>22 DEF TableType, StoreControl
<1>27. MigratorControl'
    BY <1>22, <1>25, MigratorKept DEF StoreControl
<1>28. QED BY <1>24, <1>25, <1>26, <1>27 DEF StoreControl

(* An order of n ids without repetition has all n of them.                 *)
LEMMA OrdersHaveAll ==
    ASSUME NEW S, IsFiniteSet(S), NEW order \in [1 .. Cardinality(S) -> S],
           \A i, k \in 1 .. Cardinality(S) : i < k => order[i] # order[k]
    PROVE  \A id \in S : \E m \in 1 .. Cardinality(S) : order[m] = id
<1>1. PICK n : n = Cardinality(S)
    OBVIOUS
<1>2. n \in Nat
    BY <1>1, FS_CardinalityType
<1>3. order \in Injection(1 .. n, S)
    <2>1. \A i, k \in 1 .. n : i < k \/ k < i \/ i = k
        BY <1>2
    <2>2. \A i, k \in 1 .. n : order[i] = order[k] => i = k
        BY <1>1, <2>1
    <2>3. QED BY <1>1, <2>2 DEF Injection, IsInjective
<1>4. Cardinality(1 .. n) = n
    <2>1. 1 \in Int /\ n \in Int /\ (IF 1 > n THEN 0 ELSE n - 1 + 1) = n
        BY <1>2
    <2>2. QED BY <2>1, FS_Interval
<1>5. order \in Surjection(1 .. n, S)
    BY <1>1, <1>3, <1>4, FS_Injection
<1>6. QED BY <1>1, <1>5 DEF Surjection

(* What the comparison says of two ids in an order that respects it.       *)
LEMMA Ordered ==
    ASSUME NEW left, NEW right, NEW score,
           score[left] = ScoreOf(left), score[right] = ScoreOf(right),
           Before(right, left, score) => Before(left, right, score)
    PROVE  /\ right \in Coverable => left \in Coverable
           /\ score[left] >= score[right]
<1>1. right \in Coverable => left \in Coverable
    BY DEF Before
<1>2. \A id : ScoreOf(id) \in Nat /\ (id \notin Coverable => ScoreOf(id) = 0)
    BY CoverageAssumption DEF ScoreOf
<1>3. CASE right \notin Coverable
    BY <1>2, <1>3
<1>4. CASE right \in Coverable
    <2>1. score[left] \in Nat /\ score[right] \in Nat
        BY <1>2
    <2>2. ASSUME ~(score[left] >= score[right]) PROVE FALSE
        <3>1. Before(right, left, score)
            BY <1>1, <1>4, <2>1, <2>2 DEF Before
        <3>2. ~Before(left, right, score)
            BY <1>4, <2>1, <2>2 DEF Before
        <3>3. QED BY <3>1, <3>2
    <2>3. QED BY <1>1, <2>2
<1>5. QED BY <1>1, <1>3, <1>4

(* The answer has everything that was found, once, in an order that the    *)
(* comparison allows; with no request left, all that is there was found.   *)
LEMMA SortByCoverageKeeps ==
    ASSUME StoreControl, SortByCoverage
    PROVE  StoreControl'
<1>1. PICK ids, L : ids = reader.ids /\ L = Len(ids)
    OBVIOUS
<1>2. ids \in Seq(Ids) /\ L \in Nat /\ DOMAIN ids = 1 .. L
    BY <1>1 DEF StoreControl, ReaderControl
<1>3. PICK j \in 0 .. Len(Requests(ids)) :
          /\ reader.batches = Rest(Requests(ids), j)
          /\ Settled => FoundUpTo(ChunkEnd(L, ReadBatch, j))
    BY <1>1 DEF StoreControl, ReaderControl, SortByCoverage
<1>4. Requests(ids) \in Seq(Seq(Ids)) /\ ChunksOf(ids, ReadBatch, Requests(ids))
    BY <1>2, RequestsAreChunks
<1>5. Settled => FoundUpTo(L)
    <2>1. Len(Requests(ids)) \in Nat
        BY <1>4 DEF ChunksOf
    <2>2. ~(j < Len(Requests(ids)))
        BY <1>3, <1>4, RestOf DEF SortByCoverage
    <2>3. j = Len(Requests(ids))
        BY <2>1, <2>2
    <2>4. ChunkEnd(L, ReadBatch, j) = L
        BY <1>1, <1>4, <2>3 DEF ChunksOf
    <2>5. QED BY <1>3, <2>4
<1>6. PICK found, score, n : /\ found = DOMAIN reader.entities
                             /\ score = [id \in found |-> ScoreOf(id)]
                             /\ n = Cardinality(found)
    OBVIOUS
<1>7. PICK order \in [1 .. n -> found] :
          /\ \A i, k \in DOMAIN order : i < k =>
                 /\ order[i] # order[k]
                 /\ Before(order[k], order[i], score) => Before(order[i], order[k], score)
          /\ reader' = [reader EXCEPT !.pc = "answered",
                            !.answer = [k \in DOMAIN order |-> reader.entities[order[k]]],
                            !.scores = [k \in DOMAIN order |-> score[order[k]]]]
    <2> DEFINE there == DOMAIN reader.entities
               scored == [id \in there |-> ScoreOf(id)]
    <2>1. \E order \in [1 .. Cardinality(there) -> there] :
              /\ \A i, k \in DOMAIN order : i < k =>
                     /\ order[i] # order[k]
                     /\ Before(order[k], order[i], scored) => Before(order[i], order[k], scored)
              /\ reader' = [reader EXCEPT !.pc = "answered",
                                !.answer = [k \in DOMAIN order |-> reader.entities[order[k]]],
                                !.scores = [k \in DOMAIN order |-> scored[order[k]]]]
        BY DEF SortByCoverage
    <2>2. there = found /\ scored = score /\ Cardinality(there) = n
        BY <1>6
    <2> HIDE DEF there, scored
    <2>3. PICK order \in [1 .. Cardinality(there) -> there] :
              /\ \A i, k \in DOMAIN order : i < k =>
                     /\ order[i] # order[k]
                     /\ Before(order[k], order[i], scored) => Before(order[i], order[k], scored)
              /\ reader' = [reader EXCEPT !.pc = "answered",
                                !.answer = [k \in DOMAIN order |-> reader.entities[order[k]]],
                                !.scores = [k \in DOMAIN order |-> scored[order[k]]]]
        BY <2>1
    <2>4. order \in [1 .. n -> found]
        BY <2>2
    <2>5. \A i, k \in DOMAIN order : i < k =>
             /\ order[i] # order[k]
             /\ Before(order[k], order[i], score) => Before(order[i], order[k], score)
        BY <2>2, <2>3
    <2>6. reader' = [reader EXCEPT !.pc = "answered",
                         !.answer = [k \in DOMAIN order |-> reader.entities[order[k]]],
                         !.scores = [k \in DOMAIN order |-> score[order[k]]]]
        BY <2>2, <2>3
    <2>7. QED BY <2>4, <2>5, <2>6
<1>8. PICK answer, scores : /\ answer = [k \in 1 .. n |-> reader.entities[order[k]]]
                            /\ scores = [k \in 1 .. n |-> score[order[k]]]
    OBVIOUS
<1>9. reader' = [pc |-> "answered", ids |-> ids, batches |-> reader.batches,
                 entities |-> reader.entities, answer |-> answer, scores |-> scores,
                 ready |-> reader.ready]
    <2>1. ReaderShape(reader)
        BY DEF StoreControl, ReaderControl
    <2>2. QED BY <1>1, <1>7, <1>8, <2>1 DEF ReaderShape
<1>10. n \in Nat /\ IsFiniteSet(found)
    BY <1>6, FS_CardinalityType DEF StoreControl, ReaderControl
<1>11. UNCHANGED <<table, neglected, migrator>>
    BY DEF SortByCoverage
<1>12. \A k \in 1 .. n : /\ order[k] \in found /\ answer[k] = reader.entities[order[k]]
                          /\ answer[k].id = order[k]
                          /\ scores[k] = score[order[k]] /\ score[order[k]] = ScoreOf(order[k])
    BY <1>6, <1>7, <1>8 DEF StoreControl, ReaderControl
<1>13. FailuresAtTheBottom'
    <2>1. ASSUME NEW i \in 1 .. n, NEW k \in 1 .. n, i < k
          PROVE  /\ answer[i].id # answer[k].id
                 /\ answer[k].id \in Coverable => answer[i].id \in Coverable
                 /\ scores[i] >= scores[k]
        <3>1. /\ order[i] # order[k]
              /\ Before(order[k], order[i], score) => Before(order[i], order[k], score)
            BY <1>7, <2>1
        <3>2. QED BY <1>12, <3>1, Ordered
    <2>2. DOMAIN answer = 1 .. n
        BY <1>8
    <2>3. QED BY <1>9, <2>1, <2>2 DEF FailuresAtTheBottom
<1>14. ASSUME Settled' PROVE AnswersAll'
    <2>1. FoundUpTo(L)
        BY <1>5, <1>9, <1>11, <1>14 DEF Settled
    <2>2. ASSUME NEW k \in DOMAIN ids, ids[k] \in DOMAIN table
          PROVE  \E m \in DOMAIN answer : answer[m].id = ids[k]
        <3>1. ids[k] \in found
            BY <1>1, <1>2, <1>6, <2>1, <2>2 DEF FoundUpTo
        <3>2. \A i, m \in 1 .. n : i < m => order[i] # order[m]
            BY <1>7
        <3>3. PICK m \in 1 .. n : order[m] = ids[k]
            BY <1>6, <1>10, <3>1, <3>2, OrdersHaveAll
        <3>4. QED BY <1>8, <1>12, <3>3
    <2>3. QED BY <1>9, <1>11, <2>2 DEF AnswersAll
<1>15. ReaderControl'
    <2>1. ReaderShape(reader)'
        BY <1>9 DEF ReaderShape
    <2>2. IsFiniteSet(DOMAIN reader'.entities)
        BY <1>6, <1>9, <1>10
    <2>3. \A id \in DOMAIN reader'.entities :
              reader'.entities[id].id = id /\ ~reader'.entities[id].old
        BY <1>9 DEF StoreControl, ReaderControl
    <2>4. reader'.ready \in BOOLEAN /\ (reader'.ready => migrator'.pc = "ended")
        BY <1>9, <1>11 DEF StoreControl, ReaderControl
    <2>5. QED BY <1>2, <1>9, <1>13, <1>14, <2>1, <2>2, <2>3, <2>4 DEF ReaderControl
<1>16. TableType' /\ neglected' \in BOOLEAN
    BY <1>11 DEF StoreControl, TableType
<1>17. MigratorControl'
    BY <1>11, MigratorKept DEF StoreControl
<1>18. QED BY <1>15, <1>16, <1>17 DEF StoreControl

-----------------------------------------------------------------------------
(* The theorems. *)

(* The inductive invariant holds in every reachable state.                 *)
LEMMA StoreInvariant == Spec => []StoreControl
<1>1. Init => StoreControl
    BY StoreInit
<1>2. StoreControl /\ [Next]_vars => StoreControl'
    <2> SUFFICES ASSUME StoreControl, [Next]_vars PROVE StoreControl'
        OBVIOUS
    <2>1. ASSUME NEW file \in Files, StartMigration(file) PROVE StoreControl'
        BY <2>1, StartMigrationKeeps
    <2>2. CASE WriteNextBatch
        BY <2>2, WriteNextBatchKeeps
    <2>3. CASE WriteFails
        BY <2>3, WriteFailsKeeps
    <2>4. CASE EndMigration
        BY <2>4, EndMigrationKeeps
    <2>5. ASSUME NEW ids \in Asked, Ask(ids) PROVE StoreControl'
        BY <2>5, AskKeeps
    <2>6. CASE GetNextBatch
        BY <2>6, GetNextBatchKeeps
    <2>7. CASE SortByCoverage
        BY <2>7, SortByCoverageKeeps
    <2>8. CASE ReadFails
        BY <2>8, ReadFailsKeeps
    <2>9. CASE UNCHANGED vars
        BY <2>9, StoreStutters
    <2>10. QED BY <2>1, <2>2, <2>3, <2>4, <2>5, <2>6, <2>7, <2>8, <2>9 DEF Next
<1>3. QED BY <1>1, <1>2, PTL DEF Spec

(* Types.  What a query has found is of the new format and under its own   *)
(* id: getRegexesByIdUncheckedSize puts nothing else in its list.          *)
THEOREM StoreTypeCorrect == Spec => []StoreTypeOK
<1>1. StoreControl => StoreTypeOK
    BY DEF StoreControl, StoreTypeOK, TableType, TableItem, MigratorControl, ReaderControl
<1>2. QED BY <1>1, StoreInvariant, PTL

(* However large the file and the batches are, and however often it had to *)
(* be run again, a migration that has ended has replaced every entity of   *)
(* its file by the last one with its id, unless the store left something   *)
(* unprocessed.                                                            *)
THEOREM EndedMigrationsAreWhole == Spec => []EndedMigrationIsWhole
<1>1. StoreControl => EndedMigrationIsWhole
    <2> SUFFICES ASSUME StoreControl, migrator.pc = "ended", ~neglected, NEW id \in InFile
                 PROVE  /\ id \in DOMAIN table /\ ~table[id].old
                        /\ table[id].features = LastInFile(id).features
        BY DEF EndedMigrationIsWhole
    <2>1. PICK file, n : file = migrator.file /\ n = Len(file)
        OBVIOUS
    <2>2. file \in Seq(OldEntity) /\ Written(n)
        BY <2>1 DEF StoreControl, MigratorControl
    <2>3. DOMAIN file = 1 .. n /\ n \in Nat
        BY <2>1, <2>2, FixedFile
    <2>4. PICK m \in 1 .. n : file[m].id = id
        BY <2>1, <2>3 DEF InFile
    <2>5. PICK k \in 1 .. n : /\ IsLast(k, id, n) /\ id \in DOMAIN table
                              /\ table[id] = Fixed(file)[k]
        BY <2>1, <2>2, <2>4 DEF Written
    <2>6. ~table[id].old /\ table[id].features = file[k].features
        BY <2>1, <2>2, <2>5, FixedFile DEF NewItem
    <2>7. LastInFile(id) = file[k]
        <3> DEFINE last(i) == /\ file[i].id = id
                              /\ \A p \in DOMAIN file : file[p].id = id => p <= i
        <3>1. last(k)
            BY <2>1, <2>3, <2>5 DEF IsLast
        <3>2. \A i \in 1 .. n : last(i) => i = k
            BY <2>3, <3>1
        <3>3. (CHOOSE i \in DOMAIN file : last(i)) = k
            <4> HIDE DEF last
            <4>1. QED BY <2>3, <3>1, <3>2
        <3>4. QED BY <2>1, <3>3 DEF LastInFile
    <2>8. QED BY <2>5, <2>6, <2>7
<1>2. QED BY <1>1, StoreInvariant, PTL

(* However many requests a query needs, if it is asked after a migration   *)
(* and answered before the next, it has every entity it asks for that the  *)
(* file has, unless the store left something unprocessed or has an item of *)
(* the old format.                                                         *)
THEOREM MigratedAreFound == Spec => []MigratedIsFound
<1>1. StoreControl => MigratedIsFound
    <2> SUFFICES ASSUME StoreControl, reader.pc = "answered", reader.ready, ~neglected,
                        \A id \in DOMAIN table : ~table[id].old,
                        NEW k \in DOMAIN reader.ids, reader.ids[k] \in InFile
                 PROVE  \E m \in DOMAIN reader.answer : reader.answer[m].id = reader.ids[k]
        BY DEF MigratedIsFound
    <2>1. AnswersAll
        BY DEF StoreControl, ReaderControl, Settled
    <2>2. migrator.file \in Seq(OldEntity) /\ Written(Len(migrator.file))
        BY DEF StoreControl, ReaderControl, MigratorControl
    <2>3. reader.ids[k] \in DOMAIN table
        BY <2>2, FixedFile DEF Written, InFile
    <2>4. QED BY <2>1, <2>3 DEF AnswersAll
<1>2. QED BY <1>1, StoreInvariant, PTL

(* Whatever scores the coverage service gives, no entity is answered       *)
(* twice, those it failed for are at the bottom, and the scores that go    *)
(* with the answer do not rise.                                            *)
THEOREM FailuresEndAtTheBottom == Spec => []FailuresAtTheBottom
<1>1. StoreControl => FailuresAtTheBottom
    BY DEF StoreControl, ReaderControl
<1>2. QED BY <1>1, StoreInvariant, PTL
=============================================================================
