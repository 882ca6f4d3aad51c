------------------------- MODULE StringTablesProofs -------------------------
(***************************************************************************)
(* Proofs about StringTables, for any corpora and machines with any number *)
(* of processors: what the chunks hold of a corpus, what is left of it     *)
(* when all tasks have been merged, and what the graph is made of.         *)
(***************************************************************************)
EXTENDS StringTables, FiniteSetTheorems, SequenceTheorems, TLAPS

Files == [complete : BOOLEAN, strings : SUBSET Patterns]

\* The strings that a task has made so far.
Made(k) == {chunks[k][i] : i \in 1 .. task[k].next - 1} \ RexFails

\* How far the tasks are, and what has been merged.
Generating ==
    /\ task \in [DOMAIN chunks -> [next : Nat, strings : SUBSET Patterns]]
    /\ \A k \in DOMAIN chunks :
          task[k].next \in 1 .. Len(chunks[k]) + 1 /\ task[k].strings = Made(k)
    /\ gathered \in 0 .. Len(chunks) /\ \A k \in 1 .. gathered : TaskEnded(k)
    /\ strings = UNION {task[k].strings : k \in 1 .. gathered}
    /\ pc = "write" => gathered = Len(chunks)

Known == (Reached \ RexFails) \ Refused

\* What the table has read, and the graph made of it.
Computing ==
    /\ scores \subseteq computed /\ computed \subseteq entities
    /\ pc \notin {"compute", "ended"} => entities = {}
    /\ pc \in {"compute", "ended"} => entities = Known
    /\ graph # NoFile => pc = "ended" /\ GraphOfTheCorpus

\* The inductive invariant.
TablesControl ==
    /\ pc \in {"generate", "write", "generated", "compute", "ended", "failed"}
    /\ input \in Seq(Patterns)
    /\ \E n \in Nat : chunks = Chunk(input, n) /\ (pc = "generate" => n = processors)
    /\ Generating
    /\ file # NoFile => file \in Files /\ (file.complete => file.strings = Reached \ RexFails)
    /\ Computing

-----------------------------------------------------------------------------
(* Chunks. *)

(* Division with remainder.                                                *)
LEMMA Division ==
    ASSUME NEW l \in Nat, NEW n \in Nat \ {0}
    PROVE  /\ l \div n \in Nat /\ l % n \in 0 .. n - 1
           /\ l = n * (l \div n) + (l % n)
<1>1. l \div n \in Nat /\ l % n \in 0 .. n - 1
    OBVIOUS
<1>2. l = n * (l \div n) + (l % n)
    BY Z3
<1>3. QED BY <1>1, <1>2

(* Where the j-th item of the k-th chunk is in the list.                   *)
LEMMA Position ==
    ASSUME NEW n \in Nat, NEW items \in Nat, NEW k \in 1 .. n, NEW j \in 1 .. items
    PROVE  (k - 1) * items + j \in 1 .. n * items
<1>1. PICK d \in Nat : n = (k - 1) + (1 + d)
    <2>1. n - k \in Nat /\ n = (k - 1) + (1 + (n - k))
        OBVIOUS
    <2>2. QED BY <2>1
<1>2. \A a, b, c \in Nat : (a + b) * c = a * c + b * c /\ a * c \in Nat
    OBVIOUS
<1>3. n * items = (k - 1) * items + (items + d * items)
    <2>1. k - 1 \in Nat /\ 1 + d \in Nat
        OBVIOUS
    <2>2. n * items = (k - 1) * items + (1 + d) * items
        BY <1>1, <1>2, <2>1
    <2>3. (1 + d) * items = 1 * items + d * items
        BY <1>2
    <2>4. QED BY <2>2, <2>3
<1>4. (k - 1) * items \in Nat /\ d * items \in Nat /\ n * items \in Nat
    BY <1>2
<1>5. QED BY <1>3, <1>4

(* Every position of the chunks is that of an item of one of them.         *)
LEMMA PositionsAreCovered ==
    ASSUME NEW n \in Nat, NEW items \in Nat, NEW i \in 1 .. n * items
    PROVE  \E k \in 1 .. n, j \in 1 .. items : i = (k - 1) * items + j
<1>1. n # 0 /\ items # 0
    <2>1. 0 * items = 0 /\ n * 0 = 0
        OBVIOUS
    <2>2. QED BY <2>1
<1>2. PICK q, r : q = (i - 1) \div items /\ r = (i - 1) % items
    OBVIOUS
<1>3. q \in Nat /\ r \in 0 .. items - 1 /\ i - 1 = items * q + r
    <2>1. i - 1 \in Nat /\ items \in Nat \ {0}
        BY <1>1
    <2>2. /\ (i - 1) \div items \in Nat /\ (i - 1) % items \in 0 .. items - 1
          /\ i - 1 = items * ((i - 1) \div items) + ((i - 1) % items)
        BY <2>1, Division
    <2>3. QED BY <1>2, <2>2
<1>4. q < n
    <2> SUFFICES ASSUME q >= n PROVE FALSE
        BY <1>3
    <2>1. PICK d \in Nat : q = n + d
        <3>1. q - n \in Nat /\ q = n + (q - n)
            BY <1>3
        <3>2. QED BY <3>1
    <2>2. items * q = n * items + items * d /\ items * d \in Nat
        BY <2>1
    <2>3. QED BY <1>3, <2>2
<1>5. q + 1 \in 1 .. n /\ r + 1 \in 1 .. items /\ ((q + 1) - 1) = q
    BY <1>3, <1>4
<1>6. i = ((q + 1) - 1) * items + (r + 1)
    <2>1. q * items = items * q
        BY <1>3
    <2>2. QED BY <1>3, <1>5, <2>1
<1>7. QED BY <1>5, <1>6

\* n chunks of the list, each of so many items.
ChunksOf(list, n, items, pieces) ==
    /\ pieces \in Seq(Seq(Patterns)) /\ Len(pieces) = n
    /\ \A k \in 1 .. n :
          /\ Len(pieces[k]) = items
          /\ \A j \in 1 .. items : pieces[k][j] = list[(k - 1) * items + j]

(* What chunk returns.                                                     *)
LEMMA ChunkReturns ==
    ASSUME NEW list \in Seq(Patterns), NEW n \in Nat \ {0}
    PROVE  ChunksOf(list, n, Len(list) \div n, Chunk(list, n))
<1>1. PICK items : items = Len(list) \div n
    OBVIOUS
<1>2. items \in Nat /\ n * items \in Nat /\ n * items <= Len(list)
    <2>1. PICK l : l = Len(list)
        OBVIOUS
    <2>2. l \in Nat
        BY <2>1
    <2>3. l \div n \in Nat /\ l % n \in Nat /\ l = n * (l \div n) + (l % n)
        BY <2>2, Division
    <2>4. items \in Nat /\ l % n \in Nat /\ l = n * items + (l % n)
        BY <1>1, <2>1, <2>3
    <2>5. n * items \in Nat
        BY <2>4
    <2>6. QED BY <2>1, <2>4, <2>5
<1>3. CASE n = 1
    <2>1. Chunk(list, n) = <<list>>
        BY <1>3 DEF Chunk
    <2>2. items = Len(list)
        BY <1>1, <1>3
    <2>3. <<list>> \in Seq(Seq(Patterns)) /\ Len(<<list>>) = 1 /\ <<list>>[1] = list
        OBVIOUS
    <2>4. \A j \in 1 .. items : (1 - 1) * items + j = j
        BY <1>2
    <2>5. ChunksOf(list, 1, items, <<list>>)
        <3>1. \A k \in 1 .. 1 : k = 1
            OBVIOUS
        <3>2. QED BY <2>2, <2>3, <2>4, <3>1 DEF ChunksOf
    <2>6. QED BY <1>1, <1>3, <2>1, <2>5
<1>4. CASE n # 1
    <2>1. Chunk(list, n) = [k \in 1 .. n |-> SubSeq(list, (k - 1) * items + 1, k * items)]
        BY <1>1, <1>4 DEF Chunk
    <2>2. ASSUME NEW k \in 1 .. n
          PROVE  /\ SubSeq(list, (k - 1) * items + 1, k * items) \in Seq(Patterns)
                 /\ Len(SubSeq(list, (k - 1) * items + 1, k * items)) = items
                 /\ \A j \in 1 .. items :
                       SubSeq(list, (k - 1) * items + 1, k * items)[j] = list[(k - 1) * items + j]
        <3>1. k \in Nat /\ k - 1 \in Nat /\ k = (k - 1) + 1
            OBVIOUS
        <3>2. PICK from, to : from = (k - 1) * items + 1 /\ to = k * items
            OBVIOUS
        <3>3. /\ from \in Nat /\ to \in Nat /\ from >= 1 /\ to = (from - 1) + items
            BY <1>2, <3>1, <3>2
        <3>4. to <= Len(list)
            <4>1. CASE items = 0
                BY <1>2, <3>2, <4>1
            <4>2. CASE items # 0
                <5>1. (k - 1) * items + items \in 1 .. n * items
                    BY <1>2, <4>2, Position
                <5>2. QED BY <1>2, <3>2, <3>3, <5>1
            <4>3. QED BY <4>1, <4>2
        <3>5. /\ SubSeq(list, from, to) \in Seq(Patterns) /\ Len(SubSeq(list, from, to)) = items
              /\ \A j \in 1 .. items : SubSeq(list, from, to)[j] = list[from + j - 1]
            <4>1. /\ SubSeq(list, from, to) \in Seq(Patterns)
                  /\ Len(SubSeq(list, from, to)) = IF from <= to THEN to - from + 1 ELSE 0
                  /\ \A j \in 1 .. to - from + 1 : SubSeq(list, from, to)[j] = list[from + j - 1]
                BY <1>2, <3>3, <3>4, SubSeqProperties
            <4>2. to - from + 1 = items
                BY <1>2, <3>3
            <4>3. QED BY <1>2, <3>3, <4>1, <4>2
        <3>6. \A j \in 1 .. items : from + j - 1 = (k - 1) * items + j
            BY <1>2, <3>2, <3>3
        <3>7. QED BY <3>2, <3>5, <3>6
    <2>3. PICK pieces : pieces = [k \in 1 .. n |-> SubSeq(list, (k - 1) * items + 1, k * items)]
        OBVIOUS
    <2>4. pieces \in [1 .. n -> Seq(Patterns)]
        BY <2>2, <2>3
    <2>5. pieces \in Seq(Seq(Patterns)) /\ Len(pieces) = n
        <3>1. \A S : \A s \in [1 .. n -> S] : s \in Seq(S) /\ Len(s) = n
            OBVIOUS
        <3>2. QED BY <2>4, <3>1
    <2>6. \A k \in 1 .. n : pieces[k] = SubSeq(list, (k - 1) * items + 1, k * items)
        BY <2>3
    <2>7. ChunksOf(list, n, items, pieces)
        <3>1. ASSUME NEW k \in 1 .. n
              PROVE  /\ Len(pieces[k]) = items
                     /\ \A j \in 1 .. items : pieces[k][j] = list[(k - 1) * items + j]
            <4>1. pieces[k] = SubSeq(list, (k - 1) * items + 1, k * items)
                BY <2>6
            <4>2. QED BY <2>2, <4>1
        <3>2. QED BY <2>5, <3>1 DEF ChunksOf
    <2>8. QED BY <1>1, <2>1, <2>3, <2>7
<1>5. QED BY <1>3, <1>4

-----------------------------------------------------------------------------
(* What reaches a task. *)

\* The chunks of the input.
ChunkFacts(n) ==
    /\ n \in Nat /\ Len(chunks) = n /\ DOMAIN chunks = 1 .. n
    /\ chunks \in Seq(Seq(Patterns))
    /\ n # 0 => ChunksOf(input, n, Len(input) \div n, chunks)

(* The chunks that the tasks work on are those of the input.               *)
LEMMA InputIsChunked ==
    ASSUME input \in Seq(Patterns), NEW n \in Nat, chunks = Chunk(input, n)
    PROVE  ChunkFacts(n)
<1>1. CASE n = 0
    <2>1. chunks = <<>>
        BY <1>1 DEF Chunk
    <2>2. <<>> \in Seq(Seq(Patterns)) /\ Len(<<>>) = 0
        OBVIOUS
    <2>3. \A s \in Seq(Seq(Patterns)) : DOMAIN s = 1 .. Len(s)
        OBVIOUS
    <2>4. QED BY <1>1, <2>1, <2>2, <2>3 DEF ChunkFacts
<1>2. CASE n # 0
    <2>1. ChunksOf(input, n, Len(input) \div n, chunks)
        BY <1>2, ChunkReturns
    <2>2. \A s \in Seq(Seq(Patterns)) : DOMAIN s = 1 .. Len(s)
        OBVIOUS
    <2>3. QED BY <2>1, <2>2 DEF ChunkFacts, ChunksOf
<1>3. QED BY <1>1, <1>2

(* The items of the chunks are those that Reached names.                   *)
LEMMA ChunksReach ==
    ASSUME input \in Seq(Patterns), NEW n \in Nat, ChunkFacts(n)
    PROVE  /\ \A k \in DOMAIN chunks : \A i \in DOMAIN chunks[k] : chunks[k][i] \in Reached
           /\ n # 0 => \A i \in 1 .. Len(input) - (Len(input) % n) : \E k \in DOMAIN chunks :
                          \E j \in DOMAIN chunks[k] : chunks[k][j] = input[i]
           /\ Reached \subseteq Patterns
<1>1. /\ Len(chunks) = n /\ DOMAIN chunks = 1 .. n
      /\ \A k \in DOMAIN chunks : chunks[k] \in Seq(Patterns)
    BY DEF ChunkFacts
<1>2. CASE n = 0
    BY <1>1, <1>2 DEF Reached
<1>3. CASE n # 0
    <2>1. PICK l, items : l = Len(input) /\ items = l \div n
        OBVIOUS
    <2>2. l \in Nat /\ n \in Nat \ {0}
        BY <1>3, <2>1
    <2>3. l \div n \in Nat /\ l % n \in 0 .. n - 1 /\ l = n * (l \div n) + (l % n)
        BY <2>2, Division
    <2>4. items \in Nat /\ l % n \in Nat /\ l = n * items + (l % n)
        BY <2>1, <2>3
    <2>5. n * items \in Nat /\ l - (l % n) = n * items /\ n * items <= l
        <3>1. n * items \in Nat
            BY <2>4
        <3>2. QED BY <2>2, <2>4, <3>1
    <2>6. Reached = {input[i] : i \in 1 .. n * items}
        BY <1>1, <1>3, <2>1, <2>5 DEF Reached
    <2>7. /\ \A k \in 1 .. n : DOMAIN chunks[k] = 1 .. items
          /\ \A k \in 1 .. n : \A j \in 1 .. items : chunks[k][j] = input[(k - 1) * items + j]
        <3>1. ChunksOf(input, n, items, chunks)
            BY <1>3, <2>1 DEF ChunkFacts
        <3>2. \A s \in Seq(Patterns) : DOMAIN s = 1 .. Len(s)
            OBVIOUS
        <3>3. QED BY <1>1, <3>1, <3>2 DEF ChunksOf
    <2>8. ASSUME NEW k \in DOMAIN chunks, NEW i \in DOMAIN chunks[k]
          PROVE  chunks[k][i] \in Reached
        <3>1. k \in 1 .. n /\ i \in 1 .. items
            BY <1>1, <2>7
        <3>2. (k - 1) * items + i \in 1 .. n * items
            BY <2>4, <3>1, Position
        <3>3. QED BY <2>6, <2>7, <3>1, <3>2
    <2>9. ASSUME NEW i \in 1 .. l - (l % n)
          PROVE  \E k \in DOMAIN chunks : \E j \in DOMAIN chunks[k] : chunks[k][j] = input[i]
        <3>1. i \in 1 .. n * items
            BY <2>5
        <3>2. PICK k \in 1 .. n, j \in 1 .. items : i = (k - 1) * items + j
            BY <2>4, <3>1, PositionsAreCovered
        <3>3. k \in DOMAIN chunks /\ j \in DOMAIN chunks[k]
            BY <1>1, <2>7
        <3>4. chunks[k][j] = input[i]
            BY <2>7, <3>2
        <3>5. QED BY <3>3, <3>4
    <2>10. Reached \subseteq Patterns
        <3>1. \A i \in 1 .. l : input[i] \in Patterns
            BY <2>1
        <3>2. \A i \in 1 .. n * items : i \in 1 .. l
            BY <2>2, <2>5
        <3>3. QED BY <2>6, <3>1, <3>2
    <2>11. QED BY <2>1, <2>8, <2>9, <2>10
<1>4. QED BY <1>2, <1>3

(* Everything that reaches a task is in one of the chunks.                 *)
LEMMA ReachedIsChunked ==
    ASSUME input \in Seq(Patterns), NEW n \in Nat, ChunkFacts(n)
    PROVE  Reached = UNION {{chunks[k][i] : i \in DOMAIN chunks[k]} : k \in DOMAIN chunks}
<1>1. ASSUME NEW q \in Reached
      PROVE  \E k \in DOMAIN chunks : \E j \in DOMAIN chunks[k] : q = chunks[k][j]
    <2>1. Len(chunks) = n
        BY DEF ChunkFacts
    <2>2. n # 0 /\ \E i \in 1 .. Len(input) - (Len(input) % n) : q = input[i]
        BY <2>1 DEF Reached
    <2>3. QED BY <2>2, ChunksReach
<1>2. \A k \in DOMAIN chunks : \A i \in DOMAIN chunks[k] : chunks[k][i] \in Reached
    BY ChunksReach
<1>3. QED BY <1>1, <1>2

(* When all tasks are merged, there are strings of all that has reached    *)
(* one, but for what Rex fails for.                                        *)
LEMMA AllGathered ==
    ASSUME input \in Seq(Patterns), NEW n \in Nat, ChunkFacts(n), Generating,
           gathered = Len(chunks)
    PROVE  strings = Reached \ RexFails
<1>1. /\ DOMAIN chunks = 1 .. n /\ gathered = n /\ n \in Nat
      /\ \A k \in DOMAIN chunks : chunks[k] \in Seq(Patterns)
    BY DEF ChunkFacts
<1>2. ASSUME NEW k \in DOMAIN chunks
      PROVE  task[k].strings = {chunks[k][i] : i \in DOMAIN chunks[k]} \ RexFails
    <2>1. /\ task[k].next \in 1 .. Len(chunks[k]) + 1 /\ task[k].next > Len(chunks[k])
          /\ task[k].strings = Made(k)
        BY <1>1 DEF Generating, TaskEnded
    <2>2. Len(chunks[k]) \in Nat /\ DOMAIN chunks[k] = 1 .. Len(chunks[k])
        BY <1>1
    <2>3. task[k].next - 1 = Len(chunks[k])
        BY <2>1, <2>2
    <2>4. QED BY <2>1, <2>2, <2>3 DEF Made
<1>3. strings = UNION {task[k].strings : k \in DOMAIN chunks}
    BY <1>1 DEF Generating
<1>4. \A q : q \in strings <=> \E k \in DOMAIN chunks : q \in task[k].strings
    BY <1>3
<1>5. \A q : q \in Reached <=> \E k \in DOMAIN chunks : \E i \in DOMAIN chunks[k] : q = chunks[k][i]
    BY ReachedIsChunked
<1>6. QED BY <1>2, <1>4, <1>5

-----------------------------------------------------------------------------
(* The invariant. *)

(* No task has made anything yet.                                          *)
LEMMA TablesInit == Init => TablesControl
<1> SUFFICES ASSUME Init PROVE TablesControl
    OBVIOUS
<1>1. /\ input \in Seq(Patterns) /\ processors \in Nat /\ chunks = Chunk(input, processors)
      /\ pc = "generate" /\ file = NoFile /\ graph = NoFile
      /\ entities = {} /\ computed = {} /\ scores = {} /\ gathered = 0 /\ strings = {}
      /\ task = [k \in DOMAIN chunks |-> [next |-> 1, strings |-> {}]]
    BY InputsAssumption, ProcessorsAssumption DEF Init
<1>2. ChunkFacts(processors)
    BY <1>1, InputIsChunked
<1>3. Generating
    <2>1. /\ Len(chunks) \in Nat /\ DOMAIN chunks = 1 .. Len(chunks)
          /\ \A k \in DOMAIN chunks : chunks[k] \in Seq(Patterns)
        BY <1>2 DEF ChunkFacts
    <2>2. ASSUME NEW k \in DOMAIN chunks
          PROVE  task[k].next \in 1 .. Len(chunks[k]) + 1 /\ task[k].strings = Made(k)
        <3>1. task[k].next = 1 /\ task[k].strings = {}
            BY <1>1
        <3>2. Len(chunks[k]) \in Nat
            BY <2>1
        <3>3. Made(k) = {}
            BY <3>1 DEF Made
        <3>4. QED BY <3>1, <3>2, <3>3
    <2>3. task \in [DOMAIN chunks -> [next : Nat, strings : SUBSET Patterns]]
        BY <1>1
    <2>4. 1 .. gathered = {}
        BY <1>1
    <2>5. QED BY <1>1, <2>1, <2>2, <2>3, <2>4 DEF Generating
<1>4. Computing
    BY <1>1 DEF Computing
<1>5. QED BY <1>1, <1>3, <1>4 DEF TablesControl

(* What a step of the generator's tasks leaves alone.                      *)
LEMMA SameChunks ==
    ASSUME UNCHANGED <<input, chunks>>
    PROVE  Reached' = Reached /\ Known' = Known /\ \A n : ChunkFacts(n)' <=> ChunkFacts(n)
BY DEF Reached, Known, ChunkFacts

(* A regex with strings is one of the task's chunk.                        *)
LEMMA GenerateStep ==
    ASSUME TablesControl, NEW k \in DOMAIN task, GenerateStrings(k)
    PROVE  Generating'
<1>1. /\ UNCHANGED <<pc, chunks, gathered, strings, input>> /\ ~TaskEnded(k)
      /\ task' = [task EXCEPT ![k] = [next |-> NextAfter(k),
                                      strings |-> @.strings \cup ({chunks[k][@.next]} \ RexFails)]]
    BY DEF GenerateStrings, generator
<1>2. PICK n \in Nat : ChunkFacts(n)
    BY InputIsChunked DEF TablesControl
<1>3. /\ Len(chunks) \in Nat /\ DOMAIN chunks = 1 .. Len(chunks) /\ DOMAIN task = DOMAIN chunks
      /\ \A c \in DOMAIN chunks : /\ chunks[c] \in Seq(Patterns)
                                  /\ Len(chunks[c]) \in Nat /\ DOMAIN chunks[c] = 1 .. Len(chunks[c])
    <2>1. \A s \in Seq(Patterns) : Len(s) \in Nat /\ DOMAIN s = 1 .. Len(s)
        OBVIOUS
    <2>2. /\ Len(chunks) \in Nat /\ DOMAIN chunks = 1 .. Len(chunks)
          /\ \A c \in DOMAIN chunks : chunks[c] \in Seq(Patterns)
        BY <1>2 DEF ChunkFacts
    <2>3. QED BY <2>1, <2>2 DEF TablesControl, Generating
<1>4. PICK next, made : next = task[k].next /\ made = task[k].strings
    OBVIOUS
<1>5. /\ next \in 1 .. Len(chunks[k]) /\ next \in Nat /\ made = Made(k) /\ made \in SUBSET Patterns
      /\ chunks[k][next] \in Patterns
    <2>1. /\ next \in 1 .. Len(chunks[k]) + 1 /\ made = Made(k) /\ made \in SUBSET Patterns
          /\ ~(next > Len(chunks[k]))
        BY <1>1, <1>3, <1>4 DEF TablesControl, Generating, TaskEnded
    <2>2. QED BY <1>3, <2>1
<1>6. /\ DOMAIN task' = DOMAIN task
      /\ task'[k] = [next |-> next + 1, strings |-> made \cup ({chunks[k][next]} \ RexFails)]
      /\ \A c \in DOMAIN task : c # k => task'[c] = task[c]
    BY <1>1, <1>3, <1>4 DEF TablesControl, Generating, NextAfter
<1>7. task' \in [DOMAIN chunks -> [next : Nat, strings : SUBSET Patterns]]
    <2>1. task \in [DOMAIN chunks -> [next : Nat, strings : SUBSET Patterns]]
        BY DEF TablesControl, Generating
    <2>2. [next |-> NextAfter(k), strings |-> task[k].strings \cup ({chunks[k][task[k].next]} \ RexFails)]
             \in [next : Nat, strings : SUBSET Patterns]
        BY <1>4, <1>5 DEF NextAfter
    <2>3. QED BY <1>1, <2>1, <2>2
<1>8. ASSUME NEW c \in DOMAIN chunks
      PROVE  task'[c].next \in 1 .. Len(chunks[c]) + 1 /\ task'[c].strings = Made(c)'
    <2>1. CASE c = k
        <3>1. Made(k)' = {chunks[k][i] : i \in 1 .. (next + 1) - 1} \ RexFails
            BY <1>1, <1>6 DEF Made
        <3>2. Made(k) = {chunks[k][i] : i \in 1 .. next - 1} \ RexFails
            BY <1>4 DEF Made
        <3>3. 1 .. (next + 1) - 1 = (1 .. next - 1) \cup {next}
            BY <1>5
        <3>4. Made(k)' = Made(k) \cup ({chunks[k][next]} \ RexFails)
            BY <3>1, <3>2, <3>3
        <3>5. next + 1 \in 1 .. Len(chunks[k]) + 1
            BY <1>3, <1>5
        <3>6. QED BY <1>5, <1>6, <2>1, <3>4, <3>5
    <2>2. CASE c # k
        <3>1. task'[c] = task[c]
            BY <1>3, <1>6, <2>2
        <3>2. Made(c)' = Made(c)
            BY <1>1, <3>1 DEF Made
        <3>3. QED BY <3>1, <3>2 DEF TablesControl, Generating
    <2>3. QED BY <2>1, <2>2
<1>9. /\ gathered \in 0 .. Len(chunks) /\ \A c \in 1 .. gathered : TaskEnded(c)
      /\ strings = UNION {task[c].strings : c \in 1 .. gathered}
      /\ pc = "write" => gathered = Len(chunks)
    BY DEF TablesControl, Generating
<1>10. \A c \in 1 .. gathered : c \in DOMAIN task /\ c # k /\ task'[c] = task[c]
    BY <1>1, <1>3, <1>6, <1>9
<1>11. \A c \in 1 .. gathered : TaskEnded(c)'
    BY <1>1, <1>9, <1>10 DEF TaskEnded
<1>12. strings = UNION {task'[c].strings : c \in 1 .. gathered}
    BY <1>9, <1>10
<1>13. QED BY <1>1, <1>7, <1>8, <1>9, <1>11, <1>12 DEF Generating

(* The next task is merged.                                                *)
LEMMA GatherStep ==
    ASSUME TablesControl, Gather
    PROVE  Generating'
<1>1. /\ UNCHANGED <<pc, chunks, task, input>> /\ pc = "generate"
      /\ gathered < Len(chunks) /\ TaskEnded(gathered + 1)
      /\ gathered' = gathered + 1 /\ strings' = strings \cup task[gathered + 1].strings
    BY DEF Gather, generator
<1>2. PICK n \in Nat : ChunkFacts(n)
    BY InputIsChunked DEF TablesControl
<1>3. Len(chunks) \in Nat /\ gathered \in Nat /\ gathered \in 0 .. Len(chunks)
    BY <1>2 DEF ChunkFacts, TablesControl, Generating
<1>4. gathered' \in 0 .. Len(chunks) /\ 1 .. gathered + 1 = (1 .. gathered) \cup {gathered + 1}
    BY <1>1, <1>3
<1>5. /\ task \in [DOMAIN chunks -> [next : Nat, strings : SUBSET Patterns]]
      /\ \A k \in DOMAIN chunks :
            task[k].next \in 1 .. Len(chunks[k]) + 1 /\ task[k].strings = Made(k)
      /\ \A k \in 1 .. gathered : TaskEnded(k)
      /\ strings = UNION {task[k].strings : k \in 1 .. gathered}
    BY DEF TablesControl, Generating
<1>6. strings' = UNION {task[k].strings : k \in 1 .. gathered + 1}
    BY <1>1, <1>4, <1>5
<1>7. \A k \in 1 .. gathered + 1 : TaskEnded(k)
    BY <1>1, <1>4, <1>5
<1>8. \A k : Made(k)' = Made(k) /\ (TaskEnded(k)' <=> TaskEnded(k))
    BY <1>1 DEF Made, TaskEnded
<1>9. QED BY <1>1, <1>4, <1>5, <1>6, <1>7, <1>8 DEF Generating

(* Which entities the half matrix joins, and by which score.               *)
LEMMA EdgesOfPatterns ==
    ASSUME NEW r \in Patterns \ RexFails, NEW s \in Patterns \ RexFails
    PROVE  /\ HalfMatrix(r, s) = Average(RexScore(r, s), RexScore(s, r))
           /\ IsEdge(HalfMatrix(r, s), 0) <=> RexScore(r, s).hits > 0 \/ RexScore(s, r).hits > 0
<1>1. ASSUME NEW q \in Patterns \ RexFails, NEW t
      PROVE  RexScore(q, t).hits \in Nat /\ RexScore(q, t).of \in Nat /\ RexScore(q, t).of # 0
    <2>1. IsFiniteSet(Strings[q]) /\ Strings[q] # {}
        BY StringsAssumption, RexAssumption
    <2>2. Strings[q] \cap Found[t] \in SUBSET Strings[q]
        OBVIOUS
    <2>3. IsFiniteSet(Strings[q] \cap Found[t])
        BY <2>1, <2>2, FS_Subset
    <2>4. /\ Cardinality(Strings[q]) \in Nat /\ Cardinality(Strings[q] \cap Found[t]) \in Nat
          /\ Cardinality(Strings[q]) # 0
        BY <2>1, <2>3, FS_CardinalityType, FS_EmptySet
    <2>5. QED BY <2>4 DEF RexScore
<1>2. PICK g, h, m, n : /\ g = RexScore(r, s).hits /\ m = RexScore(r, s).of
                        /\ h = RexScore(s, r).hits /\ n = RexScore(s, r).of
    OBVIOUS
<1>3. g \in Nat /\ h \in Nat /\ m \in Nat \ {0} /\ n \in Nat \ {0}
    BY <1>1, <1>2
<1>4. /\ HalfMatrix(r, s) = [hits |-> h * m + g * n, of |-> 2 * n * m]
      /\ Average(RexScore(r, s), RexScore(s, r)) = [hits |-> g * n + h * m, of |-> 2 * m * n]
    BY <1>2 DEF HalfMatrix, ScoreAt, Average
<1>5. \A a, b, c, d \in Nat : a * d + c * b = c * b + a * d /\ 2 * b * d = 2 * d * b
    OBVIOUS
<1>6. HalfMatrix(r, s) = Average(RexScore(r, s), RexScore(s, r))
    BY <1>3, <1>4, <1>5
<1>7. \A a, b \in Nat \ {0} : a * b \in Nat \ {0} /\ 0 * a = 0
    OBVIOUS
<1>8. h * m \in Nat /\ g * n \in Nat /\ (h * m > 0 <=> h > 0) /\ (g * n > 0 <=> g > 0)
    BY <1>3, <1>7
<1>9. n * m \in Nat \ {0} /\ 2 * n * m = 2 * (n * m)
    BY <1>3, <1>7
<1>10. PICK hits, of : hits = h * m + g * n /\ of = 2 * n * m
    OBVIOUS
<1>11. /\ hits \in Nat /\ of \in Nat /\ of > 0 /\ hits * 100 >= 0 * of
       /\ hits > 0 <=> g > 0 \/ h > 0
    BY <1>8, <1>9, <1>10
<1>12. IsEdge(HalfMatrix(r, s), 0) <=> g > 0 \/ h > 0
    BY <1>4, <1>10, <1>11 DEF IsEdge
<1>13. QED BY <1>2, <1>6, <1>12

(* The graph that the table writes is that of what it knows.               *)
LEMMA GraphStep ==
    ASSUME TablesControl, WriteGraph
    PROVE  GraphOfTheCorpus'
<1>1. /\ pc = "compute" /\ UNCHANGED <<input, chunks>>
      /\ graph' = {[ends |-> {edge[1], edge[2]}, score |-> HalfMatrix(edge[1], edge[2])] :
                     edge \in {pair \in entities \X entities :
                                  IsEdge(HalfMatrix(pair[1], pair[2]), 0)}}
    BY DEF WriteGraph, generator
<1>2. entities = Known /\ Known' = Known
    BY <1>1, SameChunks DEF TablesControl, Computing
<1>3. entities \subseteq Patterns \ RexFails
    <2>1. PICK n \in Nat : ChunkFacts(n)
        BY InputIsChunked DEF TablesControl
    <2>2. Reached \subseteq Patterns
        BY <2>1, ChunksReach DEF TablesControl
    <2>3. QED BY <1>2, <2>2 DEF Known
<1>4. PICK joined : joined = {pair \in entities \X entities : IsEdge(HalfMatrix(pair[1], pair[2]), 0)}
    OBVIOUS
<1>5. joined = {pair \in entities \X entities :
                   \/ RexScore(pair[1], pair[2]).hits > 0
                   \/ RexScore(pair[2], pair[1]).hits > 0}
    BY <1>3, <1>4, EdgesOfPatterns
<1>6. \A edge \in joined :
         HalfMatrix(edge[1], edge[2]) = Average(RexScore(edge[1], edge[2]), RexScore(edge[2], edge[1]))
    BY <1>3, <1>4, EdgesOfPatterns
<1>7. graph' = {[ends |-> {edge[1], edge[2]},
                 score |-> Average(RexScore(edge[1], edge[2]), RexScore(edge[2], edge[1]))] :
                   edge \in joined}
    BY <1>1, <1>4, <1>6
<1>8. Known' = (Reached' \ RexFails) \ Refused
    BY DEF Known
<1>9. QED BY <1>2, <1>5, <1>7, <1>8 DEF GraphOfTheCorpus

\* What the steps of the table and the file leave alone.
Between == UNCHANGED <<input, generator>> /\ (pc' = "generate" => pc = "generate" /\ processors' = processors)

(* A step that leaves the tasks and the table alone.                       *)
LEMMA BetweenKeeps ==
    ASSUME TablesControl, Between, pc' = "write" => gathered = Len(chunks)
    PROVE  /\ input' \in Seq(Patterns) /\ Generating'
           /\ (\E n \in Nat : chunks = Chunk(input, n) /\ (pc = "generate" => n = processors))'
           /\ Reached' = Reached /\ Known' = Known
<1>1. UNCHANGED <<input, chunks, task, gathered, strings>>
    BY DEF Between, generator
<1>2. \A k : Made(k)' = Made(k) /\ (TaskEnded(k)' <=> TaskEnded(k))
    BY <1>1 DEF Made, TaskEnded
<1>3. Generating'
    BY <1>1, <1>2 DEF TablesControl, Generating
<1>4. (\E n \in Nat : chunks = Chunk(input, n) /\ (pc = "generate" => n = processors))'
    BY <1>1 DEF TablesControl, Between, Chunk
<1>5. QED BY <1>1, <1>3, <1>4, SameChunks DEF TablesControl

(* Every step keeps it.                                                    *)
LEMMA TablesStep == TablesControl /\ [Next]_vars => TablesControl'
<1> SUFFICES ASSUME TablesControl, [Next]_vars PROVE TablesControl'
    OBVIOUS
<1>1. ASSUME UNCHANGED vars PROVE TablesControl'
    <2>1. Between /\ UNCHANGED <<pc, file, graph, entities, computed, scores, chunks, gathered>>
        BY <1>1 DEF vars, generator, table, Between
    <2>2. /\ input' \in Seq(Patterns) /\ Generating' /\ Reached' = Reached /\ Known' = Known
          /\ (\E n \in Nat : chunks = Chunk(input, n) /\ (pc = "generate" => n = processors))'
        BY <2>1, BetweenKeeps DEF TablesControl, Generating
    <2>3. GraphOfTheCorpus' <=> GraphOfTheCorpus
        BY <2>1, <2>2 DEF GraphOfTheCorpus
    <2>4. QED BY <2>1, <2>2, <2>3 DEF TablesControl, Computing
<1>2. ASSUME NEW k \in DOMAIN task, GenerateStrings(k) PROVE TablesControl'
    <2>1. /\ UNCHANGED <<input, pc, processors, chunks, file, entities, computed, scores, graph>>
          /\ pc = "generate"
        BY <1>2 DEF GenerateStrings, table
    <2>2. Generating' /\ Reached' = Reached /\ Known' = Known
        BY <1>2, <2>1, GenerateStep, SameChunks
    <2>3. QED BY <2>1, <2>2 DEF TablesControl, Computing
<1>3. CASE Gather
    <2>1. /\ UNCHANGED <<input, pc, processors, chunks, file, entities, computed, scores, graph>>
          /\ pc = "generate"
        BY <1>3 DEF Gather, table
    <2>2. Generating' /\ Reached' = Reached /\ Known' = Known
        BY <1>3, <2>1, GatherStep, SameChunks
    <2>3. QED BY <2>1, <2>2 DEF TablesControl, Computing
<1>4. CASE OpenStrings
    <2>1. /\ Between /\ UNCHANGED <<graph, entities, computed, scores>> /\ pc = "generate"
          /\ pc' = "write" /\ gathered = Len(chunks) /\ file' = [complete |-> FALSE, strings |-> {}]
        BY <1>4 DEF OpenStrings, table, Between
    <2>2. /\ input' \in Seq(Patterns) /\ Generating'
          /\ (\E n \in Nat : chunks = Chunk(input, n) /\ (pc = "generate" => n = processors))'
        BY <2>1, BetweenKeeps
    <2>3. QED BY <2>1, <2>2 DEF TablesControl, Computing, Files
<1>5. CASE CloseStrings
    <2>1. /\ Between /\ UNCHANGED <<graph, entities, computed, scores>> /\ pc = "write"
          /\ pc' = "generated" /\ file' = [complete |-> TRUE, strings |-> strings]
        BY <1>5 DEF CloseStrings, table, Between
    <2>2. /\ input' \in Seq(Patterns) /\ Generating' /\ Reached' = Reached
          /\ (\E n \in Nat : chunks = Chunk(input, n) /\ (pc = "generate" => n = processors))'
        BY <2>1, BetweenKeeps
    <2>3. PICK n \in Nat : ChunkFacts(n)
        BY InputIsChunked DEF TablesControl
    <2>4. strings = Reached \ RexFails /\ Reached \subseteq Patterns
        BY <2>1, <2>3, AllGathered, ChunksReach DEF TablesControl, Generating
    <2>5. QED BY <2>1, <2>2, <2>4 DEF TablesControl, Computing, Files
<1>6. CASE GeneratorKilled
    <2>1. /\ Between /\ UNCHANGED <<graph, entities, computed, scores, file>>
          /\ pc \in {"generate", "write"} /\ pc' = "generated"
        BY <1>6 DEF GeneratorKilled, table, Between
    <2>2. /\ input' \in Seq(Patterns) /\ Generating' /\ Reached' = Reached
          /\ (\E n \in Nat : chunks = Chunk(input, n) /\ (pc = "generate" => n = processors))'
        BY <2>1, BetweenKeeps
    <2>3. QED BY <2>1, <2>2 DEF TablesControl, Computing
<1>7. CASE ReadStrings
    <2>1. /\ Between /\ UNCHANGED <<graph, computed, scores, file>> /\ pc = "generated"
          /\ \/ file # NoFile /\ file.complete /\ pc' = "compute" /\ entities' = file.strings \ Refused
             \/ pc' = "failed" /\ entities' = entities
        BY <1>7 DEF ReadStrings, Between
    <2>2. /\ input' \in Seq(Patterns) /\ Generating' /\ Reached' = Reached /\ Known' = Known
          /\ (\E n \in Nat : chunks = Chunk(input, n) /\ (pc = "generate" => n = processors))'
        BY <2>1, BetweenKeeps
    <2>3. /\ entities = {} /\ computed = {} /\ scores = {} /\ graph = NoFile
          /\ file # NoFile => file \in Files /\ (file.complete => file.strings = Reached \ RexFails)
        BY <2>1 DEF TablesControl, Computing
    <2>4. CASE file # NoFile /\ file.complete /\ pc' = "compute" /\ entities' = file.strings \ Refused
        <3>1. entities' = Known
            BY <2>3, <2>4 DEF Known
        <3>2. QED BY <2>1, <2>2, <2>3, <2>4, <3>1 DEF TablesControl, Computing
    <2>5. CASE pc' = "failed" /\ entities' = entities
        BY <2>1, <2>2, <2>3, <2>5 DEF TablesControl, Computing
    <2>6. QED BY <2>1, <2>4, <2>5
<1>8. ASSUME NEW r \in Patterns, ComputeRow(r) \/ SwapRow(r) PROVE TablesControl'
    <2>1. /\ Between /\ UNCHANGED <<pc, graph, file, entities>> /\ pc = "compute"
          /\ scores' \subseteq computed' /\ computed' \subseteq entities'
        BY <1>8 DEF ComputeRow, SwapRow, Between, TablesControl, Computing
    <2>2. /\ input' \in Seq(Patterns) /\ Generating' /\ Reached' = Reached /\ Known' = Known
          /\ (\E n \in Nat : chunks = Chunk(input, n) /\ (pc = "generate" => n = processors))'
        BY <2>1, BetweenKeeps
    <2>3. QED BY <2>1, <2>2 DEF TablesControl, Computing
<1>9. CASE WriteGraph
    <2>1. /\ Between /\ UNCHANGED <<file, entities, computed, scores>>
          /\ pc = "compute" /\ pc' = "ended"
        BY <1>9 DEF WriteGraph, Between, table
    <2>2. /\ input' \in Seq(Patterns) /\ Generating' /\ Reached' = Reached /\ Known' = Known
          /\ (\E n \in Nat : chunks = Chunk(input, n) /\ (pc = "generate" => n = processors))'
        BY <2>1, BetweenKeeps
    <2>3. GraphOfTheCorpus'
        BY <1>9, GraphStep
    <2>4. QED BY <2>1, <2>2, <2>3 DEF TablesControl, Computing
<1>10. CASE Over
    BY <1>1, <1>10 DEF Over
<1>11. QED BY <1>1, <1>2, <1>3, <1>4, <1>5, <1>6, <1>7, <1>8, <1>9, <1>10 DEF Next

(* The inductive invariant holds in every reachable state.                 *)
LEMMA TablesInvariant == Spec => []TablesControl
BY TablesInit, TablesStep, PTL DEF Spec

-----------------------------------------------------------------------------

(* The chunks are as many as the processors, a task makes strings of its   *)
(* own chunk alone, and only rows that are computed are swapped in.        *)
THEOREM TablesTypeCorrect == Spec => []TablesTypeOK
<1>1. TablesControl => TablesTypeOK
    <2> SUFFICES ASSUME TablesControl PROVE TablesTypeOK
        OBVIOUS
    <2>1. PICK n \in Nat : chunks = Chunk(input, n) /\ (pc = "generate" => n = processors)
        BY DEF TablesControl
    <2>2. ChunkFacts(n)
        BY <2>1, InputIsChunked DEF TablesControl
    <2>3. pc = "generate" => Len(chunks) = processors
        BY <2>1, <2>2 DEF ChunkFacts
    <2>4. ASSUME NEW k \in DOMAIN task
          PROVE  /\ task[k].next \in 1 .. Len(chunks[k]) + 1
                 /\ task[k].strings \subseteq {chunks[k][i] : i \in DOMAIN chunks[k]}
        <3>1. k \in DOMAIN chunks /\ chunks[k] \in Seq(Patterns)
            BY <2>2 DEF TablesControl, Generating, ChunkFacts
        <3>2. task[k].next \in 1 .. Len(chunks[k]) + 1 /\ task[k].strings = Made(k)
            BY <3>1 DEF TablesControl, Generating
        <3>3. Len(chunks[k]) \in Nat /\ DOMAIN chunks[k] = 1 .. Len(chunks[k])
            BY <3>1
        <3>4. \A i \in 1 .. task[k].next - 1 : i \in DOMAIN chunks[k]
            BY <3>2, <3>3
        <3>5. QED BY <3>2, <3>4 DEF Made
    <2>5. strings \subseteq Patterns
        <3>1. DOMAIN chunks = 1 .. Len(chunks) /\ Len(chunks) \in Nat
            BY <2>2 DEF ChunkFacts
        <3>2. \A k \in 1 .. gathered : k \in DOMAIN chunks
            <4>1. gathered \in 0 .. Len(chunks)
                BY DEF TablesControl, Generating
            <4>2. QED BY <3>1, <4>1
        <3>3. \A k \in DOMAIN chunks : task[k].strings \subseteq Patterns
            BY DEF TablesControl, Generating
        <3>4. QED BY <3>2, <3>3 DEF TablesControl, Generating
    <2>6. file = NoFile \/ file \in [complete : BOOLEAN, strings : SUBSET Patterns]
        BY DEF TablesControl, Files
    <2>7. QED BY <2>3, <2>4, <2>5, <2>6 DEF TablesControl, Generating, Computing, TablesTypeOK
<1>2. QED BY <1>1, TablesInvariant, PTL

(* Whatever the number of processors, a file that is complete has strings  *)
(* of every regex that reached a task and that Rex can handle; those that  *)
(* reach none are fewer than the processors.                               *)
THEOREM GeneratesForTheReached == Spec => []GeneratesForAllReached
<1>1. TablesControl => GeneratesForAllReached
    <2> SUFFICES ASSUME TablesControl PROVE GeneratesForAllReached
        OBVIOUS
    <2>1. PICK n \in Nat : ChunkFacts(n)
        BY InputIsChunked DEF TablesControl
    <2>2. file # NoFile => (file.complete => file.strings = Reached \ RexFails)
        BY DEF TablesControl
    <2>3. Len(chunks) = n /\ input \in Seq(Patterns)
        BY <2>1 DEF ChunkFacts, TablesControl
    <2>4. ASSUME Len(chunks) > 0
          PROVE  \E lost \in 0 .. Len(chunks) - 1 :
                    \A i \in 1 .. Len(input) - lost : \E k \in DOMAIN chunks :
                        \E j \in DOMAIN chunks[k] : chunks[k][j] = input[i]
        <3>1. n # 0 /\ n \in Nat \ {0} /\ Len(input) \in Nat
            BY <2>3, <2>4
        <3>2. Len(input) % n \in 0 .. Len(chunks) - 1
            BY <2>3, <3>1, Division
        <3>3. \A i \in 1 .. Len(input) - (Len(input) % n) : \E k \in DOMAIN chunks :
                 \E j \in DOMAIN chunks[k] : chunks[k][j] = input[i]
            BY <2>1, <2>3, <3>1, ChunksReach
        <3>4. QED BY <3>2, <3>3
    <2>5. \A k \in DOMAIN chunks : \A i \in DOMAIN chunks[k] : chunks[k][i] \in Reached
        BY <2>1, <2>3, ChunksReach
    <2>6. QED BY <2>2, <2>4, <2>5 DEF GeneratesForAllReached
<1>2. QED BY <1>1, TablesInvariant, PTL

(* A graph that is written joins the regexes that reached a task and that  *)
(* Rex and RE2 can handle, by the average of their scores both ways.       *)
THEOREM GraphIsOfTheCorpus == Spec => []GraphOfTheCorpus
<1>1. TablesControl => GraphOfTheCorpus
    BY DEF TablesControl, Computing, GraphOfTheCorpus
<1>2. QED BY <1>1, TablesInvariant, PTL
=============================================================================
