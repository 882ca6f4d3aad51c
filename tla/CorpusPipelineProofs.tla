------------------------ MODULE CorpusPipelineProofs ------------------------
(***************************************************************************)
(* Proofs about CorpusPipeline, for every corpus, all options and any size *)
(* of a cluster: however filter, cluster-tool and regexdb interleave, and  *)
(* wherever cluster-tool is killed, a service that is up serves what one   *)
(* complete run of the tool has written.                                   *)
(*                                                                         *)
(* Counting is done by bijections: lists of one length that have no        *)
(* element in common and none twice make a grid, and the elements of a     *)
(* grid are as many as its places.                                         *)
(***************************************************************************)
EXTENDS CorpusPipeline, FunctionTheorems, FiniteSetTheorems, SequenceTheorems, TLAPS

\* No element is at two places of the lists.
Apart(lists) ==
    \A i, j \in DOMAIN lists : \A k \in DOMAIN lists[i], l \in DOMAIN lists[j] :
        lists[i][k] = lists[j][l] => i = j /\ k = l

\* Full clusters without a common regex, all of which RE2 takes.
Grids ==
    {lists \in Seq(Seq(Regexes)) :
        /\ \A i \in DOMAIN lists : Len(lists[i]) = MaxClusterSize + 1
        /\ \A i \in DOMAIN lists : \A k \in DOMAIN lists[i] : Parses(lists[i][k])
        /\ Apart(lists)}

\* The tool at work: what it has read is in its clusters or left over.
ToolControl(t) ==
    LET closed == Clustered(t.clusters)
        growing == Members(t.growing)
    IN /\ t.clusters \in Grids
       /\ \A k, l \in DOMAIN t.growing : t.growing[k] = t.growing[l] => k = l
       /\ t.read = closed \cup growing \cup t.regexes
       /\ closed \cap growing = {} /\ (closed \cup growing) \cap t.regexes = {}
       /\ t.read \cap Unparsed = {}
       /\ t.pc = "write" =>
             t.growing = <<>> /\ Cardinality(t.regexes) <= MaxClusterSize

\* The clusters of a run hold all but the leftovers of what the tool had read.
CompleteRun(lists, from) ==
    /\ lists \in Grids /\ from \in SUBSET Regexes
    /\ Clustered(lists) \subseteq from
    /\ Cardinality(from \ Clustered(lists)) <= MaxClusterSize

\* A complete file is that of a complete run.
FileControl ==
    clusterFile # NoFile /\ clusterFile.complete =>
        CompleteRun(clusterFile.clusters, clusterFile.from)

\* None of the regexes is more similar to the first of the list than the
\* other members of the list are.
Closest(list, regexes) ==
    \A k \in DOMAIN list, s \in regexes :
        k # 1 => ~Above(Score(list[1], s), Score(list[1], list[k]))

\* Each cluster is closest to its seed among what came after it.
ClosestFirst(t) ==
    /\ Closest(t.growing, t.regexes)
    /\ \A i \in DOMAIN t.clusters :
          /\ Closest(t.clusters[i], t.regexes \cup Members(t.growing))
          /\ \A j \in DOMAIN t.clusters :
                i < j => Closest(t.clusters[i], Members(t.clusters[j]))

\* The inductive invariant.
Pipeline ==
    /\ CorpusTypeOK /\ ToolControl(tool) /\ ClosestFirst(tool)
    /\ FileControl /\ ServesACompleteRun

-----------------------------------------------------------------------------
(* Positions in lists. *)

(* The first n positions are n.                                            *)
LEMMA Counting == \A n \in Nat : IsFiniteSet(1 .. n) /\ Cardinality(1 .. n) = n
<1> TAKE n \in Nat
<1>1. /\ IsFiniteSet(1 .. n)
      /\ Cardinality(1 .. n) = IF 1 > n THEN 0 ELSE n - 1 + 1
    BY FS_Interval
<1>2. QED BY <1>1

(* The elements at some positions of a list are those of the list, each    *)
(* taken from one position and no position taken twice.                    *)
LEMMA AtPicks ==
    ASSUME NEW size \in Nat, NEW positions \in SUBSET (1 .. size), NEW list
    PROVE  /\ IsFiniteSet(positions) /\ Cardinality(positions) \in Nat
           /\ DOMAIN At(list, positions) = 1 .. Cardinality(positions)
           /\ \E pick \in Bijection(1 .. Cardinality(positions), positions) :
                 \A n \in 1 .. Cardinality(positions) : At(list, positions)[n] = list[pick[n]]
<1> DEFINE size0 == Cardinality(positions)
           Below(i) == {j \in positions : j <= i}
           rank == [i \in positions |-> Cardinality(Below(i))]
           pick == [n \in 1 .. size0 |-> CHOOSE i \in positions : Cardinality(Below(i)) = n]
<1>1. /\ IsFiniteSet(positions) /\ size0 \in Nat
      /\ \A i \in positions : i \in Int
    <2>1. IsFiniteSet(1 .. size)
        BY Counting
    <2>2. IsFiniteSet(positions)
        BY <2>1, FS_Subset
    <2>3. QED BY <2>2, FS_CardinalityType
<1>2. ASSUME NEW i \in positions
      PROVE  /\ IsFiniteSet(Below(i)) /\ i \in Below(i)
             /\ Cardinality(Below(i)) \in 1 .. size0
    <2>1. IsFiniteSet(Below(i)) /\ Cardinality(Below(i)) <= size0
        BY <1>1, FS_Subset
    <2>2. i \in Below(i)
        OBVIOUS
    <2>3. Cardinality(Below(i)) \in Nat /\ Cardinality(Below(i)) # 0
        BY <2>1, <2>2, FS_EmptySet, FS_CardinalityType
    <2>4. QED BY <1>1, <2>1, <2>2, <2>3
<1>3. ASSUME NEW i \in positions, NEW j \in positions, i < j
      PROVE  Cardinality(Below(i)) < Cardinality(Below(j))
    <2>1. Below(i) \in SUBSET Below(j) /\ j \in Below(j) /\ j \notin Below(i)
        <3>1. ASSUME NEW h \in Below(i) PROVE h \in Below(j)
            BY <1>1, <1>3
        <3>2. j \in Below(j) /\ j \notin Below(i)
            BY <1>1, <1>3
        <3>3. QED BY <3>1, <3>2
    <2>2. Below(i) # Below(j)
        BY <2>1
    <2>3. /\ Cardinality(Below(i)) <= Cardinality(Below(j))
          /\ Cardinality(Below(i)) = Cardinality(Below(j)) => Below(i) = Below(j)
        BY <1>2, <2>1, FS_Subset
    <2>4. Cardinality(Below(i)) \in Int /\ Cardinality(Below(j)) \in Int
        BY <1>2
    <2>5. QED BY <2>2, <2>3, <2>4
<1>4. rank \in Injection(positions, 1 .. size0)
    <2>1. rank \in [positions -> 1 .. size0]
        BY <1>2
    <2>2. ASSUME NEW i \in positions, NEW j \in positions, rank[i] = rank[j]
          PROVE  i = j
        <3>1. i < j \/ j < i \/ i = j
            BY <1>1
        <3>2. /\ rank[i] = Cardinality(Below(i)) /\ rank[j] = Cardinality(Below(j))
              /\ Cardinality(Below(i)) \in Int /\ Cardinality(Below(j)) \in Int
            BY <1>2
        <3>3. QED BY <1>3, <2>2, <3>1, <3>2
    <2>3. QED BY <2>1, <2>2, Fun_IsInj
<1>5. rank \in Surjection(positions, 1 .. size0)
    <2>1. IsFiniteSet(1 .. size0) /\ Cardinality(1 .. size0) = size0
        BY <1>1, Counting
    <2>2. QED BY <1>4, <2>1, FS_Injection
<1>6. ASSUME NEW n \in 1 .. size0
      PROVE  pick[n] \in positions /\ rank[pick[n]] = n
    <2>1. \E i \in positions : rank[i] = n
        BY <1>5 DEF Surjection
    <2>2. \E i \in positions : Cardinality(Below(i)) = n
        BY <2>1
    <2>3. QED BY <2>2
<1>7. pick \in Bijection(1 .. size0, positions)
    <2>1. pick \in [1 .. size0 -> positions]
        BY <1>6
    <2>2. \A m, n \in 1 .. size0 : pick[m] = pick[n] => m = n
        BY <1>6
    <2>3. ASSUME NEW i \in positions
          PROVE  \E n \in 1 .. size0 : pick[n] = i
        <3>1. rank[i] \in 1 .. size0
            BY <1>2
        <3>2. pick[rank[i]] = i
            <4>1. pick[rank[i]] \in positions /\ rank[pick[rank[i]]] = rank[i]
                BY <1>6, <3>1
            <4>2. QED BY <1>4, <4>1 DEF Injection, IsInjective
        <3>3. QED BY <3>1, <3>2
    <2>4. QED BY <2>1, <2>2, <2>3, Fun_IsBij
<1>8. At(list, positions) = [n \in 1 .. size0 |-> list[pick[n]]]
    BY DEF At
<1>9. QED BY <1>1, <1>7, <1>8

(* All the positions of a list give the list.                              *)
LEMMA AtAll ==
    ASSUME NEW S, NEW list \in Seq(S)
    PROVE  At(list, 1 .. Len(list)) = list
<1> DEFINE size == Len(list)
<1>1. size \in Nat /\ Cardinality(1 .. size) = size
    BY Counting
<1>2. ASSUME NEW i \in 1 .. size
      PROVE  Cardinality({j \in 1 .. size : j <= i}) = i
    <2>1. {j \in 1 .. size : j <= i} = 1 .. i
        OBVIOUS
    <2>2. Cardinality(1 .. i) = i
        BY Counting
    <2>3. QED BY <2>1, <2>2
<1>3. ASSUME NEW n \in 1 .. size
      PROVE  (CHOOSE i \in 1 .. size : Cardinality({j \in 1 .. size : j <= i}) = n) = n
    BY <1>2
<1>4. At(list, 1 .. size) =
         [n \in 1 .. Cardinality(1 .. size) |->
            list[CHOOSE i \in 1 .. size : Cardinality({j \in 1 .. size : j <= i}) = n]]
    BY DEF At
<1>5. At(list, 1 .. size) = [n \in 1 .. size |-> list[n]]
    BY <1>1, <1>3, <1>4
<1>6. QED BY <1>5

(* The elements of a grid are as many as its places.                       *)
LEMMA GridCardinality ==
    ASSUME NEW lists \in Seq(Seq(Regexes)), Apart(lists), NEW n \in Nat,
           \A i \in DOMAIN lists : Len(lists[i]) = n
    PROVE  /\ IsFiniteSet(Clustered(lists))
           /\ Cardinality(Clustered(lists)) = Len(lists) * n
<1> DEFINE places == (1 .. Len(lists)) \X (1 .. n)
           element == [p \in places |-> lists[p[1]][p[2]]]
<1>1. DOMAIN lists = 1 .. Len(lists) /\ Len(lists) \in Nat
    OBVIOUS
<1>2. \A i \in 1 .. Len(lists) : DOMAIN lists[i] = 1 .. n
    BY <1>1
<1>3. IsFiniteSet(places) /\ Cardinality(places) = Len(lists) * n
    <2>1. /\ IsFiniteSet(1 .. Len(lists)) /\ Cardinality(1 .. Len(lists)) = Len(lists)
          /\ IsFiniteSet(1 .. n) /\ Cardinality(1 .. n) = n
        BY <1>1, Counting
    <2>2. /\ IsFiniteSet(places)
          /\ Cardinality(places) = Cardinality(1 .. Len(lists)) * Cardinality(1 .. n)
        BY <2>1, FS_Product
    <2>3. QED BY <2>1, <2>2
<1>4. \A x : x \in Clustered(lists) <=>
                \E i \in 1 .. Len(lists), k \in 1 .. n : x = lists[i][k]
    <2>1. \A i \in 1 .. Len(lists) : Members(lists[i]) = {lists[i][k] : k \in 1 .. n}
        BY <1>2 DEF Members
    <2>2. Clustered(lists) = UNION {Members(lists[i]) : i \in 1 .. Len(lists)}
        BY <1>1 DEF Clustered
    <2> TAKE x
    <2>3. x \in Clustered(lists) <=> \E i \in 1 .. Len(lists) : x \in Members(lists[i])
        BY <2>2
    <2>4. QED BY <2>1, <2>3
<1>5. element \in [places -> Clustered(lists)]
    BY <1>4
<1>6. \A p, q \in places : element[p] = element[q] => p = q
    <2> SUFFICES ASSUME NEW p \in places, NEW q \in places, element[p] = element[q]
                 PROVE  p = q
        OBVIOUS
    <2>1. PICK i \in 1 .. Len(lists), k \in 1 .. n : p = <<i, k>>
        OBVIOUS
    <2>2. PICK j \in 1 .. Len(lists), l \in 1 .. n : q = <<j, l>>
        OBVIOUS
    <2>3. lists[i][k] = lists[j][l]
        BY <2>1, <2>2
    <2>4. i = j /\ k = l
        <3>1. /\ i \in DOMAIN lists /\ k \in DOMAIN lists[i]
              /\ j \in DOMAIN lists /\ l \in DOMAIN lists[j]
            BY <1>1, <1>2
        <3>2. QED BY <2>3, <3>1 DEF Apart
    <2>5. QED BY <2>1, <2>2, <2>4
<1>7. \A x \in Clustered(lists) : \E p \in places : element[p] = x
    <2> SUFFICES ASSUME NEW x \in Clustered(lists)
                 PROVE  \E p \in places : element[p] = x
        OBVIOUS
    <2>1. PICK i \in 1 .. Len(lists), k \in 1 .. n : x = lists[i][k]
        BY <1>4
    <2>2. <<i, k>> \in places /\ element[<<i, k>>] = x
        BY <2>1
    <2>3. QED BY <2>2
<1>8. element \in Bijection(places, Clustered(lists))
    BY <1>5, <1>6, <1>7, Fun_IsBij
<1>9. QED BY <1>3, <1>8, FS_Bijection DEF ExistsBijection

(* A list without repetitions has as many members as elements.             *)
LEMMA ListCardinality ==
    ASSUME NEW list \in Seq(Regexes),
           \A k, l \in DOMAIN list : list[k] = list[l] => k = l
    PROVE  Cardinality(Members(list)) = Len(list)
<1>1. /\ list \in [1 .. Len(list) -> Members(list)]
      /\ \A x \in Members(list) : \E k \in 1 .. Len(list) : list[k] = x
      /\ \A k, l \in 1 .. Len(list) : list[k] = list[l] => k = l
    BY DEF Members
<1>2. list \in Bijection(1 .. Len(list), Members(list))
    BY <1>1, Fun_IsBij
<1>3. QED BY <1>2, FS_CountingElements DEF ExistsBijection

-----------------------------------------------------------------------------
(* The steps of cluster-tool. *)

ToolRecords ==
    [pc : {"idle", "cluster", "write"}, read : SUBSET Regexes,
     regexes : SUBSET Regexes, clusters : Seq(Seq(Regexes)), growing : Seq(Regexes)]

(* Members of lists that grow.                                             *)
LEMMA MembersOfLists ==
    /\ Members(<<>>) = {} /\ Clustered(<<>>) = {}
    /\ \A r \in Regexes : Members(<<r>>) = {r}
    /\ \A list \in Seq(Regexes), r \in Regexes :
          Members(Append(list, r)) = Members(list) \cup {r}
    /\ \A lists \in Seq(Seq(Regexes)), list \in Seq(Regexes) :
          Clustered(Append(lists, list)) = Clustered(lists) \cup Members(list)
<1>1. Members(<<>>) = {} /\ Clustered(<<>>) = {}
    BY DEF Members, Clustered
<1>2. \A r \in Regexes : Members(<<r>>) = {r}
    BY DEF Members
<1>3. ASSUME NEW list \in Seq(Regexes), NEW r \in Regexes
      PROVE  Members(Append(list, r)) = Members(list) \cup {r}
    <2>1. /\ DOMAIN Append(list, r) = 1 .. Len(list) + 1
          /\ \A k \in 1 .. Len(list) : Append(list, r)[k] = list[k]
          /\ Append(list, r)[Len(list) + 1] = r
          /\ Len(list) \in Nat /\ DOMAIN list = 1 .. Len(list)
        OBVIOUS
    <2>2. 1 .. Len(list) + 1 = 1 .. Len(list) \cup {Len(list) + 1}
        BY <2>1
    <2> HIDE DEF Members
    <2>3. ASSUME NEW x
          PROVE  x \in Members(Append(list, r)) <=> x \in Members(list) \cup {r}
        BY <2>1, <2>2 DEF Members
    <2>4. QED BY <2>3
<1>4. ASSUME NEW lists \in Seq(Seq(Regexes)), NEW list \in Seq(Regexes)
      PROVE  Clustered(Append(lists, list)) = Clustered(lists) \cup Members(list)
    <2>1. /\ DOMAIN Append(lists, list) = 1 .. Len(lists) + 1
          /\ \A k \in 1 .. Len(lists) : Append(lists, list)[k] = lists[k]
          /\ Append(lists, list)[Len(lists) + 1] = list
          /\ Len(lists) \in Nat /\ DOMAIN lists = 1 .. Len(lists)
        OBVIOUS
    <2>2. 1 .. Len(lists) + 1 = 1 .. Len(lists) \cup {Len(lists) + 1}
        BY <2>1
    <2>3. ASSUME NEW x
          PROVE  x \in Clustered(Append(lists, list)) <=> x \in Clustered(lists) \cup Members(list)
        BY <2>1, <2>2 DEF Clustered
    <2>4. QED BY <2>3
<1>5. QED BY <1>1, <1>2, <1>3, <1>4

(* A member of a cluster is one of its elements.                           *)
LEMMA InClustered ==
    ASSUME NEW lists \in Seq(Seq(Regexes)), NEW i \in DOMAIN lists, NEW k \in DOMAIN lists[i]
    PROVE  lists[i][k] \in Clustered(lists) /\ lists[i][k] \in Members(lists[i])
BY DEF Clustered, Members

(* The tool begins with all it has read left over.                         *)
LEMMA ToolBegins ==
    ASSUME NEW R \in SUBSET Regexes, R \cap Unparsed = {}, NEW pc \in {"idle", "cluster"},
           NEW t, t = [pc |-> pc, read |-> R, regexes |-> R, clusters |-> <<>>, growing |-> <<>>]
    PROVE  t \in ToolRecords /\ ToolControl(t) /\ ClosestFirst(t)
<1>1. <<>> \in Grids
    BY DEF Grids, Apart
<1>2. ToolControl(t)
    BY <1>1, MembersOfLists DEF ToolControl
<1>3. ClosestFirst(t)
    BY DEF ClosestFirst, Closest
<1>4. QED BY <1>2, <1>3 DEF ToolRecords

(* A seed is taken from what is left.                                      *)
LEMMA SeedTaken ==
    ASSUME NEW t \in ToolRecords, ToolControl(t), ClosestFirst(t), t.pc = "cluster",
           t.growing = <<>>, NEW r \in t.regexes, NEW u,
           u = [t EXCEPT !.regexes = @ \ {r}, !.growing = <<r>>]
    PROVE  u \in ToolRecords /\ ToolControl(u) /\ ClosestFirst(u) /\ Len(u.growing) = 1
<1>1. /\ u.pc = "cluster" /\ u.read = t.read /\ u.clusters = t.clusters
      /\ u.regexes = t.regexes \ {r} /\ u.growing = <<r>>
      /\ r \in Regexes
    BY DEF ToolRecords
<1>2. u \in ToolRecords
    <2>1. u = [pc |-> "cluster", read |-> t.read, regexes |-> t.regexes \ {r},
               clusters |-> t.clusters, growing |-> <<r>>]
        BY DEF ToolRecords
    <2>2. /\ t.read \in SUBSET Regexes /\ t.regexes \ {r} \in SUBSET Regexes
          /\ t.clusters \in Seq(Seq(Regexes)) /\ <<r>> \in Seq(Regexes)
        BY <1>1 DEF ToolRecords
    <2>3. QED BY <2>1, <2>2 DEF ToolRecords
<1>3. Members(u.growing) = {r} /\ Members(t.growing) = {}
    BY <1>1, MembersOfLists
<1>4. ToolControl(u)
    BY <1>1, <1>3 DEF ToolControl
<1>5. ClosestFirst(u)
    <2>1. u.regexes \cup Members(u.growing) = t.regexes \cup Members(t.growing)
        BY <1>1, <1>3
    <2>2. Closest(u.growing, u.regexes)
        BY <1>1 DEF Closest
    <2>3. QED BY <1>1, <2>1, <2>2 DEF ClosestFirst
<1>6. Len(u.growing) = 1
    BY <1>1
<1>7. QED BY <1>2, <1>4, <1>5, <1>6

(* The most similar of what is left joins the cluster that grows.          *)
LEMMA MostSimilarTaken ==
    ASSUME NEW t \in ToolRecords, ToolControl(t), ClosestFirst(t), t.pc = "cluster",
           Len(t.growing) \in 1 .. MaxClusterSize, NEW r \in t.regexes,
           \A s \in t.regexes : ~Above(Score(t.growing[1], s), Score(t.growing[1], r)),
           NEW u, u = [t EXCEPT !.regexes = @ \ {r}, !.growing = Append(@, r)]
    PROVE  /\ u \in ToolRecords /\ ToolControl(u) /\ ClosestFirst(u)
           /\ Len(u.growing) = Len(t.growing) + 1
<1>1. /\ u.pc = "cluster" /\ u.read = t.read /\ u.clusters = t.clusters
      /\ u.regexes = t.regexes \ {r} /\ u.growing = Append(t.growing, r)
      /\ r \in Regexes /\ t.growing \in Seq(Regexes)
    BY DEF ToolRecords
<1>2. u \in ToolRecords
    <2>1. u = [pc |-> "cluster", read |-> t.read, regexes |-> t.regexes \ {r},
               clusters |-> t.clusters, growing |-> Append(t.growing, r)]
        BY DEF ToolRecords
    <2>2. /\ t.read \in SUBSET Regexes /\ t.regexes \ {r} \in SUBSET Regexes
          /\ t.clusters \in Seq(Seq(Regexes)) /\ Append(t.growing, r) \in Seq(Regexes)
        BY <1>1 DEF ToolRecords
    <2>3. QED BY <2>1, <2>2 DEF ToolRecords
<1>3. Members(u.growing) = Members(t.growing) \cup {r}
    BY <1>1, MembersOfLists
<1> DEFINE n == Len(t.growing)
<1>4. /\ n \in Nat /\ n >= 1 /\ DOMAIN t.growing = 1 .. n
      /\ Len(u.growing) = n + 1 /\ DOMAIN u.growing = 1 .. (n + 1)
      /\ \A k \in 1 .. n : u.growing[k] = t.growing[k] /\ t.growing[k] \in Members(t.growing)
      /\ u.growing[n + 1] = r
    BY <1>1 DEF Members
<1>5. r \notin Members(t.growing) /\ r \notin Clustered(t.clusters)
    BY DEF ToolControl
<1> HIDE DEF n
<1>6. \A k, l \in DOMAIN u.growing : u.growing[k] = u.growing[l] => k = l
    <2> TAKE k, l \in DOMAIN u.growing
    <2>1. k \in 1 .. n \/ k = n + 1
        BY <1>4
    <2>2. l \in 1 .. n \/ l = n + 1
        BY <1>4
    <2>3. QED BY <1>4, <1>5, <2>1, <2>2 DEF ToolControl
<1>7. ToolControl(u)
    BY <1>1, <1>3, <1>5, <1>6 DEF ToolControl
<1>8. ClosestFirst(u)
    <2>1. u.regexes \cup Members(u.growing) = t.regexes \cup Members(t.growing)
        BY <1>1, <1>3
    <2>2. Closest(u.growing, u.regexes)
        <3> SUFFICES ASSUME NEW k \in DOMAIN u.growing, NEW s \in u.regexes, k # 1
                     PROVE  ~Above(Score(u.growing[1], s), Score(u.growing[1], u.growing[k]))
            BY DEF Closest
        <3>1. u.growing[1] = t.growing[1] /\ s \in t.regexes
            BY <1>1, <1>4
        <3>2. CASE k = n + 1
            BY <1>4, <3>1, <3>2
        <3>3. CASE k \in 1 .. n
            BY <1>4, <3>1, <3>3 DEF ClosestFirst, Closest
        <3>4. QED BY <1>4, <3>2, <3>3
    <2>3. QED BY <1>1, <2>1, <2>2 DEF ClosestFirst
<1>9. QED BY <1>2, <1>4, <1>7, <1>8 DEF n

(* A full cluster is closed.                                               *)
LEMMA ClusterClosed ==
    ASSUME NEW t \in ToolRecords, ToolControl(t), ClosestFirst(t), t.pc = "cluster",
           Len(t.growing) = MaxClusterSize + 1, NEW u,
           u = [t EXCEPT !.clusters = Append(@, t.growing), !.growing = <<>>]
    PROVE  u \in ToolRecords /\ ToolControl(u) /\ ClosestFirst(u) /\ u.growing = <<>>
<1>1. /\ u.pc = "cluster" /\ u.read = t.read /\ u.regexes = t.regexes /\ u.growing = <<>>
      /\ u.clusters = Append(t.clusters, t.growing)
      /\ t.growing \in Seq(Regexes) /\ t.clusters \in Seq(Seq(Regexes))
    BY DEF ToolRecords
<1>2. u \in ToolRecords
    <2>1. u = [pc |-> "cluster", read |-> t.read, regexes |-> t.regexes,
               clusters |-> Append(t.clusters, t.growing), growing |-> <<>>]
        BY DEF ToolRecords
    <2>2. /\ t.read \in SUBSET Regexes /\ t.regexes \in SUBSET Regexes
          /\ Append(t.clusters, t.growing) \in Seq(Seq(Regexes)) /\ <<>> \in Seq(Regexes)
        BY <1>1 DEF ToolRecords
    <2>3. QED BY <2>1, <2>2 DEF ToolRecords
<1>3. /\ Clustered(u.clusters) = Clustered(t.clusters) \cup Members(t.growing)
      /\ Members(u.growing) = {}
    BY <1>1, MembersOfLists
<1> DEFINE n == Len(t.clusters)
<1>4. /\ n \in Nat /\ DOMAIN t.clusters = 1 .. n /\ DOMAIN u.clusters = 1 .. (n + 1)
      /\ \A i \in 1 .. n : u.clusters[i] = t.clusters[i]
      /\ u.clusters[n + 1] = t.growing
      /\ u.clusters \in Seq(Seq(Regexes))
    BY <1>1
<1>5. \A i \in DOMAIN u.clusters : i \in 1 .. n \/ i = n + 1
    BY <1>4
<1> HIDE DEF n
<1>6. Apart(u.clusters)
    <2> SUFFICES ASSUME NEW i \in DOMAIN u.clusters, NEW j \in DOMAIN u.clusters,
                        NEW k \in DOMAIN u.clusters[i], NEW l \in DOMAIN u.clusters[j],
                        u.clusters[i][k] = u.clusters[j][l]
                 PROVE  i = j /\ k = l
        BY DEF Apart
    <2>1. /\ Clustered(t.clusters) \cap Members(t.growing) = {}
          /\ \A m \in DOMAIN t.growing : t.growing[m] \in Members(t.growing)
        BY DEF ToolControl, Members
    <2>2. CASE i \in 1 .. n /\ j \in 1 .. n
        BY <1>4, <2>2 DEF ToolControl, Grids, Apart
    <2>3. CASE i \in 1 .. n /\ j = n + 1
        <3>1. /\ u.clusters[i][k] = t.clusters[i][k] /\ i \in DOMAIN t.clusters
              /\ k \in DOMAIN t.clusters[i] /\ l \in DOMAIN t.growing
              /\ u.clusters[j][l] = t.growing[l]
            BY <1>4, <2>3
        <3>2. t.clusters[i][k] \in Clustered(t.clusters)
            BY <1>1, <3>1, InClustered
        <3>3. QED BY <2>1, <3>1, <3>2
    <2>4. CASE i = n + 1 /\ j \in 1 .. n
        <3>1. /\ u.clusters[j][l] = t.clusters[j][l] /\ j \in DOMAIN t.clusters
              /\ l \in DOMAIN t.clusters[j] /\ k \in DOMAIN t.growing
              /\ u.clusters[i][k] = t.growing[k]
            BY <1>4, <2>4
        <3>2. t.clusters[j][l] \in Clustered(t.clusters)
            BY <1>1, <3>1, InClustered
        <3>3. QED BY <2>1, <3>1, <3>2
    <2>5. CASE i = n + 1 /\ j = n + 1
        BY <1>4, <2>5 DEF ToolControl
    <2>6. QED BY <1>5, <2>2, <2>3, <2>4, <2>5
<1>7. u.clusters \in Grids
    <2>1. \A i \in DOMAIN u.clusters : Len(u.clusters[i]) = MaxClusterSize + 1
        BY <1>4, <1>5 DEF ToolControl, Grids
    <2>2. \A k \in DOMAIN t.growing : Parses(t.growing[k])
        BY DEF ToolControl, Members, Parses
    <2>3. \A i \in DOMAIN u.clusters : \A k \in DOMAIN u.clusters[i] : Parses(u.clusters[i][k])
        BY <1>4, <1>5, <2>2 DEF ToolControl, Grids
    <2>4. QED BY <1>4, <1>6, <2>1, <2>3 DEF Grids
<1>8. ToolControl(u)
    BY <1>1, <1>3, <1>7 DEF ToolControl
<1>9. ClosestFirst(u)
    <2>1. Closest(u.growing, u.regexes)
        BY <1>1 DEF Closest
    <2>2. ASSUME NEW i \in 1 .. n
          PROVE  /\ Closest(u.clusters[i], u.regexes)
                 /\ \A j \in 1 .. n : i < j => Closest(u.clusters[i], Members(u.clusters[j]))
                 /\ Closest(u.clusters[i], Members(u.clusters[n + 1]))
        BY <1>1, <1>4 DEF ClosestFirst, Closest
    <2>3. Closest(u.clusters[n + 1], u.regexes)
        BY <1>1, <1>4 DEF ClosestFirst
    <2>4. \A j \in DOMAIN u.clusters : ~(n + 1 < j)
        BY <1>4
    <2>5. u.regexes \cup Members(u.growing) = u.regexes
        BY <1>3
    <2>6. QED BY <1>5, <2>1, <2>2, <2>3, <2>4, <2>5 DEF ClosestFirst
<1>10. QED BY <1>1, <1>2, <1>8, <1>9

-----------------------------------------------------------------------------
(* The service. *)

\* What QueryServiceImpl makes of each cluster of a file.
BuiltFrom(lists, built) ==
    /\ DOMAIN built = DOMAIN lists
    /\ \A i \in DOMAIN lists :
          \E ok \in BOOLEAN :
             built[i] = [set |-> lists[i], closed |-> TRUE, compiled |-> ok,
                         entities |-> lists[i], size |-> Len(lists[i])]

\* The positions of the clusters that compile, and what a repository serves.
CompiledAmong(built) == {i \in DOMAIN built : built[i].compiled}
ServedBy(repo) == UNION {Members(entities) : entities \in {repo[i].entities : i \in DOMAIN repo}}

\* What ServesACompleteRun says, of the parts of the service.
ServesRun(from, repo, dropped) ==
    /\ repo \in Seq(ClusterRecord) /\ dropped \in Nat
    /\ \A i \in DOMAIN repo :
          /\ repo[i].compiled /\ Aligned(repo[i])
          /\ repo[i].size = MaxClusterSize + 1
    /\ Cardinality(ServedBy(repo)) = Size(repo)
    /\ ServedBy(repo) \subseteq from
    /\ Cardinality(from \ ServedBy(repo)) <= MaxClusterSize + dropped * (MaxClusterSize + 1)

(* Compiling a cluster for the first time leaves it closed.                *)
LEMMA FirstCompilation ==
    ASSUME NEW list, NEW cluster, NEW after, after \in CompileOutcomes(cluster),
           cluster = [set |-> list, closed |-> FALSE, compiled |-> FALSE,
                      entities |-> list, size |-> Len(list)]
    PROVE  \E ok \in BOOLEAN :
              after = [set |-> list, closed |-> TRUE, compiled |-> ok,
                       entities |-> list, size |-> Len(list)]
<1>1. PICK ok \in BOOLEAN : after = [cluster EXCEPT !.closed = TRUE, !.compiled = ok]
    BY DEF CompileOutcomes
<1>2. after = [set |-> list, closed |-> TRUE, compiled |-> ok,
               entities |-> list, size |-> Len(list)]
    BY <1>1
<1>3. QED BY <1>2

(* RE2 takes all patterns of the file, so no cluster loses one.            *)
LEMMA ClustersAreWhole ==
    ASSUME NEW lists \in Grids, NEW built, DOMAIN built = DOMAIN lists,
           \A i \in DOMAIN lists : built[i] \in CompileOutcomes(ClustersOf(lists)[i])
    PROVE  BuiltFrom(lists, built)
<1> SUFFICES ASSUME NEW i \in DOMAIN lists
             PROVE  \E ok \in BOOLEAN :
                       built[i] = [set |-> lists[i], closed |-> TRUE, compiled |-> ok,
                                   entities |-> lists[i], size |-> Len(lists[i])]
    BY DEF BuiltFrom
<1>1. lists[i] \in Seq(Regexes) /\ \A k \in DOMAIN lists[i] : Parses(lists[i][k])
    BY DEF Grids
<1>2. {k \in DOMAIN lists[i] : Parses(lists[i][k])} = 1 .. Len(lists[i])
    BY <1>1
<1>3. Accepted(lists[i]) = lists[i]
    BY <1>1, <1>2, AtAll DEF Accepted
<1>4. ClustersOf(lists)[i] =
        [set |-> lists[i], closed |-> FALSE, compiled |-> FALSE,
         entities |-> lists[i], size |-> Len(lists[i])]
    BY <1>3 DEF ClustersOf, BuildCluster
<1>5. built[i] \in CompileOutcomes(ClustersOf(lists)[i])
    OBVIOUS
<1>6. QED BY <1>4, <1>5, FirstCompilation

(* The clusters that compile are kept as they were in the file.            *)
LEMMA CompiledAreKept ==
    ASSUME NEW lists \in Grids, NEW built, BuiltFrom(lists, built),
           NEW repo, repo = At(built, CompiledAmong(built))
    PROVE  \E kept \in Grids :
              /\ Len(kept) <= Len(lists)
              /\ Clustered(kept) \subseteq Clustered(lists)
              /\ repo = [n \in 1 .. Len(kept) |->
                            [set |-> kept[n], closed |-> TRUE, compiled |-> TRUE,
                             entities |-> kept[n], size |-> Len(kept[n])]]
<1>1. PICK total \in Nat : total = Len(lists)
    BY DEF Grids
<1>2. PICK compiled : compiled = CompiledAmong(built)
    OBVIOUS
<1>3. /\ lists \in Seq(Seq(Regexes)) /\ DOMAIN lists = 1 .. total /\ DOMAIN built = 1 .. total
      /\ \A i \in 1 .. total : lists[i] \in Seq(Regexes)
      /\ compiled \in SUBSET (1 .. total) /\ repo = At(built, compiled)
    BY <1>1, <1>2 DEF Grids, BuiltFrom, CompiledAmong
<1>4. PICK number : number = Cardinality(compiled)
    OBVIOUS
<1>5. /\ number \in Nat /\ DOMAIN repo = 1 .. number
      /\ \E pick \in Bijection(1 .. number, compiled) :
            \A n \in 1 .. number : repo[n] = built[pick[n]]
    <2>1. compiled \in SUBSET (1 .. total)
        BY <1>3
    <2>2. /\ Cardinality(compiled) \in Nat
          /\ DOMAIN At(built, compiled) = 1 .. Cardinality(compiled)
          /\ \E pick \in Bijection(1 .. Cardinality(compiled), compiled) :
                \A n \in 1 .. Cardinality(compiled) : At(built, compiled)[n] = built[pick[n]]
        BY <2>1, AtPicks
    <2>3. QED BY <1>3, <1>4, <2>2
<1>6. number <= total
    <2>1. IsFiniteSet(1 .. total) /\ Cardinality(1 .. total) = total
        BY Counting
    <2>2. compiled \in SUBSET (1 .. total)
        BY <1>3
    <2>3. Cardinality(compiled) <= Cardinality(1 .. total)
        BY <2>1, <2>2, FS_Subset
    <2>4. QED BY <1>4, <2>1, <2>3
<1>7. PICK pick \in Bijection(1 .. number, compiled) :
         \A n \in 1 .. number : repo[n] = built[pick[n]]
    BY <1>5
<1>8. /\ \A n \in 1 .. number : pick[n] \in compiled
      /\ \A m, n \in 1 .. number : pick[m] = pick[n] => m = n
    BY <1>7 DEF Bijection, Injection, Surjection, IsInjective
<1>9. PICK kept : kept = [n \in 1 .. number |-> lists[pick[n]]]
    OBVIOUS
<1>10. /\ kept \in Seq(Seq(Regexes)) /\ Len(kept) = number /\ DOMAIN kept = 1 .. number
       /\ \A n \in 1 .. number : kept[n] = lists[pick[n]] /\ pick[n] \in DOMAIN lists
    <2>1. \A n \in 1 .. number : pick[n] \in 1 .. total
        BY <1>3, <1>8
    <2>2. \A n \in 1 .. number : lists[pick[n]] \in Seq(Regexes)
        BY <1>3, <2>1
    <2>3. kept \in [1 .. number -> Seq(Regexes)]
        BY <1>9, <2>2
    <2>4. kept \in Seq(Seq(Regexes)) /\ Len(kept) = number /\ DOMAIN kept = 1 .. number
        BY <1>5, <2>3
    <2>5. QED BY <1>3, <1>9, <2>1, <2>4
<1>11. Apart(kept)
    <2> SUFFICES ASSUME NEW m \in 1 .. number, NEW n \in 1 .. number,
                        NEW k \in DOMAIN kept[m], NEW l \in DOMAIN kept[n],
                        kept[m][k] = kept[n][l]
                 PROVE  m = n /\ k = l
        BY <1>10 DEF Apart
    <2>1. pick[m] = pick[n] /\ k = l
        BY <1>10 DEF Grids, Apart
    <2>2. QED BY <1>8, <2>1
<1>12. kept \in Grids
    BY <1>10, <1>11 DEF Grids
<1>13. Clustered(kept) \subseteq Clustered(lists)
    BY <1>10 DEF Clustered
<1>14. ASSUME NEW n \in 1 .. number
       PROVE  repo[n] = [set |-> kept[n], closed |-> TRUE, compiled |-> TRUE,
                         entities |-> kept[n], size |-> Len(kept[n])]
    <2>1. /\ pick[n] \in DOMAIN lists /\ kept[n] = lists[pick[n]] /\ repo[n] = built[pick[n]]
          /\ built[pick[n]].compiled
        BY <1>2, <1>7, <1>8, <1>10 DEF CompiledAmong
    <2>2. PICK ok \in BOOLEAN :
            built[pick[n]] = [set |-> lists[pick[n]], closed |-> TRUE, compiled |-> ok,
                              entities |-> lists[pick[n]], size |-> Len(lists[pick[n]])]
        BY <2>1 DEF BuiltFrom
    <2>3. ok = TRUE
        BY <2>1, <2>2
    <2>4. QED BY <2>1, <2>2, <2>3
<1>15. repo = [n \in 1 .. number |-> repo[n]]
    BY <1>3, <1>5 DEF At
<1>16. repo = [n \in 1 .. Len(kept) |->
                  [set |-> kept[n], closed |-> TRUE, compiled |-> TRUE,
                   entities |-> kept[n], size |-> Len(kept[n])]]
    BY <1>10, <1>14, <1>15
<1>17. QED BY <1>1, <1>6, <1>10, <1>12, <1>13, <1>16

(* What is served of a complete file: the clusters that compile, whole.    *)
LEMMA ServedFromFile ==
    ASSUME NEW lists, NEW from, CompleteRun(lists, from),
           NEW built, BuiltFrom(lists, built),
           NEW repo, repo = At(built, CompiledAmong(built))
    PROVE  ServesRun(from, repo, Len(lists) - Len(repo))
<1> lists \in Grids
    BY DEF CompleteRun
<1> PICK served, dropped : served = ServedBy(repo) /\ dropped = Len(lists) - Len(repo)
    OBVIOUS
<1>1. PICK kept \in Grids :
        /\ Len(kept) <= Len(lists)
        /\ Clustered(kept) \subseteq Clustered(lists)
        /\ repo = [n \in 1 .. Len(kept) |->
                      [set |-> kept[n], closed |-> TRUE, compiled |-> TRUE,
                       entities |-> kept[n], size |-> Len(kept[n])]]
    BY CompiledAreKept
<1>2. PICK total \in Nat, number \in Nat, full \in Nat :
        total = Len(lists) /\ number = Len(kept) /\ full = MaxClusterSize + 1
    BY MaxAssumption DEF Grids
<1>3. /\ lists \in Seq(Seq(Regexes)) /\ kept \in Seq(Seq(Regexes))
      /\ DOMAIN kept = 1 .. number /\ DOMAIN repo = 1 .. number
      /\ \A n \in 1 .. number : kept[n] \in Seq(Regexes) /\ Len(kept[n]) = full
    <2>1. /\ lists \in Seq(Seq(Regexes)) /\ kept \in Seq(Seq(Regexes))
          /\ \A n \in DOMAIN kept : Len(kept[n]) = full
        BY <1>2 DEF Grids
    <2>2. DOMAIN kept = 1 .. number
        BY <1>2, <2>1
    <2>3. DOMAIN repo = 1 .. number
        BY <1>1, <1>2
    <2>4. \A n \in 1 .. number : kept[n] \in Seq(Regexes)
        BY <2>1, <2>2
    <2>5. QED BY <2>1, <2>2, <2>3, <2>4
<1>4. \A n \in 1 .. number :
         repo[n] = [set |-> kept[n], closed |-> TRUE, compiled |-> TRUE,
                    entities |-> kept[n], size |-> full]
    BY <1>1, <1>2, <1>3
<1>5. repo \in Seq(ClusterRecord) /\ Len(repo) = number
    <2>1. ASSUME NEW n \in 1 .. number PROVE repo[n] \in ClusterRecord
        <3>1. kept[n] \in Seq(Regexes) /\ full \in Nat
            BY <1>3
        <3>2. repo[n] = [set |-> kept[n], closed |-> TRUE, compiled |-> TRUE,
                         entities |-> kept[n], size |-> full]
            BY <1>4
        <3>3. QED BY <3>1, <3>2 DEF ClusterRecord
    <2>2. repo = [n \in 1 .. number |-> repo[n]]
        BY <1>1, <1>2
    <2>3. repo \in [1 .. number -> ClusterRecord]
        BY <2>1, <2>2
    <2>4. QED BY <1>2, <2>3
<1>6. \A i \in DOMAIN repo :
          /\ repo[i].compiled /\ Aligned(repo[i])
          /\ repo[i].size = MaxClusterSize + 1
    BY <1>2, <1>3, <1>4 DEF Aligned
<1>7. served = Clustered(kept)
    <2>1. {repo[i].entities : i \in DOMAIN repo} = {kept[i] : i \in DOMAIN kept}
        BY <1>3, <1>4
    <2>2. UNION {Members(entities) : entities \in {kept[i] : i \in DOMAIN kept}} = Clustered(kept)
        BY DEF Clustered
    <2>3. QED BY <2>1, <2>2 DEF ServedBy
<1>8. Cardinality(served) = number * full /\ IsFiniteSet(served)
    <2>1. Apart(kept) /\ \A n \in DOMAIN kept : Len(kept[n]) = full
        BY <1>3 DEF Grids
    <2>2. QED BY <1>2, <1>3, <1>7, <2>1, GridCardinality
<1>9. Cardinality(Clustered(lists)) = total * full /\ IsFiniteSet(Clustered(lists))
    <2>1. Apart(lists) /\ \A i \in DOMAIN lists : Len(lists[i]) = full
        BY <1>2 DEF Grids
    <2>2. QED BY <1>2, <1>3, <2>1, GridCardinality
<1>10. PICK gone \in Nat : gone = total - number
    <2>1. number <= total
        BY <1>1, <1>2
    <2>2. total - number \in Nat
        BY <2>1
    <2>3. QED BY <2>2
<1>11. Cardinality(from \ served) <= MaxClusterSize + gone * full
    <2>1. PICK rest, lost : rest = from \ Clustered(lists) /\ lost = Clustered(lists) \ served
        OBVIOUS
    <2>2. IsFiniteSet(rest)
        <3>1. rest \in SUBSET Regexes
            BY <2>1 DEF CompleteRun
        <3>2. QED BY <3>1, RegexAssumption, FS_Subset
    <2>3. /\ IsFiniteSet(lost)
          /\ Cardinality(lost) = Cardinality(Clustered(lists))
                                   - Cardinality(Clustered(lists) \cap served)
        BY <1>9, <2>1, FS_Difference
    <2>4. Clustered(lists) \cap served = served
        BY <1>1, <1>7
    <2>5. Cardinality(lost) = total * full - number * full
        BY <1>8, <1>9, <2>3, <2>4
    <2>6. total * full - number * full = gone * full
        BY <1>10
    <2>7. from \ served = rest \cup lost /\ rest \cap lost = {}
        BY <1>1, <1>7, <2>1 DEF CompleteRun
    <2>8. Cardinality(rest \cup lost) = Cardinality(rest) + Cardinality(lost) - 0
        BY <2>2, <2>3, <2>7, FS_Union, FS_EmptySet
    <2>9. Cardinality(rest) \in Nat /\ Cardinality(lost) \in Nat
        BY <2>2, <2>3, FS_CardinalityType
    <2>10. Cardinality(rest) <= MaxClusterSize
        BY <2>1 DEF CompleteRun
    <2>11. gone * full \in Nat
        BY <1>10
    <2>12. Cardinality(lost) = gone * full
        BY <2>5, <2>6
    <2>13. Cardinality(rest \cup lost) = Cardinality(rest) + Cardinality(lost)
        BY <2>8, <2>9
    <2>14. Cardinality(from \ served) = Cardinality(rest) + gone * full
        BY <2>7, <2>12, <2>13
    <2>15. QED BY <2>9, <2>10, <2>11, <2>14, MaxAssumption
<1>12. /\ dropped = gone
       /\ Size(repo) = number * full
       /\ served \subseteq from
    BY <1>1, <1>2, <1>5, <1>7, <1>10 DEF Size, CompleteRun
<1>13. QED BY <1>2, <1>5, <1>6, <1>8, <1>10, <1>11, <1>12 DEF ServesRun

-----------------------------------------------------------------------------
(* The inductive invariant. *)

\* What is known of the programs, but for the service.
Programs ==
    /\ filtered \in (SUBSET Regexes) \cup {NoFile}
    /\ clusterFile \in ClusterFiles \cup {NoFile}
    /\ tool \in ToolRecords /\ Len(tool.growing) <= MaxClusterSize + 1
    /\ ToolControl(tool) /\ ClosestFirst(tool) /\ FileControl

\* What is known of the service.
ServiceControl ==
    /\ service \in [up : BOOLEAN, from : SUBSET Regexes,
                    repo : Seq(ClusterRecord), dropped : Nat]
    /\ ServesACompleteRun

(* The invariant is about the programs and the service.                    *)
LEMMA PipelineParts == Pipeline <=> corpus \in Corpora /\ Programs /\ ServiceControl
BY DEF Pipeline, CorpusTypeOK, ToolRecords, Programs, ServiceControl

(* An idle tool has nothing.                                               *)
LEMMA IdleTool == /\ ToolIdle \in ToolRecords /\ ToolControl(ToolIdle) /\ ClosestFirst(ToolIdle)
                  /\ Len(ToolIdle.growing) = 0
<1>1. ToolIdle = [pc |-> "idle", read |-> {}, regexes |-> {}, clusters |-> <<>>, growing |-> <<>>]
    BY DEF ToolIdle
<1>2. QED BY <1>1, ToolBegins

(* It holds at the start.                                                  *)
LEMMA PipelineInit == Init => Pipeline
<1> SUFFICES ASSUME Init PROVE corpus \in Corpora /\ Programs /\ ServiceControl
    BY PipelineParts
<1>1. Programs
    <2>1. filtered = NoFile /\ clusterFile = NoFile /\ tool = ToolIdle
        BY DEF Init
    <2>2. FileControl
        BY <2>1 DEF FileControl
    <2>3. tool \in ToolRecords /\ ToolControl(tool) /\ ClosestFirst(tool)
        BY <2>1, IdleTool
    <2>4. Len(tool.growing) = 0
        BY <2>1, IdleTool
    <2>5. Len(tool.growing) <= MaxClusterSize + 1
        BY <2>4, MaxAssumption
    <2>6. /\ filtered \in (SUBSET Regexes) \cup {NoFile}
          /\ clusterFile \in ClusterFiles \cup {NoFile}
        BY <2>1
    <2>7. QED BY <2>2, <2>3, <2>5, <2>6 DEF Programs
<1>2. ServiceControl
    BY DEF Init, ServiceDown, ServiceControl, ServesACompleteRun
<1>3. QED BY <1>1, <1>2 DEF Init

(* What the service promises is about the service alone.                   *)
LEMMA ServiceKept == ServiceControl /\ UNCHANGED service => ServiceControl'
BY DEF ServiceControl, ServesACompleteRun, Served, Size

(* Writing the clusters cuts them at most short, and a complete file has   *)
(* all of them.                                                            *)
LEMMA FileWritten ==
    ASSUME Programs, OpenOutput \/ CloseOutput
    PROVE  Programs'
<1>1. /\ tool \in ToolRecords /\ ToolControl(tool) /\ ClosestFirst(tool)
      /\ filtered \in (SUBSET Regexes) \cup {NoFile}
      /\ tool.clusters \in Seq(Seq(Regexes)) /\ tool.read \in SUBSET Regexes
    BY DEF Programs, ToolRecords
<1>2. CASE OpenOutput
    <2>1. PICK k \in 0 .. Len(tool.clusters) :
            clusterFile' = [complete |-> FALSE, from |-> tool.read,
                            clusters |-> SubSeq(tool.clusters, 1, k)]
        BY <1>2 DEF OpenOutput
    <2>2. SubSeq(tool.clusters, 1, k) \in Seq(Seq(Regexes))
        BY <1>1, SubSeqProperties
    <2>3. clusterFile' \in ClusterFiles /\ ~clusterFile'.complete
        BY <1>1, <2>1, <2>2 DEF ClusterFiles
    <2>4. /\ tool' = [tool EXCEPT !.pc = "write"] /\ UNCHANGED filtered
          /\ tool.growing = <<>> /\ Cardinality(tool.regexes) <= MaxClusterSize
        BY <1>2 DEF OpenOutput
    <2>5. /\ tool'.pc = "write" /\ tool'.read = tool.read /\ tool'.regexes = tool.regexes
          /\ tool'.clusters = tool.clusters /\ tool'.growing = tool.growing
          /\ tool' \in ToolRecords
        BY <1>1, <2>4 DEF ToolRecords
    <2>6. ToolControl(tool') /\ ClosestFirst(tool')
        BY <1>1, <2>4, <2>5 DEF ToolControl, ClosestFirst
    <2>7. QED BY <1>1, <2>3, <2>4, <2>5, <2>6, MaxAssumption DEF Programs, FileControl
<1>3. CASE CloseOutput
    <2>1. /\ tool.pc = "write" /\ tool' = ToolIdle /\ UNCHANGED filtered
          /\ clusterFile' = [complete |-> TRUE, from |-> tool.read, clusters |-> tool.clusters]
        BY <1>3 DEF CloseOutput
    <2>2. /\ tool.clusters \in Grids /\ tool.growing = <<>>
          /\ Cardinality(tool.regexes) <= MaxClusterSize
          /\ tool.read = Clustered(tool.clusters) \cup Members(tool.growing) \cup tool.regexes
          /\ (Clustered(tool.clusters) \cup Members(tool.growing)) \cap tool.regexes = {}
        BY <1>1, <2>1 DEF ToolControl
    <2>3. tool.read = Clustered(tool.clusters) \cup tool.regexes
        BY <2>2, MembersOfLists
    <2>4. tool.read \ Clustered(tool.clusters) = tool.regexes
        BY <2>2, <2>3
    <2>5. clusterFile' \in ClusterFiles
        BY <1>1, <2>1 DEF ClusterFiles
    <2>6. FileControl'
        BY <1>1, <2>1, <2>2, <2>3, <2>4 DEF FileControl, CompleteRun
    <2>7. tool' \in ToolRecords /\ ToolControl(tool') /\ ClosestFirst(tool')
          /\ Len(tool'.growing) = 0
        BY <2>1, IdleTool
    <2>8. QED BY <1>1, <2>1, <2>5, <2>6, <2>7, MaxAssumption DEF Programs
<1>4. QED BY <1>2, <1>3

(* A service that starts serves the file it has read.                      *)
LEMMA ServiceStarts ==
    ASSUME Programs, ServiceControl, StartService
    PROVE  ServiceControl'
<1>1. Readable /\ clusterFile \in ClusterFiles /\ FileControl
    BY DEF StartService, Readable, Programs
<1>2. PICK lists, from : lists = clusterFile.clusters /\ from = clusterFile.from
    OBVIOUS
<1>3. CompleteRun(lists, from) /\ lists \in Grids /\ from \in SUBSET Regexes
    BY <1>1, <1>2 DEF Readable, FileControl, CompleteRun
<1>4. DOMAIN ClustersOf(lists) = DOMAIN lists /\ Len(ClustersOf(lists)) = Len(lists)
    BY <1>3 DEF ClustersOf, Grids
<1>5. PICK built :
        /\ DOMAIN built = DOMAIN ClustersOf(lists)
        /\ \A i \in DOMAIN ClustersOf(lists) : built[i] \in CompileOutcomes(ClustersOf(lists)[i])
        /\ service' = [up |-> TRUE, from |-> from, repo |-> At(built, CompiledAmong(built)),
                       dropped |-> Len(ClustersOf(lists)) - Len(At(built, CompiledAmong(built)))]
    BY <1>2 DEF StartService, CompiledAmong
<1>6. PICK repo, dropped : repo = At(built, CompiledAmong(built)) /\ dropped = Len(lists) - Len(repo)
    OBVIOUS
<1>7. service' = [up |-> TRUE, from |-> from, repo |-> repo, dropped |-> dropped]
    BY <1>4, <1>5, <1>6
<1>8. BuiltFrom(lists, built)
    BY <1>3, <1>4, <1>5, ClustersAreWhole
<1>9. ServesRun(from, repo, dropped)
    BY <1>3, <1>6, <1>8, ServedFromFile
<1>10. UNION {Members(entities) : entities \in Served'} = ServedBy(repo)
    BY <1>7 DEF Served, ServedBy
<1>11. ServesACompleteRun'
    BY <1>7, <1>9, <1>10 DEF ServesACompleteRun, ServesRun
<1>12. service' \in [up : BOOLEAN, from : SUBSET Regexes,
                     repo : Seq(ClusterRecord), dropped : Nat]
    BY <1>3, <1>7, <1>9 DEF ServesRun
<1>13. QED BY <1>11, <1>12 DEF ServiceControl

(* Every step of every program keeps it.                                   *)
LEMMA PipelineStep == Pipeline /\ [Next]_vars => Pipeline'
<1> SUFFICES ASSUME corpus \in Corpora, Programs, ServiceControl, [Next]_vars
             PROVE  (corpus \in Corpora)' /\ Programs' /\ ServiceControl'
    BY PipelineParts DEF Pipeline, CorpusTypeOK, ToolRecords, Programs, ServiceControl
<1>1. ASSUME NEW args \in Arguments, FilterCorpus(args)
      PROVE  (corpus \in Corpora)' /\ Programs' /\ ServiceControl'
    <2>1. filtered' \in SUBSET Regexes /\ UNCHANGED <<corpus, clusterFile, tool, service>>
        BY <1>1 DEF FilterCorpus
    <2>2. Programs'
        BY <2>1 DEF Programs, FileControl
    <2>3. QED BY <2>1, <2>2, ServiceKept
<1>2. ASSUME NEW file, ReadPatterns(file)
      PROVE  (corpus \in Corpora)' /\ Programs' /\ ServiceControl'
    <2>1. PICK R : R = RegexInfos(LinesOf(file))
        OBVIOUS
    <2>2. R \in SUBSET Regexes /\ R \cap Unparsed = {}
        BY <2>1, RefusedAssumption DEF RegexInfos, Builds
    <2>3. /\ tool' = [pc |-> "cluster", read |-> R, regexes |-> R,
                      clusters |-> <<>>, growing |-> <<>>]
          /\ UNCHANGED <<corpus, filtered, clusterFile, service>>
        BY <1>2, <2>1 DEF ReadPatterns, ToolIdle
    <2>4. tool' \in ToolRecords /\ ToolControl(tool') /\ ClosestFirst(tool')
        BY <2>2, <2>3, ToolBegins
    <2>5. Programs'
        BY <2>3, <2>4, MaxAssumption DEF Programs, FileControl
    <2>6. QED BY <2>3, <2>5, ServiceKept
<1>3. ASSUME NEW r \in Regexes, RemoveSeed(r)
      PROVE  (corpus \in Corpora)' /\ Programs' /\ ServiceControl'
    <2>1. /\ tool.pc = "cluster" /\ tool.growing = <<>> /\ r \in tool.regexes
          /\ tool' = [tool EXCEPT !.regexes = @ \ {r}, !.growing = <<r>>]
          /\ UNCHANGED <<corpus, filtered, clusterFile, service>>
        BY <1>3 DEF RemoveSeed
    <2>2. /\ tool' \in ToolRecords /\ ToolControl(tool') /\ ClosestFirst(tool')
          /\ Len(tool'.growing) = 1
        BY <2>1, SeedTaken DEF Programs
    <2>3. Programs'
        BY <2>1, <2>2, MaxAssumption DEF Programs, FileControl
    <2>4. QED BY <2>1, <2>3, ServiceKept
<1>4. ASSUME NEW r \in Regexes, StealNext(r)
      PROVE  (corpus \in Corpora)' /\ Programs' /\ ServiceControl'
    <2>1. /\ tool.pc = "cluster" /\ Len(tool.growing) \in 1 .. MaxClusterSize
          /\ r \in tool.regexes /\ MostSimilar(r)
          /\ tool' = [tool EXCEPT !.regexes = @ \ {r}, !.growing = Append(@, r)]
          /\ UNCHANGED <<corpus, filtered, clusterFile, service>>
        BY <1>4 DEF StealNext, HasRoom, LeftAfter
    <2>2. /\ tool' \in ToolRecords /\ ToolControl(tool') /\ ClosestFirst(tool')
          /\ Len(tool'.growing) = Len(tool.growing) + 1
        BY <2>1, MostSimilarTaken DEF Programs, MostSimilar
    <2>3. Programs'
        BY <2>1, <2>2, MaxAssumption DEF Programs, FileControl
    <2>4. QED BY <2>1, <2>3, ServiceKept
<1>5. ASSUME CloseCluster
      PROVE  (corpus \in Corpora)' /\ Programs' /\ ServiceControl'
    <2>1. /\ tool.pc = "cluster" /\ Len(tool.growing) = MaxClusterSize + 1
          /\ tool' = [tool EXCEPT !.clusters = Append(@, tool.growing), !.growing = <<>>]
          /\ UNCHANGED <<corpus, filtered, clusterFile, service>>
        BY <1>5 DEF CloseCluster
    <2>2. /\ tool' \in ToolRecords /\ ToolControl(tool') /\ ClosestFirst(tool')
          /\ tool'.growing = <<>>
        BY <2>1, ClusterClosed DEF Programs
    <2>3. Programs'
        BY <2>1, <2>2, MaxAssumption DEF Programs, FileControl
    <2>4. QED BY <2>1, <2>3, ServiceKept
<1>6. ASSUME OpenOutput \/ CloseOutput
      PROVE  (corpus \in Corpora)' /\ Programs' /\ ServiceControl'
    <2>1. UNCHANGED <<corpus, service>>
        BY <1>6 DEF OpenOutput, CloseOutput
    <2>2. QED BY <1>6, <2>1, FileWritten, ServiceKept
<1>7. ASSUME ToolKilled
      PROVE  (corpus \in Corpora)' /\ Programs' /\ ServiceControl'
    <2>1. tool' = ToolIdle /\ UNCHANGED <<corpus, filtered, clusterFile, service>>
        BY <1>7 DEF ToolKilled
    <2>2. Programs'
        BY <2>1, IdleTool, MaxAssumption DEF Programs, FileControl
    <2>3. QED BY <2>1, <2>2, ServiceKept
<1>8. ASSUME StartService
      PROVE  (corpus \in Corpora)' /\ Programs' /\ ServiceControl'
    <2>1. UNCHANGED <<corpus, filtered, clusterFile, tool>>
        BY <1>8 DEF StartService
    <2>2. Programs'
        BY <2>1 DEF Programs, FileControl
    <2>3. QED BY <1>8, <2>1, <2>2, ServiceStarts
<1>9. ASSUME StopService
      PROVE  (corpus \in Corpora)' /\ Programs' /\ ServiceControl'
    <2>1. service' = ServiceDown /\ UNCHANGED <<corpus, filtered, clusterFile, tool>>
        BY <1>9 DEF StopService
    <2>2. Programs'
        BY <2>1 DEF Programs, FileControl
    <2>3. ServiceControl'
        BY <2>1 DEF ServiceControl, ServesACompleteRun, ServiceDown
    <2>4. QED BY <2>1, <2>2, <2>3
<1>10. ASSUME UNCHANGED vars
       PROVE  (corpus \in Corpora)' /\ Programs' /\ ServiceControl'
    <2>1. UNCHANGED <<corpus, filtered, clusterFile, tool, service>>
        BY <1>10 DEF vars
    <2>2. Programs'
        BY <2>1 DEF Programs, FileControl
    <2>3. QED BY <2>1, <2>2, ServiceKept
<1>11. QED
    BY <1>1, <1>2, <1>3, <1>4, <1>5, <1>6, <1>7, <1>8, <1>9, <1>10 DEF Next

(* It holds in every state.                                                *)
LEMMA PipelineInvariant == Spec => []Pipeline
<1>1. QED BY PipelineInit, PipelineStep, PTL DEF Spec

-----------------------------------------------------------------------------
(* What it gives. *)

(* The files, the tool and the service hold what their formats allow.      *)
THEOREM CorpusTypeCorrect == Spec => []CorpusTypeOK
<1>1. Pipeline => CorpusTypeOK
    BY DEF Pipeline
<1>2. QED BY <1>1, PipelineInvariant, PTL

(* cluster-tool neither loses nor repeats a regex it has read, and each    *)
(* cluster that it has formed is full.                                     *)
THEOREM ClusteringPartitions == Spec => []ToolPartitions
<1>1. Pipeline => ToolPartitions
    <2> SUFFICES ASSUME Pipeline, tool.pc = "cluster" PROVE ToolPartitions
        BY DEF ToolPartitions
    <2>1. /\ tool \in ToolRecords /\ ToolControl(tool)
          /\ tool.growing \in Seq(Regexes) /\ tool.clusters \in Seq(Seq(Regexes))
        BY PipelineParts DEF Programs, ToolRecords
    <2>2. /\ Apart(tool.clusters)
          /\ \A i \in DOMAIN tool.clusters : Len(tool.clusters[i]) = MaxClusterSize + 1
          /\ MaxClusterSize + 1 \in Nat
        BY <2>1, MaxAssumption DEF ToolControl, Grids
    <2>3. Cardinality(Clustered(tool.clusters)) = Size(tool.clusters)
        BY <2>1, <2>2, GridCardinality DEF Size
    <2>4. Cardinality(Members(tool.growing)) = Len(tool.growing)
        BY <2>1, ListCardinality DEF ToolControl
    <2>5. QED BY <2>1, <2>2, <2>3, <2>4 DEF ToolPartitions, ToolControl
<1>2. QED BY <1>1, PipelineInvariant, PTL

(* Each cluster holds the regexes most similar to its seed of all that     *)
(* were left when it was formed.                                           *)
THEOREM ClustersAreTheClosest == Spec => []TakesTheMostSimilar
<1>1. Pipeline => TakesTheMostSimilar
    <2> SUFFICES ASSUME Pipeline, tool.pc = "cluster", NEW i \in DOMAIN tool.clusters,
                        NEW k \in 2 .. Len(tool.clusters[i]),
                        NEW s \in tool.regexes \cup Members(tool.growing) \cup
                           Clustered(SubSeq(tool.clusters, i + 1, Len(tool.clusters)))
                 PROVE  ~Above(Score(tool.clusters[i][1], s),
                               Score(tool.clusters[i][1], tool.clusters[i][k]))
        BY DEF TakesTheMostSimilar
    <2>1. /\ tool.clusters \in Seq(Seq(Regexes)) /\ ClosestFirst(tool)
          /\ tool.clusters[i] \in Seq(Regexes) /\ i \in 1 .. Len(tool.clusters)
        BY PipelineParts DEF Programs, ToolRecords
    <2>2. k \in DOMAIN tool.clusters[i] /\ k # 1
        BY <2>1
    <2>3. CASE s \in tool.regexes \cup Members(tool.growing)
        BY <2>1, <2>2, <2>3 DEF ClosestFirst, Closest
    <2>4. CASE s \in Clustered(SubSeq(tool.clusters, i + 1, Len(tool.clusters)))
        <3>1. PICK later : later = SubSeq(tool.clusters, i + 1, Len(tool.clusters))
            OBVIOUS
        <3>2. /\ DOMAIN later = 1 .. (Len(tool.clusters) - i)
              /\ \A m \in DOMAIN later : later[m] = tool.clusters[i + m]
            <4>1. PICK n \in Nat : n = Len(tool.clusters)
                BY <2>1
            <4>2. /\ i \in 1 .. n /\ later = SubSeq(tool.clusters, i + 1, n)
                  /\ \A j \in i + 1 .. n : tool.clusters[j] \in Seq(Regexes)
                BY <2>1, <3>1, <4>1
            <4>3. /\ later \in Seq(Seq(Regexes))
                  /\ Len(later) = IF i + 1 <= n THEN n - (i + 1) + 1 ELSE 0
                  /\ \A m \in 1 .. n - (i + 1) + 1 : later[m] = tool.clusters[(i + 1) + m - 1]
                BY <4>2, SubSeqProperties
            <4>4. Len(later) = n - i
                BY <4>2, <4>3
            <4>5. ASSUME NEW m \in 1 .. n - i PROVE later[m] = tool.clusters[i + m]
                <5>1. i \in Int /\ m \in Int /\ m \in 1 .. n - (i + 1) + 1
                    BY <4>2
                <5>2. (i + 1) + m - 1 = i + m
                    BY <5>1
                <5>3. later[m] = tool.clusters[(i + 1) + m - 1]
                    BY <4>3, <5>1
                <5>4. QED BY <5>2, <5>3
            <4>6. DOMAIN later = 1 .. n - i
                BY <4>3, <4>4
            <4>7. QED BY <4>1, <4>5, <4>6
        <3>3. PICK m \in DOMAIN later : s \in Members(later[m])
            BY <2>4, <3>1 DEF Clustered
        <3>4. i + m \in DOMAIN tool.clusters /\ i < i + m /\ s \in Members(tool.clusters[i + m])
            BY <2>1, <3>2, <3>3
        <3>5. Closest(tool.clusters[i], Members(tool.clusters[i + m]))
            BY <2>1, <3>4 DEF ClosestFirst
        <3>6. QED BY <2>2, <3>4, <3>5 DEF Closest
    <2>5. QED BY <2>3, <2>4
<1>2. QED BY <1>1, PipelineInvariant, PTL

(* What is served was written by one complete run of cluster-tool: whole   *)
(* clusters, no regex twice, and all but the leftovers and the clusters    *)
(* that do not compile.                                                    *)
THEOREM ServesWholeRuns == Spec => []ServesACompleteRun
<1>1. Pipeline => ServesACompleteRun
    BY DEF Pipeline
<1>2. QED BY <1>1, PipelineInvariant, PTL
=============================================================================
