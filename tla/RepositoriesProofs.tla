------------------------- MODULE RepositoriesProofs -------------------------
(***************************************************************************)
(* Proofs about Repositories, for every file of clusters, every language   *)
(* and every size: however the regexes are clustered, a query answers what *)
(* asking them one by one does.                                            *)
(*                                                                         *)
(* What unpacking computes is shown by induction on the clusters, in the   *)
(* form of sets of numbers that have 0 and, with a number, the next.  From *)
(* there on a list of clusters is seen as the regexes it holds (Held), and *)
(* they are counted: a list in which no regex is twice (Distinct) is as    *)
(* long as the set of its members is large.                                *)
(***************************************************************************)
EXTENDS Repositories, FunctionTheorems, FiniteSetTheorems, SequenceTheorems,
        WellFoundedInduction, TLAPS

\* No element is at two places of a list.
Once(list) == \A k, l \in DOMAIN list : list[k] = list[l] => k = l

\* The regexes in a list of clusters.
Held(list) == UNION {Members(list[i].entities) : i \in DOMAIN list}

\* No regex is in two clusters, nor twice in one.
Distinct(list) ==
    /\ \A i \in DOMAIN list : Once(list[i].entities)
    /\ \A i, j \in DOMAIN list :
          i # j => Members(list[i].entities) \cap Members(list[j].entities) = {}

\* What every list of clusters is like.
Loaded(list) ==
    /\ list \in Seq(ClusterRecord) /\ Distinct(list)
    /\ \A i \in DOMAIN list : Aligned(list[i])

\* The file has regexes that parse, each once, and stays as it is.
FileControl ==
    /\ Loaded(file) /\ \A r \in Held(file) : Parses(r)
    /\ kind = "random" => file # <<>>

ListsControl ==
    /\ Loaded(clusters) /\ Loaded(repo)
    /\ \A i \in DOMAIN repo : repo[i].compiled

\* Every regex that has been dealt or packed is in one cluster or in the
\* cluster that is being dealt; packing goes through them in order.
PlacingControl ==
    pc = "place" =>
        /\ repo = <<>> /\ dropped = 0 /\ kind \in {"random", "packed"}
        /\ \A i \in DOMAIN clusters : ~clusters[i].closed
        /\ PlacedSoFar = Held(clusters) \cup Members(strings)
        /\ Once(strings) /\ Held(clusters) \cap Members(strings) = {}
        /\ kind = "random" /\ file[1].size > 0 => Len(strings) < file[1].size
        /\ kind = "packed" =>
              /\ strings = <<>>
              /\ \E k \in 0 .. Len(Patterns) :
                    left = k + 1 .. Len(Patterns) /\ Unpacked(clusters) = SubSeq(Patterns, 1, k)
              /\ \A i \in DOMAIN clusters :
                    /\ clusters[i].size \in 1 .. MaxClusterSize
                    /\ i < Len(clusters) => clusters[i].size = MaxClusterSize

\* Every regex is in a cluster of the repository, in one yet to be added, or
\* was in one that is gone; fewer than a cluster has of a shuffled corpus
\* are nowhere.
AddingControl ==
    pc # "place" =>
        /\ Held(repo) \cap Held(clusters) = {}
        /\ Held(repo) \cup Held(clusters) \subseteq Members(Patterns)
        /\ LET held == Cardinality(Held(repo)) + Cardinality(Held(clusters)) + dropped
               all == Cardinality(Members(Patterns))
           IN IF kind = "random" THEN file[1].size > 0 => all < held + file[1].size
              ELSE all = held

\* A regex that a query asks for.
Fits(r) == positive \subseteq Language[r] /\ negative \cap Language[r] = {}

\* The answer so far has those of the clusters that the loop has seen.
QueryControl ==
    /\ skipped \in 0 .. at - 1 /\ Once(results)
    /\ pc \in {"place", "add"} => at = 1
    /\ pc \in {"query", "answered"} =>
          /\ clusters = <<>>
          /\ Members(results) =
                {r \in Regexes : Fits(r) /\ \E i \in 1 .. at - 1 : r \in Members(repo[i].entities)}
    /\ pc = "answered" => at = Len(repo) + 1

(* The inductive invariant. *)
Safety ==
    /\ RepositoryTypeOK /\ FileControl /\ ListsControl
    /\ PlacingControl /\ AddingControl /\ QueryControl

-----------------------------------------------------------------------------
(* Induction, and what unpacking computes. *)

(* A set of numbers that has 0 and, with a number, the next has them all.  *)
LEMMA NaturalInduction ==
    ASSUME NEW S, 0 \in S, \A n \in Nat : n \in S => n + 1 \in S
    PROVE  Nat \subseteq S
<1> SUFFICES ASSUME NEW m \in Nat, m \notin S PROVE FALSE
    OBVIOUS
<1> DEFINE T == {n \in Nat : n \notin S}
           less == OpToRel(<, Nat)
<1>1. IsWellFoundedOn(less, Nat) /\ T \subseteq Nat /\ T # {}
    BY NatLessThanWellFounded
<1> HIDE DEF T, less
<1>2. PICK n \in T : \A k \in T : <<k, n>> \notin less
    BY <1>1, WFMin
<1>3. \A k \in T : ~ (k < n)
    BY <1>1, <1>2 DEF less, OpToRel
<1> USE DEF T
<1>4. n # 0 /\ n - 1 \in Nat
    OBVIOUS
<1>5. n - 1 \notin T
    BY <1>3, <1>4
<1>6. QED BY <1>4, <1>5

\* The lists that unpacking builds, one cluster after another.
Unpacking(all, list) ==
    /\ all[0] = <<>>
    /\ \A n \in 1 .. Len(list) : all[n] = all[n - 1] \o list[n].entities

(* Unpacking two lists of clusters gives the same as long as the clusters  *)
(* are the same.                                                           *)
LEMMA UnpackingUnique ==
    ASSUME NEW list \in Seq(ClusterRecord), NEW more \in Seq(ClusterRecord),
           NEW m \in Nat, m <= Len(list), m <= Len(more),
           \A n \in 1 .. m : list[n] = more[n],
           NEW f, NEW g, Unpacking(f, list), Unpacking(g, more)
    PROVE  \A n \in 0 .. m : f[n] = g[n]
<1> DEFINE S == {n \in Nat : n <= m => f[n] = g[n]}
<1>1. 0 \in S
    BY DEF Unpacking
<1>2. ASSUME NEW n \in Nat, n \in S PROVE n + 1 \in S
    <2>1. SUFFICES ASSUME n + 1 <= m PROVE f[n + 1] = g[n + 1]
        OBVIOUS
    <2>2. n <= m /\ n + 1 \in 1 .. Len(list) /\ n + 1 \in 1 .. Len(more) /\ n + 1 \in 1 .. m
        BY <2>1
    <2>3. f[n] = g[n]
        BY <1>2, <2>2
    <2>4. list[n + 1] = more[n + 1] /\ (n + 1) - 1 = n
        BY <2>2
    <2>5. f[n + 1] = f[n] \o list[n + 1].entities /\ g[n + 1] = g[n] \o more[n + 1].entities
        BY <2>2, <2>4 DEF Unpacking
    <2>6. QED BY <2>3, <2>4, <2>5
<1>3. Nat \subseteq S
    BY <1>1, <1>2, NaturalInduction
<1>4. QED BY <1>3

(* There are such lists for every list of clusters.                        *)
LEMMA UnpackingExists ==
    ASSUME NEW list \in Seq(ClusterRecord)
    PROVE  \E f \in [0 .. Len(list) -> Seq(Regexes)] : Unpacking(f, list)
<1> DEFINE Prefix(n) ==
               \E f \in [0 .. n -> Seq(Regexes)] :
                   /\ f[0] = <<>>
                   /\ \A k \in 1 .. n : f[k] = f[k - 1] \o list[k].entities
           S == {n \in Nat : n <= Len(list) => Prefix(n)}
<1> HIDE DEF Prefix
<1>1. 0 \in S
    <2> DEFINE f == [k \in 0 .. 0 |-> <<>>]
    <2>1. f \in [0 .. 0 -> Seq(Regexes)] /\ f[0] = <<>>
        OBVIOUS
    <2>2. \A k \in 1 .. 0 : f[k] = f[k - 1] \o list[k].entities
        OBVIOUS
    <2> HIDE DEF f
    <2>3. Prefix(0)
        BY <2>1, <2>2 DEF Prefix
    <2>4. QED BY <2>3
<1>2. ASSUME NEW n \in Nat, n \in S PROVE n + 1 \in S
    <2>1. SUFFICES ASSUME n + 1 <= Len(list) PROVE Prefix(n + 1)
        OBVIOUS
    <2>2. PICK f \in [0 .. n -> Seq(Regexes)] :
             /\ f[0] = <<>>
             /\ \A k \in 1 .. n : f[k] = f[k - 1] \o list[k].entities
        <3>1. n <= Len(list)
            BY <2>1
        <3>2. Prefix(n)
            BY <1>2, <3>1
        <3>3. QED BY <3>2 DEF Prefix
    <2> DEFINE g == [k \in 0 .. n + 1 |->
                       IF k = n + 1 THEN f[n] \o list[n + 1].entities ELSE f[k]]
    <2>3. list[n + 1].entities \in Seq(Regexes) /\ f[n] \in Seq(Regexes)
        <3>1. list[n + 1] \in ClusterRecord
            BY <2>1
        <3>2. QED BY <3>1 DEF ClusterRecord
    <2>4. f[n] \o list[n + 1].entities \in Seq(Regexes)
        BY <2>3, ConcatProperties
    <2>5. g \in [0 .. n + 1 -> Seq(Regexes)]
        BY <2>3, <2>4
    <2>6. g[0] = <<>> /\ g[n + 1] = g[n] \o list[n + 1].entities
        <3>1. 0 \in 0 .. n + 1 /\ n \in 0 .. n + 1 /\ n + 1 \in 0 .. n + 1 /\ n # n + 1 /\ 0 # n + 1
            OBVIOUS
        <3>2. g[0] = f[0] /\ g[n] = f[n] /\ g[n + 1] = f[n] \o list[n + 1].entities
            BY <3>1
        <3>3. QED BY <2>2, <3>2
    <2> HIDE DEF g
    <2>7. ASSUME NEW k \in 1 .. n + 1 PROVE g[k] = g[k - 1] \o list[k].entities
        <3>1. CASE k = n + 1
            <4>1. k - 1 = n
                BY <3>1
            <4>2. QED BY <2>6, <3>1, <4>1
        <3>2. CASE k # n + 1
            <4>1. k \in 1 .. n /\ k - 1 \in 0 .. n
                BY <3>2
            <4>2. g[k] = f[k] /\ g[k - 1] = f[k - 1]
                BY <4>1 DEF g
            <4>3. QED BY <2>2, <4>1, <4>2
        <3>3. QED BY <3>1, <3>2
    <2>8. QED BY <2>5, <2>6, <2>7 DEF Prefix
<1>3. Nat \subseteq S
    BY <1>1, <1>2, NaturalInduction
<1>4. Len(list) \in Nat
    OBVIOUS
<1>5. Prefix(Len(list))
    BY <1>3, <1>4
<1>6. QED BY <1>5 DEF Prefix, Unpacking

(* Unpacked takes the last of them.                                        *)
LEMMA UnpackedSteps ==
    ASSUME NEW list \in Seq(ClusterRecord)
    PROVE  \E all \in [0 .. Len(list) -> Seq(Regexes)] :
               Unpacking(all, list) /\ Unpacked(list) = all[Len(list)]
<1> DEFINE Step(f, n) == IF n = 0 THEN <<>> ELSE f[n - 1] \o list[n].entities
           all == CHOOSE f : f = [n \in 0 .. Len(list) |-> Step(f, n)]
<1>1. Unpacked(list) = all[Len(list)]
    BY DEF Unpacked
<1>2. PICK f \in [0 .. Len(list) -> Seq(Regexes)] : Unpacking(f, list)
    BY UnpackingExists
<1>3. f = [n \in 0 .. Len(list) |-> Step(f, n)]
    <2>1. ASSUME NEW n \in 0 .. Len(list) PROVE f[n] = Step(f, n)
        <3>1. CASE n = 0
            BY <1>2, <3>1 DEF Unpacking
        <3>2. CASE n # 0
            <4>1. n \in 1 .. Len(list)
                BY <3>2
            <4>2. QED BY <1>2, <3>2, <4>1 DEF Unpacking
        <3>3. QED BY <3>1, <3>2
    <2>2. QED BY <2>1
<1>4. all = [n \in 0 .. Len(list) |-> Step(all, n)]
    BY <1>3
<1> HIDE DEF all
<1>5. Unpacking(all, list)
    <2>1. Len(list) \in Nat
        OBVIOUS
    <2>2. \A n \in 0 .. Len(list) : all[n] = Step(all, n)
        BY <1>4
    <2>3. all[0] = <<>>
        BY <2>1, <2>2
    <2>4. ASSUME NEW n \in 1 .. Len(list) PROVE all[n] = all[n - 1] \o list[n].entities
        <3>1. n \in 0 .. Len(list) /\ n # 0
            BY <2>1
        <3>2. QED BY <2>2, <3>1
    <2>5. QED BY <2>3, <2>4 DEF Unpacking
<1>6. \A n \in 0 .. Len(list) : all[n] = f[n]
    BY <1>2, <1>5, UnpackingUnique
<1>7. Len(list) \in 0 .. Len(list)
    OBVIOUS
<1>8. QED BY <1>1, <1>2, <1>6, <1>7

(* No clusters have no regexes; one more cluster adds its own at the end.  *)
LEMMA UnpackedEmpty == Unpacked(<<>>) = <<>>
<1>1. <<>> \in Seq(ClusterRecord) /\ Len(<<>>) = 0
    OBVIOUS
<1>2. QED BY <1>1, UnpackedSteps DEF Unpacking

LEMMA UnpackedAppend ==
    ASSUME NEW list \in Seq(ClusterRecord), NEW c \in ClusterRecord
    PROVE  Unpacked(Append(list, c)) = Unpacked(list) \o c.entities
<1> DEFINE more == Append(list, c)
           m == Len(list)
<1>1. /\ more \in Seq(ClusterRecord) /\ m \in Nat /\ Len(more) = m + 1
      /\ more[m + 1] = c /\ \A n \in 1 .. m : list[n] = more[n]
    OBVIOUS
<1> HIDE DEF more
<1>2. PICK f : Unpacking(f, list) /\ Unpacked(list) = f[m]
    BY UnpackedSteps
<1>3. PICK g : Unpacking(g, more) /\ Unpacked(more) = g[m + 1]
    BY <1>1, UnpackedSteps
<1>4. f[m] = g[m]
    BY <1>1, <1>2, <1>3, UnpackingUnique
<1>5. g[m + 1] = g[m] \o c.entities
    <2>1. m + 1 \in 1 .. Len(more) /\ (m + 1) - 1 = m
        BY <1>1
    <2>2. QED BY <1>1, <1>3, <2>1 DEF Unpacking
<1>6. QED BY <1>2, <1>3, <1>4, <1>5 DEF more

(* Unpacking gives a list of the regexes that the clusters hold, in which  *)
(* none is twice if none is in two clusters.                               *)
LEMMA ConcatMembers ==
    ASSUME NEW s \in Seq(Regexes), NEW t \in Seq(Regexes)
    PROVE  /\ Members(s \o t) = Members(s) \cup Members(t)
           /\ Once(s) /\ Once(t) /\ Members(s) \cap Members(t) = {} => Once(s \o t)
<1> DEFINE m == Len(s)
           n == Len(t)
<1>1. /\ m \in Nat /\ n \in Nat
      /\ DOMAIN s = 1 .. m /\ DOMAIN t = 1 .. n
      /\ s \o t \in Seq(Regexes) /\ DOMAIN (s \o t) = 1 .. m + n
    BY ConcatProperties, LenProperties
<1>2. \A i \in 1 .. m : (s \o t)[i] = s[i]
    BY <1>1, ConcatProperties
<1>3. \A i \in 1 .. n : m + i \in 1 .. m + n /\ (s \o t)[m + i] = t[i]
    <2>1. ASSUME NEW i \in 1 .. n PROVE m + i \in 1 .. m + n /\ (s \o t)[m + i] = t[i]
        <3>1. m + i \in 1 .. m + n /\ ~ (m + i <= m) /\ (m + i) - m = i
            BY <1>1
        <3>2. QED BY <3>1, ConcatProperties
    <2>2. QED BY <2>1
<1>4. \A k \in 1 .. m + n : k \in 1 .. m \/ \E i \in 1 .. n : k = m + i
    <2>1. ASSUME NEW k \in 1 .. m + n, k \notin 1 .. m PROVE \E i \in 1 .. n : k = m + i
        <3>1. k - m \in 1 .. n /\ k = m + (k - m)
            BY <1>1, <2>1
        <3>2. QED BY <3>1
    <2>2. QED BY <2>1
<1>5. 1 .. m \subseteq 1 .. m + n
    BY <1>1
<1> DEFINE u == s \o t
<1> HIDE DEF m, n, u
<1>6. Members(u) = Members(s) \cup Members(t)
    <2>1. ASSUME NEW k \in 1 .. m + n PROVE u[k] \in Members(s) \cup Members(t)
        <3>1. CASE k \in 1 .. m
            BY <1>1, <1>2, <3>1 DEF Members, u
        <3>2. CASE \E i \in 1 .. n : k = m + i
            BY <1>1, <1>3, <3>2 DEF Members, u
        <3>3. QED BY <1>4, <3>1, <3>2
    <2>2. ASSUME NEW k \in 1 .. m PROVE s[k] \in Members(u)
        <3>1. k \in DOMAIN u /\ u[k] = s[k]
            BY <1>1, <1>2, <1>5 DEF u
        <3>2. QED BY <3>1 DEF Members
    <2>3. ASSUME NEW k \in 1 .. n PROVE t[k] \in Members(u)
        <3>1. m + k \in DOMAIN u /\ u[m + k] = t[k]
            BY <1>1, <1>3 DEF u
        <3>2. QED BY <3>1 DEF Members
    <2>4. Members(u) = {u[k] : k \in 1 .. m + n}
        BY <1>1 DEF Members, u
    <2>5. Members(s) = {s[k] : k \in 1 .. m} /\ Members(t) = {t[k] : k \in 1 .. n}
        BY <1>1 DEF Members
    <2>6. QED BY <2>1, <2>2, <2>3, <2>4, <2>5
<1>7. ASSUME Once(s), Once(t), Members(s) \cap Members(t) = {},
             NEW k \in 1 .. m + n, NEW l \in 1 .. m + n, u[k] = u[l]
      PROVE  k = l
    <2>1. ASSUME NEW i \in 1 .. m, NEW j \in 1 .. n PROVE u[i] # u[m + j]
        <3>1. s[i] \in Members(s) /\ t[j] \in Members(t)
            BY <1>1 DEF Members
        <3>2. QED BY <1>2, <1>3, <1>7, <3>1 DEF u
    <2>2. CASE k \in 1 .. m /\ l \in 1 .. m
        BY <1>1, <1>2, <1>7, <2>2 DEF Once, u
    <2>3. CASE \E i, j \in 1 .. n : k = m + i /\ l = m + j
        <3>1. PICK i \in 1 .. n, j \in 1 .. n : k = m + i /\ l = m + j
            BY <2>3
        <3>2. t[i] = t[j]
            BY <1>3, <1>7, <3>1 DEF u
        <3>3. QED BY <1>1, <1>7, <3>1, <3>2 DEF Once
    <2>4. QED BY <1>4, <1>7, <2>1, <2>2, <2>3
<1>8. DOMAIN u = 1 .. m + n
    BY <1>1 DEF u
<1>9. Once(s) /\ Once(t) /\ Members(s) \cap Members(t) = {} => Once(u)
    BY <1>7, <1>8 DEF Once
<1>10. QED BY <1>6, <1>9 DEF u

LEMMA UnpackedHeld ==
    ASSUME NEW list \in Seq(ClusterRecord)
    PROVE  /\ Unpacked(list) \in Seq(Regexes)
           /\ Members(Unpacked(list)) = Held(list)
           /\ Distinct(list) => Once(Unpacked(list))
<1> DEFINE size == Len(list)
           Part(n) == UNION {Members(list[i].entities) : i \in 1 .. n}
<1>1. PICK all \in [0 .. size -> Seq(Regexes)] :
         Unpacking(all, list) /\ Unpacked(list) = all[size]
    BY UnpackedSteps
<1> DEFINE Good(n) == /\ Members(all[n]) = Part(n)
                      /\ Distinct(list) => Once(all[n])
           S == {n \in Nat : n <= size => Good(n)}
<1>2. size \in Nat /\ DOMAIN list = 1 .. size /\ \A i \in 1 .. size : list[i].entities \in Seq(Regexes)
    <2>1. size \in Nat /\ DOMAIN list = 1 .. size /\ \A i \in 1 .. size : list[i] \in ClusterRecord
        OBVIOUS
    <2>2. \A c \in ClusterRecord : c.entities \in Seq(Regexes)
        BY DEF ClusterRecord
    <2>3. QED BY <2>1, <2>2
<1> HIDE DEF size, Good
<1>3. 0 \in S
    <2>1. all[0] = <<>> /\ DOMAIN <<>> = {}
        BY <1>1 DEF Unpacking
    <2>2. Part(0) = {} /\ Members(all[0]) = {} /\ Once(all[0])
        <3>1. 1 .. 0 = {}
            OBVIOUS
        <3>2. Part(0) = {}
            BY <3>1
        <3>3. QED BY <2>1, <3>2 DEF Members, Once
    <2>3. QED BY <2>2 DEF Good
<1>4. ASSUME NEW n \in Nat, n \in S PROVE n + 1 \in S
    <2>1. SUFFICES ASSUME n + 1 <= size PROVE Good(n + 1)
        OBVIOUS
    <2>2. n <= size /\ n + 1 \in 1 .. size /\ (n + 1) - 1 = n /\ n \in 0 .. size
        BY <1>2, <2>1
    <2>3. Good(n)
        BY <1>4, <2>2
    <2> DEFINE entities == list[n + 1].entities
    <2>4. all[n + 1] = all[n] \o entities
        BY <1>1, <2>2 DEF Unpacking, size
    <2>5. entities \in Seq(Regexes) /\ all[n] \in Seq(Regexes)
        BY <1>1, <1>2, <2>2
    <2>6. Part(n + 1) = Part(n) \cup Members(entities)
        <3>1. 1 .. n + 1 = (1 .. n) \cup {n + 1}
            OBVIOUS
        <3>2. QED BY <3>1
    <2>7. Members(all[n + 1]) = Part(n + 1)
        BY <2>3, <2>4, <2>5, <2>6, ConcatMembers DEF Good
    <2>8. ASSUME Distinct(list) PROVE Once(all[n + 1])
        <3>1. Once(entities)
            BY <1>2, <2>2, <2>8 DEF Distinct
        <3>2. ASSUME NEW i \in 1 .. n PROVE Members(list[i].entities) \cap Members(entities) = {}
            <4>1. i \in DOMAIN list /\ n + 1 \in DOMAIN list /\ i # n + 1
                BY <1>2, <2>2
            <4>2. QED BY <2>8, <4>1 DEF Distinct
        <3>3. Part(n) \cap Members(entities) = {}
            BY <3>2
        <3>4. QED BY <2>3, <2>4, <2>5, <2>8, <3>1, <3>3, ConcatMembers DEF Good
    <2>9. QED BY <2>7, <2>8 DEF Good
<1>5. Nat \subseteq S
    BY <1>3, <1>4, NaturalInduction
<1>6. Good(size)
    BY <1>2, <1>5
<1>7. Part(size) = Held(list)
    BY <1>2 DEF Held
<1>8. Unpacked(list) \in Seq(Regexes)
    BY <1>1, <1>2
<1>9. QED BY <1>1, <1>6, <1>7, <1>8 DEF Good

-----------------------------------------------------------------------------
(* Counting, and the places of a list. *)

(* The first n positions are n.                                            *)
LEMMA Counting == \A n \in Nat : IsFiniteSet(1 .. n) /\ Cardinality(1 .. n) = n
<1> TAKE n \in Nat
<1>1. /\ IsFiniteSet(1 .. n)
      /\ Cardinality(1 .. n) = IF 1 > n THEN 0 ELSE n - 1 + 1
    BY FS_Interval
<1>2. QED BY <1>1

(* All the positions of a list give the list.                              *)
LEMMA AtAll ==
    ASSUME NEW S, NEW list \in Seq(S)
    PROVE  At(list, 1 .. Len(list)) = list
<1> DEFINE size == Len(list)
<1>1. size \in Nat /\ Cardinality(1 .. size) = size
    BY Counting
<1>2. ASSUME NEW i \in 1 .. size
      PROVE  Cardinality({j \in 1 .. size : j <= i}) = i
    <2>1. {j \in 1 .. size : j <= i} = 1 .. i
        OBVIOUS
    <2>2. Cardinality(1 .. i) = i
        BY Counting
    <2>3. QED BY <2>1, <2>2
<1>3. ASSUME NEW n \in 1 .. size
      PROVE  (CHOOSE i \in 1 .. size : Cardinality({j \in 1 .. size : j <= i}) = n) = n
    BY <1>2
<1>4. At(list, 1 .. size) =
         [n \in 1 .. Cardinality(1 .. size) |->
            list[CHOOSE i \in 1 .. size : Cardinality({j \in 1 .. size : j <= i}) = n]]
    BY DEF At
<1>5. At(list, 1 .. size) = [n \in 1 .. size |-> list[n]]
    BY <1>1, <1>3, <1>4
<1>6. QED BY <1>5

(* A list has as many members as places if none is twice.                  *)
LEMMA MembersCount ==
    ASSUME NEW S, NEW list \in Seq(S)
    PROVE  /\ IsFiniteSet(Members(list)) /\ Cardinality(Members(list)) \in Nat
           /\ Once(list) => Cardinality(Members(list)) = Len(list)
<1>1. IsFiniteSet(1 .. Len(list)) /\ Cardinality(1 .. Len(list)) = Len(list)
    BY Counting
<1>2. list \in Surjection(1 .. Len(list), Members(list))
    <2>1. list \in [1 .. Len(list) -> Members(list)]
        BY DEF Members
    <2>2. \A r \in Members(list) : \E k \in 1 .. Len(list) : list[k] = r
        BY DEF Members
    <2>3. QED BY <2>1, <2>2 DEF Surjection
<1>3. Once(list) => list \in Injection(1 .. Len(list), Members(list))
    BY <1>2 DEF Once, Surjection, Injection, IsInjective
<1>4. /\ IsFiniteSet(Members(list))
      /\ Cardinality(Members(list)) = Cardinality(1 .. Len(list))
             <=> list \in Injection(1 .. Len(list), Members(list))
    BY <1>1, <1>2, FS_Surjection
<1>5. QED BY <1>1, <1>3, <1>4, FS_CardinalityType

(* What is taken from some places of a list.                               *)
LEMMA AtMembers ==
    ASSUME NEW list \in Seq(Regexes), NEW places \in SUBSET (1 .. Len(list))
    PROVE  /\ At(list, places) \in Seq(Regexes)
           /\ Members(At(list, places)) = {list[i] : i \in places}
           /\ Once(list) => Once(At(list, places))
<1> DEFINE number == Cardinality(places)
           Below(i) == {j \in places : j <= i}
           rank == [i \in places |-> Cardinality(Below(i))]
           pick == [n \in 1 .. number |-> CHOOSE i \in places : Cardinality(Below(i)) = n]
<1>1. /\ IsFiniteSet(places) /\ number \in Nat
      /\ \A i \in places : i \in Int
    <2>1. IsFiniteSet(1 .. Len(list))
        BY Counting
    <2>2. IsFiniteSet(places)
        BY <2>1, FS_Subset
    <2>3. QED BY <2>2, FS_CardinalityType
<1>2. ASSUME NEW i \in places
      PROVE  /\ IsFiniteSet(Below(i)) /\ i \in Below(i)
             /\ Cardinality(Below(i)) \in 1 .. number /\ Cardinality(Below(i)) \in Int
    <2>1. IsFiniteSet(Below(i)) /\ Cardinality(Below(i)) <= number
        BY <1>1, FS_Subset
    <2>2. i \in Below(i)
        OBVIOUS
    <2>3. Cardinality(Below(i)) \in Nat /\ Cardinality(Below(i)) # 0
        BY <2>1, <2>2, FS_EmptySet, FS_CardinalityType
    <2>4. QED BY <1>1, <2>1, <2>2, <2>3
<1>3. ASSUME NEW i \in places, NEW j \in places, i < j
      PROVE  Cardinality(Below(i)) < Cardinality(Below(j))
    <2>1. Below(i) \in SUBSET Below(j) /\ j \in Below(j) /\ j \notin Below(i)
        <3>1. ASSUME NEW h \in Below(i) PROVE h \in Below(j)
            BY <1>1, <1>3
        <3>2. j \in Below(j) /\ j \notin Below(i)
            BY <1>1, <1>3
        <3>3. QED BY <3>1, <3>2
    <2>2. Below(i) # Below(j)
        BY <2>1
    <2>3. /\ Cardinality(Below(i)) <= Cardinality(Below(j))
          /\ Cardinality(Below(i)) = Cardinality(Below(j)) => Below(i) = Below(j)
        BY <1>2, <2>1, FS_Subset
    <2>4. Cardinality(Below(i)) \in Int /\ Cardinality(Below(j)) \in Int
        BY <1>2
    <2>5. QED BY <2>2, <2>3, <2>4
<1>4. rank \in Injection(places, 1 .. number)
    <2>1. rank \in [places -> 1 .. number]
        BY <1>2
    <2>2. ASSUME NEW i \in places, NEW j \in places, rank[i] = rank[j]
          PROVE  i = j
        <3>1. i < j \/ j < i \/ i = j
            BY <1>1
        <3>2. /\ rank[i] = Cardinality(Below(i)) /\ rank[j] = Cardinality(Below(j))
              /\ Cardinality(Below(i)) \in Int /\ Cardinality(Below(j)) \in Int
            BY <1>2
        <3>3. ~ (Cardinality(Below(i)) < Cardinality(Below(j)))
              /\ ~ (Cardinality(Below(j)) < Cardinality(Below(i)))
            BY <2>2, <3>2
        <3>4. QED BY <1>3, <3>1, <3>3
    <2>3. QED BY <2>1, <2>2, Fun_IsInj
<1>5. rank \in Surjection(places, 1 .. number)
    <2>1. IsFiniteSet(1 .. number) /\ Cardinality(1 .. number) = number
        BY <1>1, Counting
    <2>2. QED BY <1>4, <2>1, FS_Injection
<1>6. ASSUME NEW n \in 1 .. number
      PROVE  pick[n] \in places /\ rank[pick[n]] = n
    <2>1. \E i \in places : rank[i] = n
        BY <1>5 DEF Surjection
    <2>2. \E i \in places : Cardinality(Below(i)) = n
        BY <2>1
    <2>3. QED BY <2>2
<1>7. pick \in Bijection(1 .. number, places)
    <2>1. pick \in [1 .. number -> places]
        BY <1>6
    <2>2. \A m, n \in 1 .. number : pick[m] = pick[n] => m = n
        BY <1>6
    <2>3. ASSUME NEW i \in places
          PROVE  \E n \in 1 .. number : pick[n] = i
        <3>1. rank[i] \in 1 .. number
            BY <1>2
        <3>2. pick[rank[i]] = i
            <4>1. pick[rank[i]] \in places /\ rank[pick[rank[i]]] = rank[i]
                BY <1>6, <3>1
            <4>2. QED BY <1>4, <4>1 DEF Injection, IsInjective
        <3>3. QED BY <3>1, <3>2
    <2>4. QED BY <2>1, <2>2, <2>3, Fun_IsBij
<1>8. At(list, places) = [n \in 1 .. number |-> list[pick[n]]]
    BY DEF At
<1>9. /\ \A n \in 1 .. number : pick[n] \in places
      /\ \A i \in places : \E n \in 1 .. number : pick[n] = i
      /\ \A m, n \in 1 .. number : pick[m] = pick[n] => m = n
    BY <1>7 DEF Bijection, Injection, Surjection, IsInjective
<1> DEFINE taken == At(list, places)
<1> HIDE DEF pick
<1>10. DOMAIN taken = 1 .. number /\ \A n \in 1 .. number : taken[n] = list[pick[n]]
    BY <1>8
<1>11. DOMAIN list = 1 .. Len(list) /\ \A i \in places : list[i] \in Regexes
    OBVIOUS
<1>12. taken = [n \in 1 .. number |-> taken[n]]
    BY <1>8
<1> HIDE DEF number, taken
<1>13. taken \in Seq(Regexes)
    <2>1. \A n \in 1 .. number : taken[n] \in Regexes
        BY <1>9, <1>10, <1>11
    <2>2. taken \in [1 .. number -> Regexes]
        BY <1>12, <2>1
    <2>3. number \in Nat
        BY <1>1 DEF number
    <2>4. QED BY <2>2, <2>3
<1>14. Members(taken) = {list[i] : i \in places}
    <2>1. Members(taken) = {taken[n] : n \in 1 .. number}
        BY <1>10 DEF Members
    <2>2. ASSUME NEW i \in places PROVE \E n \in 1 .. number : taken[n] = list[i]
        BY <1>9, <1>10
    <2>3. ASSUME NEW n \in 1 .. number PROVE \E i \in places : taken[n] = list[i]
        BY <1>9, <1>10
    <2>4. Members(taken) \subseteq {list[i] : i \in places}
        BY <2>1, <2>3
    <2>5. {list[i] : i \in places} \subseteq Members(taken)
        BY <2>1, <2>2
    <2>6. QED BY <2>4, <2>5
<1>15. ASSUME Once(list), NEW m \in 1 .. number, NEW n \in 1 .. number, taken[m] = taken[n]
      PROVE  m = n
    <2>1. pick[m] \in DOMAIN list /\ pick[n] \in DOMAIN list
        BY <1>9, <1>11, <1>15
    <2>2. list[pick[m]] = list[pick[n]]
        BY <1>10, <1>15
    <2>3. pick[m] = pick[n]
        BY <1>15, <2>1, <2>2 DEF Once
    <2>4. QED BY <1>9, <2>3
<1>16. Once(list) => Once(taken)
    BY <1>10, <1>15 DEF Once
<1>17. QED BY <1>13, <1>14, <1>16 DEF taken

-----------------------------------------------------------------------------
(* What the operations of a cluster do. *)

(* The constructor keeps the regexes that parse, in their order.           *)
LEMMA AcceptedMembers ==
    ASSUME NEW list \in Seq(Regexes)
    PROVE  /\ Accepted(list) \in Seq(Regexes)
           /\ Members(Accepted(list)) = {r \in Members(list) : Parses(r)}
           /\ Once(list) => Once(Accepted(list))
           /\ (\A r \in Members(list) : Parses(r)) => Accepted(list) = list
<1> DEFINE positions == {i \in DOMAIN list : Parses(list[i])}
<1>1. positions \in SUBSET (1 .. Len(list)) /\ Accepted(list) = At(list, positions)
    BY DEF Accepted
<1>2. {list[i] : i \in positions} = {r \in Members(list) : Parses(r)}
    BY DEF Members
<1>3. ASSUME \A r \in Members(list) : Parses(r) PROVE Accepted(list) = list
    <2>1. positions = 1 .. Len(list)
        BY <1>3 DEF Members
    <2>2. QED BY <1>1, <2>1, AtAll
<1> HIDE DEF positions
<1>4. QED BY <1>1, <1>2, <1>3, AtMembers

LEMMA Built ==
    ASSUME NEW list \in Seq(Regexes)
    PROVE  /\ BuildCluster(list) \in ClusterRecord /\ Aligned(BuildCluster(list))
           /\ ~BuildCluster(list).closed
           /\ BuildCluster(list).entities = Accepted(list)
           /\ BuildCluster(list).size = Len(Accepted(list))
<1>1. Accepted(list) \in Seq(Regexes) /\ Len(Accepted(list)) \in Nat
    BY AcceptedMembers
<1>2. QED BY <1>1 DEF BuildCluster, ClusterRecord, Aligned

(* An open cluster takes a regex that parses, at its end.                  *)
LEMMA AddsAtEnd ==
    ASSUME NEW c \in ClusterRecord, Aligned(c), ~c.closed, NEW r \in Regexes, Parses(r)
    PROVE  /\ Adds(c, r)
           /\ AddEntity(c, r) \in ClusterRecord /\ Aligned(AddEntity(c, r))
           /\ ~AddEntity(c, r).closed
           /\ AddEntity(c, r).entities = Append(c.entities, r)
           /\ AddEntity(c, r).size = c.size + 1
<1>1. /\ c.set \in Seq(Regexes) /\ c.entities \in Seq(Regexes) /\ c.size \in Nat
      /\ c.compiled \in BOOLEAN /\ c.closed \in BOOLEAN
    BY DEF ClusterRecord
<1>2. Adds(c, r)
    BY DEF Adds
<1>3. AddEntity(c, r) = [c EXCEPT !.set = Append(@, r), !.compiled = FALSE,
                                  !.size = @ + 1, !.entities = Append(@, r)]
    BY <1>2 DEF AddEntity
<1>4. AddEntity(c, r) = [set |-> Append(c.set, r), closed |-> c.closed, compiled |-> FALSE,
                         entities |-> Append(c.entities, r), size |-> c.size + 1]
    BY <1>3 DEF ClusterRecord
<1>5. /\ Append(c.set, r) \in Seq(Regexes) /\ Append(c.entities, r) \in Seq(Regexes)
      /\ Len(Append(c.set, r)) = Len(c.set) + 1
    BY <1>1
<1>6. AddEntity(c, r) \in ClusterRecord
    BY <1>1, <1>4, <1>5 DEF ClusterRecord
<1>7. Aligned(AddEntity(c, r))
    BY <1>4, <1>5 DEF Aligned
<1>8. QED BY <1>2, <1>4, <1>6, <1>7

(* compile() closes the set and leaves the regexes alone.                  *)
LEMMA CompilesInPlace ==
    ASSUME NEW c \in ClusterRecord, Aligned(c), NEW d \in CompileOutcomes(c)
    PROVE  /\ d \in ClusterRecord /\ Aligned(d)
           /\ d.entities = c.entities /\ d.size = c.size
<1>1. CASE c.compiled
    BY <1>1 DEF CompileOutcomes
<1>2. CASE ~c.compiled
    <2>1. PICK ok \in BOOLEAN : d = [c EXCEPT !.closed = TRUE, !.compiled = ok]
        BY <1>2 DEF CompileOutcomes
    <2>2. d \in ClusterRecord
        BY <2>1 DEF ClusterRecord
    <2>3. d.entities = c.entities /\ d.size = c.size /\ d.set = c.set
        BY <2>1 DEF ClusterRecord
    <2>4. QED BY <2>2, <2>3 DEF Aligned
<1>3. QED BY <1>1, <1>2

-----------------------------------------------------------------------------
(* Lists of clusters that grow, change at their end or lose their head. *)

(* One more cluster adds what it has, and is none of the others' if its    *)
(* regexes are not.                                                        *)
LEMMA HeldAppend ==
    ASSUME NEW list \in Seq(ClusterRecord), NEW c \in ClusterRecord
    PROVE  /\ Append(list, c) \in Seq(ClusterRecord)
           /\ Held(Append(list, c)) = Held(list) \cup Members(c.entities)
           /\ Distinct(Append(list, c)) <=>
                 Distinct(list) /\ Once(c.entities) /\ Held(list) \cap Members(c.entities) = {}
<1> DEFINE more == Append(list, c)
<1>1. PICK m \in Nat : m = Len(list)
    OBVIOUS
<1>2. /\ more \in Seq(ClusterRecord)
      /\ DOMAIN list = 1 .. m /\ DOMAIN more = 1 .. m + 1
      /\ more[m + 1] = c /\ \A n \in 1 .. m : more[n] = list[n]
    BY <1>1
<1>3. /\ 1 .. m + 1 = (1 .. m) \cup {m + 1} /\ m + 1 \notin 1 .. m
      /\ m + 1 \in 1 .. m + 1
    BY <1>1
<1> HIDE DEF more
<1> DEFINE Of(d) == Members(d.entities)
<1>4. Held(more) = Held(list) \cup Of(c)
    <2>1. Held(more) = UNION {Of(more[n]) : n \in 1 .. m + 1}
        BY <1>2 DEF Held
    <2>2. Held(list) = UNION {Of(list[n]) : n \in 1 .. m}
        BY <1>2 DEF Held
    <2>3. {Of(more[n]) : n \in 1 .. m + 1} = {Of(list[n]) : n \in 1 .. m} \cup {Of(c)}
        BY <1>2, <1>3
    <2>4. QED BY <2>1, <2>2, <2>3
<1>5. ASSUME Distinct(more)
      PROVE  Distinct(list) /\ Once(c.entities) /\ Held(list) \cap Of(c) = {}
    <2>1. Once(c.entities)
        BY <1>2, <1>3, <1>5 DEF Distinct
    <2>2. \A i \in 1 .. m : Once(list[i].entities)
        BY <1>2, <1>3, <1>5 DEF Distinct
    <2>3. \A i, j \in 1 .. m : i # j => Of(list[i]) \cap Of(list[j]) = {}
        BY <1>2, <1>3, <1>5 DEF Distinct
    <2>4. \A i \in 1 .. m : Of(list[i]) \cap Of(c) = {}
        BY <1>2, <1>3, <1>5 DEF Distinct
    <2>5. Held(list) \cap Of(c) = {}
        BY <1>2, <2>4 DEF Held
    <2>6. QED BY <1>2, <2>1, <2>2, <2>3, <2>5 DEF Distinct
<1>6. ASSUME Distinct(list), Once(c.entities), Held(list) \cap Of(c) = {}
      PROVE  Distinct(more)
    <2>1. \A i \in 1 .. m : Of(list[i]) \cap Of(c) = {}
        BY <1>2, <1>6 DEF Held
    <2>2. \A i \in 1 .. m + 1 : Once(more[i].entities)
        BY <1>2, <1>3, <1>6 DEF Distinct
    <2>3. ASSUME NEW i \in 1 .. m + 1, NEW j \in 1 .. m + 1, i # j
          PROVE  Of(more[i]) \cap Of(more[j]) = {}
        <3>1. CASE i \in 1 .. m /\ j \in 1 .. m
            BY <1>2, <1>6, <2>3, <3>1 DEF Distinct
        <3>2. CASE i = m + 1 /\ j \in 1 .. m
            BY <1>2, <2>1, <3>2
        <3>3. CASE j = m + 1 /\ i \in 1 .. m
            BY <1>2, <2>1, <3>3
        <3>4. QED BY <1>3, <2>3, <3>1, <3>2, <3>3
    <2>4. QED BY <1>2, <2>2, <2>3 DEF Distinct
<1>7. QED BY <1>2, <1>4, <1>5, <1>6 DEF more

(* Without its head a list holds what the head has not.                    *)
LEMMA HeldTail ==
    ASSUME NEW list \in Seq(ClusterRecord), list # <<>>
    PROVE  /\ Head(list) \in ClusterRecord /\ Tail(list) \in Seq(ClusterRecord)
           /\ Head(list) = list[1] /\ 1 \in DOMAIN list
           /\ \A i \in DOMAIN Tail(list) : i + 1 \in DOMAIN list /\ Tail(list)[i] = list[i + 1]
           /\ Held(list) = Members(Head(list).entities) \cup Held(Tail(list))
           /\ Distinct(list) =>
                 /\ Distinct(Tail(list)) /\ Once(Head(list).entities)
                 /\ Members(Head(list).entities) \cap Held(Tail(list)) = {}
<1> DEFINE rest == Tail(list)
<1>1. PICK m \in Nat : Len(list) = m + 1
    <2>1. Len(list) \in Nat /\ Len(list) # 0
        OBVIOUS
    <2>2. Len(list) - 1 \in Nat /\ Len(list) = (Len(list) - 1) + 1
        BY <2>1
    <2>3. QED BY <2>2
<1>2. /\ Head(list) \in ClusterRecord /\ rest \in Seq(ClusterRecord) /\ Head(list) = list[1]
      /\ DOMAIN list = 1 .. m + 1 /\ DOMAIN rest = 1 .. m
      /\ \A i \in 1 .. m : rest[i] = list[i + 1]
    BY <1>1, HeadTailProperties
<1>3. /\ \A i \in 1 .. m : i + 1 \in 1 .. m + 1 /\ i + 1 # 1
      /\ \A i, j \in 1 .. m : i # j => i + 1 # j + 1
      /\ 1 \in 1 .. m + 1
      /\ \A i \in 1 .. m + 1 : i = 1 \/ \E j \in 1 .. m : i = j + 1
    <2>1. ASSUME NEW i \in 1 .. m + 1, i # 1 PROVE \E j \in 1 .. m : i = j + 1
        <3>1. i - 1 \in 1 .. m /\ i = (i - 1) + 1
            BY <1>1, <2>1
        <3>2. QED BY <3>1
    <2>2. QED BY <1>1, <2>1
<1> HIDE DEF rest
<1> DEFINE Of(d) == Members(d.entities)
<1>4. Held(list) = Of(list[1]) \cup Held(rest)
    <2>1. Held(rest) = UNION {Of(rest[n]) : n \in 1 .. m}
        BY <1>2 DEF Held
    <2>2. Held(list) = UNION {Of(list[n]) : n \in 1 .. m + 1}
        BY <1>2 DEF Held
    <2>3. {Of(list[n]) : n \in 1 .. m + 1} = {Of(rest[n]) : n \in 1 .. m} \cup {Of(list[1])}
        BY <1>2, <1>3
    <2>4. QED BY <2>1, <2>2, <2>3
<1>5. ASSUME Distinct(list)
      PROVE  Distinct(rest) /\ Once(list[1].entities) /\ Of(list[1]) \cap Held(rest) = {}
    <2>1. Once(list[1].entities) /\ \A i \in 1 .. m : Once(rest[i].entities)
        BY <1>2, <1>3, <1>5 DEF Distinct
    <2>2. \A i, j \in 1 .. m : i # j => Of(rest[i]) \cap Of(rest[j]) = {}
        BY <1>2, <1>3, <1>5 DEF Distinct
    <2>3. \A i \in 1 .. m : Of(list[1]) \cap Of(rest[i]) = {}
        BY <1>2, <1>3, <1>5 DEF Distinct
    <2>4. Of(list[1]) \cap Held(rest) = {}
        BY <1>2, <2>3 DEF Held
    <2>5. QED BY <1>2, <2>1, <2>2, <2>4 DEF Distinct
<1>6. QED BY <1>2, <1>3, <1>4, <1>5 DEF rest

\* The last cluster c of a list becomes d.
LastBecomes(list, c, d, more) ==
    list # <<>> /\ c = list[Len(list)] /\ more = [list EXCEPT ![Len(list)] = d]

(* A regex that is new to an open cluster at the back of a list.           *)
LEMMA HeldAtTheBack ==
    ASSUME NEW list \in Seq(ClusterRecord), NEW c, NEW d \in ClusterRecord, NEW more,
           LastBecomes(list, c, d, more),
           NEW r \in Regexes, d.entities = Append(c.entities, r)
    PROVE  /\ more \in Seq(ClusterRecord)
           /\ Held(more) = Held(list) \cup {r}
           /\ Distinct(list) /\ r \notin Held(list) => Distinct(more)
           /\ Unpacked(more) = Append(Unpacked(list), r)
<1>0. list # <<>> /\ c = list[Len(list)] /\ more = [list EXCEPT ![Len(list)] = d]
    BY DEF LastBecomes
<1>1. PICK front \in Seq(ClusterRecord), e \in ClusterRecord : list = Append(front, e)
    BY <1>0, SequenceEmptyOrAppend
<1> DEFINE longer == Append(front, d)
<1>2. c \in ClusterRecord /\ list = Append(front, c) /\ more = longer
    <2>1. /\ Len(list) = Len(front) + 1 /\ Len(front) \in Nat /\ c = e
          /\ DOMAIN list = 1 .. Len(front) + 1
          /\ \A i \in 1 .. Len(front) : list[i] = front[i]
        BY <1>0, <1>1
    <2>2. more \in Seq(ClusterRecord) /\ longer \in Seq(ClusterRecord) /\ Len(more) = Len(longer)
        BY <1>0, <2>1
    <2>3. ASSUME NEW i \in 1 .. Len(more) PROVE more[i] = longer[i]
        <3>1. CASE i = Len(front) + 1
            BY <1>0, <2>1, <3>1
        <3>2. CASE i # Len(front) + 1
            <4>1. i \in 1 .. Len(front) /\ i \in DOMAIN list /\ i # Len(list)
                BY <2>1, <2>2, <3>2
            <4>2. more[i] = list[i] /\ longer[i] = front[i]
                BY <1>0, <4>1
            <4>3. QED BY <2>1, <4>1, <4>2
        <3>3. QED BY <3>1, <3>2
    <2> HIDE DEF longer
    <2>4. more = longer
        BY <2>2, <2>3, SeqEqual
    <2>5. QED BY <1>1, <2>1, <2>4
<1>3. c.entities \in Seq(Regexes) /\ d.entities = c.entities \o <<r>> /\ <<r>> \in Seq(Regexes)
    <2>1. c.entities \in Seq(Regexes)
        BY <1>2 DEF ClusterRecord
    <2>2. QED BY <2>1, AppendIsConcat
<1>4. Members(<<r>>) = {r} /\ Once(<<r>>)
    BY DEF Members, Once
<1>5. /\ Members(d.entities) = Members(c.entities) \cup {r}
      /\ Once(c.entities) /\ r \notin Members(c.entities) => Once(d.entities)
    <2>1. /\ Members(c.entities \o <<r>>) = Members(c.entities) \cup Members(<<r>>)
          /\ Once(c.entities) /\ Once(<<r>>) /\ Members(c.entities) \cap Members(<<r>>) = {} =>
                Once(c.entities \o <<r>>)
        BY <1>3, ConcatMembers
    <2>2. QED BY <1>3, <1>4, <2>1
<1>6. /\ Held(list) = Held(front) \cup Members(c.entities)
      /\ Distinct(list) <=>
            Distinct(front) /\ Once(c.entities) /\ Held(front) \cap Members(c.entities) = {}
    BY <1>2, HeldAppend
<1>7. /\ more \in Seq(ClusterRecord) /\ Held(more) = Held(front) \cup Members(d.entities)
      /\ Distinct(more) <=>
            Distinct(front) /\ Once(d.entities) /\ Held(front) \cap Members(d.entities) = {}
    <2>1. /\ Append(front, d) \in Seq(ClusterRecord)
          /\ Held(Append(front, d)) = Held(front) \cup Members(d.entities)
          /\ Distinct(Append(front, d)) <=>
                Distinct(front) /\ Once(d.entities) /\ Held(front) \cap Members(d.entities) = {}
        BY HeldAppend
    <2>2. QED BY <1>2, <2>1
<1>8. Unpacked(more) = Append(Unpacked(list), r)
    <2>1. Unpacked(more) = Unpacked(front) \o Append(c.entities, r)
        BY <1>2, UnpackedAppend
    <2>2. Unpacked(list) = Unpacked(front) \o c.entities
        BY <1>2, UnpackedAppend
    <2>3. Unpacked(front) \in Seq(Regexes)
        BY UnpackedHeld
    <2>4. \A f, g \in Seq(Regexes) : f \o Append(g, r) = Append(f \o g, r)
        BY SMT
    <2>5. QED BY <1>3, <2>1, <2>2, <2>3, <2>4
<1>9. QED BY <1>5, <1>6, <1>7, <1>8

-----------------------------------------------------------------------------
(* The initial states. *)

(* The empty list, and the members of an extended one.                     *)
LEMMA Empties ==
    /\ <<>> \in Seq(ClusterRecord) /\ Loaded(<<>>) /\ Held(<<>>) = {}
    /\ <<>> \in Seq(Regexes) /\ Members(<<>>) = {} /\ Once(<<>>)
    /\ Unpacked(<<>>) = <<>> /\ Cardinality({}) = 0 /\ IsFiniteSet({})
<1>1. /\ <<>> \in Seq(ClusterRecord) /\ <<>> \in Seq(Regexes) /\ DOMAIN <<>> = {}
    OBVIOUS
<1>2. Cardinality({}) = 0 /\ IsFiniteSet({})
    BY FS_EmptySet
<1>3. QED BY <1>1, <1>2, UnpackedEmpty DEF Loaded, Distinct, Held, Members, Once

LEMMA AppendMembers ==
    ASSUME NEW list \in Seq(Regexes), NEW r \in Regexes
    PROVE  /\ Append(list, r) \in Seq(Regexes) /\ Len(Append(list, r)) = Len(list) + 1
           /\ Members(Append(list, r)) = Members(list) \cup {r}
           /\ Once(list) /\ r \notin Members(list) => Once(Append(list, r))
<1>1. /\ <<r>> \in Seq(Regexes) /\ Members(<<r>>) = {r} /\ Once(<<r>>)
      /\ Append(list, r) = list \o <<r>>
      /\ Append(list, r) \in Seq(Regexes) /\ Len(Append(list, r)) = Len(list) + 1
    BY AppendIsConcat DEF Members, Once
<1>2. /\ Members(list \o <<r>>) = Members(list) \cup Members(<<r>>)
      /\ Once(list) /\ Once(<<r>>) /\ Members(list) \cap Members(<<r>>) = {} => Once(list \o <<r>>)
    BY <1>1, ConcatMembers
<1>3. QED BY <1>1, <1>2

(* Reading a file gives clusters of the regexes in it that parse.          *)
LEMMA FileIsLoaded ==
    ASSUME NEW lists \in Files
    PROVE  Loaded(ClustersOf(lists)) /\ \A r \in Held(ClustersOf(lists)) : Parses(r)
<1>1. /\ lists \in Seq(Seq(Regexes))
      /\ \A i, j \in DOMAIN lists : \A k \in DOMAIN lists[i], l \in DOMAIN lists[j] :
             lists[i][k] = lists[j][l] => i = j /\ k = l
    BY FilesAssumption
<1> DEFINE built == ClustersOf(lists)
<1>2. PICK m \in Nat : DOMAIN lists = 1 .. m
    BY <1>1
<1>3. /\ DOMAIN built = 1 .. m /\ built = [i \in 1 .. m |-> built[i]]
      /\ \A i \in 1 .. m : lists[i] \in Seq(Regexes) /\ built[i] = BuildCluster(lists[i])
    BY <1>1, <1>2 DEF ClustersOf
<1> HIDE DEF built
<1>4. ASSUME NEW i \in 1 .. m
      PROVE  /\ built[i] \in ClusterRecord /\ Aligned(built[i])
             /\ Once(built[i].entities)
             /\ Members(built[i].entities) \subseteq Members(lists[i])
             /\ \A r \in Members(built[i].entities) : Parses(r)
    <2>1. lists[i] \in Seq(Regexes) /\ built[i] = BuildCluster(lists[i])
        BY <1>3
    <2>2. Once(lists[i])
        BY <1>1, <1>2 DEF Once
    <2>3. built[i] \in ClusterRecord /\ Aligned(built[i]) /\ built[i].entities = Accepted(lists[i])
        BY <2>1, Built
    <2>4. QED BY <2>1, <2>2, <2>3, AcceptedMembers
<1>5. ASSUME NEW i \in 1 .. m, NEW j \in 1 .. m, i # j
      PROVE  Members(built[i].entities) \cap Members(built[j].entities) = {}
    <2>1. Members(lists[i]) \cap Members(lists[j]) = {}
        BY <1>1, <1>2, <1>5 DEF Members
    <2>2. QED BY <1>4, <2>1
<1>6. built \in Seq(ClusterRecord)
    <2>1. built \in [1 .. m -> ClusterRecord]
        BY <1>3, <1>4
    <2>2. QED BY <2>1
<1>7. Loaded(built)
    BY <1>3, <1>4, <1>5, <1>6 DEF Loaded, Distinct
<1>8. \A r \in Held(built) : Parses(r)
    BY <1>3, <1>4 DEF Held
<1>9. QED BY <1>7, <1>8 DEF built

(* The regexes of the file are in one list, each once, and parse.          *)
LEMMA Corpus ==
    ASSUME FileControl
    PROVE  /\ Patterns \in Seq(Regexes) /\ Once(Patterns)
           /\ Members(Patterns) = Held(file)
           /\ \A r \in Members(Patterns) : r \in Regexes /\ Parses(r)
           /\ IsFiniteSet(Members(Patterns)) /\ Cardinality(Members(Patterns)) = Len(Patterns)
<1>1. file \in Seq(ClusterRecord) /\ Distinct(file)
    BY DEF FileControl, Loaded
<1>2. Patterns \in Seq(Regexes) /\ Once(Patterns) /\ Members(Patterns) = Held(file)
    BY <1>1, UnpackedHeld DEF Patterns
<1>3. \A r \in Members(Patterns) : r \in Regexes
    BY <1>2 DEF Members
<1>4. IsFiniteSet(Members(Patterns)) /\ Cardinality(Members(Patterns)) = Len(Patterns)
    BY <1>2, MembersCount
<1>5. QED BY <1>2, <1>3, <1>4 DEF FileControl

(* The file is whole when building starts, whichever way it is built.      *)
LEMMA SafetyInit == Init => Safety
<1> SUFFICES ASSUME Init PROVE Safety
    OBVIOUS
<1>1. Loaded(file) /\ \A r \in Held(file) : Parses(r)
    <2>1. PICK lists \in Files : file = ClustersOf(lists)
        BY DEF Init
    <2>2. QED BY <2>1, FileIsLoaded
<1>2. FileControl
    BY <1>1 DEF Init, FileControl
<1>3. /\ Patterns \in Seq(Regexes) /\ Once(Patterns) /\ Members(Patterns) = Held(file)
      /\ Len(Patterns) \in Nat
    BY <1>2, Corpus
<1>4. /\ strings = <<>> /\ repo = <<>> /\ dropped = 0 /\ positive = {} /\ negative = {}
      /\ at = 1 /\ results = <<>> /\ skipped = 0
      /\ kind \in Kinds /\ skipTest \in BOOLEAN /\ pc \in {"place", "add"}
      /\ kind = "semantic" => left = {} /\ clusters = file /\ pc = "add"
      /\ kind # "semantic" => left = DOMAIN Patterns /\ clusters = <<>> /\ pc = "place"
    BY DEF Init
<1>5. file \in Seq(ClusterRecord) /\ clusters \in Seq(ClusterRecord)
    BY <1>1, <1>4, Empties DEF Loaded
<1>6. RepositoryTypeOK
    <2>1. left \subseteq DOMAIN Patterns /\ skipped \in 0 .. Len(repo) /\ at \in 1 .. Len(repo) + 1
        BY <1>4
    <2>2. QED BY <1>4, <1>5, <2>1, Empties DEF RepositoryTypeOK
<1>7. ListsControl
    BY <1>1, <1>4, Empties DEF ListsControl
<1>8. PlacingControl
    <2> SUFFICES ASSUME pc = "place" PROVE PlacingControl
        BY DEF PlacingControl
    <2>1. left = DOMAIN Patterns /\ clusters = <<>> /\ kind \in {"random", "packed"}
        BY <1>4 DEF Kinds
    <2>2. PlacedSoFar = {}
        BY <2>1 DEF PlacedSoFar
    <2>3. kind = "packed" =>
             /\ 0 \in 0 .. Len(Patterns) /\ left = 0 + 1 .. Len(Patterns)
             /\ Unpacked(clusters) = SubSeq(Patterns, 1, 0)
        <3>1. SubSeq(Patterns, 1, 0) = <<>>
            BY SubSeqEmpty
        <3>2. DOMAIN Patterns = 0 + 1 .. Len(Patterns) /\ 0 \in 0 .. Len(Patterns)
            BY <1>3
        <3>3. QED BY <2>1, <3>1, <3>2, Empties
    <2>4. DOMAIN clusters = {} /\ Len(strings) = 0
        BY <1>4, <2>1
    <2>5. file[1].size > 0 => Len(strings) < file[1].size
        BY <2>4
    <2>6. QED BY <1>4, <2>1, <2>2, <2>3, <2>4, <2>5, Empties DEF PlacingControl
<1>9. AddingControl
    <2> SUFFICES ASSUME pc # "place" PROVE AddingControl
        BY DEF AddingControl
    <2>1. kind = "semantic" /\ clusters = file /\ Held(repo) = {} /\ dropped = 0
        BY <1>4, Empties DEF Kinds
    <2>2. /\ Cardinality(Members(Patterns)) \in Nat /\ Cardinality(Held(repo)) = 0
          /\ Held(clusters) = Members(Patterns)
        BY <1>3, <2>1, MembersCount, Empties
    <2>3. QED BY <2>1, <2>2 DEF AddingControl
<1>10. QueryControl
    <2>1. 0 \in 0 .. 1 - 1
        OBVIOUS
    <2>2. QED BY <1>4, <2>1, Empties DEF QueryControl
<1>11. QED BY <1>2, <1>6, <1>7, <1>8, <1>9, <1>10 DEF Safety

-----------------------------------------------------------------------------
(* Building. *)

(* An element of a list with one more is that one or an old one.           *)
LEMMA AppendElements ==
    ASSUME NEW row \in Seq(ClusterRecord), NEW last \in ClusterRecord,
           NEW n \in DOMAIN Append(row, last)
    PROVE  \/ n = Len(row) + 1 /\ Append(row, last)[n] = last
           \/ n \in DOMAIN row /\ n <= Len(row) /\ Append(row, last)[n] = row[n]
<1>1. Len(row) \in Nat /\ DOMAIN row = 1 .. Len(row) /\ n \in 1 .. Len(row) + 1
    OBVIOUS
<1>2. CASE n = Len(row) + 1
    BY <1>1, <1>2, AppendProperties
<1>3. CASE n # Len(row) + 1
    <2>1. n \in 1 .. Len(row) /\ n <= Len(row)
        BY <1>1, <1>3
    <2>2. QED BY <1>1, <2>1, AppendProperties
<1>4. QED BY <1>2, <1>3

(* A regex that is dealt or packed was in no cluster before.               *)
LEMMA NewlyPlaced ==
    ASSUME RepositoryTypeOK, FileControl, PlacingControl, pc = "place",
           NEW i \in left, left' = left \ {i}, file' = file
    PROVE  /\ Patterns' = Patterns
           /\ Patterns[i] \in Regexes /\ Parses(Patterns[i])
           /\ Patterns[i] \notin Held(clusters) /\ Patterns[i] \notin Members(strings)
           /\ PlacedSoFar' = Held(clusters) \cup Members(strings) \cup {Patterns[i]}
           /\ \A r \in Members(strings) : Parses(r)
<1>1. /\ Patterns \in Seq(Regexes) /\ Once(Patterns)
      /\ \A r \in Members(Patterns) : r \in Regexes /\ Parses(r)
    BY Corpus
<1>2. i \in DOMAIN Patterns /\ left \subseteq DOMAIN Patterns
    BY DEF RepositoryTypeOK
<1>3. Patterns' = Patterns
    BY DEF Patterns
<1>4. PlacedSoFar = Held(clusters) \cup Members(strings)
    BY DEF PlacingControl
<1>5. Patterns[i] \in Members(Patterns) /\ PlacedSoFar \subseteq Members(Patterns)
    BY <1>2 DEF Members, PlacedSoFar
<1>6. Patterns[i] \notin PlacedSoFar
    BY <1>1, <1>2 DEF Once, PlacedSoFar
<1>7. PlacedSoFar' = PlacedSoFar \cup {Patterns[i]}
    <2>1. PlacedSoFar' = {Patterns[j] : j \in DOMAIN Patterns \ (left \ {i})}
        BY <1>3 DEF PlacedSoFar
    <2>2. DOMAIN Patterns \ (left \ {i}) = (DOMAIN Patterns \ left) \cup {i}
        BY <1>2
    <2>3. QED BY <2>1, <2>2 DEF PlacedSoFar
<1>8. QED BY <1>1, <1>3, <1>4, <1>5, <1>6, <1>7

(* Dealing puts the regex into the cluster being dealt, which is built of  *)
(* all its regexes when it is full.                                        *)
LEMMA SafetyDeal ==
    ASSUME Safety, NEW i \in left, Deal(i)
    PROVE  Safety'
<1> USE DEF Safety
<1> DEFINE r == Patterns[i]
           list == Append(strings, r)
<1>1. /\ kind = "random" /\ pc = "place" /\ left' = left \ {i}
      /\ UNCHANGED <<file, kind, skipTest, repo, dropped, pc, positive, negative,
                     at, results, skipped>>
      /\ IF Len(list) = file[1].size
         THEN clusters' = Append(clusters, BuildCluster(list)) /\ strings' = <<>>
         ELSE strings' = list /\ UNCHANGED clusters
    BY DEF Deal, AfterFull, source, querying
<1>2. /\ Patterns' = Patterns /\ r \in Regexes /\ Parses(r)
      /\ r \notin Held(clusters) /\ r \notin Members(strings)
      /\ PlacedSoFar' = Held(clusters) \cup Members(strings) \cup {r}
      /\ \A s \in Members(strings) : Parses(s)
    BY <1>1, NewlyPlaced
<1> HIDE DEF r
<1>3. /\ strings \in Seq(Regexes) /\ Once(strings) /\ Held(clusters) \cap Members(strings) = {}
      /\ file[1].size > 0 => Len(strings) < file[1].size
      /\ \A j \in DOMAIN clusters : ~clusters[j].closed
      /\ repo = <<>> /\ dropped = 0
    BY <1>1 DEF PlacingControl, RepositoryTypeOK
<1>4. /\ list \in Seq(Regexes) /\ Len(list) = Len(strings) + 1
      /\ Members(list) = Members(strings) \cup {r} /\ Once(list)
    BY <1>2, <1>3, AppendMembers
<1>5. clusters \in Seq(ClusterRecord) /\ Loaded(clusters)
    BY DEF ListsControl, Loaded
<1>6. file[1].size \in Nat
    <2>1. file \in Seq(ClusterRecord) /\ file # <<>>
        BY <1>1 DEF FileControl, Loaded
    <2>2. file[1] \in ClusterRecord
        BY <2>1
    <2>3. QED BY <2>2 DEF ClusterRecord
<1> HIDE DEF list
<1>7. /\ strings' \in Seq(Regexes) /\ Once(strings')
      /\ Loaded(clusters') /\ \A j \in DOMAIN clusters' : ~clusters'[j].closed
      /\ Held(clusters') \cup Members(strings') = Held(clusters) \cup Members(strings) \cup {r}
      /\ Held(clusters') \cap Members(strings') = {}
      /\ file[1].size > 0 => Len(strings') < file[1].size
    <2>1. CASE Len(list) = file[1].size
        <3> DEFINE cluster == BuildCluster(list)
                   longer == Append(clusters, cluster)
        <3>1. Accepted(list) = list
            BY <1>2, <1>4, AcceptedMembers
        <3>2. /\ cluster \in ClusterRecord /\ Aligned(cluster) /\ ~cluster.closed
              /\ cluster.entities = list
            BY <1>4, <3>1, Built
        <3>3. clusters' = longer /\ strings' = <<>>
            BY <1>1, <2>1
        <3> HIDE DEF cluster
        <3>4. /\ longer \in Seq(ClusterRecord)
              /\ Held(longer) = Held(clusters) \cup Members(list)
              /\ Distinct(longer) <=>
                    Distinct(clusters) /\ Once(list) /\ Held(clusters) \cap Members(list) = {}
            BY <1>5, <3>2, HeldAppend
        <3>5. Distinct(longer)
            BY <1>2, <1>3, <1>4, <1>5, <3>4 DEF Loaded
        <3>6. \A j \in DOMAIN longer : Aligned(longer[j]) /\ ~longer[j].closed
            <4>1. ASSUME NEW j \in DOMAIN longer
                  PROVE  longer[j] = cluster \/ (j \in DOMAIN clusters /\ longer[j] = clusters[j])
                BY <1>5, <3>2, AppendElements
            <4>2. QED BY <1>3, <1>5, <3>2, <4>1 DEF Loaded
        <3> HIDE DEF longer
        <3>7. Loaded(longer)
            BY <3>4, <3>5, <3>6 DEF Loaded
        <3>8. Len(strings') = 0
            BY <3>3
        <3>9. QED BY <1>4, <1>6, <3>3, <3>4, <3>6, <3>7, <3>8, Empties
    <2>2. CASE Len(list) # file[1].size
        <3>1. strings' = list /\ clusters' = clusters
            BY <1>1, <2>2
        <3>2. Len(strings) \in Nat
            BY <1>3
        <3>3. QED BY <1>2, <1>3, <1>4, <1>5, <1>6, <2>2, <3>1, <3>2
    <2>3. QED BY <2>1, <2>2
<1>8. clusters' \in Seq(ClusterRecord)
    BY <1>7 DEF Loaded
<1>9. RepositoryTypeOK'
    BY <1>1, <1>2, <1>7, <1>8 DEF RepositoryTypeOK
<1>10. FileControl' /\ ListsControl'
    BY <1>1, <1>7 DEF FileControl, ListsControl
<1>11. PlacingControl'
    BY <1>1, <1>2, <1>3, <1>7 DEF PlacingControl
<1>12. AddingControl'
    BY <1>1 DEF AddingControl
<1>13. QueryControl'
    BY <1>1 DEF QueryControl
<1>14. QED BY <1>9, <1>10, <1>11, <1>12, <1>13

(* A cluster for one regex.                                                *)
LEMMA NewCluster ==
    ASSUME NEW r \in Regexes, Parses(r)
    PROVE  LET cluster == AddEntity(BuildCluster(<<>>), r)
           IN /\ Adds(BuildCluster(<<>>), r)
              /\ cluster \in ClusterRecord /\ Aligned(cluster) /\ ~cluster.closed
              /\ cluster.entities = <<r>> /\ cluster.size = 1
<1> DEFINE none == BuildCluster(<<>>)
<1>1. Accepted(<<>>) = <<>>
    BY Empties, AcceptedMembers
<1>2. /\ none \in ClusterRecord /\ Aligned(none) /\ ~none.closed
      /\ none.entities = <<>> /\ none.size = 0
    BY <1>1, Built, Empties
<1> HIDE DEF none
<1>3. /\ Adds(none, r) /\ AddEntity(none, r) \in ClusterRecord /\ Aligned(AddEntity(none, r))
      /\ ~AddEntity(none, r).closed
      /\ AddEntity(none, r).entities = Append(none.entities, r)
      /\ AddEntity(none, r).size = none.size + 1
    BY <1>2, AddsAtEnd
<1>4. Append(none.entities, r) = <<r>>
    BY <1>2
<1>5. QED BY <1>2, <1>3, <1>4 DEF none

(* The regexes packed so far are the first of the file.                    *)
LEMMA PacksTheNext ==
    ASSUME FileControl, PlacingControl, pc = "place", kind = "packed",
           NEW i \in left, \A j \in left : i <= j
    PROVE  /\ i \in 0 .. Len(Patterns) /\ left \ {i} = i + 1 .. Len(Patterns)
           /\ Append(Unpacked(clusters), Patterns[i]) = SubSeq(Patterns, 1, i)
<1>1. Patterns \in Seq(Regexes) /\ Len(Patterns) \in Nat
    BY Corpus
<1>2. PICK k \in 0 .. Len(Patterns) :
         left = k + 1 .. Len(Patterns) /\ Unpacked(clusters) = SubSeq(Patterns, 1, k)
    BY DEF PlacingControl
<1>3. i = k + 1 /\ i \in 1 .. Len(Patterns) /\ i - 1 = k
    <2>1. i \in k + 1 .. Len(Patterns) /\ k + 1 \in k + 1 .. Len(Patterns)
        BY <1>1, <1>2
    <2>2. i <= k + 1
        BY <1>2, <2>1
    <2>3. QED BY <1>1, <1>2, <2>1, <2>2
<1>4. left \ {i} = i + 1 .. Len(Patterns) /\ i \in 0 .. Len(Patterns)
    BY <1>1, <1>2, <1>3
<1>5. SubSeq(Patterns, 1, i) = SubSeq(Patterns, 1, i - 1) \o <<Patterns[i]>>
    <2>1. 1 \in 1 .. Len(Patterns) /\ i \in 1 .. Len(Patterns)
        BY <1>1, <1>3
    <2>2. QED BY <1>1, <2>1, SubSeqRecursiveSecond
<1>6. SubSeq(Patterns, 1, k) \in Seq(Regexes) /\ Patterns[i] \in Regexes
    <2>1. \A j \in 1 .. k : Patterns[j] \in Regexes
        BY <1>1, <1>2
    <2>2. SubSeq(Patterns, 1, k) \in Seq(Regexes)
        BY <1>2, <2>1, SubSeqProperties
    <2>3. QED BY <1>1, <1>3, <2>2
<1>7. Append(SubSeq(Patterns, 1, k), Patterns[i]) = SubSeq(Patterns, 1, k) \o <<Patterns[i]>>
    BY <1>6, AppendIsConcat
<1>8. QED BY <1>2, <1>3, <1>4, <1>5, <1>7

(* Packing puts the regex into the last cluster if it has room, and else   *)
(* opens a new one, when all others are full.                              *)
LEMMA SafetyPack ==
    ASSUME Safety, NEW i \in left, Pack(i)
    PROVE  Safety'
<1> USE DEF Safety
<1> DEFINE r == Patterns[i]
           single == AddEntity(BuildCluster(<<>>), r)
<1>1. /\ kind = "packed" /\ pc = "place" /\ left' = left \ {i} /\ \A j \in left : i <= j
      /\ UNCHANGED <<file, kind, skipTest, strings, repo, dropped, pc, positive, negative,
                     at, results, skipped>>
    BY DEF Pack, source, querying
<1>2. /\ Patterns' = Patterns /\ r \in Regexes /\ Parses(r)
      /\ r \notin Held(clusters) /\ r \notin Members(strings)
      /\ PlacedSoFar' = Held(clusters) \cup Members(strings) \cup {r}
    BY <1>1, NewlyPlaced
<1>3. /\ i \in 0 .. Len(Patterns) /\ left' = i + 1 .. Len(Patterns)
      /\ Append(Unpacked(clusters), r) = SubSeq(Patterns, 1, i)
    BY <1>1, PacksTheNext
<1>4. /\ strings = <<>> /\ repo = <<>> /\ dropped = 0
      /\ \A j \in DOMAIN clusters : ~clusters[j].closed
      /\ \A j \in DOMAIN clusters :
            /\ clusters[j].size \in 1 .. MaxClusterSize
            /\ j < Len(clusters) => clusters[j].size = MaxClusterSize
    BY <1>1 DEF PlacingControl
<1>5. /\ clusters \in Seq(ClusterRecord) /\ Loaded(clusters) /\ Len(clusters) \in Nat
      /\ DOMAIN clusters = 1 .. Len(clusters)
    BY DEF ListsControl, Loaded
<1>6. /\ Adds(BuildCluster(<<>>), r)
      /\ single \in ClusterRecord /\ Aligned(single) /\ ~single.closed
      /\ single.entities = <<r>> /\ single.size = 1
    BY <1>2, NewCluster
<1>7. clusters' = IF HasRoom(clusters)
                  THEN [clusters EXCEPT ![Len(clusters)] = AddEntity(@, r)]
                  ELSE Append(clusters, single)
    BY <1>6 DEF Pack
<1> HIDE DEF r, single
<1> DEFINE Sized(list) == \A j \in DOMAIN list :
                              /\ list[j].size \in 1 .. MaxClusterSize
                              /\ j < Len(list) => list[j].size = MaxClusterSize
<1>8. /\ Loaded(clusters') /\ \A j \in DOMAIN clusters' : ~clusters'[j].closed
      /\ Held(clusters') = Held(clusters) \cup {r}
      /\ Unpacked(clusters') = Append(Unpacked(clusters), r)
      /\ Sized(clusters')
    <2>1. CASE HasRoom(clusters)
        <3> DEFINE n == Len(clusters)
                   c == clusters[n]
                   d == AddEntity(c, r)
                   more == [clusters EXCEPT ![n] = d]
        <3>1. /\ clusters # <<>> /\ n \in DOMAIN clusters /\ c.size < MaxClusterSize
              /\ c \in ClusterRecord /\ Aligned(c) /\ ~c.closed /\ c.size \in 1 .. MaxClusterSize
            <4>1. clusters # <<>> /\ c.size < MaxClusterSize
                BY <2>1 DEF HasRoom
            <4>2. n \in DOMAIN clusters
                BY <1>5, <4>1
            <4>3. QED BY <1>4, <1>5, <4>1, <4>2 DEF Loaded
        <3>2. /\ d \in ClusterRecord /\ Aligned(d) /\ ~d.closed
              /\ d.entities = Append(c.entities, r) /\ d.size = c.size + 1
            BY <1>2, <3>1, AddsAtEnd
        <3>3. clusters' = more
            BY <1>7, <2>1
        <3>4. /\ more \in Seq(ClusterRecord) /\ Len(more) = n /\ DOMAIN more = DOMAIN clusters
              /\ more[n] = d /\ \A j \in DOMAIN clusters : j # n => more[j] = clusters[j]
            BY <1>5, <3>1, <3>2
        <3> HIDE DEF d
        <3>5. /\ Held(more) = Held(clusters) \cup {r}
              /\ Distinct(clusters) /\ r \notin Held(clusters) => Distinct(more)
              /\ Unpacked(more) = Append(Unpacked(clusters), r)
            <4>1. /\ clusters \in Seq(ClusterRecord) /\ r \in Regexes /\ d \in ClusterRecord
                  /\ d.entities = Append(c.entities, r)
                  /\ LastBecomes(clusters, c, d, more)
                BY <1>2, <1>5, <3>1, <3>2 DEF LastBecomes
            <4> HIDE DEF c, more
            <4>2. QED BY <4>1, HeldAtTheBack
        <3> HIDE DEF n, c, more
        <3>6. \A j \in DOMAIN more : Aligned(more[j]) /\ ~more[j].closed
            BY <1>4, <1>5, <3>2, <3>4 DEF Loaded
        <3>7. Loaded(more)
            BY <1>2, <1>5, <3>4, <3>5, <3>6 DEF Loaded
        <3>8. d.size \in 1 .. MaxClusterSize
            BY <3>1, <3>2, MaxAssumption
        <3>9. Sized(more)
            BY <1>4, <3>4, <3>8 DEF n
        <3>10. QED BY <3>3, <3>5, <3>6, <3>7, <3>9
    <2>2. CASE ~HasRoom(clusters)
        <3> DEFINE longer == Append(clusters, single)
        <3>1. clusters' = longer
            BY <1>7, <2>2
        <3>2. \A j \in DOMAIN clusters : clusters[j].size = MaxClusterSize
            <4>1. ASSUME NEW j \in DOMAIN clusters PROVE clusters[j].size = MaxClusterSize
                <5>1. CASE j < Len(clusters)
                    BY <1>4, <5>1
                <5>2. CASE j = Len(clusters)
                    <6>1. clusters # <<>> /\ ~ (clusters[j].size < MaxClusterSize)
                        BY <1>5, <2>2, <5>2 DEF HasRoom
                    <6>2. QED BY <1>4, <6>1, MaxAssumption
                <5>3. QED BY <1>5, <5>1, <5>2
            <4>2. QED BY <4>1
        <3>3. /\ longer \in Seq(ClusterRecord)
              /\ Held(longer) = Held(clusters) \cup Members(<<r>>)
              /\ Distinct(longer) <=>
                    Distinct(clusters) /\ Once(<<r>>) /\ Held(clusters) \cap Members(<<r>>) = {}
            BY <1>5, <1>6, HeldAppend
        <3>4. Members(<<r>>) = {r} /\ Once(<<r>>)
            BY DEF Members, Once
        <3>5. Unpacked(longer) = Append(Unpacked(clusters), r)
            <4>1. Unpacked(longer) = Unpacked(clusters) \o <<r>>
                BY <1>5, <1>6, UnpackedAppend
            <4>2. Unpacked(clusters) \in Seq(Regexes)
                BY <1>5, UnpackedHeld
            <4>3. Append(Unpacked(clusters), r) = Unpacked(clusters) \o <<r>>
                BY <1>2, <4>2, AppendIsConcat
            <4>4. QED BY <4>1, <4>3
        <3>6. ASSUME NEW j \in DOMAIN longer
              PROVE  longer[j] = single \/ (j \in DOMAIN clusters /\ longer[j] = clusters[j])
            BY <1>5, <1>6, AppendElements
        <3>7. ASSUME NEW j \in DOMAIN longer, j < Len(longer)
              PROVE  j \in DOMAIN clusters /\ longer[j] = clusters[j]
            <4>1. Len(longer) = Len(clusters) + 1
                BY <1>5, <1>6
            <4>2. \/ j = Len(clusters) + 1 /\ longer[j] = single
                  \/ j \in DOMAIN clusters /\ j <= Len(clusters) /\ longer[j] = clusters[j]
                BY <1>5, <1>6, AppendElements
            <4>3. QED BY <1>5, <3>7, <4>1, <4>2
        <3> HIDE DEF longer
        <3>8. \A j \in DOMAIN longer : Aligned(longer[j]) /\ ~longer[j].closed
            BY <1>4, <1>5, <1>6, <3>6 DEF Loaded
        <3>9. Loaded(longer)
            BY <1>2, <1>5, <3>3, <3>4, <3>8 DEF Loaded
        <3>10. Sized(longer)
            <4>1. 1 \in 1 .. MaxClusterSize
                BY MaxAssumption
            <4>2. \A j \in DOMAIN longer : longer[j].size \in 1 .. MaxClusterSize
                BY <1>4, <1>6, <3>6, <4>1
            <4>3. QED BY <3>2, <3>7, <4>2
        <3>11. QED BY <3>1, <3>3, <3>4, <3>5, <3>8, <3>9, <3>10
    <2>3. QED BY <2>1, <2>2
<1>9. clusters' \in Seq(ClusterRecord)
    BY <1>8 DEF Loaded
<1>10. RepositoryTypeOK'
    BY <1>1, <1>2, <1>9 DEF RepositoryTypeOK
<1>11. FileControl' /\ ListsControl'
    BY <1>1, <1>8 DEF FileControl, ListsControl
<1>12. PlacingControl'
    <2>1. Members(strings) = {} /\ Once(strings)
        BY <1>4, Empties
    <2>2. \E k \in 0 .. Len(Patterns') :
             left' = k + 1 .. Len(Patterns') /\ Unpacked(clusters') = SubSeq(Patterns', 1, k)
        BY <1>2, <1>3, <1>8
    <2>3. PlacedSoFar' = Held(clusters') \cup Members(strings')
        BY <1>1, <1>2, <1>8
    <2>4. Sized(clusters')
        BY <1>8
    <2>5. QED BY <1>1, <1>4, <1>8, <2>1, <2>2, <2>3, <2>4 DEF PlacingControl
<1>13. AddingControl'
    BY <1>1 DEF AddingControl
<1>14. QueryControl'
    BY <1>1 DEF QueryControl
<1>15. QED BY <1>10, <1>11, <1>12, <1>13, <1>14

(* Two sets without a common element are as large together as one and the  *)
(* other.                                                                  *)
LEMMA ApartCount ==
    ASSUME NEW S, IsFiniteSet(S), NEW T, IsFiniteSet(T), S \cap T = {}
    PROVE  /\ IsFiniteSet(S \cup T) /\ Cardinality(S) \in Nat /\ Cardinality(T) \in Nat
           /\ Cardinality(S \cup T) = Cardinality(S) + Cardinality(T)
<1>1. Cardinality(S) \in Nat /\ Cardinality(T) \in Nat
    BY FS_CardinalityType
<1>2. /\ IsFiniteSet(S \cup T)
      /\ Cardinality(S \cup T) = Cardinality(S) + Cardinality(T) - Cardinality(S \cap T)
    BY FS_Union
<1>3. Cardinality(S \cap T) = 0
    BY FS_EmptySet
<1>4. QED BY <1>1, <1>2, <1>3

(* When all is dealt, what is in no cluster is less than a cluster has;    *)
(* when all is packed, nothing is.                                         *)
LEMMA SafetyFinishPlacing ==
    ASSUME Safety, FinishPlacing
    PROVE  Safety'
<1> USE DEF Safety
<1>1. /\ pc = "place" /\ left = {} /\ pc' = "add" /\ strings' = <<>>
      /\ UNCHANGED <<file, kind, skipTest, left, clusters, repo, dropped, positive, negative,
                     at, results, skipped>>
    BY DEF FinishPlacing, source, querying
<1>2. /\ Members(Patterns) = Held(clusters) \cup Members(strings)
      /\ strings \in Seq(Regexes) /\ Once(strings) /\ Held(clusters) \cap Members(strings) = {}
      /\ kind \in {"random", "packed"}
      /\ kind = "packed" => strings = <<>>
      /\ kind = "random" /\ file[1].size > 0 => Len(strings) < file[1].size
      /\ repo = <<>> /\ dropped = 0
    BY <1>1 DEF PlacingControl, PlacedSoFar, Members, RepositoryTypeOK
<1>3. Patterns' = Patterns /\ IsFiniteSet(Members(Patterns))
    BY <1>1, Corpus DEF Patterns
<1>4. RepositoryTypeOK'
    BY <1>1, <1>3, Empties DEF RepositoryTypeOK
<1>5. FileControl' /\ ListsControl' /\ PlacingControl'
    BY <1>1 DEF FileControl, ListsControl, PlacingControl
<1>6. AddingControl'
    <2> DEFINE here == Cardinality(Held(clusters))
               rest == Cardinality(Members(strings))
    <2>1. IsFiniteSet(Held(clusters)) /\ IsFiniteSet(Members(strings))
        BY <1>2, <1>3, FS_Subset
    <2>2. here \in Nat /\ rest \in Nat /\ Cardinality(Members(Patterns)) = here + rest
        BY <1>2, <2>1, ApartCount
    <2>3. rest = Len(strings)
        BY <1>2, MembersCount
    <2>4. kind = "packed" => rest = 0
        BY <1>2, Empties
    <2>5. Held(repo) = {} /\ Cardinality(Held(repo)) = 0
        BY <1>2, Empties
    <2>6. /\ Held(repo) \cap Held(clusters) = {}
          /\ Held(repo) \cup Held(clusters) \subseteq Members(Patterns)
        BY <1>2, <2>5
    <2> HIDE DEF here
    <2>7. kind = "random" /\ file[1].size > 0 =>
             Cardinality(Members(Patterns)) < 0 + here + 0 + file[1].size
        <3>1. SUFFICES ASSUME kind = "random", file[1].size > 0
                       PROVE  here + rest < 0 + here + 0 + file[1].size
            BY <2>2
        <3>2. file[1].size \in Nat
            <4>1. file \in Seq(ClusterRecord) /\ file # <<>>
                BY <3>1 DEF FileControl, Loaded
            <4>2. file[1] \in ClusterRecord
                BY <4>1
            <4>3. QED BY <4>2 DEF ClusterRecord
        <3>3. rest < file[1].size
            BY <1>2, <2>3, <3>1
        <3> HIDE DEF rest
        <3>4. QED BY <2>2, <3>2, <3>3
    <2>8. kind # "random" => Cardinality(Members(Patterns)) = 0 + here + 0
        BY <1>2, <2>2, <2>4
    <2>9. QED BY <1>1, <1>2, <1>3, <2>5, <2>6, <2>7, <2>8 DEF AddingControl, here
<1>7. QueryControl'
    BY <1>1 DEF QueryControl
<1>8. QED BY <1>4, <1>5, <1>6, <1>7

(* A regex of a cluster that is added is in the repository, or is counted  *)
(* with those that are gone.                                               *)
LEMMA SafetyAddCluster ==
    ASSUME Safety, AddCluster
    PROVE  Safety'
<1> USE DEF Safety
<1> DEFINE c == Head(clusters)
           rest == Tail(clusters)
<1>1. /\ pc = "add" /\ clusters # <<>> /\ clusters' = rest
      /\ UNCHANGED <<file, kind, skipTest, left, strings, pc, positive, negative,
                     at, results, skipped>>
    BY DEF AddCluster, source, querying
<1>2. PICK d \in CompileOutcomes(c) :
         IF d.compiled THEN repo' = Append(repo, d) /\ UNCHANGED dropped
         ELSE dropped' = dropped + d.size /\ UNCHANGED repo
    BY DEF AddCluster
<1>3. /\ clusters \in Seq(ClusterRecord) /\ Loaded(clusters)
      /\ repo \in Seq(ClusterRecord) /\ Loaded(repo) /\ \A i \in DOMAIN repo : repo[i].compiled
      /\ dropped \in Nat
    BY DEF ListsControl, Loaded, RepositoryTypeOK
<1>4. /\ c \in ClusterRecord /\ rest \in Seq(ClusterRecord)
      /\ c = clusters[1] /\ 1 \in DOMAIN clusters
      /\ \A i \in DOMAIN rest : i + 1 \in DOMAIN clusters /\ rest[i] = clusters[i + 1]
      /\ Held(clusters) = Members(c.entities) \cup Held(rest)
      /\ Distinct(rest) /\ Once(c.entities) /\ Members(c.entities) \cap Held(rest) = {}
    BY <1>1, <1>3, HeldTail DEF Loaded
<1>5. Aligned(c) /\ \A i \in DOMAIN rest : Aligned(rest[i])
    BY <1>3, <1>4 DEF Loaded
<1>6. Loaded(rest)
    BY <1>4, <1>5 DEF Loaded
<1> HIDE DEF c, rest
<1>7. d \in ClusterRecord /\ Aligned(d) /\ d.entities = c.entities /\ d.size = c.size
    BY <1>2, <1>4, <1>5, CompilesInPlace
<1>8. /\ Patterns' = Patterns /\ IsFiniteSet(Members(Patterns))
      /\ Cardinality(Members(Patterns)) \in Nat
    <2>1. Patterns' = Patterns
        BY <1>1 DEF Patterns
    <2>2. IsFiniteSet(Members(Patterns))
        BY Corpus
    <2>3. QED BY <2>1, <2>2, FS_CardinalityType
<1>9. /\ Held(repo) \cap Held(clusters) = {}
      /\ Held(repo) \cup Held(clusters) \subseteq Members(Patterns)
      /\ kind = "random" /\ file[1].size > 0 =>
            Cardinality(Members(Patterns)) <
               Cardinality(Held(repo)) + Cardinality(Held(clusters)) + dropped + file[1].size
      /\ kind # "random" =>
            Cardinality(Members(Patterns)) =
               Cardinality(Held(repo)) + Cardinality(Held(clusters)) + dropped
    BY <1>1 DEF AddingControl
<1> DEFINE mine == Members(c.entities)
<1>10. /\ Cardinality(mine) = d.size /\ d.size \in Nat
       /\ Cardinality(Held(clusters)) = d.size + Cardinality(Held(rest))
       /\ Cardinality(Held(rest)) \in Nat /\ Cardinality(Held(repo)) \in Nat
       /\ IsFiniteSet(mine) /\ IsFiniteSet(Held(repo))
    <2>1. c.entities \in Seq(Regexes) /\ c.size \in Nat
        BY <1>4 DEF ClusterRecord
    <2>2. IsFiniteSet(mine) /\ IsFiniteSet(Held(rest)) /\ IsFiniteSet(Held(repo))
        BY <1>4, <1>8, <1>9, FS_Subset
    <2>3. Cardinality(mine) = Len(c.entities)
        BY <1>4, <2>1, MembersCount
    <2>4. Len(c.entities) = d.size
        BY <1>5, <1>7 DEF Aligned
    <2>5. /\ Cardinality(mine \cup Held(rest)) = Cardinality(mine) + Cardinality(Held(rest))
          /\ Cardinality(Held(rest)) \in Nat
        BY <1>4, <2>2, ApartCount
    <2>6. Cardinality(Held(repo)) \in Nat
        BY <2>2, FS_CardinalityType
    <2>7. QED BY <1>4, <1>7, <2>1, <2>2, <2>3, <2>4, <2>5, <2>6
<1>11. /\ Loaded(repo') /\ \A i \in DOMAIN repo' : repo'[i].compiled
       /\ dropped' \in Nat
       /\ Held(repo') \cap Held(rest) = {}
       /\ Held(repo') \cup Held(rest) \subseteq Members(Patterns)
       /\ Cardinality(Held(repo')) + Cardinality(Held(rest)) + dropped' =
             Cardinality(Held(repo)) + Cardinality(Held(clusters)) + dropped
    <2>1. CASE d.compiled
        <3> DEFINE longer == Append(repo, d)
        <3>1. repo' = longer /\ dropped' = dropped
            BY <1>2, <2>1
        <3>2. /\ longer \in Seq(ClusterRecord)
              /\ Held(longer) = Held(repo) \cup Members(d.entities)
              /\ Distinct(longer) <=>
                    Distinct(repo) /\ Once(d.entities) /\ Held(repo) \cap Members(d.entities) = {}
            BY <1>3, <1>7, HeldAppend
        <3>3. Held(repo) \cap mine = {}
            BY <1>4, <1>9
        <3>4. Distinct(longer) /\ Held(longer) = Held(repo) \cup mine
            BY <1>3, <1>4, <1>7, <3>2, <3>3 DEF Loaded
        <3>5. ASSUME NEW j \in DOMAIN longer
              PROVE  longer[j] = d \/ (j \in DOMAIN repo /\ longer[j] = repo[j])
            BY <1>3, <1>7, AppendElements
        <3> HIDE DEF longer, mine
        <3>6. \A j \in DOMAIN longer : Aligned(longer[j]) /\ longer[j].compiled
            BY <1>3, <1>7, <2>1, <3>5 DEF Loaded
        <3>7. Loaded(longer)
            BY <3>2, <3>4, <3>6 DEF Loaded
        <3>8. Cardinality(Held(longer)) = Cardinality(Held(repo)) + d.size
            BY <1>10, <3>3, <3>4, ApartCount
        <3>9. Held(longer) \cap Held(rest) = {} /\ Held(longer) \cup Held(rest) \subseteq Members(Patterns)
            BY <1>4, <1>9, <3>4 DEF mine
        <3>10. Cardinality(Held(longer)) + Cardinality(Held(rest)) + dropped =
                  Cardinality(Held(repo)) + Cardinality(Held(clusters)) + dropped
            BY <1>3, <1>10, <3>8
        <3>11. QED BY <1>3, <3>1, <3>6, <3>7, <3>9, <3>10
    <2>2. CASE ~d.compiled
        <3>1. repo' = repo /\ dropped' = dropped + d.size
            BY <1>2, <2>2
        <3>2. dropped' \in Nat
            BY <1>3, <1>10, <3>1
        <3>3. Held(repo) \cap Held(rest) = {} /\ Held(repo) \cup Held(rest) \subseteq Members(Patterns)
            BY <1>4, <1>9
        <3>4. Cardinality(Held(repo)) + Cardinality(Held(rest)) + (dropped + d.size) =
                 Cardinality(Held(repo)) + Cardinality(Held(clusters)) + dropped
            BY <1>3, <1>10
        <3>5. QED BY <1>3, <3>1, <3>2, <3>3, <3>4
    <2>3. QED BY <2>1, <2>2
<1>12. repo' \in Seq(ClusterRecord) /\ clusters' \in Seq(ClusterRecord) /\ Len(repo') \in Nat
    BY <1>1, <1>4, <1>11 DEF Loaded
<1>13. /\ at = 1 /\ skipped = 0
    BY <1>1 DEF QueryControl
<1>14. RepositoryTypeOK'
    <2>1. at' \in 1 .. Len(repo') + 1 /\ skipped' \in 0 .. Len(repo')
        BY <1>1, <1>12, <1>13
    <2>2. QED BY <1>1, <1>8, <1>11, <1>12, <2>1 DEF RepositoryTypeOK
<1>15. FileControl' /\ ListsControl' /\ PlacingControl'
    BY <1>1, <1>6, <1>11 DEF FileControl, ListsControl, PlacingControl
<1>16. AddingControl'
    BY <1>1, <1>8, <1>9, <1>11 DEF AddingControl
<1>17. QueryControl'
    BY <1>1 DEF QueryControl
<1>18. QED BY <1>14, <1>15, <1>16, <1>17

-----------------------------------------------------------------------------
(* Querying. *)

(* A cluster that is asked answers those of its regexes that fit; one that *)
(* is skipped for its test has none.                                       *)
LEMMA AnswerFits ==
    ASSUME NEW c \in ClusterRecord, Aligned(c)
    PROVE  /\ Answer(c) \in Seq(Regexes)
           /\ Members(Answer(c)) = {r \in Members(c.entities) : Fits(r)}
           /\ Once(c.entities) => Once(Answer(c))
           /\ ~Test(c) => \A r \in Members(c.entities) : ~Fits(r)
<1> DEFINE list == c.entities
           m == Len(list)
           chosen == {i \in 1 .. m : Fits(list[i])}
<1>1. /\ list \in Seq(Regexes) /\ m \in Nat /\ DOMAIN list = 1 .. m
      /\ c.set = list /\ c.size = m
    BY DEF ClusterRecord, Aligned
<1>2. \A x : Hits(c, x) = {i \in 1 .. m : x \in Language[list[i]]}
    BY <1>1 DEF Hits
<1> HIDE DEF list, m
<1>3. Answer(c) = At(list, chosen)
    <2> DEFINE asked == {i \in 1 .. m : (\A x \in positive : i \in Hits(c, x))
                                     /\ (\A x \in negative : i \notin Hits(c, x))}
    <2>1. ASSUME NEW i \in 1 .. m PROVE i \in asked <=> i \in chosen
        BY <1>2 DEF Fits
    <2>2. asked = chosen
        BY <2>1
    <2>3. Answer(c) = At(list, asked)
        BY <1>1 DEF Answer, list
    <2>4. QED BY <2>2, <2>3
<1>4. {list[i] : i \in chosen} = {r \in Members(list) : Fits(r)}
    BY <1>1 DEF Members
<1>5. chosen \in SUBSET (1 .. m)
    OBVIOUS
<1> HIDE DEF chosen
<1>6. /\ At(list, chosen) \in Seq(Regexes)
      /\ Members(At(list, chosen)) = {list[i] : i \in chosen}
      /\ Once(list) => Once(At(list, chosen))
    BY <1>1, <1>5, AtMembers DEF m
<1>7. ASSUME ~Test(c), NEW r \in Members(list) PROVE ~Fits(r)
    <2>1. PICK i \in 1 .. m : r = list[i]
        BY <1>1 DEF Members
    <2>2. CASE \E x \in positive : Hits(c, x) = {}
        <3>1. PICK x \in positive : i \notin Hits(c, x)
            BY <2>2
        <3>2. x \notin Language[r]
            BY <1>2, <2>1, <3>1
        <3>3. QED BY <3>2 DEF Fits
    <2>3. CASE \E x \in negative : Cardinality(Hits(c, x)) = m
        <3>1. PICK x \in negative : Cardinality(Hits(c, x)) = m
            BY <2>3
        <3>2. IsFiniteSet(1 .. m) /\ Cardinality(1 .. m) = m
            BY <1>1, Counting
        <3>3. Hits(c, x) \in SUBSET (1 .. m)
            BY <1>2
        <3>4. 1 .. m = Hits(c, x)
            BY <3>1, <3>2, <3>3, FS_Subset
        <3>5. x \in Language[r]
            BY <1>2, <2>1, <3>4
        <3>6. QED BY <3>5 DEF Fits
    <2>4. QED BY <1>1, <1>7, <2>2, <2>3 DEF Test
<1>8. QED BY <1>3, <1>4, <1>6, <1>7 DEF list

(* A query begins with nothing found and nothing skipped.                  *)
LEMMA SafetyStartQuery ==
    ASSUME Safety, StartQuery
    PROVE  Safety'
<1> USE DEF Safety
<1>1. /\ pc \in {"add", "answered"} /\ clusters = <<>>
      /\ positive' \in SUBSET Examples /\ negative' \in SUBSET Examples
      /\ pc' = "query" /\ at' = 1 /\ results' = <<>> /\ skipped' = 0
      /\ UNCHANGED <<file, kind, skipTest, left, strings, clusters, repo, dropped>>
    BY DEF StartQuery, SkippedAtStart, source, placing, QueryControl
<1>2. Patterns' = Patterns
    BY <1>1 DEF Patterns
<1>3. RepositoryTypeOK'
    <2>1. Len(repo) \in Nat
        BY DEF RepositoryTypeOK
    <2>2. at' \in 1 .. Len(repo') + 1 /\ skipped' \in 0 .. Len(repo')
        BY <1>1, <2>1
    <2>3. QED BY <1>1, <1>2, <2>2, Empties DEF RepositoryTypeOK
<1>4. FileControl' /\ ListsControl' /\ PlacingControl'
    BY <1>1 DEF FileControl, ListsControl, PlacingControl
<1>5. AddingControl'
    BY <1>1, <1>2 DEF AddingControl
<1>6. QueryControl'
    <2>1. 0 \in 0 .. 1 - 1 /\ 1 .. 1 - 1 = {}
        OBVIOUS
    <2>2. {r \in Regexes : Fits(r)' /\ \E i \in 1 .. at' - 1 : r \in Members(repo'[i].entities)} = {}
        BY <1>1, <2>1
    <2>3. Members(results') = {} /\ Once(results')
        BY <1>1, Empties
    <2>4. QED BY <1>1, <2>1, <2>2, <2>3 DEF QueryControl
<1>7. QED BY <1>3, <1>4, <1>5, <1>6

(* The answer of the next cluster comes before the others; a cluster that  *)
(* is skipped has nothing to add.                                          *)
LEMMA SafetyQueryCluster ==
    ASSUME Safety, QueryCluster
    PROVE  Safety'
<1> USE DEF Safety
<1> DEFINE c == repo[at]
           found == Members(results)
           Fitting(list) == {r \in Members(list) : Fits(r)}
<1>1. /\ pc = "query" /\ at <= Len(repo) /\ at' = at + 1
      /\ IF skipTest \/ Test(c)
         THEN results' = Answer(c) \o results /\ UNCHANGED skipped
         ELSE skipped' = skipped + 1 /\ UNCHANGED results
      /\ UNCHANGED <<file, kind, skipTest, left, strings, clusters, repo, dropped, pc,
                     positive, negative>>
    BY DEF QueryCluster, source, placing
<1>2. /\ repo \in Seq(ClusterRecord) /\ Loaded(repo) /\ Len(repo) \in Nat
      /\ DOMAIN repo = 1 .. Len(repo) /\ at \in 1 .. Len(repo) /\ skipped \in 0 .. at - 1
      /\ results \in Seq(Regexes) /\ Once(results)
    BY <1>1 DEF ListsControl, Loaded, RepositoryTypeOK, QueryControl
<1>3. /\ clusters = <<>>
      /\ found = {r \in Regexes : Fits(r) /\ \E i \in 1 .. at - 1 : r \in Members(repo[i].entities)}
    BY <1>1 DEF QueryControl
<1>4. c \in ClusterRecord /\ Aligned(c) /\ Once(c.entities) /\ c.entities \in Seq(Regexes)
    <2>1. c \in ClusterRecord /\ Aligned(c) /\ Once(c.entities)
        BY <1>2 DEF Loaded, Distinct
    <2>2. QED BY <2>1 DEF ClusterRecord
<1>5. found \cap Members(c.entities) = {}
    <2>1. \A i \in 1 .. at - 1 : i \in DOMAIN repo /\ i # at
        BY <1>2
    <2>2. \A i \in 1 .. at - 1 : Members(repo[i].entities) \cap Members(c.entities) = {}
        BY <1>2, <2>1 DEF Loaded, Distinct
    <2>3. QED BY <1>3, <2>2
<1>6. /\ Answer(c) \in Seq(Regexes) /\ Members(Answer(c)) = Fitting(c.entities)
      /\ Once(Answer(c))
      /\ ~Test(c) => Fitting(c.entities) = {}
    <2>1. ~Test(c) => \A r \in Members(c.entities) : ~Fits(r)
        BY <1>4, AnswerFits
    <2>2. QED BY <1>4, <2>1, AnswerFits
<1>7. /\ results' \in Seq(Regexes) /\ Once(results')
      /\ Members(results') = found \cup Fitting(c.entities)
      /\ skipped' \in 0 .. at
    <2>1. CASE skipTest \/ Test(c)
        <3>1. results' = Answer(c) \o results /\ skipped' = skipped
            BY <1>1, <2>1
        <3>2. Members(Answer(c)) \cap found = {}
            BY <1>5, <1>6
        <3>3. /\ Members(Answer(c) \o results) = Members(Answer(c)) \cup found
              /\ Once(Answer(c) \o results) /\ Answer(c) \o results \in Seq(Regexes)
            BY <1>2, <1>6, <3>2, ConcatMembers, ConcatProperties
        <3>4. QED BY <1>2, <1>6, <3>1, <3>3
    <2>2. CASE ~ (skipTest \/ Test(c))
        <3>1. results' = results /\ skipped' = skipped + 1
            BY <1>1, <2>2
        <3>2. QED BY <1>2, <1>6, <2>2, <3>1
    <2>3. QED BY <2>1, <2>2
<1>8. found \cup Fitting(c.entities) =
         {r \in Regexes : Fits(r) /\ \E i \in 1 .. at : r \in Members(repo[i].entities)}
    <2>1. 1 .. at = (1 .. at - 1) \cup {at}
        BY <1>2
    <2>2. \A r \in Members(c.entities) : r \in Regexes
        BY <1>4 DEF Members
    <2>3. QED BY <1>3, <2>1, <2>2
<1> HIDE DEF c, found, Fitting
<1>9. at' \in 1 .. Len(repo) + 1 /\ skipped' \in 0 .. Len(repo) /\ at' - 1 = at
    BY <1>1, <1>2, <1>7
<1>10. Patterns' = Patterns
    BY <1>1 DEF Patterns
<1>11. RepositoryTypeOK'
    BY <1>1, <1>7, <1>9, <1>10 DEF RepositoryTypeOK
<1>12. FileControl' /\ ListsControl' /\ PlacingControl'
    BY <1>1 DEF FileControl, ListsControl, PlacingControl
<1>13. AddingControl'
    BY <1>1, <1>10 DEF AddingControl
<1>14. QueryControl'
    <2>1. \A r : Fits(r)' <=> Fits(r)
        BY <1>1 DEF Fits
    <2>2. Members(results') =
             {r \in Regexes : Fits(r)' /\ \E i \in 1 .. at' - 1 : r \in Members(repo'[i].entities)}
        BY <1>1, <1>7, <1>8, <1>9, <2>1
    <2>3. skipped' \in 0 .. at' - 1
        BY <1>7, <1>9
    <2>4. QED BY <1>1, <1>3, <1>7, <2>2, <2>3 DEF QueryControl
<1>15. QED BY <1>11, <1>12, <1>13, <1>14

(* The loop has seen every cluster when it ends.                           *)
LEMMA SafetyFinishQuery ==
    ASSUME Safety, FinishQuery
    PROVE  Safety'
<1> USE DEF Safety
<1>1. /\ pc = "query" /\ at > Len(repo) /\ pc' = "answered"
      /\ UNCHANGED <<file, kind, skipTest, left, strings, clusters, repo, dropped,
                     positive, negative, at, results, skipped>>
    BY DEF FinishQuery, source, placing, querying
<1>2. Patterns' = Patterns
    BY <1>1 DEF Patterns
<1>3. at = Len(repo) + 1
    BY <1>1 DEF RepositoryTypeOK
<1>4. RepositoryTypeOK'
    BY <1>1, <1>2 DEF RepositoryTypeOK
<1>5. FileControl' /\ ListsControl' /\ PlacingControl'
    BY <1>1 DEF FileControl, ListsControl, PlacingControl
<1>6. AddingControl'
    BY <1>1, <1>2 DEF AddingControl
<1>7. QueryControl'
    BY <1>1, <1>3 DEF QueryControl, Fits
<1>8. QED BY <1>4, <1>5, <1>6, <1>7

(* Safety is inductive.                                                    *)
LEMMA SafetyStep == Safety /\ [Next]_vars => Safety'
<1> SUFFICES ASSUME Safety, [Next]_vars PROVE Safety'
    OBVIOUS
<1>1. ASSUME NEW i \in left, Deal(i) PROVE Safety'
    BY <1>1, SafetyDeal
<1>2. ASSUME NEW i \in left, Pack(i) PROVE Safety'
    BY <1>2, SafetyPack
<1>3. CASE FinishPlacing
    BY <1>3, SafetyFinishPlacing
<1>4. CASE AddCluster
    BY <1>4, SafetyAddCluster
<1>5. CASE StartQuery
    BY <1>5, SafetyStartQuery
<1>6. CASE QueryCluster
    BY <1>6, SafetyQueryCluster
<1>7. CASE FinishQuery
    BY <1>7, SafetyFinishQuery
<1>8. CASE UNCHANGED vars
    <2> USE DEF Safety
    <2>1. UNCHANGED <<file, kind, skipTest, left, strings, clusters, repo, dropped, pc,
                      positive, negative, at, results, skipped>>
        BY <1>8 DEF vars, source, placing, querying
    <2>2. Patterns' = Patterns /\ PlacedSoFar' = PlacedSoFar
        BY <2>1 DEF PlacedSoFar, Patterns
    <2>3. RepositoryTypeOK'
        BY <2>1, <2>2 DEF RepositoryTypeOK
    <2>4. FileControl' /\ ListsControl'
        BY <2>1 DEF FileControl, ListsControl
    <2>5. PlacingControl'
        BY <2>1, <2>2 DEF PlacingControl
    <2>6. AddingControl'
        BY <2>1, <2>2 DEF AddingControl
    <2>7. QueryControl'
        BY <2>1 DEF QueryControl, Fits
    <2>8. QED BY <2>3, <2>4, <2>5, <2>6, <2>7
<1>9. QED BY <1>1, <1>2, <1>3, <1>4, <1>5, <1>6, <1>7, <1>8 DEF Next

LEMMA SafetyInvariant == Spec => []Safety
<1>1. QED BY SafetyInit, SafetyStep, PTL DEF Spec

-----------------------------------------------------------------------------
(* The properties. *)

(* Whatever the file holds and however it is clustered, every variable     *)
(* keeps its type: deep_query's loop stays within the clusters of the      *)
(* repository and skips no more of them than there are.                    *)
THEOREM RepositoryTypeCorrect == Spec => []RepositoryTypeOK
<1>1. Safety => RepositoryTypeOK
    BY DEF Safety
<1>2. QED BY <1>1, SafetyInvariant, PTL

(* The positions that RE2::Set answers are those of the entities, in every *)
(* cluster of the file, being built or in the repository, and what the     *)
(* repository holds has been compiled.                                     *)
THEOREM ClustersAlwaysAgree == Spec => []ClustersAgree
<1>1. Safety => ClustersAgree
    BY DEF Safety, FileControl, ListsControl, Loaded, ClustersAgree
<1>2. QED BY <1>1, SafetyInvariant, PTL

(* The packing constructor keeps every regex, in order, in clusters that   *)
(* are full but for the last; randomize_clusters deals each regex to one   *)
(* cluster, and fewer than a cluster has are left over.                    *)
THEOREM NothingIsLost == Spec => []NothingLost
<1>1. ASSUME Safety, pc = "place", kind = "packed"
      PROVE  /\ Unpacked(clusters) =
                    Accepted(SubSeq(Patterns, 1, Len(Patterns) - Cardinality(left)))
             /\ \A i \in DOMAIN clusters :
                    /\ clusters[i].size \in 1 .. MaxClusterSize
                    /\ i < Len(clusters) => clusters[i].size = MaxClusterSize
    <2>1. /\ \A i \in DOMAIN clusters :
                /\ clusters[i].size \in 1 .. MaxClusterSize
                /\ i < Len(clusters) => clusters[i].size = MaxClusterSize
          /\ Held(clusters) \subseteq PlacedSoFar
        BY <1>1 DEF Safety, PlacingControl
    <2>2. PICK k \in 0 .. Len(Patterns) :
             left = k + 1 .. Len(Patterns) /\ Unpacked(clusters) = SubSeq(Patterns, 1, k)
        BY <1>1 DEF Safety, PlacingControl
    <2>3. Len(Patterns) \in Nat /\ \A r \in Members(Patterns) : Parses(r)
        BY <1>1, Corpus DEF Safety
    <2>4. Len(Patterns) - Cardinality(left) = k
        <3>1. PICK first \in Int, last \in Int : first = k + 1 /\ last = Len(Patterns)
            BY <2>3
        <3>2. Cardinality(first .. last) = IF first > last THEN 0 ELSE last - first + 1
            BY FS_Interval
        <3>3. QED BY <2>2, <2>3, <3>1, <3>2
    <2>5. /\ Unpacked(clusters) \in Seq(Regexes)
          /\ Members(Unpacked(clusters)) = Held(clusters)
        BY <1>1, UnpackedHeld DEF Safety, RepositoryTypeOK
    <2>6. PlacedSoFar \subseteq Members(Patterns)
        BY DEF PlacedSoFar, Members
    <2>7. \A r \in Members(Unpacked(clusters)) : Parses(r)
        BY <2>1, <2>3, <2>5, <2>6
    <2>8. Accepted(Unpacked(clusters)) = Unpacked(clusters)
        BY <2>5, <2>7, AcceptedMembers
    <2>9. QED BY <2>1, <2>2, <2>4, <2>8
<1>2. ASSUME Safety, pc = "place", kind = "random"
      PROVE  /\ PlacedSoFar = InClusters(clusters) \cup Members(strings)
             /\ Cardinality(PlacedSoFar) = Len(Unpacked(clusters)) + Len(strings)
             /\ file[1].size > 0 => Len(strings) < file[1].size
    <2>1. /\ PlacedSoFar = Held(clusters) \cup Members(strings)
          /\ Once(strings) /\ Held(clusters) \cap Members(strings) = {}
          /\ file[1].size > 0 => Len(strings) < file[1].size
        BY <1>2 DEF Safety, PlacingControl
    <2>2. /\ clusters \in Seq(ClusterRecord) /\ strings \in Seq(Regexes)
          /\ Distinct(clusters)
        BY <1>2 DEF Safety, ListsControl, Loaded, RepositoryTypeOK
    <2>3. /\ Unpacked(clusters) \in Seq(Regexes) /\ Once(Unpacked(clusters))
          /\ InClusters(clusters) = Held(clusters)
        BY <2>2, UnpackedHeld DEF InClusters
    <2>4. /\ IsFiniteSet(Held(clusters)) /\ Cardinality(Held(clusters)) = Len(Unpacked(clusters))
          /\ IsFiniteSet(Members(strings)) /\ Cardinality(Members(strings)) = Len(strings)
        BY <2>1, <2>2, <2>3, MembersCount DEF InClusters
    <2>5. Cardinality(PlacedSoFar) = Len(Unpacked(clusters)) + Len(strings)
        BY <2>1, <2>4, ApartCount
    <2>6. QED BY <2>1, <2>3, <2>5
<1>3. Safety => NothingLost
    BY <1>1, <1>2 DEF NothingLost
<1>4. QED BY <1>3, SafetyInvariant, PTL

(* A MatchQuery whose miss score allows no example on the wrong side       *)
(* accepts what fits.                                                      *)
LEMMA MissesNone ==
    ASSUME RepositoryTypeOK, NEW r \in Regexes
    PROVE  Misses(r) <= 0 <=> Fits(r)
<1> DEFINE missed == positive \ Language[r]
           wrong == negative \cap Language[r]
<1>1. missed \in SUBSET Examples /\ wrong \in SUBSET Examples
    BY DEF RepositoryTypeOK
<1>2. IsFiniteSet(missed) /\ IsFiniteSet(wrong)
    BY <1>1, ExamplesAssumption, FS_Subset
<1>3. /\ Cardinality(missed) \in Nat /\ Cardinality(wrong) \in Nat
      /\ Cardinality(missed) = 0 <=> missed = {}
      /\ Cardinality(wrong) = 0 <=> wrong = {}
    BY <1>2, FS_CardinalityType, FS_EmptySet
<1>4. Fits(r) <=> missed = {} /\ wrong = {}
    BY DEF Fits
<1>5. Misses(r) = Cardinality(missed) + Cardinality(wrong)
    BY DEF Misses
<1> HIDE DEF missed, wrong
<1>6. QED BY <1>3, <1>4, <1>5

(* Clustering is no more than a way to be faster: from the clusters of a   *)
(* file, from random or packed ones, with the test or without, a query     *)
(* answers the regexes that a query of one regex at a time does, each      *)
(* once, but for those of clusters that did not compile and the remainder  *)
(* of a shuffled corpus.                                                   *)
THEOREM AllRepositoriesAgree == Spec => []RepositoriesAgree
<1> SUFFICES ASSUME Safety, pc = "answered"
             PROVE  /\ Members(results) \ Refused = SerialAnswer \cap InClusters(repo)
                    /\ Cardinality(Members(results)) = Len(results)
                    /\ kind # "random" =>
                          Cardinality(Members(Patterns)) = Cardinality(InClusters(repo)) + dropped
                    /\ kind = "random" /\ file[1].size > 0 =>
                          Cardinality(Members(Patterns)) <
                              Cardinality(InClusters(repo)) + dropped + file[1].size
    <2>1. SUFFICES Safety => RepositoriesAgree
        BY SafetyInvariant, PTL
    <2>2. QED BY DEF RepositoriesAgree
<1>1. /\ repo \in Seq(ClusterRecord) /\ results \in Seq(Regexes) /\ Once(results)
      /\ clusters = <<>> /\ at = Len(repo) + 1 /\ dropped \in Nat
    BY DEF Safety, RepositoryTypeOK, QueryControl
<1>2. InClusters(repo) = Held(repo)
    BY <1>1, UnpackedHeld DEF InClusters
<1>3. Held(clusters) = {} /\ Cardinality(Held(clusters)) = 0
    BY <1>1, Empties
<1>4. /\ Held(repo) \subseteq Members(Patterns)
      /\ kind = "random" /\ file[1].size > 0 =>
            Cardinality(Members(Patterns)) < Cardinality(Held(repo)) + 0 + dropped + file[1].size
      /\ kind # "random" =>
            Cardinality(Members(Patterns)) = Cardinality(Held(repo)) + 0 + dropped
    BY <1>3 DEF Safety, AddingControl
<1>5. /\ IsFiniteSet(Held(repo)) /\ Cardinality(Held(repo)) \in Nat
      /\ \A r \in Members(Patterns) : r \in Regexes
    <2>1. IsFiniteSet(Members(Patterns)) /\ \A r \in Members(Patterns) : r \in Regexes
        BY Corpus DEF Safety
    <2>2. IsFiniteSet(Held(repo))
        BY <1>4, <2>1, FS_Subset
    <2>3. QED BY <2>1, <2>2, FS_CardinalityType
<1>6. Members(results) = {r \in Held(repo) : Fits(r)}
    <2>1. Members(results) =
             {r \in Regexes : Fits(r) /\ \E i \in 1 .. at - 1 : r \in Members(repo[i].entities)}
        BY DEF Safety, QueryControl
    <2>2. 1 .. at - 1 = DOMAIN repo
        BY <1>1
    <2>3. \A r \in Held(repo) : r \in Regexes
        BY <1>4, <1>5
    <2>4. QED BY <2>1, <2>2, <2>3 DEF Held
<1>7. Members(results) \ Refused = SerialAnswer \cap Held(repo)
    <2>1. \A r \in Regexes : Misses(r) <= 0 <=> Fits(r)
        BY MissesNone DEF Safety
    <2>2. QED BY <1>4, <1>5, <1>6, <2>1 DEF SerialAnswer, SerialRegexes
<1>8. Cardinality(Members(results)) = Len(results)
    BY <1>1, MembersCount
<1>9. QED BY <1>1, <1>2, <1>4, <1>5, <1>7, <1>8
=============================================================================
