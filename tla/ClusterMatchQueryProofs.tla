----------------------- MODULE ClusterMatchQueryProofs -----------------------
(***************************************************************************)
(* What ClusterMatchQuery answers, for any examples, any cluster and any   *)
(* word size of the bitmap.                                                *)
(***************************************************************************)
EXTENDS ClusterMatchQuery, FiniteSetTheorems, TLAPS

(* The examples a loop still has to visit are examples it visits. *)
LeftOver ==
    /\ pc \in {"testPositive", "queryPositive"} => left \subseteq positive
    /\ pc \in {"testNegative", "queryNegative"} => left \subseteq negative

(* Nothing is gathered before the last loop, the bitmap is as filled until *)
(* query() starts, and a loop over positive examples in which Match gives  *)
(* up is the last one.                                                     *)
Untouched ==
    /\ pc \notin {"gather", "answered"} => index = 0 /\ entities = <<>>
    /\ pc \in {"testPositive", "testNegative"} => regexes = Filled(size, TRUE)
    /\ pc \in Loops \cup {"gather"} => "queryPositive" \notin exhausted

(* A bit is set as long as the positive examples visited match.            *)
AfterPositives ==
    pc = "queryPositive" =>
        \A i \in Indices : i \in regexes.bits <=> \A x \in positive \ left : i \in matches[x]

(* Then it is cleared by a negative example that matches, if Match says so.*)
AfterNegatives ==
    pc \in {"queryNegative", "gather"} =>
        \A i \in Indices :
            /\ i \in regexes.bits => i \in MatchingPositives
            /\ i \in MatchingPositives /\ (\A x \in negative \ left : i \notin matches[x])
               => i \in regexes.bits
            /\ i \in regexes.bits /\ exhausted = {} =>
                  \A x \in negative \ left : i \notin matches[x]

(* The last loop has gathered the indices it has passed whose bit is set.  *)
Gathered ==
    /\ \A j, k \in DOMAIN entities : j < k => entities[j] < entities[k]
    /\ pc = "gather" =>
          /\ left = {}
          /\ \A k \in DOMAIN entities : entities[k] < index
          /\ Answered = {i \in Indices : i < index /\ i \in regexes.bits}

(* The inductive invariant. *)
Exactness ==
    /\ TypeOK /\ LeftOver /\ Untouched /\ AfterPositives /\ AfterNegatives /\ Gathered
    /\ AnswersExactly /\ ExhaustionIsBounded /\ SkippedHasNoMatch

-----------------------------------------------------------------------------
(* The bitmap. *)

(* A bitmap has a position for every element.                              *)
LEMMA EveryElementHasAPosition ==
    ASSUME NEW n \in Nat
    PROVE  0 .. n - 1 \subseteq Positions(n)
<1> DEFINE m == n + WordBits - 1
           q == m \div WordBits
<1>1. m \in Nat /\ WordBits \in Nat /\ WordBits > 0
    BY WordAssumption
<1>2. q \in Int /\ m = WordBits * q + (m % WordBits) /\ (m % WordBits) \in 0 .. WordBits - 1
    BY <1>1
<1>3. WordBits * q >= n
    BY <1>1, <1>2
<1>4. Positions(n) = 0 .. q * WordBits - 1
    BY DEF Positions, WordCount
<1> DEFINE r == q * WordBits
<1>5. r \in Int /\ r >= n
    BY <1>1, <1>2, <1>3
<1> HIDE DEF r, q
<1>6. 0 .. n - 1 \subseteq 0 .. r - 1
    BY <1>5
<1>7. QED BY <1>4, <1>6 DEF r

(* All bits that stand for elements are 1 in a bitmap filled with ones.    *)
LEMMA FilledType ==
    ASSUME TypeOK
    PROVE  /\ Filled(size, TRUE) \in [size : {size}, bits : SUBSET Positions(size)]
           /\ Filled(size, TRUE).size = size
           /\ Filled(size, TRUE).bits = Positions(size)
           /\ Indices \subseteq Positions(size)
<1>1. size \in Nat
    BY SizeAssumption DEF TypeOK
<1>2. QED BY <1>1, EveryElementHasAPosition DEF Filled, Indices

-----------------------------------------------------------------------------
(* Initial states and steps. *)

(* Either function starts with a full bitmap and nothing visited.          *)
LEMMA ExactnessInit == Init => Exactness
<1> SUFFICES ASSUME Init PROVE Exactness
    OBVIOUS
<1> USE DEF Init
<1>1. size \in Nat /\ matches \in [Examples -> SUBSET Indices]
    BY SizeAssumption DEF Indices
<1>2. /\ regexes \in [size : {size}, bits : SUBSET Positions(size)]
      /\ regexes.bits = Positions(size)
      /\ Indices \subseteq Positions(size)
    BY <1>1, EveryElementHasAPosition DEF Filled, Indices
<1>3. TypeOK
    <2>1. entities \in Seq(Indices) /\ index \in 0 .. size
        BY <1>1
    <2>2. QED BY <1>1, <1>2, <2>1 DEF TypeOK, Loops
<1>4. LeftOver /\ Untouched
    BY DEF LeftOver, Untouched, Loops
<1>5. AfterPositives /\ AfterNegatives
    BY <1>2 DEF AfterPositives, AfterNegatives
<1>6. Gathered /\ AnswersExactly /\ ExhaustionIsBounded /\ SkippedHasNoMatch
    <2>1. entities = <<>> /\ pc \in {"testPositive", "queryPositive"}
        OBVIOUS
    <2>2. \A j, k \in DOMAIN entities : j < k => entities[j] < entities[k]
        BY ONLY <2>1
    <2>3. QED
        BY ONLY <2>1, <2>2 DEF Gathered, AnswersExactly, ExhaustionIsBounded, SkippedHasNoMatch
<1>7. QED BY <1>3, <1>4, <1>5, <1>6 DEF Exactness

(* Every call of Match, every change of loop and every index keeps it.     *)
LEMMA ExactnessStep == Exactness /\ [Next]_queryVars => Exactness'
<1> SUFFICES ASSUME Exactness, [Next]_queryVars PROVE Exactness'
    OBVIOUS
<1> USE DEF Exactness
<1>1. ASSUME NEW x \in Examples, TestPositive(x) PROVE Exactness'
    <2>1. /\ UNCHANGED <<positive, negative, size, matches, regexes, index, entities>>
          /\ pc = "testPositive" /\ x \in left
          /\ Indices' = Indices
        BY <1>1 DEF TestPositive, input, MatchHits, MatchFails, Indices
    <2>2. CASE MatchHits(x) /\ Visited(x)
        <3>1. pc' = pc /\ left' = left \ {x} /\ exhausted' = exhausted
            BY <2>2 DEF MatchHits, Visited
        <3>2. TypeOK'
            BY <2>1, <3>1 DEF TypeOK
        <3>3. LeftOver' /\ Untouched' /\ AfterPositives' /\ AfterNegatives'
            BY <2>1, <3>1 DEF LeftOver, Untouched, AfterPositives, AfterNegatives, Loops
        <3>4. Gathered' /\ AnswersExactly' /\ ExhaustionIsBounded' /\ SkippedHasNoMatch'
            BY <2>1, <3>1 DEF Gathered, AnswersExactly, ExhaustionIsBounded, SkippedHasNoMatch
        <3>5. QED BY <3>2, <3>3, <3>4
    <2>3. CASE MatchFails(x) /\ Return("skipped")
        <3>1. /\ pc' = "skipped" /\ left' = {}
              /\ \/ matches[x] = {} /\ exhausted' = exhausted
                 \/ exhausted' = exhausted \cup {"testPositive"}
            BY <2>1, <2>3 DEF MatchFails, Return
        <3>2. TypeOK'
            BY <2>1, <3>1 DEF TypeOK, Ends, Loops
        <3>3. LeftOver' /\ Untouched' /\ AfterPositives' /\ AfterNegatives'
            BY <2>1, <3>1 DEF LeftOver, Untouched, AfterPositives, AfterNegatives, Loops
        <3>4. x \in positive
            BY <2>1 DEF LeftOver
        <3>5. SkippedHasNoMatch'
            BY <2>1, <3>1, <3>4 DEF SkippedHasNoMatch, Matching, MatchingPositives
        <3>6. Gathered' /\ AnswersExactly' /\ ExhaustionIsBounded'
            BY <2>1, <3>1 DEF Gathered, AnswersExactly, ExhaustionIsBounded
        <3>7. QED BY <3>2, <3>3, <3>5, <3>6
    <2>4. QED BY <1>1, <2>2, <2>3 DEF TestPositive
<1>2. ASSUME NEW x \in Examples, TestNegative(x) PROVE Exactness'
    <2>1. /\ UNCHANGED <<positive, negative, size, matches, regexes, index, entities>>
          /\ pc = "testNegative" /\ x \in left
          /\ Indices' = Indices
        BY <1>2 DEF TestNegative, input, MatchHits, MatchFails, Indices
    <2>2. CASE (MatchHits(x) \/ MatchFails(x)) /\ Visited(x)
        <3>1. /\ pc' = pc /\ left' = left \ {x}
              /\ exhausted' = exhausted \/ exhausted' = exhausted \cup {"testNegative"}
            BY <2>1, <2>2 DEF MatchHits, MatchFails, Visited
        <3>2. TypeOK'
            BY <2>1, <3>1 DEF TypeOK, Loops
        <3>3. LeftOver' /\ Untouched' /\ AfterPositives' /\ AfterNegatives'
            BY <2>1, <3>1 DEF LeftOver, Untouched, AfterPositives, AfterNegatives, Loops
        <3>4. Gathered' /\ AnswersExactly' /\ ExhaustionIsBounded' /\ SkippedHasNoMatch'
            BY <2>1, <3>1 DEF Gathered, AnswersExactly, ExhaustionIsBounded, SkippedHasNoMatch
        <3>5. QED BY <3>2, <3>3, <3>4
    <2>3. CASE MatchHits(x) /\ Cardinality(matches[x]) = size /\ Return("skipped")
        <3>1. pc' = "skipped" /\ left' = {} /\ exhausted' = exhausted
            BY <2>3 DEF MatchHits, Return
        <3>2. TypeOK'
            BY <2>1, <3>1 DEF TypeOK, Ends, Loops
        <3>3. LeftOver' /\ Untouched' /\ AfterPositives' /\ AfterNegatives'
            BY <2>1, <3>1 DEF LeftOver, Untouched, AfterPositives, AfterNegatives, Loops
        <3>4. matches[x] = Indices
            <4>1. size \in Nat /\ matches[x] \subseteq Indices
                BY SizeAssumption DEF TypeOK
            <4>2. IsFiniteSet(Indices) /\ Cardinality(Indices) = size
                BY <4>1, FS_Interval DEF Indices
            <4>3. QED BY <2>3, <4>1, <4>2, FS_Subset
        <3>5. x \in negative
            BY <2>1 DEF LeftOver
        <3>6. SkippedHasNoMatch'
            BY <2>1, <3>1, <3>4, <3>5 DEF SkippedHasNoMatch, Matching, MatchingNone
        <3>7. Gathered' /\ AnswersExactly' /\ ExhaustionIsBounded'
            BY <2>1, <3>1 DEF Gathered, AnswersExactly, ExhaustionIsBounded
        <3>8. QED BY <3>2, <3>3, <3>6, <3>7
    <2>4. QED BY <1>2, <2>2, <2>3 DEF TestNegative
<1>3. ASSUME NEW x \in Examples, QueryPositive(x) PROVE Exactness'
    <2>1. /\ UNCHANGED <<positive, negative, size, matches, index, entities>>
          /\ pc = "queryPositive" /\ x \in left /\ x \in positive
          /\ index = 0 /\ entities = <<>> /\ Answered = {}
          /\ Indices' = Indices
        <3>1. /\ UNCHANGED <<positive, negative, size, matches, index, entities>>
              /\ pc = "queryPositive" /\ x \in left
            BY <1>3 DEF QueryPositive, input, MatchHits, MatchFails
        <3>2. x \in positive /\ index = 0 /\ entities = <<>>
            BY <3>1 DEF LeftOver, Untouched, Loops
        <3>3. Answered = {}
            BY <3>2 DEF Answered
        <3>4. QED BY <3>1, <3>2, <3>3 DEF Indices
    <2>2. Answered' = {} /\ Gathered' /\ (AnswersExactly' \/ pc' = "answered")
        BY <2>1, <1>3 DEF Answered, Gathered, AnswersExactly, QueryPositive, Return, Visited
    <2>3. CASE MatchHits(x) /\ Visited(x)
        <3>1. /\ pc' = pc /\ left' = left \ {x} /\ exhausted' = exhausted
              /\ regexes' = AndAssign(regexes, SetBits(Filled(size, FALSE), matches[x], TRUE))
            BY <1>3, <2>1, <2>3 DEF QueryPositive, MatchHits, Visited, Return
        <3>2. /\ regexes'.bits = regexes.bits \cap matches[x]
              /\ regexes'.size = size
              /\ regexes' \in [size : {size}, bits : SUBSET Positions(size)]
            BY <3>1 DEF TypeOK, AndAssign, SetBits, Filled
        <3>3. TypeOK'
            BY <2>1, <3>1, <3>2 DEF TypeOK
        <3>4. AfterPositives'
            BY <2>1, <3>1, <3>2 DEF AfterPositives
        <3>5. LeftOver' /\ Untouched' /\ AfterNegatives'
            BY <2>1, <3>1 DEF LeftOver, Untouched, AfterNegatives, Loops
        <3>6. AnswersExactly' /\ ExhaustionIsBounded' /\ SkippedHasNoMatch'
            BY <2>1, <2>2, <3>1 DEF AnswersExactly, ExhaustionIsBounded, SkippedHasNoMatch
        <3>7. QED BY <2>2, <3>3, <3>4, <3>5, <3>6
    <2>4. CASE MatchFails(x) /\ Return("answered") /\ UNCHANGED regexes
        <3>1. /\ pc' = "answered" /\ left' = {} /\ regexes' = regexes
              /\ \/ matches[x] = {} /\ exhausted' = exhausted
                 \/ exhausted' = exhausted \cup {"queryPositive"}
            BY <2>1, <2>4 DEF MatchFails, Return
        <3>2. TypeOK'
            BY <2>1, <3>1 DEF TypeOK, Ends, Loops
        <3>3. LeftOver' /\ Untouched' /\ AfterPositives' /\ AfterNegatives'
            BY <2>1, <3>1 DEF LeftOver, Untouched, AfterPositives, AfterNegatives, Loops
        <3>4. matches[x] = {} => Matching' = {}
            BY <2>1 DEF Matching, MatchingPositives
        <3>5. AnswersExactly' /\ ExhaustionIsBounded' /\ SkippedHasNoMatch'
            BY <2>1, <2>2, <3>1, <3>4 DEF AnswersExactly, ExhaustionIsBounded, SkippedHasNoMatch
        <3>6. QED BY <2>2, <3>2, <3>3, <3>5
    <2>5. QED BY <1>3, <2>3, <2>4 DEF QueryPositive
<1>4. ASSUME NEW x \in Examples, QueryNegative(x) PROVE Exactness'
    <2>1. /\ UNCHANGED <<positive, negative, size, matches, index, entities>>
          /\ pc = "queryNegative" /\ x \in left /\ x \in negative
          /\ pc' = pc /\ left' = left \ {x}
          /\ exhausted' = exhausted \/ exhausted' = exhausted \cup {"queryNegative"}
          /\ Indices' = Indices /\ MatchingPositives' = MatchingPositives
        BY <1>4 DEF QueryNegative, input, MatchHits, MatchFails, Visited,
                    Indices, MatchingPositives, LeftOver
    <2>2. /\ regexes' \in [size : {size}, bits : SUBSET Positions(size)]
          /\ \/ regexes'.bits = regexes.bits \ matches[x]
             \/ /\ regexes'.bits = regexes.bits
                /\ matches[x] = {} \/ exhausted' # {}
        <3>1. CASE MatchHits(x) /\ regexes' = AndAssign(regexes, SetBits(Filled(size, TRUE), matches[x], FALSE))
            <4>1. SetBits(Filled(size, TRUE), matches[x], FALSE).bits = Positions(size) \ matches[x]
                BY DEF SetBits, Filled
            <4>2. regexes' = [regexes EXCEPT !.bits = @ \cap (Positions(size) \ matches[x])]
                BY <3>1, <4>1 DEF AndAssign
            <4>3. regexes.bits \subseteq Positions(size)
                BY DEF TypeOK
            <4>4. QED BY <4>2, <4>3 DEF TypeOK
        <3>2. CASE MatchFails(x) /\ UNCHANGED regexes
            BY <3>2 DEF MatchFails, TypeOK
        <3>3. QED BY <1>4, <3>1, <3>2 DEF QueryNegative
    <2>3. TypeOK'
        BY <2>1, <2>2 DEF TypeOK, Loops
    <2>4. LeftOver' /\ Untouched' /\ AfterPositives'
        BY <2>1 DEF LeftOver, Untouched, AfterPositives, Loops
    <2>5. AfterNegatives'
        BY <2>1, <2>2 DEF AfterNegatives
    <2>6. Gathered' /\ AnswersExactly' /\ ExhaustionIsBounded' /\ SkippedHasNoMatch'
        BY <2>1 DEF Gathered, AnswersExactly, ExhaustionIsBounded, SkippedHasNoMatch
    <2>7. QED BY <2>3, <2>4, <2>5, <2>6
<1>5. CASE NextPhase
    <2>1. /\ UNCHANGED <<positive, negative, size, matches, regexes, index, entities, exhausted>>
          /\ left = {} /\ Indices' = Indices /\ MatchingPositives' = MatchingPositives
          /\ \/ pc = "testPositive" /\ pc' = "testNegative" /\ left' = negative
             \/ pc = "testNegative" /\ pc' = "queryPositive" /\ left' = positive
             \/ pc = "queryPositive" /\ pc' = "queryNegative" /\ left' = negative
             \/ pc = "queryNegative" /\ pc' = "gather" /\ left' = {}
        BY <1>5 DEF NextPhase, NextLoop, input, Indices, MatchingPositives
    <2>2. TypeOK'
        BY <2>1 DEF TypeOK, Loops
    <2>3. LeftOver' /\ Untouched'
        BY <2>1 DEF LeftOver, Untouched, Loops
    <2>4. AfterPositives'
        BY <2>1, FilledType DEF AfterPositives, Untouched, Loops
    <2>5. AfterNegatives'
        BY <2>1 DEF AfterPositives, AfterNegatives, MatchingPositives
    <2>6. Gathered'
        BY <2>1 DEF Gathered, Untouched, Answered, Indices, Loops
    <2>7. AnswersExactly' /\ ExhaustionIsBounded' /\ SkippedHasNoMatch'
        BY <2>1 DEF AnswersExactly, ExhaustionIsBounded, SkippedHasNoMatch
    <2>8. QED BY <2>2, <2>3, <2>4, <2>5, <2>6, <2>7
<1>6. CASE Gather
    <2>1. /\ UNCHANGED <<positive, negative, size, matches, pc, left, regexes, exhausted>>
          /\ pc = "gather" /\ index < size /\ index' = index + 1
          /\ entities' = IF index \in regexes.bits THEN Append(entities, index) ELSE entities
          /\ Indices' = Indices /\ MatchingPositives' = MatchingPositives
        BY <1>6 DEF Gather, Get, input, Indices, MatchingPositives
    <2>2. size \in Nat /\ index \in Indices /\ entities \in Seq(Indices) /\ entities \in Seq(Int)
        BY <2>1, SizeAssumption DEF TypeOK, Indices
    <2>3. TypeOK'
        <3>1. entities' \in Seq(Indices) /\ index' \in 0 .. size
            BY <2>1, <2>2 DEF TypeOK
        <3>2. QED BY <2>1, <3>1 DEF TypeOK
    <2>4. Gathered'
        <3>1. CASE index \in regexes.bits
            <4>1. /\ Len(entities) \in Nat /\ DOMAIN entities = 1 .. Len(entities)
                  /\ DOMAIN entities' = 1 .. Len(entities) + 1
                  /\ \A k \in DOMAIN entities : entities'[k] = entities[k]
                  /\ entities'[Len(entities) + 1] = index
                BY <2>1, <2>2, <3>1
            <4>2. \A k \in DOMAIN entities : entities[k] \in Int /\ entities[k] < index
                BY <2>1, <2>2 DEF Gathered
            <4>3. \A j, k \in DOMAIN entities' : j < k => entities'[j] < entities'[k]
                BY <4>1, <4>2 DEF Gathered
            <4>4. \A k \in DOMAIN entities' : entities'[k] < index'
                BY <2>1, <2>2, <4>1, <4>2 DEF Indices
            <4>5. Answered' = Answered \cup {index}
                BY <4>1 DEF Answered
            <4>6. Answered' = {i \in Indices : i < index' /\ i \in regexes.bits}
                BY <2>1, <2>2, <3>1, <4>5 DEF Gathered, Indices
            <4>7. QED BY <2>1, <4>3, <4>4, <4>6 DEF Gathered
        <3>2. CASE index \notin regexes.bits
            <4>1. entities' = entities /\ Answered' = Answered
                BY <2>1, <3>2 DEF Answered
            <4>2. \A k \in DOMAIN entities : entities[k] \in Int /\ entities[k] < index
                BY <2>1, <2>2 DEF Gathered
            <4>3. \A k \in DOMAIN entities' : entities'[k] < index'
                BY <2>1, <2>2, <4>1, <4>2 DEF Indices
            <4>4. Answered' = {i \in Indices : i < index' /\ i \in regexes.bits}
                BY <2>1, <2>2, <3>2, <4>1 DEF Gathered, Indices
            <4>5. QED BY <2>1, <4>1, <4>3, <4>4 DEF Gathered
        <3>3. QED BY <3>1, <3>2
    <2>5. LeftOver' /\ Untouched' /\ AfterPositives' /\ AfterNegatives'
        BY <2>1 DEF LeftOver, Untouched, AfterPositives, AfterNegatives, Loops
    <2>6. AnswersExactly' /\ ExhaustionIsBounded' /\ SkippedHasNoMatch'
        BY <2>1, <2>4 DEF Gathered, AnswersExactly, ExhaustionIsBounded, SkippedHasNoMatch
    <2>7. QED BY <2>3, <2>4, <2>5, <2>6
<1>7. CASE FinishGathering
    <2>1. /\ UNCHANGED <<positive, negative, size, matches, regexes, index, entities, exhausted>>
          /\ pc = "gather" /\ index = size /\ pc' = "answered" /\ left' = {} /\ left = {}
          /\ Indices' = Indices /\ MatchingPositives' = MatchingPositives
          /\ Matching' = Matching /\ Answered' = Answered
        BY <1>7 DEF FinishGathering, Return, input, Indices, MatchingPositives,
                    MatchingNone, Matching, Answered, Gathered
    <2>2. Answered = {i \in Indices : i \in regexes.bits}
        <3>1. \A i \in Indices : i < index
            BY <2>1, SizeAssumption DEF TypeOK, Indices
        <3>2. QED BY <2>1, <3>1 DEF Gathered
    <2>3. /\ Answered \subseteq MatchingPositives
          /\ Matching \subseteq Answered
          /\ exhausted = {} => Answered = Matching
        BY <2>1, <2>2 DEF AfterNegatives, Matching, MatchingNone, MatchingPositives
    <2>4. TypeOK'
        BY <2>1 DEF TypeOK, Ends
    <2>5. LeftOver' /\ Untouched' /\ AfterPositives' /\ AfterNegatives' /\ Gathered'
        BY <2>1 DEF LeftOver, Untouched, AfterPositives, AfterNegatives, Gathered, Loops
    <2>6. AnswersExactly' /\ ExhaustionIsBounded' /\ SkippedHasNoMatch'
        BY <2>1, <2>3 DEF AnswersExactly, ExhaustionIsBounded, SkippedHasNoMatch, Gathered
    <2>7. QED BY <2>4, <2>5, <2>6
<1>8. CASE UNCHANGED queryVars
    <2>1. UNCHANGED <<positive, negative, size, matches, pc, left, regexes, index, entities, exhausted>>
        BY <1>8 DEF queryVars, input
    <2>2. TypeOK' /\ LeftOver' /\ Untouched' /\ AfterPositives'
        BY <2>1 DEF TypeOK, LeftOver, Untouched, AfterPositives, Indices, Loops
    <2>3. AfterNegatives' /\ Gathered'
        BY <2>1 DEF AfterNegatives, Gathered, MatchingPositives, Answered, Indices
    <2>4. AnswersExactly' /\ ExhaustionIsBounded' /\ SkippedHasNoMatch'
        BY <2>1 DEF AnswersExactly, ExhaustionIsBounded, SkippedHasNoMatch,
                    Matching, MatchingPositives, MatchingNone, Answered, Indices
    <2>5. QED BY <2>2, <2>3, <2>4
<1>9. QED
    BY <1>1, <1>2, <1>3, <1>4, <1>5, <1>6, <1>7, <1>8 DEF Next, Ended

-----------------------------------------------------------------------------
(* The theorems. *)

(* The inductive invariant holds in every reachable state.                 *)
LEMMA ExactnessInvariant == Spec => []Exactness
BY ExactnessInit, ExactnessStep, PTL DEF Spec

(* Every variable of a query keeps its type; the bitmap never leaves the   *)
(* positions of its words.                                                 *)
THEOREM MatchTypeCorrect == Spec => []TypeOK
<1>1. Exactness => TypeOK
    BY DEF Exactness
<1>2. QED BY <1>1, ExactnessInvariant, PTL

(* query() answers exactly the regexes that match the query, if no call of *)
(* Match gives up.                                                         *)
THEOREM AnswersAreExact == Spec => []AnswersExactly
<1>1. Exactness => AnswersExactly
    BY DEF Exactness
<1>2. QED BY <1>1, ExactnessInvariant, PTL

(* A call of Match that gives up loses matches only on a positive example, *)
(* and never adds a regex that fails one.                                  *)
THEOREM ExhaustionBounded == Spec => []ExhaustionIsBounded
<1>1. Exactness => ExhaustionIsBounded
    BY DEF Exactness
<1>2. QED BY <1>1, ExactnessInvariant, PTL

(* test() rules out only clusters for which query() would answer nothing:  *)
(* with AnswersAreExact, what module ParallelQuery assumes of it.          *)
THEOREM TestIsSound == Spec => []SkippedHasNoMatch
<1>1. Exactness => SkippedHasNoMatch
    BY DEF Exactness
<1>2. QED BY <1>1, ExactnessInvariant, PTL
=============================================================================
