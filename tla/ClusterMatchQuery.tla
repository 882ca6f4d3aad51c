-------------------------- MODULE ClusterMatchQuery --------------------------
(***************************************************************************)
(* ClusterMatchQuery (librereuse/query/cluster_match_query.cc): which      *)
(* regexes of one cluster match all positive and no negative examples.     *)
(* test() decides whether the cluster is worth a query(); the serial       *)
(* repository calls both, the parallel one only query().  Either may be    *)
(* running here, one call of RE2::Set::Match a step.                       *)
(*                                                                         *)
(* RE2 is external.  Match gives the indices of the regexes that match a   *)
(* string, and returns whether there are any; it gives up, returning       *)
(* false, when its automaton needs more memory than the set may use, which *)
(* depends on what it has built before and can happen in any call.         *)
(***************************************************************************)
EXTENDS Bitmap, Sequences, FiniteSets

CONSTANTS Examples,   \* the strings that can be examples
          MaxSize     \* bound: clusters have at most so many regexes

ASSUME SizeAssumption == MaxSize \in Nat
ASSUME ExamplesAssumption == IsFiniteSet(Examples)

VARIABLES positive, negative,  \* the examples of the query
          size,       \* cluster->get_size()
          matches,    \* matches[x]: the indices of the regexes that match x
          pc,         \* which loop the code is in
          left,       \* the examples that loop has not visited
          regexes,    \* the bitmap matching_regexes
          index,      \* the index the last loop is at
          entities,   \* what query() returns: indices into get_entities()
          exhausted   \* the loops in which Match has given up

input == <<positive, negative, size, matches>>
queryVars == <<input, pc, left, regexes, index, entities, exhausted>>

Indices == 0 .. size - 1

Loops == {"testPositive", "testNegative", "queryPositive", "queryNegative"}
Ends == {"skipped", "answered"}

Init ==
    /\ positive \in SUBSET Examples /\ negative \in SUBSET Examples
    /\ size \in 0 .. MaxSize
    /\ matches \in [Examples -> SUBSET (0 .. MaxSize - 1)]
    /\ \A x \in Examples : matches[x] \subseteq Indices
    /\ pc \in {"testPositive", "queryPositive"}
    /\ left = positive
    /\ regexes = Filled(size, TRUE)
    /\ index = 0
    /\ entities = <<>>
    /\ exhausted = {}

-----------------------------------------------------------------------------
(* A call of Match for an example x that the loop has not visited yet: it  *)
(* finds hits, or returns false.                                           *)

MatchHits(x) == x \in left /\ matches[x] # {} /\ UNCHANGED exhausted

MatchFails(x) ==
    /\ x \in left
    /\ \/ matches[x] = {} /\ UNCHANGED exhausted
       \/ exhausted' = exhausted \cup {pc}

Visited(x) == left' = left \ {x} /\ UNCHANGED pc

\* The loop is through, and the next one starts with its examples.
NextLoop(loop, examples) ==
    /\ left = {}
    /\ left' = examples
    /\ pc' = loop
    /\ UNCHANGED <<input, regexes, index, entities, exhausted>>

Return(end) == pc' = end /\ left' = {}

-----------------------------------------------------------------------------
(* test(). *)

TestPositive(x) ==
    /\ pc = "testPositive"
    /\ \/ MatchHits(x) /\ Visited(x)
       \/ MatchFails(x) /\ Return("skipped")
    /\ UNCHANGED <<input, regexes, index, entities>>

\* Faulty: one match of a negative example rules the cluster out.
TestNegativeAny(x) ==
    /\ pc = "testNegative"
    /\ \/ MatchHits(x) /\ Return("skipped")
       \/ MatchFails(x) /\ Visited(x)
    /\ UNCHANGED <<input, regexes, index, entities>>

TestNegative(x) ==
    /\ pc = "testNegative"
    /\ \/ /\ MatchHits(x)
          /\ IF Cardinality(matches[x]) = size THEN Return("skipped") ELSE Visited(x)
       \/ MatchFails(x) /\ Visited(x)
    /\ UNCHANGED <<input, regexes, index, entities>>

-----------------------------------------------------------------------------
(* query(). *)

\* Faulty: a positive example without a match is passed over.
QueryPositiveLenient(x) ==
    /\ pc = "queryPositive"
    /\ \/ /\ MatchHits(x) /\ Visited(x)
          /\ regexes' = AndAssign(regexes, SetBits(Filled(size, FALSE), matches[x], TRUE))
       \/ MatchFails(x) /\ Visited(x) /\ UNCHANGED regexes
    /\ UNCHANGED <<input, index, entities>>

QueryPositive(x) ==
    /\ pc = "queryPositive"
    /\ \/ /\ MatchHits(x) /\ Visited(x)
          /\ regexes' = AndAssign(regexes, SetBits(Filled(size, FALSE), matches[x], TRUE))
       \/ MatchFails(x) /\ Return("answered") /\ UNCHANGED regexes
    /\ UNCHANGED <<input, index, entities>>

QueryNegative(x) ==
    /\ pc = "queryNegative"
    /\ Visited(x)
    /\ \/ /\ MatchHits(x)
          /\ regexes' = AndAssign(regexes, SetBits(Filled(size, TRUE), matches[x], FALSE))
       \/ MatchFails(x) /\ UNCHANGED regexes
    /\ UNCHANGED <<input, index, entities>>

\* Faulty: the index is not held against the size of the cluster.
GatherPastEnd ==
    /\ pc = "gather" /\ index <= size
    /\ entities' = IF Get(regexes, index) THEN Append(entities, index) ELSE entities
    /\ index' = index + 1
    /\ UNCHANGED <<input, pc, left, regexes, exhausted>>

Gather ==
    /\ pc = "gather" /\ index < size
    /\ entities' = IF Get(regexes, index) THEN Append(entities, index) ELSE entities
    /\ index' = index + 1
    /\ UNCHANGED <<input, pc, left, regexes, exhausted>>

FinishGathering ==
    /\ pc = "gather" /\ index = size
    /\ Return("answered")
    /\ UNCHANGED <<input, regexes, index, entities, exhausted>>

-----------------------------------------------------------------------------

NextPhase ==
    \/ pc = "testPositive" /\ NextLoop("testNegative", negative)
    \/ pc = "testNegative" /\ NextLoop("queryPositive", positive)
    \/ pc = "queryPositive" /\ NextLoop("queryNegative", negative)
    \/ pc = "queryNegative" /\ NextLoop("gather", {})

Ended == pc \in Ends /\ UNCHANGED queryVars

Next ==
    \/ \E x \in Examples : \/ TestPositive(x) \/ TestNegative(x)
                           \/ QueryPositive(x) \/ QueryNegative(x)
    \/ NextPhase \/ Gather \/ FinishGathering \/ Ended

Spec == Init /\ [][Next]_queryVars

-----------------------------------------------------------------------------

TypeOK ==
    /\ positive \subseteq Examples /\ negative \subseteq Examples
    /\ size \in 0 .. MaxSize
    /\ matches \in [Examples -> SUBSET Indices]
    /\ pc \in Loops \cup Ends \cup {"gather"}
    /\ left \subseteq Examples
    /\ regexes \in [size : {size}, bits : SUBSET Positions(size)]
    /\ index \in 0 .. size
    /\ entities \in Seq(Indices)
    /\ exhausted \subseteq Loops

MatchingPositives == {i \in Indices : \A x \in positive : i \in matches[x]}
MatchingNone == {i \in Indices : \A x \in negative : i \notin matches[x]}

\* The regexes that match the query.
Matching == MatchingPositives \cap MatchingNone

Answered == {entities[k] : k \in DOMAIN entities}

(* query() answers the regexes of the cluster that match the query, each   *)
(* once and in the order of the cluster, in whatever order the two         *)
(* unordered sets of examples are walked, unless the automaton ran out of  *)
(* memory.                                                                 *)
AnswersExactly ==
    /\ \A j, k \in DOMAIN entities : j < k => entities[j] < entities[k]
    /\ pc = "answered" /\ exhausted = {} => Answered = Matching

(* When the automaton runs out of memory, query() may lose matches only if *)
(* that happened on a positive example; what it answers still matches      *)
(* every positive example, and may match negative ones.                    *)
ExhaustionIsBounded ==
    pc = "answered" =>
        /\ Answered \subseteq MatchingPositives
        /\ "queryPositive" \notin exhausted => Matching \subseteq Answered

(* test() rules out no cluster that holds a match, so the serial           *)
(* repository, which calls it first, answers what the parallel one does.   *)
SkippedHasNoMatch == pc = "skipped" /\ exhausted = {} => Matching = {}

-----------------------------------------------------------------------------
(* cluster_match_query.h:18, "set of patterns that match the query":       *)
(* whatever query() answers matches no negative example.                   *)
AnswersMatchTheQuery == pc = "answered" => Answered \subseteq Matching
=============================================================================
