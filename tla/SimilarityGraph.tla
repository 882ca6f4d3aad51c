-------------------------- MODULE SimilarityGraph --------------------------
(***************************************************************************)
(* What the two programs that score regexes against each other have in     *)
(* common (the SimilarityTable of mcl-clustering and the one of            *)
(* similarity-table): how similar two patterns are, judged by the strings  *)
(* generated for each, and the graph that is made of the scores.           *)
(*                                                                         *)
(* A score is a fraction, hits out of all strings.  Without strings it is  *)
(* 0.0 / 0.0, which no comparison holds of.                                *)
(***************************************************************************)
EXTENDS Integers, FiniteSets

CONSTANTS Patterns,
          Strings,   \* Strings[q]: the strings generated for q
          Found,     \* Found[q]: the strings in which RE2 finds q
          Full       \* Full[q]: the strings that q matches in full

ASSUME StringsAssumption ==
    \A q \in Patterns : IsFiniteSet(Strings[q]) /\ Full[q] \subseteq Found[q]

\* The strings of q in which r is found.
RexScore(q, r) == [hits |-> Cardinality(Strings[q] \cap Found[r]), of |-> Cardinality(Strings[q])]

\* q sorts its strings by a full match, r is only searched for.
EgretScore(q, r) ==
    [hits |-> Cardinality({x \in Strings[q] : x \in Full[q] <=> x \in Found[r]}),
     of |-> Cardinality(Strings[q])]

Average(left, right) == [hits |-> left.hits * right.of + right.hits * left.of,
                         of |-> 2 * left.of * right.of]

\* Written to the graph: above zero, and not pruned (a threshold in percent).
IsEdge(score, threshold) ==
    score.of > 0 /\ score.hits > 0 /\ score.hits * 100 >= threshold * score.of
=============================================================================
