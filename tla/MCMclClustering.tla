-------------------------- MODULE MCMclClustering --------------------------
(***************************************************************************)
(* An instance of MclClustering for TLC: a is like b, unlike c; RE2        *)
(* refuses u; Rex fails for f.                                             *)
(***************************************************************************)
EXTENDS MclClustering, TLC

CONSTANTS a, b, u, f, none, p1, p2

MCPatterns == {a, b, u, f, none}

MCStrings == [q \in MCPatterns |-> CASE q = a -> {1, 2} [] q = b -> {2, 3} [] OTHER -> {4}]
MCFound == [q \in MCPatterns |-> CASE q = a -> {1, 2} [] q = b -> {2, 4} [] OTHER -> {}]
MCFull == [q \in MCPatterns |-> CASE q = a -> {1} [] q = b -> {2} [] OTHER -> {}]

Line(i, q) == [id |-> i, pattern |-> q]
MCCorpora == {<<Line(1, a), Line(2, b)>>, <<Line(1, a), Line(2, u), Line(1, f)>>,
              <<Line(1, none), Line(2, u)>>}

Option(scorer, threshold, graph, clusters) ==
    [scorer |-> scorer, threshold |-> threshold, graph |-> graph, clusters |-> clusters]
MCOptions == {Option("rex", 60, "saved", "temporary"),
              Option("egret", 0, "temporary", "temporary"),
              Option("egret", 60, "existing", "saved")}

Symmetric == Permutations({p1, p2})
=============================================================================
