------------------------------ MODULE MCCorpus ------------------------------
(***************************************************************************)
(* An instance of CorpusPipeline for TLC: three good regexes, one that RE2 *)
(* refuses, one that egret cannot handle and one that is not ASCII.        *)
(***************************************************************************)
EXTENDS CorpusPipeline, TLC

CONSTANTS a, b, c, u, e, n

MCRegexes == {a, b, c, u, e, n}
MCCorpora == {{a, b, c, n, u, "notJson"}, {a, b, e, "noKeys"}, {a, b, "wrongType"}}

\* a and b agree on everything, c agrees with them on half.
MCStrings == [r \in MCRegexes |-> IF r \in {a, b, n} THEN {1, 2} ELSE {2, 3}]
MCLanguage == [r \in MCRegexes |-> IF r \in {a, b} THEN {1} ELSE {2, 3}]

Symmetric == Permutations({a, b})
=============================================================================
