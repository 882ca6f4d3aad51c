--------------------------- MODULE MCQueryHandler ---------------------------
(***************************************************************************)
(* Instances of QueryHandler for TLC: three requests over the examples a,  *)
(* b and c, of which the first two have the same hash.                     *)
(***************************************************************************)
EXTENDS QueryHandler, QueryHash

CONSTANTS e1, e2, e3

A == <<1>>
B == <<2>>
C == <<3>>

Both      == [positive |-> <<A>>, negative |-> <<B>>]
Colliding == [positive |-> <<B, A>>, negative |-> <<>>]
Changed   == [positive |-> <<C>>, negative |-> <<B>>]
OneSided  == [positive |-> <<C>>, negative |-> <<>>]

MCQueries  == {Both, Colliding, Changed}
MCHash     == [q \in MCQueries |-> HashQuery(q)]
MCKeys     == {MCHash[q] : q \in MCQueries}
MCMatches  == (Both :> {e1, e2}) @@ (Colliding :> {e3}) @@ (Changed :> {e3})

\* Two requests with different hashes, one without negative examples.
OneSidedQueries == {Both, OneSided}
OneSidedHash    == [q \in OneSidedQueries |-> HashQuery(q)]
OneSidedKeys    == {OneSidedHash[q] : q \in OneSidedQueries}
OneSidedMatches == (Both :> {e1, e2}) @@ (OneSided :> {e3})
OneSidedPages   == [key : OneSidedKeys \cup {NoKey}, num : {0}, size : {1}]

MCRank     == (e1 :> 1) @@ (e2 :> 1) @@ (e3 :> 2)

\* Pages as <<number, size>>: the first two of size one, the first of size two.
Shapes     == {<<0, 1>>, <<1, 1>>, <<0, 2>>}
MCPages    == {[key |-> k, num |-> s[1], size |-> s[2]] :
                  k \in MCKeys \cup {NoKey}, s \in Shapes}

Symmetric == Permutations(Clients)
=============================================================================
