--------------------------- MODULE MCEntityStore ---------------------------
(***************************************************************************)
(* An instance of EntityStore for TLC.  The coverage service gives one and *)
(* four the same score, two a score of zero, and fails for three.          *)
(***************************************************************************)
EXTENDS EntityStore, TLC

MCIds == {"one", "two", "three", "four"}

Entity(id, features, line) == [id |-> id, features |-> features, line |-> line, isNumber |-> TRUE]
Unnumbered(id) == [id |-> id, features |-> 1, line |-> 0, isNumber |-> FALSE]
OldItem(id) == [id |-> id, features |-> 9, line |-> 0, old |-> TRUE]

MCFiles == {<<>>,
            <<Entity("one", 1, 3), Entity("two", 2, -1), Unnumbered("three")>>,
            <<Entity("four", 4, 5), Entity("one", 4, 3), Entity("four", 3, 8)>>,
            <<Entity("two", 1, 3), Entity("two", 2, 3)>>}

MCOldItems == {<<>>, "three" :> OldItem("three"), "one" :> OldItem("one")}

MCAsked == {<<>>, <<"one", "three">>, <<"two", "three", "one", "four">>, <<"four", "one", "four">>}

MCCoverage == "one" :> 2 @@ "four" :> 2 @@ "two" :> 0
=============================================================================
