-------------------------- MODULE MCStringTables --------------------------
(***************************************************************************)
(* An instance of StringTables for TLC: RE2 refuses u, Rex fails for f; a  *)
(* has strings in common with b one way and with c both ways.              *)
(***************************************************************************)
EXTENDS StringTables

CONSTANTS a, b, c, u, f

MCPatterns == {a, b, c, u, f}
MCInputs == {<<>>, <<a, f, b, u, c, a, b>>, <<f, c, a, u, b, c>>, <<a>>}

MCStrings == [q \in MCPatterns |-> CASE q = a -> {1, 2} [] q = b -> {3} [] q = c -> {2, 4, 5} [] OTHER -> {6}]
MCFound == [q \in MCPatterns |-> CASE q = a -> {1, 2} [] q = b -> {2, 3} [] q = c -> {2, 4, 5} [] OTHER -> {}]
MCFull == MCFound
=============================================================================
