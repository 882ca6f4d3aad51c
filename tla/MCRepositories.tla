--------------------------- MODULE MCRepositories ---------------------------
(***************************************************************************)
(* An instance of Repositories for TLC.  RE2 compiles r1, r2 and r5; r3    *)
(* parses but is too large; r4 does not parse.                             *)
(***************************************************************************)
EXTENDS Repositories

CONSTANTS r1, r2, r3, r4, r5

MCFiles == {<<>>, <<<<r1, r2>>, <<r3, r4, r5>>>>, <<<<r4, r1, r3>>, <<r5>>, <<r2>>>>,
            <<<<r4>>, <<r1, r2>>>>}

MCLanguage == [r \in {r1, r2, r3, r4, r5} |->
    CASE r = r1 -> {1}  [] r = r2 -> {1, 2}  [] r = r3 -> {2}  [] OTHER -> {}]
=============================================================================
