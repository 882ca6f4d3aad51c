------------------------------ MODULE QueryHash ------------------------------
(***************************************************************************)
(* HashQuery (server/paging.go): the key under which the answer to a       *)
(* request is cached.  A string is a sequence of letters, a letter a       *)
(* number.  The FNV-1a sum is taken to tell any two byte strings apart;    *)
(* what is left is what the function feeds it: the sorted positive and     *)
(* then the sorted negative examples, with nothing in between.             *)
(***************************************************************************)
EXTENDS Naturals, Sequences, SequencesExt, TLC

Precedes(s, t) ==
    \/ IsStrictPrefix(s, t)
    \/ \E i \in DOMAIN s \cap DOMAIN t :
          /\ SubSeq(s, 1, i - 1) = SubSeq(t, 1, i - 1)
          /\ s[i] < t[i]

Written(strings) == FlattenSeq(SortSeq(strings, Precedes))

HashQuery(q) == Written(q.positive) \o Written(q.negative)
=============================================================================
