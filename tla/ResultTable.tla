----------------------------- MODULE ResultTable -----------------------------
(***************************************************************************)
(* server/paging.go: the table of query results that all request handlers  *)
(* of the API server share, and the arithmetic that cuts a stored answer   *)
(* into pages.  The table is a go-cache map with its own lock: each        *)
(* operation on it is one step, and an entry may expire at any time.       *)
(***************************************************************************)
EXTENDS Integers, Sequences, FiniteSets

CONSTANTS Queries,    \* the examples of a request: its positive and negative
          Keys,       \* cache keys
          Hash,       \* Hash[q]: HashQuery of a request with the examples q
          Entities,   \* the regexes of the database
          NoEntry,    \* what cache.Get finds when there is nothing
          UintSize    \* uint64 arithmetic is modulo this number

ASSUME HashAssumption == Hash \in [Queries -> Keys]
ASSUME UintAssumption == UintSize \in Nat \ {0, 1}
ASSUME NoEntryAssumption ==
    NoEntry \notin [query : Queries, entities : Seq(Entities)]

VARIABLE cache   \* cache[k]: the entry stored under key k, or NoEntry

\* A ResultTableEntry, with the examples whose answer it holds.
Entry == [query : Queries, entities : Seq(Entities)]

-----------------------------------------------------------------------------
(* Paging: unsigned arithmetic on the length of the stored answer. *)

PageCount(total, size) == IF size > 0 THEN total \div size + 1 ELSE 1

PageStart(num, size) == (num * size) % UintSize

\* Faulty: the end of a page is taken as inclusive.
PageEndInclusive(total, num, size) ==
    LET end == PageStart(num, size) + size
    IN IF end >= total THEN total ELSE end + 1

PageEnd(total, num, size) ==
    LET end == (PageStart(num, size) + size) % UintSize
    IN IF end >= total THEN (total - 1) % UintSize ELSE end

\* make() and the slice expression panic unless the bounds are in order.
PageExists(total, num, size) ==
    /\ PageStart(num, size) <= PageEnd(total, num, size)
    /\ PageEnd(total, num, size) <= total

Page(answer, num, size) ==
    SubSeq(answer, PageStart(num, size) + 1, PageEnd(Len(answer), num, size))

-----------------------------------------------------------------------------
(* The operations of the table. *)

\* Faulty: the key is not computed from the examples.
CacheResultsUnderAnyKey(q, answer) ==
    \E k \in Keys : cache' = [cache EXCEPT ![k] = [query |-> q, entities |-> answer]]

CacheResults(q, answer) ==
    cache' = [cache EXCEPT ![Hash[q]] = [query |-> q, entities |-> answer]]

InvalidateResults(key) == cache' = [cache EXCEPT ![key] = NoEntry]

Expire(key) ==
    /\ cache[key] # NoEntry
    /\ cache' = [cache EXCEPT ![key] = NoEntry]

\* How FetchResultsWithPage ends: no entry, a bad index, a panic or a page.
FetchOutcome(page) ==
    IF cache[page.key] = NoEntry THEN "missing"
    ELSE LET total == Len(cache[page.key].entities)
         IN IF page.num >= PageCount(total, page.size) THEN "badIndex"
            ELSE IF PageExists(total, page.num, page.size) THEN "page"
            ELSE "panic"
=============================================================================
