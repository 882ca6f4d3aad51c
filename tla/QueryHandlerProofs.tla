------------------------- MODULE QueryHandlerProofs -------------------------
(***************************************************************************)
(* Which examples a reply of QueryHandler can be the answer to, for any    *)
(* clients, requests, hash function and page arithmetic modulus.           *)
(***************************************************************************)
EXTENDS QueryHandler, SequenceTheorems, FiniteSetTheorems, TLAPS

(* A handler that is about to fetch its fresh page asks for the hash of    *)
(* its own examples.                                                       *)
RefetchesOwnKey ==
    \A c \in Clients : pc[c] = "refetch" =>
        /\ request[c].page # NoPage
        /\ request[c].page.key = Hash[request[c].query]

(* Entities are only at hand between the entity store and the coverage     *)
(* service.                                                                *)
FoundWhileCovering == \A c \in Clients : pc[c] # "cover" => found[c] = {}

(* The inductive invariant. *)
SameHash ==
    /\ HandlerTypeOK /\ CacheKeyedByHash
    /\ RefetchesOwnKey /\ FoundWhileCovering /\ AnswersSameHash

-----------------------------------------------------------------------------
(* What the operators return. *)

(* A page that exists is a sequence of entities of the answer.             *)
LEMMA PageType ==
    ASSUME NEW answer \in Seq(Entities), NEW num \in Nat, NEW size \in Nat,
           PageExists(Len(answer), num, size)
    PROVE  Page(answer, num, size) \in Seq(Entities)
<1> DEFINE first == PageStart(num, size)
           last  == PageEnd(Len(answer), num, size)
<1>1. Len(answer) \in Nat
    OBVIOUS
<1>2. first \in Nat
    <2>1. num * size \in Int
        OBVIOUS
    <2>2. QED BY <2>1, UintAssumption DEF PageStart
<1>3. last \in Int
    <2>1. first + size \in Int /\ Len(answer) - 1 \in Int
        BY <1>1, <1>2
    <2>2. /\ (first + size) % UintSize \in Int
          /\ (Len(answer) - 1) % UintSize \in Int
        BY <2>1, UintAssumption
    <2>3. QED BY <2>2 DEF PageEnd
<1>4. first <= last /\ last <= Len(answer)
    BY DEF PageExists
<1> HIDE DEF first, last
<1>5. SubSeq(answer, first + 1, last) \in Seq(Entities)
    BY <1>1, <1>2, <1>3, <1>4
<1>6. QED BY <1>5 DEF Page, first, last

(* The number of pages is a natural number.                                *)
LEMMA PageCountType ==
    ASSUME NEW total \in Nat, NEW size \in Nat
    PROVE  PageCount(total, size) \in Nat
<1>1. CASE size > 0
    <2>1. total \div size \in Nat
        BY <1>1
    <2>2. QED BY <1>1, <2>1 DEF PageCount
<1>2. CASE ~(size > 0)
    BY <1>2 DEF PageCount
<1>3. QED BY <1>1, <1>2

(* A sorted answer is a sequence.                                          *)
LEMMA SortedType ==
    ASSUME NEW S \in SUBSET Entities, IsFiniteSet(S), NEW s \in Sorted(S)
    PROVE  s \in Seq(Entities)
<1>1. Cardinality(S) \in Nat
    BY FS_CardinalityType
<1>2. s \in [1 .. Cardinality(S) -> S]
    BY DEF Sorted
<1>3. QED BY <1>1, <1>2

(* A page request is answered from the entry under its key, or fails.      *)
LEMMA PageResultType ==
    ASSUME HandlerTypeOK, NEW page \in PageRequests, page.key \in Keys,
           NEW fresh \in BOOLEAN
    PROVE  LET r == PageResult(page, fresh)
           IN /\ r \in Replies
              /\ r.status = 200 => /\ cache[page.key] # NoEntry
                                   /\ r.fresh = fresh
                                   /\ r.source = cache[page.key].query
<1> DEFINE entry == cache[page.key]
           r     == PageResult(page, fresh)
<1>1. page.num \in Nat /\ page.size \in Nat
    BY DEF PageRequests
<1>2. CASE FetchOutcome(page) = "page"
    <2>1. /\ entry # NoEntry
          /\ PageExists(Len(entry.entities), page.num, page.size)
        BY <1>2 DEF FetchOutcome
    <2>2. entry.query \in Queries /\ entry.entities \in Seq(Entities)
        BY <2>1 DEF HandlerTypeOK, Entry
    <2>3. Len(entry.entities) \in Nat
        BY <2>2
    <2>4. /\ Page(entry.entities, page.num, page.size) \in Seq(Entities)
          /\ PageCount(Len(entry.entities), page.size) \in Nat
        BY <1>1, <2>1, <2>2, <2>3, PageType, PageCountType
    <2>5. r = PageReply(entry, page, fresh)
        BY <1>2 DEF PageResult
    <2>6. QED BY <2>1, <2>2, <2>3, <2>4, <2>5 DEF PageReply, Replies
<1>3. CASE FetchOutcome(page) # "page"
    <2>1. r \in {Failure(400), Failure(500)}
        BY <1>3 DEF PageResult
    <2>2. r.status # 200
        BY <2>1 DEF Failure
    <2>3. QED BY <2>1, <2>2 DEF Replies
<1>4. QED BY <1>2, <1>3

-----------------------------------------------------------------------------
(* Initial states and steps. *)

(* No handler has a request at first, and the table is empty.              *)
LEMMA SameHashInit == HandlerInit => SameHash
<1> SUFFICES ASSUME HandlerInit PROVE SameHash
    OBVIOUS
<1> USE DEF HandlerInit
<1>1. (CHOOSE q \in Queries : TRUE) \in Queries
    BY QueriesAssumption
<1>2. /\ NoReply \in Replies /\ NoReply.status # 200
      /\ "answered" \in Labels
    BY DEF NoReply, Replies, Labels
<1>3. HandlerTypeOK
    BY <1>1, <1>2 DEF HandlerTypeOK
<1>4. CacheKeyedByHash /\ RefetchesOwnKey /\ FoundWhileCovering /\ AnswersSameHash
    BY <1>2 DEF CacheKeyedByHash, RefetchesOwnKey,
               FoundWhileCovering, AnswersSameHash
<1>5. QED BY <1>3, <1>4 DEF SameHash

(* Every step of a handler, and the expiry of an entry, keeps the          *)
(* invariant.                                                              *)
LEMMA SameHashStep == SameHash /\ [HandlerNext]_handlerVars => SameHash'
<1> SUFFICES ASSUME SameHash, [HandlerNext]_handlerVars PROVE SameHash'
    OBVIOUS
<1> USE DEF SameHash
<1>1. ASSUME NEW c \in Clients, Receive(c) PROVE SameHash'
    <2>1. PICK q \in Queries, page \in Pages \cup {NoPage} :
              request' = [request EXCEPT ![c] = [query |-> q, page |-> page]]
        BY <1>1 DEF Receive
    <2>2. page \in PageRequests \cup {NoPage}
        BY PagesAssumption
    <2>3. /\ cache' = cache /\ found' = found
          /\ pc' = [pc EXCEPT ![c] = "tryCache"]
          /\ reply' = [reply EXCEPT ![c] = NoReply]
          /\ pc[c] = "answered"
        BY <1>1 DEF Receive, Goto
    <2>4. NoReply \in Replies /\ NoReply.status # 200
        BY DEF NoReply, Replies
    <2>5. HandlerTypeOK'
        BY <2>1, <2>2, <2>3, <2>4 DEF HandlerTypeOK, FoundWhileCovering, Labels
    <2>6. QED
        BY <2>1, <2>2, <2>3, <2>4, <2>5
           DEF HandlerTypeOK, CacheKeyedByHash, RefetchesOwnKey,
               FoundWhileCovering, AnswersSameHash
<1>2. ASSUME NEW c \in Clients, HandlerStep(c) PROVE SameHash'
    <2>1. CASE SkipCache(c) \/ QueryRegexDB(c)
        <3>1. PICK label \in {"regexdb", "inflate"} : pc' = [pc EXCEPT ![c] = label]
            BY <2>1 DEF SkipCache, QueryRegexDB, Goto
        <3>2. /\ cache' = cache /\ request' = request
              /\ found' = found /\ reply' = reply
              /\ pc[c] # "cover"
            BY <2>1 DEF SkipCache, QueryRegexDB
        <3>3. HandlerTypeOK'
            BY <3>1, <3>2 DEF HandlerTypeOK, Labels
        <3>4. RefetchesOwnKey' /\ FoundWhileCovering'
            BY <3>1, <3>2 DEF HandlerTypeOK, RefetchesOwnKey, FoundWhileCovering
        <3>5. CacheKeyedByHash' /\ AnswersSameHash'
            BY <3>2 DEF CacheKeyedByHash, AnswersSameHash
        <3>6. QED BY <3>3, <3>4, <3>5
    <2>2. CASE DropChangedQuery(c)
        BY <2>2
           DEF DropChangedQuery, InvalidateResults, Goto, Labels, HandlerTypeOK,
               CacheKeyedByHash, RefetchesOwnKey, FoundWhileCovering, AnswersSameHash
    <2>3. CASE ServeCached(c)
        <3> DEFINE page == request[c].page
                   q == request[c].query
                   r == PageResult(page, FALSE)
        <3>1. page \in PageRequests /\ page.key \in Keys /\ q \in Queries
            BY <2>3 DEF ServeCached, Unpaged, HandlerTypeOK, PageRequests
        <3>2. /\ r \in Replies
              /\ r.status = 200 => /\ cache[page.key] # NoEntry
                                   /\ r.fresh = FALSE
                                   /\ r.source = cache[page.key].query
            BY <3>1, PageResultType
        <3>3. /\ reply' = [reply EXCEPT ![c] = r]
              /\ pc' = [pc EXCEPT ![c] = "answered"]
              /\ found' = [found EXCEPT ![c] = {}]
              /\ cache' = cache /\ request' = request
              /\ HasPositive(q) /\ HasNegative(q) => Hash[q] = page.key
            BY <2>3 DEF ServeCached, Answered, QueryChanged
        <3> HIDE DEF r
        <3>4. HandlerTypeOK'
            BY <3>2, <3>3 DEF HandlerTypeOK, Labels
        <3>5. AnswersSameHash'
            <4>1. /\ r.status = 200 /\ HasPositive(q) /\ HasNegative(q)
                  => Hash[r.source] = Hash[q]
                BY <3>1, <3>2, <3>3 DEF CacheKeyedByHash
            <4>2. QED BY <3>2, <3>3, <4>1 DEF AnswersSameHash, HandlerTypeOK
        <3>6. QED
            BY <3>3, <3>4, <3>5
               DEF CacheKeyedByHash, RefetchesOwnKey, FoundWhileCovering, HandlerTypeOK
    <2>4. CASE ServiceFails(c)
        <3>1. PICK r \in {Failure(400), Failure(500)} :
                 /\ reply' = [reply EXCEPT ![c] = r]
                 /\ pc' = [pc EXCEPT ![c] = "answered"]
                 /\ found' = [found EXCEPT ![c] = {}]
                 /\ cache' = cache /\ request' = request
            BY <2>4 DEF ServiceFails, Answered
        <3>2. r \in Replies /\ r.status # 200
            BY DEF Replies, Failure
        <3>3. QED
            BY <3>1, <3>2
               DEF Labels, HandlerTypeOK, CacheKeyedByHash, RefetchesOwnKey,
                   FoundWhileCovering, AnswersSameHash
    <2>5. CASE Inflate(c)
        <3>1. PICK S \in SUBSET Matches[request[c].query] :
                 found' = [found EXCEPT ![c] = S]
            BY <2>5 DEF Inflate
        <3>2. S \subseteq Entities
            BY MatchesAssumption DEF HandlerTypeOK
        <3>3. QED
            BY <2>5, <3>1, <3>2
               DEF Inflate, Goto, Labels, HandlerTypeOK, CacheKeyedByHash,
                   RefetchesOwnKey, FoundWhileCovering, AnswersSameHash
    <2>6. CASE SortAndCache(c)
        <3> DEFINE q == request[c].query
        <3>1. PICK answer \in Sorted(found[c]) :
                 /\ CacheResults(q, answer)
                 /\ IF request[c].page = NoPage
                    THEN /\ reply' = [reply EXCEPT ![c] = WholeReply(q, answer)]
                         /\ Goto(c, "track")
                         /\ UNCHANGED request
                    ELSE /\ request' = [request EXCEPT ![c].page.key = Hash[q]]
                         /\ Goto(c, "refetch")
                         /\ UNCHANGED reply
            BY <2>6 DEF SortAndCache
        <3>2. q \in Queries /\ Hash[q] \in Keys
            BY HashAssumption DEF HandlerTypeOK
        <3>3. answer \in Seq(Entities)
            <4>1. found[c] \in SUBSET Entities /\ IsFiniteSet(found[c])
                BY <3>2, MatchesAssumption, FS_Subset DEF HandlerTypeOK
            <4>2. QED BY <4>1, SortedType
        <3>4. found' = [found EXCEPT ![c] = {}]
            BY <2>6 DEF SortAndCache
        <3>5. /\ cache' \in [Keys -> Entry \cup {NoEntry}]
              /\ CacheKeyedByHash'
            <4>1. /\ [query |-> q, entities |-> answer] \in Entry
                  /\ cache' = [cache EXCEPT ![Hash[q]] = [query |-> q, entities |-> answer]]
                BY <3>1, <3>2, <3>3 DEF Entry, CacheResults
            <4>2. QED
                BY <3>2, <4>1 DEF HandlerTypeOK, CacheKeyedByHash
        <3>6. CASE request[c].page = NoPage
            <4>1. Len(answer) \in Nat /\ WholeReply(q, answer) \in Replies
                BY <3>2, <3>3 DEF WholeReply, Replies
            <4>2. /\ reply' = [reply EXCEPT ![c] = WholeReply(q, answer)]
                  /\ pc' = [pc EXCEPT ![c] = "track"]
                  /\ request' = request
                BY <3>1, <3>6 DEF Goto
            <4>3. WholeReply(q, answer).source = q
                BY DEF WholeReply
            <4>4. HandlerTypeOK'
                BY <3>4, <3>5, <4>1, <4>2 DEF HandlerTypeOK, Labels
            <4>5. QED
                BY <3>4, <3>5, <4>2, <4>3, <4>4
                   DEF HandlerTypeOK, RefetchesOwnKey, FoundWhileCovering, AnswersSameHash
        <3>7. CASE request[c].page # NoPage
            <4>1. /\ request' = [request EXCEPT ![c].page.key = Hash[q]]
                  /\ pc' = [pc EXCEPT ![c] = "refetch"]
                  /\ reply' = reply
                BY <3>1, <3>7 DEF Goto
            <4>2. /\ request'[c].query = q
                  /\ request'[c].page \in PageRequests
                  /\ request'[c].page.key = Hash[q]
                  /\ request'[c] \in [query : Queries, page : PageRequests \cup {NoPage}]
                  /\ \A d \in Clients \ {c} : request'[d] = request[d]
                BY <3>2, <3>7, <4>1 DEF HandlerTypeOK, PageRequests
            <4>3. request'[c].page # NoPage
                BY <4>2, PagesAssumption
            <4>4. request' \in [Clients -> [query : Queries, page : PageRequests \cup {NoPage}]]
                BY <4>1, <4>2 DEF HandlerTypeOK
            <4>5. HandlerTypeOK'
                BY <3>4, <3>5, <4>1, <4>2, <4>4 DEF HandlerTypeOK, Labels
            <4>6. RefetchesOwnKey' /\ FoundWhileCovering'
                BY <3>4, <4>1, <4>2, <4>3
                   DEF HandlerTypeOK, RefetchesOwnKey, FoundWhileCovering
            <4>7. AnswersSameHash'
                BY <4>1, <4>2 DEF AnswersSameHash
            <4>8. QED BY <3>5, <4>5, <4>6, <4>7
        <3>8. QED BY <3>6, <3>7
    <2>7. CASE FetchFreshPage(c)
        <3> DEFINE page == request[c].page
                   q == request[c].query
                   r == PageResult(page, TRUE)
        <3>1. /\ page \in PageRequests /\ page.key \in Keys /\ q \in Queries
              /\ page.key = Hash[q]
            BY <2>7, HashAssumption DEF FetchFreshPage, RefetchesOwnKey, HandlerTypeOK
        <3>2. /\ r \in Replies
              /\ r.status = 200 => /\ cache[page.key] # NoEntry
                                   /\ r.fresh = TRUE
                                   /\ r.source = cache[page.key].query
            BY <3>1, PageResultType
        <3>3. PICK label \in {"track", "answered"} :
              /\ reply' = [reply EXCEPT ![c] = r]
              /\ pc' = [pc EXCEPT ![c] = label]
              /\ found' = found /\ cache' = cache /\ request' = request
            BY <2>7 DEF FetchFreshPage, Goto
        <3>4. r.status = 200 => Hash[r.source] = Hash[q]
            <4>1. cache[page.key] # NoEntry => Hash[cache[page.key].query] = page.key
                BY <3>1 DEF CacheKeyedByHash
            <4> HIDE DEF r, page, q
            <4>2. QED BY <3>1, <3>2, <4>1
        <3>5. pc[c] # "cover"
            BY <2>7 DEF FetchFreshPage
        <3> HIDE DEF r
        <3>6. HandlerTypeOK'
            BY <3>2, <3>3 DEF HandlerTypeOK, Labels
        <3>7. QED
            BY <3>2, <3>3, <3>4, <3>5, <3>6
               DEF HandlerTypeOK, CacheKeyedByHash, RefetchesOwnKey,
                   FoundWhileCovering, AnswersSameHash
    <2>8. CASE Finish(c)
        <3>1. PICK r \in {reply[c], Failure(400), Failure(500)} :
                 /\ reply' = [reply EXCEPT ![c] = r]
                 /\ pc' = [pc EXCEPT ![c] = "answered"]
                 /\ found' = [found EXCEPT ![c] = {}]
                 /\ cache' = cache /\ request' = request
            BY <2>8 DEF Finish, Answered
        <3>2. r \in Replies /\ (r = reply[c] \/ r.status # 200)
            BY DEF Replies, Failure, HandlerTypeOK
        <3>3. QED
            BY <3>1, <3>2
               DEF Labels, HandlerTypeOK, CacheKeyedByHash, RefetchesOwnKey,
                   FoundWhileCovering, AnswersSameHash
    <2>9. QED
        BY <1>2, <2>1, <2>2, <2>3, <2>4, <2>5, <2>6, <2>7, <2>8 DEF HandlerStep
<1>3. ASSUME NEW k \in Keys, Expire(k), UNCHANGED <<pc, request, found, reply>>
      PROVE  SameHash'
    BY <1>3
       DEF Expire, HandlerTypeOK, CacheKeyedByHash, RefetchesOwnKey,
               FoundWhileCovering, AnswersSameHash
<1>4. CASE UNCHANGED handlerVars
    BY <1>4
       DEF handlerVars, HandlerTypeOK, CacheKeyedByHash, RefetchesOwnKey,
               FoundWhileCovering, AnswersSameHash
<1>5. QED BY <1>1, <1>2, <1>3, <1>4 DEF HandlerNext, EntryExpires

-----------------------------------------------------------------------------
(* The theorems. *)

(* The inductive invariant holds in every reachable state.                 *)
LEMMA SameHashInvariant == HandlerSpec => []SameHash
BY SameHashInit, SameHashStep, PTL DEF HandlerSpec

(* Every variable of the handlers keeps its type.                          *)
THEOREM HandlerTypeCorrect == HandlerSpec => []HandlerTypeOK
<1>1. SameHash => HandlerTypeOK
    BY DEF SameHash
<1>2. QED BY <1>1, SameHashInvariant, PTL

(* The table holds every answer under the hash of its own examples.        *)
THEOREM CacheIsKeyedByHash == HandlerSpec => []CacheKeyedByHash
<1>1. SameHash => CacheKeyedByHash
    BY DEF SameHash
<1>2. QED BY <1>1, SameHashInvariant, PTL

(* No interleaving of handlers, failures of services and expiry of entries *)
(* makes a handler reply to positive and negative examples, or compute a   *)
(* reply, with the answer to examples of a different hash.                 *)
THEOREM AnswersHaveSameHash == HandlerSpec => []AnswersSameHash
<1>1. SameHash => AnswersSameHash
    BY DEF SameHash
<1>2. QED BY <1>1, SameHashInvariant, PTL

-----------------------------------------------------------------------------
(* What a reply says of the answer it was cut from.                        *)

\* An answer as it is sorted: no entity twice, and its length a uint64.
Answers == {s \in Seq(Entities) :
               /\ Len(s) < UintSize
               /\ \A i, j \in DOMAIN s : i # j => s[i] # s[j]}

\* The table cuts the page from the answer, and the index is not refused.
IsCut(r, page) ==
    /\ r.answer \in Answers
    /\ PageExists(Len(r.answer), page.num, page.size)
    /\ page.num < PageCount(Len(r.answer), page.size)
    /\ r.entities = Page(r.answer, page.num, page.size)

\* The inductive invariant about pages, on top of SameHash.
PageControl ==
    /\ \A k \in Keys : cache[k] # NoEntry => cache[k].entities \in Answers
    /\ \A c \in Clients : Paged(c) => IsCut(reply[c], request[c].page)
    /\ WholeAnswerIsOwn

(* Sorting the entities found for some examples makes an answer.           *)
LEMMA SortedAnswers ==
    ASSUME NEW q \in Queries, NEW S \in SUBSET Matches[q], NEW s \in Sorted(S)
    PROVE  s \in Answers
<1>1. /\ IsFiniteSet(Matches[q]) /\ Matches[q] \subseteq Entities
      /\ Cardinality(Matches[q]) < UintSize
    BY MatchesAssumption, SizeAssumption
<1>2. IsFiniteSet(S) /\ S \in SUBSET Entities /\ Cardinality(S) <= Cardinality(Matches[q])
    BY <1>1, FS_Subset
<1>3. Cardinality(S) \in Nat /\ Cardinality(Matches[q]) \in Nat
    BY <1>1, <1>2, FS_CardinalityType
<1>4. s \in Seq(Entities)
    BY <1>2, SortedType
<1>5. /\ s \in [1 .. Cardinality(S) -> S]
      /\ \A i, j \in 1 .. Cardinality(S) : i < j => s[i] # s[j]
    BY DEF Sorted
<1>6. Len(s) = Cardinality(S) /\ DOMAIN s = 1 .. Cardinality(S)
    BY <1>3, <1>5
<1>7. \A i, j \in DOMAIN s : i # j => s[i] # s[j]
    <2> TAKE i, j \in DOMAIN s
    <2>1. i < j \/ j < i \/ i = j
        BY <1>3, <1>6
    <2>2. QED BY <1>5, <1>6, <2>1
<1>8. Len(s) < UintSize
    BY <1>1, <1>2, <1>3, <1>6, UintAssumption
<1>9. QED BY <1>4, <1>7, <1>8 DEF Answers

(* A page that is found in the table is cut from the answer stored there.  *)
LEMMA PageResultIsCut ==
    ASSUME HandlerTypeOK, PageControl, NEW page \in PageRequests, page.key \in Keys,
           NEW fresh \in BOOLEAN
    PROVE  PageResult(page, fresh).status = 200 => IsCut(PageResult(page, fresh), page)
<1> DEFINE entry == cache[page.key]
           length == Len(entry.entities)
<1>1. CASE FetchOutcome(page) = "page"
    <2>1. /\ entry # NoEntry
          /\ PageExists(length, page.num, page.size)
          /\ ~(page.num >= PageCount(length, page.size))
        BY <1>1 DEF FetchOutcome
    <2>2. entry.entities \in Answers
        BY <2>1 DEF PageControl
    <2>3. page.num \in Nat /\ page.size \in Nat /\ length \in Nat
        BY <2>2 DEF PageRequests, Answers
    <2>4. PageCount(length, page.size) \in Nat
        BY <2>3, PageCountType
    <2>5. page.num < PageCount(length, page.size)
        BY <2>1, <2>3, <2>4
    <2>6. PageResult(page, fresh) = PageReply(entry, page, fresh)
        BY <1>1 DEF PageResult
    <2>7. QED BY <2>1, <2>2, <2>5, <2>6 DEF IsCut, PageReply
<1>2. CASE FetchOutcome(page) # "page"
    BY <1>2 DEF PageResult, Failure
<1>3. QED BY <1>1, <1>2

(* No handler has replied at the beginning.                                *)
LEMMA PageControlInit == HandlerInit => PageControl
<1> SUFFICES ASSUME HandlerInit PROVE PageControl
    OBVIOUS
<1>1. \A c \in Clients : reply[c].status # 200
    BY DEF HandlerInit, NoReply
<1>2. \A k \in Keys : cache[k] = NoEntry
    BY DEF HandlerInit
<1>3. QED BY <1>1, <1>2 DEF PageControl, Paged, WholeAnswerIsOwn

(* Only sorting stores an answer and makes a reply without a page; only    *)
(* the table makes a reply with a page.                                    *)
LEMMA PageControlStep ==
    SameHash /\ PageControl /\ [HandlerNext]_handlerVars => PageControl'
<1> SUFFICES ASSUME SameHash, PageControl, [HandlerNext]_handlerVars
             PROVE  PageControl'
    OBVIOUS
<1> USE DEF SameHash
<1>1. ASSUME NEW c \in Clients, reply'[c].status # 200, cache' = cache,
             \A d \in Clients \ {c} : reply'[d] = reply[d] /\ request'[d] = request[d]
      PROVE  PageControl'
    <2>1. \A k \in Keys : cache'[k] # NoEntry => cache'[k].entities \in Answers
        BY <1>1 DEF PageControl
    <2>2. ASSUME NEW d \in Clients
          PROVE  /\ Paged(d)' => IsCut(reply[d], request[d].page)'
                 /\ reply'[d].status = 200 /\ request'[d].page = NoPage =>
                      /\ reply'[d].source = request'[d].query
                      /\ reply'[d].entities = reply'[d].answer
        <3>1. CASE d = c
            BY <1>1, <3>1 DEF Paged
        <3>2. CASE d # c
            <4>1. reply'[d] = reply[d] /\ request'[d] = request[d]
                BY <1>1, <3>2
            <4>2. QED BY <4>1 DEF PageControl, Paged, IsCut, WholeAnswerIsOwn
        <3>3. QED BY <3>1, <3>2
    <2>3. QED BY <2>1, <2>2 DEF PageControl, WholeAnswerIsOwn
<1>2. ASSUME NEW c \in Clients, Receive(c) PROVE PageControl'
    <2>1. /\ reply'[c].status # 200 /\ cache' = cache
          /\ \A d \in Clients \ {c} : reply'[d] = reply[d] /\ request'[d] = request[d]
        BY <1>2 DEF Receive, HandlerTypeOK, NoReply
    <2>2. QED BY <1>1, <2>1
<1>3. ASSUME NEW c \in Clients, HandlerStep(c) PROVE PageControl'
    <2>1. CASE SkipCache(c) \/ QueryRegexDB(c) \/ Inflate(c)
        BY <2>1 DEF SkipCache, QueryRegexDB, Inflate, PageControl, Paged, IsCut,
                    WholeAnswerIsOwn
    <2>2. CASE DropChangedQuery(c)
        BY <2>2 DEF DropChangedQuery, InvalidateResults, HandlerTypeOK, PageControl,
                    Paged, IsCut, WholeAnswerIsOwn
    <2>3. CASE ServeCached(c) \/ FetchFreshPage(c)
        <3> DEFINE page == request[c].page
        <3>1. /\ page \in PageRequests /\ page.key \in Keys /\ page # NoPage
              /\ cache' = cache /\ request' = request
            BY <2>3, PagesAssumption, HashAssumption
               DEF ServeCached, Unpaged, FetchFreshPage, RefetchesOwnKey,
                   HandlerTypeOK, PageRequests
        <3>2. PICK fresh \in BOOLEAN :
                 reply' = [reply EXCEPT ![c] = PageResult(page, fresh)]
            BY <2>3 DEF ServeCached, FetchFreshPage, Answered
        <3>3. PageResult(page, fresh).status = 200 => IsCut(PageResult(page, fresh), page)
            BY <3>1, PageResultIsCut
        <3>4. PICK r : r = PageResult(page, fresh)
            OBVIOUS
        <3>5. QED
            BY <3>1, <3>2, <3>3, <3>4
               DEF HandlerTypeOK, PageControl, Paged, IsCut, WholeAnswerIsOwn
    <2>4. CASE ServiceFails(c)
        <3>1. PICK code \in {400, 500} :
                 /\ reply' = [reply EXCEPT ![c] = Failure(code)]
                 /\ cache' = cache /\ request' = request
            BY <2>4 DEF ServiceFails, Answered
        <3>2. Failure(code).status # 200
            BY DEF Failure
        <3>3. /\ reply'[c].status # 200
              /\ \A d \in Clients \ {c} : reply'[d] = reply[d]
            BY <3>1, <3>2 DEF HandlerTypeOK
        <3>4. QED BY <1>1, <3>1, <3>3
    <2>5. CASE SortAndCache(c)
        <3> DEFINE q == request[c].query
        <3>1. PICK answer \in Sorted(found[c]) :
                 /\ CacheResults(q, answer)
                 /\ IF request[c].page = NoPage
                    THEN /\ reply' = [reply EXCEPT ![c] = WholeReply(q, answer)]
                         /\ UNCHANGED request
                    ELSE /\ request' = [request EXCEPT ![c].page.key = Hash[q]]
                         /\ UNCHANGED reply
            BY <2>5 DEF SortAndCache
        <3>2. answer \in Answers /\ Hash[q] \in Keys
            BY SortedAnswers, HashAssumption DEF HandlerTypeOK
        <3>3. \A k \in Keys : cache'[k] # NoEntry => cache'[k].entities \in Answers
            BY <3>1, <3>2 DEF CacheResults, HandlerTypeOK, PageControl
        <3>4. CASE request[c].page = NoPage
            <4>1. /\ reply' = [reply EXCEPT ![c] = WholeReply(q, answer)]
                  /\ request' = request
                BY <3>1, <3>4
            <4>2. /\ WholeReply(q, answer).source = q
                  /\ WholeReply(q, answer).entities = WholeReply(q, answer).answer
                BY DEF WholeReply
            <4>3. QED
                BY <3>3, <3>4, <4>1, <4>2
                   DEF HandlerTypeOK, PageControl, Paged, IsCut, WholeAnswerIsOwn
        <3>5. CASE request[c].page # NoPage
            <4>1. /\ request' = [request EXCEPT ![c].page.key = Hash[q]]
                  /\ reply' = reply
                BY <3>1, <3>5
            <4>2. /\ request[c].page \in PageRequests
                  /\ \A d \in Clients \ {c} : request'[d] = request[d]
                  /\ request'[c].page = [request[c].page EXCEPT !.key = Hash[q]]
                BY <3>5, <4>1 DEF HandlerTypeOK
            <4>3. /\ request'[c].page.num = request[c].page.num
                  /\ request'[c].page.size = request[c].page.size
                  /\ request'[c].page \in PageRequests /\ request'[c].page # NoPage
                BY <3>2, <4>2, PagesAssumption DEF PageRequests
            <4>4. QED
                BY <3>3, <3>5, <4>1, <4>2, <4>3
                   DEF PageControl, Paged, IsCut, WholeAnswerIsOwn
        <3>6. QED BY <3>4, <3>5
    <2>6. CASE Finish(c)
        <3>1. cache' = cache /\ request' = request
            BY <2>6 DEF Finish
        <3>2. CASE reply' = reply
            BY <3>1, <3>2 DEF PageControl, Paged, IsCut, WholeAnswerIsOwn
        <3>3. ASSUME NEW code \in {400, 500},
                     reply' = [reply EXCEPT ![c] = Failure(code)]
              PROVE  PageControl'
            <4>1. Failure(code).status # 200
                BY DEF Failure
            <4>2. /\ reply'[c].status # 200
                  /\ \A d \in Clients \ {c} : reply'[d] = reply[d]
                BY <3>3, <4>1 DEF HandlerTypeOK
            <4>3. QED BY <1>1, <3>1, <4>2
        <3>4. QED BY <2>6, <3>2, <3>3 DEF Finish, Answered, HandlerTypeOK
    <2>7. QED BY <1>3, <2>1, <2>2, <2>3, <2>4, <2>5, <2>6 DEF HandlerStep
<1>4. ASSUME NEW k \in Keys, Expire(k), UNCHANGED <<pc, request, found, reply>>
      PROVE  PageControl'
    BY <1>4 DEF Expire, HandlerTypeOK, PageControl, Paged, IsCut, WholeAnswerIsOwn
<1>5. CASE UNCHANGED handlerVars
    BY <1>5 DEF handlerVars, PageControl, Paged, IsCut, WholeAnswerIsOwn
<1>6. QED BY <1>2, <1>3, <1>4, <1>5 DEF HandlerNext, EntryExpires

(* Both inductive invariants hold in every reachable state.                *)
LEMMA PageControlInvariant == HandlerSpec => [](SameHash /\ PageControl)
BY SameHashInit, SameHashStep, PageControlInit, PageControlStep, PTL DEF HandlerSpec

(* Without a page request the reply is the answer to the request's own     *)
(* examples, whole, whatever other handlers do to the table.               *)
THEOREM WholeAnswersAreOwn == HandlerSpec => []WholeAnswerIsOwn
<1>1. PageControl => WholeAnswerIsOwn
    BY DEF PageControl
<1>2. QED BY <1>1, PageControlInvariant, PTL

-----------------------------------------------------------------------------
(* Two pages of one answer. *)

(* The bounds of a page whose index is not refused: the multiplication of  *)
(* its start does not wrap, and its end is at most one size further.       *)
LEMMA PageBounds ==
    ASSUME NEW total \in Nat, total < UintSize, NEW num \in Nat, NEW size \in Nat,
           num < PageCount(total, size), PageExists(total, num, size)
    PROVE  /\ PageStart(num, size) = num * size
           /\ PageEnd(total, num, size) \in Nat
           /\ num * size <= PageEnd(total, num, size)
           /\ PageEnd(total, num, size) <= num * size + size
           /\ PageEnd(total, num, size) <= total
<1> USE UintAssumption
<1> DEFINE start == num * size
<1>1. start \in Nat /\ start <= total
    <2>1. CASE size = 0
        BY <2>1
    <2>2. CASE size > 0
        <3>1. num <= total \div size
            BY <2>2 DEF PageCount
        <3>2. size * (total \div size) <= total /\ total \div size \in Nat
            BY <2>2
        <3>3. num * size <= size * (total \div size)
            BY <3>1, <3>2
        <3>4. QED BY <3>2, <3>3
    <2>3. QED BY <2>1, <2>2
<1> HIDE DEF start
<1>2. start % UintSize = start
    BY <1>1
<1>3. PageStart(num, size) = start
    BY <1>2 DEF PageStart, start
<1> DEFINE raw == (start + size) % UintSize
           end == IF raw >= total THEN (total - 1) % UintSize ELSE raw
<1>4. PageEnd(total, num, size) = end
    BY <1>3 DEF PageEnd
<1>5. raw \in Nat /\ raw <= start + size
    BY <1>1
<1>6. start <= end /\ end <= total
    BY <1>3, <1>4 DEF PageExists
<1>7. CASE total = 0
    <2>1. (0 - 1) % UintSize = UintSize - 1
        OBVIOUS
    <2>2. QED BY <1>5, <1>6, <1>7, <2>1
<1>8. CASE total > 0
    <2>1. (total - 1) % UintSize = total - 1
        BY <1>8
    <2>2. end \in Nat /\ end <= start + size
        BY <1>1, <1>5, <1>8, <2>1
    <2>3. QED BY <1>3, <1>4, <1>6, <2>2 DEF start
<1>9. QED BY <1>7, <1>8

(* The entities of a page are those between its bounds.                    *)
LEMMA CutEntities ==
    ASSUME NEW r, NEW page \in PageRequests, IsCut(r, page)
    PROVE  LET start == page.num * page.size
           IN /\ r.answer \in Answers
              /\ Len(r.entities) \in Nat /\ Len(r.entities) <= page.size
              /\ \A i \in DOMAIN r.entities :
                    /\ i \in 1 .. page.size
                    /\ start + i \in DOMAIN r.answer
                    /\ r.entities[i] = r.answer[start + i]
<1> DEFINE total == Len(r.answer)
           start == page.num * page.size
           end == PageEnd(total, page.num, page.size)
<1>1. /\ r.answer \in Answers /\ r.answer \in Seq(Entities)
      /\ total \in Nat /\ total < UintSize
      /\ page.num \in Nat /\ page.size \in Nat
    BY DEF IsCut, Answers, PageRequests
<1>2. /\ PageStart(page.num, page.size) = start
      /\ end \in Nat /\ start <= end /\ end <= start + page.size /\ end <= total
    BY <1>1, PageBounds DEF IsCut
<1>3. start \in Nat
    BY <1>1
<1>4. r.entities = SubSeq(r.answer, start + 1, end)
    BY <1>2 DEF IsCut, Page
<1> HIDE DEF start, end
<1>5. /\ Len(r.entities) = end - start
      /\ \A i \in 1 .. (end - start) : r.entities[i] = r.answer[start + i]
      /\ DOMAIN r.entities = 1 .. (end - start)
    <2>1. /\ start + 1 \in Int /\ start + 1 >= 1 /\ start + 1 <= end + 1
          /\ end \in Int /\ end <= Len(r.answer)
        BY <1>2, <1>3
    <2>2. /\ Len(r.entities) = end - (start + 1) + 1
          /\ r.entities \in Seq(Entities)
        BY <1>1, <1>4, <2>1, SubSeqProperties
    <2>3. ASSUME NEW i \in 1 .. (end - start)
          PROVE  r.entities[i] = r.answer[start + i]
        <3>1. i \in 1 .. (end - (start + 1) + 1) /\ (start + 1) + i - 1 = start + i
            BY <1>2, <1>3
        <3>2. QED BY <1>1, <1>4, <2>1, <3>1, SubSeqProperties
    <2>4. QED BY <1>2, <1>3, <2>2, <2>3
<1>6. ASSUME NEW i \in DOMAIN r.entities
      PROVE  /\ i \in 1 .. page.size
             /\ start + i \in DOMAIN r.answer
             /\ r.entities[i] = r.answer[start + i]
    <2>1. i \in Nat /\ 1 <= i /\ i <= end - start
        BY <1>2, <1>3, <1>5, <1>6
    <2>2. i <= page.size /\ start + i \in Nat /\ 1 <= start + i /\ start + i <= total
        BY <1>1, <1>2, <1>3, <2>1
    <2>3. DOMAIN r.answer = 1 .. total
        BY <1>1
    <2>4. QED BY <1>1, <1>5, <1>6, <2>1, <2>2, <2>3
<1>7. Len(r.entities) \in Nat /\ Len(r.entities) <= page.size
    BY <1>1, <1>2, <1>3, <1>5
<1> HIDE DEF total
<1>8. QED BY <1>1, <1>6, <1>7 DEF start

(* A page with a smaller number ends before the other starts.              *)
LEMMA EarlierPage ==
    ASSUME NEW m \in Nat, NEW n \in Nat, m < n, NEW size \in Nat,
           NEW i \in 1 .. size, NEW j \in 1 .. size
    PROVE  m * size + i # n * size + j
<1>1. \A a, b, c \in Nat : (a + b) * c = a * c + b * c /\ a * c \in Nat
    <2>1. \A a, b, c \in Int : (a + b) * c = a * c + b * c
        OBVIOUS
    <2>2. \A a, c \in Nat : a * c \in Nat
        OBVIOUS
    <2>3. QED BY <2>1, <2>2
<1>2. PICK d \in Nat : n = m + (1 + d)
    <2>1. n - (m + 1) \in Nat /\ n = m + (1 + (n - (m + 1)))
        OBVIOUS
    <2>2. QED BY <2>1
<1>3. n * size = m * size + (1 * size + d * size)
    <2>1. 1 + d \in Nat /\ n * size = (m + (1 + d)) * size
        BY <1>2
    <2>2. (m + (1 + d)) * size = m * size + (1 + d) * size
        BY <1>1, <2>1
    <2>3. (1 + d) * size = 1 * size + d * size
        BY <1>1
    <2>4. QED BY <2>1, <2>2, <2>3
<1>4. m * size \in Nat /\ d * size \in Nat /\ 1 * size = size
    BY <1>1
<1>5. QED BY <1>3, <1>4

(* Two replies cut from the same answer into pages of the same size share  *)
(* no entity unless they are the same page, and none has more entities     *)
(* than the size: for every answer, number and size, and with no overflow  *)
(* of the unsigned products.                                               *)
THEOREM PagesAreDisjoint == HandlerSpec => []PagesDisjoint
<1>1. SameHash /\ PageControl => PagesDisjoint
    <2> SUFFICES ASSUME SameHash, PageControl, NEW c \in Clients, NEW d \in Clients,
                        Paged(c), Paged(d), reply[c].answer = reply[d].answer,
                        request[c].page.size = request[d].page.size
                 PROVE  /\ Len(reply[c].entities) <= request[c].page.size
                        /\ request[c].page.num # request[d].page.num =>
                             \A i \in DOMAIN reply[c].entities,
                                j \in DOMAIN reply[d].entities :
                                   reply[c].entities[i] # reply[d].entities[j]
        BY DEF PagesDisjoint
    <2>1. /\ request[c].page \in PageRequests /\ request[d].page \in PageRequests
          /\ IsCut(reply[c], request[c].page) /\ IsCut(reply[d], request[d].page)
        BY DEF SameHash, HandlerTypeOK, PageControl, Paged
    <2> DEFINE m == request[c].page.num
               n == request[d].page.num
               size == request[c].page.size
               answer == reply[c].answer
    <2>2. m \in Nat /\ n \in Nat /\ size \in Nat
        BY <2>1 DEF PageRequests
    <2>3. Len(reply[c].entities) <= size
        BY <2>1, CutEntities
    <2>4. ASSUME m # n, NEW i \in DOMAIN reply[c].entities,
                 NEW j \in DOMAIN reply[d].entities
          PROVE  reply[c].entities[i] # reply[d].entities[j]
        <3>1. /\ answer \in Answers /\ i \in 1 .. size /\ m * size + i \in DOMAIN answer
              /\ reply[c].entities[i] = answer[m * size + i]
            BY <2>1, CutEntities
        <3>2. /\ j \in 1 .. size /\ n * size + j \in DOMAIN answer
              /\ reply[d].entities[j] = answer[n * size + j]
            BY <2>1, CutEntities
        <3> HIDE DEF m, n, size, answer
        <3>3. m * size + i # n * size + j
            <4>1. CASE m < n
                BY <2>2, <3>1, <3>2, <4>1, EarlierPage
            <4>2. CASE n < m
                BY <2>2, <3>1, <3>2, <4>2, EarlierPage
            <4>3. QED BY <2>2, <2>4, <4>1, <4>2
        <3>4. QED BY <3>1, <3>2, <3>3 DEF Answers
    <2>5. QED BY <2>3, <2>4
<1>2. QED BY <1>1, PageControlInvariant, PTL
=============================================================================
