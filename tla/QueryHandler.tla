---------------------------- MODULE QueryHandler ----------------------------
(***************************************************************************)
(* server/query_handler.go: the handler of POST /query.  gin runs one      *)
(* handler per request, all at once, over one shared ResultTable; between  *)
(* two operations on the table a handler calls the regex database, the     *)
(* entity store and the coverage service, and others run.                  *)
(***************************************************************************)
EXTENDS ResultTable

CONSTANTS Clients,   \* each has at most one request under way
          Matches,   \* Matches[q]: the entities the regex database answers
          Rank,      \* Rank[e]: place of e in the order SortByCoverage makes
          Pages,     \* the page requests clients make
          NoPage,    \* a request without a pageRequest
          NoKey      \* the empty cacheKey

\* A PageRequest.
PageRequests == [key : Keys \cup {NoKey}, num : Nat, size : Nat]

ASSUME MatchesAssumption ==
    \A q \in Queries : Matches[q] \subseteq Entities /\ IsFiniteSet(Matches[q])
ASSUME QueriesAssumption == Queries # {}
\* A slice of Go has fewer elements than uint64 has values.
ASSUME SizeAssumption == \A q \in Queries : Cardinality(Matches[q]) < UintSize
ASSUME PagesAssumption ==
    /\ Pages \subseteq PageRequests
    /\ NoPage \notin PageRequests
    /\ NoKey \notin Keys

VARIABLES pc,       \* pc[c]: where the handler of c's request is
          request,  \* request[c]: the examples and the page c asked for
          found,    \* found[c]: the entities the store gave for its matches
          reply     \* reply[c]: the reply to c, as far as it is made

handlerVars == <<cache, pc, request, found, reply>>

HasPositive(q) == q.positive # <<>>
HasNegative(q) == q.negative # <<>>

\* The answers that may be given for a set of entities: by rank, ties and
\* the order in which a Go map is walked being arbitrary.
Sorted(S) ==
    {s \in [1 .. Cardinality(S) -> S] :
        \A i, j \in 1 .. Cardinality(S) :
            i < j => s[i] # s[j] /\ Rank[s[i]] <= Rank[s[j]]}

\* A reply: its status, whether it was computed or found in the table, the
\* entities on the page, the total and the page count; and, for comparison,
\* the examples whose answer it was cut from and that answer.
NoReply == [status |-> 0]
Failure(code) == [status |-> code]
PageReply(entry, page, fresh) ==
    [status    |-> 200,
     fresh     |-> fresh,
     source    |-> entry.query,
     answer    |-> entry.entities,
     entities  |-> Page(entry.entities, page.num, page.size),
     total     |-> Len(entry.entities),
     pageCount |-> PageCount(Len(entry.entities), page.size)]
WholeReply(q, entities) ==
    [status |-> 200, fresh |-> TRUE, source |-> q, answer |-> entities,
     entities |-> entities, total |-> 0, pageCount |-> 1]

\* gin's Recovery turns a panic into status 500.
PageResult(page, fresh) ==
    LET outcome == FetchOutcome(page)
    IN CASE outcome = "page"  -> PageReply(cache[page.key], page, fresh)
         [] outcome = "panic" -> Failure(500)
         [] OTHER             -> Failure(400)

Answered(c, r) ==
    /\ reply' = [reply EXCEPT ![c] = r]
    /\ pc' = [pc EXCEPT ![c] = "answered"]
    /\ found' = [found EXCEPT ![c] = {}]

Goto(c, label) == pc' = [pc EXCEPT ![c] = label]

HandlerInit ==
    /\ cache = [k \in Keys |-> NoEntry]
    /\ pc = [c \in Clients |-> "answered"]
    /\ request = [c \in Clients |-> [query |-> CHOOSE q \in Queries : TRUE,
                                     page |-> NoPage]]
    /\ found = [c \in Clients |-> {}]
    /\ reply = [c \in Clients |-> NoReply]

-----------------------------------------------------------------------------

Receive(c) ==
    /\ pc[c] = "answered"
    /\ \E q \in Queries, page \in Pages \cup {NoPage} :
          request' = [request EXCEPT ![c] = [query |-> q, page |-> page]]
    /\ reply' = [reply EXCEPT ![c] = NoReply]
    /\ Goto(c, "tryCache")
    /\ UNCHANGED <<cache, found>>

\* tryCachedEntry, one action per branch.
Unpaged(c) == request[c].page # NoPage => request[c].page.key = NoKey

\* Faulty: the key a client sends is trusted.
QueryNeverChanged(c) == FALSE

QueryChanged(c) ==
    LET q == request[c].query
    IN Hash[q] # request[c].page.key /\ HasPositive(q) /\ HasNegative(q)

SkipCache(c) ==
    /\ pc[c] = "tryCache"
    /\ Unpaged(c)
    /\ Goto(c, "regexdb")
    /\ UNCHANGED <<cache, request, found, reply>>

DropChangedQuery(c) ==
    /\ pc[c] = "tryCache"
    /\ ~Unpaged(c) /\ QueryChanged(c)
    /\ InvalidateResults(request[c].page.key)
    /\ Goto(c, "regexdb")
    /\ UNCHANGED <<request, found, reply>>

ServeCached(c) ==
    /\ pc[c] = "tryCache"
    /\ ~Unpaged(c) /\ ~QueryChanged(c)
    /\ Answered(c, PageResult(request[c].page, FALSE))
    /\ UNCHANGED <<cache, request>>

-----------------------------------------------------------------------------
(* The three services behind the handler; each call may fail. *)

ServiceFails(c) ==
    /\ \/ pc[c] = "regexdb" /\ \E code \in {400, 500} : Answered(c, Failure(code))
       \/ pc[c] \in {"inflate", "cover"} /\ Answered(c, Failure(500))
    /\ UNCHANGED <<cache, request>>

QueryRegexDB(c) ==
    /\ pc[c] = "regexdb"
    /\ Goto(c, "inflate")
    /\ UNCHANGED <<cache, request, found, reply>>

\* Faulty: whatever the store holds is taken for a match.
InflateEverything(c) ==
    /\ pc[c] = "inflate"
    /\ Matches[request[c].query] # {}
    /\ \E S \in SUBSET Entities : found' = [found EXCEPT ![c] = S]
    /\ Goto(c, "cover")
    /\ UNCHANGED <<cache, request, reply>>

\* The store refuses a request for no keys, and it may leave some keys of a
\* request unanswered; GetRegexesById keeps what it gets.
Inflate(c) ==
    /\ pc[c] = "inflate"
    /\ Matches[request[c].query] # {}
    /\ \E S \in SUBSET Matches[request[c].query] : found' = [found EXCEPT ![c] = S]
    /\ Goto(c, "cover")
    /\ UNCHANGED <<cache, request, reply>>

\* Faulty: the answer that is already stored under the key is replied to a
\* request without a page.
ReplyStoredAnswer(c) ==
    LET q == request[c].query
        stored == cache[Hash[q]]
    IN /\ pc[c] = "cover"
       /\ \E answer \in Sorted(found[c]) :
             /\ CacheResults(q, answer)
             /\ IF request[c].page = NoPage
                THEN /\ reply' = [reply EXCEPT ![c] =
                           IF stored = NoEntry THEN WholeReply(q, answer)
                           ELSE WholeReply(stored.query, stored.entities)]
                     /\ Goto(c, "track")
                     /\ UNCHANGED request
                ELSE /\ request' = [request EXCEPT ![c].page.key = Hash[q]]
                     /\ Goto(c, "refetch")
                     /\ UNCHANGED reply
       /\ found' = [found EXCEPT ![c] = {}]

\* SortByCoverage, then CacheResults under the hash of the request, whatever
\* the key the client sent.  Without a page request the reply is complete.
SortAndCache(c) ==
    LET q == request[c].query
    IN /\ pc[c] = "cover"
       /\ \E answer \in Sorted(found[c]) :
             /\ CacheResults(q, answer)
             /\ IF request[c].page = NoPage
                THEN /\ reply' = [reply EXCEPT ![c] = WholeReply(q, answer)]
                     /\ Goto(c, "track")
                     /\ UNCHANGED request
                ELSE /\ request' = [request EXCEPT ![c].page.key = Hash[q]]
                     /\ Goto(c, "refetch")
                     /\ UNCHANGED reply
       /\ found' = [found EXCEPT ![c] = {}]

\* The page is cut from what the table holds by now.
FetchFreshPage(c) ==
    /\ pc[c] = "refetch"
    /\ LET r == PageResult(request[c].page, TRUE)
       IN /\ reply' = [reply EXCEPT ![c] = r]
          /\ Goto(c, IF r.status = 200 THEN "track" ELSE "answered")
    /\ UNCHANGED <<cache, request, found>>

\* A tracked request still fails if its taskId is no number or the query
\* cannot be recorded; what was cached stays.
Finish(c) ==
    /\ pc[c] = "track"
    /\ \/ Answered(c, reply[c])
       \/ \E code \in {400, 500} : Answered(c, Failure(code))
    /\ UNCHANGED <<cache, request>>

-----------------------------------------------------------------------------

HandlerStep(c) ==
    \/ SkipCache(c) \/ DropChangedQuery(c) \/ ServeCached(c)
    \/ QueryRegexDB(c) \/ Inflate(c) \/ ServiceFails(c)
    \/ SortAndCache(c) \/ FetchFreshPage(c) \/ Finish(c)

EntryExpires == \E k \in Keys : Expire(k) /\ UNCHANGED <<pc, request, found, reply>>

HandlerNext ==
    \/ \E c \in Clients : Receive(c) \/ HandlerStep(c)
    \/ EntryExpires

HandlerSpec == HandlerInit /\ [][HandlerNext]_handlerVars

-----------------------------------------------------------------------------

Labels == {"answered", "tryCache", "regexdb", "inflate", "cover", "refetch", "track"}

Replies ==
    {NoReply, Failure(400), Failure(500)} \cup
    [status : {200}, fresh : BOOLEAN, source : Queries, answer : Seq(Entities),
     entities : Seq(Entities), total : Nat, pageCount : Nat]

HandlerTypeOK ==
    /\ cache \in [Keys -> Entry \cup {NoEntry}]
    /\ pc \in [Clients -> Labels]
    /\ request \in [Clients -> [query : Queries, page : PageRequests \cup {NoPage}]]
    /\ found \in [Clients -> SUBSET Entities]
    /\ \A c \in Clients : found[c] \subseteq Matches[request[c].query]
    /\ reply \in [Clients -> Replies]

(* Every entry is stored under the hash of the examples it answers, though *)
(* requests bring keys of their own choosing.                              *)
CacheKeyedByHash ==
    \A k \in Keys : cache[k] # NoEntry => Hash[cache[k].query] = k

(* A client that sends positive and negative examples is never answered    *)
(* for examples that hash differently, whatever key it sends and whatever  *)
(* other handlers store, drop or let expire meanwhile.  A computed answer  *)
(* has the hash of the request's examples even if one kind is missing.     *)
AnswersSameHash ==
    \A c \in Clients :
        LET q == request[c].query
        IN /\ reply[c].status = 200
           /\ reply[c].fresh \/ (HasPositive(q) /\ HasNegative(q))
           => Hash[reply[c].source] = Hash[q]

(* Without a page request the reply is the whole answer to the request's   *)
(* own examples: what others do to the table cannot show in it.            *)
WholeAnswerIsOwn ==
    \A c \in Clients :
        reply[c].status = 200 /\ request[c].page = NoPage =>
            /\ reply[c].source = request[c].query
            /\ reply[c].entities = reply[c].answer

(* Pages of one answer never overlap: two replies cut from the same answer *)
(* with the same page size and different page numbers share no entity, and *)
(* none has more entities than the size.                                   *)
Paged(c) == reply[c].status = 200 /\ request[c].page # NoPage
PagesDisjoint ==
    \A c, d \in Clients :
        /\ Paged(c) /\ Paged(d)
        /\ reply[c].answer = reply[d].answer
        /\ request[c].page.size = request[d].page.size
        => /\ Len(reply[c].entities) <= request[c].page.size
           /\ request[c].page.num # request[d].page.num =>
                 \A i \in DOMAIN reply[c].entities, j \in DOMAIN reply[d].entities :
                     reply[c].entities[i] # reply[d].entities[j]

-----------------------------------------------------------------------------
(* What the source says of itself and does not do. *)

(* query_handler.go:95, "The query has not changed, so we can get these    *)
(* results": a reply found in the table is the answer to the examples of   *)
(* the request, if it has any.                                             *)
CachedQueryHasNotChanged ==
    \A c \in Clients :
        LET q == request[c].query
        IN /\ reply[c].status = 200 /\ ~reply[c].fresh
           /\ HasPositive(q) \/ HasNegative(q)
           => reply[c].source = q

(* paging.go:118, "round up", and paging.go:49, "How many items should be *)
(* on the page": the pages of an answer are as many as its total needs,    *)
(* rounded up, and a page that the answer has entities to fill is full.    *)
PagesPartitionTheAnswer ==
    \A c \in Clients :
        LET page == request[c].page
            size == page.size
        IN  Paged(c) /\ size > 0 =>
                /\ reply[c].pageCount = (reply[c].total + size - 1) \div size
                /\ (page.num + 1) * size <= reply[c].total =>
                       Len(reply[c].entities) = size
=============================================================================
