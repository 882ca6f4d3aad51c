\* One client suffices: the page count and the length of a single reply.
SPECIFICATION HandlerSpec
CONSTANTS
    Clients = {c1}
    e1 = e1
    e2 = e2
    e3 = e3
    Entities = {e1, e2, e3}
    NoEntry = NoEntry
    NoPage = NoPage
    NoKey = NoKey
    UintSize = 16
    Queries <- MCQueries
    Keys <- MCKeys
    Hash <- MCHash
    Matches <- MCMatches
    Rank <- MCRank
    Pages <- MCPages
INVARIANT PagesPartitionTheAnswer
