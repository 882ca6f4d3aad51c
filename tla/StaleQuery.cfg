\* One client that keeps its key and drops its negative examples.
SPECIFICATION HandlerSpec
CONSTANTS
    Clients = {c1}
    e1 = e1
    e2 = e2
    e3 = e3
    Entities = {e1, e2, e3}
    NoEntry = NoEntry
    NoPage = NoPage
    NoKey = NoKey
    UintSize = 16
    Queries <- OneSidedQueries
    Keys <- OneSidedKeys
    Hash <- OneSidedHash
    Matches <- OneSidedMatches
    Rank <- MCRank
    Pages <- OneSidedPages
INVARIANT CachedQueryHasNotChanged
