\* Two clients, answers of at most two entities, pages of one or two.
SPECIFICATION HandlerSpec
CONSTANTS
    Clients = {c1, c2}
    e1 = e1
    e2 = e2
    e3 = e3
    Entities = {e1, e2, e3}
    NoEntry = NoEntry
    NoPage = NoPage
    NoKey = NoKey
    UintSize = 16
    Queries <- MCQueries
    Keys <- MCKeys
    Hash <- MCHash
    Matches <- MCMatches
    Rank <- MCRank
    Pages <- MCPages
INVARIANTS
    HandlerTypeOK
    
    AnswersSameHash
    
    
SYMMETRY Symmetric
