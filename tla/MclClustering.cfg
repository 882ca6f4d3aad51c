\* Two runs at a time, two ids, two workers.
SPECIFICATION Spec
CONSTANTS
    a = a
    b = b
    u = u
    f = f
    none = none
    p1 = p1
    p2 = p2
    Runs = {p1, p2}
    Ids = {1, 2}
    Workers = 2
    Patterns <- MCPatterns
    Strings <- MCStrings
    Found <- MCFound
    Full <- MCFull
    Options <- MCOptions
    Corpora <- MCCorpora
    Empty = none
    Refused = {u}
    RexFails = {f}
INVARIANTS
    MclTypeOK
    
    
    LeavesOnlyRefused
SYMMETRY Symmetric
