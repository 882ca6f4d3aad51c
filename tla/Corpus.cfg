\* Clusters of two, at most four regexes that can be clustered.
SPECIFICATION Spec
CONSTANTS
    a = a
    b = b
    c = c
    u = u
    e = e
    n = n
    Regexes <- MCRegexes
    Unparsed = {u}
    Refused = {u}
    NonAscii = {n}
    TooLong = {c}
    EgretFails = {e}
    Arguments = {{"re2"}, {"maxLength", "egret"}}
    Corpora <- MCCorpora
    Strings <- MCStrings
    Language <- MCLanguage
    MaxClusterSize = 1
    NoFile = NoFile
INVARIANTS
    CorpusTypeOK
    ToolPartitions
    
    
SYMMETRY Symmetric
