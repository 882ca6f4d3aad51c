\* Up to five regexes, clusters of one to three, two examples.
SPECIFICATION Spec
CONSTANTS
    r1 = r1
    r2 = r2
    r3 = r3
    r4 = r4
    r5 = r5
    Regexes = {r1, r2, r3, r4, r5}
    Unparsed = {r4}
    Refused = {r3, r4}
    Examples = {1, 2}
    Files <- MCFiles
    Language <- MCLanguage
    MaxClusterSize = 2
INVARIANTS
    RepositoryTypeOK
    ClustersAgree
    
    RepositoriesAgree
