\* Up to seven regexes, and machines of zero to three processors.
SPECIFICATION Spec
CONSTANTS
    a = a
    b = b
    c = c
    u = u
    f = f
    Patterns <- MCPatterns
    Strings <- MCStrings
    Found <- MCFound
    Full <- MCFull
    Inputs <- MCInputs
    Processors = {0, 1, 2, 3}
    Refused = {u}
    RexFails = {f}
    NoFile = NoFile
INVARIANTS
    TablesTypeOK
    GeneratesForAllReached
    GraphOfTheCorpus
PROPERTY
    EndsIfItCan
