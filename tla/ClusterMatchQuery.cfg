\* Three examples, each positive, negative, both or neither; clusters of up to
\* three regexes, in words of two bits.
SPECIFICATION Spec
CONSTANTS
    Examples = {x1, x2, x3}
    MaxSize = 3
    WordBits = 2
INVARIANTS
    TypeOK
    AnswersExactly
    ExhaustionIsBounded
    SkippedHasNoMatch
SYMMETRY Symmetric
