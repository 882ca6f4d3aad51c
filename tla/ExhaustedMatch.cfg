\* One regex and one example suffice: Match gives up on a negative example.
SPECIFICATION Spec
CONSTANTS
    Examples = {x1, x2}
    MaxSize = 2
    WordBits = 2
INVARIANT AnswersMatchTheQuery
