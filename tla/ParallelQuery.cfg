\* Two workers for three clusters, so that tasks wait for a worker.
SPECIFICATION QueryFairSpec
CONSTANTS
    Workers = {w1, w2}
    Owner = owner
    Tasks = {1, 2, 3}
    NoTask = NoTask
    NoThread = NoThread
    NumClusters = 3
    Entities = {"a1", "a2", "c1"}
    Answer <- MCAnswer
    Test <- MCTest
INVARIANTS
    QueryTypeOK
    NoTaskOutlivesQuery
    NoFailureHidden
PROPERTY
    ImplementsSerialQuery
