\* Three workers and three tasks, any of which may be enqueued by another, under
\* fair scheduling; no symmetry, for the sake of the liveness properties.
SPECIFICATION FairSpec
CONSTANTS
    Workers = {w1, w2, w3}
    Owner = owner
    Tasks = {t1, t2, t3}
    NoTask = NoTask
    NoThread = NoThread
INVARIANTS
    TypeOK
    TaskPlacement
    DestructorDrains
    StopWakesAll
    WorkConserving
PROPERTIES
    DestructorReturns
    ImplementsTaskPool
