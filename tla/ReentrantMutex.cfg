\* Four goroutines that nest up to three acquisitions: one holds the
\* mutex, one is woken, one parks again and one still runs, the smallest
\* case with a contended wakeup and a barging locker.
CONSTANTS
    Goroutines = {g1, g2, g3, g4}
    Free = Free
    MaxDepth = 3
SPECIFICATION FairSpec
INVARIANTS
    TypeOK
    ExclusiveRuntime
    DepthMatchesCallers
    NoLostWakeup
PROPERTIES
    FreeMutexIsTaken
    ImplementsOwnerLock
