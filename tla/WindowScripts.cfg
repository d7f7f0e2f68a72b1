\* Three timer slots let a fired goroutine, a re-armed timer and a drain
\* overlap, which takes two SetActive commands.
CONSTANTS
    Pumps = {1, 2, 3}
    MaxFrames = 2
    MaxDocuments = 1
    MaxCommands = 4
    UI = UI
    NoHolder = NoHolder
SPECIFICATION FairSpec
INVARIANTS
    TypeOK
    CallbacksInOrder
    NoStrandedFrame
    DestroyedIsQuiet
PROPERTIES
    RetiredNeverRuns
    FrameIsServed
    DestroyEnds
CHECK_DEADLOCK FALSE
