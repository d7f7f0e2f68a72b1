CONSTANTS
    Pumps = {1, 2}
    MaxFrames = 2
    MaxDocuments = 1
    MaxCommands = 2
    UI = UI
    NoHolder = NoHolder
SPECIFICATION Spec
INVARIANT NoStaleCallback
CHECK_DEADLOCK FALSE
