CONSTANTS
    Exts = {e1, e2}
    Versions = {1, 2}
    MaxEdits = 2
    MaxStarts = 2
    Calls = {c1, c2, c3}
    NoCall = NoCall
    MaxReplies = 3
    Own = own
    Boxes = {box}
    Areas <- MCAreas
    Keys = {k}
    MaxClosures = 2
    MaxOld = 1
    AlarmNames = {a1, a2}
    MaxTimers = 3
    Authors = {"a", "b"}
    Views = {1}
    Addresses = {"u", "v"}
    Sheets = {"s"}
    MaxSheets = 1
    Manifest <- MCManifest
SPECIFICATION Spec
INVARIANTS
    TypeOK
    EngineIsWhole
    RecordsAgree
    CallsGetTheirAnswer
    StorageIsOnDisk
    AlarmsCanBeCleared
    ScriptsRunOnce
SYMMETRY ExtSymmetry
CHECK_DEADLOCK FALSE
