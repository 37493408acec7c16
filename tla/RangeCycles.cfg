SPECIFICATION Spec
CONSTANTS
    Entities = {e1, e2}
    Schedulers = {s1, s2}
    Workers = {w1}
    Profiles = {p1}
    None = None
    fixedRange = fixedRange
    latestRange = latestRange
    Ranges = {latestRange}
    EndMode <- LatestOnly
    Start <- LatestStart
    FixedEnd <- LatestEnd
    DispatchLimit = 1
    InitialLast = 1
    MaxMessageId = 2
    MaxAttempts = 1
    Reconfigures = TRUE
SYMMETRY Symmetry
INVARIANTS
    TypeOK
    ActiveWindow
    FreezeNeverConflicts
    WakeupAgrees
PROPERTIES
    FrozenFromCurrentRow
