SPECIFICATION FairSpec
CONSTANTS
    Entities = {e1}
    Schedulers = {s1}
    Workers = {w1, w2}
    Profiles = {p1}
    None = None
    fixedRange = fixedRange
    latestRange = latestRange
    Ranges = {fixedRange}
    EndMode <- FixedOnly
    Start <- FixedStart
    FixedEnd <- FixedOnlyEnd
    DispatchLimit = 1
    InitialLast = 1
    MaxMessageId = 1
    MaxAttempts = 2
    Reconfigures = FALSE
PROPERTIES
    ExecutionEnds
    WakeupRepaired
