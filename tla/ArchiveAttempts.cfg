SPECIFICATION FairSpec
CONSTANTS
    video = video
    Entities = {video}
    Schedulers = {s1}
    Workers = {w1, w2}
    None = None
    DispatchLimit = 1
    MaxAttempts = 2
    MaxVersion = 2
    MaxObjects = 2
    ObjectCount <- ShorterReplacement
INVARIANTS
    TypeOK
    WakeupAgrees
    ReadyIsStored
PROPERTIES
    FinishedForGood
    LeaseRespected
    DeletionRespected
    AssetSettles
