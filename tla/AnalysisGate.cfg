SPECIFICATION Spec
CONSTANTS
    text = text
    image = image
    tested = tested
    formal = formal
    test = test
    message = message
    key = key
    asset = asset
    other = other
    ad = ad
    ugc = ugc
    NoTarget = NoTarget
    Targets = {asset, other}
    LabelKeys = {ad, ugc}
    NegativeLabels = {ad}
    MaxScore = 2
    Threshold <- OneHalf
    TargetOf <- SameTarget
    TemplateOf <- SparseBatch
    Responses <- BatchResponses
    None = None
    DispatchLimit = 2
    Schedulers = {s1}
    Messages = {message}
    MessageOf <- SameMessage
    Entities = {text, image}
    Workers = {w1, w2}
    Runs = {formal}
    TestRuns = {}
    RunOf <- OneRun
    CacheKey <- Cached
    MaxAttempts <- NoRetry
    DiesAt <- TaskPoints
SYMMETRY Symmetry
INVARIANTS
    RunTellsStages
    GateStopsRun
    ResultIsTraceable
PROPERTIES
    OverIsOver
