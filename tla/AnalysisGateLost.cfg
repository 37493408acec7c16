SPECIFICATION FairSpec
CONSTANTS
    text = text
    image = image
    tested = tested
    formal = formal
    test = test
    message = message
    key = key
    asset = asset
    other = other
    ad = ad
    ugc = ugc
    NoTarget = NoTarget
    Targets = {asset, other}
    LabelKeys = {ad, ugc}
    NegativeLabels = {ad}
    MaxScore = 2
    Threshold <- OneHalf
    TargetOf <- SameTarget
    TemplateOf <- DenseSingle
    Responses <- SingleResponses
    None = None
    DispatchLimit = 1
    Schedulers = {s1}
    Messages = {message}
    MessageOf <- SameMessage
    Entities = {text}
    Workers = {w1}
    Runs = {formal}
    TestRuns = {}
    RunOf <- OneRun
    CacheKey <- Uncached
    MaxAttempts <- NoRetry
    DiesAt <- TaskPoints
PROPERTIES
    NegativeLabelBlocks
