SPECIFICATION Spec
CONSTANTS
    None = None
    NoEdit = NoEdit
    p1 = p1
    p2 = p2
    g1 = g1
    g2 = g2
    v1 = v1
    t1 = t1
    message = message
    photo = photo
    news = news
    alerts = alerts
    bot = bot
    Versions = {p1, p2, g1, g2, v1, t1}
    OwnerOf <- Owners
    KeyOf <- Keys
    InitialVersions <- Before
    Policies = {p1, p2}
    RuleSets <- CuratedRules
    InitialRules <- TwoPolicies
    Editors = {e1}
    MessageTarget = message
    Assets = {photo}
    LabelVersions = {g1, g2, v1}
    MediaLabels = {v1}
    Enabled = {g1, g2, v1}
    LabelValues <- Values
    ModelResults <- Results
    InitialLabels <- OldLabel
    ReviewStatuses = {"unreviewed", "reviewed"}
    MaxEvents = 2
    Namespaces = {"model", "manual", "effective"}
    MaxDepth = 2
    Inside = {}
    Begins = {}
    Callers = {c1, c2}
    Requests = {q1}
    Fingerprints <- Duplicates
    Destinations = {news, alerts}
    Identities = {bot}
    DefaultIdentity <- BotPublishes
    MaxChanges = 3
INVARIANTS
    TypeOK
    EventsChain
    OneEvaluationPerRequest
    AnswersAgree
PROPERTIES
    DecisionFollowsRules
    UnknownNeverMatches
    NewestEventDecides
SYMMETRY CallersAlike
