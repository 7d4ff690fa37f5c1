CONSTANTS
    Operators = {"o1", "o2"}
    None = None
    Tuples = {"a", "b", "p"}
    Typed = {"a", "p"}
    Reserved = {"p"}
    InModel = {"a", "b"}
    Seed <- MCSeed
    Hidden = 1
    PageSize = 1
    MaxBatch = 2
    MaxRelClicks = 5
    RestartFrom = 3
    Providers = {"on", "off"}
    Issuers = {"good", "bad"}
    Routable = {"good"}
    SeedIdps <- MCIdps
    MaxIdpClicks <- MCClicks
    MaxCalls = 2
    Addresses = {"Ann", "ann", "mira"}
    lower <- MCLower
    Members = {"mira"}
    SeedRoles = {"admin", "audit", "old"}
    Bound = {"admin"}
    StagedRoles = {"audit"}
    MaxMemberClicks = 4
    MaxHandled = 2
    Texts <- MCTexts
    lines <- MCLines
    TypedBy <- MCTypedBy
    SeedModels <- MCSeedModels
    MaxModelClicks = 4
    MaxAsked = 2
    Subjects = {"raj", "f1", "f2", "f3", "doc"}
    typeOf <- MCTypeOf
    AuthModels <- MCAuthModels
    TupleSets <- MCTupleSets
    Checks <- MCChecks
    MaxQuestions = 3
    Docs <- MCDocs
    SavedDocs <- MCSavedDocs
    Links <- MCLinks
    Blank = ""
    yamlKey <- MCKey
    MAX_CELLS = 9
    MaxCompareClicks = 3
SPECIFICATION Spec
INVARIANTS TuplesCounted RetryAloneIsNoOp IssuerToneTrue InvitedOnce OneDraft ExplainAgrees CompareFaithful
CHECK_DEADLOCK FALSE
