SPECIFICATION Spec
CONSTANTS
    NoValue = NoValue
    Malformed = Malformed
    Companies = {1, 2, 3}
    Worlds <- MCWorlds
    Policies <- MCPolicies
    Replies <- MCReplies
    Minute = 1
    Hour = 2
    Day = 3
    CacheTtl = 3
    MaxEntries = 2
    MaxFaults = 1
    DailyLimit = 2
    RefreshLimit = 1
    DailyUrls = 2
    RefreshUrls = 1
    MinAge = 1
    Purposes <- MCPurposes
    UrlHost <- MCUrlHost
    OnSite <- MCOnSite
    ProfileOf <- MCProfileOf
    UrlLength <- MCUrlLength
    UrlTopics <- MCUrlTopics
    TokensOf <- MCTokensOf
    NeedlesIn <- MCNeedlesIn
    OperatingTitles = {"CTO", "CISO"}
    LinkedInHosts = {"linkedin.com"}
    Personal = {"ann@acme.com"}
    Banned = {}
    MaxPeople = 10
    Formerly = {}
    OnBoard = {}
    AmplifierPoints <- MCAmplifierPoints
    Canonical <- MCCanonical
    ContextTypes = {}
    SignalValue <- MCSignalValue
    WellFormed = {"Ann Lee", "Bo Kim"}
    Executive = {"CTO", "CISO"}
    SearchLabels = {}
    OwnAddresses <- MCOwnAddresses
    Manual <- MCManual
    Verdicts = {"verified"}
    MaxOutside = 1
    Barren <- MCBarren
INVARIANTS
    BudgetRespected
    PacketsAreOwn
PROPERTIES
    VerificationStands
    EveryCompanyEnriched
    RefreshGoesOn
