SPECIFICATION Spec
CONSTANTS
    Missing = Missing
    Ingesters = {i1, i2}
    Files <- MCFiles
    Observed <- MCObserved
    NormalOf <- MCNormalOf
    RawDomains = {"https://acme.com/", "acme.com"}
    GoodDomains = {"acme.com"}
    GoodCountries = {"US"}
    MaxStarts = 2
    Executors = {e1, e2}
    RequestKeys = {"k"}
    Limit = 2
    SearchBudget = 2
    FetchBudget = 2
    CandidateBudget = 2
    SearchAnswers <- MCSearchAnswers
    PageAnswers <- MCPageAnswers
    Answers <- MCAnswers
    MaxBegins = 2
    RepairSets <- Repairs
    WordsOf <- MCWordsOf
    CompanyWords = {"inc"}
    PartsOf <- MCPartsOf
    TwoLevel = {}
    AlikeTokens = {}
    HostOf <- MCHostOf
    MentionsIn <- MCMentionsIn
SYMMETRY Symmetry
INVARIANTS
    NothingIsLost
    CountersMatch
    CompletedIsComplete
    MatchesAreGrounded
    DecisionsAreAccepted
CHECK_DEADLOCK FALSE
