\* Every small bundle, header and board; two requests that reach the router, any
\* number of others.  Then nothing more comes.
CHECK_DEADLOCK FALSE
SPECIFICATION Spec
CONSTANTS
    Bundles <- TwoLanguages
    Headers <- OneOrTwo
    Tags <- BoardTags
    Keys = {title, hint}
    Malformed = Malformed
    RawKey = RawKey
    NoTag = NoTag
    NoPage = NoPage
    NoRequest = NoRequest
    NoStatus = NoStatus
    MaxRequests = 2
INVARIANTS
    EveryRequestIsLogged
    LogTellsTheStatus
    FailuresAreReported
    AnswersFit
    ReaderIsUnderstood
