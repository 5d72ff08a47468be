\* Two workflows with two versions each, a visitor, every kind of fault once.
SPECIFICATION VitrineSpec
CONSTANTS
    NoLanguage = NoLanguage
    NoSlug = NoSlug
    NoRow = NoRow
    NoCall = NoCall
    NoAnswer = NoAnswer
    NoWriter = NoWriter
    NoTicket = NoTicket
    English = English
    Languages = {English}
    Handlers = {h1, h2}
    Customers = {alice, bob}
    Slugs = {s1, s2, s3}
    Bodies = {1, 2}
    LastVersion = 2
    MaxSlugAttempts = 2
    MaxCrashes = 1
    MaxStops = 1
    MaxTimeouts = 1
    MaxGiveUps = 1
    MaxFailures = 1
SYMMETRY Interchangeable
INVARIANTS
    ToldUrlServes
    NewsOnce
    LastPushShows
    ClosedStoreIsIdle
PROPERTIES
    ServiceSpec
