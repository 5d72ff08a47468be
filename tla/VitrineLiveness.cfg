\* One push of each workflow, with a kill, a stop and an answer nobody waits for.
SPECIFICATION FairVitrineSpec
CONSTANTS
    NoLanguage = NoLanguage
    NoSlug = NoSlug
    NoRow = NoRow
    NoCall = NoCall
    NoAnswer = NoAnswer
    NoWriter = NoWriter
    NoTicket = NoTicket
    English = English
    Languages = {English}
    Handlers = {h1, h2}
    Customers = {alice, bob}
    Slugs = {s1, s2}
    Bodies = {1}
    LastVersion = 1
    MaxSlugAttempts = 2
    MaxCrashes = 1
    MaxStops = 1
    MaxTimeouts = 0
    MaxGiveUps = 1
    MaxFailures = 0

PROPERTIES
    EveryPushLands
