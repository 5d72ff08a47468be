\* One stop, one drain that takes too long.
SPECIFICATION VitrineSpec
CONSTANTS
    NoLanguage = NoLanguage
    NoSlug = NoSlug
    NoRow = NoRow
    NoCall = NoCall
    NoAnswer = NoAnswer
    NoWriter = NoWriter
    NoTicket = NoTicket
    English = English
    Languages = {English}
    Handlers = {h1, h2}
    Customers = {alice, bob}
    Slugs = {s1, s2}
    Bodies = {1}
    LastVersion = 1
    MaxSlugAttempts = 2
    MaxCrashes = 0
    MaxStops = 1
    MaxTimeouts = 1
    MaxGiveUps = 0
    MaxFailures = 0

PROPERTIES
    DrainServesOpenRequests
