\* Two handlers, two customers, two versions and three slugs: a customer can be
\* created by two handlers at once, a slug can collide, and one slug is always
\* left over.  No symmetry, which liveness checking does not allow.
SPECIFICATION FairSpec
CONSTANTS
    NoLanguage = NoLanguage
    NoSlug = NoSlug
    NoRow = NoRow
    NoCall = NoCall
    NoAnswer = NoAnswer
    NoWriter = NoWriter
    English = English
    Languages = {English}
    Handlers = {h1, h2}
    Customers = {alice, bob}
    Slugs = {s1, s2, s3}
    Bodies = {v1, v2}
    MaxSlugAttempts = 2
INVARIANTS
    TypeOK
    SnapshotIsolation
    UniqueSlugs
PROPERTIES
    SlugStable
    NoLostUpdate
    CreatedIsTrue
    StoreSpec
    EveryCallReturns
