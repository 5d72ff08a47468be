\* Three processes open a file of any release; two of them are killed.  No
\* symmetry, which liveness checking does not allow.
SPECIFICATION FairSpec
CONSTANTS
    Nobody = Nobody
    Processes = {p1, p2, p3}
    SchemaVersion = 3
    MaxCrashes = 2
INVARIANTS
    StaleVersionIsHarmless
    VersionIsTruthful
    OpenSeesAllColumns
PROPERTIES
    OpenIsAtomic
    EveryProcessOpens
