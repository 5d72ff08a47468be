\* Restarts only; nothing is edited.
CHECK_DEADLOCK FALSE
SPECIFICATION Spec
CONSTANTS
    NoTheme = NoTheme
    NotFoundPage = NotFoundPage
    NoDir = NoDir
    Absent = Absent
    Unreadable = Unreadable
    NoResponse = NoResponse
    Unknown = Unknown
    plain = plain
    frost = frost
    slate = slate
    shared = shared
    frostCSS = frostCSS
    slateCSS = slateCSS
    Plain = plain
    Names = {plain, frost, slate}
    Files = {shared, frostCSS, slateCSS}
    Brings <- ThemeFiles
    Blocks <- ThemeBlocks
    MaxEdits = 1
INVARIANTS
    AssetsAreImmutable
