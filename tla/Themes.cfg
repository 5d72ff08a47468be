\* Any configured theme, production or dev mode; the operator edits twice.  In
\* dev mode the process may stay down: main exits when the theme is missing.
CHECK_DEADLOCK FALSE
SPECIFICATION Spec
CONSTANTS
    NoTheme = NoTheme
    NotFoundPage = NotFoundPage
    NoDir = NoDir
    Absent = Absent
    Unreadable = Unreadable
    NoResponse = NoResponse
    Unknown = Unknown
    plain = plain
    frost = frost
    slate = slate
    shared = shared
    frostCSS = frostCSS
    slateCSS = slateCSS
    Plain = plain
    Names = {plain, frost, slate}
    Files = {shared, frostCSS, slateCSS}
    Brings <- ThemeFiles
    Blocks <- ThemeBlocks
    MaxEdits = 3
INVARIANTS
    EveryPageRenders
    TemplatesAreStable
    UniqueAssetsServe
