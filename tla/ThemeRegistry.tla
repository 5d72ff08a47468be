---------------------------- MODULE ThemeRegistry ----------------------------
(***************************************************************************)
(* Themes: how the process finds them on disk when it starts, which one a  *)
(* page is rendered with, and which file a /static/ URL serves, while the  *)
(* operator edits the theme directories and restarts the process.          *)
(*                                                                         *)
(* A directory is reduced to whether LoadTheme succeeds on it and to a     *)
(* version; its templates, translations and static files change together.  *)
(* A LoadTheme, which reads all of them, is one step.                      *)
(***************************************************************************)
EXTENDS Naturals, FiniteSets, Functions, FiniteSetsExt

CONSTANTS
    Names,       \* names of theme directories, the embedded theme's among them
    Plain,       \* the embedded theme "plain"
    Unknown,     \* a theme a payload may name that no directory has
    Files,       \* paths below /static/
    Brings,      \* the static files a theme has
    Blocks,      \* paths that cannot be opened in a theme: below a plain file
    NoTheme,     \* an empty theme field
    NotFoundPage,
    NoDir, Absent, Unreadable, NoResponse,
    MaxEdits     \* bound: the operator changes a directory this often

ASSUME ThemeAssumption ==
    /\ Plain \in Names
    /\ Unknown \notin Names /\ NoTheme \notin Names \cup {Unknown}
    /\ NotFoundPage \notin Names \cup {Unknown, NoTheme}
    /\ Brings \in [Names -> SUBSET Files] /\ Blocks \in [Names -> SUBSET Files]
    /\ MaxEdits \in Nat \ {0}

VARIABLES
    env,        \* the environment the process is configured by
    disk,       \* the theme directories
    edits,      \* how often they were changed; the version of the next content
    process,    \* "down", "scanning" the themes directory, or "up"
    left,       \* directories the scan has yet to look at
    validated,  \* the directory ValidateDir has just accepted, if any
    themes,     \* Registry.themes: what was parsed, by name
    merged,     \* the order of MergedFS
    response,   \* the last response since the last edit
    kept        \* an earlier response that an observer kept, if any

boot == <<process, left, validated, themes, merged>>
served == <<response, kept>>
vars == <<env, disk, edits, boot, served>>

\* VITRINE_THEME and VITRINE_DEV.
Default == env.theme
Dev == env.dev

Content == [from : Names, version : 0 .. MaxEdits, parses : BOOLEAN]
Asked == Names \cup {Unknown, NoTheme, NotFoundPage}

ASSUME AskedAssumption == Files \cap Asked = {}
ASSUME AbsentAssumption == Absent \notin Content

Embedded == [from |-> Plain, version |-> 0, parses |-> TRUE]
Exists(n) == disk[n] # NoDir
OnDisk(n) == [from |-> n, version |-> disk[n].version, parses |-> disk[n].parses]

\* LoadTheme: the content of a directory, if its templates and translations parse.
LoadTheme(n) == IF Exists(n) /\ disk[n].parses THEN {OnDisk(n)} ELSE {}

Init ==
    /\ env \in [theme : Names, dev : BOOLEAN]
    /\ disk \in [Names -> {NoDir} \cup [parses : BOOLEAN, version : {1}]]
    /\ edits = 1
    /\ process = "down"
    /\ left = {} /\ validated = {}
    /\ themes = [n \in {} |-> Embedded]
    /\ merged = <<>>
    /\ response = NoResponse /\ kept = NoResponse
-----------------------------------------------------------------------------
\* The operator replaces, breaks or removes a theme directory.
Edit(n) ==
    /\ edits < MaxEdits
    /\ edits' = edits + 1
    /\ \E d \in {NoDir} \cup [parses : BOOLEAN, version : {edits + 1}] :
        disk' = [disk EXCEPT ![n] = d]
    /\ response' = NoResponse
    /\ UNCHANGED <<boot, kept>>

\* Registry.Register.
Register(n, c) == themes' = [x \in DOMAIN themes \cup {n} |-> IF x = n THEN c ELSE themes[x]]

\* NewRouter gets MergedStaticFS, whose order is that of a map iteration.
Listen(names) ==
    /\ process' = "up"
    /\ merged' \in Bijection(1 .. Cardinality(names), names)

\* buildRegistry: "plain" comes from the binary; the directories that exist now
\* will be looked at, none if the themes directory cannot be read.
Start ==
    /\ process = "down" /\ ~ Dev
    /\ process' = "scanning"
    /\ left' \in {{}, {n \in Names : Exists(n)} \ {Plain}}
    /\ themes' = [n \in {Plain} |-> Embedded]
    /\ UNCHANGED <<disk, edits, validated, merged, served>>

\* buildRegistry in dev mode: the configured theme comes from disk; without it
\* main exits.
StartDev ==
    /\ process = "down" /\ Dev
    /\ \E c \in LoadTheme(Default) :
        themes' = [n \in {Plain, Default} |-> IF n = Default THEN c ELSE Embedded]
    /\ Listen({Plain, Default})
    /\ UNCHANGED <<disk, edits, left, validated, served>>

\* ValidateDir: a directory that LoadTheme refuses, or that is gone, is skipped.
\* The entries come in the order of their names; the order makes no difference.
Validate(n) ==
    /\ process = "scanning"
    /\ n \in left /\ validated = {}
    /\ left' = left \ {n}
    /\ validated' = IF LoadTheme(n) # {} THEN {n} ELSE {}
    /\ UNCHANGED <<disk, edits, process, themes, merged, served>>

\* MUTANT of Load: what has been validated is registered.
LoadWhatWasValidated(n) ==
    /\ n \in validated
    /\ validated' = {}
    /\ IF Exists(n) THEN Register(n, OnDisk(n)) ELSE UNCHANGED themes
    /\ UNCHANGED <<disk, edits, process, left, merged, served>>

\* LoadThemeFromDir reads the directory again, and skips it if it fails now.
Load(n) ==
    /\ n \in validated
    /\ validated' = {}
    /\ IF LoadTheme(n) # {}
       THEN \E c \in LoadTheme(n) : Register(n, c)
       ELSE UNCHANGED themes
    /\ UNCHANGED <<disk, edits, process, left, merged, served>>

\* The scan is over, the server listens.
Serve ==
    /\ process = "scanning" /\ left = {} /\ validated = {}
    /\ Listen(DOMAIN themes)
    /\ UNCHANGED <<disk, edits, left, validated, themes, served>>

\* The process ends.
Exit ==
    /\ process # "down"
    /\ process' = "down"
    /\ left' = {} /\ validated' = {}
    /\ themes' = [n \in {} |-> Embedded]
    /\ merged' = <<>>
    /\ response' = NoResponse
    /\ kept' = IF kept # NoResponse /\ kept.asked \in Files THEN kept ELSE NoResponse
    /\ UNCHANGED <<disk, edits>>
-----------------------------------------------------------------------------
\* MUTANT of Get: every theme is read again, in production too.
GetFromDisk(name) ==
    IF name # Plain /\ name \in DOMAIN themes /\ LoadTheme(name) # {} THEN LoadTheme(name)
    ELSE IF name \in DOMAIN themes THEN {themes[name]}
    ELSE IF Default \in DOMAIN themes THEN {themes[Default]}
    ELSE Range(themes)

\* Registry.Get: the themes it may return.  In dev mode the configured theme is
\* read again, and the one in memory stands in when that fails; without the
\* default theme it is any one of the map.
Get(name) ==
    IF Dev /\ name = Default /\ LoadTheme(name) # {} THEN LoadTheme(name)
    ELSE IF name \in DOMAIN themes THEN {themes[name]}
    ELSE IF Default \in DOMAIN themes THEN {themes[Default]}
    ELSE Range(themes)

\* The response to a request for a page, named after a theme, or for a file.  An
\* observer may keep one: a page as long as the process runs, a file for a year.
Respond(asked, name, content) ==
    /\ response' = [asked |-> asked, name |-> name, content |-> content]
    /\ kept' \in {kept} \cup
          (IF kept = NoResponse /\ content \in Content THEN {response'} ELSE {})
    /\ UNCHANGED <<disk, edits, boot>>

\* Service.RenderBoard, for a board whose payload asked for a theme.
RenderBoard(t) ==
    /\ process = "up"
    /\ LET name == IF t \in DOMAIN themes THEN t ELSE Default IN
        \E c \in Get(name) : Respond(t, name, c)

\* Service.RenderNotFound.
RenderNotFound ==
    /\ process = "up"
    /\ \E c \in Get(NoTheme) : Respond(NotFoundPage, Default, c)
-----------------------------------------------------------------------------
\* A theme's static files come from its directory as it is now, those of the
\* embedded theme from the binary.
FromDisk(n) == n # Plain \/ (Dev /\ Default = Plain)

\* What opening a file in one theme's static directory returns.
Opened(n, f) ==
    IF ~ FromDisk(n) THEN (IF f \in Brings[Plain] THEN Embedded ELSE Absent)
    ELSE IF ~ Exists(n) THEN Absent
    ELSE IF f \in Blocks[n] THEN Unreadable
    ELSE IF f \in Brings[n] THEN OnDisk(n) ELSE Absent

\* MUTANT of MergedOpen: only the first file system is tried.
MergedOpenFirst(f) == IF merged = <<>> THEN Absent ELSE Opened(merged[1], f)

\* MergedFS.Open: the first of the file systems that does not say that there is
\* no such file.
MergedOpen(f) ==
    LET answers == {i \in DOMAIN merged : Opened(merged[i], f) # Absent} IN
    IF answers = {} THEN Absent ELSE Opened(merged[Min(answers)], f)

\* GET /static/f.
Fetch(f) ==
    /\ process = "up"
    /\ Respond(f, NoTheme, MergedOpen(f))

Next ==
    /\ \/ \E n \in Names : Edit(n) \/ Validate(n) \/ Load(n)
       \/ Start \/ StartDev \/ Serve \/ Exit
       \/ \E t \in Names \cup {Unknown, NoTheme} : RenderBoard(t)
       \/ RenderNotFound
       \/ \E f \in Files : Fetch(f)
    /\ UNCHANGED env

Spec == Init /\ [][Next]_vars
-----------------------------------------------------------------------------
\* The last response is a page, or a file that was found in a theme.
Page == response # NoResponse /\ response.asked \in Asked
Asset == response # NoResponse /\ response.asked \in Files /\ response.content \in Content

\* A theme that does not parse is never rendered with, although its directory
\* changes between ValidateDir and LoadThemeFromDir, and under a running server.
EveryPageRenders == Page => response.content.parses

\* In production every page of one board is rendered with the same templates and
\* translations, whatever happens to the theme directories (docs/startup.md: themes
\* are loaded once at startup), if its own theme or the default theme was found
\* then; without both, any theme of the map may be next (Registry.Get).  Style
\* sheets and other static files of a theme on disk are read on every request.
TemplatesAreStable ==
    Page /\ kept # NoResponse /\ kept.asked = response.asked
       /\ ~ Dev /\ (response.asked \in DOMAIN themes \/ Default \in DOMAIN themes)
       => response.content = kept.content

\* A file that one theme alone has is served, as it is now, whatever the order
\* of the themes, unless the path is blocked in another theme.
UniqueAssetsServe ==
    response # NoResponse /\ response.asked \in Files =>
        \A n \in DOMAIN themes :
            /\ Opened(n, response.asked) \in Content
            /\ \A m \in DOMAIN themes \ {n} : Opened(m, response.asked) = Absent
            => response.content = Opened(n, response.asked)

\* router.go: a static URL's content never changes without a new binary.
AssetsAreImmutable ==
    Asset /\ kept # NoResponse /\ kept.asked = response.asked =>
        response.content = kept.content
=============================================================================
