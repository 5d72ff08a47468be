----------------------------- MODULE ThemeProofs -----------------------------
(***************************************************************************)
(* Proofs about ThemeRegistry, for any themes, files and edits.  The heart *)
(* of the argument is Settled: while the process is up the registry does   *)
(* not change, and whatever was rendered is still what is in it.           *)
(***************************************************************************)
EXTENDS ThemeRegistry, TLAPS

\* What the registry and the scan are at each stage of the process.
StageOK ==
    /\ env.theme \in Names /\ DOMAIN themes \subseteq Names
    /\ process \in {"down", "scanning", "up"}
    /\ process # "scanning" => validated = {}
    /\ process # "down" => Plain \in DOMAIN themes
    /\ process = "up" =>
          merged \in Bijection(1 .. Cardinality(DOMAIN themes), DOMAIN themes)

\* A theme that was registered has parsed.
ParsedOK == \A n \in DOMAIN themes : themes[n].parses

\* Responses are of the process that is up, except for files that are kept.
ServedOK ==
    process # "up" =>
        response = NoResponse /\ (kept # NoResponse => kept.asked \in Files)

\* A page, asked for in production, is what the registry holds for it, if it holds the
\* theme of the board or the default theme.
Look(a) == IF a \in DOMAIN themes THEN a ELSE Default
Settled(page) ==
    page # NoResponse /\ page.asked \in Asked /\ Look(page.asked) \in DOMAIN themes =>
        page.content = themes[Look(page.asked)]
LooksOK == ~ Dev => Settled(response) /\ Settled(kept)

TInv ==
    /\ StageOK /\ ParsedOK /\ ServedOK /\ LooksOK
    /\ EveryPageRenders /\ UniqueAssetsServe
-----------------------------------------------------------------------------
\* Before the first start.
LEMMA ThemeInit == Init => TInv
  BY DEF Init, TInv, StageOK, ParsedOK, ServedOK, LooksOK, Settled, EveryPageRenders,
         UniqueAssetsServe, Page

\* Steps that answer no request, and change the registry only while there is
\* nothing to compare with.
LEMMA Unanswered ==
    ASSUME TInv, UNCHANGED env, response' = NoResponse, kept' = kept \/ kept' = NoResponse,
           StageOK', ParsedOK', ServedOK',
           UNCHANGED themes \/ process' # "up" \/ process # "up"
    PROVE  TInv'
  <1>1. EveryPageRenders' /\ UniqueAssetsServe'
    BY DEF EveryPageRenders, UniqueAssetsServe, Page
  <1>2. LooksOK'
    <2>1. CASE UNCHANGED themes
      BY <2>1 DEF TInv, LooksOK, Settled, Look, Dev, Default
    <2>2. CASE kept' # NoResponse => kept'.asked \in Files
      BY <2>2, AskedAssumption DEF LooksOK, Settled
    <2> QED
      BY <2>1, <2>2 DEF TInv, ServedOK
  <1> QED
    BY <1>1, <1>2 DEF TInv

\* What LoadTheme returns has parsed.
LEMMA LoadedParses == \A n : \A c \in LoadTheme(n) : c.parses
  BY DEF LoadTheme, OnDisk

\* A directory that is edited reaches no page that was answered before.
LEMMA EditKeeps ==
    ASSUME TInv, UNCHANGED env, NEW n \in Names, Edit(n)
    PROVE  TInv'
  <1>1. StageOK' /\ ParsedOK' /\ ServedOK'
    BY DEF Edit, boot, TInv, StageOK, ParsedOK, ServedOK
  <1> QED
    BY <1>1, Unanswered DEF Edit, boot

\* The two ways to start, the scan, and the end of the process.
LEMMA BootKeeps ==
    ASSUME TInv, UNCHANGED env,
           Start \/ StartDev \/ (\E n \in Names : Validate(n) \/ Load(n)) \/ Serve \/ Exit
    PROVE  TInv'
  <1>1. CASE Start
    <2>1. StageOK' /\ ParsedOK'
      BY <1>1, ThemeAssumption DEF Start, TInv, StageOK, ParsedOK, Embedded
    <2>2. ServedOK'
      BY <1>1 DEF Start, TInv, ServedOK, served
    <2> QED
      BY <1>1, <2>1, <2>2, Unanswered DEF Start, TInv, ServedOK, served
  <1>2. CASE StartDev
    <2>1. PICK c \in LoadTheme(Default) :
            themes' = [n \in {Plain, Default} |-> IF n = Default THEN c ELSE Embedded]
      BY <1>2 DEF StartDev
    <2>2. StageOK'
      BY <1>2, <2>1, ThemeAssumption DEF StartDev, Listen, TInv, StageOK, Default
    <2>3. ParsedOK'
      BY <2>1, LoadedParses DEF ParsedOK, Embedded
    <2>4. process # "up" /\ response' = NoResponse /\ kept' = kept /\ ServedOK'
      BY <1>2 DEF StartDev, Listen, TInv, ServedOK, served
    <2> QED
      BY <2>2, <2>3, <2>4, Unanswered
  <1>3. ASSUME NEW n \in Names, Validate(n) PROVE TInv'
    <2>1. StageOK' /\ ParsedOK' /\ ServedOK'
      BY <1>3 DEF Validate, TInv, StageOK, ParsedOK, ServedOK, served
    <2> QED
      BY <1>3, <2>1, Unanswered DEF Validate, TInv, ServedOK, served
  <1>4. ASSUME NEW n \in Names, Load(n) PROVE TInv'
    <2>1. process = "scanning" /\ UNCHANGED <<process, served>> /\ validated' = {}
      BY <1>4 DEF Load, TInv, StageOK
    <2>2. CASE UNCHANGED themes
      BY <2>1, <2>2, Unanswered DEF TInv, StageOK, ParsedOK, ServedOK, served
    <2>3. ASSUME NEW c \in LoadTheme(n), Register(n, c) PROVE TInv'
      <3>1. StageOK' /\ ParsedOK'
        BY <2>1, <2>3, LoadedParses DEF Register, TInv, StageOK, ParsedOK
      <3>2. ServedOK'
        BY <2>1 DEF TInv, ServedOK, served
      <3> QED
        BY <2>1, <3>1, <3>2, Unanswered DEF TInv, ServedOK, served
    <2> QED
      BY <1>4, <2>2, <2>3 DEF Load
  <1>5. CASE Serve
    <2>1. StageOK' /\ ParsedOK' /\ ServedOK'
      BY <1>5 DEF Serve, Listen, TInv, StageOK, ParsedOK, ServedOK
    <2> QED
      BY <1>5, <2>1, Unanswered DEF Serve, Listen, TInv, ServedOK, served
  <1>6. CASE Exit
    <2>1. StageOK' /\ ParsedOK' /\ ServedOK'
      BY <1>6 DEF Exit, TInv, StageOK, ParsedOK, ServedOK
    <2> QED
      BY <1>6, <2>1, Unanswered DEF Exit
  <1> QED
    BY <1>1, <1>2, <1>3, <1>4, <1>5, <1>6

\* A page of a theme that Get may return.
LEMMA PageKeeps ==
    ASSUME TInv, UNCHANGED env, process = "up", NEW asked \in Asked, NEW name, NEW key,
           NEW c \in Get(key), Respond(asked, name, c),
           key = Look(asked) \/ (key \notin DOMAIN themes /\ Look(asked) = Default)
    PROVE  TInv'
  <1>1. /\ response' # NoResponse => response'.asked = asked /\ response'.content = c
        /\ kept' = kept \/ kept' = response'
        /\ UNCHANGED <<disk, edits, boot>>
    BY DEF Respond
  <1>2. StageOK' /\ ParsedOK' /\ ServedOK'
    BY <1>1 DEF boot, TInv, StageOK, ParsedOK, ServedOK
  <1>3. c.parses
    BY LoadedParses, ThemeAssumption DEF Get, Range, TInv, ParsedOK
  <1>4. EveryPageRenders'
    BY <1>1, <1>3 DEF EveryPageRenders, Page
  <1>5. UniqueAssetsServe'
    BY <1>1, AskedAssumption DEF UniqueAssetsServe
  <1>6. LooksOK'
    <2> SUFFICES ASSUME ~ Dev
                 PROVE  Settled(response)' /\ Settled(kept)'
      BY <1>1 DEF LooksOK, Dev, Default, boot
    <2>1. Look(asked) \in DOMAIN themes => c = themes[Look(asked)]
      BY DEF Get, Look
    <2>2. Settled(response)'
      BY <1>1, <2>1 DEF Settled, Look, Default, boot
    <2>3. Settled(kept)'
      BY <1>1, <2>2 DEF TInv, LooksOK, Settled, Look, Default, boot
    <2> QED
      BY <2>2, <2>3
  <1> QED
    BY <1>2, <1>4, <1>5, <1>6 DEF TInv

\* A file that one theme alone has is found wherever that theme stands.
LEMMA MergedFinds ==
    ASSUME TInv, process = "up", NEW f \in Files, NEW n \in DOMAIN themes,
           Opened(n, f) \in Content,
           \A m \in DOMAIN themes \ {n} : Opened(m, f) = Absent
    PROVE  MergedOpen(f) = Opened(n, f)
  <1> DEFINE answers == {i \in DOMAIN merged : Opened(merged[i], f) # Absent}
  <1>1. merged \in Bijection(1 .. Cardinality(DOMAIN themes), DOMAIN themes)
    BY DEF TInv, StageOK
  <1>2. PICK i \in DOMAIN merged : merged[i] = n
    BY <1>1 DEF Bijection, Surjection
  <1>3. \A j \in DOMAIN merged : merged[j] \in DOMAIN themes /\ (merged[j] = n => j = i)
    BY <1>1, <1>2 DEF Bijection, Injection, IsInjective
  <1>4. answers = {i}
    BY <1>2, <1>3, AbsentAssumption
  <1>5. i \in 1 .. Cardinality(DOMAIN themes)
    BY <1>1, <1>2 DEF Bijection, Injection
  <1>6. Min(answers) = i
    BY <1>4, <1>5 DEF Min
  <1> QED
    BY <1>2, <1>4, <1>6 DEF MergedOpen

\* What a static URL answers is a file that MergedOpen found.
LEMMA FetchKeeps ==
    ASSUME TInv, UNCHANGED env, NEW f \in Files, Fetch(f)
    PROVE  TInv'
  <1>1. /\ process = "up"
        /\ kept' = kept \/ kept' = response'
        /\ response' # NoResponse => response'.asked = f /\ response'.content = MergedOpen(f)
        /\ UNCHANGED <<disk, edits, boot>>
    BY DEF Fetch, Respond
  <1>2. StageOK' /\ ParsedOK' /\ ServedOK'
    <2>1. UNCHANGED <<process, validated, themes, merged>>
      BY <1>1 DEF boot
    <2> QED
      BY <1>1, <2>1 DEF TInv, StageOK, ParsedOK, ServedOK
  <1>3. EveryPageRenders'
    BY <1>1, AskedAssumption DEF EveryPageRenders, Page
  <1>4. LooksOK'
    BY <1>1, AskedAssumption DEF TInv, LooksOK, Settled, Look, Dev, Default, boot
  <1>5. \A n : Opened(n, f)' = Opened(n, f)
    BY <1>1 DEF Opened, FromDisk, Exists, OnDisk, Dev, Default
  <1>6. UniqueAssetsServe'
    <2> SUFFICES ASSUME response' # NoResponse, NEW n \in DOMAIN themes,
                        Opened(n, f) \in Content,
                        \A m \in DOMAIN themes \ {n} : Opened(m, f) = Absent
                 PROVE  response'.content = Opened(n, f)
      BY <1>1, <1>5 DEF UniqueAssetsServe, boot
    <2> QED
      BY <1>1, MergedFinds
  <1> QED
    BY <1>2, <1>3, <1>4, <1>6 DEF TInv

\* TInv is inductive.
LEMMA ThemeNextInv == TInv /\ [Next]_vars => TInv'
  <1> SUFFICES ASSUME TInv, [Next]_vars PROVE TInv'
    OBVIOUS
  <1>1. CASE UNCHANGED vars
    BY <1>1 DEF vars, boot, served, TInv, StageOK, ParsedOK, ServedOK, LooksOK, Settled, Look,
                Dev, Default, EveryPageRenders, UniqueAssetsServe, Page, Opened, FromDisk,
                Exists, OnDisk
  <1>2. ASSUME NEW t \in Names \cup {Unknown, NoTheme}, RenderBoard(t), UNCHANGED env
        PROVE  TInv'
    <2> DEFINE key == IF t \in DOMAIN themes THEN t ELSE Default
    <2>1. PICK c \in Get(key) : process = "up" /\ Respond(t, key, c)
      BY <1>2 DEF RenderBoard
    <2> QED
      BY <1>2, <2>1, PageKeeps DEF Look, Asked
  <1>3. ASSUME RenderNotFound, UNCHANGED env PROVE TInv'
    <2>1. PICK c \in Get(NoTheme) : process = "up" /\ Respond(NotFoundPage, Default, c)
      BY <1>3 DEF RenderNotFound
    <2>2. NoTheme \notin DOMAIN themes /\ NotFoundPage \notin DOMAIN themes
      BY ThemeAssumption DEF TInv, StageOK
    <2> QED
      BY <1>3, <2>1, <2>2, PageKeeps DEF Look, Asked
  <1> QED
    BY <1>1, <1>2, <1>3, EditKeeps, BootKeeps, FetchKeeps DEF Next

\* TInv holds in every reachable state, whatever the operator does to the themes.
THEOREM ThemeInvariance == Spec => []TInv
  <1> QED
    BY ThemeInit, ThemeNextInv, PTL DEF Spec

\* No page is rendered with a theme that does not parse.
THEOREM EveryPageRendersAlways == Spec => []EveryPageRenders
  <1>1. TInv => EveryPageRenders
    BY DEF TInv
  <1> QED
    BY <1>1, ThemeInvariance, PTL

\* In production a board is rendered with the same templates and translations as
\* long as the process runs, for any number of themes and any edits of their
\* directories, if the process has found the board's theme or its default theme.
THEOREM TemplatesAreStableAlways == Spec => []TemplatesAreStable
  <1>1. TInv => TemplatesAreStable
    BY DEF TInv, LooksOK, Settled, Look, TemplatesAreStable, Page
  <1> QED
    BY <1>1, ThemeInvariance, PTL

\* A file that only one theme has is served, in whatever order the map of the
\* themes was iterated.
THEOREM UniqueAssetsServeAlways == Spec => []UniqueAssetsServe
  <1>1. TInv => UniqueAssetsServe
    BY DEF TInv
  <1> QED
    BY <1>1, ThemeInvariance, PTL

\* Every page has a theme to be rendered with, whatever its payload asked for, and
\* whether or not the configured theme was found: Get never answers nil.
THEOREM EveryPageHasATheme == Spec => [](process = "up" => \A name : Get(name) # {})
  <1>1. TInv => (process = "up" => \A name : Get(name) # {})
    <2> SUFFICES ASSUME TInv, process = "up", NEW name PROVE Get(name) # {}
      OBVIOUS
    <2>1. themes[Plain] \in Range(themes)
      BY DEF TInv, StageOK, Range
    <2> QED
      BY <2>1 DEF Get
  <1> QED
    BY <1>1, ThemeInvariance, PTL
=============================================================================
