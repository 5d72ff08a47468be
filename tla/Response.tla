------------------------------ MODULE Response ------------------------------
(***************************************************************************)
(* One response after another, through the router and the middleware of    *)
(* internal/httpapi: request id, then logging, then recovery from panics,  *)
(* then the route and its handler.  A status can be sent once (net/http    *)
(* ignores a second one); the recorder that logging puts around a response *)
(* remembers the last one that was tried.  In dev mode the mux of main may *)
(* have a route of its own, the demo, that none of this is around.         *)
(*                                                                         *)
(* A line of the log has a severity, and is written if the level that the  *)
(* operator has set lets it through; debug lets through what info does.    *)
(* What is sent is what the server has written: that net/http gives a late *)
(* answer up after its WriteTimeout is a client that gave up, in Vitrine.  *)
(***************************************************************************)
EXTENDS Language

CONSTANTS
    NoRequest, NoStatus, NoTag, NoPage,
    Bundles,        \* the translation files of a theme: a set of keys, or Malformed
    Headers,        \* Accept-Language headers
    Tags,           \* language fields of boards
    Keys,           \* the texts a template asks for
    MaxRequests     \* bound: so many requests reach the router

ASSUME MaxRequestsAssumption == MaxRequests \in Nat

VARIABLES
    files,       \* the theme's translation files, by language
    demo,        \* whether main has registered /c/demo
    level,       \* the lowest severity that is logged
    request,     \* the request
    pc,          \* the function that runs
    sent,        \* the status the client gets
    recorded,    \* responseRecorder.status
    body,        \* what the client has of the body
    board,       \* the language field of the board that was found
    page,        \* its language, whether it is a board, the tag asked for, its texts
    panicked,    \* whether the handler has panicked
    reported,    \* whether a line of the log says what went wrong
    received,    \* how many requests reached the router
    log          \* how many were logged, and the status in the last line

setup == <<files, demo, level>>
response == <<sent, recorded, body>>
content == <<board, page>>
logged == <<received, log>>
vars == <<setup, request, pc, response, content, panicked, reported, logged>>

Requests ==
    [route : {"ingest", "static", "healthz", "none", "demo"}, secret : BOOLEAN, header : {<<>>}]
      \cup [route : {"board"}, secret : {FALSE}, header : Headers]

ASSUME AbsenceAssumption == NoRequest \notin Requests /\ NoStatus \notin {200, 400, 401, 404, 413, 500}
ASSUME HeadersAssumption ==
    Headers \subseteq Seq([primary : Seq(STRING), rest : Seq(STRING), padded : BOOLEAN])

\* newLogger: the severities that are written at a level.
Levels == {"info", "warn", "error"}
Shown == [info |-> {"info", "warn", "error"}, warn |-> {"warn", "error"}, error |-> {"error"}]
Writes(severity) == severity \in Shown[level]

\* A theme whose translations do not load is not registered.
Init ==
    /\ files \in {f \in Bundles : Loads(f)}
    /\ demo \in BOOLEAN
    /\ level \in Levels
    /\ request = NoRequest /\ pc = "idle"
    /\ sent = NoStatus /\ recorded = 200 /\ body = "none"
    /\ board = NoTag /\ page = NoPage
    /\ panicked = FALSE /\ reported = FALSE
    /\ received = 0
    /\ log = [lines |-> 0, status |-> NoStatus]
-----------------------------------------------------------------------------
\* MUTANT of WriteHeader: the recorder embeds the response and records nothing.
WriteHeaderUnrecorded(status) ==
    /\ sent' = IF sent = NoStatus THEN status ELSE sent
    /\ UNCHANGED recorded

\* responseRecorder.WriteHeader.
WriteHeader(status) ==
    /\ sent' = IF sent = NoStatus THEN status ELSE sent
    /\ recorded' = status

\* A status, and the body that goes with it; the function that runs next.
Write(status, text, next) ==
    /\ WriteHeader(status)
    /\ body' = IF body = "none" THEN text ELSE body
    /\ pc' = next
    /\ UNCHANGED <<request, content, panicked, logged>>

Answer(status, text) == Write(status, text, "log") /\ UNCHANGED reported
ReportAndAnswer(status, severity) ==
    Write(status, "error", "log") /\ reported' = Writes(severity)
Call(next) == pc' = next /\ UNCHANGED <<request, response, content, panicked, reported>>

\* The mux of main calls the demo or the router, whose withRequestID, withLogging
\* and withRecover call the next handler.
Receive(r) ==
    /\ pc = "idle"
    /\ request' = r
    /\ UNCHANGED <<response, content, panicked, reported, log>>
    /\ \/ r.route = "demo" /\ demo /\ pc' = "demo" /\ UNCHANGED received
       \/ /\ ~ (r.route = "demo" /\ demo)
          /\ received < MaxRequests
          /\ received' = received + 1
          /\ pc' = "route"

\* MUTANT of Route: the handler is registered without withAuth around it.
RouteOpen ==
    /\ pc = "route"
    /\ \/ /\ request.route # "none"
          /\ Call(IF request.route = "demo" THEN "board" ELSE request.route)
          /\ UNCHANGED logged
       \/ request.route = "none" /\ Answer(404, "error")

\* The route of an ingest request is guarded by withAuth; no route is a 404; the
\* demo that main has not registered is a board nobody knows, or knows.
Route ==
    /\ pc = "route"
    /\ \/ /\ request.route # "none"
          /\ Call(CASE request.route = "ingest" -> "auth"
                    [] request.route = "demo" -> "board"
                    [] OTHER -> request.route)
          /\ UNCHANGED logged
       \/ request.route = "none" /\ Answer(404, "error")

\* withAuth.
Authenticate ==
    /\ pc = "auth"
    /\ \/ request.secret /\ Call("ingest") /\ UNCHANGED logged
       \/ ~ request.secret /\ Answer(401, "error")

\* handleWebhook: the result, an error of the transport, an error of Ingest.
Ingest ==
    /\ pc = "ingest"
    /\ \/ Answer(200, "json")
       \/ \E status \in {400, 413} : Answer(status, "error")
       \/ \E status \in {400, 500} : ReportAndAnswer(status, "warn")

\* The file server, and handleHealthz.
ServeOther ==
    \/ pc = "static" /\ (Answer(200, "file") \/ \E s \in {404, 500} : Answer(s, "error"))
    \/ pc = "healthz" /\ Answer(200, "json")

\* handleBoard sends the status of what it has looked up, then renders the page;
\* an error of the store is answered at once.
Lookup ==
    /\ pc = "board"
    /\ \/ /\ \/ board' \in Tags \cup {NoTag} /\ WriteHeader(200)
             \/ UNCHANGED board /\ WriteHeader(404)
          /\ pc' = "render"
          /\ UNCHANGED <<request, body, page, panicked, reported, logged>>
       \/ ReportAndAnswer(500, "error")

\* The page: of a board in its language, English if it has none; not found, in
\* the language of the browser.
Page ==
    LET found == sent # 404
        asked == IF found THEN (IF board = NoTag THEN en ELSE board)
                 ELSE IF request.header = <<>> THEN en ELSE request.header[1].primary
        lang == IF found THEN asked ELSE acceptLanguage(request.header)
    IN  [lang |-> lang, found |-> found, asked |-> asked,
         texts |-> [k \in Keys |-> T(files, lang, k)]]

\* MUTANT of Render: the error of a page that is cut short is not looked at.
RenderUnreported ==
    /\ pc = "render"
    /\ \/ body' = "page" /\ page' = Page
       \/ body' \in {"none", "half a page"} /\ UNCHANGED page
    /\ UNCHANGED reported
    /\ pc' = "log"
    /\ UNCHANGED <<request, sent, recorded, board, panicked, logged>>

\* The page is written as it is rendered; an error on the way leaves a part.
Render ==
    /\ pc = "render"
    /\ \/ body' = "page" /\ page' = Page /\ UNCHANGED reported
       \/ body' \in {"none", "half a page"} /\ reported' = Writes("error") /\ UNCHANGED page
    /\ pc' = "log"
    /\ UNCHANGED <<request, sent, recorded, board, panicked, logged>>

\* A handler, or the template it renders, panics.
Panic ==
    /\ pc \in {"ingest", "board", "render", "static"}
    /\ panicked' = TRUE
    /\ body' \in IF pc = "render" THEN {"none", "half a page"} ELSE {"none"}
    /\ pc' = "recover"
    /\ UNCHANGED <<request, sent, recorded, content, reported, logged>>

\* MUTANT of Recover: recovery is outside of logging, and the panic passes that.
RecoverOutside ==
    /\ pc = "recover"
    /\ Write(500, "error", "return") /\ reported' = TRUE

\* withRecover reports a panic and answers it.
Recover == pc = "recover" /\ ReportAndAnswer(500, "error")

\* withLogging, when the handlers have returned: a line of severity info.
Log ==
    /\ pc = "log"
    /\ log' = IF Writes("info") THEN [lines |-> log.lines + 1, status |-> recorded] ELSE log
    /\ Call("return")
    /\ UNCHANGED received

\* handleDemo refuses a file that it cannot read or parse, or that is no valid
\* board; it renders a valid one.
Demo ==
    /\ pc = "demo"
    /\ \/ \E status \in {400, 500} : Write(status, "error", "return") /\ UNCHANGED board
       \/ board' \in Tags \cup {NoTag} /\ pc' = "render demo" /\ UNCHANGED response
    /\ UNCHANGED <<request, page, panicked, reported, logged>>

\* The first byte of the page sends the status 200; an error after it changes the
\* body only, and a panic ends the connection.
RenderDemo ==
    /\ pc = "render demo"
    /\ \/ sent' = 200 /\ body' = "page" /\ page' = Page /\ UNCHANGED panicked
       \/ sent' = 200 /\ body' = "half a page" /\ panicked' \in BOOLEAN /\ UNCHANGED page
       \/ sent' = 500 /\ body' = "error" /\ UNCHANGED <<page, panicked>>
       \/ sent' = NoStatus /\ body' = "none" /\ panicked' = TRUE /\ UNCHANGED page
    /\ pc' = "return"
    /\ UNCHANGED <<request, recorded, board, reported, logged>>

\* The connection takes its next request.
Return ==
    /\ pc = "return"
    /\ request' = NoRequest /\ pc' = "idle"
    /\ sent' = NoStatus /\ recorded' = 200 /\ body' = "none"
    /\ board' = NoTag /\ page' = NoPage
    /\ panicked' = FALSE /\ reported' = FALSE
    /\ UNCHANGED logged

Next ==
    /\ \/ \E r \in Requests : Receive(r)
       \/ Route \/ Authenticate \/ Ingest \/ ServeOther \/ Lookup \/ Render
       \/ Panic \/ Recover \/ Log \/ Demo \/ RenderDemo \/ Return
    /\ UNCHANGED setup

Spec == Init /\ [][Next]_vars
-----------------------------------------------------------------------------
Routed == request # NoRequest /\ ~ (request.route = "demo" /\ demo)

\* Every request that reaches the router is in the log once it is answered,
\* panics included, unless the operator has asked for warnings or errors only.
EveryRequestIsLogged ==
    pc \in {"idle", "return"} => log.lines = IF Writes("info") THEN received ELSE 0

\* The log tells the status the client got, unless the handler panicked after
\* it had sent one.
LogTellsTheStatus ==
    pc = "return" /\ Routed /\ Writes("info") /\ (panicked => sent = 500) => log.status = sent

\* The status of a page is sent before the page is rendered.  A page that is cut
\* short, under a status that claims it is whole, a failure of the store and a panic
\* have a line in the log that tells the operator (board.go: "render board failed"),
\* at every level; a push that fails has it at every level but error.
FailuresAreReported ==
    pc = "return" /\ Routed /\ request.route \in {"ingest", "board"}
       /\ (sent = 500 \/ body \in {"none", "half a page"})
       => reported \/ (request.route = "ingest" /\ ~panicked /\ level = "error")

\* A push that does not know the secret.
Stranger == request.route = "ingest" /\ ~request.secret

\* Whatever fails or panics, a request that reaches the router gets a status; a push
\* without the secret gets 401 and nothing else, and nobody else gets that: withAuth
\* is around the write routes, and around no other (router.go: NewRouter).
AnswersFit == pc = "return" /\ Routed => sent # NoStatus /\ (sent = 401 <=> Stranger)

\* The language a page should be in: the one of the board, with its region; of a
\* page that was not found, the one of the browser, whatever its case.
Wanted == IF page.found THEN page.asked ELSE ToLower(page.asked)

\* A reader gets each text of a page in the language of the board, or in the first
\* one the browser asks for, whatever the case, region, weight and blanks of the
\* header; a text that this language lacks, in English (docs/theming.md:125).
\* A browser that asks for a tag of another length than two is not understood, as
\* its tag is cut to two letters.
ReaderIsUnderstood ==
    page # NoPage /\ (page.found \/ Len(page.asked) = 2) =>
        \A k \in Keys :
            LET has(lang) == lang \in DOMAIN files /\ k \in files[lang] IN
            /\ has(Wanted) => page.texts[k] = Wanted
            /\ ~has(Wanted) /\ has(en) => page.texts[k] = en
=============================================================================
