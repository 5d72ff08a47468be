---------------------------- MODULE ResponseProofs ----------------------------
(***************************************************************************)
(* Proofs about Response, for any number of requests, any theme, headers   *)
(* and languages.  RInv follows one request through the middleware: what   *)
(* has been sent, what the recorder and the log know of it and what was    *)
(* reported, by the function that runs.                                    *)
(***************************************************************************)
EXTENDS Response, TLAPS

Handling == {"auth", "ingest", "static", "healthz", "board"}

\* The types of the variables that the argument needs.
RType ==
    /\ request \in Requests \cup {NoRequest}
    /\ pc \in Handling \cup {"idle", "route", "render", "recover", "log", "demo",
                             "render demo", "return"}
    /\ board \in Tags \cup {NoTag}
    /\ received \in Nat /\ log.lines \in Nat
    /\ panicked \in BOOLEAN
    /\ level \in Levels

\* The failure that no line tells of: a push fails, and only errors are logged.
Unheard == request.route = "ingest" /\ ~panicked /\ level = "error"

\* Which request a function runs for.
PlaceOK ==
    /\ pc # "idle" => request \in Requests
    /\ pc \in {"demo", "render demo"} => ~Routed
    /\ pc \in Handling \cup {"route", "render", "recover", "log"} => Routed
    /\ pc \in {"auth", "ingest"} => request.route = "ingest"
    /\ pc = "static" => request.route = "static"

\* What has been sent while it runs.
StatusOK ==
    /\ pc \in Handling \cup {"idle", "route"} =>
          sent = NoStatus /\ body = "none" /\ panicked = FALSE
    /\ pc = "render" =>
          sent = recorded /\ sent \in {200, 404} /\ body = "none" /\ panicked = FALSE
    /\ pc = "recover" => panicked = TRUE /\ sent \in {NoStatus, 200, 404}

\* What is known of a response that is complete.
KnownOK ==
    pc = "log" \/ (pc = "return" /\ Routed) =>
        /\ panicked => recorded = 500
        /\ panicked = FALSE => recorded = sent
        /\ pc = "return" /\ level = "info" => log.status = recorded
        /\ request.route \in {"ingest", "board"} /\ (sent = 500 \/ body \in {"none", "half a page"})
             => reported \/ Unheard

\* A request is counted when it reaches the router, and again when it is logged.
Pending(n) ==
    /\ level = "info" => received = log.lines + n
    /\ level # "info" => log.lines = 0

CountOK ==
    /\ pc \in {"idle", "return", "demo", "render demo"} => Pending(0)
    /\ pc \notin {"idle", "return", "demo", "render demo"} => Pending(1)

RInv == RType /\ PlaceOK /\ StatusOK /\ KnownOK /\ CountOK
-----------------------------------------------------------------------------
\* What is written at which level.
LEMMA Severities ==
    ASSUME level \in Levels
    PROVE  /\ Writes("error")
           /\ Writes("info") <=> level = "info"
           /\ Writes("warn") <=> level # "error"
  BY DEF Writes, Shown, Levels

\* Before the first request.
LEMMA ResponseInit == Init => RInv
  <1> SUFFICES ASSUME Init PROVE RInv
    OBVIOUS
  <1>1. RType
    BY DEF Init, RType, setup
  <1>2. PlaceOK /\ KnownOK
    BY AbsenceAssumption DEF Init, PlaceOK, KnownOK, Handling, Routed, Unheard, setup
  <1>3. StatusOK
    BY DEF Init, StatusOK, Handling
  <1>4. CountOK
    BY DEF Init, CountOK, Pending, setup
  <1> QED
    BY <1>1, <1>2, <1>3, <1>4 DEF RInv

\* The steps that send nothing: a request comes in, and is passed on.
LEMMA PassInv ==
    ASSUME RInv, UNCHANGED setup, NEW r \in Requests, Receive(r)
    PROVE  RInv'
  <1>1. /\ pc = "idle" /\ request' = r /\ UNCHANGED <<board, panicked, log, sent, body>>
        /\ \/ pc' = "demo" /\ received' = received
           \/ pc' = "route" /\ received' = received + 1
    BY DEF Receive, response, content
  <1>2. RType'
    <2>1. received' \in Nat
      BY <1>1 DEF RInv, RType, setup
    <2> QED
      BY <1>1, <2>1 DEF RInv, RType, setup
  <1>3. PlaceOK'
    BY AbsenceAssumption DEF RInv, PlaceOK, Receive, Handling, Routed, setup
  <1>4. StatusOK' /\ KnownOK'
    BY <1>1 DEF RInv, StatusOK, KnownOK, Handling, Unheard, setup
  <1>5. CountOK'
    <2>1. Pending(0) /\ received \in Nat /\ log.lines \in Nat /\ level' = level
      BY <1>1 DEF RInv, RType, CountOK, setup
    <2>2. pc' = "demo" => Pending(0)'
      BY <1>1, <2>1 DEF Pending
    <2>3. pc' = "route" => Pending(1)'
      BY <1>1, <2>1 DEF Pending
    <2> QED
      BY <1>1, <2>2, <2>3 DEF CountOK
  <1> QED
    BY <1>2, <1>3, <1>4, <1>5 DEF RInv

\* A handler answers: an answer that needs a report has one.
LEMMA AnswerInv ==
    ASSUME RInv, UNCHANGED setup, pc \in Handling \cup {"route"},
           NEW status \in Nat, NEW text \in {"json", "file", "error"}, Write(status, text, "log"),
           request.route \in {"ingest", "board"} /\ status = 500 => reported' \/ Unheard'
    PROVE  RInv'
  <1>1. /\ sent = NoStatus /\ body = "none" /\ panicked = FALSE
        /\ Pending(1) /\ Routed
    BY DEF RInv, StatusOK, PlaceOK, CountOK, Handling, Pending, setup
  <1>2. /\ pc' = "log" /\ sent' = status /\ recorded' = status /\ body' = text
        /\ UNCHANGED <<request, board, panicked, received, log>>
    BY <1>1 DEF Write, WriteHeader, content, logged
  <1>3. RType'
    BY <1>2 DEF RInv, RType, setup
  <1>4. PlaceOK'
    BY <1>1, <1>2 DEF RInv, PlaceOK, Routed, setup, Handling
  <1>5. StatusOK'
    BY <1>2 DEF StatusOK, Handling
  <1>6. KnownOK'
    BY <1>1, <1>2 DEF KnownOK, Unheard, setup
  <1>7. CountOK'
    BY <1>1, <1>2 DEF CountOK, Pending, setup
  <1> QED
    BY <1>3, <1>4, <1>5, <1>6, <1>7 DEF RInv

\* The request is passed on to a handler of its route.
LEMMA CallInv ==
    ASSUME RInv, UNCHANGED <<setup, logged>>, pc \in {"route", "auth"}, NEW next \in Handling,
           Call(next), next \in {"auth", "ingest"} => request.route = "ingest",
           next = "static" => request.route = "static"
    PROVE  RInv'
  <1>1. /\ sent = NoStatus /\ body = "none" /\ panicked = FALSE
        /\ Pending(1) /\ Routed
    BY DEF RInv, StatusOK, PlaceOK, CountOK, Handling, Pending, setup
  <1>2. /\ pc' = next /\ pc' \in Handling
        /\ UNCHANGED <<request, sent, body, board, panicked, received, log>>
    BY DEF Call, response, content, logged
  <1>3. RType'
    BY <1>2 DEF RInv, RType, setup
  <1>4. PlaceOK'
    BY <1>1, <1>2 DEF RInv, PlaceOK, Routed, setup, Handling
  <1>5. StatusOK' /\ KnownOK' /\ CountOK'
    BY <1>1, <1>2 DEF StatusOK, KnownOK, CountOK, Handling, Pending, Unheard, setup
  <1> QED
    BY <1>3, <1>4, <1>5 DEF RInv

\* The handlers of the routes, up to an answer or the status of a page.
LEMMA HandlerInv ==
    ASSUME RInv, UNCHANGED setup, Route \/ Authenticate \/ Ingest \/ ServeOther \/ Lookup
    PROVE  RInv'
  <1>1. CASE Route
    <2>1. CASE request.route # "none"
      <3> DEFINE next == CASE request.route = "ingest" -> "auth"
                           [] request.route = "demo" -> "board"
                           [] OTHER -> request.route
      <3>1. Call(next) /\ UNCHANGED logged /\ pc = "route" /\ request \in Requests
        BY <1>1, <2>1 DEF Route, RInv, PlaceOK
      <3>2. request.route \in {"ingest", "static", "healthz", "none", "demo", "board"}
        BY <3>1 DEF Requests
      <3>3. next \in Handling /\ next \in {"auth", "ingest"} => request.route = "ingest"
        BY <2>1, <3>2 DEF Handling
      <3>4. next = "static" => request.route = "static"
        BY <2>1, <3>2
      <3>5. next \in Handling
        BY <2>1, <3>2 DEF Handling
      <3> HIDE DEF next
      <3> QED
        BY <3>1, <3>3, <3>4, <3>5, CallInv
    <2>2. CASE request.route = "none" /\ Answer(404, "error") /\ pc = "route"
      BY <2>2, AnswerInv DEF Answer, Handling
    <2> QED
      BY <1>1, <2>1, <2>2 DEF Route
  <1>2. CASE Authenticate
    <2>1. pc = "auth" /\ request.route = "ingest"
      BY <1>2 DEF Authenticate, RInv, PlaceOK
    <2>2. CASE Call("ingest") /\ UNCHANGED logged
      BY <2>1, <2>2, CallInv DEF Handling
    <2>3. CASE Answer(401, "error")
      BY <2>1, <2>3, AnswerInv DEF Answer, Handling
    <2> QED
      BY <1>2, <2>2, <2>3 DEF Authenticate
  <1>3. CASE Ingest
    <2>1. CASE Answer(200, "json")
      BY <1>3, <2>1, AnswerInv DEF Answer, Handling, Ingest
    <2>2. ASSUME NEW status \in {400, 413}, Answer(status, "error") PROVE RInv'
      BY <1>3, <2>2, AnswerInv DEF Answer, Handling, Ingest
    <2>3. ASSUME NEW status \in {400, 500}, ReportAndAnswer(status, "warn") PROVE RInv'
      <3>1. Writes("warn") <=> level # "error"
        BY Severities DEF RInv, RType
      <3>2. /\ pc = "ingest" /\ request.route = "ingest" /\ panicked = FALSE
            /\ Write(status, "error", "log") /\ reported' = Writes("warn")
        BY <1>3, <2>3 DEF ReportAndAnswer, Ingest, RInv, PlaceOK, StatusOK, Handling
      <3>3. UNCHANGED <<request, panicked, level>>
        BY <3>2 DEF Write, setup
      <3>4. reported' \/ Unheard'
        BY <3>1, <3>2, <3>3 DEF Unheard, RInv, RType, Levels
      <3> QED
        BY <3>2, <3>4, AnswerInv DEF Handling
    <2> QED
      BY <1>3, <2>1, <2>2, <2>3 DEF Ingest
  <1>4. CASE ServeOther
    <2>1. CASE pc = "healthz" /\ Answer(200, "json")
      BY <2>1, AnswerInv DEF Answer, Handling
    <2>2. CASE pc = "static"
      <3>1. request.route = "static"
        BY <2>2 DEF RInv, PlaceOK
      <3>2. CASE Answer(200, "file")
        BY <2>2, <3>2, AnswerInv DEF Answer, Handling
      <3>3. ASSUME NEW s \in {404, 500}, Answer(s, "error") PROVE RInv'
        BY <2>2, <3>1, <3>3, AnswerInv DEF Answer, Handling
      <3> QED
        BY <1>4, <2>2, <3>2, <3>3 DEF ServeOther
    <2> QED
      BY <1>4, <2>1, <2>2 DEF ServeOther
  <1>5. CASE Lookup
    <2>1. CASE ReportAndAnswer(500, "error")
      <3>1. Writes("error")
        BY Severities DEF RInv, RType
      <3>2. pc = "board" /\ Write(500, "error", "log") /\ reported'
        BY <1>5, <2>1, <3>1 DEF ReportAndAnswer, Lookup
      <3> QED
        BY <3>2, AnswerInv DEF Handling
    <2>2. CASE ~ReportAndAnswer(500, "error")
      <3>1. /\ pc = "board" /\ sent = NoStatus /\ body = "none" /\ panicked = FALSE
            /\ Pending(1) /\ Routed
        BY <1>5 DEF Lookup, RInv, StatusOK, PlaceOK, CountOK, Handling, Pending, setup
      <3>2. /\ pc' = "render" /\ sent' \in {200, 404} /\ recorded' = sent'
            /\ board' \in Tags \cup {NoTag}
            /\ UNCHANGED <<request, body, panicked, received, log>>
        BY <1>5, <2>2, <3>1 DEF Lookup, WriteHeader, logged, RInv, RType, setup
      <3>3. RType'
        BY <3>2 DEF RInv, RType, setup
      <3>4. PlaceOK'
        BY <3>1, <3>2 DEF RInv, PlaceOK, Routed, setup, Handling
      <3>5. StatusOK' /\ KnownOK' /\ CountOK'
        BY <3>1, <3>2 DEF StatusOK, KnownOK, CountOK, Handling, Pending, Unheard, setup
      <3> QED
        BY <3>3, <3>4, <3>5 DEF RInv
    <2> QED
      BY <2>1, <2>2
  <1> QED
    BY <1>1, <1>2, <1>3, <1>4, <1>5

\* A page that is whole, or is reported.
LEMMA RenderInv ==
    ASSUME RInv, UNCHANGED setup, Render
    PROVE  RInv'
  <1>1. /\ pc = "render" /\ request \in Requests /\ sent = recorded /\ panicked = FALSE /\ Pending(1) /\ Routed
        /\ sent \in {200, 404}
    BY DEF Render, RInv, StatusOK, PlaceOK, CountOK, Pending, setup
  <1>0. Writes("error")
    BY Severities DEF RInv, RType
  <1>2. /\ pc' = "log" /\ UNCHANGED <<request, sent, recorded, board, panicked, received, log>>
        /\ body' = "page" \/ reported' = TRUE
    BY <1>0 DEF Render, logged
  <1>3. RType'
    BY <1>2 DEF RInv, RType, setup
  <1>4. PlaceOK'
    BY <1>1, <1>2 DEF PlaceOK, Routed, setup, Handling
  <1>5. StatusOK'
    BY <1>2 DEF StatusOK, Handling
  <1>6. KnownOK'
    <2>1. sent' # 500
      BY <1>1, <1>2
    <2>2. body' \in {"none", "half a page"} => reported'
      BY <1>2
    <2> QED
      BY <1>1, <1>2, <2>1, <2>2 DEF KnownOK, Unheard, setup
  <1>7. CountOK'
    BY <1>1, <1>2 DEF CountOK, Pending, setup
  <1> QED
    BY <1>3, <1>4, <1>5, <1>6, <1>7 DEF RInv

\* A panic, and what withRecover makes of it.
LEMMA PanicInv ==
    ASSUME RInv, UNCHANGED setup, Panic \/ Recover
    PROVE  RInv'
  <1>1. CASE Panic
    <2>1. /\ request \in Requests
          /\ Pending(1) /\ Routed /\ sent \in {NoStatus, 200, 404}
      BY <1>1 DEF Panic, RInv, StatusOK, PlaceOK, CountOK, Handling, Pending, setup
    <2>2. /\ pc' = "recover" /\ panicked' = TRUE
          /\ UNCHANGED <<request, sent, board, received, log>>
      BY <1>1 DEF Panic, content, logged
    <2>3. RType'
      BY <2>2 DEF RInv, RType, setup
    <2>4. PlaceOK'
      BY <2>1, <2>2 DEF PlaceOK, Routed, setup, Handling
    <2>5. StatusOK' /\ KnownOK' /\ CountOK'
      BY <2>1, <2>2 DEF StatusOK, KnownOK, CountOK, Handling, Pending, Unheard, setup
    <2> QED
      BY <2>3, <2>4, <2>5 DEF RInv
  <1>2. CASE Recover
    <2>1. /\ request \in Requests
          /\ Pending(1) /\ Routed /\ panicked = TRUE
      BY <1>2 DEF Recover, RInv, StatusOK, PlaceOK, CountOK, Pending, setup
    <2>0. Writes("error")
      BY Severities DEF RInv, RType
    <2>2. /\ pc' = "log" /\ recorded' = 500 /\ reported' = TRUE
          /\ UNCHANGED <<request, board, panicked, received, log>>
      BY <1>2, <2>0 DEF Recover, ReportAndAnswer, Write, WriteHeader, content, logged
    <2>3. RType'
      BY <2>2 DEF RInv, RType, setup
    <2>4. PlaceOK'
      BY <2>1, <2>2 DEF PlaceOK, Routed, setup, Handling
    <2>5. StatusOK' /\ KnownOK' /\ CountOK'
      BY <2>1, <2>2 DEF StatusOK, KnownOK, CountOK, Handling, Pending, Unheard, setup
    <2> QED
      BY <2>3, <2>4, <2>5 DEF RInv
  <1> QED
    BY <1>1, <1>2

\* The line of the log, with what the recorder remembers.
LEMMA LogInv ==
    ASSUME RInv, UNCHANGED setup, Log
    PROVE  RInv'
  <1>1. /\ Pending(1) /\ Routed /\ received \in Nat /\ log.lines \in Nat /\ level \in Levels
        /\ Writes("info") <=> level = "info"
    BY Severities DEF Log, RInv, RType, PlaceOK, CountOK
  <1>2. /\ pc = "log" /\ pc' = "return"
        /\ UNCHANGED <<request, sent, recorded, body, board, panicked, reported, received, level>>
        /\ log' = IF Writes("info") THEN [lines |-> log.lines + 1, status |-> recorded] ELSE log
    BY DEF Log, Call, content, response, setup
  <1>3. /\ level = "info" => log'.lines = log.lines + 1 /\ log'.status = recorded
        /\ level # "info" => log' = log
    BY <1>1, <1>2
  <1>4. RType'
    BY <1>1, <1>2, <1>3 DEF RInv, RType
  <1>5. PlaceOK'
    BY <1>1, <1>2 DEF RInv, PlaceOK, Routed, setup, Handling
  <1>6. Pending(0)'
    BY <1>1, <1>2, <1>3 DEF Pending
  <1>7. StatusOK' /\ CountOK'
    BY <1>2, <1>6 DEF StatusOK, CountOK, Handling
  <1>8. KnownOK'
    <2>1. Unheard' <=> Unheard
      BY <1>2, Zenon DEF Unheard
    <2>2. /\ panicked => recorded = 500
          /\ panicked = FALSE => recorded = sent
          /\ request.route \in {"ingest", "board"} /\ (sent = 500 \/ body \in {"none", "half a page"})
               => reported \/ Unheard
      BY <1>2 DEF RInv, KnownOK
    <2>3. level' = "info" => log'.status = recorded'
      BY <1>2, <1>3
    <2> QED
      BY <1>2, <2>1, <2>2, <2>3 DEF KnownOK
  <1> QED
    BY <1>4, <1>5, <1>7, <1>8 DEF RInv

\* The demo is outside of the middleware: nobody counts or logs it.
LEMMA DemoInv ==
    ASSUME RInv, UNCHANGED setup, Demo \/ RenderDemo
    PROVE  RInv'
  <1>1. /\ Pending(0) /\ ~Routed /\ request \in Requests
    BY DEF Demo, RenderDemo, RInv, PlaceOK, CountOK, Pending, setup
  <1>2. /\ pc' \in {"render demo", "return"} /\ UNCHANGED <<request, received, log>>
        /\ board' \in Tags \cup {NoTag} /\ panicked' \in BOOLEAN
    BY DEF Demo, RenderDemo, Write, content, logged, RInv, RType, setup
  <1>3. RType'
    BY <1>2 DEF RInv, RType, setup
  <1>4. ~Routed'
    BY <1>1, <1>2 DEF Routed, setup
  <1>5. PlaceOK'
    BY <1>1, <1>2, <1>4 DEF PlaceOK, Handling
  <1>6. StatusOK' /\ KnownOK' /\ CountOK'
    BY <1>1, <1>2, <1>4 DEF StatusOK, KnownOK, CountOK, Handling, Pending, Unheard, setup
  <1> QED
    BY <1>3, <1>5, <1>6 DEF RInv

\* The connection is as it was before the request.
LEMMA ReturnInv ==
    ASSUME RInv, UNCHANGED setup, Return
    PROVE  RInv'
  <1>1. Pending(0)
    BY DEF Return, RInv, CountOK, Pending, setup
  <1>2. /\ pc' = "idle" /\ request' = NoRequest /\ sent' = NoStatus /\ body' = "none"
        /\ board' = NoTag /\ panicked' = FALSE /\ UNCHANGED <<received, log>>
    BY DEF Return, logged
  <1>3. RType'
    BY <1>2 DEF RInv, RType, setup
  <1>4. PlaceOK' /\ StatusOK' /\ KnownOK'
    BY <1>2 DEF PlaceOK, StatusOK, KnownOK, Handling, Unheard, setup
  <1>5. CountOK'
    BY <1>1, <1>2 DEF CountOK, Pending, setup
  <1> QED
    BY <1>3, <1>4, <1>5 DEF RInv

\* RInv is inductive.
LEMMA ResponseNextInv == RInv /\ [Next]_vars => RInv'
  <1> SUFFICES ASSUME RInv, [Next]_vars PROVE RInv'
    OBVIOUS
  <1>1. CASE UNCHANGED vars
    <2>1. UNCHANGED <<setup, request, pc, sent, recorded, body, board, panicked, reported,
                      received, log>>
      BY <1>1 DEF vars, response, content, logged
    <2>2. RType'
      BY <2>1 DEF RInv, RType, setup
    <2>3. StatusOK'
      BY <2>1 DEF RInv, StatusOK
    <2>4. CountOK'
      BY <2>1 DEF RInv, CountOK, Pending, setup
    <2>5. Routed' <=> Routed
      BY <2>1 DEF Routed, setup
    <2>6. PlaceOK'
      BY <2>1, <2>5 DEF RInv, PlaceOK
    <2>7. (Unheard' <=> Unheard) /\ level' = level
      BY <2>1, Zenon DEF Unheard, setup
    <2>8. KnownOK'
      BY <2>1, <2>5, <2>7 DEF RInv, KnownOK
    <2> QED
      BY <2>2, <2>3, <2>4, <2>6, <2>8 DEF RInv
  <1>2. CASE Next
    BY <1>2, PassInv, HandlerInv, RenderInv, PanicInv, LogInv, DemoInv, ReturnInv DEF Next
  <1> QED
    BY <1>1, <1>2

\* RInv holds in every state of a connection.
THEOREM ResponseInvariance == Spec => []RInv
  <1> QED
    BY ResponseInit, ResponseNextInv, PTL DEF Spec

\* No request that reaches the router stays out of a log that shows requests, whatever
\* fails or panics, for any number of requests.
THEOREM EveryRequestIsLoggedAlways == Spec => []EveryRequestIsLogged
  <1>1. RInv => EveryRequestIsLogged
    <2> SUFFICES ASSUME RInv, pc \in {"idle", "return"}
                 PROVE  log.lines = IF Writes("info") THEN received ELSE 0
      BY DEF EveryRequestIsLogged
    <2>1. Pending(0) /\ (Writes("info") <=> level = "info") /\ received \in Nat /\ log.lines \in Nat
      BY Severities DEF RInv, RType, CountOK
    <2>2. /\ level = "info" => log.lines = received
          /\ level # "info" => log.lines = 0
      BY <2>1 DEF Pending
    <2>3. CASE level = "info"
      BY <2>1, <2>2, <2>3, Zenon
    <2>4. CASE level # "info"
      BY <2>1, <2>2, <2>4, Zenon
    <2> QED
      BY <2>3, <2>4
  <1> QED
    BY <1>1, ResponseInvariance, PTL

\* The status in the log, where requests are logged, is the status of the response.
THEOREM LogTellsTheStatusAlways == Spec => []LogTellsTheStatus
  <1>1. RInv => LogTellsTheStatus
    <2> SUFFICES ASSUME RInv, pc = "return", Routed, Writes("info"), panicked => sent = 500
                 PROVE  log.status = sent
      BY DEF LogTellsTheStatus
    <2>0. level = "info"
      BY Severities DEF RInv, RType
    <2>1. log.status = recorded /\ (panicked = FALSE => recorded = sent)
      BY <2>0 DEF RInv, KnownOK
    <2>2. CASE panicked = TRUE
      BY <2>1, <2>2 DEF RInv, KnownOK
    <2> QED
      BY <2>1, <2>2 DEF RInv, RType
  <1> QED
    BY <1>1, ResponseInvariance, PTL

\* No page is cut short, and no push or board fails for a reason of our own,
\* without a line for the operator, whatever the level; but for an error of Ingest,
\* which is a warning, at level error.
THEOREM FailuresAreReportedAlways == Spec => []FailuresAreReported
  <1>1. RInv => FailuresAreReported
    BY DEF RInv, KnownOK, FailuresAreReported, Unheard, setup
  <1> QED
    BY <1>1, ResponseInvariance, PTL
-----------------------------------------------------------------------------
\* A header whose first tag has two letters asks for them, in lower case.
LEMMA TwoLetters ==
    ASSUME NEW header \in Headers, header # <<>>, Len(header[1].primary) = 2
    PROVE  acceptLanguage(header) = ToLower(header[1].primary)
  <1> DEFINE entry == header[1]
             Entries == [primary : Seq(STRING), rest : Seq(STRING), padded : BOOLEAN]
  <1>1. entry.primary \in Seq(STRING) /\ entry.rest \in Seq(STRING)
    <2>1. header \in Seq(Entries)
      BY HeadersAssumption
    <2>2. \A R, s : s \in Seq(R) /\ s # <<>> => s[1] \in R
      OBVIOUS
    <2>3. entry \in Entries
      <3> HIDE DEF Entries
      <3> QED
        BY <2>1, <2>2
    <2> QED
      BY <2>3
  <1> HIDE DEF entry
  <1>2. Len(entry.primary) = 2
    BY DEF entry
  <1> DEFINE Chars == STRING \cup {"-"}
  <1>3. PICK suffix \in Seq(Chars) : Tag(entry) = entry.primary \o suffix
    <2>1. \A C, D : C \subseteq D => Seq(C) \subseteq Seq(D)
      OBVIOUS
    <2>2. \A C, x : x \in C => <<x>> \in Seq(C)
      OBVIOUS
    <2>3. \A C : \A a, b \in Seq(C) : a \o b \in Seq(C)
      OBVIOUS
    <2>4. "-" \in Chars /\ STRING \subseteq Chars
      OBVIOUS
    <2> HIDE DEF Chars
    <2>5. <<>> \in Seq(Chars) /\ <<"-">> \o entry.rest \in Seq(Chars)
      <3>1. entry.rest \in Seq(Chars)
        BY <1>1, <2>1, <2>4
      <3>2. <<"-">> \in Seq(Chars)
        BY <2>2, <2>4
      <3>3. <<"-">> \o entry.rest \in Seq(Chars)
        BY <2>3, <3>1, <3>2
      <3>4. <<>> \in Seq(Chars)
        OBVIOUS
      <3> QED
        BY <3>3, <3>4
    <2> QED
      BY <2>5 DEF Tag
  <1> HIDE DEF Chars
  <1>4. Len(Tag(entry)) >= 2 /\ SubSeq(Tag(entry), 1, 2) = entry.primary
    BY <1>1, <1>2, <1>3
  <1>5. acceptLanguage(header) = ToLower(SubSeq(Tag(entry), 1, 2))
    <2>1. Len(Tag(entry)) \in Nat
      BY <1>1, <1>3
    <2> QED
      BY <1>4, <2>1 DEF acceptLanguage, entry
  <1> QED
    BY <1>4, <1>5 DEF entry

\* A page is in the language that it should be in, unless it was not found and asked
\* for by a tag of another length.
LEMMA PageLanguage ==
    ASSUME request \in Requests, NEW p, p = Page, p.found \/ Len(p.asked) = 2
    PROVE  p.lang = IF p.found THEN p.asked ELSE ToLower(p.asked)
  <1>1. p.found <=> sent # 404
    BY DEF Page
  <1>2. CASE sent # 404
    BY <1>1, <1>2 DEF Page
  <1>3. CASE sent = 404 /\ request.header = <<>>
    <2>1. ToLower(en) = en
      BY DEF ToLower, en, Capitals
    <2>2. p.asked = en /\ p.lang = en
      BY <1>3 DEF Page, acceptLanguage
    <2> QED
      BY <1>1, <1>3, <2>1, <2>2
  <1>4. CASE sent = 404 /\ request.header # <<>>
    <2>1. request.header \in Headers
      BY <1>4 DEF Requests
    <2>2. p.asked = request.header[1].primary /\ p.lang = acceptLanguage(request.header)
      BY <1>4 DEF Page
    <2> QED
      BY <1>1, <1>4, <2>1, <2>2, TwoLetters
  <1> QED
    BY <1>2, <1>3, <1>4

\* A reader gets every text in the language of the board, if it has one that the theme
\* has the text in, whatever its tag; on a page that was not found, in the language
\* the browser asks for first, if its tag has two letters; and else in English,
\* for any theme, header and board.
THEOREM ReaderIsUnderstoodAlways == Spec => []ReaderIsUnderstood
  <1>1. Init => ReaderIsUnderstood
    BY DEF Init, ReaderIsUnderstood
  <1>2. RInv /\ ReaderIsUnderstood /\ [Next]_vars => ReaderIsUnderstood'
    <2> SUFFICES ASSUME RInv, ReaderIsUnderstood, [Next]_vars PROVE ReaderIsUnderstood'
      OBVIOUS
    <2>1. UNCHANGED files
      BY DEF Next, vars, setup
    <2>2. CASE page' = page
      BY <2>1, <2>2 DEF ReaderIsUnderstood, Wanted
    <2>3. CASE page' = NoPage
      BY <2>3 DEF ReaderIsUnderstood
    <2>4. CASE page' = Page /\ pc \in {"render", "render demo"}
      <3> DEFINE p == Page
                 wanted == IF p.found THEN p.asked ELSE ToLower(p.asked)
                 Has(lang, k) == lang \in DOMAIN files /\ k \in files[lang]
      <3>1. page' = p /\ Wanted' = wanted /\ files' = files
        BY <2>1, <2>4 DEF Wanted
      <3>2. ASSUME p.found \/ Len(p.asked) = 2, NEW k \in Keys
            PROVE  /\ Has(wanted, k) => p.texts[k] = wanted
                   /\ ~Has(wanted, k) /\ Has(en, k) => p.texts[k] = en
        <4>1. p.lang = wanted
          BY <2>4, <3>2, PageLanguage DEF RInv, PlaceOK
        <4>2. p.texts[k] = T(files, p.lang, k)
          BY <3>2 DEF Page
        <4> HIDE DEF wanted, p
        <4> QED
          BY <4>1, <4>2 DEF T
      <3> HIDE DEF wanted, p
      <3> QED
        BY <3>1, <3>2 DEF ReaderIsUnderstood
    <2> QED
      BY <2>2, <2>3, <2>4
         DEF Next, vars, content, Receive, Route, Authenticate, Ingest, ServeOther, Lookup,
             Render, Panic, Recover, Log, Demo, RenderDemo, Return, Call, Answer,
             ReportAndAnswer, Write
  <1> QED
    BY <1>1, <1>2, ResponseInvariance, PTL DEF Spec
-----------------------------------------------------------------------------
\* Strangers do not come past withAuth.
AnswerOK ==
    /\ pc \in {"log", "return"} /\ Routed => sent # NoStatus /\ (sent = 401 <=> Stranger)
    /\ pc \in (Handling \ {"auth"}) \cup {"render", "recover"} => ~Stranger

\* An answer: of a stranger, 401; of anybody else, another status.
LEMMA AnswerFits ==
    ASSUME RInv, UNCHANGED setup, pc \in Handling \cup {"route"},
           NEW status \in {200, 400, 401, 404, 413, 500}, NEW text, Write(status, text, "log"),
           status = 401 <=> Stranger
    PROVE  AnswerOK'
  <1>1. sent = NoStatus
    BY DEF RInv, StatusOK, Handling
  <1>2. pc' = "log" /\ sent' = status /\ UNCHANGED request
    BY <1>1 DEF Write, WriteHeader
  <1>3. status # NoStatus
    BY AbsenceAssumption
  <1> QED
    BY <1>2, <1>3 DEF AnswerOK, Stranger, Handling

\* The handlers of the routes.
LEMMA HandlersFit ==
    ASSUME RInv, AnswerOK, UNCHANGED setup,
           Route \/ Authenticate \/ Ingest \/ ServeOther \/ Lookup
    PROVE  AnswerOK'
  <1>0. /\ pc \in (Handling \ {"auth"}) => ~Stranger
        /\ pc = "auth" => (Stranger <=> ~request.secret)
    BY DEF AnswerOK, RInv, PlaceOK, Stranger
  <1>1. CASE Route
    <2>1. CASE request.route # "none"
      <3>1. pc = "route" /\ request \in Requests /\ UNCHANGED request
        BY <1>1, <2>1 DEF Route, RInv, PlaceOK, Call
      <3>2. request.route \in {"ingest", "static", "healthz", "none", "demo", "board"}
        BY <3>1 DEF Requests
      <3>3. \/ request.route = "ingest" /\ pc' = "auth"
            \/ request.route = "demo" /\ pc' = "board"
            \/ request.route \notin {"ingest", "demo"} /\ pc' = request.route
        BY <1>1, <2>1, <3>2 DEF Route, Call
      <3>4. pc' = "auth" \/ (pc' \in {"static", "healthz", "board"} /\ request.route # "ingest")
        BY <2>1, <3>2, <3>3
      <3> QED
        BY <3>1, <3>4 DEF AnswerOK, Stranger, Handling
    <2>2. CASE request.route = "none"
      <3>1. pc = "route" /\ Write(404, "error", "log") /\ ~Stranger
        BY <1>1, <2>2 DEF Route, Answer, Stranger
      <3> QED
        BY <3>1, AnswerFits
    <2> QED
      BY <2>1, <2>2
  <1>2. CASE Authenticate
    <2>1. CASE request.secret
      <3>1. pc' = "ingest" /\ UNCHANGED request
        BY <1>2, <2>1 DEF Authenticate, Call
      <3> QED
        BY <2>1, <3>1 DEF AnswerOK, Stranger, Handling
    <2>2. CASE ~request.secret
      <3>1. pc = "auth" /\ Write(401, "error", "log") /\ Stranger
        BY <1>0, <1>2, <2>2 DEF Authenticate, Answer
      <3> QED
        BY <3>1, AnswerFits DEF Handling
    <2> QED
      BY <2>1, <2>2
  <1>3. CASE Ingest \/ ServeOther
    <2>1. pc \in Handling \ {"auth"}
      BY <1>3 DEF Ingest, ServeOther, Handling
    <2>2. \E status \in {200, 400, 404, 413, 500}, text \in {"json", "file", "error"} :
            Write(status, text, "log")
      BY <1>3 DEF Ingest, ServeOther, Answer, ReportAndAnswer
    <2> QED
      BY <1>0, <2>1, <2>2, AnswerFits
  <1>4. CASE Lookup
    <2>1. CASE ReportAndAnswer(500, "error")
      BY <1>0, <1>4, <2>1, AnswerFits DEF Lookup, ReportAndAnswer, Handling
    <2>2. CASE ~ReportAndAnswer(500, "error")
      <3>1. pc = "board" /\ pc' = "render" /\ UNCHANGED request
        BY <1>4, <2>2 DEF Lookup
      <3>2. ~Stranger'
        BY <1>0, <3>1 DEF Handling, Stranger
      <3> QED
        BY <3>1, <3>2 DEF AnswerOK, Handling
    <2> QED
      BY <2>1, <2>2
  <1> QED
    BY <1>1, <1>2, <1>3, <1>4

\* What comes after the handlers, and what is outside of the middleware.
LEMMA OthersFit ==
    ASSUME RInv, AnswerOK, UNCHANGED setup,
           \/ \E r \in Requests : Receive(r)
           \/ Render \/ Panic \/ Recover \/ Log \/ Demo \/ RenderDemo \/ Return
    PROVE  AnswerOK'
  <1>1. CASE \E r \in Requests : Receive(r)
    <2>1. pc = "idle" /\ pc' \in {"demo", "route"} /\ UNCHANGED sent
      BY <1>1 DEF Receive, response
    <2> QED
      BY <2>1 DEF AnswerOK, Handling, RInv, StatusOK
  <1>2. CASE Render
    <2>1. /\ pc = "render" /\ pc' = "log" /\ UNCHANGED <<request, sent>>
          /\ ~Stranger /\ sent \in {200, 404}
      BY <1>2 DEF Render, AnswerOK, RInv, StatusOK
    <2>2. ~Stranger' /\ sent' # NoStatus /\ sent' # 401
      BY <2>1, AbsenceAssumption DEF Stranger
    <2> QED
      BY <2>1, <2>2 DEF AnswerOK, Handling
  <1>3. CASE Panic
    <2>1. pc \in (Handling \ {"auth"}) \cup {"render"} /\ pc' = "recover" /\ UNCHANGED request
      BY <1>3 DEF Panic, Handling
    <2>2. ~Stranger'
      BY <2>1 DEF AnswerOK, Stranger
    <2> QED
      BY <2>1, <2>2 DEF AnswerOK, Handling
  <1>4. CASE Recover
    <2>1. /\ pc = "recover" /\ pc' = "log" /\ UNCHANGED request
          /\ sent' = IF sent = NoStatus THEN 500 ELSE sent
          /\ sent \in {NoStatus, 200, 404} /\ ~Stranger
      BY <1>4 DEF Recover, ReportAndAnswer, Write, WriteHeader, AnswerOK, RInv, StatusOK
    <2>2. ~Stranger' /\ sent' # NoStatus /\ sent' # 401
      BY <2>1, AbsenceAssumption DEF Stranger
    <2> QED
      BY <2>1, <2>2 DEF AnswerOK, Handling
  <1>5. CASE Log
    <2>1. pc = "log" /\ pc' = "return" /\ UNCHANGED <<request, sent>>
      BY <1>5 DEF Log, Call, response
    <2>2. (Routed' <=> Routed) /\ (Stranger' <=> Stranger)
      BY <2>1 DEF Routed, Stranger, setup
    <2> QED
      BY <2>1, <2>2 DEF AnswerOK, Handling
  <1>6. CASE Demo \/ RenderDemo
    <2>1. /\ ~Routed /\ UNCHANGED request /\ pc' \in {"render demo", "return"}
          /\ pc' = "render demo" => pc = "demo" /\ UNCHANGED sent
      BY <1>6 DEF Demo, RenderDemo, Write, response, RInv, PlaceOK
    <2>2. ~Routed'
      BY <2>1 DEF Routed, setup
    <2> QED
      BY <2>1, <2>2 DEF AnswerOK, Handling
  <1>7. CASE Return
    BY <1>7 DEF Return, AnswerOK, Handling
  <1> QED
    BY <1>1, <1>2, <1>3, <1>4, <1>5, <1>6, <1>7

\* AnswerOK is inductive, with RInv.
LEMMA AnswerNext == RInv /\ AnswerOK /\ [Next]_vars => AnswerOK'
  <1> SUFFICES ASSUME RInv, AnswerOK, [Next]_vars PROVE AnswerOK'
    OBVIOUS
  <1>1. CASE UNCHANGED vars
    <2>1. UNCHANGED <<pc, sent, request, setup>>
      BY <1>1 DEF vars, response
    <2>2. (Routed' <=> Routed) /\ (Stranger' <=> Stranger)
      BY <2>1 DEF Routed, Stranger, setup
    <2> QED
      BY <2>1, <2>2 DEF AnswerOK
  <1>2. CASE Next
    BY <1>2, HandlersFit, OthersFit DEF Next
  <1> QED
    BY <1>1, <1>2

LEMMA AnswerInvariance == Spec => []AnswerOK
  <1>1. Init => AnswerOK
    BY DEF Init, AnswerOK, Handling
  <1> QED
    BY <1>1, AnswerNext, ResponseInvariance, PTL DEF Spec

\* No request is left without a status, panics included, and no push without the
\* secret is answered with anything but 401.
THEOREM AnswersFitAlways == Spec => []AnswersFit
  <1>1. AnswerOK => AnswersFit
    BY DEF AnswerOK, AnswersFit
  <1> QED
    BY <1>1, AnswerInvariance, PTL

\* The steps that a response takes at most from a place.
Left ==
    CASE pc = "idle" -> 0
      [] pc = "return" -> 1
      [] pc \in {"log", "render demo"} -> 2
      [] pc \in {"recover", "demo"} -> 3
      [] pc = "render" -> 4
      [] pc \in Handling \ {"auth"} -> 5
      [] pc = "auth" -> 6
      [] pc = "route" -> 7

\* A response is complete after seven steps at most: nothing is tried again, and a
\* panic is recovered from once.
ResponsesAreShort == [][IF pc = "idle" THEN Left' \in {3, 7} ELSE Left' < Left]_vars

\* So it is for any request, failure or panic.
THEOREM ResponsesAreShortAlways == Spec => ResponsesAreShort
  <1>1. RInv /\ [Next]_vars => [IF pc = "idle" THEN Left' \in {3, 7} ELSE Left' < Left]_vars
    <2> SUFFICES ASSUME RInv, Next
                 PROVE  IF pc = "idle" THEN Left' \in {3, 7} ELSE Left' < Left
      OBVIOUS
    <2>1. CASE \E r \in Requests : Receive(r)
      <3>1. pc = "idle" /\ pc' \in {"demo", "route"}
        BY <2>1 DEF Receive
      <3> QED
        BY <3>1 DEF Left, Handling
    <2>2. CASE Route
      <3>1. pc = "route" /\ request \in Requests
        BY <2>2 DEF Route, RInv, PlaceOK
      <3>2. request.route \in {"ingest", "static", "healthz", "none", "demo", "board"}
        BY <3>1 DEF Requests
      <3>3. CASE request.route = "none"
        BY <2>2, <3>1, <3>3 DEF Route, Answer, Write, Left, Handling
      <3>4. CASE request.route # "none"
        <4>1. pc' \in Handling
          BY <2>2, <3>2, <3>4 DEF Route, Call, Handling
        <4>2. Left = 7 /\ Left' \in {5, 6} /\ pc # "idle"
          BY <3>1, <4>1, Zenon DEF Left, Handling
        <4> QED
          BY <4>2
      <3> QED
        BY <3>3, <3>4
    <2>3. CASE Authenticate
      <3>1. pc = "auth" /\ pc' \in {"ingest", "log"}
        BY <2>3 DEF Authenticate, Call, Answer, Write
      <3>2. (Left = 6 /\ Left' \in {2, 5}) /\ pc # "idle"
        BY <3>1, Zenon DEF Left, Handling
      <3> QED
        BY <3>2
    <2>4. CASE Ingest \/ ServeOther
      <3>1. pc \in {"ingest", "static", "healthz"} /\ pc' = "log"
        BY <2>4 DEF Ingest, ServeOther, Answer, ReportAndAnswer, Write
      <3>2. (Left = 5 /\ Left' = 2) /\ pc # "idle"
        BY <3>1, Zenon DEF Left, Handling
      <3> QED
        BY <3>2
    <2>5. CASE Lookup
      <3>1. pc = "board" /\ pc' \in {"render", "log"}
        BY <2>5 DEF Lookup, ReportAndAnswer, Write
      <3>2. (Left = 5 /\ Left' \in {2, 4}) /\ pc # "idle"
        BY <3>1, Zenon DEF Left, Handling
      <3> QED
        BY <3>2
    <2>6. CASE Render \/ Log \/ Recover
      <3>1. \/ pc = "render" /\ pc' = "log"
            \/ pc = "log" /\ pc' = "return"
            \/ pc = "recover" /\ pc' = "log"
        BY <2>6 DEF Render, Log, Recover, Call, ReportAndAnswer, Write
      <3>2. ((Left \in {3, 4} /\ Left' = 2) \/ (Left = 2 /\ Left' = 1)) /\ pc # "idle"
        BY <3>1, Zenon DEF Left, Handling
      <3> QED
        BY <3>2
    <2>7. CASE Panic
      <3>1. pc \in {"ingest", "board", "render", "static"} /\ pc' = "recover"
        BY <2>7 DEF Panic
      <3>2. (Left \in {4, 5} /\ Left' = 3) /\ pc # "idle"
        BY <3>1, Zenon DEF Left, Handling
      <3> QED
        BY <3>2
    <2>8. CASE Demo \/ RenderDemo \/ Return
      <3>1. \/ pc = "demo" /\ pc' \in {"return", "render demo"}
            \/ pc = "render demo" /\ pc' = "return"
            \/ pc = "return" /\ pc' = "idle"
        BY <2>8 DEF Demo, RenderDemo, Return, Write
      <3>2. ((Left = 3 /\ Left' \in {1, 2}) \/ (Left = 2 /\ Left' = 1) \/ (Left = 1 /\ Left' = 0)) /\ pc # "idle"
        BY <3>1, Zenon DEF Left, Handling
      <3> QED
        BY <3>2
    <2> QED
      BY <2>1, <2>2, <2>3, <2>4, <2>5, <2>6, <2>7, <2>8 DEF Next
  <1> QED
    BY <1>1, ResponseInvariance, PTL DEF Spec, ResponsesAreShort
=============================================================================
