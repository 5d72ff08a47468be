------------------------------- MODULE Vitrine -------------------------------
(***************************************************************************)
(* The service around the store: workflows (n8n) push the versions of the  *)
(* boards over HTTP, visitors open the links, the process is stopped,      *)
(* killed and started again.  A workflow has one push of its customer open *)
(* at a time; when the answer is an error, or does not come, it pushes     *)
(* again, or goes on to the next version.  What a push does inside the     *)
(* store is SQLiteStore, step by step; a version is a member of Bodies.    *)
(*                                                                         *)
(* A request in place "begin" or "query" has been accepted and has not     *)
(* reached the SELECT: its body may still be on its way.                   *)
(***************************************************************************)
EXTENDS SQLiteStore

CONSTANTS
    NoTicket,      \* no answer is on its way
    LastVersion,   \* every workflow pushes versions 1 .. LastVersion
    MaxCrashes,    \* bound: the process is killed this often
    MaxStops,      \* bound: it is sent SIGTERM this often
    MaxTimeouts,   \* bound: a drain takes longer than 10 s this often
    MaxGiveUps,    \* bound: a client stops waiting this often
    MaxFailures    \* bound: the disk or the random source fails this often

ASSUME VersionsAssumption == LastVersion \in Nat /\ Bodies = 1 .. LastVersion
ASSUME NoTicketAssumption == NoTicket \notin [slug : Slugs, created : BOOLEAN]

VARIABLES
    phase,     \* the process: "serving", "draining" after SIGTERM, "down"
    conn,      \* a handler's connection: "none", "open", "abandoned" by its client
    sent,      \* the version a workflow pushed last
    acked,     \* the version it was last told to be stored
    told,      \* the slug in the URL it was told
    news,      \* how often it was told created: true
    faults     \* how often each kind of fault has happened

service == <<phase, conn, sent, acked, told, news, faults>>
allVars == <<vars, service>>

VitrineInit ==
    /\ Init
    /\ phase = "serving"
    /\ conn = [h \in Handlers |-> "none"]
    /\ sent = [c \in Customers |-> 0]
    /\ acked = [c \in Customers |-> 0]
    /\ told = [c \in Customers |-> NoSlug]
    /\ news = [c \in Customers |-> 0]
    /\ faults = [crash |-> 0, stop |-> 0, timeout |-> 0, giveUp |-> 0, failure |-> 0]

Fault(kind, most) ==
    /\ faults[kind] < most
    /\ faults' = [faults EXCEPT ![kind] = @ + 1]
-----------------------------------------------------------------------------
\* No handler has an open connection for a push of this customer.
Quiet(c) ==
    ~ \E h \in Handlers :
        conn[h] = "open" /\ call[h].op = "upsert" /\ customer(h) = c

\* A workflow pushes a version: the next one, or again the one that was not
\* acknowledged.
Send(c, h, v) ==
    /\ phase = "serving"
    /\ Quiet(c)
    /\ conn[h] = "none"
    /\ v <= LastVersion
    /\ v = sent[c] + 1 \/ (v = sent[c] /\ acked[c] # v)
    /\ Invoke(h, [op |-> "upsert", customer |-> c,
                  view |-> [body |-> v, language |-> English]])
    /\ conn' = [conn EXCEPT ![h] = "open"]
    /\ sent' = [sent EXCEPT ![c] = v]
    /\ UNCHANGED <<phase, acked, told, news, faults>>

\* A visitor opens a link a workflow was told.
Visit(c, h) ==
    /\ phase = "serving"
    /\ conn[h] = "none"
    /\ told[c] # NoSlug
    /\ Invoke(h, [op |-> "bySlug", slug |-> told[c]])
    /\ conn' = [conn EXCEPT ![h] = "open"]
    /\ UNCHANGED <<phase, sent, acked, told, news, faults>>

\* A statement of the handler, or its answer to the store's caller.
Work(h) ==
    /\ Lookup(h) \/ Update(h) \/ InsertFresh(h) \/ InsertTaken(h)
         \/ SlugExhausted(h) \/ Busy(h) \/ Commit(h) \/ BySlug(h)
    /\ UNCHANGED service

\* A failing statement: the request's context is done, which takes a client
\* that is gone, or the disk or the random source fails.
Fail(h) ==
    /\ Abort(h)
    /\ \/ conn[h] = "abandoned" /\ UNCHANGED faults
       \/ Fault("failure", MaxFailures)
    /\ UNCHANGED <<phase, conn, sent, acked, told, news>>

\* MUTANT of Respond: a push is acknowledged although the answer was an error.
RespondToEveryPush(h) ==
    /\ Return(h)
    /\ conn' = [conn EXCEPT ![h] = "none"]
    /\ IF conn[h] = "open" /\ call[h].op = "upsert"
       THEN /\ acked' = [acked EXCEPT ![customer(h)] = call[h].view.body]
            /\ IF answer[h].code = "stored"
               THEN /\ told' = [told EXCEPT ![customer(h)] = answer[h].slug]
                    /\ news' = [news EXCEPT ![customer(h)] =
                                   @ + (IF answer[h].created THEN 1 ELSE 0)]
               ELSE UNCHANGED <<told, news>>
       ELSE UNCHANGED <<acked, told, news>>
    /\ UNCHANGED <<phase, sent, faults>>

\* The response is written.  A push that was stored is acknowledged with its
\* URL, if the client is still there to read it.
Respond(h) ==
    /\ Return(h)
    /\ conn' = [conn EXCEPT ![h] = "none"]
    /\ IF conn[h] = "open" /\ answer[h].code = "stored"
       THEN LET c == customer(h) IN
            /\ acked' = [acked EXCEPT ![c] = call[h].view.body]
            /\ told' = [told EXCEPT ![c] = answer[h].slug]
            /\ news' = [news EXCEPT ![c] = @ + (IF answer[h].created THEN 1 ELSE 0)]
       ELSE UNCHANGED <<acked, told, news>>
    /\ UNCHANGED <<phase, sent, faults>>

\* The client, or the network between, stops waiting; the handler does not know.
\* The server itself does so for an answer that is later than its WriteTimeout of
\* 15 s: what the handler writes then does not arrive.
GiveUp(h) ==
    /\ conn[h] = "open"
    /\ Fault("giveUp", MaxGiveUps)
    /\ conn' = [conn EXCEPT ![h] = "abandoned"]
    /\ UNCHANGED <<vars, phase, sent, acked, told, news>>
-----------------------------------------------------------------------------
\* The process is gone, and with it every request in progress.
Exit(next) ==
    /\ Crash
    /\ conn' = [h \in Handlers |-> "none"]
    /\ phase' = next
    /\ UNCHANGED <<sent, acked, told, news>>

\* The process is killed.
Kill ==
    /\ phase # "down"
    /\ Fault("crash", MaxCrashes)
    /\ Exit("down")

\* SIGTERM: srv.Shutdown closes the listeners and waits for the handlers.
Stop ==
    /\ phase = "serving"
    /\ Fault("stop", MaxStops)
    /\ phase' = "draining"
    /\ UNCHANGED <<vars, conn, sent, acked, told, news>>

\* MUTANT of Close: main does not wait for the handlers.
CloseAtOnce ==
    /\ phase = "draining"
    /\ phase' = "down"
    /\ UNCHANGED <<vars, conn, sent, acked, told, news, faults>>

\* Every handler has returned: Shutdown returns nil, main closes the store.
Close ==
    /\ phase = "draining"
    /\ \A h \in Handlers : conn[h] = "none"
    /\ phase' = "down"
    /\ UNCHANGED <<vars, conn, sent, acked, told, news, faults>>

\* 10 s are over: Shutdown returns an error, main exits with the requests open.
DrainTimeout ==
    /\ phase = "draining"
    /\ \E h \in Handlers : conn[h] # "none"
    /\ Fault("timeout", MaxTimeouts)
    /\ Exit("down")

\* The supervisor starts the process again; Open finds the committed rows.
Restart ==
    /\ phase = "down"
    /\ phase' = "serving"
    /\ UNCHANGED <<vars, conn, sent, acked, told, news, faults>>

VitrineNext ==
    \/ \E h \in Handlers :
        \/ \E c \in Customers : Visit(c, h) \/ \E v \in Bodies : Send(c, h, v)
        \/ Work(h) \/ Fail(h) \/ Respond(h) \/ GiveUp(h)
    \/ Kill \/ Stop \/ Close \/ DrainTimeout \/ Restart

VitrineSpec == VitrineInit /\ [][VitrineNext]_allVars

\* The scheduler runs every goroutine, the supervisor restarts the process.  A
\* workflow pushes until it is done; its fairness is strong because net/http
\* starts a goroutine for every connection, and only the bound on Handlers lets
\* visitors occupy all of them.  A slug out of 62^6 per prefix is free sooner or
\* later: an insertion that is tried for ever succeeds.
VitrineFairness ==
    /\ \A h \in Handlers :
        /\ WF_allVars(Work(h))
        /\ WF_allVars(Respond(h))
        /\ SF_allVars(InsertFresh(h) /\ UNCHANGED service)
    /\ \A c \in Customers : SF_allVars(\E h \in Handlers, v \in Bodies : Send(c, h, v))
    /\ WF_allVars(Close)
    /\ WF_allVars(Restart)

FairVitrineSpec == VitrineSpec /\ VitrineFairness
-----------------------------------------------------------------------------

\* A link that was handed out is the address of that customer's board, through
\* crashes, restarts and whatever is pushed later (README.md: the same URL).
ToldUrlServes ==
    \A c \in Customers : told[c] # NoSlug => rows[c] # NoRow /\ rows[c].slug = told[c]

\* A workflow that mails its customer on created: true mails at most once
\* (docs/n8n-setup.md), however often it has to repeat the first push.
NewsOnce == \A c \in Customers : news[c] <= 1

\* A workflow that is told that the version it sent last is stored, finds that
\* version in the database, through crashes, refusals and repeated pushes, as long
\* as no client has given up while its push was still running.
LastPushShows ==
    faults.giveUp = 0 =>
        \A c \in Customers :
            acked[c] # 0 /\ acked[c] = sent[c] => rows[c] # NoRow /\ rows[c].body = sent[c]

\* The handler whose answer "stored" is on its way to a client that waits for it.
Answering(c) ==
    {h \in Handlers :
        /\ conn[h] = "open" /\ pc[h] = "done" /\ answer[h].code = "stored"
        /\ customer(h) = c}

TicketOf(h) == [slug |-> answer[h].slug, created |-> answer[h].created]

\* Through concurrent pushes, faults and restarts, the process keeps the promise
\* of BoardService: a board has one address, and every answer that is heard tells
\* the address, the version that was stored and whether this push made the board.
Service == INSTANCE BoardService WITH
    address <- [c \in Customers |-> IF rows[c] = NoRow THEN NoSlug ELSE rows[c].slug],
    shown <- [c \in Customers |-> IF rows[c] = NoRow THEN 0 ELSE rows[c].body],
    ticket <- [c \in Customers |->
                  IF Answering(c) = {} THEN NoTicket
                  ELSE TicketOf(CHOOSE h \in Answering(c) : TRUE)]
ServiceSpec == Service!Spec

\* The store is closed only when no handler is in it.
ClosedStoreIsIdle == phase = "down" => \A h \in Handlers : pc[h] = "idle" /\ writer # h

\* README.md: open requests are still served before the process exits.
DrainServesOpenRequests ==
    [][phase = "draining" =>
          \A h \in Handlers : conn[h] = "open" /\ conn'[h] = "none" => pc[h] = "done"]_allVars

\* Every workflow gets its last version stored and acknowledged in the end:
\* refusals of concurrent pushes, lost answers and restarts delay it only.
EveryPushLands == \A c \in Customers : <>[](acked[c] = LastVersion)
=============================================================================
