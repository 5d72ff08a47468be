---------------------------- MODULE SQLiteStore ----------------------------
(***************************************************************************)
(* internal/store/sqlite.go: the SQLite implementation of the Store        *)
(* interface, as the request goroutines (handlers) of one vitrine process  *)
(* run it.  Upsert is a deferred transaction of several statements, so     *)
(* other handlers run between any two of them:                             *)
(*                                                                         *)
(*   Invoke --> Lookup --> Update --------------------------> Commit       *)
(*                    \--> InsertTaken* --> InsertFresh -----/             *)
(*                                      \-> SlugExhausted                  *)
(*                                                                         *)
(* The database itself is not under src/.  It is modelled as SQLite in WAL *)
(* mode behaves for these statements: the SELECT of a deferred transaction *)
(* fixes the snapshot the transaction reads until it ends; its first write *)
(* takes the one write lock, and fails at once (the busy handler is not    *)
(* called while a read transaction is open) when somebody else holds the   *)
(* lock or has committed since the snapshot; a statement that violates a   *)
(* UNIQUE constraint is undone but the transaction, and its lock, stay.    *)
(***************************************************************************)
EXTENDS Board, Naturals

CONSTANTS
    Handlers,         \* the request goroutines that call the store
    NoWriter,         \* nobody holds the write lock
    MaxSlugAttempts   \* maxSlugAttempts

ASSUME MaxSlugAttemptsAssumption == MaxSlugAttempts \in Nat \ {0}
ASSUME NoWriterAssumption == NoWriter \notin Handlers

VARIABLES
    rows,      \* customer_views as committed to the database file
    writer,    \* the handler whose transaction holds the write lock
    pc,        \* where a handler is in Upsert or BySlug
    snap,      \* what a handler's transaction sees: its snapshot, its writes
    stale,     \* the handlers whose snapshot a later commit has outdated
    slug,      \* existingSlug, or the slug of the row just inserted
    attempt,   \* the loop variable of insertWithRetry
    call,      \* the call a handler is in
    answer     \* what the call returns

vars == <<rows, writer, pc, snap, stale, slug, attempt, call, answer>>

Locations ==
    {"idle", "query", "begin", "update", "insert", "updated", "inserted", "done"}

Init ==
    /\ rows = EmptyTable
    /\ writer = NoWriter
    /\ pc = [h \in Handlers |-> "idle"]
    /\ snap = [h \in Handlers |-> EmptyTable]
    /\ stale = {}
    /\ slug = [h \in Handlers |-> NoSlug]
    /\ attempt = [h \in Handlers |-> 0]
    /\ call = [h \in Handlers |-> NoCall]
    /\ answer = [h \in Handlers |-> NoAnswer]
-----------------------------------------------------------------------------
customer(h) == call[h].customer

Goto(h, place) == pc' = [pc EXCEPT ![h] = place]

\* MUTANT of CanWrite: a snapshot that is out of date does not stop a write.
CanWriteWhenStale(h) == writer \in {h, NoWriter}

\* The handler's transaction can write: it has the lock, or can take it.
CanWrite(h) == writer = h \/ (writer = NoWriter /\ h \notin stale)

\* MUTANT of FreshSlugs: the slug column is not UNIQUE.
AnySlugs(h) == Slugs

\* The slugs an INSERT of the handler's transaction is not refused for.
FreshSlugs(h) == Slugs \ Taken(snap[h])

\* The handlers whose transaction is open (its SELECT has been answered).
Open == {h \in Handlers : pc[h] \in {"update", "insert", "updated", "inserted"}}

\* MUTANT of Finish: the deferred tx.Rollback is missing, so the transaction
\* of an Upsert that returns an error keeps the write lock.
FinishWithoutRollback(h, a) ==
    /\ answer' = [answer EXCEPT ![h] = a]
    /\ Goto(h, "done")
    /\ writer' = IF writer = h /\ a.code = "stored" THEN NoWriter ELSE writer
    /\ snap' = [snap EXCEPT ![h] = EmptyTable]
    /\ slug' = [slug EXCEPT ![h] = NoSlug]
    /\ attempt' = [attempt EXCEPT ![h] = 0]
    /\ UNCHANGED call

\* Return from Upsert or BySlug with answer a; the deferred tx.Rollback has
\* ended the transaction, if Commit had not, and dropped its lock.
Finish(h, a) ==
    /\ answer' = [answer EXCEPT ![h] = a]
    /\ Goto(h, "done")
    /\ writer' = IF writer = h THEN NoWriter ELSE writer
    /\ snap' = [snap EXCEPT ![h] = EmptyTable]
    /\ slug' = [slug EXCEPT ![h] = NoSlug]
    /\ attempt' = [attempt EXCEPT ![h] = 0]
    /\ UNCHANGED call

\* MUTANT of Rollback: the statements run outside the transaction, so what a
\* failed Upsert has written stays.
FailWithoutUndo(h, e) ==
    /\ Finish(h, Error(e))
    /\ stale' = stale \ {h}
    /\ rows' = IF pc[h] \in {"updated", "inserted"} THEN snap[h] ELSE rows

Rollback(h, e) ==
    /\ Finish(h, Error(e))
    /\ stale' = stale \ {h}
    /\ UNCHANGED rows
-----------------------------------------------------------------------------
Invoke(h, request) ==
    /\ pc[h] = "idle"
    /\ call' = [call EXCEPT ![h] = request]
    /\ Goto(h, IF request.op = "upsert" THEN "begin" ELSE "query")
    /\ UNCHANGED <<rows, writer, snap, stale, slug, attempt, answer>>

\* MUTANT of Lookup: the SELECT's answer is not looked at.
LookupIgnored(h) ==
    /\ pc[h] = "begin"
    /\ snap' = [snap EXCEPT ![h] = rows]
    /\ Goto(h, "insert")
    /\ UNCHANGED <<rows, writer, stale, slug, attempt, call, answer>>

\* BeginTx and the SELECT: the snapshot is taken, the two cases part.
Lookup(h) ==
    /\ pc[h] = "begin"
    /\ snap' = [snap EXCEPT ![h] = rows]
    /\ IF rows[customer(h)] # NoRow
       THEN /\ slug' = [slug EXCEPT ![h] = rows[customer(h)].slug]
            /\ Goto(h, "update")
       ELSE /\ Goto(h, "insert")
            /\ UNCHANGED slug
    /\ UNCHANGED <<rows, writer, stale, attempt, call, answer>>

\* MUTANT of Update: the UPDATE writes a slug, too.
UpdateWithNewSlug(h) ==
    /\ pc[h] = "update"
    /\ CanWrite(h)
    /\ writer' = h
    /\ \E s \in FreshSlugs(h) :
         /\ snap' = [snap EXCEPT ![h][customer(h)] = RowOf(s, call[h].view)]
         /\ slug' = [slug EXCEPT ![h] = s]
    /\ Goto(h, "updated")
    /\ UNCHANGED <<rows, stale, attempt, call, answer>>

\* The UPDATE statement of update.  It does not write the slug column.
Update(h) ==
    /\ pc[h] = "update"
    /\ CanWrite(h)
    /\ writer' = h
    /\ snap' = [snap EXCEPT ![h][customer(h)] = RowOf(@.slug, call[h].view)]
    /\ Goto(h, "updated")
    /\ UNCHANGED <<rows, stale, slug, attempt, call, answer>>

\* An iteration of insertWithRetry whose newSlug nobody has: it is inserted.
InsertFresh(h) ==
    /\ pc[h] = "insert"
    /\ CanWrite(h)
    /\ writer' = h
    /\ \E s \in FreshSlugs(h) :
         /\ snap' = [snap EXCEPT ![h][customer(h)] = RowOf(s, call[h].view)]
         /\ slug' = [slug EXCEPT ![h] = s]
    /\ Goto(h, "inserted")
    /\ UNCHANGED <<rows, stale, attempt, call, answer>>

\* MUTANT of InsertTaken: attempt <= maxSlugAttempts.
InsertTakenOnceMore(h) ==
    /\ pc[h] = "insert"
    /\ CanWrite(h)
    /\ Taken(snap[h]) # {}
    /\ attempt[h] < MaxSlugAttempts
    /\ attempt' = [attempt EXCEPT ![h] = @ + 1]
    /\ writer' = h
    /\ UNCHANGED <<rows, pc, snap, stale, slug, call, answer>>

\* An iteration that collides (isUniqueViolation) with another one to follow.
InsertTaken(h) ==
    /\ pc[h] = "insert"
    /\ CanWrite(h)
    /\ Taken(snap[h]) # {}
    /\ attempt[h] + 1 < MaxSlugAttempts
    /\ attempt' = [attempt EXCEPT ![h] = @ + 1]
    /\ writer' = h
    /\ UNCHANGED <<rows, pc, snap, stale, slug, call, answer>>

\* The last iteration collides: ErrSlugExhausted.
SlugExhausted(h) ==
    /\ pc[h] = "insert"
    /\ CanWrite(h)
    /\ Taken(snap[h]) # {}
    /\ attempt[h] + 1 = MaxSlugAttempts
    /\ Rollback(h, "slug_exhausted")

\* MUTANT of Busy: a refused write is waited for, not answered.
WaitForever(h) == FALSE

\* The first write of the transaction is refused: SQLITE_BUSY, or
\* SQLITE_BUSY_SNAPSHOT.
Busy(h) ==
    /\ pc[h] \in {"update", "insert"}
    /\ ~CanWrite(h)
    /\ Rollback(h, "busy")

\* BeginTx, a statement, newSlug or Commit fails for any other reason: the
\* request's context is done, the disk or the random source does not answer.
Abort(h) ==
    /\ pc[h] \in {"begin", "query"} \/ h \in Open
    /\ Rollback(h, "aborted")

\* MUTANT of Commit: Upsert returns without tx.Commit.
CommitForgotten(h) ==
    /\ pc[h] \in {"updated", "inserted"}
    /\ stale' = stale \ {h}
    /\ Finish(h, Stored(slug[h], pc[h] = "inserted"))
    /\ UNCHANGED rows

\* MUTANT of Commit: the snapshots of the others are not outdated by it.
CommitUnnoticed(h) ==
    /\ pc[h] \in {"updated", "inserted"}
    /\ rows' = snap[h]
    /\ Finish(h, Stored(slug[h], pc[h] = "inserted"))
    /\ UNCHANGED stale

\* tx.Commit: the transaction's rows become those of the database, every
\* other open snapshot is out of date, Upsert returns.
Commit(h) ==
    /\ pc[h] \in {"updated", "inserted"}
    /\ rows' = snap[h]
    /\ stale' = (stale \cup Open) \ {h}
    /\ Finish(h, Stored(slug[h], pc[h] = "inserted"))

\* BySlug is one SELECT: it reads the last commit and waits for nobody.
BySlug(h) ==
    /\ pc[h] = "query"
    /\ \/ \E c \in Known(rows) :
            /\ rows[c].slug = call[h].slug
            /\ Finish(h, Found(c, rows[c]))
       \/ /\ call[h].slug \notin Taken(rows)
          /\ Finish(h, Error("unknown_slug"))
    /\ UNCHANGED <<rows, stale>>

\* The caller has taken the answer.
Return(h) ==
    /\ pc[h] = "done"
    /\ Goto(h, "idle")
    /\ call' = [call EXCEPT ![h] = NoCall]
    /\ answer' = [answer EXCEPT ![h] = NoAnswer]
    /\ UNCHANGED <<rows, writer, snap, stale, slug, attempt>>

\* The process dies and is started again: the write-ahead log holds the
\* committed transactions and nothing of the others.
Crash ==
    /\ writer' = NoWriter
    /\ pc' = [h \in Handlers |-> "idle"]
    /\ snap' = [h \in Handlers |-> EmptyTable]
    /\ stale' = {}
    /\ slug' = [h \in Handlers |-> NoSlug]
    /\ attempt' = [h \in Handlers |-> 0]
    /\ call' = [h \in Handlers |-> NoCall]
    /\ answer' = [h \in Handlers |-> NoAnswer]
    /\ UNCHANGED rows

Step(h) ==
    \/ Lookup(h) \/ Update(h)
    \/ InsertFresh(h) \/ InsertTaken(h) \/ SlugExhausted(h)
    \/ Busy(h) \/ Commit(h) \/ BySlug(h) \/ Return(h)

Next ==
    \/ Crash
    \/ \E h \in Handlers :
        \/ \E request \in Call : Invoke(h, request)
        \/ Step(h)
        \/ Abort(h)

Spec == Init /\ [][Next]_vars

\* The Go scheduler runs every goroutine that can run.
Fairness == \A h \in Handlers : WF_vars(Step(h))
FairSpec == Spec /\ Fairness
-----------------------------------------------------------------------------
\* Every variable has its type; no handler starts more than maxSlugAttempts
\* INSERTs.
TypeOK ==
    /\ rows \in Table
    /\ writer \in Handlers \cup {NoWriter}
    /\ pc \in [Handlers -> Locations]
    /\ snap \in [Handlers -> Table]
    /\ stale \subseteq Handlers
    /\ slug \in [Handlers -> Slugs \cup {NoSlug}]
    /\ attempt \in [Handlers -> 0 .. MaxSlugAttempts - 1]
    /\ call \in [Handlers -> Call \cup {NoCall}]
    /\ answer \in [Handlers -> Answer \cup {NoAnswer}]

\* How a handler's place, its call and its answer go together.
CallOK(h) ==
    /\ pc[h] = "idle" <=> call[h] = NoCall
    /\ pc[h] = "query" => call[h] \in BySlugCall
    /\ (pc[h] = "begin" \/ h \in Open) => call[h] \in UpsertCall
    /\ pc[h] = "done" <=> answer[h] # NoAnswer
    /\ pc[h] = "done" /\ answer[h].code = "stored" => call[h] \in UpsertCall

\* What a transaction sees that is not out of date: the committed rows, and
\* on top of them its own write.
SnapOK(h) ==
    LET c == customer(h) IN
    /\ pc[h] = "update" /\ h \notin stale =>
          snap[h] = rows /\ rows[c] # NoRow /\ slug[h] = rows[c].slug
    /\ pc[h] = "insert" /\ h \notin stale => snap[h] = rows /\ rows[c] = NoRow
    /\ pc[h] = "updated" =>
          /\ rows[c] # NoRow
          /\ slug[h] = rows[c].slug
          /\ snap[h] = [rows EXCEPT ![c] = RowOf(slug[h], call[h].view)]
    /\ pc[h] = "inserted" =>
          /\ rows[c] = NoRow
          /\ slug[h] \in Slugs \ Taken(rows)
          /\ snap[h] = [rows EXCEPT ![c] = RowOf(slug[h], call[h].view)]

\* Who holds the write lock: a transaction that has written, or has tried to
\* insert, on a snapshot that is not out of date.
WriterOK(h) ==
    /\ writer = h => h \notin stale /\ pc[h] \in {"insert", "updated", "inserted"}
    /\ pc[h] \in {"updated", "inserted"} => writer = h
    /\ h \in stale => pc[h] \in {"update", "insert"}

\* Isolation: a transaction that may still commit works on the rows that are
\* committed now, whatever has happened since its SELECT.  A commit by another
\* handler takes from every other transaction the right to write.
SnapshotIsolation == \A h \in Handlers : CallOK(h) /\ SnapOK(h) /\ WriterOK(h)

\* A slug is the public address of one customer's board only, whatever the
\* interleaving of the handlers that mint slugs.
UniqueSlugs ==
    \A c, d \in Known(rows) : rows[c].slug = rows[d].slug => c = d

\* A board, once stored, stays, under the slug it was first given: links that
\* were handed out keep working (docs/api.md: the URL never changes).
SlugStable ==
    [][\A c \in Known(rows) :
          c \in Known(rows') /\ rows'[c].slug = rows[c].slug]_vars

\* A transaction changes its own customer's board and nobody else's, although
\* it writes back a snapshot taken before others committed.
NoLostUpdate ==
    [][\A c \in Customers :
          rows'[c] # rows[c] =>
             \E h \in Handlers : writer = h /\ customer(h) = c]_vars

\* The slug Upsert returns is the one the board can be read under, from the
\* moment the caller has it.
AnsweredSlugIsLive ==
    \A h \in Handlers :
        answer[h] # NoAnswer /\ answer[h].code = "stored" =>
            /\ rows[customer(h)] # NoRow
            /\ rows[customer(h)].slug = answer[h].slug

\* created is true exactly when this call made the board: of two first pushes
\* of one customer that run together, only one is told so.
CreatedIsTrue ==
    [][\A h \in Handlers :
          answer[h] = NoAnswer /\ answer'[h] # NoAnswer /\ answer'[h].code = "stored"
             => (answer'[h].created <=> rows[customer(h)] = NoRow)]_vars

\* Every call is answered and taken, or dies with the process: no handler
\* waits on another one's transaction.
EveryCallReturns ==
    \A h \in Handlers : call[h] # NoCall ~> call[h] = NoCall

\* The SQLite store implements the Store interface: every Upsert and BySlug
\* takes effect at one instant (the commit, the SELECT) and fails without trace.
Store == INSTANCE BoardStore WITH table <- rows
StoreSpec == Store!Spec
=============================================================================
