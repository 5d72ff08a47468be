-------------------------- MODULE SQLiteStoreProofs --------------------------
(***************************************************************************)
(* Proofs about SQLiteStore, for any handlers, customers, slugs, views and *)
(* any positive maxSlugAttempts.  The inductive invariant IInv is the type *)
(* invariant with what SnapshotIsolation says of each handler: TypeOK      *)
(* gives the shapes, SnapOK that a transaction which may still write works *)
(* on the committed rows, WriterOK that only one such transaction has      *)
(* written.  Unique slugs are then a matter of one commit.                 *)
(***************************************************************************)
EXTENDS SQLiteStore, TLAPS

IInv == TypeOK /\ SnapshotIsolation /\ UniqueSlugs /\ AnsweredSlugIsLive
-----------------------------------------------------------------------------
\* A stored row keeps the slug it is stored under and has the type of a row.
LEMMA RowOfType ==
    ASSUME NEW s \in Slugs, NEW v \in View
    PROVE  RowOf(s, v) \in Row /\ RowOf(s, v).slug = s /\ RowOf(s, v) # NoRow
  BY LanguagesAssumption, AbsenceAssumption DEF RowOf, Row, View

\* A slug is taken exactly when some customer's row has it.
LEMMA TakenMeaning ==
    ASSUME NEW t \in Table, NEW s
    PROVE  s \in Taken(t) <=> \E c \in Customers : t[c] # NoRow /\ t[c].slug = s
  BY DEF Taken, Known

\* The parts of a call.
LEMMA CallType ==
    /\ \A r \in UpsertCall : r.op = "upsert" /\ r.customer \in Customers /\ r.view \in View
    /\ \A r \in BySlugCall : r.op = "bySlug" /\ r.slug \in Slugs
    /\ NoCall \notin UpsertCall /\ NoCall \notin BySlugCall
    /\ UpsertCall \cap BySlugCall = {}
  BY AbsenceAssumption DEF UpsertCall, BySlugCall, Call

\* The shapes of the answers.
LEMMA AnswerType ==
    /\ \A s \in Slugs, b \in BOOLEAN :
         /\ Stored(s, b) \in Answer
         /\ Stored(s, b).code = "stored" /\ Stored(s, b).slug = s
         /\ Stored(s, b).created = b
    /\ \A c \in Customers, r \in Row :
         Found(c, r) \in Answer /\ Found(c, r).code = "found"
    /\ \A e \in Failures \cup {"slug_exhausted", "unknown_slug"} :
         Error(e) \in Answer /\ Error(e).code = e
    /\ NoAnswer \notin Answer
  BY AbsenceAssumption
     DEF Answer, StoredAnswer, FoundAnswer, ErrorAnswer, Stored, Found, Error, Failures

\* The values of the answers are not strings that mean success.
LEMMA ErrorIsNotStored ==
    ASSUME NEW e \in Failures \cup {"slug_exhausted", "unknown_slug"}
    PROVE  e # "stored"
  BY DEF Failures
-----------------------------------------------------------------------------
LEMMA InitInv == Init => IInv
  <1> SUFFICES ASSUME Init PROVE IInv
    OBVIOUS
  <1>1. EmptyTable \in Table /\ \A c \in Customers : EmptyTable[c] = NoRow
    BY DEF EmptyTable, Table
  <1>2. TypeOK
    BY <1>1, MaxSlugAttemptsAssumption DEF Init, TypeOK, Locations
  <1>3. SnapshotIsolation
    BY NoWriterAssumption DEF Init, SnapshotIsolation, CallOK, SnapOK, WriterOK, Open
  <1>4. UniqueSlugs /\ AnsweredSlugIsLive
    BY <1>1 DEF Init, UniqueSlugs, AnsweredSlugIsLive, Known
  <1> QED
    BY <1>2, <1>3, <1>4 DEF IInv

\* Returning from a call without having committed: every error path.
LEMMA RollbackInv ==
    ASSUME IInv, NEW h \in Handlers,
           NEW e \in Failures \cup {"slug_exhausted", "unknown_slug"},
           pc[h] \in Locations \ {"idle", "done"},
           Rollback(h, e)
    PROVE  IInv'
  <1>1. EmptyTable \in Table
    BY DEF EmptyTable, Table
  <1>2. Error(e) \in Answer /\ Error(e).code # "stored" /\ Error(e) # NoAnswer
    BY AnswerType, ErrorIsNotStored
  <1>3. TypeOK'
    BY <1>1, <1>2, MaxSlugAttemptsAssumption
       DEF IInv, TypeOK, Rollback, Finish, Goto, Locations
  <1>4. SnapshotIsolation'
    <2> SUFFICES ASSUME NEW g \in Handlers
                 PROVE  CallOK(g)' /\ SnapOK(g)' /\ WriterOK(g)'
      BY DEF SnapshotIsolation
    <2>1. CallOK(g) /\ SnapOK(g) /\ WriterOK(g)
      BY DEF IInv, SnapshotIsolation
    <2>2. CASE g = h
      BY <1>2, <2>1, <2>2, NoWriterAssumption
         DEF IInv, TypeOK, Rollback, Finish, Goto, CallOK, SnapOK, WriterOK, Open
    <2>3. CASE g # h
      BY <2>1, <2>3, NoWriterAssumption
         DEF IInv, TypeOK, Rollback, Finish, Goto, CallOK, SnapOK, WriterOK, Open,
             customer
    <2> QED
      BY <2>2, <2>3
  <1>5. UniqueSlugs' /\ AnsweredSlugIsLive'
    BY <1>2 DEF IInv, TypeOK, Rollback, Finish, UniqueSlugs, AnsweredSlugIsLive,
                Known, customer
  <1> QED
    BY <1>3, <1>4, <1>5 DEF IInv
-----------------------------------------------------------------------------
\* Steps that leave the committed rows and the answers alone: UniqueSlugs and
\* AnsweredSlugIsLive carry over.
LEMMA QuietInv ==
    ASSUME UniqueSlugs, AnsweredSlugIsLive, UNCHANGED <<rows, call, answer>>
    PROVE  UniqueSlugs' /\ AnsweredSlugIsLive'
  BY DEF UniqueSlugs, AnsweredSlugIsLive, Known, customer

LEMMA InvokeInv ==
    ASSUME IInv, NEW h \in Handlers, NEW request \in Call, Invoke(h, request)
    PROVE  IInv'
  <1>1. (request \in UpsertCall /\ request.op = "upsert")
         \/ (request \in BySlugCall /\ request.op = "bySlug")
    BY CallType DEF Call
  <1>2. request # NoCall
    BY AbsenceAssumption
  <1>3. TypeOK'
    BY DEF IInv, TypeOK, Invoke, Goto, Locations
  <1>4. SnapshotIsolation'
    <2> SUFFICES ASSUME NEW g \in Handlers
                 PROVE  CallOK(g)' /\ SnapOK(g)' /\ WriterOK(g)'
      BY DEF SnapshotIsolation
    <2>1. CallOK(g) /\ SnapOK(g) /\ WriterOK(g)
      BY DEF IInv, SnapshotIsolation
    <2>2. CASE g = h
      BY <1>1, <1>2, <2>1, <2>2
         DEF IInv, TypeOK, Invoke, Goto, CallOK, SnapOK, WriterOK, Open
    <2>3. CASE g # h
      BY <2>1, <2>3
         DEF IInv, TypeOK, Invoke, Goto, CallOK, SnapOK, WriterOK, Open, customer
    <2> QED
      BY <2>2, <2>3
  <1>5. \A g \in Handlers : answer[g] # NoAnswer => call'[g] = call[g]
    BY DEF IInv, TypeOK, SnapshotIsolation, CallOK, Invoke
  <1>6. UniqueSlugs' /\ AnsweredSlugIsLive'
    BY <1>5 DEF IInv, Invoke, UniqueSlugs, AnsweredSlugIsLive, Known, customer
  <1> QED
    BY <1>3, <1>4, <1>6 DEF IInv

LEMMA LookupInv ==
    ASSUME IInv, NEW h \in Handlers, Lookup(h)
    PROVE  IInv'
  <1>1. call[h] \in UpsertCall /\ customer(h) \in Customers /\ h \notin stale
        /\ writer # h /\ answer[h] = NoAnswer
    BY CallType DEF IInv, SnapshotIsolation, CallOK, WriterOK, Lookup, customer
  <1>2. rows[customer(h)] # NoRow => rows[customer(h)].slug \in Slugs
    BY <1>1 DEF IInv, TypeOK, Table, Row
  <1>3. TypeOK'
    BY <1>2 DEF IInv, TypeOK, Lookup, Goto, Locations
  <1>4. SnapshotIsolation'
    <2> SUFFICES ASSUME NEW g \in Handlers
                 PROVE  CallOK(g)' /\ SnapOK(g)' /\ WriterOK(g)'
      BY DEF SnapshotIsolation
    <2>1. CallOK(g) /\ SnapOK(g) /\ WriterOK(g)
      BY DEF IInv, SnapshotIsolation
    <2>2. CASE g = h
      BY <1>1, <2>1, <2>2 
         DEF IInv, TypeOK, Lookup, Goto, CallOK, SnapOK, WriterOK, Open, customer
    <2>3. CASE g # h
      BY <2>1, <2>3
         DEF IInv, TypeOK, Lookup, Goto, CallOK, SnapOK, WriterOK, Open, customer
    <2> QED
      BY <2>2, <2>3
  <1>5. UniqueSlugs' /\ AnsweredSlugIsLive'
    BY QuietInv DEF IInv, Lookup
  <1> QED
    BY <1>3, <1>4, <1>5 DEF IInv

\* What the two writing actions have in common: the transaction becomes the
\* one writer and its own row, under slug s, changes in what it sees.
Write(h, s, place) ==
    /\ \/ pc[h] = "update" /\ place = "updated" /\ s = slug[h]
       \/ pc[h] = "insert" /\ place = "inserted" /\ s \notin Taken(snap[h])
    /\ CanWrite(h)
    /\ writer' = h
    /\ snap' = [snap EXCEPT ![h][customer(h)] = RowOf(s, call[h].view)]
    /\ slug' = [slug EXCEPT ![h] = s]
    /\ Goto(h, place)
    /\ UNCHANGED <<rows, stale, attempt, call, answer>>

LEMMA WriteInv ==
    ASSUME IInv, NEW h \in Handlers, NEW s \in Slugs, NEW place, Write(h, s, place)
    PROVE  IInv'
  <1>1. /\ call[h] \in UpsertCall
        /\ customer(h) \in Customers /\ call[h].view \in View
        /\ h \notin stale /\ answer[h] = NoAnswer
    BY CallType DEF IInv, SnapshotIsolation, CallOK, WriterOK, CanWrite, customer, Open, Write
  <1>2. RowOf(s, call[h].view) \in Row
    BY <1>1, RowOfType
  <1>3. TypeOK'
    BY <1>1, <1>2 DEF IInv, TypeOK, Goto, Locations, Table, Write
  <1>4. snap[h] = rows
        /\ (place = "updated" => rows[customer(h)] # NoRow /\ s = rows[customer(h)].slug)
        /\ (place = "inserted" => rows[customer(h)] = NoRow)
    BY <1>1 DEF IInv, SnapshotIsolation, SnapOK, Write
  <1>5. snap'[h] = [rows EXCEPT ![customer(h)] = RowOf(s, call[h].view)]
        /\ slug'[h] = s
    BY <1>4 DEF IInv, TypeOK, Write
  <1>6. SnapshotIsolation'
    <2> SUFFICES ASSUME NEW g \in Handlers
                 PROVE  CallOK(g)' /\ SnapOK(g)' /\ WriterOK(g)'
      BY DEF SnapshotIsolation
    <2>1. CallOK(g) /\ SnapOK(g) /\ WriterOK(g)
      BY DEF IInv, SnapshotIsolation
    <2>2. CASE g = h
      <3>1. CallOK(g)' /\ WriterOK(g)'
        BY <1>1, <2>1, <2>2 DEF IInv, TypeOK, Goto, CallOK, WriterOK, Open, Write
      <3>2. pc'[g] = place /\ customer(g)' = customer(g) /\ Taken(rows)' = Taken(rows)
        BY <2>2 DEF IInv, TypeOK, Goto, customer, Taken, Known, Write
      <3>3. SnapOK(g)'
        BY <1>4, <1>5, <2>2, <3>2 DEF SnapOK, Write
      <3> QED
        BY <3>1, <3>3
    <2>3. CASE g # h
      <3>1. writer # g
        BY <2>3, NoWriterAssumption DEF CanWrite, Write
      <3>2. pc[g] \notin {"updated", "inserted"}
        BY <2>1, <3>1 DEF WriterOK
      <3> QED
        BY <2>1, <2>3, <3>1, <3>2
           DEF IInv, TypeOK, Goto, CallOK, SnapOK, WriterOK, Open, customer, Write
    <2> QED
      BY <2>2, <2>3
  <1>7. UniqueSlugs' /\ AnsweredSlugIsLive'
    BY QuietInv DEF IInv, Write
  <1> QED
    BY <1>3, <1>6, <1>7 DEF IInv

LEMMA UpdateInv ==
    ASSUME IInv, NEW h \in Handlers, Update(h)
    PROVE  IInv'
  <1>1. h \notin stale /\ customer(h) \in Customers
    BY CallType DEF IInv, SnapshotIsolation, CallOK, WriterOK, Update, CanWrite,
                    Open, customer
  <1>2. snap[h] = rows /\ rows[customer(h)] # NoRow /\ slug[h] = rows[customer(h)].slug
    BY <1>1 DEF IInv, SnapshotIsolation, SnapOK, Update
  <1>3. slug[h] \in Slugs /\ slug[h] = snap[h][customer(h)].slug
    BY <1>1, <1>2 DEF IInv, TypeOK, Table, Row
  <1>4. snap' = [snap EXCEPT ![h][customer(h)] = RowOf(slug[h], call[h].view)]
    BY <1>1, <1>3 DEF Update, IInv, TypeOK, Table
  <1>5. slug' = [slug EXCEPT ![h] = slug[h]]
    BY DEF Update, IInv, TypeOK
  <1>6. Write(h, slug[h], "updated")
    BY <1>4, <1>5 DEF Update, Write
  <1> QED
    BY <1>3, <1>6, WriteInv

LEMMA InsertFreshInv ==
    ASSUME IInv, NEW h \in Handlers, InsertFresh(h)
    PROVE  IInv'
  <1>1. PICK s \in FreshSlugs(h) :
           /\ snap' = [snap EXCEPT ![h][customer(h)] = RowOf(s, call[h].view)]
           /\ slug' = [slug EXCEPT ![h] = s]
    BY DEF InsertFresh
  <1>2. s \in Slugs /\ s \notin Taken(snap[h])
    BY DEF FreshSlugs
  <1>3. Write(h, s, "inserted")
    BY <1>1, <1>2 DEF InsertFresh, Write
  <1> QED
    BY <1>2, <1>3, WriteInv

LEMMA InsertTakenInv ==
    ASSUME IInv, NEW h \in Handlers, InsertTaken(h)
    PROVE  IInv'
  <1>1. TypeOK'
    BY MaxSlugAttemptsAssumption DEF IInv, TypeOK, InsertTaken
  <1>2. SnapshotIsolation'
    BY NoWriterAssumption
       DEF IInv, TypeOK, SnapshotIsolation, InsertTaken, CanWrite,
           CallOK, SnapOK, WriterOK, Open, customer, Taken, Known
  <1>3. UniqueSlugs' /\ AnsweredSlugIsLive'
    BY QuietInv DEF IInv, InsertTaken
  <1> QED
    BY <1>1, <1>2, <1>3 DEF IInv

\* A commit writes one row: the other customers' rows are what they were, and
\* the customer's own row keeps its slug or gets one that was not taken.
LEMMA CommitWritesOneRow ==
    ASSUME IInv, NEW h \in Handlers, Commit(h)
    PROVE  /\ writer = h
           /\ customer(h) \in Customers
           /\ call[h] \in UpsertCall
           /\ slug[h] \in Slugs
           /\ rows' = [rows EXCEPT ![customer(h)] = RowOf(slug[h], call[h].view)]
           /\ RowOf(slug[h], call[h].view) \in Row
           /\ RowOf(slug[h], call[h].view).slug = slug[h]
           /\ RowOf(slug[h], call[h].view) # NoRow
           /\ \/ /\ pc[h] = "updated"
                 /\ rows[customer(h)] # NoRow /\ rows[customer(h)].slug = slug[h]
              \/ /\ pc[h] = "inserted"
                 /\ rows[customer(h)] = NoRow /\ slug[h] \notin Taken(rows)
  <1>1. CallOK(h) /\ SnapOK(h) /\ WriterOK(h) /\ pc[h] \in {"updated", "inserted"}
    BY DEF IInv, SnapshotIsolation, Commit
  <1>2. call[h] \in UpsertCall
    BY <1>1 DEF CallOK, Open
  <1>3. customer(h) \in Customers /\ call[h].view \in View
    BY <1>2, CallType DEF customer
  <1>4. slug[h] \in Slugs
    BY <1>1, <1>3 DEF SnapOK, IInv, TypeOK, Table, Row
  <1>5. /\ RowOf(slug[h], call[h].view) \in Row
        /\ RowOf(slug[h], call[h].view).slug = slug[h]
        /\ RowOf(slug[h], call[h].view) # NoRow
    BY <1>3, <1>4, RowOfType
  <1> QED
    BY <1>1, <1>2, <1>3, <1>4, <1>5 DEF Commit, SnapOK, WriterOK

LEMMA CommitInv ==
    ASSUME IInv, NEW h \in Handlers, Commit(h)
    PROVE  IInv'
  <1> DEFINE c == customer(h)
             r == RowOf(slug[h], call[h].view)
             a == Stored(slug[h], pc[h] = "inserted")
  <1>1. /\ writer = h /\ c \in Customers /\ call[h] \in UpsertCall /\ slug[h] \in Slugs
        /\ rows' = [rows EXCEPT ![c] = r] /\ r \in Row /\ r.slug = slug[h] /\ r # NoRow
        /\ \/ pc[h] = "updated" /\ rows[c] # NoRow /\ rows[c].slug = slug[h]
           \/ pc[h] = "inserted" /\ rows[c] = NoRow /\ slug[h] \notin Taken(rows)
    BY CommitWritesOneRow
  <1>2. a \in Answer /\ a.code = "stored" /\ a.slug = slug[h] /\ a # NoAnswer
    BY <1>1, AnswerType
  <1> HIDE DEF c, r, a
  <1>3. EmptyTable \in Table
    BY DEF EmptyTable, Table
  <1>4. answer' = [answer EXCEPT ![h] = a] /\ UNCHANGED call
    BY DEF Commit, Finish, a
  <1>5. TypeOK'
    <2>1. rows' \in Table
      BY <1>1 DEF IInv, TypeOK, Table
    <2> QED
      BY <2>1, <1>2, <1>3, <1>4, MaxSlugAttemptsAssumption
         DEF IInv, TypeOK, Commit, Finish, Goto, Locations, Open
  <1>6. SnapshotIsolation'
    <2> SUFFICES ASSUME NEW g \in Handlers
                 PROVE  CallOK(g)' /\ SnapOK(g)' /\ WriterOK(g)'
      BY DEF SnapshotIsolation
    <2>1. CallOK(g) /\ SnapOK(g) /\ WriterOK(g)
      BY DEF IInv, SnapshotIsolation
    <2>2. CASE g = h
      BY <1>1, <1>2, <1>4, <2>1, <2>2, NoWriterAssumption
         DEF IInv, TypeOK, Commit, Finish, Goto, CallOK, SnapOK, WriterOK, Open
    <2>3. CASE g # h
      <3>1. pc[g] \notin {"updated", "inserted"}
        BY <1>1, <2>1, <2>3 DEF WriterOK
      <3>2. pc'[g] = pc[g] /\ answer'[g] = answer[g] /\ call'[g] = call[g]
            /\ (g \in stale' <=> g \in stale \cup Open) /\ writer' # g
        BY <1>1, <1>4, <2>3, NoWriterAssumption
           DEF IInv, TypeOK, Commit, Finish, Goto
      <3> QED
        BY <2>1, <3>1, <3>2 DEF CallOK, SnapOK, WriterOK, Open
    <2> QED
      BY <2>2, <2>3
  <1>7. UniqueSlugs'
    <2>1. \A d \in Customers : d # c => rows'[d] = rows[d]
      BY <1>1 DEF IInv, TypeOK, Table
    <2>2. rows'[c] = r
      BY <1>1 DEF IInv, TypeOK, Table
    <2>3. \A d \in Customers : d # c /\ rows[d] # NoRow => rows[d].slug # slug[h]
      BY <1>1, TakenMeaning DEF IInv, TypeOK, UniqueSlugs, Known
    <2> QED
      BY <1>1, <2>1, <2>2, <2>3 DEF IInv, UniqueSlugs, Known
  <1>8. AnsweredSlugIsLive'
    <2> SUFFICES ASSUME NEW g \in Handlers, answer'[g] # NoAnswer,
                        answer'[g].code = "stored"
                 PROVE  rows'[customer(g)'] # NoRow
                        /\ rows'[customer(g)'].slug = answer'[g].slug
      BY DEF AnsweredSlugIsLive
    <2>1. customer(g)' = customer(g)
      BY <1>4 DEF customer
    <2>2. CASE g = h
      BY <1>1, <1>2, <1>4, <2>1, <2>2 DEF IInv, TypeOK, Table, c
    <2>3. CASE g # h
      <3>1. answer'[g] = answer[g]
        BY <1>4, <2>3 DEF IInv, TypeOK
      <3>2. call[g] \in UpsertCall
        BY <3>1 DEF IInv, SnapshotIsolation, CallOK
      <3>3. customer(g) \in Customers
        BY <3>2, CallType DEF customer
      <3>4. rows[customer(g)] # NoRow /\ rows[customer(g)].slug = answer[g].slug
        BY <3>1 DEF IInv, AnsweredSlugIsLive
      <3> QED
        BY <1>1, <2>1, <3>1, <3>3, <3>4 DEF IInv, TypeOK, Table
    <2> QED
      BY <2>2, <2>3
  <1> QED
    BY <1>5, <1>6, <1>7, <1>8 DEF IInv

LEMMA BySlugInv ==
    ASSUME IInv, NEW h \in Handlers, BySlug(h)
    PROVE  IInv'
  <1>1. PICK a \in Answer : a.code # "stored" /\ Finish(h, a)
    <2>1. CASE \E c \in Known(rows) : Finish(h, Found(c, rows[c]))
      <3>1. PICK c \in Known(rows) : Finish(h, Found(c, rows[c]))
        BY <2>1
      <3>2. c \in Customers /\ rows[c] \in Row
        BY DEF Known, IInv, TypeOK, Table
      <3> QED
        BY <3>1, <3>2, AnswerType
    <2>2. CASE Finish(h, Error("unknown_slug"))
      BY <2>2, AnswerType
    <2> QED
      BY <2>1, <2>2 DEF BySlug
  <1>2. a # NoAnswer /\ EmptyTable \in Table
    BY AnswerType DEF EmptyTable, Table
  <1>3. writer # h /\ h \notin stale /\ pc[h] = "query"
    BY DEF IInv, SnapshotIsolation, WriterOK, BySlug
  <1>4. TypeOK'
    BY <1>1, <1>2, <1>3, MaxSlugAttemptsAssumption
       DEF IInv, TypeOK, BySlug, Finish, Goto, Locations
  <1>5. SnapshotIsolation'
    <2> SUFFICES ASSUME NEW g \in Handlers
                 PROVE  CallOK(g)' /\ SnapOK(g)' /\ WriterOK(g)'
      BY DEF SnapshotIsolation
    <2>1. CallOK(g) /\ SnapOK(g) /\ WriterOK(g)
      BY DEF IInv, SnapshotIsolation
    <2>2. CASE g = h
      BY <1>1, <1>2, <1>3, <2>1, <2>2
         DEF IInv, TypeOK, BySlug, Finish, Goto, CallOK, SnapOK, WriterOK, Open
    <2>3. CASE g # h
      BY <1>1, <1>3, <2>1, <2>3
         DEF IInv, TypeOK, BySlug, Finish, Goto, CallOK, SnapOK, WriterOK, Open,
             customer
    <2> QED
      BY <2>2, <2>3
  <1>6. UniqueSlugs' /\ AnsweredSlugIsLive'
    BY <1>1 DEF IInv, TypeOK, BySlug, Finish, UniqueSlugs, AnsweredSlugIsLive,
                Known, customer
  <1> QED
    BY <1>4, <1>5, <1>6 DEF IInv

LEMMA ReturnInv ==
    ASSUME IInv, NEW h \in Handlers, Return(h)
    PROVE  IInv'
  <1>1. TypeOK'
    BY DEF IInv, TypeOK, Return, Goto, Locations
  <1>2. SnapshotIsolation'
    <2> SUFFICES ASSUME NEW g \in Handlers
                 PROVE  CallOK(g)' /\ SnapOK(g)' /\ WriterOK(g)'
      BY DEF SnapshotIsolation
    <2>1. CallOK(g) /\ SnapOK(g) /\ WriterOK(g)
      BY DEF IInv, SnapshotIsolation
    <2>2. CASE g = h
      BY <2>1, <2>2
         DEF IInv, TypeOK, Return, Goto, CallOK, SnapOK, WriterOK, Open
    <2>3. CASE g # h
      BY <2>1, <2>3
         DEF IInv, TypeOK, Return, Goto, CallOK, SnapOK, WriterOK, Open, customer
    <2> QED
      BY <2>2, <2>3
  <1>3. UniqueSlugs' /\ AnsweredSlugIsLive'
    BY DEF IInv, TypeOK, Return, UniqueSlugs, AnsweredSlugIsLive, Known, customer
  <1> QED
    BY <1>1, <1>2, <1>3 DEF IInv

LEMMA CrashInv == ASSUME IInv, Crash PROVE IInv'
  <1>1. EmptyTable \in Table
    BY DEF EmptyTable, Table
  <1>2. TypeOK'
    BY <1>1, MaxSlugAttemptsAssumption DEF IInv, TypeOK, Crash, Locations
  <1>3. SnapshotIsolation'
    BY NoWriterAssumption
       DEF Crash, SnapshotIsolation, CallOK, SnapOK, WriterOK, Open
  <1>4. UniqueSlugs' /\ AnsweredSlugIsLive'
    BY DEF IInv, Crash, UniqueSlugs, AnsweredSlugIsLive, Known
  <1> QED
    BY <1>2, <1>3, <1>4 DEF IInv
-----------------------------------------------------------------------------
LEMMA NextInv == IInv /\ [Next]_vars => IInv'
  <1> SUFFICES ASSUME IInv, [Next]_vars PROVE IInv'
    OBVIOUS
  <1>1. CASE UNCHANGED vars
    BY <1>1 DEF IInv, vars, TypeOK, SnapshotIsolation, CallOK, SnapOK, WriterOK,
                Open, customer, Taken, Known, UniqueSlugs, AnsweredSlugIsLive
  <1>2. CASE Crash
    BY <1>2, CrashInv
  <1>3. ASSUME NEW h \in Handlers, NEW request \in Call, Invoke(h, request)
        PROVE  IInv'
    BY <1>3, InvokeInv
  <1>4. ASSUME NEW h \in Handlers, Step(h) PROVE IInv'
    <2>1. CASE Lookup(h)
      BY <2>1, LookupInv
    <2>2. CASE Update(h)
      BY <2>2, UpdateInv
    <2>3. CASE InsertFresh(h)
      BY <2>3, InsertFreshInv
    <2>4. CASE InsertTaken(h)
      BY <2>4, InsertTakenInv
    <2>5. CASE SlugExhausted(h)
      BY <2>5, RollbackInv DEF SlugExhausted, Locations
    <2>6. CASE Busy(h)
      BY <2>6, RollbackInv DEF Busy, Locations, Failures
    <2>7. CASE Commit(h)
      BY <2>7, CommitInv
    <2>8. CASE BySlug(h)
      BY <2>8, BySlugInv
    <2>9. CASE Return(h)
      BY <2>9, ReturnInv
    <2> QED
      BY <1>4, <2>1, <2>2, <2>3, <2>4, <2>5, <2>6, <2>7, <2>8, <2>9 DEF Step
  <1>5. ASSUME NEW h \in Handlers, Abort(h) PROVE IInv'
    BY <1>5, RollbackInv DEF Abort, Locations, Failures, Open
  <1> QED
    BY <1>1, <1>2, <1>3, <1>4, <1>5 DEF Next

\* IInv holds in every reachable state of SQLiteStore.
THEOREM Invariance == Spec => []IInv
  <1> QED
    BY InitInv, NextInv, PTL DEF Spec

\* Every variable keeps its type: no handler makes more than maxSlugAttempts
\* attempts, and what is stored is always a whole row.
THEOREM TypeCorrect == Spec => []TypeOK
  <1>1. IInv => TypeOK
    BY DEF IInv
  <1> QED
    BY <1>1, Invariance, PTL

\* Whatever the handlers interleave, two customers never share a slug.
THEOREM SlugsAreUnique == Spec => []UniqueSlugs
  <1>1. IInv => UniqueSlugs
    BY DEF IInv
  <1> QED
    BY <1>1, Invariance, PTL

\* A transaction that can still commit works on the committed rows.
THEOREM Isolated == Spec => []SnapshotIsolation
  <1>1. IInv => SnapshotIsolation
    BY DEF IInv
  <1> QED
    BY <1>1, Invariance, PTL

\* The slug a caller is given is the slug its customer's board is stored under.
THEOREM AnswersAreLive == Spec => []AnsweredSlugIsLive
  <1>1. IInv => AnsweredSlugIsLive
    BY DEF IInv
  <1> QED
    BY <1>1, Invariance, PTL
-----------------------------------------------------------------------------
\* Only a commit changes the rows.
LEMMA OnlyCommitWrites ==
    ASSUME [Next]_vars
    PROVE  UNCHANGED rows \/ \E h \in Handlers : Commit(h)
  BY DEF vars, Next, Step, Crash, Invoke, Lookup, Update, InsertFresh,
         InsertTaken, SlugExhausted, Busy, Abort, Rollback, BySlug, Return

\* A commit changes its customer's row only, and keeps the slug of a row.
LEMMA CommitKeeps ==
    ASSUME IInv, NEW h \in Handlers, Commit(h)
    PROVE  /\ writer = h
           /\ \A c \in Customers : rows'[c] # rows[c] => c = customer(h)
           /\ \A c \in Known(rows) : c \in Known(rows') /\ rows'[c].slug = rows[c].slug
  <1>1. \A c \in Customers : c # customer(h) => rows'[c] = rows[c]
    BY CommitWritesOneRow DEF IInv, TypeOK, Table
  <1>2. rows[customer(h)] # NoRow =>
           rows'[customer(h)] # NoRow /\ rows'[customer(h)].slug = rows[customer(h)].slug
    BY CommitWritesOneRow, TakenMeaning DEF IInv, TypeOK, Table
  <1> QED
    BY <1>1, <1>2, CommitWritesOneRow DEF Known

\* A board keeps its slug for ever: no interleaving of pushes, failures and
\* crashes changes or loses it.
THEOREM SlugsAreStable == Spec => SlugStable
  <1>1. IInv /\ [Next]_vars =>
          [\A c \in Known(rows) :
              c \in Known(rows') /\ rows'[c].slug = rows[c].slug]_vars
    <2> SUFFICES ASSUME IInv, [Next]_vars
                 PROVE  \A c \in Known(rows) :
                           c \in Known(rows') /\ rows'[c].slug = rows[c].slug
      OBVIOUS
    <2>1. CASE UNCHANGED rows
      BY <2>1 DEF Known
    <2> QED
      BY <2>1, OnlyCommitWrites, CommitKeeps
  <1> QED
    BY <1>1, Invariance, PTL DEF Spec, SlugStable

\* No push is undone by another customer's transaction.
THEOREM NoUpdateIsLost == Spec => NoLostUpdate
  <1>1. IInv /\ [Next]_vars =>
          [\A c \in Customers :
              rows'[c] # rows[c] =>
                 \E h \in Handlers : writer = h /\ customer(h) = c]_vars
    BY OnlyCommitWrites, CommitKeeps
  <1> QED
    BY <1>1, Invariance, PTL DEF Spec, NoLostUpdate
-----------------------------------------------------------------------------
\* The refinement of BoardStore: commits map to Update and Insert, the other
\* ends of a call to Exhaust, Fail, Find and Return, all else to stuttering.

\* Both specifications speak the language of Board.
LEMMA Vocabulary ==
    /\ Store!EmptyTable = EmptyTable
    /\ Store!Call = Call
    /\ Store!Failures = Failures
    /\ \A t : Store!Known(t) = Known(t) /\ Store!Taken(t) = Taken(t)
    /\ \A s, v : Store!RowOf(s, v) = RowOf(s, v)
    /\ \A s, b : Store!Stored(s, b) = Stored(s, b)
    /\ \A c, r : Store!Found(c, r) = Found(c, r)
    /\ \A e : Store!Error(e) = Error(e)
  BY DEF EmptyTable, Call, UpsertCall, BySlugCall, View, Failures, Known, Taken,
         RowOf, Stored, Found, Error,
         Store!EmptyTable, Store!Call, Store!UpsertCall, Store!BySlugCall,
         Store!View, Store!Failures, Store!Known, Store!Taken, Store!RowOf,
         Store!Stored, Store!Found, Store!Error

LEMMA InitRefines == Init => Store!Init
  BY Vocabulary DEF Init, Store!Init

LEMMA CommitRefines ==
    ASSUME IInv, NEW h \in Handlers, Commit(h)
    PROVE  Store!Update(h) \/ Store!Insert(h)
  <1> DEFINE c == customer(h)
  <1>1. /\ c \in Customers /\ call[h] \in UpsertCall /\ slug[h] \in Slugs
        /\ rows' = [rows EXCEPT ![c] = RowOf(slug[h], call[h].view)]
        /\ \/ pc[h] = "updated" /\ rows[c] # NoRow /\ rows[c].slug = slug[h]
           \/ pc[h] = "inserted" /\ rows[c] = NoRow /\ slug[h] \notin Taken(rows)
    BY CommitWritesOneRow
  <1>2. Store!Pending(h, "upsert")
    BY <1>1, CallType DEF Store!Pending, IInv, SnapshotIsolation, CallOK, Commit
  <1>3. answer' = [answer EXCEPT ![h] = Stored(slug[h], pc[h] = "inserted")]
        /\ UNCHANGED call
    BY DEF Commit, Finish
  <1>4. CASE pc[h] = "updated"
    BY <1>1, <1>2, <1>3, <1>4, Vocabulary DEF Store!Update, Store!Answered, customer
  <1>5. CASE pc[h] = "inserted"
    BY <1>1, <1>2, <1>3, <1>5, Vocabulary DEF Store!Insert, Store!Answered, customer
  <1> QED
    BY <1>1, <1>4, <1>5

LEMMA RollbackRefines ==
    ASSUME IInv, NEW h \in Handlers, NEW e \in Failures,
           pc[h] \notin {"idle", "done"}, Rollback(h, e)
    PROVE  Store!Fail(h)
  BY Vocabulary
     DEF Rollback, Finish, Store!Fail, Store!Answered, IInv, SnapshotIsolation, CallOK

LEMMA SlugExhaustedRefines ==
    ASSUME IInv, NEW h \in Handlers, SlugExhausted(h)
    PROVE  Store!Exhaust(h)
  <1>1. CallOK(h) /\ SnapOK(h) /\ WriterOK(h)
    BY DEF IInv, SnapshotIsolation
  <1>2. h \notin stale
    BY <1>1 DEF SlugExhausted, CanWrite, WriterOK
  <1>3. Taken(rows) # {} /\ rows[customer(h)] = NoRow
    BY <1>1, <1>2 DEF SnapOK, SlugExhausted
  <1>4. Store!Pending(h, "upsert")
    BY <1>1, CallType DEF Store!Pending, CallOK, SlugExhausted, Open
  <1> QED
    BY <1>3, <1>4, Vocabulary DEF SlugExhausted, Rollback, Finish, Store!Exhaust,
                      Store!Answered, customer

LEMMA BySlugRefines ==
    ASSUME IInv, NEW h \in Handlers, BySlug(h)
    PROVE  Store!Find(h)
  <1>1. Store!Pending(h, "bySlug")
    BY CallType DEF Store!Pending, IInv, SnapshotIsolation, CallOK, BySlug
  <1> QED
    BY <1>1, Vocabulary DEF BySlug, Finish, Store!Find, Store!Answered

LEMMA StepRefines ==
    IInv /\ [Next]_vars => [Store!Next]_(Store!vars)
  <1> SUFFICES ASSUME IInv, [Next]_vars PROVE [Store!Next]_(Store!vars)
    OBVIOUS
  <1>1. CASE UNCHANGED vars
    BY <1>1 DEF vars, Store!vars
  <1>2. CASE Crash
    BY <1>2 DEF Crash, Store!Crash, Store!Next
  <1>3. ASSUME NEW h \in Handlers, NEW request \in Call, Invoke(h, request)
        PROVE  Store!Next
    <2>1. Store!Invoke(h, request)
      BY <1>3 DEF Invoke, Store!Invoke, IInv, SnapshotIsolation, CallOK
    <2> QED
      BY <2>1, Vocabulary DEF Store!Next
  <1>4. ASSUME NEW h \in Handlers, Step(h) PROVE [Store!Next]_(Store!vars)
    <2>1. CASE Lookup(h) \/ Update(h) \/ InsertFresh(h) \/ InsertTaken(h)
      BY <2>1 DEF Lookup, Update, InsertFresh, InsertTaken, Store!vars
    <2>2. CASE SlugExhausted(h)
      BY <2>2, SlugExhaustedRefines DEF Store!Next
    <2>3. CASE Busy(h)
      <3>1. Store!Fail(h)
        BY <2>3, RollbackRefines DEF Busy, Failures
      <3> QED
        BY <3>1 DEF Store!Next
    <2>4. CASE Commit(h)
      BY <2>4, CommitRefines DEF Store!Next
    <2>5. CASE BySlug(h)
      BY <2>5, BySlugRefines DEF Store!Next
    <2>6. CASE Return(h)
      <3>1. Store!Return(h)
        BY <2>6 DEF Return, Store!Return, IInv, SnapshotIsolation, CallOK
      <3> QED
        BY <3>1 DEF Store!Next
    <2> QED
      BY <1>4, <2>1, <2>2, <2>3, <2>4, <2>5, <2>6 DEF Step
  <1>5. ASSUME NEW h \in Handlers, Abort(h) PROVE Store!Next
    <2>1. Store!Fail(h)
      BY <1>5, RollbackRefines DEF Abort, Failures, Open
    <2> QED
      BY <2>1 DEF Store!Next
  <1> QED
    BY <1>1, <1>2, <1>3, <1>4, <1>5 DEF Next

\* The SQLite store keeps the promises of the Store interface.
THEOREM Implements == Spec => StoreSpec
  <1> QED
    BY InitRefines, StepRefines, Invariance, PTL DEF Spec, StoreSpec, Store!Spec

\* created is true for exactly one of the pushes that make a board.
THEOREM CreatedIsTrueAlways == Spec => CreatedIsTrue
  <1>1. IInv /\ [Next]_vars =>
          [\A h \in Handlers :
              answer[h] = NoAnswer /\ answer'[h] # NoAnswer
                 /\ answer'[h].code = "stored"
              => (answer'[h].created <=> rows[customer(h)] = NoRow)]_vars
    <2> SUFFICES ASSUME IInv, [Next]_vars, NEW h \in Handlers,
                        answer[h] = NoAnswer, answer'[h] # NoAnswer,
                        answer'[h].code = "stored"
                 PROVE  answer'[h].created <=> rows[customer(h)] = NoRow
      OBVIOUS
    <2>1. [Store!Next]_(Store!vars)
      BY StepRefines
    <2>2. answer' # answer
      OBVIOUS
    <2>3. PICK g \in Handlers : 
             Store!Update(g) \/ Store!Insert(g) \/ Store!Exhaust(g) \/ Store!Find(g)
             \/ Store!Fail(g) \/ Store!Return(g)
      BY <2>1, <2>2 DEF Store!Next, Store!vars, Store!Crash, Store!Invoke
    <2>4. g = h
      BY <2>3 DEF Store!Update, Store!Insert, Store!Exhaust, Store!Find, Store!Fail,
                  Store!Return, Store!Answered, IInv, TypeOK
    <2>5. CASE Store!Update(h)
      <3>1. rows[customer(h)] # NoRow
            /\ answer'[h] = Stored(rows[customer(h)].slug, FALSE)
        BY <2>5, Vocabulary DEF Store!Update, Store!Answered, customer, IInv, TypeOK
      <3>2. answer'[h].created = FALSE
        BY <3>1 DEF Stored
      <3> QED
        BY <3>1, <3>2
    <2>6. CASE Store!Insert(h)
      <3>1. PICK s : rows[customer(h)] = NoRow /\ answer'[h] = Stored(s, TRUE)
        BY <2>6, Vocabulary DEF Store!Insert, Store!Answered, customer, IInv, TypeOK
      <3>2. answer'[h].created = TRUE
        BY <3>1 DEF Stored
      <3> QED
        BY <3>1, <3>2
    <2>7. ~(Store!Exhaust(h) \/ Store!Find(h) \/ Store!Fail(h) \/ Store!Return(h))
      BY Vocabulary DEF Store!Exhaust, Store!Find, Store!Fail, Store!Return,
                        Store!Answered, Found, Error, Failures, IInv, TypeOK
    <2> QED
      BY <2>3, <2>4, <2>5, <2>6, <2>7
  <1> QED
    BY <1>1, Invariance, PTL DEF Spec, CreatedIsTrue
-----------------------------------------------------------------------------
\* How many steps a handler has before it at most, until its caller has the answer.
Remaining(h) ==
    CASE pc[h] = "idle" -> 0
      [] pc[h] = "done" -> 1
      [] pc[h] \in {"query", "updated", "inserted"} -> 2
      [] pc[h] = "update" -> 3
      [] pc[h] = "insert" -> 2 + MaxSlugAttempts - attempt[h]
      [] pc[h] = "begin" -> 3 + MaxSlugAttempts

\* Every statement of a call brings it nearer to its end, and nothing that others
\* do throws it back: no handler retries, or waits in a loop, for the lock.
CallsAreShort ==
    [][\A h \in Handlers :
          /\ Step(h) => Remaining(h)' < Remaining(h)
          /\ call[h] # NoCall => Remaining(h)' <= Remaining(h)]_vars

LEMMA RemainingType ==
    ASSUME TypeOK, NEW h \in Handlers
    PROVE  /\ Remaining(h) \in 0 .. MaxSlugAttempts + 3
           /\ Remaining(h) = 0 <=> pc[h] = "idle"
           /\ pc[h] = "insert" => Remaining(h) >= 3
  <1>1. pc[h] \in Locations /\ attempt[h] \in 0 .. MaxSlugAttempts - 1
    BY DEF TypeOK
  <1> QED
    BY <1>1, MaxSlugAttemptsAssumption DEF Remaining, Locations

\* The same of all handlers, so that it can be used of the next state as well.
RemainingOK == \A h \in Handlers : Remaining(h) \in 0 .. MaxSlugAttempts + 3

LEMMA RemainingIsSmall == TypeOK => RemainingOK
  BY RemainingType DEF RemainingOK

\* A return from Upsert or BySlug, with whatever answer.
LEMMA FinishRemaining ==
    ASSUME TypeOK, NEW h \in Handlers, NEW a, Finish(h, a),
           pc[h] \notin {"idle", "done"}
    PROVE  Remaining(h)' < Remaining(h)
  <1>1. pc[h] \in Locations /\ attempt[h] \in 0 .. MaxSlugAttempts - 1
    BY DEF TypeOK
  <1>2. pc'[h] = "done"
    BY DEF Finish, Goto, TypeOK
  <1> QED
    BY <1>1, <1>2, MaxSlugAttemptsAssumption DEF Remaining, Locations

\* A statement of a call.
LEMMA StepRemaining ==
    ASSUME TypeOK, NEW h \in Handlers, Step(h)
    PROVE  Remaining(h)' < Remaining(h)
  <1>1. /\ pc[h] \in Locations /\ attempt[h] \in 0 .. MaxSlugAttempts - 1
        /\ pc \in [Handlers -> Locations]
        /\ attempt \in [Handlers -> 0 .. MaxSlugAttempts - 1]
    BY DEF TypeOK
  <1>2. CASE Lookup(h)
    <2>1. pc[h] = "begin" /\ pc'[h] \in {"update", "insert"} /\ attempt'[h] = attempt[h]
      BY <1>1, <1>2 DEF Lookup, Goto
    <2> QED
      BY <1>1, <2>1, MaxSlugAttemptsAssumption DEF Remaining
  <1>3. CASE Update(h) \/ InsertFresh(h)
    <2>1. pc[h] \in {"update", "insert"} /\ pc'[h] \in {"updated", "inserted"}
      BY <1>1, <1>3 DEF Update, InsertFresh, Goto
    <2> QED
      BY <1>1, <2>1, MaxSlugAttemptsAssumption DEF Remaining
  <1>4. CASE InsertTaken(h)
    <2>1. pc[h] = "insert" /\ pc'[h] = "insert" /\ attempt'[h] = attempt[h] + 1
      BY <1>1, <1>4 DEF InsertTaken
    <2> QED
      BY <1>1, <2>1, MaxSlugAttemptsAssumption DEF Remaining
  <1>5. CASE SlugExhausted(h) \/ Busy(h) \/ Commit(h) \/ BySlug(h)
    <2>1. pc[h] \notin {"idle", "done"} /\ \E a : Finish(h, a)
      BY <1>5 DEF SlugExhausted, Busy, Commit, BySlug, Rollback
    <2> QED
      BY <2>1, FinishRemaining
  <1>6. CASE Return(h)
    <2>1. pc[h] = "done" /\ pc'[h] = "idle"
      BY <1>1, <1>6 DEF Return, Goto
    <2> QED
      BY <2>1 DEF Remaining
  <1> QED
    BY <1>2, <1>3, <1>4, <1>5, <1>6 DEF Step

\* What a handler's statements leave of the others.
LEMMA OthersStay ==
    ASSUME TypeOK, NEW h \in Handlers, NEW g \in Handlers \ {h},
           \/ Step(g) \/ Abort(g)
           \/ \E request \in Call : Invoke(g, request)
    PROVE  pc'[h] = pc[h] /\ attempt'[h] = attempt[h]
  BY DEF TypeOK, Step, Lookup, Update, InsertFresh, InsertTaken, SlugExhausted, Busy,
         Abort, Commit, BySlug, Return, Invoke, Rollback, Finish, Goto

\* An Upsert ends after MaxSlugAttempts + 3 steps of its handler at the latest, a
\* BySlug after two, whatever the other handlers do meanwhile.  (That a step is
\* always possible is not said here.)
THEOREM CallsAreShortAlways == Spec => CallsAreShort
  <1>1. IInv /\ [Next]_vars =>
          [\A h \in Handlers :
              /\ Step(h) => Remaining(h)' < Remaining(h)
              /\ call[h] # NoCall => Remaining(h)' <= Remaining(h)]_vars
    <2> SUFFICES ASSUME IInv, Next, NEW h \in Handlers
                 PROVE  /\ Step(h) => Remaining(h)' < Remaining(h)
                        /\ call[h] # NoCall => Remaining(h)' <= Remaining(h)
      OBVIOUS
    <2>1. TypeOK /\ TypeOK'
      BY NextInv DEF IInv
    <2>2. Step(h) => Remaining(h)' < Remaining(h)
      BY <2>1, StepRemaining
    <2>3. Remaining(h) \in Nat /\ Remaining(h)' \in Nat
      <3>1. Remaining(h) \in 0 .. MaxSlugAttempts + 3
        BY <2>1, RemainingType
      <3>2. Remaining(h)' \in 0 .. MaxSlugAttempts + 3
        <4>1. RemainingOK'
          BY <2>1, RemainingIsSmall, PTL
        <4> QED
          BY <4>1 DEF RemainingOK
      <3> QED
        BY <3>1, <3>2, MaxSlugAttemptsAssumption
    <2>4. ASSUME call[h] # NoCall PROVE Remaining(h)' <= Remaining(h)
      <3>1. pc[h] # "idle"
        BY <2>4 DEF IInv, SnapshotIsolation, CallOK
      <3>2. CASE Crash
        <4>1. Remaining(h)' = 0
          BY <3>2 DEF Crash, Remaining
        <4> QED
          BY <2>3, <4>1
      <3>3. CASE Step(h)
        BY <2>2, <2>3, <3>3
      <3>4. CASE Abort(h)
        <4>1. pc[h] # "done" /\ \E a : Finish(h, a)
          BY <3>4 DEF Abort, Rollback, Open
        <4>2. Remaining(h)' < Remaining(h)
          BY <2>1, <3>1, <4>1, FinishRemaining
        <4> QED
          BY <2>3, <4>2
      <3>5. ASSUME NEW g \in Handlers \ {h},
                   Step(g) \/ Abort(g) \/ \E request \in Call : Invoke(g, request)
            PROVE  Remaining(h)' <= Remaining(h)
        <4>1. Remaining(h)' = Remaining(h)
          BY <2>1, <3>5, OthersStay DEF Remaining
        <4> QED
          BY <2>3, <4>1
      <3>6. ~ \E request \in Call : Invoke(h, request)
        BY <3>1 DEF Invoke
      <3> QED
        BY <3>2, <3>3, <3>4, <3>5, <3>6 DEF Next
    <2> QED
      BY <2>2, <2>4
  <1> QED
    BY <1>1, Invariance, PTL DEF Spec, CallsAreShort
=============================================================================
