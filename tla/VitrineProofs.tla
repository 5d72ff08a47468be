---------------------------- MODULE VitrineProofs ----------------------------
(***************************************************************************)
(* Proofs about Vitrine, for any number of handlers, customers, versions   *)
(* and faults.  What a push does to the rows is a step of SQLiteStore, so  *)
(* its inductive invariant IInv holds here; on top of it VInv relates the  *)
(* rows to what workflows were told: who is connected (ConnOK), that an    *)
(* open push is the last one of its workflow (PushOK), which answers with  *)
(* created: true are still on their way (NewsOK), and, as long as nobody   *)
(* has given up, that what was stored last is what was sent (ShownOK).     *)
(***************************************************************************)
EXTENDS Vitrine, SQLiteStoreProofs

\* The types of the variables of the service.
VType ==
    /\ phase \in {"serving", "draining", "down"}
    /\ conn \in [Handlers -> {"none", "open", "abandoned"}]
    /\ sent \in [Customers -> 0 .. LastVersion]
    /\ acked \in [Customers -> 0 .. LastVersion]
    /\ told \in [Customers -> Slugs \cup {NoSlug}]
    /\ news \in [Customers -> Nat]
    /\ faults \in [crash : Nat, stop : Nat, timeout : Nat, giveUp : Nat, failure : Nat]

\* A handler has a connection exactly while it is in a call; a process that is
\* down has none.
ConnOK ==
    /\ \A h \in Handlers : conn[h] = "none" <=> pc[h] = "idle"
    /\ phase = "down" => \A h \in Handlers : conn[h] = "none"

\* A handler that works on a push of the customer, and one whose client waits.
Pushed(h, c) == call[h] \in UpsertCall /\ customer(h) = c
Pushing(h, c) == conn[h] = "open" /\ Pushed(h, c)

\* A workflow has one push open, and no push is newer than what it sent last.
PushOK ==
    \A c \in Customers :
        /\ acked[c] <= sent[c]
        /\ \A h \in Handlers : Pushed(h, c) => call[h].view.body <= sent[c]
        /\ \A h \in Handlers : Pushing(h, c) => call[h].view.body = sent[c]
        /\ \A h, g \in Handlers : Pushing(h, c) /\ Pushing(g, c) => h = g

\* A handler that is about to answer "stored", and one that adds created: true.
Answered(h, c) == pc[h] = "done" /\ answer[h].code = "stored" /\ customer(h) = c
Announces(h, c) == Answered(h, c) /\ answer[h].created

\* created: true is on its way at most once, and only until it is heard.
NewsOK ==
    \A c \in Customers :
        /\ news[c] \in {0, 1}
        /\ news[c] = 1 => rows[c] # NoRow
        /\ \A h \in Handlers : Announces(h, c) => rows[c] # NoRow /\ news[c] = 0
        /\ \A h, g \in Handlers : Announces(h, c) /\ Announces(g, c) => h = g

\* The board shows what its workflow sent last.
Shows(c) == rows[c] # NoRow /\ rows[c].body = sent[c]

\* As long as nobody has given up, every answer "stored", on its way or heard
\* and not outdated, is about the version the board shows.
ShownOK ==
    faults.giveUp = 0 =>
        /\ \A h \in Handlers : conn[h] # "abandoned"
        /\ \A h \in Handlers, c \in Customers : Answered(h, c) => Shows(c)
        /\ \A c \in Customers : acked[c] # 0 /\ acked[c] = sent[c] => Shows(c)

VInv == IInv /\ VType /\ ConnOK /\ PushOK /\ ToldUrlServes /\ NewsOK /\ ShownOK
-----------------------------------------------------------------------------
\* A statement of a handler, or an error, that commits nothing: a successful
\* answer does not come from it.
Quietly(h) ==
    /\ UNCHANGED <<rows, call>>
    /\ pc[h] \notin {"idle", "done"}
    /\ pc'[h] # "idle"
    /\ pc'[h] = "done" => answer'[h].code # "stored"
    /\ \A g \in Handlers \ {h} : pc'[g] = pc[g] /\ answer'[g] = answer[g]

\* Every error path of Upsert and BySlug is quiet.
LEMMA RollbackIsQuiet ==
    ASSUME IInv, NEW h \in Handlers, NEW e \in Failures \cup {"slug_exhausted"},
           pc[h] \notin {"idle", "done"}, Rollback(h, e)
    PROVE  Quietly(h)
  BY AnswerType, ErrorIsNotStored
     DEF Rollback, Finish, Goto, Quietly, IInv, TypeOK

\* A step of a handler is quiet or the commit.
LEMMA WorkShape ==
    ASSUME IInv, NEW h \in Handlers, Work(h) \/ Fail(h)
    PROVE  Quietly(h) \/ Commit(h)
  <1>1. CASE Lookup(h)
    BY <1>1 DEF Lookup, Goto, Quietly, IInv, TypeOK
  <1>2. CASE Update(h)
    BY <1>2 DEF Update, Goto, Quietly, IInv, TypeOK
  <1>3. CASE InsertFresh(h)
    BY <1>3 DEF InsertFresh, Goto, Quietly, IInv, TypeOK
  <1>4. CASE InsertTaken(h)
    BY <1>4 DEF InsertTaken, Quietly, IInv, TypeOK
  <1>5. CASE SlugExhausted(h)
    BY <1>5, RollbackIsQuiet DEF SlugExhausted
  <1>6. CASE Busy(h)
    BY <1>6, RollbackIsQuiet DEF Busy, Failures
  <1>7. CASE BySlug(h)
    <2>1. PICK a : a.code # "stored" /\ Finish(h, a) /\ UNCHANGED rows
      BY <1>7, AnswerType DEF BySlug, Found, Error
    <2> QED
      BY <1>7, <2>1 DEF BySlug, Finish, Goto, Quietly, IInv, TypeOK
  <1>8. CASE Abort(h)
    BY <1>8, RollbackIsQuiet DEF Abort, Failures, Open
  <1> QED
    BY <1>1, <1>2, <1>3, <1>4, <1>5, <1>6, <1>7, <1>8 DEF Work, Fail

\* What the commit of a push does to the row of its customer, which is created
\* exactly if the answer says so, and to nothing else.
LEMMA CommitShape ==
    ASSUME IInv, NEW h \in Handlers, Commit(h)
    PROVE  /\ customer(h) \in Customers /\ call[h] \in UpsertCall /\ UNCHANGED call
           /\ pc[h] \in {"updated", "inserted"} /\ pc'[h] = "done"
           /\ rows' = [rows EXCEPT ![customer(h)] = RowOf(slug[h], call[h].view)]
           /\ rows'[customer(h)] # NoRow
           /\ rows'[customer(h)].slug = slug[h]
           /\ rows'[customer(h)].body = call[h].view.body
           /\ answer'[h].code = "stored" /\ answer'[h].slug = slug[h]
           /\ answer'[h].created <=> rows[customer(h)] = NoRow
           /\ slug[h] \in Slugs
           /\ rows[customer(h)] # NoRow => rows[customer(h)].slug = slug[h]
           /\ \A g \in Handlers \ {h} : pc'[g] = pc[g] /\ answer'[g] = answer[g]
  <1>1. /\ customer(h) \in Customers /\ call[h] \in UpsertCall /\ slug[h] \in Slugs
        /\ rows' = [rows EXCEPT ![customer(h)] = RowOf(slug[h], call[h].view)]
    BY CommitWritesOneRow
  <1>2. /\ RowOf(slug[h], call[h].view) # NoRow
        /\ RowOf(slug[h], call[h].view).slug = slug[h]
        /\ RowOf(slug[h], call[h].view).body = call[h].view.body
    BY <1>1, CallType, RowOfType DEF RowOf
  <1>3. rows'[customer(h)] = RowOf(slug[h], call[h].view)
    BY <1>1 DEF IInv, TypeOK, Table
  <1>4. /\ pc[h] = "inserted" <=> rows[customer(h)] = NoRow
        /\ rows[customer(h)] # NoRow => rows[customer(h)].slug = slug[h]
    BY DEF IInv, SnapshotIsolation, SnapOK, Commit
  <1>5. /\ UNCHANGED call
        /\ pc[h] \in {"updated", "inserted"} /\ pc'[h] = "done"
        /\ answer'[h] = Stored(slug[h], pc[h] = "inserted")
        /\ \A g \in Handlers \ {h} : pc'[g] = pc[g] /\ answer'[g] = answer[g]
    BY DEF Commit, Finish, Goto, IInv, TypeOK
  <1>6. /\ answer'[h].code = "stored" /\ answer'[h].slug = slug[h]
        /\ answer'[h].created <=> pc[h] = "inserted"
    <2>1. CASE pc[h] = "inserted"
      <3>1. answer'[h] = Stored(slug[h], TRUE)
        BY <1>5, <2>1
      <3>2. /\ answer'[h].code = "stored" /\ answer'[h].slug = slug[h]
            /\ answer'[h].created = TRUE
        BY <3>1 DEF Stored
      <3> QED
        BY <2>1, <3>2
    <2>2. CASE pc[h] # "inserted"
      <3>1. answer'[h] = Stored(slug[h], FALSE)
        BY <1>5, <2>2
      <3>2. /\ answer'[h].code = "stored" /\ answer'[h].slug = slug[h]
            /\ answer'[h].created = FALSE
        BY <3>1 DEF Stored
      <3> QED
        BY <2>2, <3>2
    <2> QED
      BY <2>1, <2>2
  <1> QED
    BY <1>1, <1>2, <1>3, <1>4, <1>5, <1>6
-----------------------------------------------------------------------------
\* A service that has just been installed is in order.
LEMMA VitrineInitInv == VitrineInit => VInv
  <1> SUFFICES ASSUME VitrineInit PROVE VInv
    OBVIOUS
  <1>1. IInv
    BY InitInv DEF VitrineInit
  <1>2. VType
    BY VersionsAssumption DEF VitrineInit, VType
  <1>3. ConnOK /\ PushOK /\ ToldUrlServes
    BY <1>2, CallType DEF VitrineInit, Init, VType, ConnOK, PushOK, Pushing, Pushed, ToldUrlServes
  <1>4. NewsOK /\ ShownOK
    BY DEF VitrineInit, Init, NewsOK, ShownOK, Announces, Answered
  <1> QED
    BY <1>1, <1>2, <1>3, <1>4 DEF VInv

\* Whatever happens to the service, the store takes a step of its own.
LEMMA StoreStep ==
    ASSUME VInv, [VitrineNext]_allVars
    PROVE  [Next]_vars
  <1>1. CASE UNCHANGED allVars
    BY <1>1 DEF allVars
  <1>2. ASSUME NEW h \in Handlers, NEW c \in Customers, Visit(c, h) PROVE Next
    <2>1. [op |-> "bySlug", slug |-> told[c]] \in Call
      BY <1>2 DEF Visit, VInv, VType, Call, BySlugCall
    <2> QED
      BY <1>2, <2>1 DEF Visit, Next
  <1>3. ASSUME NEW h \in Handlers, NEW c \in Customers, NEW v \in Bodies, Send(c, h, v)
        PROVE  Next
    <2>1. [op |-> "upsert", customer |-> c, view |-> [body |-> v, language |-> English]]
             \in Call
      BY LanguagesAssumption DEF Call, UpsertCall, View
    <2> QED
      BY <1>3, <2>1 DEF Send, Next
  <1>4. ASSUME NEW h \in Handlers, Work(h) \/ Fail(h) \/ Respond(h) PROVE Next
    BY <1>4 DEF Work, Fail, Respond, Next, Step
  <1>5. CASE Kill \/ DrainTimeout
    BY <1>5 DEF Kill, DrainTimeout, Exit, Next
  <1>6. CASE Stop \/ Close \/ Restart \/ \E h \in Handlers : GiveUp(h)
    BY <1>6 DEF Stop, Close, Restart, GiveUp
  <1> QED
    BY <1>1, <1>2, <1>3, <1>4, <1>5, <1>6 DEF VitrineNext

\* An answer "stored" belongs to a push, and whoever still waits for it has
\* sent nothing since.
LEMMA AnsweredIsPush ==
    ASSUME VInv, NEW h \in Handlers, NEW c \in Customers, Answered(h, c)
    PROVE  /\ call[h] \in UpsertCall /\ conn[h] # "none"
           /\ conn[h] = "open" => Pushing(h, c)
           /\ answer[h] # NoAnswer
  BY DEF VInv, IInv, SnapshotIsolation, CallOK, ConnOK, Answered, Pushing, Pushed
-----------------------------------------------------------------------------
\* What a step must keep besides IInv.
Kept == VType' /\ ConnOK' /\ PushOK' /\ ToldUrlServes' /\ NewsOK' /\ ShownOK'

\* A failing statement may count as a fault; a client that gives up is another.
LEMMA QuietKeeps ==
    ASSUME VInv, NEW h \in Handlers, Quietly(h), UNCHANGED <<phase, conn, sent, acked, told, news>>,
           VType', faults'.giveUp = faults.giveUp
    PROVE  Kept
  <1>1. ConnOK'
    BY DEF VInv, ConnOK, Quietly
  <1>2. PushOK' /\ ToldUrlServes'
    BY DEF VInv, PushOK, Pushing, Pushed, ToldUrlServes, customer, Quietly
  <1>3. \A g \in Handlers, c \in Customers :
          /\ Answered(g, c)' => Answered(g, c)
          /\ Announces(g, c)' => Announces(g, c)
    BY DEF Answered, Announces, customer, Quietly
  <1>4. NewsOK'
    BY <1>3 DEF VInv, NewsOK, Quietly
  <1>5. ShownOK'
    BY <1>3 DEF VInv, ShownOK, Shows, Quietly
  <1> QED
    BY <1>1, <1>2, <1>4, <1>5 DEF Kept

\* A commit: the board it makes has not been announced, and while nobody has
\* given up the version it stores is the one its workflow waits for.
LEMMA CommitKeepsPromises ==
    ASSUME VInv, NEW h \in Handlers, Commit(h), UNCHANGED service
    PROVE  Kept
  <1>0. PICK c \in Customers : c = customer(h)
    BY CommitShape DEF VInv
  <1>1. /\ call[h] \in UpsertCall /\ UNCHANGED call
        /\ pc[h] \in {"updated", "inserted"} /\ pc'[h] = "done"
        /\ rows'[c] # NoRow /\ rows'[c].slug = slug[h]
        /\ rows'[c].body = call[h].view.body
        /\ answer'[h].created <=> rows[c] = NoRow
        /\ rows[c] # NoRow => rows[c].slug = slug[h]
        /\ \A g \in Handlers \ {h} : pc'[g] = pc[g] /\ answer'[g] = answer[g]
    BY <1>0, CommitShape DEF VInv
  <1>2. \A d \in Customers \ {c} : rows'[d] = rows[d]
    BY <1>0, CommitShape DEF VInv, IInv, TypeOK, Table
  <1>3. VType'
    BY DEF VInv, VType, service
  <1>4. ConnOK'
    BY <1>1 DEF VInv, ConnOK, service
  <1>5. PushOK' /\ ToldUrlServes'
    BY <1>0, <1>1, <1>2 DEF VInv, PushOK, Pushing, Pushed, ToldUrlServes, customer, service
  <1>6. \A g \in Handlers \ {h}, d \in Customers :
          /\ Answered(g, d)' <=> Answered(g, d)
          /\ Announces(g, d)' <=> Announces(g, d)
    BY <1>0, <1>1 DEF Answered, Announces, customer
  <1>7. \A d \in Customers : Announces(h, d)' => d = c /\ rows[c] = NoRow
    BY <1>0, <1>1 DEF Answered, Announces, customer
  <1>8. NewsOK'
    BY <1>1, <1>2, <1>6, <1>7 DEF VInv, NewsOK, service
  <1>9. ShownOK'
    <2> SUFFICES ASSUME faults.giveUp = 0
                 PROVE  /\ \A g \in Handlers : conn[g] # "abandoned"
                        /\ \A g \in Handlers, d \in Customers : Answered(g, d)' => Shows(d)'
                        /\ \A d \in Customers : acked[d] # 0 /\ acked[d] = sent[d] => Shows(d)'
      BY DEF ShownOK, service
    <2>1. conn[h] = "open"
      BY <1>1 DEF VInv, VType, ConnOK, ShownOK
    <2>2. Shows(c)'
      BY <1>0, <1>1, <2>1 DEF VInv, PushOK, Pushing, Pushed, Shows, service
    <2>3. \A d \in Customers \ {c} : Shows(d)' <=> Shows(d)
      BY <1>2 DEF Shows, service
    <2>4. \A d \in Customers : Answered(h, d)' => d = c
      BY <1>0, <1>1 DEF Answered, customer
    <2> QED
      BY <1>6, <2>2, <2>3, <2>4 DEF VInv, ShownOK
  <1> QED
    BY <1>3, <1>4, <1>5, <1>8, <1>9 DEF Kept

\* A push that is sent: no other push of its workflow is open, and the version
\* it carries has not been acknowledged.
LEMMA SendKeeps ==
    ASSUME VInv, NEW h \in Handlers, NEW c \in Customers, NEW v \in Bodies, Send(c, h, v)
    PROVE  Kept
  <1>1. /\ pc'[h] = "begin" /\ call'[h].op = "upsert" /\ call'[h].customer = c
        /\ call'[h].view.body = v /\ conn'[h] = "open"
        /\ \A g \in Handlers \ {h} :
             pc'[g] = pc[g] /\ call'[g] = call[g] /\ conn'[g] = conn[g]
        /\ UNCHANGED <<rows, answer, phase, acked, told, news, faults>>
    BY DEF Send, Invoke, Goto, VInv, VType, IInv, TypeOK
  <1>2. /\ sent'[c] = v /\ v \in 1 .. LastVersion /\ sent[c] \in Nat
        /\ \A d \in Customers \ {c} : sent'[d] = sent[d]
        /\ v = sent[c] + 1 \/ (v = sent[c] /\ acked[c] # v)
    BY VersionsAssumption DEF Send, VInv, VType
  <1>3. acked[c] <= sent[c] /\ acked[c] \in Nat /\ conn[h] = "none" /\ phase = "serving"
    BY DEF Send, VInv, VType, PushOK
  <1>4. \A g \in Handlers : ~Pushing(g, c)
    BY CallType DEF Send, Quiet, Pushing, Pushed
  <1>5. VType'
    BY VersionsAssumption DEF Send, VInv, VType
  <1>6. ConnOK'
    BY <1>1, <1>3 DEF VInv, ConnOK
  <1>7. \A d \in Customers : Pushed(h, d)' => d = c
    BY <1>1 DEF Pushing, Pushed, customer
  <1>8. \A g \in Handlers \ {h}, d \in Customers :
          /\ Pushed(g, d)' => Pushed(g, d)
          /\ Pushing(g, d)' => Pushing(g, d) /\ d # c
    BY <1>1, <1>4 DEF Pushing, Pushed, customer
  <1>9. PushOK'
    <2> SUFFICES ASSUME NEW d \in Customers
                 PROVE  /\ acked'[d] <= sent'[d]
                        /\ \A g \in Handlers : Pushed(g, d)' => call'[g].view.body <= sent'[d]
                        /\ \A g \in Handlers : Pushing(g, d)' => call'[g].view.body = sent'[d]
                        /\ \A g, k \in Handlers : Pushing(g, d)' /\ Pushing(k, d)' => g = k
      BY DEF PushOK
    <2>1. acked'[d] <= sent'[d]
      BY <1>1, <1>2, <1>3 DEF VInv, PushOK
    <2>2. \A g \in Handlers : Pushing(g, d)' => call'[g].view.body = sent'[d]
      BY <1>1, <1>2, <1>7, <1>8 DEF VInv, PushOK, Pushing
    <2>3. \A g, k \in Handlers : Pushing(g, d)' /\ Pushing(k, d)' => g = k
      BY <1>7, <1>8 DEF VInv, PushOK, Pushing
    <2>4. \A g \in Handlers : Pushed(g, d)' => call'[g].view.body <= sent'[d]
      <3>1. ASSUME Pushed(h, d)' PROVE call'[h].view.body <= sent'[d]
        BY <1>1, <1>2, <1>7, <3>1
      <3>2. ASSUME NEW g \in Handlers \ {h}, Pushed(g, d)'
            PROVE  call'[g].view.body <= sent'[d]
        <4>1. call[g].view.body \in Nat /\ call[g].view.body <= sent[d] /\ sent[d] \in Nat
          BY <1>8, <3>2, CallType, VersionsAssumption DEF VInv, VType, PushOK, Pushed, View
        <4> QED
          BY <1>1, <1>2, <3>2, <4>1
      <3> QED
        BY <3>1, <3>2
    <2> QED
      BY <2>1, <2>2, <2>3, <2>4
  <1>10. \A g \in Handlers, d \in Customers :
           /\ Answered(g, d)' => g # h /\ Answered(g, d)
           /\ Announces(g, d)' => Announces(g, d)
    BY <1>1 DEF Answered, Announces, customer
  <1>11. ToldUrlServes' /\ NewsOK'
    BY <1>1, <1>10 DEF VInv, ToldUrlServes, NewsOK
  <1>12. ShownOK'
    <2> SUFFICES ASSUME faults.giveUp = 0
                 PROVE  /\ \A g \in Handlers : conn'[g] # "abandoned"
                        /\ \A g \in Handlers, d \in Customers : Answered(g, d)' => Shows(d)'
                        /\ \A d \in Customers : acked[d] # 0 /\ acked[d] = sent'[d] => Shows(d)'
      BY <1>1 DEF ShownOK
    <2>1. \A g \in Handlers : ~Answered(g, c)
      BY <1>4, AnsweredIsPush DEF VInv, VType, ShownOK
    <2>2. acked[c] # sent'[c]
      BY <1>2, <1>3
    <2>3. \A d \in Customers \ {c} : Shows(d)' <=> Shows(d)
      BY <1>1, <1>2 DEF Shows
    <2>4. \A g \in Handlers : conn'[g] # "abandoned"
      BY <1>1 DEF VInv, ShownOK
    <2> QED
      BY <1>2, <1>10, <2>1, <2>2, <2>3, <2>4 DEF VInv, ShownOK
  <1> QED
    BY <1>5, <1>6, <1>9, <1>11, <1>12 DEF Kept

\* A visitor's request is no push.
LEMMA VisitKeeps ==
    ASSUME VInv, NEW h \in Handlers, NEW c \in Customers, Visit(c, h)
    PROVE  Kept
  <1>1. /\ pc'[h] = "query" /\ call'[h] \in BySlugCall /\ conn'[h] = "open"
        /\ \A g \in Handlers \ {h} :
             pc'[g] = pc[g] /\ call'[g] = call[g] /\ conn'[g] = conn[g]
        /\ UNCHANGED <<rows, answer, phase, sent, acked, told, news, faults>>
    BY DEF Visit, Invoke, Goto, VInv, VType, IInv, TypeOK, BySlugCall
  <1>2. VType'
    BY DEF Visit, VInv, VType
  <1>3. ConnOK'
    BY <1>1 DEF Visit, VInv, ConnOK
  <1>4. \A g \in Handlers, d \in Customers :
          /\ Pushed(g, d)' => g # h /\ Pushed(g, d)
          /\ Pushing(g, d)' => g # h /\ Pushing(g, d)
          /\ Answered(g, d)' => g # h /\ Answered(g, d)
          /\ Announces(g, d)' => Announces(g, d)
    BY <1>1, CallType DEF Pushing, Pushed, Answered, Announces, customer
  <1>5. PushOK' /\ ToldUrlServes' /\ NewsOK'
    BY <1>1, <1>4 DEF VInv, PushOK, ToldUrlServes, NewsOK
  <1>6. ShownOK'
    BY <1>1, <1>4 DEF VInv, ShownOK, Shows
  <1> QED
    BY <1>2, <1>3, <1>5, <1>6 DEF Kept

\* A response: what the workflow hears is in the rows, and whoever hears
\* created: true is the only one to be told.
LEMMA RespondKeeps ==
    ASSUME VInv, NEW h \in Handlers, Respond(h)
    PROVE  Kept
  <1>1. /\ pc[h] = "done" /\ pc'[h] = "idle" /\ call'[h] = NoCall /\ conn'[h] = "none"
        /\ \A g \in Handlers \ {h} :
             /\ pc'[g] = pc[g] /\ call'[g] = call[g] /\ conn'[g] = conn[g]
             /\ answer'[g] = answer[g]
        /\ UNCHANGED <<rows, phase, sent, faults>>
    BY DEF Respond, Return, Goto, VInv, VType, IInv, TypeOK
  <1>2. ConnOK'
    BY <1>1 DEF VInv, ConnOK
  <1>3. \A g \in Handlers, d \in Customers :
          /\ Pushed(g, d)' => g # h /\ Pushed(g, d)
          /\ Pushing(g, d)' => g # h /\ Pushing(g, d)
          /\ Answered(g, d)' => g # h /\ Answered(g, d)
          /\ Announces(g, d)' => g # h /\ Announces(g, d)
    BY <1>1, CallType DEF Pushing, Pushed, Answered, Announces, customer
  <1>4. CASE ~(conn[h] = "open" /\ answer[h].code = "stored")
    <2>1. UNCHANGED <<acked, told, news>> /\ VType'
      BY <1>4 DEF Respond, VInv, VType
    <2> QED
      BY <1>1, <1>2, <1>3, <2>1
         DEF Kept, VInv, PushOK, ToldUrlServes, NewsOK, ShownOK, Shows
  <1>5. CASE conn[h] = "open" /\ answer[h].code = "stored"
    <2>1. PICK c \in Customers : c = customer(h)
      BY <1>1, <1>5, CallType DEF VInv, IInv, SnapshotIsolation, CallOK, customer
    <2>2. Answered(h, c) /\ Pushing(h, c) /\ (answer[h].created => Announces(h, c))
      BY <1>1, <1>5, <2>1, AnsweredIsPush DEF Answered, Announces
    <2>3. /\ call[h].view.body = sent[c] /\ rows[c] # NoRow
          /\ rows[c].slug = answer[h].slug /\ rows[c].slug \in Slugs
      BY <2>1, <2>2, <1>5, AnsweredIsPush
         DEF VInv, PushOK, IInv, AnsweredSlugIsLive, TypeOK, Table, Row
    <2>4. /\ acked' = [acked EXCEPT ![c] = sent[c]]
          /\ told' = [told EXCEPT ![c] = rows[c].slug]
          /\ news' = [news EXCEPT ![c] = @ + (IF answer[h].created THEN 1 ELSE 0)]
      BY <1>5, <2>1, <2>3 DEF Respond
    <2>5. VType'
      BY <1>1, <2>3, <2>4 DEF Respond, VInv, VType
    <2>6. PushOK'
      BY <1>1, <1>3, <2>4 DEF VInv, VType, PushOK
    <2>7. ToldUrlServes'
      BY <1>1, <2>3, <2>4 DEF VInv, VType, ToldUrlServes
    <2>8. NewsOK'
      BY <1>1, <1>3, <2>2, <2>3, <2>4 DEF VInv, VType, NewsOK
    <2>9. ShownOK'
      BY <1>1, <1>3, <2>2, <2>4 DEF VInv, VType, ShownOK, Shows
    <2> QED
      BY <1>2, <2>5, <2>6, <2>7, <2>8, <2>9 DEF Kept
  <1> QED
    BY <1>4, <1>5

\* A client that gives up ends the promise of ShownOK.
LEMMA GiveUpKeeps ==
    ASSUME VInv, NEW h \in Handlers, GiveUp(h)
    PROVE  Kept
  <1>1. /\ conn[h] = "open" /\ conn' = [conn EXCEPT ![h] = "abandoned"]
        /\ UNCHANGED <<rows, pc, call, answer, phase, sent, acked, told, news>>
    BY DEF GiveUp, vars
  <1>2. VType' /\ faults'.giveUp # 0
    BY <1>1 DEF GiveUp, Fault, VInv, VType
  <1>3. ConnOK'
    BY <1>1 DEF VInv, VType, ConnOK
  <1>4. \A g \in Handlers, c \in Customers :
          /\ Pushed(g, c)' => Pushed(g, c)
          /\ Pushing(g, c)' => Pushing(g, c)
          /\ Announces(g, c)' => Announces(g, c)
    BY <1>1 DEF VInv, VType, Pushing, Pushed, Announces, Answered, customer
  <1>5. PushOK' /\ ToldUrlServes' /\ NewsOK' /\ ShownOK'
    BY <1>1, <1>2, <1>4 DEF VInv, PushOK, customer, ToldUrlServes, NewsOK, ShownOK
  <1> QED
    BY <1>2, <1>3, <1>5 DEF Kept

\* The process is gone: nobody is connected, the rows are what they were.
LEMMA ExitKeeps ==
    ASSUME VInv, Exit("down"), VType', faults'.giveUp = faults.giveUp
    PROVE  Kept
  <1>1. /\ \A h \in Handlers : pc'[h] = "idle" /\ conn'[h] = "none" /\ call'[h] = NoCall
        /\ UNCHANGED <<rows, sent, acked, told, news>>
    BY DEF Exit, Crash
  <1>2. ConnOK' /\ PushOK' /\ ToldUrlServes'
    BY <1>1, CallType DEF VInv, ConnOK, PushOK, Pushing, Pushed, ToldUrlServes
  <1>3. NewsOK' /\ ShownOK'
    BY <1>1 DEF VInv, NewsOK, ShownOK, Announces, Answered, Shows
  <1> QED
    BY <1>2, <1>3 DEF Kept

\* Nothing but the phase changes, and what is down has no connections.
LEMMA PhaseKeeps ==
    ASSUME VInv, Stop \/ Close \/ Restart
    PROVE  Kept
  <1>1. UNCHANGED <<vars, conn, sent, acked, told, news>> /\ faults'.giveUp = faults.giveUp
    BY DEF Stop, Close, Restart, Fault, VInv, VType
  <1>2. VType'
    BY <1>1 DEF Stop, Close, Restart, Fault, VInv, VType
  <1>3. ConnOK'
    BY <1>1 DEF Stop, Close, Restart, VInv, ConnOK, vars
  <1>4. PushOK' /\ ToldUrlServes' /\ NewsOK' /\ ShownOK'
    BY <1>1 DEF vars, VInv, PushOK, Pushing, Pushed, ToldUrlServes, NewsOK, ShownOK,
                Announces, Answered, Shows, customer
  <1> QED
    BY <1>2, <1>3, <1>4 DEF Kept

\* VInv is inductive.
LEMMA VitrineNextInv == VInv /\ [VitrineNext]_allVars => VInv'
  <1> SUFFICES ASSUME VInv, [VitrineNext]_allVars PROVE VInv'
    OBVIOUS
  <1>1. IInv'
    BY StoreStep, NextInv DEF VInv
  <1>2. CASE UNCHANGED allVars
    BY <1>1, <1>2 DEF VInv, allVars, vars, service, VType, ConnOK, PushOK, Pushing, Pushed,
                      ToldUrlServes, NewsOK, ShownOK, Announces, Answered, Shows, customer
  <1>3. ASSUME NEW h \in Handlers, Work(h) PROVE Kept
    <2>1. CASE Quietly(h)
      BY <1>3, <2>1, QuietKeeps DEF Work, service, VInv, VType
    <2> QED
      BY <1>3, <2>1, WorkShape, CommitKeepsPromises DEF Work, VInv
  <1>4. ASSUME NEW h \in Handlers, Fail(h) PROVE Kept
    <2>1. Quietly(h)
      BY <1>4, RollbackIsQuiet DEF Fail, Abort, Failures, Open, VInv
    <2>2. VType' /\ faults'.giveUp = faults.giveUp
      BY <1>4 DEF Fail, Fault, VInv, VType
    <2> QED
      BY <1>4, <2>1, <2>2, QuietKeeps DEF Fail
  <1>5. CASE Kill \/ DrainTimeout
    <2>1. VType' /\ faults'.giveUp = faults.giveUp
      BY <1>5 DEF Kill, DrainTimeout, Exit, Fault, VInv, VType
    <2> QED
      BY <1>1, <1>5, <2>1, ExitKeeps DEF Kill, DrainTimeout, Kept, VInv
  <1> QED
    BY <1>1, <1>2, <1>3, <1>4, <1>5, SendKeeps, VisitKeeps, RespondKeeps,
       GiveUpKeeps, PhaseKeeps
       DEF VitrineNext, Kept, VInv

\* VInv holds in every reachable state of the service.
THEOREM ServiceInvariance == VitrineSpec => []VInv
  <1> QED
    BY VitrineInitInv, VitrineNextInv, PTL DEF VitrineSpec

\* A link that was handed out serves its customer's board through any crashes,
\* restarts, refusals and repeated pushes.
THEOREM ToldUrlServesAlways == VitrineSpec => []ToldUrlServes
  <1>1. VInv => ToldUrlServes
    BY DEF VInv
  <1> QED
    BY <1>1, ServiceInvariance, PTL

\* No workflow hears created: true twice.
THEOREM NewsOnceAlways == VitrineSpec => []NewsOnce
  <1>1. VInv => NewsOnce
    <2> SUFFICES ASSUME VInv, NEW c \in Customers PROVE news[c] <= 1
      BY DEF NewsOnce
    <2>1. news[c] = 0 \/ news[c] = 1
      BY DEF VInv, NewsOK
    <2> QED
      BY <2>1
  <1> QED
    BY <1>1, ServiceInvariance, PTL

\* While no client has given up, the version that was acknowledged last is the
\* one the board shows.
THEOREM LastPushShowsAlways == VitrineSpec => []LastPushShows
  <1>1. VInv => LastPushShows
    BY DEF VInv, ShownOK, Shows, LastPushShows
  <1> QED
    BY <1>1, ServiceInvariance, PTL

\* main never closes the store under a handler, and no lock outlives it.
THEOREM ClosedStoreIsIdleAlways == VitrineSpec => []ClosedStoreIsIdle
  <1>1. VInv => ClosedStoreIsIdle
    BY DEF VInv, ConnOK, IInv, SnapshotIsolation, WriterOK, ClosedStoreIsIdle
  <1> QED
    BY <1>1, ServiceInvariance, PTL
-----------------------------------------------------------------------------
\* The service uses the store as its interface allows: whatever handlers, clients,
\* signals and restarts do, the store goes through a behaviour of SQLiteStore, so
\* that what is proved of the store alone holds inside the service.
THEOREM ServiceRunsTheStore == VitrineSpec => Spec
  <1>1. VitrineInit => Init
    BY DEF VitrineInit
  <1> QED
    BY <1>1, StoreStep, ServiceInvariance, PTL DEF VitrineSpec, Spec

\* In the service, too, a board keeps its slug for ever, no push is undone by that
\* of another customer, created is told exactly to the push that made the board,
\* and every call of the store takes effect at one instant or not at all.
THEOREM StoreKeepsItsPromises ==
    VitrineSpec => SlugStable /\ NoLostUpdate /\ CreatedIsTrue /\ StoreSpec
  BY ServiceRunsTheStore, SlugsAreStable, NoUpdateIsLost, CreatedIsTrueAlways, Implements
-----------------------------------------------------------------------------
\* What workflows and visitors see goes forward only.

\* Only a commit changes the boards, only a response what the workflows know.
LEMMA WhoChangesWhat ==
    ASSUME VInv, [VitrineNext]_allVars
    PROVE  /\ UNCHANGED rows \/ \E h \in Handlers : Commit(h) /\ UNCHANGED service
           /\ UNCHANGED <<acked, told>> \/ \E h \in Handlers : Respond(h)
           /\ \A c \in Customers : sent[c] <= sent'[c]
  <1>0. \A c \in Customers : sent[c] \in Nat
    BY VersionsAssumption DEF VInv, VType
  <1>1. CASE UNCHANGED allVars
    BY <1>0, <1>1 DEF allVars, vars, service
  <1>2. ASSUME NEW h \in Handlers, NEW c \in Customers, Visit(c, h)
        PROVE  UNCHANGED <<rows, acked, told, sent>>
    BY <1>2 DEF Visit, Invoke
  <1>3. ASSUME NEW h \in Handlers, NEW c \in Customers, NEW v \in Bodies, Send(c, h, v)
        PROVE  /\ UNCHANGED <<rows, acked, told>>
               /\ \A d \in Customers : sent[d] <= sent'[d]
    <2>1. /\ UNCHANGED <<rows, acked, told>>
          /\ sent' = [sent EXCEPT ![c] = v]
          /\ v = sent[c] + 1 \/ v = sent[c]
      BY <1>3 DEF Send, Invoke
    <2> QED
      BY <1>0, <2>1 DEF VInv, VType
  <1>4. ASSUME NEW h \in Handlers, Work(h)
        PROVE  /\ UNCHANGED service
               /\ UNCHANGED rows \/ Commit(h)
    BY <1>4, WorkShape DEF Work, Quietly, VInv
  <1>5. ASSUME NEW h \in Handlers, Fail(h) PROVE UNCHANGED <<rows, acked, told, sent>>
    <2>1. Quietly(h)
      BY <1>5, RollbackIsQuiet DEF Fail, Abort, Failures, Open, VInv
    <2> QED
      BY <1>5, <2>1 DEF Fail, Quietly
  <1>6. ASSUME NEW h \in Handlers, Respond(h) PROVE UNCHANGED <<rows, sent>>
    BY <1>6 DEF Respond, Return
  <1>7. CASE Kill \/ DrainTimeout \/ Stop \/ Close \/ Restart \/ \E h \in Handlers : GiveUp(h)
    <2>1. UNCHANGED <<rows, acked, told, sent>>
      BY <1>7 DEF Kill, DrainTimeout, Exit, Crash, Stop, Close, Restart, GiveUp, vars
    <2> QED
      BY <1>0, <2>1
  <1>8. CASE \E h \in Handlers : Work(h)
    BY <1>0, <1>4, <1>8 DEF service
  <1>9. CASE \E h \in Handlers : \E c \in Customers :
               Visit(c, h) \/ \E v \in Bodies : Send(c, h, v)
    BY <1>0, <1>2, <1>3, <1>9
  <1>10. CASE \E h \in Handlers : Fail(h) \/ Respond(h)
    BY <1>0, <1>5, <1>6, <1>10
  <1> QED
    BY <1>1, <1>7, <1>8, <1>9, <1>10 DEF VitrineNext

\* The response tells the address that the board has, about the version that its
\* workflow sent last.
LEMMA ResponseIsCurrent ==
    ASSUME VInv, NEW h \in Handlers, Respond(h), NEW c \in Customers
    PROVE  \/ acked'[c] = acked[c] /\ told'[c] = told[c]
           \/ acked'[c] = sent[c] /\ rows[c] # NoRow /\ told'[c] = rows[c].slug
  <1>1. CASE ~(conn[h] = "open" /\ answer[h].code = "stored")
    BY <1>1 DEF Respond
  <1>2. CASE conn[h] = "open" /\ answer[h].code = "stored"
    <2>1. PICK d \in Customers : d = customer(h)
      BY <1>2, CallType
         DEF Respond, Return, VInv, IInv, SnapshotIsolation, CallOK, customer
    <2>2. Answered(h, d)
      BY <1>2, <2>1 DEF Answered, Respond, Return
    <2>3. Pushing(h, d) /\ answer[h] # NoAnswer
      BY <1>2, <2>2, AnsweredIsPush
    <2>4. call[h].view.body = sent[d] /\ rows[d] # NoRow /\ rows[d].slug = answer[h].slug
      BY <1>2, <2>1, <2>3 DEF VInv, PushOK, IInv, AnsweredSlugIsLive
    <2>5. acked' = [acked EXCEPT ![d] = sent[d]] /\ told' = [told EXCEPT ![d] = rows[d].slug]
      BY <1>2, <2>1, <2>4 DEF Respond
    <2> QED
      BY <2>4, <2>5 DEF VInv, VType
  <1> QED
    BY <1>1, <1>2

\* README.md, "the same URL": what a workflow was told stays true; no
\* push that comes later, is refused or fails makes it hear another address.
UrlNeverChanges ==
    [][\A c \in Customers : told[c] # NoSlug => told'[c] = told[c]]_allVars

\* A workflow is never told of an older version after a newer one, in whatever
\* order the answers arrive.
AcksGoForward == [][\A c \in Customers : acked[c] <= acked'[c]]_allVars

\* No workflow is told a second address of its board, through any faults and restarts.
THEOREM UrlNeverChangesAlways == VitrineSpec => UrlNeverChanges
  <1>1. VInv /\ [VitrineNext]_allVars =>
          [\A c \in Customers : told[c] # NoSlug => told'[c] = told[c]]_allVars
    <2> SUFFICES ASSUME VInv, [VitrineNext]_allVars, NEW c \in Customers, told[c] # NoSlug
                 PROVE  told'[c] = told[c]
      OBVIOUS
    <2>1. UNCHANGED told \/ \E h \in Handlers : Respond(h)
      BY WhoChangesWhat
    <2> QED
      BY <2>1, ResponseIsCurrent DEF VInv, ToldUrlServes
  <1> QED
    BY <1>1, ServiceInvariance, PTL DEF VitrineSpec, UrlNeverChanges

\* No acknowledgement is older than one before it.
THEOREM AcksGoForwardAlways == VitrineSpec => AcksGoForward
  <1>1. VInv /\ [VitrineNext]_allVars => [\A c \in Customers : acked[c] <= acked'[c]]_allVars
    <2> SUFFICES ASSUME VInv, [VitrineNext]_allVars, NEW c \in Customers
                 PROVE  acked[c] <= acked'[c]
      OBVIOUS
    <2>1. UNCHANGED acked \/ \E h \in Handlers : Respond(h)
      BY WhoChangesWhat
    <2>2. acked[c] \in Nat /\ acked[c] <= sent[c]
      BY VersionsAssumption DEF VInv, VType, PushOK
    <2> QED
      BY <2>1, <2>2, ResponseIsCurrent
  <1> QED
    BY <1>1, ServiceInvariance, PTL DEF VitrineSpec, AcksGoForward

\* No board shows what its workflow has not sent.
WasSent == \A c \in Customers : rows[c] # NoRow => rows[c].body <= sent[c]

\* While no client has given up, the boards go forward: no visitor sees an older
\* version after a newer one.  With a client that gives up this does
\* not hold: the push it left behind may commit after the next one.
BoardsGoForward ==
    [][faults'.giveUp = 0 =>
          \A c \in Customers :
              rows[c] # NoRow => rows'[c] # NoRow /\ rows[c].body <= rows'[c].body]_allVars

\* A commit stores the version of a push, while nobody has given up the last one
\* of its workflow, and leaves every other board alone.
LEMMA CommitIsOfThePush ==
    ASSUME VInv, NEW h \in Handlers, Commit(h), UNCHANGED service
    PROVE  \E c \in Customers :
             /\ rows'[c] # NoRow /\ rows'[c].body <= sent[c]
             /\ faults.giveUp = 0 => rows'[c].body = sent[c]
             /\ \A d \in Customers \ {c} : rows'[d] = rows[d]
  <1>1. PICK c \in Customers : c = customer(h)
    BY CommitShape DEF VInv
  <1>2. /\ Pushed(h, c) /\ pc[h] # "idle"
        /\ rows'[c] # NoRow /\ rows'[c].body = call[h].view.body
    BY <1>1, CommitShape DEF VInv, Pushed
  <1>3. \A d \in Customers \ {c} : rows'[d] = rows[d]
    BY <1>1, CommitShape DEF VInv, IInv, TypeOK, Table
  <1>4. faults.giveUp = 0 => Pushing(h, c)
    BY <1>2 DEF VInv, VType, ConnOK, ShownOK, Pushing
  <1> QED
    BY <1>2, <1>3, <1>4 DEF VInv, PushOK

\* Versions only grow, and a push commits what it was sent with.
LEMMA WasSentNext == VInv /\ WasSent /\ [VitrineNext]_allVars => WasSent'
  <1> SUFFICES ASSUME VInv, WasSent, [VitrineNext]_allVars, NEW c \in Customers, rows'[c] # NoRow
               PROVE  rows'[c].body <= sent'[c]
    BY DEF WasSent
  <1>1. sent[c] <= sent'[c] /\ sent[c] \in Nat /\ sent'[c] \in Nat
    <2>1. VInv'
      BY VitrineNextInv
    <2>2. sent \in [Customers -> 0 .. LastVersion] /\ sent' \in [Customers -> 0 .. LastVersion]
      BY <2>1 DEF VInv, VType
    <2> QED
      BY <2>2, VersionsAssumption, WhoChangesWhat
  <1>2. rows'[c].body \in Nat
    BY VitrineNextInv, VersionsAssumption DEF VInv, IInv, TypeOK, Table, Row
  <1>3. rows'[c].body <= sent[c]
    BY WhoChangesWhat, CommitIsOfThePush DEF WasSent
  <1> QED
    BY <1>1, <1>2, <1>3

\* No board goes back to an older version while no client has given up.
THEOREM BoardsGoForwardAlways == VitrineSpec => BoardsGoForward
  <1>1. VitrineInit => WasSent
    BY DEF VitrineInit, Init, EmptyTable, WasSent
  <1>2. VInv /\ WasSent /\ [VitrineNext]_allVars =>
          [faults'.giveUp = 0 =>
             \A c \in Customers :
                 rows[c] # NoRow => rows'[c] # NoRow /\ rows[c].body <= rows'[c].body]_allVars
    <2> SUFFICES ASSUME VInv, WasSent, [VitrineNext]_allVars, faults'.giveUp = 0,
                        NEW c \in Customers, rows[c] # NoRow
                 PROVE  rows'[c] # NoRow /\ rows[c].body <= rows'[c].body
      OBVIOUS
    <2>1. rows[c].body \in Nat /\ rows[c].body <= sent[c]
      BY VersionsAssumption DEF VInv, IInv, TypeOK, Table, Row, WasSent
    <2>2. CASE UNCHANGED rows
      BY <2>1, <2>2
    <2>3. ASSUME NEW h \in Handlers, Commit(h), UNCHANGED service
          PROVE  rows'[c] # NoRow /\ rows[c].body <= rows'[c].body
      <3>1. faults.giveUp = 0
        BY <2>3 DEF service
      <3> QED
        BY <2>1, <2>3, <3>1, CommitIsOfThePush
    <2> QED
      BY <2>2, <2>3, WhoChangesWhat
  <1> QED
    BY <1>1, <1>2, WasSentNext, ServiceInvariance, PTL DEF VitrineSpec, BoardsGoForward
-----------------------------------------------------------------------------
\* The refinement of BoardService: Send maps to Push unless it repeats a version,
\* Commit to Publish, Respond to Acknowledge if somebody hears it, a client that
\* is gone and a process that ends to Lose, all else to stuttering.
Address == [c \in Customers |-> IF rows[c] = NoRow THEN NoSlug ELSE rows[c].slug]
Shown == [c \in Customers |-> IF rows[c] = NoRow THEN 0 ELSE rows[c].body]
Ticket == [c \in Customers |->
              IF Answering(c) = {} THEN NoTicket
              ELSE TicketOf(CHOOSE h \in Answering(c) : TRUE)]

\* An answer that is on its way is the answer to the push of its workflow.
LEMMA AnsweringType ==
    ASSUME VInv, NEW c \in Customers, NEW h \in Answering(c)
    PROVE  /\ h \in Handlers /\ Answered(h, c) /\ Pushing(h, c)
           /\ conn[h] = "open" /\ pc[h] = "done"
           /\ TicketOf(h) \in [slug : Slugs, created : BOOLEAN] /\ TicketOf(h) # NoTicket
  <1>1. h \in Handlers /\ Answered(h, c) /\ Pushing(h, c)
        /\ conn[h] = "open" /\ pc[h] = "done"
    BY AnsweredIsPush DEF Answering, Answered
  <1>2. answer[h] \in Answer /\ answer[h].code = "stored"
    BY <1>1, AnsweredIsPush DEF VInv, IInv, TypeOK, Answered
  <1>3. answer[h] \in StoredAnswer
    BY <1>2, ErrorIsNotStored DEF Answer, FoundAnswer, ErrorAnswer
  <1> QED
    BY <1>1, <1>3, NoTicketAssumption DEF TicketOf, StoredAnswer

\* At most one answer is on its way to a workflow.
TicketsOK ==
    \A c \in Customers :
        /\ Answering(c) = {} => Ticket[c] = NoTicket
        /\ \A h \in Answering(c) :
             /\ Answering(c) = {h} /\ Ticket[c] = TicketOf(h)
             /\ TicketOf(h) \in [slug : Slugs, created : BOOLEAN]

LEMMA TicketMeaning == VInv => TicketsOK
  <1> SUFFICES ASSUME VInv, NEW c \in Customers
               PROVE  /\ Answering(c) = {} => Ticket[c] = NoTicket
                      /\ \A h \in Answering(c) :
                           /\ Answering(c) = {h} /\ Ticket[c] = TicketOf(h)
                           /\ TicketOf(h) \in [slug : Slugs, created : BOOLEAN]
    BY DEF TicketsOK
  <1>1. \A h \in Answering(c) : Answering(c) = {h}
    BY AnsweringType DEF VInv, PushOK
  <1> QED
    BY <1>1, AnsweringType DEF Ticket

\* The same answers on their way make the same tickets.
LEMMA TicketsKept ==
    ASSUME VInv, VInv', NEW c \in Customers, Answering(c)' = Answering(c),
           \A h \in Answering(c) : answer'[h] = answer[h]
    PROVE  Ticket'[c] = Ticket[c]
  <1>1. TicketsOK
    BY TicketMeaning
  <1>2. TicketsOK'
    BY TicketMeaning, PTL
  <1>3. CASE Answering(c) = {}
    BY <1>1, <1>2, <1>3 DEF TicketsOK
  <1>4. ASSUME NEW h \in Answering(c) PROVE Ticket'[c] = Ticket[c]
    <2>1. Ticket[c] = TicketOf(h)
      BY <1>1, <1>4 DEF TicketsOK
    <2>2. Ticket'[c] = TicketOf(h)'
      BY <1>2, <1>4 DEF TicketsOK
    <2> QED
      BY <1>4, <2>1, <2>2 DEF TicketOf
  <1> QED
    BY <1>3, <1>4

\* The same for all workflows.
LEMMA AllTicketsKept ==
    ASSUME VInv, VInv',
           \A c \in Customers, h \in Handlers :
               /\ h \in Answering(c)' <=> h \in Answering(c)
               /\ h \in Answering(c) => answer'[h] = answer[h]
    PROVE  Ticket' = Ticket
  <1>1. ASSUME NEW c \in Customers PROVE Ticket'[c] = Ticket[c]
    <2>1. Answering(c)' = Answering(c)
      BY DEF Answering
    <2>2. \A h \in Answering(c) : answer'[h] = answer[h]
      BY DEF Answering
    <2> QED
      BY <2>1, <2>2, TicketsKept
  <1> QED
    BY <1>1 DEF Ticket

\* A step that changes nothing a workflow or a visitor could see.
LEMMA Unseen ==
    ASSUME UNCHANGED <<rows, sent, acked, told, news>>, Ticket' = Ticket
    PROVE  UNCHANGED Service!vars
  BY DEF Ticket, Service!vars, Service!promised, Service!heard

\* A first push of a version is a Push, a repeated one changes nothing.
LEMMA SendRefines ==
    ASSUME VInv, VInv', NEW h \in Handlers, NEW c \in Customers, NEW v \in Bodies,
           Send(c, h, v)
    PROVE  [Service!Next]_(Service!vars)
  <1>1. /\ pc[h] = "idle" /\ pc'[h] = "begin" /\ conn[h] = "none"
        /\ \A g \in Handlers \ {h} :
             pc'[g] = pc[g] /\ call'[g] = call[g] /\ conn'[g] = conn[g]
        /\ UNCHANGED <<rows, answer, acked, told, news>>
        /\ sent' = [sent EXCEPT ![c] = v]
        /\ v = sent[c] \/ (v = sent[c] + 1 /\ sent[c] < LastVersion)
    BY VersionsAssumption DEF Send, Invoke, Goto, VInv, VType, IInv, TypeOK
  <1>2. Ticket' = Ticket
    <2>1. \A d \in Customers, g \in Handlers :
            /\ g \in Answering(d)' <=> g \in Answering(d)
            /\ g \in Answering(d) => answer'[g] = answer[g]
      BY <1>1 DEF Answering, customer
    <2> QED
      BY <2>1, AllTicketsKept
  <1>3. CASE v = sent[c]
    <2>1. sent' = sent
      BY <1>1, <1>3 DEF VInv, VType
    <2> QED
      BY <1>1, <1>2, <2>1, Unseen
  <1>4. CASE v = sent[c] + 1 /\ sent[c] < LastVersion
    <2>1. Answering(c) = {}
      BY AnsweringType DEF Send, Quiet, Pushing, Pushed, UpsertCall
    <2>2. Ticket[c] = NoTicket
      BY <2>1, TicketMeaning DEF TicketsOK
    <2>3. sent' = [sent EXCEPT ![c] = sent[c] + 1]
      BY <1>1, <1>4
    <2>4. Service!Push(c)
      BY <1>1, <1>2, <1>4, <2>2, <2>3
         DEF Ticket, Service!Push, Service!promised, Service!heard
    <2> QED
      BY <2>4 DEF Service!Next
  <1> QED
    BY <1>1, <1>3, <1>4

\* A commit is a Publish, with a ticket exactly if the workflow still waits.
LEMMA CommitPublishes ==
    ASSUME VInv, VInv', NEW h \in Handlers, Commit(h), UNCHANGED service
    PROVE  Service!Next
  <1>0. PICK c \in Customers : c = customer(h)
    BY CommitShape DEF VInv
  <1>1. /\ call[h] \in UpsertCall /\ UNCHANGED call
        /\ pc[h] \in {"updated", "inserted"} /\ pc'[h] = "done"
        /\ rows'[c] # NoRow /\ rows'[c].slug = slug[h] /\ slug[h] \in Slugs
        /\ rows'[c].body = call[h].view.body
        /\ answer'[h].code = "stored" /\ answer'[h].slug = slug[h]
        /\ answer'[h].created <=> rows[c] = NoRow
        /\ rows[c] # NoRow => rows[c].slug = slug[h]
        /\ \A g \in Handlers \ {h} : pc'[g] = pc[g] /\ answer'[g] = answer[g]
    BY <1>0, CommitShape DEF VInv
  <1>2. /\ \A d \in Customers \ {c} : rows'[d] = rows[d]
        /\ rows[c] = NoRow => slug[h] \notin Taken(rows)
    BY <1>0, CommitWritesOneRow DEF VInv, IInv, TypeOK, Table
  <1> DEFINE s == slug[h]
  <1>3. PICK v \in 1 .. LastVersion :
          /\ v = call[h].view.body /\ v \in 1 .. sent[c]
          /\ conn[h] = "open" => v = sent[c]
    <2> DEFINE body == call[h].view.body
    <2>1. body \in 1 .. LastVersion
      BY <1>1, CallType, VersionsAssumption DEF View
    <2>2. sent[c] \in Nat /\ body <= sent[c] /\ (conn[h] = "open" => body = sent[c])
      BY <1>0, <1>1 DEF VInv, VType, PushOK, Pushing, Pushed
    <2>3. body \in 1 .. sent[c]
      BY <2>1, <2>2, VersionsAssumption
    <2> QED
      BY <2>1, <2>2, <2>3
  <1>4. Address' = [Address EXCEPT ![c] = s] /\ Shown' = [Shown EXCEPT ![c] = v]
    BY <1>1, <1>2, <1>3 DEF Address, Shown
  <1>5. /\ Address[c] = NoSlug <=> rows[c] = NoRow
        /\ s = Address[c] \/ (Address[c] = NoSlug /\ \A d \in Customers : Address[d] # s)
    <2>1. rows[c] # NoRow => rows[c].slug \in Slugs
      BY <1>1
    <2>2. rows[c] = NoRow => \A d \in Customers : Address[d] # s
      BY <1>1, <1>2, TakenMeaning, AbsenceAssumption DEF Address, VInv, IInv, TypeOK
    <2> QED
      BY <1>1, <2>1, <2>2, AbsenceAssumption DEF Address
  <1>6. \A d \in Customers \ {c} : Ticket'[d] = Ticket[d]
    <2>1. ASSUME NEW d \in Customers \ {c}
          PROVE  Answering(d)' = Answering(d) /\ \A g \in Answering(d) : answer'[g] = answer[g]
      BY <1>0, <1>1 DEF Answering, customer, service
    <2> QED
      BY <2>1, TicketsKept
  <1>7. CASE conn[h] = "open"
    <2>1. Answering(c) = {}
      BY <1>0, <1>1, <1>7, AnsweringType DEF VInv, PushOK, Pushing, Pushed
    <2>2. h \in Answering(c)'
      BY <1>0, <1>1, <1>7 DEF Answering, customer, service
    <2>3. TicketsOK'
      BY TicketMeaning, PTL
    <2>4. Ticket'[c] = [slug |-> answer'[h].slug, created |-> answer'[h].created]
      BY <2>2, <2>3 DEF TicketsOK, TicketOf
    <2>5. answer'[h].created \in BOOLEAN
      BY <2>2, <2>3 DEF TicketsOK, TicketOf
    <2>6. Ticket'[c] = [slug |-> s, created |-> Address[c] = NoSlug]
      <3>1. CASE rows[c] = NoRow
        <4>1. Ticket'[c] = [slug |-> s, created |-> TRUE]
          BY <1>1, <2>4, <2>5, <3>1
        <4>2. (Address[c] = NoSlug) = TRUE
          BY <1>5, <3>1
        <4> QED
          BY <4>1, <4>2
      <3>2. CASE rows[c] # NoRow
        <4>1. Ticket'[c] = [slug |-> s, created |-> FALSE]
          BY <1>1, <2>4, <2>5, <3>2
        <4>2. (Address[c] = NoSlug) = FALSE
          BY <1>5, <3>2
        <4> QED
          BY <4>1, <4>2
      <3> QED
        BY <3>1, <3>2
    <2>7. Ticket' = [Ticket EXCEPT ![c] = [slug |-> s, created |-> Address[c] = NoSlug]]
      BY <1>6, <2>6 DEF Ticket
    <2>8. Ticket[c] = NoTicket
      BY <2>1, TicketMeaning DEF TicketsOK
    <2>9. Service!Publish(c, v)
      BY <1>1, <1>3, <1>4, <1>5, <1>7, <2>7, <2>8
         DEF Address, Shown, Ticket, Service!Publish, Service!heard, service
    <2> QED
      BY <1>0, <1>3, <2>9 DEF Service!Next
  <1>8. CASE conn[h] # "open"
    <2>1. Answering(c)' = Answering(c) /\ \A g \in Answering(c) : answer'[g] = answer[g]
      BY <1>1, <1>8 DEF Answering, customer, service
    <2>2. Ticket' = Ticket
      BY <1>6, <2>1, TicketsKept DEF Ticket
    <2>3. Service!Publish(c, v)
      BY <1>1, <1>3, <1>4, <1>5, <2>2
         DEF Address, Shown, Ticket, Service!Publish, Service!heard, service
    <2> QED
      BY <1>0, <1>3, <2>3 DEF Service!Next
  <1> QED
    BY <1>7, <1>8

\* A response "stored" that is heard is an Acknowledge.
LEMMA RespondRefines ==
    ASSUME VInv, VInv', NEW h \in Handlers, Respond(h)
    PROVE  [Service!Next]_(Service!vars)
  <1>1. /\ pc[h] = "done" /\ conn'[h] = "none"
        /\ \A g \in Handlers \ {h} :
             /\ pc'[g] = pc[g] /\ call'[g] = call[g] /\ conn'[g] = conn[g]
             /\ answer'[g] = answer[g]
        /\ UNCHANGED <<rows, sent>>
    BY DEF Respond, Return, Goto, VInv, VType, IInv, TypeOK
  <1>2. CASE ~(conn[h] = "open" /\ answer[h].code = "stored")
    <2>1. UNCHANGED <<acked, told, news>>
      BY <1>2 DEF Respond
    <2>2. Ticket' = Ticket
      BY <1>1, <1>2, AllTicketsKept DEF Answering, customer
    <2> QED
      BY <1>1, <2>1, <2>2, Unseen
  <1>3. CASE conn[h] = "open" /\ answer[h].code = "stored"
    <2>1. PICK c \in Customers : c = customer(h)
      BY <1>1, <1>3, CallType DEF VInv, IInv, SnapshotIsolation, CallOK, customer
    <2>2. h \in Answering(c)
      BY <1>1, <1>3, <2>1 DEF Answering
    <2>3. Answering(c) = {h} /\ Ticket[c] = TicketOf(h)
      BY <2>2, TicketMeaning DEF TicketsOK
    <2>4. Ticket[c] # NoTicket /\ Pushing(h, c)
      BY <2>2, <2>3, AnsweringType
    <2>5. Ticket[c].slug = answer[h].slug /\ Ticket[c].created = answer[h].created
      BY <2>3 DEF TicketOf
    <2>6. call[h].view.body = sent[c]
      BY <2>4 DEF VInv, PushOK
    <2>7. Ticket'[c] = NoTicket
      <3>1. Answering(c)' = {}
        BY <1>1, <2>3 DEF Answering, customer
      <3>2. TicketsOK'
        BY TicketMeaning, PTL
      <3> QED
        BY <3>1, <3>2 DEF TicketsOK
    <2>8. \A d \in Customers \ {c} : Ticket'[d] = Ticket[d]
      <3>1. ASSUME NEW d \in Customers \ {c}
            PROVE  Answering(d)' = Answering(d) /\ \A g \in Answering(d) : answer'[g] = answer[g]
        BY <1>1, <2>1 DEF Answering, customer
      <3> QED
        BY <3>1, TicketsKept
    <2>9. Ticket' = [Ticket EXCEPT ![c] = NoTicket]
      BY <2>7, <2>8 DEF Ticket
    <2>10. /\ acked' = [acked EXCEPT ![c] = sent[c]]
           /\ told' = [told EXCEPT ![c] = Ticket[c].slug]
           /\ news' = [news EXCEPT ![c] = @ + (IF Ticket[c].created THEN 1 ELSE 0)]
      BY <1>3, <2>1, <2>5, <2>6 DEF Respond
    <2>11. Service!Acknowledge(c)
      BY <1>1, <2>4, <2>9, <2>10 DEF Ticket, Service!Acknowledge, Service!promised
    <2> QED
      BY <2>1, <2>11 DEF Service!Next
  <1> QED
    BY <1>2, <1>3

\* Clients and answers that are gone, whatever their number.
LEMMA LoseRefines ==
    ASSUME VInv, VInv', NEW lost \in SUBSET Customers,
           UNCHANGED <<rows, sent, acked, told, news>>,
           \A c \in lost : Answering(c)' = {},
           \A c \in Customers \ lost : Answering(c)' = Answering(c),
           \A c \in Customers \ lost : \A h \in Answering(c) : answer'[h] = answer[h]
    PROVE  Service!Next
  <1>1. ASSUME NEW c \in lost PROVE Ticket'[c] = NoTicket
    <2>1. TicketsOK'
      BY TicketMeaning, PTL
    <2> QED
      BY <2>1 DEF TicketsOK
  <1>2. \A c \in Customers \ lost : Ticket'[c] = Ticket[c]
    BY TicketsKept
  <1>3. Ticket' = [c \in Customers |-> IF c \in lost THEN NoTicket ELSE Ticket[c]]
    BY <1>1, <1>2 DEF Ticket
  <1>4. Service!Lose(lost)
    BY <1>3 DEF Ticket, Service!Lose, Service!promised, Service!heard
  <1> QED
    BY <1>4 DEF Service!Next

\* A client that gives up loses the answer that is on its way to it, if any.
LEMMA GiveUpRefines ==
    ASSUME VInv, VInv', NEW h \in Handlers, GiveUp(h)
    PROVE  Service!Next
  <1>1. /\ conn'[h] = "abandoned" /\ \A g \in Handlers \ {h} : conn'[g] = conn[g]
        /\ UNCHANGED <<rows, pc, call, answer, sent, acked, told, news>>
    BY DEF GiveUp, vars, VInv, VType
  <1> DEFINE lost == {c \in Customers : h \in Answering(c)}
  <1>2. \A c \in lost : Answering(c) = {h}
    BY TicketMeaning DEF TicketsOK
  <1>3. \A c \in lost : Answering(c)' = {}
    BY <1>1, <1>2 DEF Answering, customer
  <1>4. \A c \in Customers \ lost : Answering(c)' = Answering(c)
    BY <1>1 DEF Answering, customer
  <1>5. PICK gone \in SUBSET Customers : gone = lost
    OBVIOUS
  <1> QED
    BY <1>1, <1>3, <1>4, <1>5, LoseRefines

\* Every step of the service is a step of the promise or changes none of it.
LEMMA ServiceStepRefines ==
    VInv /\ VInv' /\ [VitrineNext]_allVars => [Service!Next]_(Service!vars)
  <1> SUFFICES ASSUME VInv, VInv', [VitrineNext]_allVars
               PROVE  [Service!Next]_(Service!vars)
    OBVIOUS
  <1>1. CASE \/ UNCHANGED allVars \/ Stop \/ Close \/ Restart
             \/ \E h \in Handlers, c \in Customers : Visit(c, h)
    <2> DEFINE Same ==
                 /\ UNCHANGED <<rows, answer, sent, acked, told, news>>
                 /\ \A h \in Handlers, c \in Customers :
                      h \in Answering(c)' <=> h \in Answering(c)
    <2>1. Same
      <3>1. CASE UNCHANGED allVars \/ Stop \/ Close \/ Restart
        BY <3>1 DEF allVars, vars, service, Stop, Close, Restart, Answering, customer
      <3>2. ASSUME NEW h \in Handlers, NEW d \in Customers, Visit(d, h)
            PROVE  Same
        <4>1. /\ pc[h] = "idle" /\ pc'[h] = "query"
              /\ \A g \in Handlers \ {h} :
                   pc'[g] = pc[g] /\ call'[g] = call[g] /\ conn'[g] = conn[g]
          BY <3>2 DEF Visit, Invoke, Goto, VInv, VType, IInv, TypeOK
        <4> QED
          BY <3>2, <4>1 DEF Visit, Invoke, Answering, customer
      <3> QED
        BY <1>1, <3>1, <3>2
    <2> QED
      BY <2>1, AllTicketsKept, Unseen
  <1>2. ASSUME NEW h \in Handlers, Work(h) \/ Fail(h)
        PROVE  [Service!Next]_(Service!vars)
    <2>1. UNCHANGED <<phase, conn, sent, acked, told, news>>
      BY <1>2 DEF Work, Fail, service
    <2>2. CASE Quietly(h)
      <3>1. \A g \in Handlers, c \in Customers :
              /\ g \in Answering(c)' <=> g \in Answering(c)
              /\ g \in Answering(c) => answer'[g] = answer[g]
        BY <2>1, <2>2 DEF Quietly, Answering, customer
      <3> QED
        BY <2>1, <2>2, <3>1, AllTicketsKept, Unseen DEF Quietly
    <2>3. CASE Commit(h)
      <3>1. ~Fail(h)
        BY <2>3 DEF VInv, Fail, Abort, Rollback, Finish, Commit, IInv, TypeOK, Error, Stored
      <3> QED
        BY <1>2, <2>3, <3>1, CommitPublishes DEF Work
    <2> QED
      BY <1>2, <2>2, <2>3, WorkShape DEF VInv
  <1>3. CASE Kill \/ DrainTimeout
    <2>1. \A c \in Customers : Answering(c)' = {}
      BY <1>3 DEF Kill, DrainTimeout, Exit, Answering
    <2>2. Customers \in SUBSET Customers
      OBVIOUS
    <2> QED
      BY <1>3, <2>1, <2>2, LoseRefines DEF Kill, DrainTimeout, Exit, Crash
  <1> QED
    BY <1>1, <1>2, <1>3, SendRefines, RespondRefines, GiveUpRefines DEF VitrineNext

\* The process, with its concurrent handlers, faults and restarts, keeps the
\* promise of BoardService: one address per board, one true answer per push or none.
THEOREM KeepsItsPromise == VitrineSpec => ServiceSpec
  <1>1. VitrineInit => Service!Init
    BY DEF VitrineInit, Init, EmptyTable, Answering, Service!Init
  <1> QED
    BY <1>1, ServiceInvariance, ServiceStepRefines, PTL
       DEF VitrineSpec, ServiceSpec, Service!Spec
=============================================================================
