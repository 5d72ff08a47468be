----------------------------- MODULE BoardStore -----------------------------
(***************************************************************************)
(* What the Store interface of internal/board/ports.go promises its        *)
(* callers, whatever database is behind it: every call takes effect at one *)
(* instant between its invocation and its answer.  An upsert of a known    *)
(* customer keeps the slug; one of a new customer gets a slug no other     *)
(* customer has; a failed call leaves no trace; a crash of the process     *)
(* loses the calls in progress and nothing that was stored.                *)
(***************************************************************************)
EXTENDS Board

CONSTANT Handlers   \* the request goroutines that call the store

VARIABLES
    table,    \* the stored boards
    call,     \* the call a handler has in progress
    answer    \* the answer the store has for it

vars == <<table, call, answer>>

Init ==
    /\ table = EmptyTable
    /\ call = [h \in Handlers |-> NoCall]
    /\ answer = [h \in Handlers |-> NoAnswer]

Invoke(h, request) ==
    /\ call[h] = NoCall
    /\ call' = [call EXCEPT ![h] = request]
    /\ UNCHANGED <<table, answer>>

Pending(h, op) == call[h] # NoCall /\ call[h].op = op /\ answer[h] = NoAnswer

Answered(h, a) == answer' = [answer EXCEPT ![h] = a] /\ UNCHANGED call

\* An upsert of a known customer: the slug is kept, newSlug is not called.
Update(h) ==
    /\ Pending(h, "upsert")
    /\ LET c == call[h].customer IN
       /\ table[c] # NoRow
       /\ table' = [table EXCEPT ![c] = RowOf(table[c].slug, call[h].view)]
       /\ Answered(h, Stored(table[c].slug, FALSE))

\* An upsert of a new customer, under a slug that nobody has.
Insert(h) ==
    /\ Pending(h, "upsert")
    /\ LET c == call[h].customer IN
       /\ table[c] = NoRow
       /\ \E s \in Slugs \ Taken(table) :
            /\ table' = [table EXCEPT ![c] = RowOf(s, call[h].view)]
            /\ Answered(h, Stored(s, TRUE))

\* Every candidate slug of a new customer collided.
Exhaust(h) ==
    /\ Pending(h, "upsert")
    /\ table[call[h].customer] = NoRow
    /\ Taken(table) # {}
    /\ Answered(h, Error("slug_exhausted"))
    /\ UNCHANGED table

Find(h) ==
    /\ Pending(h, "bySlug")
    /\ \/ \E c \in Known(table) :
            /\ table[c].slug = call[h].slug
            /\ Answered(h, Found(c, table[c]))
       \/ /\ call[h].slug \notin Taken(table)
          /\ Answered(h, Error("unknown_slug"))
    /\ UNCHANGED table

Fail(h) ==
    /\ call[h] # NoCall
    /\ answer[h] = NoAnswer
    /\ \E e \in Failures : Answered(h, Error(e))
    /\ UNCHANGED table

Return(h) ==
    /\ answer[h] # NoAnswer
    /\ call' = [call EXCEPT ![h] = NoCall]
    /\ answer' = [answer EXCEPT ![h] = NoAnswer]
    /\ UNCHANGED table

Crash ==
    /\ call' = [h \in Handlers |-> NoCall]
    /\ answer' = [h \in Handlers |-> NoAnswer]
    /\ UNCHANGED table

Next ==
    \/ Crash
    \/ \E h \in Handlers :
        \/ \E request \in Call : Invoke(h, request)
        \/ Update(h) \/ Insert(h) \/ Exhaust(h)
        \/ Find(h) \/ Fail(h) \/ Return(h)

Spec == Init /\ [][Next]_vars
=============================================================================
