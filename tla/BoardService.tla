---------------------------- MODULE BoardService ----------------------------
(***************************************************************************)
(* What vitrine promises the workflows that push boards and the visitors   *)
(* that open them, with no process, request, transaction or fault in       *)
(* sight.  A board has one address for ever; it shows a version that was   *)
(* pushed; the workflow gets one answer to a push or none at all, and an   *)
(* answer is the truth: the address, and whether the push made the board.  *)
(***************************************************************************)
EXTENDS Naturals

CONSTANTS Customers, Slugs, NoSlug, NoTicket, LastVersion

VARIABLES
    address,   \* the slug of a customer's board
    shown,     \* the version it shows, 0 if there is no board
    ticket,    \* the answer that is on its way to the workflow
    sent,      \* the version the workflow pushed last
    acked,     \* the version it was last told to be stored
    told,      \* the slug it was told
    news       \* how often it was told that the board is new

promised == <<address, shown>>
heard == <<acked, told, news>>
vars == <<promised, ticket, sent, heard>>

Init ==
    /\ address = [c \in Customers |-> NoSlug] /\ shown = [c \in Customers |-> 0]
    /\ ticket = [c \in Customers |-> NoTicket]
    /\ sent = [c \in Customers |-> 0] /\ acked = [c \in Customers |-> 0]
    /\ told = [c \in Customers |-> NoSlug] /\ news = [c \in Customers |-> 0]

\* The workflow goes on to the next version; it may have missed an answer.
Push(c) ==
    /\ sent[c] < LastVersion
    /\ ticket[c] = NoTicket
    /\ sent' = [sent EXCEPT ![c] = @ + 1]
    /\ UNCHANGED <<promised, ticket, heard>>

\* A push takes effect, one that the workflow no longer waits for perhaps.
Publish(c, v) ==
    /\ v \in 1 .. sent[c]
    /\ shown' = [shown EXCEPT ![c] = v]
    /\ \E s \in Slugs :
        /\ address' = [address EXCEPT ![c] = s]
        /\ s = address[c] \/ (address[c] = NoSlug /\ \A d \in Customers : address[d] # s)
        /\ \/ UNCHANGED ticket
           \/ /\ v = sent[c] /\ ticket[c] = NoTicket
              /\ ticket' = [ticket EXCEPT ![c] = [slug |-> s, created |-> address[c] = NoSlug]]
    /\ UNCHANGED <<sent, heard>>

Acknowledge(c) ==
    /\ ticket[c] # NoTicket
    /\ ticket' = [ticket EXCEPT ![c] = NoTicket]
    /\ acked' = [acked EXCEPT ![c] = sent[c]]
    /\ told' = [told EXCEPT ![c] = ticket[c].slug]
    /\ news' = [news EXCEPT ![c] = @ + (IF ticket[c].created THEN 1 ELSE 0)]
    /\ UNCHANGED <<promised, sent>>

\* Answers get lost, many at once when the process ends.
Lose(lost) ==
    /\ ticket' = [c \in Customers |-> IF c \in lost THEN NoTicket ELSE ticket[c]]
    /\ UNCHANGED <<promised, sent, heard>>

Next ==
    \/ \E c \in Customers : Push(c) \/ Acknowledge(c) \/ \E v \in 1 .. LastVersion : Publish(c, v)
    \/ \E lost \in SUBSET Customers : Lose(lost)

Spec == Init /\ [][Next]_vars
=============================================================================
