------------------------------ MODULE Webhook ------------------------------
(***************************************************************************)
(* One POST /api/v1/views (or /webhook) on its way through withAuth,       *)
(* handleWebhook and ingest.Service.Ingest: the order of the checks, what  *)
(* each of them answers, and what the store is finally handed.  The store  *)
(* answers anything its interface allows (module BoardStore).              *)
(*                                                                         *)
(* Keys of a JSON object: encoding/json binds a key to a field whatever    *)
(* its case; a key is "exact" when it is spelled as the field's tag,       *)
(* "folded" when it differs in case only, "unknown" when it binds nothing. *)
(***************************************************************************)
EXTENDS Payload

CONSTANTS
    Requests,    \* the requests clients send
    NoRequest,   \* no request in progress
    NoView,      \* nothing decoded, or nothing handed to the store
    NoReply      \* nothing answered yet

Spellings == {"exact", "folded", "unknown"}

\* secret: the X-Webhook-Secret header.  size: the body against 1 MiB, or cut
\* off.  form: whether json.Unmarshal takes the body.  top: how the keys of the
\* object are spelled, the key of the products apart.  inner: the keys of each
\* product.  view: what json.Unmarshal makes of the body.
Request == [secret : {"right", "wrong", "missing"},
            size : {"fits", "too large", "cut off"},
            form : {"ok", "malformed"},
            top : SUBSET Spellings, products : {"exact", "folded"},
            inner : Seq(SUBSET Spellings), view : CustomerView]

ASSUME RequestsAssumption == Requests \subseteq Request /\ NoRequest \notin Requests

VARIABLES
    pc,        \* the next thing done with the request
    request,   \* the request in progress
    view,      \* v of handleWebhook and Ingest
    ignored,   \* the keys to be reported as ignored_fields
    handed,    \* the view Upsert was called with
    reply      \* the response

vars == <<pc, request, view, ignored, handed, reply>>

Init ==
    /\ pc = "idle"
    /\ request = NoRequest
    /\ view = NoView
    /\ ignored = {}
    /\ handed = NoView
    /\ reply = NoReply
-----------------------------------------------------------------------------
Goto(place) == pc' = place

Reject(status, code) ==
    /\ reply' = [status |-> status, code |-> code]
    /\ Goto("answered")
    /\ UNCHANGED <<request, view, ignored, handed>>

Pass(from, to) == pc = from /\ Goto(to)

\* MUTANT of ignoredFields: the keys of the products are not looked at.
ignoredFieldsTopOnly(r) == {<<0, k>> : k \in r.top \cup {r.products}} \ {<<0, "exact">>}

\* The keys of the object (place 0) and, when `products' is spelled so, those
\* of product i (place i) that are not spelled like a known field.
ignoredFields(r) ==
    {<<0, k>> : k \in (r.top \cup {r.products}) \ {"exact"}}
    \cup IF r.products = "exact"
         THEN UNION {{<<i, k>> : k \in r.inner[i] \ {"exact"}} : i \in DOMAIN r.inner}
         ELSE {}

\* The status and the code of an error of Ingest: a field Validate blames, or
\* an error of the store.
mapIngestError(e) ==
    CASE isURLField(e)            -> <<400, "invalid_url">>
      [] e = "slug_exhausted"     -> <<500, "slug_exhausted">>
      [] e \in {"busy", "aborted"} -> <<500, "internal_error">>
      [] OTHER                    -> <<400, "invalid_payload">>
-----------------------------------------------------------------------------
Receive(r) ==
    /\ Pass("idle", "auth")
    /\ request' = r
    /\ UNCHANGED <<view, ignored, handed, reply>>

\* withAuth.
Authenticate ==
    \/ /\ Pass("auth", "read")
       /\ request.secret = "right"
       /\ UNCHANGED <<request, view, ignored, handed, reply>>
    \/ /\ pc = "auth"
       /\ request.secret # "right"
       /\ Reject(401, "unauthorized")

\* MaxBytesReader and ReadAll.
ReadBody ==
    \/ /\ Pass("read", "decode")
       /\ request.size = "fits"
       /\ UNCHANGED <<request, view, ignored, handed, reply>>
    \/ /\ pc = "read" /\ request.size = "too large"
       /\ Reject(413, "payload_too_large")
    \/ /\ pc = "read" /\ request.size = "cut off"
       /\ Reject(400, "invalid_payload")

\* Both json.Unmarshal calls: the second one takes what the first one took.
Decode ==
    \/ /\ Pass("decode", "validate")
       /\ request.form = "ok"
       /\ view' = request.view
       /\ ignored' = ignoredFields(request)
       /\ UNCHANGED <<request, handed, reply>>
    \/ /\ pc = "decode" /\ request.form = "malformed"
       /\ Reject(400, "invalid_payload")

\* Ingest: v.Validate(), then v = normalize(v).
Check ==
    \/ /\ Pass("validate", "upsert")
       /\ Validate(view) = "none"
       /\ view' = normalize(view)
       /\ UNCHANGED <<request, ignored, handed, reply>>
    \/ LET e == mapIngestError(Validate(view)) IN
       /\ pc = "validate"
       /\ Validate(view) # "none"
       /\ Reject(e[1], e[2])

\* s.store.Upsert, and what handleWebhook makes of its answer.
Upsert ==
    /\ pc = "upsert"
    /\ handed' = view
    /\ \/ \E created \in BOOLEAN :
            reply' = [status |-> 200, created |-> created, ignored |-> ignored]
       \/ \E e \in {"slug_exhausted", "busy", "aborted"} :
            LET answer == mapIngestError(e)
            IN  reply' = [status |-> answer[1], code |-> answer[2]]
    /\ Goto("answered")
    /\ UNCHANGED <<request, view, ignored>>

\* The response is written; the goroutine is done with the request.
Finish ==
    /\ Pass("answered", "idle")
    /\ request' = NoRequest
    /\ view' = NoView
    /\ ignored' = {}
    /\ handed' = NoView
    /\ reply' = NoReply

Next ==
    \/ \E r \in Requests : Receive(r)
    \/ Authenticate \/ ReadBody \/ Decode \/ Check \/ Upsert \/ Finish

Spec == Init /\ [][Next]_vars
-----------------------------------------------------------------------------
Answered == pc = "answered"

\* What reaches the store keeps every limit of Product.validate, and of
\* CustomerView.Validate but for two minima, after Validate has seen one form of
\* the view and normalize has made another one of it.  The two minima: a board may
\* be stored without its required client_name, but only if blanks were sent for it;
\* and with no product at all, but only if none sent is more than blanks, since
\* every other product is stored.
StoredViewIsSound ==
    handed # NoView =>
        /\ ~Empty(handed.customer_id)
        /\ Bytes(handed.client_name) <= maxClientNameLen
        /\ Empty(handed.client_name) => Empty(TrimSpace(request.view.client_name))
        /\ handed.language # "malformed"
        /\ Len(handed.products) <= maxProducts
        /\ \A i \in DOMAIN request.view.products :
              LET p == TrimProduct(request.view.products[i])
              IN  Listed(p) => \E j \in DOMAIN handed.products : handed.products[j] = p
        /\ \A i \in DOMAIN handed.products : LET p == handed.products[i] IN
              /\ ~Empty(p.category) /\ ~Empty(p.title)
              /\ Bytes(p.title) <= maxTitleLen
              /\ Bytes(p.recommendation) <= maxRecommendationLen
              /\ p.specs <= maxSpecsPerProduct
              /\ p.rating = NoRating \/ p.rating \in 0 .. 50
              /\ ~Overfull(p.highlights, maxHighlights, maxHighlightLen)
              /\ ~Overfull(p.pros, maxPros, maxProConLen)
              /\ ~Overfull(p.cons, maxCons, maxProConLen)
              /\ p.affiliate_link # "other" /\ p.image_url # "other"

\* Who pushes a board as it was stored is answered as one expects: normalize has no
\* more to do, and Validate takes the board, unless the trimming has left it without
\* a client_name or without products.  Such a board is refused, for that reason.
NormalizedOnce ==
    handed # NoView =>
        /\ normalize(handed) = handed
        /\ Validate(handed) =
              IF Empty(handed.client_name) THEN "client_name"
              ELSE IF handed.products = <<>> THEN "products" ELSE "none"

\* The keys that bind no field.
Unbound(r) ==
    {p \in {0} \X {"unknown"} : "unknown" \in r.top}
    \cup UNION {{<<i, k>> : k \in r.inner[i] \cap {"unknown"}} : i \in DOMAIN r.inner}

\* A typo in an optional field does not disappear silently, and the operator can
\* fail the workflow on a non-empty ignored_fields (docs/api.md:72-77): if anything
\* bound nothing, the answer to an accepted push lists something, and if the key
\* of the products has the spelling of the contract, it lists every such key.
TyposAreReported ==
    Answered /\ reply.status = 200 =>
        /\ Unbound(request) # {} => reply.ignored # {}
        /\ request.products = "exact" => Unbound(request) \subseteq reply.ignored
-----------------------------------------------------------------------------
\* docs/api.md: the table of errors is complete.
AnswersAreDocumented ==
    Answered /\ reply.status # 200 =>
        <<reply.status, reply.code>> \in
            {<<400, "invalid_payload">>, <<400, "invalid_url">>, <<401, "unauthorized">>,
             <<413, "payload_too_large">>, <<500, "slug_exhausted">>}
=============================================================================
