------------------------------- MODULE Board -------------------------------
(***************************************************************************)
(* The vocabulary of internal/board: what a pushed view and a stored row   *)
(* are, and what the two operations of the Store interface are called with *)
(* and answer.  A view's content (client name, intro, theme, products) is  *)
(* one value of Bodies: the store never looks inside it.  Its language is  *)
(* kept apart, because the store replaces an empty one.                    *)
(***************************************************************************)
CONSTANTS
    Customers,    \* the customer_id values pushes are made for
    Slugs,        \* the slugs newSlug can produce
    Bodies,       \* the contents of a view
    Languages,    \* the languages a push can name
    NoLanguage,   \* the empty language field
    English,      \* the language stored for an empty one
    NoSlug,       \* the empty Go string of a slug not known yet
    NoRow,        \* the absence of a row for a customer
    NoCall,       \* the absence of a call in progress
    NoAnswer      \* the absence of an answer to be returned

ASSUME LanguagesAssumption == English \in Languages /\ NoLanguage \notin Languages

View == [body : Bodies, language : Languages \cup {NoLanguage}]
Row  == [slug : Slugs, body : Bodies, language : Languages]

UpsertCall == [op : {"upsert"}, customer : Customers, view : View]
BySlugCall == [op : {"bySlug"}, slug : Slugs]
Call == UpsertCall \cup BySlugCall

\* What makes Upsert or BySlug give up with an error that is not part of the
\* interface: the database is busy, or the request's context, the disk or the
\* random source failed.
Failures == {"busy", "aborted"}

Stored(s, b) == [code |-> "stored", slug |-> s, created |-> b]
Found(c, r)  == [code |-> "found", customer |-> c, row |-> r]
Error(e)     == [code |-> e]

StoredAnswer == [code : {"stored"}, slug : Slugs, created : BOOLEAN]
FoundAnswer  == [code : {"found"}, customer : Customers, row : Row]
ErrorAnswer  == [code : Failures \cup {"slug_exhausted", "unknown_slug"}]
Answer == StoredAnswer \cup FoundAnswer \cup ErrorAnswer

ASSUME AbsenceAssumption ==
    /\ NoSlug \notin Slugs
    /\ NoRow \notin Row
    /\ NoCall \notin Call
    /\ NoAnswer \notin Answer

\* The table customer_views, keyed by customer_id.
Table == [Customers -> Row \cup {NoRow}]
EmptyTable == [c \in Customers |-> NoRow]

Known(table)  == {c \in Customers : table[c] # NoRow}
Taken(table)  == {table[c].slug : c \in Known(table)}

\* The row a view is stored as under a slug.
RowOf(s, v) ==
    [slug     |-> s,
     body     |-> v.body,
     language |-> IF v.language = NoLanguage THEN English ELSE v.language]
=============================================================================
