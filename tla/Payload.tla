------------------------------ MODULE Payload ------------------------------
(***************************************************************************)
(* What happens to the content of a push before it reaches the store: the  *)
(* checks of board.CustomerView.Validate and the trimming of               *)
(* ingest.normalize, as operators.                                         *)
(*                                                                         *)
(* A text is known by its size only: `pad' blanks around `chars'           *)
(* characters that take `bytes' bytes of UTF-8.  The blanks are ASCII.  A  *)
(* link is absent, an http(s) URL, or anything else; a language tag is     *)
(* absent, matches languagePattern, or does not; a rating is in tenths.    *)
(***************************************************************************)
EXTENDS Integers, Sequences, FiniteSetsExt

CONSTANT NoRating   \* Product.Rating is nil

Text == [pad : Nat, chars : Nat, bytes : Nat]

\* Go's len, the number of characters, and strings.TrimSpace.
Bytes(t) == t.pad + t.bytes
Characters(t) == t.pad + t.chars
TrimSpace(t) == [t EXCEPT !.pad = 0]

Links == {"absent", "web", "other"}
Tags  == {"absent", "well-formed", "malformed"}

Product == [category : Text, title : Text, recommendation : Text,
            specs : Nat, rating : Int \cup {NoRating},
            highlights : Seq(Text), pros : Seq(Text), cons : Seq(Text),
            affiliate_link : Links, image_url : Links, price : Text, badge : Text]

CustomerView == [customer_id : Text, client_name : Text, intro : Text,
                 language : Tags, products : Seq(Product)]

maxClientNameLen     == 120
maxTitleLen          == 200
maxRecommendationLen == 2000
maxProducts          == 100
maxSpecsPerProduct   == 20
maxHighlights        == 5
maxHighlightLen      == 160
maxPros              == 10
maxCons              == 10
maxProConLen         == 300
-----------------------------------------------------------------------------
Empty(t) == Bytes(t) = 0

\* A list with too many items, or an item that is too long.
Overfull(list, most, longest) ==
    Len(list) > most \/ \E i \in DOMAIN list : Bytes(list[i]) > longest

\* The checks of Product.validate in their order, each with the field it blames.
ProductChecks(p) ==
    << <<"category", Empty(p.category)>>,
       <<"title", Empty(p.title) \/ Bytes(p.title) > maxTitleLen>>,
       <<"recommendation", Bytes(p.recommendation) > maxRecommendationLen>>,
       <<"specs", p.specs > maxSpecsPerProduct>>,
       <<"rating", p.rating # NoRating /\ p.rating \notin 0 .. 50>>,
       <<"highlights", Overfull(p.highlights, maxHighlights, maxHighlightLen)>>,
       <<"pros", Overfull(p.pros, maxPros, maxProConLen)>>,
       <<"cons", Overfull(p.cons, maxCons, maxProConLen)>>,
       <<"affiliate_link", p.affiliate_link = "other">>,
       <<"image_url", p.image_url = "other">> >>

\* The checks of CustomerView.Validate before the loop over the products.
ViewChecks(v) ==
    << <<"customer_id", Empty(v.customer_id)>>,
       <<"client_name", Empty(v.client_name) \/ Bytes(v.client_name) > maxClientNameLen>>,
       <<"language", v.language = "malformed">>,
       <<"products", Len(v.products) = 0 \/ Len(v.products) > maxProducts>> >>

\* The field of the first check that fails, or "none".
FirstFailure(checks) ==
    LET failing == {i \in DOMAIN checks : checks[i][2]}
    IN  IF failing = {} THEN "none" ELSE checks[Min(failing)][1]

\* The field of the error Validate returns, or "none" for a nil error: that of
\* the view itself, or that of the first product with one.
Validate(v) ==
    LET own == FirstFailure(ViewChecks(v))
        fault(i) == FirstFailure(ProductChecks(v.products[i]))
        faulty == {i \in DOMAIN v.products : fault(i) # "none"}
    IN  IF own # "none" \/ faulty = {} THEN own ELSE fault(Min(faulty))

isURLField(field) == field \in {"affiliate_link", "image_url"}
-----------------------------------------------------------------------------
TrimProduct(p) ==
    [p EXCEPT !.category = TrimSpace(@), !.title = TrimSpace(@),
              !.recommendation = TrimSpace(@), !.price = TrimSpace(@),
              !.badge = TrimSpace(@)]

\* A product that still has the texts its tab and its card are named by.
Listed(p) == ~Empty(p.category) /\ ~Empty(p.title)

\* The list after each of its products, trimmed; one that has become empty is
\* not appended.
Kept(list) ==
    LET kept[i \in 0 .. Len(list)] ==
            IF i = 0 THEN <<>>
            ELSE LET p == TrimProduct(list[i])
                 IN  IF Listed(p) THEN Append(kept[i - 1], p) ELSE kept[i - 1]
    IN  kept

\* MUTANT of normalize: blank products are looked for before the trimming.
normalizeTrimLast(v) ==
    LET kept == SelectSeq(v.products, Listed) IN
    [v EXCEPT !.client_name = TrimSpace(@), !.intro = TrimSpace(@),
              !.products = [i \in DOMAIN kept |-> TrimProduct(kept[i])]]

\* MUTANT of normalize: nothing is dropped.
normalizeKeepAll(v) ==
    [v EXCEPT !.client_name = TrimSpace(@), !.intro = TrimSpace(@),
              !.products = [i \in DOMAIN @ |-> TrimProduct(@[i])]]

\* Trim, and drop the products that have become empty.
normalize(v) ==
    [v EXCEPT !.client_name = TrimSpace(@), !.intro = TrimSpace(@),
              !.products = Kept(@)[Len(@)]]
=============================================================================
