----------------------------- MODULE MCWebhook -----------------------------
(***************************************************************************)
(* The requests TLC sends through Webhook: a good push, and every push     *)
(* that differs from it in one part of the envelope, in one field of the   *)
(* view, in one field of its product, or in one field of each of its two   *)
(* products.                                                               *)
(***************************************************************************)
EXTENDS Webhook

Plain(n)   == [pad |-> 0, chars |-> n, bytes |-> n]
Padded(n)  == [pad |-> 1, chars |-> n, bytes |-> n]
Wide(n)    == [pad |-> 0, chars |-> n, bytes |-> 2 * n]

\* Nothing, only blanks, a padded word, and both sides of a limit.
TextsUpTo(limit) ==
    {Plain(0), Padded(0), Padded(4), Plain(limit), Plain(limit + 1),
     Padded(limit), Wide(limit)}

GoodProduct ==
    [category |-> Plain(8), title |-> Plain(8), recommendation |-> Plain(0),
     specs |-> 2, rating |-> 45, highlights |-> <<>>, pros |-> <<>>, cons |-> <<>>,
     affiliate_link |-> "web", image_url |-> "absent",
     price |-> Plain(0), badge |-> Plain(0)]

GoodView ==
    [customer_id |-> Plain(4), client_name |-> Plain(4), intro |-> Plain(0),
     language |-> "absent", products |-> <<GoodProduct>>]

Lists(most, longest) ==
    {[i \in 1 .. n |-> Plain(1)] : n \in {most, most + 1}}
    \cup {<<Plain(1), Plain(longest + 1)>>, <<Plain(longest)>>, <<Wide(longest)>>}

ProductsNearGood ==
    {GoodProduct}
    \cup {[GoodProduct EXCEPT !.category = t] : t \in TextsUpTo(8)}
    \cup {[GoodProduct EXCEPT !.title = t] : t \in TextsUpTo(maxTitleLen)}
    \cup {[GoodProduct EXCEPT !.recommendation = t] : t \in TextsUpTo(maxRecommendationLen)}
    \cup {[GoodProduct EXCEPT !.specs = n] : n \in {maxSpecsPerProduct, maxSpecsPerProduct + 1}}
    \cup {[GoodProduct EXCEPT !.rating = n] : n \in {-1, 0, 50, 51, NoRating}}
    \cup {[GoodProduct EXCEPT !.highlights = l] : l \in Lists(maxHighlights, maxHighlightLen)}
    \cup {[GoodProduct EXCEPT !.pros = l] : l \in Lists(maxPros, maxProConLen)}
    \cup {[GoodProduct EXCEPT !.cons = l] : l \in Lists(maxCons, maxProConLen)}
    \cup {[GoodProduct EXCEPT !.affiliate_link = u] : u \in Links}
    \cup {[GoodProduct EXCEPT !.image_url = u, !.title = t] :
             u \in Links, t \in TextsUpTo(maxTitleLen)}
    \cup {[GoodProduct EXCEPT !.price = t] : t \in TextsUpTo(8)}

Views ==
    {[GoodView EXCEPT !.customer_id = t] : t \in TextsUpTo(8)}
    \cup {[GoodView EXCEPT !.client_name = t] : t \in TextsUpTo(maxClientNameLen)}
    \cup {[GoodView EXCEPT !.intro = t] : t \in TextsUpTo(8)}
    \cup {[GoodView EXCEPT !.language = g] : g \in Tags}
    \cup {[GoodView EXCEPT !.products = [i \in 1 .. n |-> GoodProduct]] :
             n \in {0, maxProducts, maxProducts + 1}}
    \cup {[GoodView EXCEPT !.products = <<p>>] : p \in ProductsNearGood}
    \cup {[GoodView EXCEPT !.products = <<p, q>>] : p, q \in ProductsNearGood}

Good ==
    [secret |-> "right", size |-> "fits", form |-> "ok", top |-> {"exact"},
     products |-> "exact", inner |-> <<{"exact"}>>, view |-> GoodView]

Pushing(v) ==
    [Good EXCEPT !.view = v, !.inner = [i \in DOMAIN v.products |-> {"exact"}]]

\* How the keys of an object with required fields can be spelled.
KeySets == {keys \in SUBSET Spellings : keys \cap {"exact", "folded"} # {}}

Pushes ==
    {Pushing(v) : v \in Views}
    \cup {[Good EXCEPT !.secret = s, !.size = z, !.form = f] :
             s \in {"right", "wrong", "missing"},
             z \in {"fits", "too large", "cut off"}, f \in {"ok", "malformed"}}
    \cup {[Pushing([GoodView EXCEPT !.products = <<GoodProduct, GoodProduct>>])
             EXCEPT !.top = t, !.products = p, !.inner = <<k, l>>] :
             t \in KeySets, p \in {"exact", "folded"}, k \in KeySets, l \in KeySets}
=============================================================================
