----------------------------- MODULE BoardView -----------------------------
(***************************************************************************)
(* internal/render/viewmodel.go: from the products of a stored board to    *)
(* what a template sees of them.                                           *)
(*                                                                         *)
(* A spec key is a number, in alphabetical order; a category is a text as  *)
(* in Slug; a rating is in hundredths.  Fields that are copied as they are *)
(* are left out.                                                           *)
(***************************************************************************)
EXTENDS Slug, Integers, FiniteSetsExt

CONSTANTS
    Boards,      \* the products of a board, as stored: some sets of them
    Dash,        \* "—"
    NoRating,    \* Product.Rating is nil
    NoView

VARIABLES
    products,    \* the board's products
    view         \* what RenderBoard hands to the template

vars == <<products, view>>

\* What Validate and normalize leave of a board: maybe no product at all.
ASSUME BoardsAssumption ==
    \A kind \in Boards : \A ps \in kind :
        /\ ps \in Seq(ToSet(ps))
        /\ \A p \in ToSet(ps) :
              /\ p.category \in Seq(Characters)
              /\ p.rating \in 0 .. 500 \cup {NoRating}
              /\ DOMAIN p.specs \subseteq Nat /\ IsFiniteSet(DOMAIN p.specs)

Init == \E kind \in Boards : products \in kind /\ view = NoView
-----------------------------------------------------------------------------
\* The categories in the order in which they appear first.
Order(ps) ==
    LET names[i \in 0 .. Len(ps)] ==
            IF i = 0 THEN <<>>
            ELSE LET known == names[i - 1] IN
                 IF Contains(known, ps[i].category) THEN known ELSE Append(known, ps[i].category)
    IN  names[Len(ps)]

\* The products of a category, in the order of the payload.
ByCategory(ps, name) ==
    LET found[i \in 0 .. Len(ps)] ==
            IF i = 0 THEN <<>>
            ELSE IF ps[i].category = name THEN Append(found[i - 1], ps[i]) ELSE found[i - 1]
    IN  found[Len(ps)]

\* The members of a finite set of numbers, each at its rank.
Sorted(S) ==
    [i \in 1 .. Cardinality(S) |-> CHOOSE k \in S : Cardinality({j \in S : j < k}) = i - 1]

\* MUTANT of unionSpecKeys: all keys are sorted, after they have been collected.
unionSpecKeysSorted(ps) ==
    Sorted(UNION {DOMAIN ps[i].specs : i \in DOMAIN ps})

\* The keys of all products, in the order in which they appear first; those that
\* one product brings are sorted.
unionSpecKeys(ps) ==
    LET keys[i \in 0 .. Len(ps)] ==
            IF i = 0 THEN <<>>
            ELSE LET seen == keys[i - 1] IN seen \o Sorted(DOMAIN ps[i].specs \ ToSet(seen))
    IN  keys[Len(ps)]

\* MUTANT of SpecCells: a product's own values, without gaps.
SpecCellsOwn(p, keys) ==
    LET own == SelectSeq(keys, LAMBDA k : k \in DOMAIN p.specs) IN
    [i \in DOMAIN own |-> p.specs[own[i]]]

\* A value, or a dash, for each key of the category.
SpecCells(p, keys) ==
    [i \in DOMAIN keys |-> IF keys[i] \in DOMAIN p.specs THEN p.specs[keys[i]] ELSE Dash]

\* MUTANT of Highlights: the facts stay in the order in which the map is ranged over.
HighlightsUnsorted(p) ==
    LET keys == Reverse(Sorted(DOMAIN p.specs))
        derived == [i \in DOMAIN keys |-> <<keys[i], p.specs[keys[i]]>>]
    IN  IF p.highlights # <<>> THEN p.highlights
        ELSE SubSeq(derived, 1, Min({2, Len(derived)}))

\* The product's own, or the first two of its specs.
Highlights(p) ==
    LET keys == Sorted(DOMAIN p.specs)
        derived == [i \in DOMAIN keys |-> <<keys[i], p.specs[keys[i]]>>]
    IN  IF p.highlights # <<>> THEN p.highlights
        ELSE SubSeq(derived, 1, Min({2, Len(derived)}))

\* MUTANT of stars: halves are cut off instead of rounded.
starsCut(rating) ==
    LET halves == (2 * Max({0, Min({500, rating})})) \div 100
        full == halves \div 2
        half == halves % 2
    IN  [i \in 1 .. 5 |-> IF i <= full THEN "full" ELSE IF i <= full + half THEN "half" ELSE "empty"]

\* The rating, between 0 and 5, to the nearest half star; halves round up.
stars(rating) ==
    LET halves == (2 * Max({0, Min({500, rating})}) + 50) \div 100
        full == halves \div 2
        half == halves % 2
    IN  [i \in 1 .. 5 |-> IF i <= full THEN "full" ELSE IF i <= full + half THEN "half" ELSE "empty"]

buildProduct(p, keys) ==
    [title |-> p.title, cells |-> SpecCells(p, keys), highlights |-> Highlights(p),
     stars |-> IF p.rating = NoRating THEN <<>> ELSE stars(p.rating)]

\* A number as it is printed.
Digit(n) == IF n = 0 THEN "0" ELSE Digits[n]

Decimal(number) ==
    LET printed[n \in 0 .. number] ==
            Append(IF n < 10 THEN <<>> ELSE printed[n \div 10], Digit(n % 10))
    IN  printed[number]

Numbered(slug, n) == slug \o <<"-">> \o Decimal(n)

\* MUTANT of uniqueAnchor: it is not looked whether slug-2 is taken.
uniqueAnchorOnce(name, used) ==
    IF Slugify(name) \in used THEN Numbered(Slugify(name), 2) ELSE Slugify(name)

\* The slug of the name, or the first of slug-2, slug-3, ... that is not taken.
uniqueAnchor(name, used) ==
    LET base == Slugify(name)
        free == {i \in 2 .. Cardinality(used) + 2 : Numbered(base, i) \notin used}
    IN  IF base \notin used THEN base ELSE Numbered(base, Min(free))

\* The anchors of the categories, each given after those before it.
Anchors(names) ==
    LET given[i \in 0 .. Len(names)] ==
            IF i = 0 THEN <<>>
            ELSE LET used == given[i - 1] IN Append(used, uniqueAnchor(names[i], ToSet(used)))
    IN  given[Len(names)]

buildCategory(name, ps, anchor) ==
    LET keys == unionSpecKeys(ps) IN
    [name |-> name, anchor |-> anchor, specKeys |-> keys,
     products |-> [i \in DOMAIN ps |-> buildProduct(ps[i], keys)]]

\* MUTANT of BuildBoardView: a new category begins whenever it changes.
BuildByRuns(ps) ==
    LET starts == SelectSeq([i \in DOMAIN ps |-> i],
                            LAMBDA i : i = 1 \/ ps[i].category # ps[i - 1].category)
        names == [i \in DOMAIN starts |-> ps[starts[i]].category]
    IN  [i \in DOMAIN names |-> buildCategory(names[i], ByCategory(ps, names[i]), Anchors(names)[i])]

BuildBoardView(ps) ==
    LET names == Order(ps) IN
    [i \in DOMAIN names |-> buildCategory(names[i], ByCategory(ps, names[i]), Anchors(names)[i])]

\* A request for the board.
RenderBoard ==
    /\ view = NoView
    /\ view' = BuildBoardView(products)
    /\ UNCHANGED products

\* The page is written.
Respond ==
    /\ view # NoView
    /\ view' = NoView
    /\ UNCHANGED products

Next == RenderBoard \/ Respond

Spec == Init /\ [][Next]_vars
-----------------------------------------------------------------------------
Rendered == view # NoView

\* Where the products of a category stand in the payload.
Places(name) == {k \in DOMAIN products : products[k].category = name}

\* Every product is shown once, under its category, in the order of the payload;
\* the categories come in the order of their first products (docs/theming.md).
EveryProductShownOnce ==
    Rendered =>
        /\ \A i \in DOMAIN view : LET name == view[i].name IN
            /\ Len(view[i].products) = Cardinality(Places(name))
            /\ \A k \in Places(name) :
                  view[i].products[Cardinality({j \in Places(name) : j <= k})].title = products[k].title
        /\ \A i, j \in DOMAIN view : i < j =>
              \E k \in Places(view[i].name) : \A l \in Places(view[j].name) : k < l
        /\ {view[i].name : i \in DOMAIN view} = {products[i].category : i \in DOMAIN products}

\* No two tabs of a board have the same anchor, whatever names slugify to, and
\* whatever name already looks like a numbered one.
AnchorsAreUnique ==
    Rendered => \A i, j \in DOMAIN view : view[i].anchor = view[j].anchor => i = j

\* A card shows the first two facts of its product, in the order of their keys.
FirstTwo(shown, specs) ==
    /\ Len(shown) = Min({2, Cardinality(DOMAIN specs)})
    /\ \A n \in DOMAIN shown : shown[n][1] \in DOMAIN specs /\ shown[n][2] = specs[shown[n][1]]
    /\ \A m, n \in DOMAIN shown : m < n => shown[m][1] < shown[n][1]
    /\ \A k \in DOMAIN specs : \/ \E n \in DOMAIN shown : shown[n][1] = k
                              \/ \A n \in DOMAIN shown : shown[n][1] < k

\* The facts of a product stay with it: under every key of the comparison table
\* it has its own value or a dash, none lost and none shifted; its card shows what
\* the operator chose, or else the first two of its facts, alphabetically
\* (docs/theming.md:107-109), the same two however Go ranges over the map.
FactsStayWithTheirProduct ==
    Rendered => \A c \in ToSet(view) :
        LET ps == ByCategory(products, c.name) IN
        \A i \in DOMAIN ps :
            LET cells == c.products[i].cells
                shown == c.products[i].highlights
            IN  /\ Len(cells) = Len(c.specKeys)
                /\ \A k \in DOMAIN ps[i].specs : \E n \in DOMAIN cells :
                      c.specKeys[n] = k /\ cells[n] = ps[i].specs[k]
                /\ \A n \in DOMAIN cells :
                      c.specKeys[n] \notin DOMAIN ps[i].specs => cells[n] = Dash
                /\ IF ps[i].highlights # <<>> THEN shown = ps[i].highlights
                   ELSE FirstTwo(shown, ps[i].specs)

\* A category's keys are in the order of the products that bring them first
\* (docs/theming.md), and each is there once.
KeysAppearInOrder ==
    Rendered => \A c \in ToSet(view) :
        LET ps == ByCategory(products, c.name)
            first(k) == Min({i \in DOMAIN ps : k \in DOMAIN ps[i].specs})
        IN  \A m, n \in DOMAIN c.specKeys : m < n =>
                \/ first(c.specKeys[m]) < first(c.specKeys[n])
                \/ /\ first(c.specKeys[m]) = first(c.specKeys[n])
                   /\ c.specKeys[m] < c.specKeys[n]

\* Five stars, full ones first, at most a quarter of a star from the rating.
StarsAreNearest ==
    Rendered => \A c \in ToSet(view) :
        LET ps == ByCategory(products, c.name) IN
        \A i \in DOMAIN ps : ps[i].rating # NoRating =>
            LET shown == c.products[i].stars
                full == Cardinality({n \in 1 .. 5 : shown[n] = "full"})
                half == Cardinality({n \in 1 .. 5 : shown[n] = "half"})
            IN  /\ Len(shown) = 5 /\ half <= 1
                /\ \A n \in 1 .. 4 : shown[n] = "empty" => shown[n + 1] = "empty"
                /\ \A n \in 1 .. 4 : shown[n + 1] = "full" => shown[n] = "full"
                /\ 100 * full + 50 * half - ps[i].rating \in -25 .. 25
-----------------------------------------------------------------------------
\* The first tab's anchor is the slug of its name, as nothing is taken yet.
firstName == view[1].name
firstSlug == view[1].anchor

demo == <<"d", "e", "m", "o">>
Entropy == {[i \in 1 .. 6 |-> IF i = 1 THEN 255 ELSE b] : b \in {0, 61, 62, 255}}

\* An anchor can stand in a URL, numbered or not; a slug is not empty, not too
\* long, and has no dash at either end or beside another, even where a long name
\* was cut.  The address of a client of that name can stand in a URL, and is not
\* hidden behind the demo, whose route main puts before the router.
SlugIsClean ==
    Rendered =>
        /\ \A c \in ToSet(view) :
            /\ ToSet(c.anchor) \subseteq Letters \cup ToSet(board) \cup {"-"}
            /\ c.anchor[1] # "-" /\ c.anchor[Len(c.anchor)] # "-"
            /\ \A i \in 1 .. Len(c.anchor) - 1 : c.anchor[i] # "-" \/ c.anchor[i + 1] # "-"
        /\ view # <<>> =>
           /\ Len(firstSlug) \in 1 .. maxSlugifiedLen
           /\ \A bytes \in Entropy : LET address == For(firstName, bytes) IN
                 /\ ToSet(address) \subseteq ToSet(base62Alphabet) \cup ToSet(board) \cup {"-"}
                 /\ address # demo

\* No letter or digit of a name is lost or changed, up to where a long name is
\* cut, and there is a dash between two of them exactly if something else was
\* between them in the name; a name without any is a board.
SlugKeepsTheName ==
    Rendered /\ view # <<>> =>
        LET typed == Transliterate(ToLower(firstName))
            of(s) == Sorted({i \in DOMAIN s : s[i] \in Letters})
            letters(s) == [n \in DOMAIN of(s) |-> s[of(s)[n]]]
            split(s, n) == of(s)[n + 1] > of(s)[n] + 1
        IN  IF letters(typed) = <<>> THEN firstSlug = board
            ELSE /\ IsPrefix(letters(firstSlug), letters(typed))
                 /\ letters(firstSlug) # letters(typed) =>
                        Len(firstSlug) \in {maxSlugifiedLen - 1, maxSlugifiedLen}
                 /\ \A n \in 1 .. Len(of(firstSlug)) - 1 : split(firstSlug, n) <=> split(typed, n)
=============================================================================
