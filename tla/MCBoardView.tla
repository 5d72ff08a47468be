---------------------------- MODULE MCBoardView ----------------------------
(***************************************************************************)
(* Instances of BoardView for TLC: all small boards of four kinds, rich    *)
(* products in few categories, plain products in many, one product of any  *)
(* rating, one product in a category of any name.                          *)
(***************************************************************************)
EXTENDS BoardView, Functions

\* Categories whose slugs collide: "A" and "a" with each other, "a 2" with the
\* number the second of them gets, "a 2 0" and "a 2 e" when they are cut.
A   == <<"A">>
a   == <<"a">>
a2  == <<"a", "!", "2">>
a20 == <<"a", "!", "2", "!", "0">>
a2e == <<"a", "!", "2", "!", "e">>

Product(title, category, keys, highlights, rating) ==
    [title |-> title, category |-> category, highlights |-> highlights, rating |-> rating,
     specs |-> [k \in keys |-> <<title, k>>]]

Rich(n) ==
    {[i \in 1 .. n |-> Product(i, cs[i], ks[i], hs[i], NoRating)] :
        cs \in [1 .. n -> {A, a2}],
        ks \in [1 .. n -> {{}, {2}, {3}, {1, 3}, {1, 2, 3}}],
        hs \in [1 .. n -> {<<>>, <<"own">>}]}

ManyCategories ==
    {[i \in 1 .. 5 |-> Product(i, cs[i], {1}, <<>>, NoRating)] :
        cs \in [1 .. 5 -> {A, a, a2, a20, a2e}]}

AnyRating == {<<Product(1, a, {}, <<"own">>, r)>> : r \in 0 .. 500}

\* All names of up to five characters; the "e" only comes from umlauts.
AnyName ==
    {<<Product(1, c, {}, <<>>, NoRating)>> :
        c \in SeqOf({"a", "A", "0", "ä", "Ä", "-", "!"}, 5) \ {<<>>}}

SmallBoards == {{<<>>}, Rich(2), Rich(3), ManyCategories, AnyRating, AnyName}
=============================================================================
