--------------------------- MODULE BoardViewProofs ---------------------------
(***************************************************************************)
(* Proofs about BoardView and Slug, for any number of products, categories *)
(* and specs and for names of any length.                                  *)
(*                                                                         *)
(* The loops of the code are recursive functions.  That such a function    *)
(* exists is Iterates; what it computes is shown by Induction over the     *)
(* numbers of its iterations, both stated for sets and functions.          *)
(***************************************************************************)
EXTENDS BoardView, TLAPS, WellFoundedInduction, FiniteSetTheorems

\* Every set of numbers that is not empty has a least one.
LEMMA HasLeast ==
    ASSUME NEW S \in SUBSET Nat, S # {}
    PROVE  \E n \in S : \A m \in S : n <= m
  <1> DEFINE less == {p \in Nat \X Nat : p[1] < p[2]}
  <1>1. less = OpToRel(<, Nat)
    BY DEF OpToRel
  <1>2. IsWellFoundedOn(less, Nat)
    BY <1>1, NatLessThanWellFounded
  <1>3. \E n \in S : \A m \in S : ~ (<<m, n>> \in less)
    <2> HIDE DEF less
    <2> QED BY <1>2, WFMin
  <1>4. PICK n \in S : \A m \in S : ~ (<<m, n>> \in less)
    BY <1>3
  <1>5. \A m \in S : ~ (m < n)
    <2> SUFFICES ASSUME NEW m \in S, m < n PROVE FALSE
      OBVIOUS
    <2>1. <<m, n>> \in Nat \X Nat
      OBVIOUS
    <2>2. <<m, n>> \in less
      BY <2>1
    <2> QED BY <1>4, <2>2
  <1> HIDE DEF less
  <1> QED
    BY <1>5

\* Every bounded one has a greatest.
LEMMA HasGreatest ==
    ASSUME NEW N \in Nat, NEW S \in SUBSET (0 .. N), S # {}
    PROVE  \E n \in S : \A m \in S : n >= m
  <1> DEFINE T == {N - n : n \in S}
  <1>1. T \in SUBSET Nat /\ T # {}
    <2>1. \A n \in S : N - n \in Nat
      OBVIOUS
    <2>2. PICK n \in S : TRUE
      OBVIOUS
    <2>3. N - n \in T
      OBVIOUS
    <2> QED
      BY <2>1, <2>3
  <1>2. PICK t \in T : \A u \in T : t <= u
    <2> HIDE DEF T
    <2> QED
      BY <1>1, HasLeast
  <1>3. PICK n \in S : t = N - n
    OBVIOUS
  <1>4. \A m \in S : N - m \in T
    OBVIOUS
  <1>5. \A m \in S : N - n <= N - m
    BY <1>2, <1>3, <1>4
  <1> QED
    BY <1>5

\* Min finds the least number.
LEMMA MinIsLeast ==
    ASSUME NEW S \in SUBSET Nat, S # {}
    PROVE  Min(S) \in S /\ \A m \in S : Min(S) <= m
  BY HasLeast DEF Min

\* What holds before the first iteration, and after each one if before it, holds
\* after all of them.
LEMMA Induction ==
    ASSUME NEW n \in Nat, NEW S, 0 \in S, \A i \in 1 .. n : i - 1 \in S => i \in S
    PROVE  \A i \in 0 .. n : i \in S
  <1> DEFINE bad == {i \in 0 .. n : i \notin S}
  <1>1. SUFFICES ASSUME bad # {} PROVE FALSE
    OBVIOUS
  <1>2. PICK i \in bad : \A j \in bad : i <= j
    <2>1. bad \in SUBSET Nat
      OBVIOUS
    <2> HIDE DEF bad
    <2> QED
      BY <1>1, <2>1, HasLeast
  <1>3. i \in 1 .. n /\ i - 1 \in 0 .. n /\ i - 1 \notin bad
    BY <1>2
  <1> QED
    BY <1>3

\* What n iterations make of what is known before each of them.
Steps(n, X) == [(1 .. n) \X X -> X]

\* A loop has a result: for what is known before it, and for what each iteration
\* makes of what is known.
LEMMA Iterates ==
    ASSUME NEW n \in Nat, NEW X, NEW base \in X, NEW step \in Steps(n, X)
    PROVE  \E f \in [0 .. n -> X] :
              f[0] = base /\ \A i \in 1 .. n : f[i] = step[<<i, f[i - 1]>>]
  <1> DEFINE Solves(f, m) == \A i \in 0 .. m : f[i] = IF i = 0 THEN base ELSE step[<<i, f[i - 1]>>]
             S == {m \in 0 .. n : \E f \in [0 .. m -> X] : Solves(f, m)}
  <1>1. 0 \in S
    <2> DEFINE f == [i \in 0 .. 0 |-> base]
    <2>1. f \in [0 .. 0 -> X]
      OBVIOUS
    <2>2. Solves(f, 0)
      OBVIOUS
    <2> HIDE DEF f
    <2>3. \E g \in [0 .. 0 -> X] : Solves(g, 0)
      BY <2>1, <2>2
    <2> QED
      BY <2>3
  <1>2. ASSUME NEW m \in 1 .. n, m - 1 \in S PROVE m \in S
    <2>1. PICK g \in [0 .. m - 1 -> X] : Solves(g, m - 1)
      BY <1>2
    <2> DEFINE last == step[<<m, g[m - 1]>>]
               f == [i \in 0 .. m |-> IF i = m THEN last ELSE g[i]]
    <2>2. last \in X
      <3>1. g[m - 1] \in X /\ m - 1 \in 0 .. m - 1
        BY <2>1
      <3>2. <<m, g[m - 1]>> \in (1 .. n) \X X
        BY <3>1
      <3> QED
        BY <3>2 DEF Steps
    <2>3. f \in [0 .. m -> X]
      <3> HIDE DEF last
      <3>1. \A i \in 0 .. m : i # m => i \in 0 .. m - 1
        OBVIOUS
      <3> QED
        BY <2>1, <2>2, <3>1
    <2>4. ASSUME NEW i \in 0 .. m PROVE f[i] = IF i = 0 THEN base ELSE step[<<i, f[i - 1]>>]
      <3> HIDE DEF last
      <3>1. CASE i = m
        <4>1. i # 0 /\ m - 1 \in 0 .. m /\ m - 1 # m
          BY <3>1
        <4>2. f[m] = last /\ f[m - 1] = g[m - 1]
          BY <4>1
        <4> QED
          BY <3>1, <4>1, <4>2 DEF last
      <3>2. CASE i # m
        <4>1. i \in 0 .. m - 1
          BY <3>2
        <4>2. f[i] = g[i] /\ (i # 0 => f[i - 1] = g[i - 1])
          BY <3>2, <4>1
        <4> HIDE DEF f
        <4> QED
          BY <2>1, <4>1, <4>2
      <3> QED
        BY <3>1, <3>2
    <2> QED
      <3> HIDE DEF f
      <3>1. Solves(f, m)
        BY <2>4
      <3> QED
        BY <2>3, <3>1
  <1>3. n \in S
    <2> HIDE DEF S
    <2> QED
      BY <1>1, <1>2, Induction
  <1>4. PICK f \in [0 .. n -> X] : Solves(f, n)
    BY <1>3
  <1>5. f[0] = base /\ \A i \in 1 .. n : f[i] = step[<<i, f[i - 1]>>]
    <2>1. \A i \in 0 .. n : f[i] = IF i = 0 THEN base ELSE step[<<i, f[i - 1]>>]
      BY <1>4
    <2>2. 0 \in 0 .. n /\ \A i \in 1 .. n : i \in 0 .. n /\ i # 0
      OBVIOUS
    <2> QED
      BY <2>1, <2>2
  <1> QED
    BY <1>5
-----------------------------------------------------------------------------
\* A board of the assumption.
Stored(ps) ==
    /\ ps \in Seq(ToSet(ps))
    /\ \A p \in ToSet(ps) :
          /\ p.category \in Seq(Characters)
          /\ p.rating \in 0 .. 500 \cup {NoRating}
          /\ DOMAIN p.specs \subseteq Nat /\ IsFiniteSet(DOMAIN p.specs)

Categories(ps) == {p.category : p \in ToSet(ps)}

\* The facts about sequences that the loops need.
LEMMA AppendFacts ==
    ASSUME NEW C, NEW s \in Seq(C), NEW x \in C
    PROVE  /\ Append(s, x) \in Seq(C)
           /\ Len(Append(s, x)) = Len(s) + 1
           /\ Append(s, x)[Len(s) + 1] = x
           /\ \A i \in 1 .. Len(s) : Append(s, x)[i] = s[i]
  OBVIOUS

\* A product of a board.
LEMMA ItsProducts ==
    ASSUME NEW ps, Stored(ps)
    PROVE  /\ Len(ps) \in Nat /\ DOMAIN ps = 1 .. Len(ps)
           /\ \A i \in 1 .. Len(ps) : ps[i] \in ToSet(ps) /\ ps[i].category \in Categories(ps)
           /\ \A p \in ToSet(ps) : \E i \in 1 .. Len(ps) : p = ps[i]
  <1>1. /\ Len(ps) \in Nat /\ DOMAIN ps = 1 .. Len(ps)
    <2>1. \A C : ps \in Seq(C) => Len(ps) \in Nat /\ DOMAIN ps = 1 .. Len(ps)
      OBVIOUS
    <2> QED
      BY <2>1 DEF Stored
  <1> QED
    BY <1>1 DEF ToSet, Categories

\* An iteration of the loop that collects the categories.
NextName(ps, names, i) ==
    IF Contains(names, ps[i].category) THEN names ELSE Append(names, ps[i].category)

\* Order is that loop.
LEMMA OrderDefinition ==
    ASSUME NEW ps, Stored(ps)
    PROVE  \E names :
              /\ Order(ps) = names[Len(ps)]
              /\ names[0] = <<>>
              /\ \A i \in 1 .. Len(ps) : names[i] = NextName(ps, names[i - 1], i)
  <1> DEFINE n == Len(ps)
             X == Seq(Categories(ps))
             step == [p \in (1 .. n) \X X |-> NextName(ps, p[2], p[1])]
             Body(f) == [i \in 0 .. n |-> IF i = 0 THEN <<>> ELSE NextName(ps, f[i - 1], i)]
  <1>1. n \in Nat /\ \A i \in 1 .. n : ps[i].category \in Categories(ps)
    BY ItsProducts
  <1> HIDE DEF n
  <1>2. <<>> \in X
    OBVIOUS
  <1>3. step \in Steps(n, X)
    <2>1. \A i \in 1 .. n, s \in X : NextName(ps, s, i) \in X
      BY <1>1, AppendFacts DEF NextName
    <2> HIDE DEF X
    <2> QED
      BY <2>1 DEF Steps
  <1>4. PICK f \in [0 .. n -> X] : f[0] = <<>> /\ \A i \in 1 .. n : f[i] = step[<<i, f[i - 1]>>]
    <2> HIDE DEF X, step
    <2> QED
      BY <1>1, <1>2, <1>3, Iterates
  <1>5. f = Body(f)
    <2>1. \A i \in 1 .. n : step[<<i, f[i - 1]>>] = NextName(ps, f[i - 1], i)
      <3>1. \A i \in 1 .. n : f[i - 1] \in X
        <4>1. \A i \in 1 .. n : i - 1 \in 0 .. n
          BY <1>1
        <4> HIDE DEF X
        <4> QED
          BY <4>1
      <3>2. \A i \in 1 .. n, s \in X : step[<<i, s>>] = NextName(ps, s, i)
        <4> HIDE DEF X
        <4> QED
          OBVIOUS
      <3> HIDE DEF X, step
      <3> QED
        BY <3>1, <3>2
    <2>2. \A i \in 0 .. n : i = 0 \/ i \in 1 .. n
      BY <1>1
    <2> HIDE DEF X, step
    <2>3. f = [i \in 0 .. n |-> f[i]]
      OBVIOUS
    <2>4. \A i \in 0 .. n : f[i] = IF i = 0 THEN <<>> ELSE NextName(ps, f[i - 1], i)
      BY <1>1, <1>4, <2>1, <2>2
    <2> QED
      BY <2>3, <2>4
  <1> DEFINE names == CHOOSE g : g = Body(g)
  <1>6. names = Body(names)
    <2> HIDE DEF Body
    <2> QED
      BY <1>5
  <1>7. Order(ps) = names[Len(ps)]
    BY DEF Order, NextName, n
  <1> HIDE DEF names
  <1>8. names[0] = <<>> /\ \A i \in 1 .. n : names[i] = NextName(ps, names[i - 1], i)
    BY <1>1, <1>6
  <1> QED
    BY <1>7, <1>8 DEF n
\* The categories after some products: each that has appeared, once, after those
\* that appeared before it.
NamesOK(ps, names, n) ==
    /\ names \in Seq(Categories(ps))
    /\ \A k \in 1 .. n : \E i \in 1 .. Len(names) : names[i] = ps[k].category
    /\ \A i, j \in 1 .. Len(names) : names[i] = names[j] => i = j
    /\ \A i \in 1 .. Len(names) : \E k \in 1 .. n :
          /\ ps[k].category = names[i]
          /\ \A j \in 1 .. Len(names), l \in 1 .. n : i < j /\ ps[l].category = names[j] => k < l

\* An iteration keeps them so.
LEMMA NextNameOK ==
    ASSUME NEW ps, Stored(ps), NEW n \in 1 .. Len(ps), NEW names, NamesOK(ps, names, n - 1)
    PROVE  NamesOK(ps, NextName(ps, names, n), n)
  <1> DEFINE c == ps[n].category
             after == Append(names, c)
  <1>1. c \in Categories(ps) /\ Len(ps) \in Nat
    BY ItsProducts
  <1>2. names \in Seq(Categories(ps)) /\ Len(names) \in Nat
    BY DEF NamesOK
  <1>3. \A k \in 1 .. n : k \in 1 .. n - 1 \/ k = n
    BY <1>1
  <1>4. \A k \in 1 .. n - 1 : k \in 1 .. n /\ k < n
    BY <1>1
  <1>5. CASE \E i \in 1 .. Len(names) : names[i] = c
    <2>1. NextName(ps, names, n) = names
      BY <1>5 DEF NextName, Contains
    <2>2. \A k \in 1 .. n : \E i \in 1 .. Len(names) : names[i] = ps[k].category
      BY <1>3, <1>5 DEF NamesOK
    <2>3. ASSUME NEW i \in 1 .. Len(names)
          PROVE  \E k \in 1 .. n :
                    /\ ps[k].category = names[i]
                    /\ \A j \in 1 .. Len(names), l \in 1 .. n :
                          i < j /\ ps[l].category = names[j] => k < l
      <3>1. PICK k \in 1 .. n - 1 :
                    /\ ps[k].category = names[i]
                    /\ \A j \in 1 .. Len(names), l \in 1 .. n - 1 :
                          i < j /\ ps[l].category = names[j] => k < l
        BY DEF NamesOK
      <3> QED
        BY <3>1, <1>3, <1>4
    <2> QED
      BY <2>1, <2>2, <2>3 DEF NamesOK
  <1>6. CASE \A i \in 1 .. Len(names) : names[i] # c
    <2>1. NextName(ps, names, n) = after
      BY <1>6 DEF NextName, Contains
    <2>2. /\ after \in Seq(Categories(ps))
          /\ Len(after) = Len(names) + 1
          /\ after[Len(names) + 1] = c
          /\ \A i \in 1 .. Len(names) : after[i] = names[i]
      BY <1>1, <1>2, AppendFacts
    <2> HIDE DEF after, c
    <2>3. \A i \in 1 .. Len(after) : i \in 1 .. Len(names) \/ i = Len(names) + 1
      BY <1>2, <2>2
    <2>4. \A i \in 1 .. Len(names) : i \in 1 .. Len(after) /\ i < Len(names) + 1
      BY <1>2, <2>2
    <2>5. Len(names) + 1 \in 1 .. Len(after)
      BY <1>2, <2>2
    <2>6. \A k \in 1 .. n : \E i \in 1 .. Len(after) : after[i] = ps[k].category
      <3>1. \A k \in 1 .. n - 1 : \E i \in 1 .. Len(names) : names[i] = ps[k].category
        BY DEF NamesOK
      <3>2. ps[n].category = after[Len(names) + 1]
        BY <2>2 DEF c
      <3> QED
        BY <1>3, <2>2, <2>4, <2>5, <3>1, <3>2
    <2>7. \A i, j \in 1 .. Len(after) : after[i] = after[j] => i = j
      <3>1. \A i, j \in 1 .. Len(names) : names[i] = names[j] => i = j
        BY DEF NamesOK
      <3> QED
        BY <1>6, <2>2, <2>3, <3>1
    <2>8. ASSUME NEW l \in 1 .. n, ps[l].category = c PROVE l = n
      <3>1. \A k \in 1 .. n - 1 : ps[k].category # c
        BY <1>6 DEF NamesOK
      <3> QED
        BY <1>3, <2>8, <3>1
    <2>9. ASSUME NEW i \in 1 .. Len(after)
          PROVE  \E k \in 1 .. n :
                    /\ ps[k].category = after[i]
                    /\ \A j \in 1 .. Len(after), l \in 1 .. n :
                          i < j /\ ps[l].category = after[j] => k < l
      <3>1. CASE i = Len(names) + 1
        <4>1. n \in 1 .. n /\ ps[n].category = after[i]
          BY <1>1, <2>2, <3>1 DEF c
        <4>2. \A j \in 1 .. Len(after) : ~ (i < j)
          BY <1>2, <2>2, <3>1
        <4> QED
          BY <4>1, <4>2
      <3>2. CASE i \in 1 .. Len(names)
        <4>1. PICK k \in 1 .. n - 1 :
                    /\ ps[k].category = names[i]
                    /\ \A j \in 1 .. Len(names), l \in 1 .. n - 1 :
                          i < j /\ ps[l].category = names[j] => k < l
          BY <3>2 DEF NamesOK
        <4>2. ASSUME NEW j \in 1 .. Len(after), NEW l \in 1 .. n, i < j, ps[l].category = after[j]
              PROVE  k < l
          <5>1. CASE l = n
            BY <1>4, <5>1
          <5>2. CASE l # n
            <6>1. l \in 1 .. n - 1 /\ j \in 1 .. Len(names)
              BY <1>3, <2>2, <2>3, <2>8, <4>2, <5>2
            <6> QED
              BY <2>2, <4>1, <4>2, <6>1
          <5> QED
            BY <5>1, <5>2
        <4> QED
          BY <1>4, <2>2, <3>2, <4>1, <4>2
      <3> QED
        BY <2>3, <3>1, <3>2
    <2> QED
      BY <2>1, <2>2, <2>6, <2>7, <2>9 DEF NamesOK
  <1> QED
    BY <1>5, <1>6

\* So they are at the end.
LEMMA OrderOK ==
    ASSUME NEW ps, Stored(ps)
    PROVE  NamesOK(ps, Order(ps), Len(ps))
  <1>1. PICK names : /\ Order(ps) = names[Len(ps)]
                     /\ names[0] = <<>>
                     /\ \A i \in 1 .. Len(ps) : names[i] = NextName(ps, names[i - 1], i)
    BY OrderDefinition
  <1> DEFINE S == {i \in 0 .. Len(ps) : NamesOK(ps, names[i], i)}
  <1>2. Len(ps) \in Nat
    BY ItsProducts
  <1>3. 0 \in S
    <2>1. \A C : <<>> \in Seq(C) /\ Len(<<>>) = 0
      OBVIOUS
    <2>2. \A i \in 1 .. 0 : FALSE
      OBVIOUS
    <2>3. NamesOK(ps, <<>>, 0)
      BY <2>1, <2>2 DEF NamesOK
    <2> QED
      BY <1>1, <1>2, <2>3
  <1>4. \A i \in 1 .. Len(ps) : i - 1 \in S => i \in S
    BY <1>1, <1>2, NextNameOK
  <1>5. Len(ps) \in S
    <2>1. Len(ps) \in 0 .. Len(ps)
      BY <1>2
    <2> HIDE DEF S
    <2>2. \A i \in 0 .. Len(ps) : i \in S
      BY <1>2, <1>3, <1>4, Induction
    <2> QED
      BY <2>1, <2>2
  <1> QED
    BY <1>1, <1>5
-----------------------------------------------------------------------------
\* A text as a URL can have it: nothing else in it, and dashes only between
\* other characters, one at a time.
SlugChars == Letters \cup ToSet(board) \cup {"-"}
SingleDashes(s) == \A i \in 1 .. Len(s) - 1 : s[i] # "-" \/ s[i + 1] # "-"
Neat(s) ==
    /\ s \in Seq(SlugChars) /\ Len(s) >= 1
    /\ SingleDashes(s)
    /\ s[1] # "-" /\ s[Len(s)] # "-"

\* The characters of a URL.
LEMMA Chars ==
    /\ "-" \notin Letters /\ "-" # "board"
    /\ ToSet(board) = {"board"}
    /\ \A n \in 0 .. 9 : Digit(n) \in Letters
    /\ \A m, n \in 0 .. 9 : Digit(m) = Digit(n) => m = n
  <1>1. ToSet(Digits) = {"1", "2", "3", "4", "5", "6", "7", "8", "9"}
    BY DEF ToSet, Digits
  <1>2. ToSet(board) = {"board"}
    BY DEF ToSet, board
  <1>3. "-" \notin Letters /\ "-" # "board"
    BY <1>1 DEF Letters
  <1>4. \A n \in 0 .. 9 : Digit(n) \in Letters
    BY DEF Digit, Letters, ToSet, Digits
  <1>5. \A m, n \in 0 .. 9 : Digit(m) = Digit(n) => m = n
    BY DEF Digit, Digits
  <1> QED
    BY <1>2, <1>3, <1>4, <1>5

\* A part of a sequence.
LEMMA SubSeqFacts ==
    ASSUME NEW C, NEW s \in Seq(C), NEW a \in 1 .. Len(s), NEW b \in a .. Len(s)
    PROVE  /\ SubSeq(s, a, b) \in Seq(C)
           /\ Len(SubSeq(s, a, b)) = b - a + 1
           /\ \A i \in 1 .. b - a + 1 : SubSeq(s, a, b)[i] = s[a + i - 1]
  OBVIOUS

\* A part of a text has no dashes beside each other if the text has none.
LEMMA PartOfSingle ==
    ASSUME NEW C, NEW s \in Seq(C), NEW a \in 1 .. Len(s), NEW b \in a .. Len(s), SingleDashes(s)
    PROVE  SingleDashes(SubSeq(s, a, b))
  <1> SUFFICES ASSUME NEW i \in 1 .. b - a
               PROVE  SubSeq(s, a, b)[i] # "-" \/ SubSeq(s, a, b)[i + 1] # "-"
    BY SubSeqFacts DEF SingleDashes
  <1>1. SubSeq(s, a, b)[i] = s[a + i - 1] /\ SubSeq(s, a, b)[i + 1] = s[a + i]
    <2>1. i \in 1 .. b - a + 1 /\ i + 1 \in 1 .. b - a + 1 /\ a + (i + 1) - 1 = a + i
      OBVIOUS
    <2> QED
      BY <2>1, SubSeqFacts
  <1>2. a + i - 1 \in 1 .. Len(s) - 1 /\ (a + i - 1) + 1 = a + i
    OBVIOUS
  <1> QED
    BY <1>1, <1>2 DEF SingleDashes

\* TrimDashes leaves no dash at an end.
LEMMA Trimmed ==
    ASSUME NEW C, NEW s \in Seq(C), SingleDashes(s), NEW t, t = TrimDashes(s)
    PROVE  /\ t \in Seq(C) /\ Len(t) <= Len(s)
           /\ SingleDashes(t)
           /\ t = <<>> \/ (Len(t) >= 1 /\ t[1] # "-" /\ t[Len(t)] # "-")
  <1> DEFINE letters == {i \in DOMAIN s : s[i] # "-"}
  <1>1. CASE letters = {}
    BY <1>1 DEF TrimDashes, SingleDashes
  <1>2. CASE letters # {}
    <2> DEFINE a == CHOOSE i \in letters : \A j \in letters : i <= j
               b == CHOOSE i \in letters : \A j \in letters : i >= j
    <2>1. letters \in SUBSET (0 .. Len(s)) /\ letters \in SUBSET Nat /\ Len(s) \in Nat
      OBVIOUS
    <2>2. a \in letters /\ b \in letters /\ a <= b
      <3>1. \E i \in letters : \A j \in letters : i <= j
        <4> HIDE DEF letters
        <4> QED
          BY <1>2, <2>1, HasLeast
      <3>2. \E i \in letters : \A j \in letters : i >= j
        <4> HIDE DEF letters
        <4> QED
          BY <1>2, <2>1, HasGreatest
      <3> HIDE DEF letters
      <3> QED
        BY <3>1, <3>2
    <2>3. t = SubSeq(s, a, b)
      BY <1>2 DEF TrimDashes
    <2> HIDE DEF a, b
    <2>4. a \in 1 .. Len(s) /\ b \in a .. Len(s) /\ s[a] # "-" /\ s[b] # "-"
      BY <2>2
    <2>5. /\ t \in Seq(C) /\ Len(t) = b - a + 1
          /\ \A i \in 1 .. b - a + 1 : t[i] = s[a + i - 1]
      BY <2>3, <2>4, SubSeqFacts
    <2>6. t[1] = s[a] /\ t[Len(t)] = s[b]
      BY <2>4, <2>5
    <2>7. SingleDashes(t)
      BY <2>3, <2>4, PartOfSingle
    <2> QED
      BY <2>4, <2>5, <2>6, <2>7
  <1> QED
    BY <1>1, <1>2

\* An iteration of the loop of collapseDashes.
NextKept(s, kept, i) ==
    IF i > 1 /\ s[i] = "-" /\ s[i - 1] = "-" THEN kept ELSE Append(kept, s[i])

\* CollapseDashes is that loop.
LEMMA CollapseDefinition ==
    ASSUME NEW C, NEW s \in Seq(C)
    PROVE  \E kept :
              /\ CollapseDashes(s) = kept[Len(s)]
              /\ kept[0] = <<>>
              /\ \A i \in 1 .. Len(s) : kept[i] = NextKept(s, kept[i - 1], i)
  <1> DEFINE n == Len(s)
             X == Seq(C)
             step == [p \in (1 .. n) \X X |-> NextKept(s, p[2], p[1])]
             Body(f) == [i \in 0 .. n |-> IF i = 0 THEN <<>> ELSE NextKept(s, f[i - 1], i)]
  <1>1. n \in Nat /\ \A i \in 1 .. n : s[i] \in C
    OBVIOUS
  <1> HIDE DEF n
  <1>2. <<>> \in X
    OBVIOUS
  <1>3. step \in Steps(n, X)
    <2>1. \A i \in 1 .. n, k \in X : NextKept(s, k, i) \in X
      BY <1>1, AppendFacts DEF NextKept
    <2> HIDE DEF X
    <2> QED
      BY <2>1 DEF Steps
  <1>4. PICK f \in [0 .. n -> X] : f[0] = <<>> /\ \A i \in 1 .. n : f[i] = step[<<i, f[i - 1]>>]
    <2> HIDE DEF X, step
    <2> QED
      BY <1>1, <1>2, <1>3, Iterates
  <1>5. f = Body(f)
    <2>1. \A i \in 1 .. n : f[i - 1] \in X
      <3>1. \A i \in 1 .. n : i - 1 \in 0 .. n
        BY <1>1
      <3> HIDE DEF X
      <3> QED
        BY <3>1
    <2>2. \A i \in 1 .. n, k \in X : step[<<i, k>>] = NextKept(s, k, i)
      <3> HIDE DEF X
      <3> QED
        OBVIOUS
    <2> HIDE DEF X, step
    <2>3. \A i \in 0 .. n : i = 0 \/ i \in 1 .. n
      BY <1>1
    <2>4. \A i \in 0 .. n : f[i] = IF i = 0 THEN <<>> ELSE NextKept(s, f[i - 1], i)
      BY <1>1, <1>4, <2>1, <2>2, <2>3
    <2>5. f = [i \in 0 .. n |-> f[i]]
      OBVIOUS
    <2> QED
      BY <2>4, <2>5
  <1> DEFINE kept == CHOOSE g : g = Body(g)
  <1>6. kept = Body(kept)
    <2> HIDE DEF Body
    <2> QED
      BY <1>5
  <1>7. CollapseDashes(s) = kept[Len(s)]
    BY DEF CollapseDashes, NextKept, n
  <1> HIDE DEF kept
  <1>8. kept[0] = <<>> /\ \A i \in 1 .. n : kept[i] = NextKept(s, kept[i - 1], i)
    BY <1>1, <1>6
  <1> QED
    BY <1>7, <1>8 DEF n

\* After some characters: no dash beside a dash, and the last character is the
\* last one that was read.
CollapsedOK(C, s, kept, n) ==
    /\ kept \in Seq(C) /\ SingleDashes(kept)
    /\ n = 0 => kept = <<>>
    /\ n > 0 => Len(kept) >= 1 /\ kept[Len(kept)] = s[n]

\* An iteration keeps it so.
LEMMA NextKeptOK ==
    ASSUME NEW C, NEW s \in Seq(C), NEW n \in 1 .. Len(s), NEW kept, CollapsedOK(C, s, kept, n - 1)
    PROVE  CollapsedOK(C, s, NextKept(s, kept, n), n)
  <1>1. kept \in Seq(C) /\ SingleDashes(kept) /\ Len(kept) \in Nat /\ s[n] \in C
    BY DEF CollapsedOK
  <1>2. CASE n > 1 /\ s[n] = "-" /\ s[n - 1] = "-"
    BY <1>2 DEF CollapsedOK, NextKept
  <1>3. CASE ~ (n > 1 /\ s[n] = "-" /\ s[n - 1] = "-")
    <2> DEFINE after == Append(kept, s[n])
    <2>1. /\ after \in Seq(C)
          /\ Len(after) = Len(kept) + 1
          /\ after[Len(kept) + 1] = s[n]
          /\ \A i \in 1 .. Len(kept) : after[i] = kept[i]
      BY <1>1, AppendFacts
    <2>2. NextKept(s, kept, n) = after
      BY <1>3 DEF NextKept
    <2> HIDE DEF after
    <2>3. ASSUME NEW i \in 1 .. Len(after) - 1 PROVE after[i] # "-" \/ after[i + 1] # "-"
      <3>1. CASE i = Len(kept)
        <4>1. n > 1
          BY <1>1, <2>1, <3>1 DEF CollapsedOK
        <4>2. kept[Len(kept)] = s[n - 1]
          BY <4>1 DEF CollapsedOK
        <4>3. i \in 1 .. Len(kept) /\ after[i] = s[n - 1] /\ after[i + 1] = s[n]
          BY <1>1, <2>1, <3>1, <4>2
        <4> QED
          BY <1>3, <4>1, <4>3
      <3>2. CASE i # Len(kept)
        <4>1. i \in 1 .. Len(kept) - 1 /\ i \in 1 .. Len(kept) /\ i + 1 \in 1 .. Len(kept)
          BY <1>1, <2>1, <3>2
        <4> QED
          BY <1>1, <2>1, <4>1 DEF SingleDashes
      <3> QED
        BY <3>1, <3>2
    <2> QED
      BY <1>1, <2>1, <2>2, <2>3 DEF CollapsedOK, SingleDashes
  <1> QED
    BY <1>2, <1>3

\* So it is at the end.
LEMMA Collapsed ==
    ASSUME NEW C, NEW s \in Seq(C)
    PROVE  CollapseDashes(s) \in Seq(C) /\ SingleDashes(CollapseDashes(s))
  <1>1. PICK kept : /\ CollapseDashes(s) = kept[Len(s)]
                    /\ kept[0] = <<>>
                    /\ \A i \in 1 .. Len(s) : kept[i] = NextKept(s, kept[i - 1], i)
    BY CollapseDefinition
  <1> DEFINE S == {i \in 0 .. Len(s) : CollapsedOK(C, s, kept[i], i)}
  <1>2. Len(s) \in Nat
    OBVIOUS
  <1>3. 0 \in S
    <2>1. <<>> \in Seq(C) /\ SingleDashes(<<>>)
      BY DEF SingleDashes
    <2>2. CollapsedOK(C, s, <<>>, 0)
      BY <2>1 DEF CollapsedOK
    <2> QED
      BY <1>1, <1>2, <2>2
  <1>4. \A i \in 1 .. Len(s) : i - 1 \in S => i \in S
    BY <1>1, <1>2, NextKeptOK
  <1>5. Len(s) \in S
    <2>1. Len(s) \in 0 .. Len(s)
      BY <1>2
    <2> HIDE DEF S
    <2>2. \A i \in 0 .. Len(s) : i \in S
      BY <1>2, <1>3, <1>4, Induction
    <2> QED
      BY <2>1, <2>2
  <1>6. CollapsedOK(C, s, CollapseDashes(s), Len(s))
    BY <1>1, <1>5
  <1> QED
    BY <1>6 DEF CollapsedOK

\* Texts in a row make a text.
LEMMA Flattened ==
    ASSUME NEW C, NEW q \in Seq(Seq(C))
    PROVE  FlattenSeq(q) \in Seq(C)
  <1> DEFINE X == Seq(C)
  <1>1. X = Seq(C) /\ <<>> \in X /\ \A a, b \in X : a \o b \in X
    OBVIOUS
  <1> HIDE DEF X
  <1>2. q \in Seq(X)
    BY <1>1
  <1>3. CASE Len(q) = 0
    <2>1. FlattenSeq(q) = q /\ q = <<>>
      BY <1>2, <1>3 DEF FlattenSeq
    <2> QED
      BY <1>1, <2>1
  <1>4. CASE Len(q) # 0
    <2> DEFINE n == Len(q) - 1
               step == [p \in (1 .. n) \X X |-> p[2] \o q[p[1] + 1]]
               Body(f) == [i \in 1 .. Len(q) |-> IF i = 1 THEN q[1] ELSE f[i - 1] \o q[i]]
    <2>1. n \in Nat /\ Len(q) = n + 1 /\ \A i \in 1 .. Len(q) : q[i] \in X
      BY <1>2, <1>4
    <2> HIDE DEF n
    <2>2. step \in Steps(n, X)
      <3>1. \A i \in 1 .. n, x \in X : x \o q[i + 1] \in X
        BY <1>1, <2>1
      <3> QED
        BY <3>1 DEF Steps
    <2>3. PICK f \in [0 .. n -> X] : f[0] = q[1] /\ \A i \in 1 .. n : f[i] = step[<<i, f[i - 1]>>]
      <3> DEFINE first == q[1]
      <3>1. first \in X /\ n \in Nat
        BY <2>1
      <3> HIDE DEF step, first
      <3>2. \E f \in [0 .. n -> X] : f[0] = first /\ \A i \in 1 .. n : f[i] = step[<<i, f[i - 1]>>]
        BY <2>2, <3>1, Iterates
      <3> QED
        BY <3>2 DEF first
    <2> DEFINE h == [i \in 1 .. Len(q) |-> f[i - 1]]
    <2>4. h = Body(h)
      <3>1. \A i \in 1 .. n : f[i - 1] \in X /\ step[<<i, f[i - 1]>>] = f[i - 1] \o q[i + 1]
        <4>1. \A i \in 1 .. n : i - 1 \in 0 .. n
          BY <2>1
        <4> QED
          BY <4>1
      <3> HIDE DEF step
      <3>2. ASSUME NEW i \in 1 .. Len(q) PROVE h[i] = IF i = 1 THEN q[1] ELSE h[i - 1] \o q[i]
        <4>1. CASE i = 1
          BY <2>3, <4>1
        <4>2. CASE i # 1
          <5>1. i - 1 \in 1 .. n /\ i - 1 \in 1 .. Len(q) /\ (i - 1) + 1 = i
            BY <2>1, <4>2
          <5>2. h[i] = f[i - 1] /\ h[i - 1] = f[(i - 1) - 1]
            BY <5>1
          <5>3. f[i - 1] = f[(i - 1) - 1] \o q[i]
            BY <2>3, <3>1, <5>1
          <5> QED
            BY <4>2, <5>2, <5>3
        <4> QED
          BY <4>1, <4>2
      <3>3. h = [i \in 1 .. Len(q) |-> h[i]]
        OBVIOUS
      <3> HIDE DEF h
      <3> QED
        BY <3>2, <3>3
    <2> DEFINE flatten == CHOOSE g : g = Body(g)
    <2>5. flatten = Body(flatten)
      <3> HIDE DEF Body, h
      <3> QED
        BY <2>4
    <2>6. FlattenSeq(q) = flatten[Len(q)]
      BY <1>4 DEF FlattenSeq
    <2> HIDE DEF flatten
    <2>7. \A i \in 1 .. Len(q) : flatten[i] = IF i = 1 THEN q[1] ELSE flatten[i - 1] \o q[i]
      BY <2>5
    <2> DEFINE S == {i \in 0 .. n : flatten[i + 1] \in X}
    <2>8. 0 \in S
      BY <2>1, <2>7
    <2>9. ASSUME NEW i \in 1 .. n, i - 1 \in S PROVE i \in S
      <3>1. flatten[i] \in X /\ i \in 0 .. n
        BY <2>1, <2>9
      <3>2. i + 1 \in 1 .. Len(q) /\ i + 1 # 1 /\ (i + 1) - 1 = i
        BY <2>1
      <3>3. flatten[i + 1] = flatten[i] \o q[i + 1]
        BY <2>7, <3>2
      <3>4. q[i + 1] \in X
        BY <2>1, <3>2
      <3>5. flatten[i + 1] \in X
        BY <1>1, <3>1, <3>3, <3>4
      <3> QED
        BY <3>1, <3>5
    <2>10. n \in S
      <3>1. n \in 0 .. n
        BY <2>1
      <3> HIDE DEF S
      <3>2. \A i \in 0 .. n : i \in S
        BY <2>1, <2>8, <2>9, Induction
      <3> QED
        BY <3>1, <3>2
    <2> QED
      BY <1>1, <2>1, <2>6, <2>10
  <1> QED
    BY <1>3, <1>4

\* Whatever a name is made of, what is typed without capitals and umlauts is a text.
LEMMA Typed ==
    ASSUME NEW C, NEW s \in Seq(C)
    PROVE  \E E : Transliterate(ToLower(s)) \in Seq(E)
  <1> DEFINE D == C \cup {"a", umlaut}
             E == D \cup {"e"}
             low == ToLower(s)
             parts == [i \in DOMAIN low |-> IF low[i] = umlaut THEN <<"a", "e">> ELSE <<low[i]>>]
             text == Transliterate(low)
  <1>1. DOMAIN s = 1 .. Len(s) /\ Len(s) \in Nat /\ \A i \in 1 .. Len(s) : s[i] \in C
    OBVIOUS
  <1>2. \A A, n, f : n \in Nat /\ f \in [1 .. n -> A] => f \in Seq(A)
    OBVIOUS
  <1>3. low \in [1 .. Len(s) -> D]
    <2>1. ASSUME NEW i \in 1 .. Len(s)
          PROVE  (IF s[i] = "A" THEN "a" ELSE IF s[i] = Umlaut THEN umlaut ELSE s[i]) \in D
      BY <1>1
    <2> QED
      BY <1>1, <2>1 DEF ToLower
  <1> HIDE DEF low, D
  <1>4. parts \in [1 .. Len(s) -> Seq(E)]
    <2>1. "a" \in E /\ "e" \in E /\ \A i \in 1 .. Len(s) : low[i] \in E
      BY <1>3 DEF D
    <2> HIDE DEF E
    <2>2. \A x, y \in E : <<x, y>> \in Seq(E) /\ <<x>> \in Seq(E)
      OBVIOUS
    <2>3. <<"a", "e">> \in Seq(E) /\ \A i \in 1 .. Len(s) : <<low[i]>> \in Seq(E)
      BY <2>1, <2>2
    <2>4. DOMAIN low = 1 .. Len(s)
      BY <1>3
    <2> QED
      BY <2>3, <2>4
  <1>5. text \in Seq(E)
    <2>1. parts \in Seq(Seq(E))
      <3> HIDE DEF parts, E
      <3> QED
        BY <1>1, <1>2, <1>4
    <2>2. text = FlattenSeq(parts)
      BY DEF Transliterate
    <2> HIDE DEF parts, text, E
    <2> QED
      BY <2>1, <2>2, Flattened
  <1> HIDE DEF text, E
  <1> QED
    BY <1>5 DEF text, low

\* Slugify cleans it character by character.
LEMMA Cleaned ==
    ASSUME NEW C, NEW s \in Seq(C)
    PROVE  Clean(Transliterate(ToLower(s))) \in Seq(SlugChars)
  <1> DEFINE text == Transliterate(ToLower(s))
  <1>1. PICK E : text \in Seq(E)
    BY Typed
  <1> HIDE DEF text
  <1>2. \A A, n, f : n \in Nat /\ f \in [1 .. n -> A] => f \in Seq(A)
    OBVIOUS
  <1>3. Clean(text) \in [1 .. Len(text) -> SlugChars] /\ Len(text) \in Nat
    <2>1. DOMAIN text = 1 .. Len(text) /\ Len(text) \in Nat
      BY <1>1
    <2>2. \A c : (IF c \in Letters THEN c ELSE "-") \in SlugChars
      BY DEF SlugChars
    <2> QED
      BY <2>1, <2>2 DEF Clean
  <1> QED
    BY <1>2, <1>3 DEF text

\* A slug can stand in a URL and is not too long.
LEMMA Slugified ==
    ASSUME NEW C, NEW s \in Seq(C)
    PROVE  Neat(Slugify(s)) /\ Len(Slugify(s)) <= maxSlugifiedLen
  <1> DEFINE clean == Clean(Transliterate(ToLower(s)))
             single == CollapseDashes(clean)
             trimmed == TrimDashes(single)
             cut == SubSeq(trimmed, 1, maxSlugifiedLen)
             slug == Truncate(trimmed)
             Ends(t) == t = <<>> \/ (Len(t) >= 1 /\ t[1] # "-" /\ t[Len(t)] # "-")
             Fine(t) == t \in Seq(SlugChars) /\ SingleDashes(t) /\ Ends(t)
  <1>1. maxSlugifiedLen \in Nat /\ maxSlugifiedLen >= 1
    BY LengthAssumption
  <1>2. single \in Seq(SlugChars) /\ SingleDashes(single)
    <2>1. clean \in Seq(SlugChars)
      BY Cleaned
    <2> HIDE DEF clean
    <2> QED
      BY <2>1, Collapsed
  <1> HIDE DEF single
  <1>3. Fine(trimmed)
    BY <1>2, Trimmed
  <1> HIDE DEF trimmed
  <1>4. Fine(slug) /\ Len(slug) <= maxSlugifiedLen
    <2>1. CASE Len(trimmed) > maxSlugifiedLen
      <3>1. maxSlugifiedLen \in 1 .. Len(trimmed) /\ 1 \in 1 .. Len(trimmed)
        BY <1>1, <1>3, <2>1
      <3>2. cut \in Seq(SlugChars) /\ SingleDashes(cut) /\ Len(cut) = maxSlugifiedLen
        BY <1>1, <1>3, <3>1, SubSeqFacts, PartOfSingle
      <3>3. slug = TrimDashes(cut)
        BY <2>1 DEF Truncate
      <3> HIDE DEF cut, slug
      <3>4. Len(slug) <= Len(cut) /\ Fine(slug)
        BY <3>2, <3>3, Trimmed
      <3> QED
        BY <3>2, <3>4
    <2>2. CASE ~ (Len(trimmed) > maxSlugifiedLen)
      <3>1. slug = trimmed
        BY <2>2 DEF Truncate
      <3>2. Len(trimmed) \in Nat
        BY <1>3
      <3> HIDE DEF Fine, slug
      <3> QED
        BY <1>1, <1>3, <2>2, <3>1, <3>2
    <2> QED
      BY <2>1, <2>2
  <1>5. Slugify(s) = IF slug = <<>> THEN board ELSE slug
    BY DEF Slugify, trimmed, single
  <1> HIDE DEF slug
  <1>6. CASE slug = <<>>
    <2>1. board \in Seq(SlugChars) /\ Len(board) = 1 /\ board[1] = "board"
      <3>1. "board" \in SlugChars
        BY Chars DEF SlugChars
      <3> QED
        BY <3>1 DEF board
    <2>2. SingleDashes(board)
      BY <2>1 DEF SingleDashes
    <2>3. Neat(board)
      BY <2>1, <2>2, Chars DEF Neat
    <2> QED
      BY <1>1, <1>5, <1>6, <2>1, <2>3
  <1>7. CASE slug # <<>>
    BY <1>4, <1>5, <1>7 DEF Neat
  <1> QED
    BY <1>6, <1>7
-----------------------------------------------------------------------------
LEMMA Tens ==
    \A n \in Nat :
        /\ n % 10 \in 0 .. 9 /\ n = 10 * (n \div 10) + (n % 10)
        /\ n >= 10 => n \div 10 \in 0 .. n - 1
  OBVIOUS

\* What is printed before the last digit of a number, by a table of those up to it.
Before(t, n) == IF n < 10 THEN <<>> ELSE t[n \div 10]

\* The numbers up to N as they are printed.
Table(t, N) == \A n \in 0 .. N : t[n] = Append(Before(t, n), Digit(n % 10))

\* A table only looks at smaller numbers.
LEMMA BeforeIsSmaller ==
    ASSUME NEW n \in Nat, NEW t, NEW u, \A m \in 0 .. n - 1 : t[m] = u[m]
    PROVE  Before(t, n) = Before(u, n)
  <1>1. CASE n < 10
    BY <1>1 DEF Before
  <1>2. CASE n >= 10
    <2>1. n \div 10 \in 0 .. n - 1 /\ ~ (n < 10)
      BY <1>2, Tens
    <2>2. t[n \div 10] = u[n \div 10]
      BY <2>1
    <2> QED
      BY <2>1, <2>2 DEF Before
  <1> QED
    BY <1>1, <1>2

\* Decimal prints a number as such a table does.
LEMMA DecimalDefinition ==
    ASSUME NEW N \in Nat
    PROVE  \E t : Table(t, N) /\ Decimal(N) = t[N]
  <1> DEFINE Body(t) == [n \in 0 .. N |-> Append(Before(t, n), Digit(n % 10))]
             S == {m \in 0 .. N : \E t : Table(t, m)}
  <1>1. ASSUME NEW m \in 0 .. N, NEW t, \A n \in 0 .. m - 1 : t[n] = Append(Before(t, n), Digit(n % 10))
        PROVE  \E u : Table(u, m)
    <2> DEFINE last == Append(Before(t, m), Digit(m % 10))
               u == [n \in 0 .. m |-> IF n = m THEN last ELSE t[n]]
    <2>1. \A n \in 0 .. m : u[n] = Append(Before(t, n), Digit(n % 10))
      <3>1. \A n \in 0 .. m : n = m \/ n \in 0 .. m - 1
        OBVIOUS
      <3> QED
        BY <1>1, <3>1
    <2>2. \A n \in 0 .. m : Before(t, n) = Before(u, n)
      <3>1. ASSUME NEW n \in 0 .. m, NEW k \in 0 .. n - 1 PROVE t[k] = u[k]
        <4>1. k \in 0 .. m /\ k # m
          OBVIOUS
        <4> QED
          BY <4>1
      <3> HIDE DEF u
      <3> QED
        BY <3>1, BeforeIsSmaller
    <2> HIDE DEF u
    <2> QED
      BY <2>1, <2>2 DEF Table
  <1>2. 0 \in S
    <2>1. \A n \in 0 .. 0 - 1 : [i \in {} |-> 0][n] = Append(Before([i \in {} |-> 0], n), Digit(n % 10))
      OBVIOUS
    <2> QED
      BY <1>1, <2>1
  <1>3. \A m \in 1 .. N : m - 1 \in S => m \in S
    <2> SUFFICES ASSUME NEW m \in 1 .. N, NEW t, Table(t, m - 1) PROVE m \in S
      OBVIOUS
    <2>1. m \in 0 .. N /\ \A n \in 0 .. m - 1 : t[n] = Append(Before(t, n), Digit(n % 10))
      BY DEF Table
    <2>2. \E u : Table(u, m)
      BY <1>1, <2>1
    <2> QED
      BY <2>1, <2>2
  <1>4. \A m \in 0 .. N : m \in S
    <2> HIDE DEF S
    <2> QED
      BY <1>2, <1>3, Induction
  <1>5. PICK t : Table(t, N)
    <2>1. N \in 0 .. N
      OBVIOUS
    <2> QED
      BY <1>4, <2>1
  <1> DEFINE u == [n \in 0 .. N |-> t[n]]
  <1>6. u = Body(u)
    <2>1. \A n \in 0 .. N : Before(t, n) = Before(u, n)
      <3>1. \A n \in 0 .. N : \A k \in 0 .. n - 1 : t[k] = u[k]
        OBVIOUS
      <3> HIDE DEF u
      <3> QED
        BY <3>1, BeforeIsSmaller
    <2>2. \A n \in 0 .. N : t[n] = Append(Before(u, n), Digit(n % 10))
      BY <1>5, <2>1 DEF Table
    <2> QED
      BY <2>2
  <1> DEFINE printed == CHOOSE f : f = Body(f)
  <1>7. printed = Body(printed)
    <2> HIDE DEF Body, u
    <2> QED
      BY <1>6
  <1>8. Decimal(N) = printed[N]
    BY DEF Decimal, Before
  <1> HIDE DEF printed
  <1>9. Table(printed, N)
    BY <1>7 DEF Table
  <1> QED
    BY <1>8, <1>9

\* Induction that looks at all smaller numbers.
LEMMA StrongInduction ==
    ASSUME NEW N \in Nat, NEW S, \A n \in 0 .. N : (\A m \in 0 .. n - 1 : m \in S) => n \in S
    PROVE  \A n \in 0 .. N : n \in S
  <1> DEFINE T == {n \in 0 .. N : \A m \in 0 .. n : m \in S}
  <1>1. 0 \in T
    <2>1. \A m \in 0 .. 0 - 1 : m \in S
      OBVIOUS
    <2>2. 0 \in S /\ \A m \in 0 .. 0 : m = 0
      BY <2>1
    <2> QED
      BY <2>2
  <1>2. \A n \in 1 .. N : n - 1 \in T => n \in T
    <2> SUFFICES ASSUME NEW n \in 1 .. N, n - 1 \in T PROVE n \in T
      OBVIOUS
    <2>1. n \in S
      OBVIOUS
    <2>2. \A m \in 0 .. n : m \in 0 .. n - 1 \/ m = n
      OBVIOUS
    <2> QED
      BY <2>1, <2>2
  <1>3. \A n \in 0 .. N : n \in T
    <2> HIDE DEF T
    <2> QED
      BY <1>1, <1>2, Induction
  <1>4. \A n \in 0 .. N : n \in 0 .. n
    OBVIOUS
  <1> QED
    BY <1>3, <1>4

\* A printed number is made of digits, and what is before its last one too.
LEMMA Printed ==
    ASSUME NEW N \in Nat, NEW t, Table(t, N)
    PROVE  \A n \in 0 .. N :
              /\ t[n] \in Seq(Letters) /\ Len(t[n]) >= 1
              /\ Before(t, n) \in Seq(Letters)
              /\ Before(t, n) = <<>> <=> n < 10
  <1> DEFINE Fine(n) == /\ t[n] \in Seq(Letters) /\ Len(t[n]) >= 1
                        /\ Before(t, n) \in Seq(Letters)
                        /\ Before(t, n) = <<>> <=> n < 10
             S == {n \in 0 .. N : Fine(n)}
  <1>1. ASSUME NEW n \in 0 .. N, \A m \in 0 .. n - 1 : Fine(m) PROVE Fine(n)
    <2>1. Before(t, n) \in Seq(Letters) /\ (Before(t, n) = <<>> <=> n < 10)
      <3>1. CASE n < 10
        BY <3>1 DEF Before
      <3>2. CASE ~ (n < 10)
        <4>1. n \div 10 \in 0 .. n - 1
          BY <3>2, Tens
        <4>2. t[n \div 10] \in Seq(Letters) /\ Len(t[n \div 10]) >= 1
          BY <1>1, <4>1
        <4>3. Before(t, n) = t[n \div 10]
          BY <3>2 DEF Before
        <4> QED
          BY <3>2, <4>2, <4>3
      <3> QED
        BY <3>1, <3>2
    <2>2. Digit(n % 10) \in Letters
      <3>1. n % 10 \in 0 .. 9
        BY Tens
      <3> QED
        BY <3>1, Chars
    <2>3. t[n] = Append(Before(t, n), Digit(n % 10))
      BY DEF Table
    <2>4. t[n] \in Seq(Letters) /\ Len(t[n]) = Len(Before(t, n)) + 1
      BY <2>1, <2>2, <2>3, AppendFacts
    <2>5. Len(Before(t, n)) \in Nat
      BY <2>1
    <2> QED
      BY <2>1, <2>4, <2>5
  <1>2. \A n \in 0 .. N : (\A m \in 0 .. n - 1 : m \in S) => n \in S
    <2> SUFFICES ASSUME NEW n \in 0 .. N, \A m \in 0 .. n - 1 : m \in S PROVE n \in S
      OBVIOUS
    <2>1. \A m \in 0 .. n - 1 : Fine(m)
      OBVIOUS
    <2> HIDE DEF Fine
    <2> QED
      BY <1>1, <2>1
  <1>3. \A n \in 0 .. N : n \in S
    <2> HIDE DEF S
    <2> QED
      BY <1>2, StrongInduction
  <1> QED
    BY <1>3

\* The last characters of equal texts are equal, and what is before them.
LEMMA SameAppended ==
    ASSUME NEW C, NEW a \in Seq(C), NEW b \in Seq(C), NEW x \in C, NEW y \in C,
           Append(a, x) = Append(b, y)
    PROVE  a = b /\ x = y
  <1>1. Len(a) = Len(b) /\ Len(a) \in Nat
    <2>1. Len(Append(a, x)) = Len(a) + 1 /\ Len(Append(b, y)) = Len(b) + 1
      OBVIOUS
    <2> QED
      BY <2>1
  <1>2. x = y
    <2>1. Append(a, x)[Len(a) + 1] = x /\ Append(b, y)[Len(b) + 1] = y
      OBVIOUS
    <2> QED
      BY <1>1, <2>1
  <1>3. \A i \in 1 .. Len(a) : a[i] = b[i]
    <2>1. \A i \in 1 .. Len(a) : Append(a, x)[i] = a[i]
      OBVIOUS
    <2>2. \A i \in 1 .. Len(b) : Append(b, y)[i] = b[i]
      OBVIOUS
    <2> QED
      BY <1>1, <2>1, <2>2
  <1> QED
    BY <1>1, <1>2, <1>3

\* Numbers that are printed alike are the same, in whatever tables.
LEMMA PrintedApart ==
    ASSUME NEW M \in Nat, NEW t, Table(t, M), NEW N \in Nat, NEW u, Table(u, N)
    PROVE  \A m \in 0 .. M : \A n \in 0 .. N : t[m] = u[n] => m = n
  <1> DEFINE S == {m \in 0 .. M : \A n \in 0 .. N : t[m] = u[n] => m = n}
  <1>1. ASSUME NEW m \in 0 .. M, \A k \in 0 .. m - 1 : \A n \in 0 .. N : t[k] = u[n] => k = n,
               NEW n \in 0 .. N, t[m] = u[n]
        PROVE  m = n
    <2>1. /\ m % 10 \in 0 .. 9 /\ m = 10 * (m \div 10) + (m % 10)
          /\ n % 10 \in 0 .. 9 /\ n = 10 * (n \div 10) + (n % 10)
      BY Tens
    <2>2. /\ t[m] = Append(Before(t, m), Digit(m % 10)) /\ Before(t, m) \in Seq(Letters)
          /\ u[n] = Append(Before(u, n), Digit(n % 10)) /\ Before(u, n) \in Seq(Letters)
      BY Printed DEF Table
    <2>3. Digit(m % 10) \in Letters /\ Digit(n % 10) \in Letters
      BY <2>1, Chars
    <2>4. Before(t, m) = Before(u, n) /\ Digit(m % 10) = Digit(n % 10)
      <3> DEFINE a == Before(t, m)
                 b == Before(u, n)
                 x == Digit(m % 10)
                 y == Digit(n % 10)
      <3>1. a \in Seq(Letters) /\ b \in Seq(Letters) /\ x \in Letters /\ y \in Letters
        BY <2>2, <2>3
      <3>2. Append(a, x) = Append(b, y)
        <4>1. t[m] = Append(a, x) /\ u[n] = Append(b, y)
          BY <2>2
        <4> HIDE DEF a, b, x, y
        <4> QED
          BY <1>1, <4>1
      <3> HIDE DEF a, b, x, y
      <3>3. a = b /\ x = y
        BY <3>1, <3>2, SameAppended
      <3> QED
        BY <3>3 DEF a, b, x, y
    <2>5. m % 10 = n % 10
      BY <2>1, <2>4, Chars
    <2>6. m < 10 <=> n < 10
      BY <2>4, Printed
    <2>7. m \div 10 = n \div 10
      <3>1. CASE m < 10
        BY <2>6, <3>1
      <3>2. CASE ~ (m < 10)
        <4>1. m \div 10 \in 0 .. m - 1 /\ n \div 10 \in 0 .. n - 1
          BY <2>6, <3>2, Tens
        <4>2. t[m \div 10] = u[n \div 10]
          BY <2>4, <2>6, <3>2 DEF Before
        <4>3. n \div 10 \in 0 .. N
          BY <4>1
        <4> QED
          BY <1>1, <4>1, <4>2, <4>3
      <3> QED
        BY <3>1, <3>2
    <2> QED
      BY <2>1, <2>5, <2>7
  <1>2. \A m \in 0 .. M : (\A k \in 0 .. m - 1 : k \in S) => m \in S
    <2> SUFFICES ASSUME NEW m \in 0 .. M, \A k \in 0 .. m - 1 : k \in S PROVE m \in S
      OBVIOUS
    <2>1. \A k \in 0 .. m - 1 : \A n \in 0 .. N : t[k] = u[n] => k = n
      OBVIOUS
    <2> QED
      BY <1>1, <2>1
  <1>3. \A m \in 0 .. M : m \in S
    <2> HIDE DEF S
    <2> QED
      BY <1>2, StrongInduction
  <1> QED
    BY <1>3

\* Decimal prints a number in digits, and no other number alike.
LEMMA DecimalFacts ==
    /\ \A n \in Nat : Decimal(n) \in Seq(Letters) /\ Len(Decimal(n)) >= 1
    /\ \A m, n \in Nat : Decimal(m) = Decimal(n) => m = n
  <1>1. ASSUME NEW n \in Nat PROVE Decimal(n) \in Seq(Letters) /\ Len(Decimal(n)) >= 1
    <2>1. PICK t : Table(t, n) /\ Decimal(n) = t[n]
      BY DecimalDefinition
    <2>2. n \in 0 .. n
      OBVIOUS
    <2> QED
      BY <2>1, <2>2, Printed
  <1>2. ASSUME NEW m \in Nat, NEW n \in Nat, Decimal(m) = Decimal(n) PROVE m = n
    <2>1. PICK t : Table(t, m) /\ Decimal(m) = t[m]
      BY DecimalDefinition
    <2>2. PICK u : Table(u, n) /\ Decimal(n) = u[n]
      BY DecimalDefinition
    <2>3. t[m] = u[n]
      <3> HIDE DEF Table
      <3> QED
        BY <1>2, <2>1, <2>2, Zenon
    <2>4. m \in 0 .. m /\ n \in 0 .. n
      OBVIOUS
    <2> QED
      BY <2>1, <2>2, <2>3, <2>4, PrintedApart
  <1> QED
    BY <1>1, <1>2
-----------------------------------------------------------------------------
\* Texts put together.
LEMMA ConcatFacts ==
    ASSUME NEW C, NEW a \in Seq(C), NEW b \in Seq(C)
    PROVE  /\ a \o b \in Seq(C) /\ Len(a \o b) = Len(a) + Len(b)
           /\ \A i \in 1 .. Len(a) : (a \o b)[i] = a[i]
           /\ \A i \in 1 .. Len(b) : (a \o b)[Len(a) + i] = b[i]
  OBVIOUS

LEMMA SingleFacts ==
    ASSUME NEW C, NEW x \in C
    PROVE  <<x>> \in Seq(C) /\ Len(<<x>>) = 1 /\ <<x>>[1] = x
  OBVIOUS

\* After the same text, only the same text makes the same.
LEMMA SameAfter ==
    ASSUME NEW C, NEW p \in Seq(C), NEW a \in Seq(C), NEW b \in Seq(C), p \o a = p \o b
    PROVE  a = b
  <1>1. Len(a) = Len(b) /\ Len(a) \in Nat
    <2>1. Len(p \o a) = Len(p) + Len(a) /\ Len(p \o b) = Len(p) + Len(b)
      BY ConcatFacts
    <2> QED
      BY <2>1
  <1>2. \A i \in 1 .. Len(a) : a[i] = b[i]
    <2>1. \A i \in 1 .. Len(a) : (p \o a)[Len(p) + i] = a[i]
      BY ConcatFacts
    <2>2. \A i \in 1 .. Len(b) : (p \o b)[Len(p) + i] = b[i]
      BY ConcatFacts
    <2> QED
      BY <1>1, <2>1, <2>2
  <1> QED
    BY <1>1, <1>2

\* A dash between two texts, the second without dashes.
LEMMA Dashed ==
    ASSUME NEW s, Neat(s), NEW d \in Seq(SlugChars), Len(d) >= 1, \A i \in 1 .. Len(d) : d[i] # "-"
    PROVE  /\ Neat(s \o <<"-">> \o d)
           /\ (s \o <<"-">> \o d)[Len(s) + 1] = "-"
  <1> DEFINE p == s \o <<"-">>
             t == p \o d
  <1>1. s \in Seq(SlugChars) /\ Len(s) \in Nat /\ Len(d) \in Nat /\ Len(s) >= 1
    BY DEF Neat
  <1>2. p \in Seq(SlugChars) /\ Len(p) = Len(s) + 1 /\ p[Len(s) + 1] = "-"
        /\ \A i \in 1 .. Len(s) : p[i] = s[i]
    <2>1. "-" \in SlugChars
      BY DEF SlugChars
    <2>2. <<"-">> \in Seq(SlugChars) /\ Len(<<"-">>) = 1 /\ <<"-">>[1] = "-"
      BY <2>1, SingleFacts
    <2>3. /\ p \in Seq(SlugChars) /\ Len(p) = Len(s) + Len(<<"-">>)
          /\ \A i \in 1 .. Len(s) : p[i] = s[i]
          /\ \A i \in 1 .. Len(<<"-">>) : p[Len(s) + i] = <<"-">>[i]
      BY <1>1, <2>2, ConcatFacts
    <2> QED
      BY <2>2, <2>3
  <1> HIDE DEF p
  <1>3. /\ t \in Seq(SlugChars) /\ Len(t) = Len(s) + 1 + Len(d)
        /\ \A i \in 1 .. Len(s) + 1 : t[i] = p[i]
        /\ \A i \in 1 .. Len(d) : t[Len(s) + 1 + i] = d[i]
    <2>1. /\ t \in Seq(SlugChars) /\ Len(t) = Len(p) + Len(d)
          /\ \A i \in 1 .. Len(p) : t[i] = p[i]
          /\ \A i \in 1 .. Len(d) : t[Len(p) + i] = d[i]
      <3>1. p \in Seq(SlugChars) /\ d \in Seq(SlugChars)
        BY <1>2
      <3> QED
        BY <3>1, ConcatFacts
    <2> HIDE DEF t
    <2> QED
      BY <1>2, <2>1
  <1> HIDE DEF t
  <1>4. t[Len(s) + 1] = "-" /\ t[1] = s[1] /\ t[Len(s)] = s[Len(s)] /\ t[Len(t)] = d[Len(d)]
    <2>1. 1 \in 1 .. Len(s) /\ Len(s) \in 1 .. Len(s) /\ Len(d) \in 1 .. Len(d)
      BY <1>1
    <2>2. Len(s) + 1 \in 1 .. Len(s) + 1 /\ \A i \in 1 .. Len(s) : i \in 1 .. Len(s) + 1
      BY <1>1
    <2>3. Len(t) = Len(s) + 1 + Len(d)
      BY <1>3
    <2> QED
      BY <1>2, <1>3, <2>1, <2>2, <2>3
  <1>5. t[1] # "-" /\ t[Len(t)] # "-"
    <2>1. Len(d) \in 1 .. Len(d)
      BY <1>1
    <2> QED
      BY <1>4, <2>1 DEF Neat
  <1>6. ASSUME NEW i \in 1 .. Len(t) - 1 PROVE t[i] # "-" \/ t[i + 1] # "-"
    <2>1. CASE i < Len(s)
      <3>1. i \in 1 .. Len(s) - 1 /\ i \in 1 .. Len(s) /\ i + 1 \in 1 .. Len(s)
            /\ i \in 1 .. Len(s) + 1 /\ i + 1 \in 1 .. Len(s) + 1
        BY <1>1, <2>1
      <3>2. t[i] = s[i] /\ t[i + 1] = s[i + 1]
        BY <1>2, <1>3, <3>1
      <3> QED
        BY <3>1, <3>2 DEF Neat, SingleDashes
    <2>2. CASE i = Len(s)
      BY <1>4, <2>2 DEF Neat
    <2>3. CASE i > Len(s)
      <3>1. i - Len(s) \in 1 .. Len(d) /\ Len(s) + 1 + (i - Len(s)) = i + 1
        BY <1>1, <1>3, <2>3
      <3>2. t[i + 1] = d[i - Len(s)]
        BY <1>3, <3>1
      <3> QED
        BY <3>1, <3>2
    <2> QED
      BY <1>1, <2>1, <2>2, <2>3
  <1>7. Len(t) >= 1
    BY <1>1, <1>3
  <1> QED
    BY <1>3, <1>4, <1>5, <1>6, <1>7 DEF Neat, SingleDashes, t, p

\* A numbered slug is as neat as the slug, and its number can be told.
LEMMA NumberedFacts ==
    ASSUME NEW s, Neat(s)
    PROVE  /\ \A n \in Nat : Neat(Numbered(s, n))
           /\ \A m, n \in Nat : Numbered(s, m) = Numbered(s, n) => m = n
  <1>1. \A n \in Nat : Decimal(n) \in Seq(SlugChars) /\ Len(Decimal(n)) >= 1
                       /\ \A i \in 1 .. Len(Decimal(n)) : Decimal(n)[i] # "-"
    <2> TAKE n \in Nat
    <2> DEFINE d == Decimal(n)
    <2>1. d \in Seq(Letters) /\ Len(d) >= 1
      BY DecimalFacts
    <2>2. Letters \subseteq SlugChars /\ "-" \notin Letters
      BY Chars DEF SlugChars
    <2> HIDE DEF d
    <2>3. \A C, D : C \subseteq D => Seq(C) \subseteq Seq(D)
      OBVIOUS
    <2>4. \A i \in 1 .. Len(d) : d[i] \in Letters
      BY <2>1
    <2>5. d \in Seq(SlugChars) /\ Len(d) >= 1 /\ \A i \in 1 .. Len(d) : d[i] # "-"
      BY <2>1, <2>2, <2>3, <2>4
    <2> QED
      BY <2>5 DEF d
  <1>2. \A n \in Nat : Neat(Numbered(s, n))
    BY <1>1, Dashed DEF Numbered
  <1>3. ASSUME NEW m \in Nat, NEW n \in Nat, Numbered(s, m) = Numbered(s, n) PROVE m = n
    <2> DEFINE p == s \o <<"-">>
               a == Decimal(m)
               b == Decimal(n)
    <2>1. p \in Seq(SlugChars)
      <3>1. "-" \in SlugChars /\ s \in Seq(SlugChars)
        BY DEF SlugChars, Neat
      <3>2. <<"-">> \in Seq(SlugChars)
        BY <3>1, SingleFacts
      <3> QED
        BY <3>1, <3>2, ConcatFacts
    <2>2. a \in Seq(SlugChars) /\ b \in Seq(SlugChars)
      BY <1>1
    <2>3. p \o a = p \o b
      BY <1>3 DEF Numbered
    <2> HIDE DEF p, a, b
    <2>4. a = b
      BY <2>1, <2>2, <2>3, SameAfter
    <2> QED
      BY <2>4, DecimalFacts DEF a, b
  <1> QED
    BY <1>2, <1>3

\* Of a slug and its numbered forms, one is not taken.
LEMMA SomeIsFree ==
    ASSUME NEW s, Neat(s), NEW used, IsFiniteSet(used)
    PROVE  \E i \in 2 .. Cardinality(used) + 2 : Numbered(s, i) \notin used
  <1> DEFINE I == 2 .. Cardinality(used) + 2
             f == [i \in I |-> Numbered(s, i)]
  <1>1. Cardinality(used) \in Nat
    BY FS_CardinalityType
  <1>2. IsFiniteSet(I) /\ Cardinality(I) = Cardinality(used) + 1
    BY <1>1, FS_Interval
  <1>3. SUFFICES ASSUME \A i \in I : Numbered(s, i) \in used PROVE FALSE
    OBVIOUS
  <1>4. f \in [I -> used]
    BY <1>3
  <1>5. \A i \in I : i \in Nat /\ f[i] = Numbered(s, i)
    BY <1>1
  <1> HIDE DEF f, I
  <1>6. \E i, j \in I : i # j /\ f[i] = f[j]
    BY <1>1, <1>2, <1>4, FS_PigeonHole
  <1> QED
    BY <1>5, <1>6, NumberedFacts

\* uniqueAnchor gives a neat anchor that is not taken: the slug itself if it can.
LEMMA AnchorIsFree ==
    ASSUME NEW C, NEW name \in Seq(C), NEW used, IsFiniteSet(used)
    PROVE  /\ uniqueAnchor(name, used) \notin used
           /\ Neat(uniqueAnchor(name, used))
           /\ used = {} => uniqueAnchor(name, used) = Slugify(name)
  <1> DEFINE base == Slugify(name)
             free == {i \in 2 .. Cardinality(used) + 2 : Numbered(base, i) \notin used}
  <1>1. Neat(base)
    BY Slugified
  <1>2. uniqueAnchor(name, used) = IF base \notin used THEN base ELSE Numbered(base, Min(free))
    BY DEF uniqueAnchor
  <1> HIDE DEF base
  <1>3. Min(free) \in free /\ Min(free) \in Nat
    <2>1. free # {}
      BY <1>1, SomeIsFree
    <2>2. free \in SUBSET Nat
      <3>1. Cardinality(used) \in Nat
        BY FS_CardinalityType
      <3> QED
        BY <3>1
    <2> HIDE DEF free
    <2> QED
      BY <2>1, <2>2, MinIsLeast
  <1>4. Numbered(base, Min(free)) \notin used /\ Neat(Numbered(base, Min(free)))
    <2>1. Numbered(base, Min(free)) \notin used
      BY <1>3
    <2> HIDE DEF free
    <2> QED
      BY <1>1, <1>3, <2>1, NumberedFacts
  <1> HIDE DEF free
  <1> QED
    BY <1>1, <1>2, <1>4 DEF base

\* An iteration of the loop that gives the anchors.
NextAnchor(names, given, i) == Append(given, uniqueAnchor(names[i], ToSet(given)))

\* The set of what is in a sequence is finite.
LEMMA FiniteToSet ==
    ASSUME NEW C, NEW s \in Seq(C)
    PROVE  IsFiniteSet(ToSet(s)) /\ (s = <<>> => ToSet(s) = {})
  <1> DEFINE f == [i \in 1 .. Len(s) |-> s[i]]
  <1>1. DOMAIN s = 1 .. Len(s) /\ Len(s) \in Nat
    OBVIOUS
  <1>2. f \in Surjection(1 .. Len(s), ToSet(s))
    BY <1>1 DEF Surjection, ToSet
  <1>3. IsFiniteSet(1 .. Len(s))
    BY <1>1, FS_Interval
  <1>4. IsFiniteSet(ToSet(s))
    <2> HIDE DEF f
    <2> QED
      BY <1>2, <1>3, FS_Surjection
  <1> QED
    BY <1>4 DEF ToSet

\* Anchors is that loop.
LEMMA AnchorsDefinition ==
    ASSUME NEW C, NEW names \in Seq(Seq(C))
    PROVE  \E given :
              /\ Anchors(names) = given[Len(names)]
              /\ given[0] = <<>>
              /\ \A i \in 1 .. Len(names) : given[i] = NextAnchor(names, given[i - 1], i)
  <1> DEFINE n == Len(names)
             X == Seq(Seq(SlugChars))
             step == [p \in (1 .. n) \X X |-> NextAnchor(names, p[2], p[1])]
             Body(f) == [i \in 0 .. n |-> IF i = 0 THEN <<>> ELSE NextAnchor(names, f[i - 1], i)]
  <1>1. n \in Nat /\ \A i \in 1 .. n : names[i] \in Seq(C)
    OBVIOUS
  <1> HIDE DEF n
  <1>2. <<>> \in X
    OBVIOUS
  <1>3. step \in Steps(n, X)
    <2>1. ASSUME NEW i \in 1 .. n, NEW given \in X PROVE NextAnchor(names, given, i) \in X
      <3>1. IsFiniteSet(ToSet(given))
        BY FiniteToSet
      <3>2. uniqueAnchor(names[i], ToSet(given)) \in Seq(SlugChars)
        BY <1>1, <3>1, AnchorIsFree DEF Neat
      <3> QED
        BY <3>2, AppendFacts DEF NextAnchor
    <2> HIDE DEF X
    <2> QED
      BY <2>1 DEF Steps
  <1>4. PICK f \in [0 .. n -> X] : f[0] = <<>> /\ \A i \in 1 .. n : f[i] = step[<<i, f[i - 1]>>]
    <2>1. n \in Nat
      BY <1>1
    <2> HIDE DEF X, step
    <2> QED
      BY <2>1, <1>2, <1>3, Iterates
  <1>5. f = Body(f)
    <2>1. \A i \in 1 .. n : f[i - 1] \in X
      <3>1. \A i \in 1 .. n : i - 1 \in 0 .. n
        BY <1>1
      <3> HIDE DEF X
      <3> QED
        BY <3>1
    <2>2. \A i \in 1 .. n, k \in X : step[<<i, k>>] = NextAnchor(names, k, i)
      <3> HIDE DEF X
      <3> QED
        OBVIOUS
    <2> HIDE DEF X, step
    <2>3. \A i \in 0 .. n : i = 0 \/ i \in 1 .. n
      BY <1>1
    <2>4. \A i \in 0 .. n : f[i] = IF i = 0 THEN <<>> ELSE NextAnchor(names, f[i - 1], i)
      BY <1>1, <1>4, <2>1, <2>2, <2>3
    <2>5. f = [i \in 0 .. n |-> f[i]]
      OBVIOUS
    <2> QED
      BY <2>4, <2>5
  <1> DEFINE given == CHOOSE g : g = Body(g)
  <1>6. given = Body(given)
    <2> HIDE DEF Body
    <2> QED
      BY <1>5
  <1>7. Anchors(names) = given[Len(names)]
    BY DEF Anchors, NextAnchor, n
  <1> HIDE DEF given
  <1>8. given[0] = <<>> /\ \A i \in 1 .. n : given[i] = NextAnchor(names, given[i - 1], i)
    BY <1>1, <1>6
  <1> QED
    BY <1>7, <1>8 DEF n

\* The anchors of some categories: one for each, all neat, no two the same; the
\* first is the slug of its name.
GivenOK(names, given, n) ==
    /\ given \in Seq(Seq(SlugChars)) /\ Len(given) = n
    /\ \A i \in 1 .. n : Neat(given[i])
    /\ \A i, j \in 1 .. n : given[i] = given[j] => i = j
    /\ n >= 1 => given[1] = Slugify(names[1])

\* An iteration keeps them so.
LEMMA NextAnchorOK ==
    ASSUME NEW C, NEW names \in Seq(Seq(C)), NEW n \in 1 .. Len(names),
           NEW given, GivenOK(names, given, n - 1)
    PROVE  GivenOK(names, NextAnchor(names, given, n), n)
  <1> DEFINE anchor == uniqueAnchor(names[n], ToSet(given))
             after == Append(given, anchor)
  <1>1. given \in Seq(Seq(SlugChars)) /\ Len(given) = n - 1 /\ DOMAIN given = 1 .. n - 1
    BY DEF GivenOK
  <1>2. /\ anchor \notin ToSet(given) /\ Neat(anchor) /\ anchor \in Seq(SlugChars)
        /\ n = 1 => anchor = Slugify(names[1])
    <2>1. IsFiniteSet(ToSet(given)) /\ (given = <<>> => ToSet(given) = {})
      BY <1>1, FiniteToSet
    <2>2. names[n] \in Seq(C)
      OBVIOUS
    <2>3. n = 1 => given = <<>>
      BY <1>1
    <2> QED
      BY <2>1, <2>2, <2>3, AnchorIsFree DEF Neat
  <1>3. \A i \in 1 .. n - 1 : given[i] # anchor
    BY <1>1, <1>2 DEF ToSet
  <1>4. /\ after \in Seq(Seq(SlugChars)) /\ Len(after) = n /\ after[n] = anchor
        /\ \A i \in 1 .. n - 1 : after[i] = given[i]
    <2> HIDE DEF anchor
    <2>1. /\ after \in Seq(Seq(SlugChars)) /\ Len(after) = Len(given) + 1
          /\ after[Len(given) + 1] = anchor
          /\ \A i \in 1 .. Len(given) : after[i] = given[i]
      BY <1>1, <1>2, AppendFacts
    <2> HIDE DEF after
    <2> QED
      BY <1>1, <2>1
  <1>5. NextAnchor(names, given, n) = after
    BY DEF NextAnchor
  <1> HIDE DEF after, anchor
  <1>6. \A i \in 1 .. n : i = n \/ i \in 1 .. n - 1
    OBVIOUS
  <1>7. \A i \in 1 .. n : Neat(after[i])
    BY <1>2, <1>4, <1>6 DEF GivenOK
  <1>8. ASSUME NEW i \in 1 .. n, NEW j \in 1 .. n, after[i] = after[j] PROVE i = j
    <2>1. CASE i = n /\ j # n
      <3>1. j \in 1 .. n - 1 /\ after[j] = given[j] /\ after[i] = anchor
        BY <1>4, <1>6, <2>1
      <3> QED
        BY <1>3, <1>8, <3>1
    <2>2. CASE i # n /\ j = n
      <3>1. i \in 1 .. n - 1 /\ after[i] = given[i] /\ after[j] = anchor
        BY <1>4, <1>6, <2>2
      <3> QED
        BY <1>3, <1>8, <3>1
    <2>3. CASE i # n /\ j # n
      <3>1. i \in 1 .. n - 1 /\ j \in 1 .. n - 1 /\ after[i] = given[i] /\ after[j] = given[j]
        BY <1>4, <1>6, <2>3
      <3>2. given[i] = given[j]
        BY <1>8, <3>1
      <3> QED
        BY <3>1, <3>2 DEF GivenOK
    <2> QED
      BY <2>1, <2>2, <2>3
  <1>9. after[1] = Slugify(names[1])
    BY <1>2, <1>4, <1>6 DEF GivenOK
  <1> QED
    BY <1>4, <1>5, <1>7, <1>8, <1>9 DEF GivenOK

\* So they are at the end.
LEMMA AnchorsOK ==
    ASSUME NEW C, NEW names \in Seq(Seq(C))
    PROVE  GivenOK(names, Anchors(names), Len(names))
  <1>1. PICK given : /\ Anchors(names) = given[Len(names)]
                     /\ given[0] = <<>>
                     /\ \A i \in 1 .. Len(names) : given[i] = NextAnchor(names, given[i - 1], i)
    BY AnchorsDefinition
  <1> DEFINE S == {i \in 0 .. Len(names) : GivenOK(names, given[i], i)}
  <1>2. Len(names) \in Nat
    OBVIOUS
  <1>3. 0 \in S
    <2>1. <<>> \in Seq(Seq(SlugChars)) /\ Len(<<>>) = 0
      OBVIOUS
    <2>2. \A i \in 1 .. 0 : FALSE
      OBVIOUS
    <2>3. GivenOK(names, <<>>, 0)
      BY <2>1, <2>2 DEF GivenOK
    <2> QED
      BY <1>1, <1>2, <2>3
  <1>4. \A i \in 1 .. Len(names) : i - 1 \in S => i \in S
    BY <1>1, <1>2, NextAnchorOK
  <1>5. Len(names) \in S
    <2>1. Len(names) \in 0 .. Len(names)
      BY <1>2
    <2> HIDE DEF S
    <2>2. \A i \in 0 .. Len(names) : i \in S
      BY <1>2, <1>3, <1>4, Induction
    <2> QED
      BY <2>1, <2>2
  <1> QED
    BY <1>1, <1>5
-----------------------------------------------------------------------------
\* Two ranges are the same only if they end at the same number.
LEMMA SameRange ==
    \A m, n \in Nat : 1 .. m = 1 .. n => m = n
  <1>1. ASSUME NEW m \in Nat, NEW n \in Nat, 1 .. m = 1 .. n PROVE m = n
    <2>1. m >= 1 => m \in 1 .. n
      BY <1>1
    <2>2. n >= 1 => n \in 1 .. m
      BY <1>1
    <2> QED
      BY <2>1, <2>2
  <1> QED
    BY <1>1

\* What a board looks like: its categories in order, each with its anchor.
LEMMA Built ==
    ASSUME NEW ps, Stored(ps), NEW v, v = BuildBoardView(ps), NEW names, names = Order(ps)
    PROVE  /\ NamesOK(ps, names, Len(ps)) /\ names \in Seq(Seq(Characters))
           /\ GivenOK(names, Anchors(names), Len(names))
           /\ DOMAIN v = 1 .. Len(names) /\ Len(names) \in Nat
           /\ \A i \in 1 .. Len(names) :
                 v[i] = buildCategory(names[i], ByCategory(ps, names[i]), Anchors(names)[i])
           /\ v \in Seq(ToSet(v)) /\ (v # <<>> => Len(names) >= 1)
  <1>1. NamesOK(ps, names, Len(ps)) /\ names \in Seq(Categories(ps))
    <2>1. NamesOK(ps, names, Len(ps))
      BY OrderOK
    <2> QED
      BY <2>1 DEF NamesOK
  <1>2. names \in Seq(Seq(Characters))
    <2>1. Categories(ps) \subseteq Seq(Characters)
      BY DEF Categories, Stored
    <2>2. \A C, D : C \subseteq D => Seq(C) \subseteq Seq(D)
      OBVIOUS
    <2> QED
      BY <1>1, <2>1, <2>2
  <1>3. GivenOK(names, Anchors(names), Len(names))
    BY <1>2, AnchorsOK
  <1>4. DOMAIN names = 1 .. Len(names) /\ Len(names) \in Nat
    BY <1>2
  <1>5. v = [i \in 1 .. Len(names) |->
                buildCategory(names[i], ByCategory(ps, names[i]), Anchors(names)[i])]
    BY <1>4 DEF BuildBoardView
  <1>6. v \in Seq(ToSet(v))
    <2>1. v \in [1 .. Len(names) -> ToSet(v)]
      BY <1>5 DEF ToSet
    <2>2. \A A, n, f : n \in Nat /\ f \in [1 .. n -> A] => f \in Seq(A)
      OBVIOUS
    <2> QED
      BY <1>4, <2>1, <2>2
  <1>7. v # <<>> => Len(names) >= 1
    <2>1. DOMAIN v = 1 .. Len(names)
      BY <1>5
    <2>2. \A D : v \in Seq(D) => DOMAIN v = 1 .. Len(v) /\ Len(v) \in Nat
                                /\ (Len(v) = 0 => v = <<>>)
      OBVIOUS
    <2> QED
      BY <1>4, <1>6, <2>1, <2>2, SameRange
  <1> QED
    BY <1>1, <1>2, <1>3, <1>4, <1>5, <1>6, <1>7

\* The names and the anchors of what was built.
LEMMA BuiltAnchors ==
    ASSUME NEW ps, Stored(ps), NEW v, v = BuildBoardView(ps), NEW names, names = Order(ps)
    PROVE  /\ DOMAIN v = 1 .. Len(names)
           /\ \A i \in 1 .. Len(names) : v[i].name = names[i] /\ v[i].anchor = Anchors(names)[i]
  <1>1. \A name, found, anchor :
           /\ buildCategory(name, found, anchor).name = name
           /\ buildCategory(name, found, anchor).anchor = anchor
    BY DEF buildCategory
  <1> QED
    BY <1>1, Built

\* The board is a stored one, and the view is what is built from it.
BInv == Stored(products) /\ (view # NoView => view = BuildBoardView(products))

\* BInv holds of every page.
THEOREM ViewInvariance == Spec => []BInv
  <1>1. Init => BInv
    BY BoardsAssumption DEF Init, BInv, Stored
  <1>2. BInv /\ [Next]_vars => BInv'
    BY DEF BInv, Next, vars, RenderBoard, Respond, Stored
  <1> QED
    BY <1>1, <1>2, PTL DEF Spec

\* No two tabs have the same anchor, for any number of categories of any names.
THEOREM AnchorsAreUniqueAlways == Spec => []AnchorsAreUnique
  <1>1. BInv => AnchorsAreUnique
    <2> SUFFICES ASSUME BInv, view # NoView,
                        NEW i \in DOMAIN view, NEW j \in DOMAIN view, view[i].anchor = view[j].anchor
                 PROVE  i = j
      BY DEF AnchorsAreUnique, Rendered
    <2> DEFINE names == Order(products)
    <2>1. Stored(products) /\ view = BuildBoardView(products)
      BY DEF BInv
    <2>2. GivenOK(names, Anchors(names), Len(names))
      BY <2>1, Built
    <2>3. /\ i \in 1 .. Len(names) /\ j \in 1 .. Len(names)
          /\ view[i].anchor = Anchors(names)[i] /\ view[j].anchor = Anchors(names)[j]
      BY <2>1, BuiltAnchors
    <2> HIDE DEF names
    <2> QED
      BY <2>2, <2>3 DEF GivenOK
  <1> QED
    BY <1>1, ViewInvariance, PTL
-----------------------------------------------------------------------------
\* The alphabet of the random part has 62 characters, the digits and the small
\* letters of a slug among them.
LEMMA Base62 ==
    /\ Len(base62Alphabet) = 62 /\ DOMAIN base62Alphabet = 1 .. 62
    /\ Letters \subseteq ToSet(base62Alphabet)
  <1> DEFINE rest == <<"a", "b", "c", "d", "e", "f", "g", "h", "i", "j", "k", "l", "m",
                       "n", "o", "p", "q", "r", "s", "t", "u", "v", "w", "x", "y", "z",
                       "A", "B", "C", "D", "E", "F", "G", "H", "I", "J", "K", "L", "M",
                       "N", "O", "P", "Q", "R", "S", "T", "U", "V", "W", "X", "Y", "Z">>
             zero == <<"0">>
             front == zero \o Digits
             C == ToSet(zero) \cup ToSet(Digits) \cup ToSet(rest)
  <1>1. zero \in Seq(C) /\ Len(zero) = 1 /\ zero[1] = "0"
    BY DEF ToSet
  <1>2. Digits \in Seq(C) /\ Len(Digits) = 9 /\ DOMAIN Digits = 1 .. 9
    BY DEF ToSet, Digits
  <1>3. rest \in Seq(C) /\ Len(rest) = 52 /\ rest[1] = "a" /\ rest[5] = "e"
    BY DEF ToSet
  <1>4. base62Alphabet = front \o rest
    BY DEF base62Alphabet
  <1> HIDE DEF zero, rest, C
  <1>5. front \in Seq(C) /\ Len(front) = 10 /\ front[1] = "0"
        /\ \A i \in 1 .. 9 : front[1 + i] = Digits[i]
    <2>1. /\ front \in Seq(C) /\ Len(front) = Len(zero) + Len(Digits)
          /\ \A i \in 1 .. Len(zero) : front[i] = zero[i]
          /\ \A i \in 1 .. Len(Digits) : front[Len(zero) + i] = Digits[i]
      <3>1. zero \in Seq(C) /\ Digits \in Seq(C)
        BY <1>1, <1>2
      <3> QED
        BY <3>1, ConcatFacts
    <2> HIDE DEF front
    <2>2. Len(front) = 10 /\ 1 \in 1 .. Len(zero)
      BY <1>1, <1>2, <2>1
    <2>3. front[1] = "0"
      BY <1>1, <2>1, <2>2
    <2>4. \A i \in 1 .. 9 : front[1 + i] = Digits[i]
      BY <1>1, <1>2, <2>1
    <2> QED
      BY <2>1, <2>2, <2>3, <2>4
  <1> HIDE DEF front
  <1>6. /\ base62Alphabet \in Seq(C) /\ Len(base62Alphabet) = 62
        /\ \A i \in 1 .. 10 : base62Alphabet[i] = front[i]
        /\ \A i \in 1 .. 52 : base62Alphabet[10 + i] = rest[i]
    <2>1. /\ base62Alphabet \in Seq(C) /\ Len(base62Alphabet) = Len(front) + Len(rest)
          /\ \A i \in 1 .. Len(front) : base62Alphabet[i] = front[i]
          /\ \A i \in 1 .. Len(rest) : base62Alphabet[Len(front) + i] = rest[i]
      <3>1. front \in Seq(C) /\ rest \in Seq(C)
        BY <1>3, <1>5
      <3>2. /\ front \o rest \in Seq(C) /\ Len(front \o rest) = Len(front) + Len(rest)
            /\ \A i \in 1 .. Len(front) : (front \o rest)[i] = front[i]
            /\ \A i \in 1 .. Len(rest) : (front \o rest)[Len(front) + i] = rest[i]
        BY <3>1, ConcatFacts
      <3> QED
        BY <1>4, <3>2
    <2> QED
      BY <1>3, <1>5, <2>1
  <1>7. DOMAIN base62Alphabet = 1 .. 62
    BY <1>6
  <1>8. ASSUME NEW c \in Letters PROVE \E i \in 1 .. 62 : base62Alphabet[i] = c
    <2>1. c \in {"a", "e", "0"} \/ \E i \in 1 .. 9 : c = Digits[i]
      BY <1>2 DEF Letters, ToSet
    <2>2. base62Alphabet[1] = "0"
      BY <1>5, <1>6
    <2>3. base62Alphabet[10 + 1] = "a" /\ base62Alphabet[10 + 5] = "e"
      BY <1>3, <1>6
    <2>4. ASSUME NEW i \in 1 .. 9 PROVE base62Alphabet[1 + i] = Digits[i] /\ 1 + i \in 1 .. 62
      <3>1. 1 + i \in 1 .. 10 /\ 1 + i \in 1 .. 62
        OBVIOUS
      <3>2. base62Alphabet[1 + i] = front[1 + i]
        BY <1>6, <3>1
      <3>3. front[1 + i] = Digits[i]
        BY <1>5
      <3> QED
        BY <3>1, <3>2, <3>3
    <2>5. 1 \in 1 .. 62 /\ 10 + 1 \in 1 .. 62 /\ 10 + 5 \in 1 .. 62
      OBVIOUS
    <2> QED
      BY <2>1, <2>2, <2>3, <2>4, <2>5
  <1> QED
    BY <1>6, <1>7, <1>8 DEF ToSet

\* Of two texts put together there is what there is of each.
LEMMA ToSetConcat ==
    ASSUME NEW C, NEW a \in Seq(C), NEW b \in Seq(C)
    PROVE  ToSet(a \o b) = ToSet(a) \cup ToSet(b)
  <1> DEFINE t == a \o b
  <1>1. /\ t \in Seq(C) /\ Len(t) = Len(a) + Len(b)
        /\ \A i \in 1 .. Len(a) : t[i] = a[i]
        /\ \A i \in 1 .. Len(b) : t[Len(a) + i] = b[i]
    BY ConcatFacts
  <1> HIDE DEF t
  <1>2. /\ DOMAIN t = 1 .. Len(t) /\ DOMAIN a = 1 .. Len(a) /\ DOMAIN b = 1 .. Len(b)
        /\ Len(a) \in Nat /\ Len(b) \in Nat
    BY <1>1
  <1>3. \A i \in DOMAIN t : t[i] \in ToSet(a) \cup ToSet(b)
    <2> SUFFICES ASSUME NEW i \in DOMAIN t PROVE t[i] \in ToSet(a) \cup ToSet(b)
      OBVIOUS
    <2>1. CASE i \in 1 .. Len(a)
      BY <1>1, <1>2, <2>1 DEF ToSet
    <2>2. CASE ~ (i \in 1 .. Len(a))
      <3>1. i - Len(a) \in 1 .. Len(b) /\ Len(a) + (i - Len(a)) = i
        BY <1>1, <1>2, <2>2
      <3>2. t[i] = b[i - Len(a)]
        BY <1>1, <3>1
      <3> QED
        BY <1>2, <3>1, <3>2 DEF ToSet
    <2> QED
      BY <2>1, <2>2
  <1>4. \A i \in DOMAIN a : a[i] \in ToSet(t)
    <2>1. \A i \in 1 .. Len(a) : i \in DOMAIN t /\ t[i] = a[i]
      BY <1>1, <1>2
    <2> QED
      BY <1>2, <2>1 DEF ToSet
  <1>5. \A i \in DOMAIN b : b[i] \in ToSet(t)
    <2>1. \A i \in 1 .. Len(b) : Len(a) + i \in DOMAIN t /\ t[Len(a) + i] = b[i]
      BY <1>1, <1>2
    <2> QED
      BY <1>2, <2>1 DEF ToSet
  <1>6. ToSet(t) \subseteq ToSet(a) \cup ToSet(b)
    BY <1>3 DEF ToSet
  <1>7. ToSet(a) \subseteq ToSet(t) /\ ToSet(b) \subseteq ToSet(t)
    BY <1>4, <1>5 DEF ToSet
  <1> QED
    BY <1>6, <1>7 DEF t

\* The address of a client can stand in a URL and is not the demo's.
LEMMA AddressFacts ==
    ASSUME NEW C, NEW name \in Seq(C), NEW bytes \in [1 .. 6 -> Nat],
           NEW address, address = For(name, bytes)
    PROVE  /\ ToSet(address) \subseteq ToSet(base62Alphabet) \cup ToSet(board) \cup {"-"}
           /\ address # demo
  <1> DEFINE s == Slugify(name)
             dash == <<"-">>
             r == suffix(bytes)
             B == ToSet(base62Alphabet)
             D == B \cup SlugChars
  <1>1. bytes \in [1 .. 6 -> Nat]
    OBVIOUS
  <1>2. r \in Seq(B)
    <2>1. \A n \in Nat : 1 + (n % 62) \in 1 .. 62
      OBVIOUS
    <2>2. \A n \in Nat : base62Alphabet[1 + (n % 62)] \in B
      BY <2>1, Base62 DEF ToSet
    <2>3. r = [i \in 1 .. 6 |-> base62Alphabet[1 + (bytes[i] % 62)]]
      BY <1>1, Base62 DEF suffix
    <2>4. r \in [1 .. 6 -> B]
      <3> HIDE DEF B, r
      <3>1. \A i \in 1 .. 6 : bytes[i] \in Nat
        BY <1>1
      <3> QED
        BY <2>2, <2>3, <3>1
    <2>5. \A A, n, f : n \in Nat /\ f \in [1 .. n -> A] => f \in Seq(A)
      OBVIOUS
    <2>6. 6 \in Nat
      OBVIOUS
    <2> HIDE DEF r, B
    <2> QED
      BY <2>4, <2>5, <2>6
  <1>3. s \in Seq(SlugChars)
    BY Slugified DEF Neat
  <1>4. \A E, F : E \subseteq F => Seq(E) \subseteq Seq(F)
    OBVIOUS
  <1>5. \A E, t : t \in Seq(E) => ToSet(t) \subseteq E
    BY DEF ToSet
  <1>6. Letters \subseteq B
    BY Base62
  <1>7. address = s \o dash \o r
    BY DEF For
  <1> HIDE DEF s, r, B
  <1>8. "-" \in D /\ B \subseteq D /\ SlugChars \subseteq D
    BY DEF SlugChars
  <1>9. D = B \cup ToSet(board) \cup {"-"}
    BY <1>6 DEF SlugChars
  <1> HIDE DEF D
  <1>10. dash \in Seq(D) /\ ToSet(dash) = {"-"}
    <2>1. dash \in Seq(D)
      BY <1>8, SingleFacts
    <2>2. ToSet(dash) = {"-"}
      BY DEF ToSet
    <2> QED
      BY <2>1, <2>2
  <1> HIDE DEF dash
  <1>11. s \in Seq(D) /\ r \in Seq(D)
    BY <1>2, <1>3, <1>4, <1>8
  <1>12. s \o dash \in Seq(D)
    BY <1>10, <1>11, ConcatFacts
  <1>13. ToSet(address) = (ToSet(s) \cup ToSet(dash)) \cup ToSet(r)
    <2> DEFINE p == s \o dash
    <2>1. ToSet(p) = ToSet(s) \cup ToSet(dash)
      BY <1>10, <1>11, ToSetConcat
    <2>2. p \in Seq(D)
      BY <1>12
    <2>3. address = p \o r
      BY <1>7
    <2> HIDE DEF p
    <2>4. ToSet(p \o r) = ToSet(p) \cup ToSet(r)
      BY <1>11, <2>2, ToSetConcat
    <2> QED
      BY <2>1, <2>3, <2>4
  <1>14. ToSet(s) \subseteq D /\ ToSet(r) \subseteq D
    BY <1>5, <1>11
  <1>15. address # demo
    <2>1. "-" \notin ToSet(demo)
      BY DEF ToSet, demo
    <2>2. "-" \in ToSet(address)
      BY <1>10, <1>13
    <2> QED
      BY <2>1, <2>2
  <1>16. ToSet(address) \subseteq B \cup ToSet(board) \cup {"-"}
    BY <1>8, <1>9, <1>10, <1>13, <1>14
  <1> QED
    BY <1>15, <1>16 DEF B

\* Whatever the client is called, in whatever characters, and whatever bytes the
\* random source gives, the address made of them can stand in a URL and is not
\* hidden behind the route of the demo.
THEOREM EveryAddressIsClean ==
    \A C : \A name \in Seq(C), bytes \in [1 .. 6 -> Nat] :
        /\ ToSet(For(name, bytes)) \subseteq ToSet(base62Alphabet) \cup ToSet(board) \cup {"-"}
        /\ For(name, bytes) # demo
  BY AddressFacts

\* Anchors and addresses can stand in a URL, for names of any length.
THEOREM SlugIsCleanAlways == Spec => []SlugIsClean
  <1>1. BInv => SlugIsClean
    <2> SUFFICES ASSUME BInv, view # NoView PROVE SlugIsClean
      BY DEF SlugIsClean, Rendered
    <2> DEFINE names == Order(products)
               anchors == Anchors(names)
    <2>1. Stored(products) /\ view = BuildBoardView(products)
      BY DEF BInv
    <2>2. /\ GivenOK(names, anchors, Len(names)) /\ names \in Seq(Seq(Characters))
          /\ Len(names) \in Nat /\ (view # <<>> => Len(names) >= 1)
      BY <2>1, Built
    <2>3. /\ DOMAIN view = 1 .. Len(names)
          /\ \A i \in 1 .. Len(names) : view[i].name = names[i] /\ view[i].anchor = anchors[i]
      BY <2>1, BuiltAnchors
    <2> HIDE DEF names, anchors
    <2>4. ASSUME NEW c \in ToSet(view)
          PROVE  /\ ToSet(c.anchor) \subseteq Letters \cup ToSet(board) \cup {"-"}
                 /\ c.anchor[1] # "-" /\ c.anchor[Len(c.anchor)] # "-"
                 /\ \A i \in 1 .. Len(c.anchor) - 1 : c.anchor[i] # "-" \/ c.anchor[i + 1] # "-"
      <3>1. PICK i \in 1 .. Len(names) : c = view[i]
        BY <2>3 DEF ToSet
      <3> DEFINE t == c.anchor
      <3>2. Neat(t)
        <4>1. t = anchors[i]
          BY <2>3, <3>1
        <4> QED
          BY <2>2, <4>1 DEF GivenOK
      <3> HIDE DEF t
      <3>3. ToSet(t) \subseteq SlugChars
        BY <3>2 DEF Neat, ToSet
      <3> QED
        BY <3>2, <3>3 DEF Neat, SingleDashes, SlugChars, t
    <2>5. ASSUME view # <<>>
          PROVE  /\ Len(firstSlug) \in 1 .. maxSlugifiedLen
                 /\ \A bytes \in Entropy : LET address == For(firstName, bytes) IN
                       /\ ToSet(address) \subseteq ToSet(base62Alphabet) \cup ToSet(board) \cup {"-"}
                       /\ address # demo
      <3>1. 1 \in 1 .. Len(names) /\ Len(names) >= 1
        BY <2>2, <2>5
      <3>2. names[1] \in Seq(Characters) /\ firstName = names[1] /\ firstSlug = Slugify(names[1])
        <4>1. names[1] \in Seq(Characters)
          BY <2>2, <3>1
        <4>2. firstName = names[1] /\ firstSlug = anchors[1]
          BY <2>3, <3>1 DEF firstName, firstSlug
        <4>3. anchors[1] = Slugify(names[1])
          BY <2>2, <3>1 DEF GivenOK
        <4> QED
          BY <4>1, <4>2, <4>3
      <3>3. Len(firstSlug) \in 1 .. maxSlugifiedLen
        <4>1. Neat(firstSlug) /\ Len(firstSlug) <= maxSlugifiedLen
          BY <3>2, Slugified
        <4> QED
          BY <4>1, LengthAssumption DEF Neat
      <3>4. Entropy \subseteq [1 .. 6 -> Nat]
        BY DEF Entropy
      <3> QED
        BY <3>2, <3>3, <3>4, AddressFacts
    <2> QED
      BY <2>4, <2>5 DEF SlugIsClean
  <1> QED
    BY <1>1, ViewInvariance, PTL
-----------------------------------------------------------------------------
\* An iteration of the loop that collects the products of a category.
NextFound(ps, name, found, i) ==
    IF ps[i].category = name THEN Append(found, ps[i]) ELSE found

\* ByCategory is that loop.
LEMMA ByCategoryDefinition ==
    ASSUME NEW ps, Stored(ps), NEW name
    PROVE  \E found :
              /\ ByCategory(ps, name) = found[Len(ps)]
              /\ found[0] = <<>>
              /\ \A i \in 1 .. Len(ps) : found[i] = NextFound(ps, name, found[i - 1], i)
  <1> DEFINE n == Len(ps)
             X == Seq(ToSet(ps))
             step == [p \in (1 .. n) \X X |-> NextFound(ps, name, p[2], p[1])]
             Body(f) == [i \in 0 .. n |-> IF i = 0 THEN <<>> ELSE NextFound(ps, name, f[i - 1], i)]
  <1>1. n \in Nat /\ \A i \in 1 .. n : ps[i] \in ToSet(ps)
    BY ItsProducts
  <1> HIDE DEF n
  <1>2. <<>> \in X
    OBVIOUS
  <1>3. step \in Steps(n, X)
    <2>1. \A i \in 1 .. n, s \in X : NextFound(ps, name, s, i) \in X
      BY <1>1, AppendFacts DEF NextFound
    <2> HIDE DEF X
    <2> QED
      BY <2>1 DEF Steps
  <1>4. PICK f \in [0 .. n -> X] : f[0] = <<>> /\ \A i \in 1 .. n : f[i] = step[<<i, f[i - 1]>>]
    <2>1. n \in Nat
      BY <1>1
    <2> HIDE DEF X, step
    <2> QED
      BY <2>1, <1>2, <1>3, Iterates
  <1>5. f = Body(f)
    <2>1. \A i \in 1 .. n : f[i - 1] \in X
      <3>1. \A i \in 1 .. n : i - 1 \in 0 .. n
        BY <1>1
      <3> HIDE DEF X
      <3> QED
        BY <3>1
    <2>2. \A i \in 1 .. n, k \in X : step[<<i, k>>] = NextFound(ps, name, k, i)
      <3> HIDE DEF X
      <3> QED
        OBVIOUS
    <2> HIDE DEF X, step
    <2>3. \A i \in 0 .. n : i = 0 \/ i \in 1 .. n
      BY <1>1
    <2>4. \A i \in 0 .. n : f[i] = IF i = 0 THEN <<>> ELSE NextFound(ps, name, f[i - 1], i)
      BY <1>1, <1>4, <2>1, <2>2, <2>3
    <2>5. f = [i \in 0 .. n |-> f[i]]
      OBVIOUS
    <2> QED
      BY <2>4, <2>5
  <1> DEFINE found == CHOOSE g : g = Body(g)
  <1>6. found = Body(found)
    <2> HIDE DEF Body
    <2> QED
      BY <1>5
  <1>7. ByCategory(ps, name) = found[Len(ps)]
    BY DEF ByCategory, NextFound, n
  <1> HIDE DEF found
  <1>8. found[0] = <<>> /\ \A i \in 1 .. n : found[i] = NextFound(ps, name, found[i - 1], i)
    BY <1>1, <1>6
  <1> QED
    BY <1>7, <1>8 DEF n

\* Where the products of a category stand among the first n, and what was found
\* there: as many, each at its rank.
FoundIn(ps, name, n) == {k \in 1 .. n : ps[k].category = name}
FoundOK(ps, name, found, n) ==
    /\ found \in Seq(ToSet(ps)) /\ Len(found) = Cardinality(FoundIn(ps, name, n))
    /\ \A k \in FoundIn(ps, name, n) :
          /\ Cardinality(FoundIn(ps, name, k)) \in 1 .. Len(found)
          /\ found[Cardinality(FoundIn(ps, name, k))] = ps[k]

\* An iteration keeps it so.
LEMMA NextFoundOK ==
    ASSUME NEW ps, Stored(ps), NEW name, NEW n \in 1 .. Len(ps), NEW found,
           FoundOK(ps, name, found, n - 1)
    PROVE  FoundOK(ps, name, NextFound(ps, name, found, n), n)
  <1>1. ps[n] \in ToSet(ps) /\ Len(ps) \in Nat /\ n \in Nat /\ n - 1 \in Nat
    <2>1. Len(ps) \in Nat
      BY ItsProducts
    <2> QED
      BY <2>1, ItsProducts
  <1>2. found \in Seq(ToSet(ps)) /\ Len(found) = Cardinality(FoundIn(ps, name, n - 1))
        /\ Len(found) \in Nat
    BY DEF FoundOK
  <1>3. \A k \in 1 .. n : k \in 1 .. n - 1 \/ k = n
    BY <1>1
  <1>4. \A k \in 1 .. n - 1 : k \in 1 .. n
    BY <1>1
  <1>5. CASE ps[n].category # name
    <2>1. FoundIn(ps, name, n) = FoundIn(ps, name, n - 1)
      BY <1>3, <1>4, <1>5 DEF FoundIn
    <2>2. NextFound(ps, name, found, n) = found
      BY <1>5 DEF NextFound
    <2> QED
      BY <2>1, <2>2 DEF FoundOK
  <1>6. CASE ps[n].category = name
    <2> DEFINE after == Append(found, ps[n])
               before == FoundIn(ps, name, n - 1)
               all == FoundIn(ps, name, n)
    <2>1. NextFound(ps, name, found, n) = after
      BY <1>6 DEF NextFound
    <2>2. /\ after \in Seq(ToSet(ps)) /\ Len(after) = Len(found) + 1
          /\ after[Len(found) + 1] = ps[n]
          /\ \A i \in 1 .. Len(found) : after[i] = found[i]
      BY <1>1, <1>2, AppendFacts
    <2>3. all = before \cup {n} /\ n \notin before
      <3>1. n \in 1 .. n /\ n \notin 1 .. n - 1
        BY <1>1
      <3> QED
        BY <1>3, <1>4, <1>6, <3>1 DEF FoundIn
    <2>4. IsFiniteSet(before)
      <3>1. IsFiniteSet(1 .. n - 1)
        BY <1>1, FS_Interval
      <3>2. before \subseteq 1 .. n - 1
        BY DEF FoundIn
      <3> HIDE DEF before
      <3> QED
        BY <3>1, <3>2, FS_Subset
    <2>5. Cardinality(all) = Len(found) + 1
      <3> HIDE DEF all, before
      <3>1. Cardinality(before \cup {n}) = Cardinality(before) + 1
        BY <2>3, <2>4, FS_AddElement
      <3> QED
        BY <1>2, <2>3, <3>1 DEF before
    <2> HIDE DEF after
    <2>6. ASSUME NEW k \in all
          PROVE  /\ Cardinality(FoundIn(ps, name, k)) \in 1 .. Len(after)
                 /\ after[Cardinality(FoundIn(ps, name, k))] = ps[k]
      <3>1. CASE k = n
        <4>1. Cardinality(FoundIn(ps, name, k)) = Len(found) + 1
          BY <2>5, <3>1
        <4> QED
          BY <1>2, <2>2, <3>1, <4>1
      <3>2. CASE k # n
        <4>1. k \in before
          BY <2>3, <3>2
        <4>2. /\ Cardinality(FoundIn(ps, name, k)) \in 1 .. Len(found)
              /\ found[Cardinality(FoundIn(ps, name, k))] = ps[k]
          BY <4>1 DEF FoundOK
        <4>3. \A i \in 1 .. Len(found) : i \in 1 .. Len(found) + 1
          BY <1>2
        <4> QED
          BY <2>2, <4>2, <4>3
      <3> QED
        BY <3>1, <3>2
    <2> QED
      BY <2>1, <2>2, <2>5, <2>6 DEF FoundOK
  <1> QED
    BY <1>5, <1>6

\* So it is at the end.
LEMMA FoundAll ==
    ASSUME NEW ps, Stored(ps), NEW name
    PROVE  FoundOK(ps, name, ByCategory(ps, name), Len(ps))
  <1>1. PICK found : /\ ByCategory(ps, name) = found[Len(ps)]
                     /\ found[0] = <<>>
                     /\ \A i \in 1 .. Len(ps) : found[i] = NextFound(ps, name, found[i - 1], i)
    BY ByCategoryDefinition
  <1> DEFINE S == {i \in 0 .. Len(ps) : FoundOK(ps, name, found[i], i)}
  <1>2. Len(ps) \in Nat
    BY ItsProducts
  <1>3. 0 \in S
    <2>1. <<>> \in Seq(ToSet(ps)) /\ Len(<<>>) = 0
      OBVIOUS
    <2>2. FoundIn(ps, name, 0) = {}
      BY DEF FoundIn
    <2>3. FoundOK(ps, name, <<>>, 0)
      BY <2>1, <2>2, FS_EmptySet DEF FoundOK
    <2> QED
      BY <1>1, <1>2, <2>3
  <1>4. \A i \in 1 .. Len(ps) : i - 1 \in S => i \in S
    BY <1>1, <1>2, NextFoundOK
  <1>5. Len(ps) \in S
    <2>1. Len(ps) \in 0 .. Len(ps)
      BY <1>2
    <2> HIDE DEF S
    <2>2. \A i \in 0 .. Len(ps) : i \in S
      BY <1>2, <1>3, <1>4, Induction
    <2> QED
      BY <2>1, <2>2
  <1> QED
    BY <1>1, <1>5

\* The products of a category as they are shown: one for each that was found.
LEMMA BuiltProducts ==
    ASSUME NEW ps, Stored(ps), NEW name, NEW anchor, NEW found, found = ByCategory(ps, name),
           NEW c, c = buildCategory(name, found, anchor)
    PROVE  /\ found \in Seq(ToSet(ps)) /\ DOMAIN found = 1 .. Len(found) /\ Len(found) \in Nat
           /\ Len(c.products) = Len(found) /\ DOMAIN c.products = 1 .. Len(found)
           /\ \A i \in 1 .. Len(found) : c.products[i] = buildProduct(found[i], c.specKeys)
  <1> DEFINE keys == unionSpecKeys(found)
             shown == [i \in DOMAIN found |-> buildProduct(found[i], keys)]
  <1>1. found \in Seq(ToSet(ps))
    BY FoundAll DEF FoundOK
  <1>2. DOMAIN found = 1 .. Len(found) /\ Len(found) \in Nat
    BY <1>1
  <1>3. c.specKeys = keys /\ c.products = shown
    BY DEF buildCategory
  <1> HIDE DEF keys
  <1>4. Len(shown) = Len(found)
    <2>1. \A n \in Nat : Len([i \in 1 .. n |-> buildProduct(found[i], keys)]) = n
      OBVIOUS
    <2> QED
      BY <1>2, <2>1
  <1> QED
    BY <1>1, <1>2, <1>3, <1>4

\* No product of a board is lost, shown twice or under another category, and none
\* changes its place, for any number of them.
THEOREM EveryProductShownOnceAlways == Spec => []EveryProductShownOnce
  <1>1. BInv => EveryProductShownOnce
    <2> SUFFICES ASSUME BInv, view # NoView PROVE EveryProductShownOnce
      BY DEF EveryProductShownOnce, Rendered
    <2> DEFINE names == Order(products)
    <2>1. Stored(products) /\ view = BuildBoardView(products)
      BY DEF BInv
    <2>2. /\ NamesOK(products, names, Len(products)) /\ DOMAIN view = 1 .. Len(names)
          /\ \A i \in 1 .. Len(names) :
                view[i] = buildCategory(names[i], ByCategory(products, names[i]), Anchors(names)[i])
      BY <2>1, Built
    <2>3. \A i \in 1 .. Len(names) : view[i].name = names[i]
      BY <2>1, BuiltAnchors
    <2>4. DOMAIN products = 1 .. Len(products) /\ Len(products) \in Nat
      BY <2>1, ItsProducts
    <2> HIDE DEF names
    <2>5. ASSUME NEW i \in DOMAIN view, NEW name, name = view[i].name
          PROVE  /\ Len(view[i].products) = Cardinality(Places(name))
                 /\ \A k \in Places(name) :
                      view[i].products[Cardinality({j \in Places(name) : j <= k})].title
                          = products[k].title
      <3> DEFINE found == ByCategory(products, name)
      <3>1. name = names[i] /\ view[i] = buildCategory(name, found, Anchors(names)[i])
        BY <2>2, <2>3, <2>5
      <3>2. FoundOK(products, name, found, Len(products))
        BY <2>1, FoundAll
      <3>3. /\ Len(view[i].products) = Len(found)
            /\ \A n \in 1 .. Len(found) :
                  view[i].products[n] = buildProduct(found[n], view[i].specKeys)
        BY <2>1, <3>1, BuiltProducts
      <3> HIDE DEF found
      <3>4. Places(name) = FoundIn(products, name, Len(products))
        BY <2>4 DEF Places, FoundIn
      <3>5. ASSUME NEW k \in Places(name)
            PROVE  view[i].products[Cardinality({j \in Places(name) : j <= k})].title
                      = products[k].title
        <4>1. {j \in Places(name) : j <= k} = FoundIn(products, name, k)
          BY <2>4 DEF Places, FoundIn
        <4>2. PICK n \in 1 .. Len(found) :
                 n = Cardinality(FoundIn(products, name, k)) /\ found[n] = products[k]
          BY <3>2, <3>4 DEF FoundOK
        <4>3. view[i].products[n] = buildProduct(products[k], view[i].specKeys)
          BY <3>3, <4>2
        <4>4. \A p, keys : buildProduct(p, keys).title = p.title
          BY DEF buildProduct
        <4>5. view[i].products[n].title = products[k].title
          BY <4>3, <4>4
        <4>6. n = Cardinality({j \in Places(name) : j <= k})
          BY <4>1, <4>2
        <4> QED
          BY <4>5, <4>6
      <3> QED
        BY <3>2, <3>3, <3>4, <3>5 DEF FoundOK
    <2>6. ASSUME NEW i \in DOMAIN view, NEW j \in DOMAIN view, i < j
          PROVE  \E k \in Places(view[i].name) : \A l \in Places(view[j].name) : k < l
      <3>1. PICK k \in 1 .. Len(products) :
               /\ products[k].category = names[i]
               /\ \A l \in 1 .. Len(products) : products[l].category = names[j] => k < l
        BY <2>2, <2>6 DEF NamesOK
      <3> QED
        BY <2>2, <2>3, <2>4, <3>1 DEF Places
    <2>7. {view[i].name : i \in DOMAIN view} = {products[i].category : i \in DOMAIN products}
      <3>1. \A i \in DOMAIN view : \E k \in DOMAIN products : view[i].name = products[k].category
        BY <2>2, <2>3, <2>4 DEF NamesOK
      <3>2. \A k \in DOMAIN products : \E i \in DOMAIN view : view[i].name = products[k].category
        BY <2>2, <2>3, <2>4 DEF NamesOK
      <3> QED
        BY <3>1, <3>2
    <2> QED
      BY <2>5, <2>6, <2>7 DEF EveryProductShownOnce
  <1> QED
    BY <1>1, ViewInvariance, PTL
-----------------------------------------------------------------------------
\* Stars for a rating: full ones, at most one half one, and empty ones, at most a
\* quarter of a star away.
Near(shown, rating, full, half) ==
    /\ Len(shown) = 5 /\ half <= 1
    /\ \A n \in 1 .. 4 : shown[n] = "empty" => shown[n + 1] = "empty"
    /\ \A n \in 1 .. 4 : shown[n + 1] = "full" => shown[n] = "full"
    /\ 100 * full + 50 * half - rating \in -25 .. 25

Shown(shown, kind) == {n \in 1 .. 5 : shown[n] = kind}

LEMMA Nearest ==
    ASSUME NEW r \in 0 .. 500, NEW shown, shown = stars(r)
    PROVE  Near(shown, r, Cardinality(Shown(shown, "full")), Cardinality(Shown(shown, "half")))
  <1> DEFINE h == (2 * r + 50) \div 100
             f == h \div 2
             e == h % 2
  <1>1. Max({0, Min({500, r})}) = r
    <2>1. Min({500, r}) = r
      BY DEF Min
    <2>2. Max({0, r}) = r
      BY DEF Max
    <2> QED
      BY <2>1, <2>2
  <1>2. /\ h \in 0 .. 10 /\ 100 * h <= 2 * r + 50 /\ 2 * r + 50 < 100 * h + 100
    OBVIOUS
  <1>3. shown = [i \in 1 .. 5 |-> IF i <= f THEN "full" ELSE IF i <= f + e THEN "half" ELSE "empty"]
    BY <1>1 DEF stars
  <1> HIDE DEF h
  <1>4. f \in 0 .. 5 /\ e \in 0 .. 1 /\ h = 2 * f + e /\ f + e \in 0 .. 5
    BY <1>2
  <1> HIDE DEF f, e
  <1>5. Len(shown) = 5
    <2>1. \A n \in Nat : \A s : DOMAIN s = 1 .. n /\ s \in Seq({"full", "half", "empty"}) => Len(s) = n
      <3>1. \A m, n \in Nat : 1 .. m = 1 .. n => m = n
        BY SameRange
      <3>2. \A s \in Seq({"full", "half", "empty"}) : DOMAIN s = 1 .. Len(s) /\ Len(s) \in Nat
        OBVIOUS
      <3> QED
        BY <3>1, <3>2
    <2>2. shown \in [1 .. 5 -> {"full", "half", "empty"}]
      BY <1>3
    <2>3. \A A, n, g : n \in Nat /\ g \in [1 .. n -> A] => g \in Seq(A)
      OBVIOUS
    <2>4. shown \in Seq({"full", "half", "empty"}) /\ 5 \in Nat /\ DOMAIN shown = 1 .. 5
      BY <2>2, <2>3
    <2> QED
      BY <2>1, <2>4
  <1>6. Shown(shown, "full") = 1 .. f
    BY <1>3, <1>4 DEF Shown
  <1>7. Shown(shown, "half") = f + 1 .. f + e
    BY <1>3, <1>4 DEF Shown
  <1>8. Cardinality(1 .. f) = f
    <2>1. 1 \in Int /\ f \in Int
      BY <1>4
    <2>2. Cardinality(1 .. f) = IF 1 > f THEN 0 ELSE f - 1 + 1
      BY <2>1, FS_Interval
    <2> QED
      BY <1>4, <2>2
  <1>9. Cardinality(f + 1 .. f + e) = e
    <2>1. f + 1 \in Int /\ f + e \in Int
      BY <1>4
    <2>2. Cardinality(f + 1 .. f + e) = IF f + 1 > f + e THEN 0 ELSE (f + e) - (f + 1) + 1
      BY <2>1, FS_Interval
    <2> QED
      BY <1>4, <2>2
  <1>10. 100 * f + 50 * e - r \in -25 .. 25
    BY <1>2, <1>4
  <1>11. \A n \in 1 .. 4 : shown[n] = "empty" => shown[n + 1] = "empty"
    BY <1>3, <1>4
  <1>12. \A n \in 1 .. 4 : shown[n + 1] = "full" => shown[n] = "full"
    BY <1>3, <1>4
  <1>13. Near(shown, r, f, e)
    BY <1>4, <1>5, <1>10, <1>11, <1>12 DEF Near
  <1> QED
    BY <1>6, <1>7, <1>8, <1>9, <1>13

\* The stars of every product are those nearest to its rating.
THEOREM StarsAreNearestAlways == Spec => []StarsAreNearest
  <1>1. BInv => StarsAreNearest
    <2> SUFFICES ASSUME BInv, view # NoView PROVE StarsAreNearest
      BY DEF StarsAreNearest, Rendered
    <2> DEFINE names == Order(products)
    <2>1. Stored(products) /\ view = BuildBoardView(products)
      BY DEF BInv
    <2>2. /\ DOMAIN view = 1 .. Len(names)
          /\ \A i \in 1 .. Len(names) :
                view[i] = buildCategory(names[i], ByCategory(products, names[i]), Anchors(names)[i])
      BY <2>1, Built
    <2>3. \A i \in 1 .. Len(names) : view[i].name = names[i]
      BY <2>1, BuiltAnchors
    <2> HIDE DEF names
    <2> SUFFICES ASSUME NEW c \in ToSet(view), NEW found, found = ByCategory(products, c.name),
                        NEW i \in DOMAIN found, found[i].rating # NoRating,
                        NEW shown, shown = c.products[i].stars
                 PROVE  Near(shown, found[i].rating, Cardinality(Shown(shown, "full")),
                             Cardinality(Shown(shown, "half")))
      BY DEF StarsAreNearest, Near, Shown
    <2>4. PICK k \in 1 .. Len(names) : c = view[k]
      BY <2>2 DEF ToSet
    <2>5. c = buildCategory(c.name, found, Anchors(names)[k])
      BY <2>2, <2>3, <2>4
    <2>6. /\ found \in Seq(ToSet(products)) /\ DOMAIN found = 1 .. Len(found)
          /\ \A n \in 1 .. Len(found) : c.products[n] = buildProduct(found[n], c.specKeys)
      BY <2>1, <2>5, BuiltProducts
    <2>7. found[i] \in ToSet(products)
      BY <2>6
    <2>8. found[i].rating \in 0 .. 500
      BY <2>1, <2>7 DEF Stored
    <2>9. \A p, keys : p.rating # NoRating => buildProduct(p, keys).stars = stars(p.rating)
      BY DEF buildProduct
    <2>10. shown = stars(found[i].rating)
      BY <2>6, <2>9
    <2> QED
      BY <2>8, <2>10, Nearest
  <1> QED
    BY <1>1, ViewInvariance, PTL
-----------------------------------------------------------------------------
\* Sorted lists a finite set of numbers: each of its members once, in order.
LEMMA SortedFacts ==
    ASSUME NEW S \in SUBSET Nat, IsFiniteSet(S), NEW s, s = Sorted(S)
    PROVE  /\ s \in Seq(S) /\ Len(s) = Cardinality(S) /\ Len(s) \in Nat /\ DOMAIN s = 1 .. Len(s)
           /\ \A k \in S : \E i \in 1 .. Len(s) : s[i] = k
           /\ \A i, j \in 1 .. Len(s) : i < j => s[i] < s[j]
  <1> DEFINE Below == [k \in S |-> {j \in S : j < k}]
             rank == [k \in S |-> Cardinality(Below[k])]
             c == Cardinality(S)
  <1>1. c \in Nat
    BY FS_CardinalityType
  <1>2. ASSUME NEW k \in S
        PROVE  /\ IsFiniteSet(Below[k]) /\ rank[k] \in Nat
               /\ Cardinality(Below[k] \cup {k}) = rank[k] + 1
    <2>1. IsFiniteSet(Below[k])
      BY FS_Subset
    <2>2. k \notin Below[k]
      OBVIOUS
    <2> HIDE DEF Below
    <2> QED
      BY <2>1, <2>2, FS_AddElement, FS_CardinalityType
  <1>13. rank \in [S -> Nat]
    BY <1>2
  <1>3. ASSUME NEW k \in S PROVE rank[k] < c
    <2>1. Below[k] \cup {k} \subseteq S
      OBVIOUS
    <2>2. Cardinality(Below[k] \cup {k}) <= c
      <3> HIDE DEF Below, rank
      <3> QED
        BY <2>1, FS_Subset
    <2> HIDE DEF Below, rank, c
    <2> QED
      BY <1>1, <1>2, <2>2
  <1>4. ASSUME NEW j \in S, NEW k \in S, j < k PROVE rank[j] < rank[k]
    <2>1. Below[j] \cup {j} \subseteq Below[k]
      <3>1. j \in Nat /\ k \in Nat /\ \A i \in S : i \in Nat
        OBVIOUS
      <3>2. \A i \in S : i < j => i < k
        BY <1>4, <3>1
      <3> QED
        BY <1>4, <3>2
    <2>2. Cardinality(Below[j] \cup {j}) <= Cardinality(Below[k])
      <3>1. IsFiniteSet(Below[k])
        BY <1>2
      <3> HIDE DEF Below
      <3> QED
        BY <2>1, <3>1, FS_Subset
    <2>3. rank[k] = Cardinality(Below[k])
      OBVIOUS
    <2>4. rank[j] + 1 <= rank[k]
      BY <1>2, <2>2, <2>3
    <2>5. rank[j] \in Nat /\ rank[k] \in Nat
      BY <1>13
    <2> HIDE DEF Below, rank
    <2> QED
      BY <2>4, <2>5
  <1>5. \A k \in S : Cardinality({j \in S : j < k}) = rank[k]
    OBVIOUS
  <1>6. ASSUME NEW i \in 1 .. c, \E k \in S : rank[k] = i - 1
        PROVE  s[i] \in S /\ rank[s[i]] = i - 1
    BY <1>5, <1>6 DEF Sorted
  <1>12. DOMAIN s = 1 .. c /\ s = [i \in 1 .. c |-> s[i]]
    <2> DEFINE pick(i) == CHOOSE k \in S : Cardinality({j \in S : j < k}) = i - 1
    <2>1. s = [i \in 1 .. c |-> pick(i)]
      BY DEF Sorted
    <2> HIDE DEF rank, Below, pick, c
    <2> QED
      BY <2>1
  <1> HIDE DEF Below, c, rank
  <1>7. ASSUME NEW i \in 1 .. c PROVE \E k \in S : rank[k] = i - 1
    <2> DEFINE f == [k \in S |-> rank[k] + 1]
               R == {f[k] : k \in S}
    <2>1. f \in Bijection(S, R)
      <3>1. \A j, k \in S : f[j] = f[k] => j = k
        <4>1. \A j, k \in S : rank[j] + 1 = rank[k] + 1 => ~ (j < k) /\ ~ (k < j)
          BY <1>13, <1>4
        <4>2. \A j, k \in S : ~ (j < k) /\ ~ (k < j) => j = k
          OBVIOUS
        <4> QED
          BY <4>1, <4>2
      <3>2. f \in [S -> R] /\ \A r \in R : \E k \in S : f[k] = r
        OBVIOUS
      <3> HIDE DEF f, R
      <3> QED
        BY <3>1, <3>2 DEF Bijection, Injection, Surjection, IsInjective
    <2>2. R \subseteq 1 .. c
      BY <1>1, <1>13, <1>3
    <2>3. Cardinality(R) = c
      <3> HIDE DEF f, R
      <3>1. ExistsBijection(S, R)
        BY <2>1 DEF ExistsBijection
      <3> QED
        BY <3>1, FS_Bijection DEF c
    <2>4. IsFiniteSet(1 .. c) /\ Cardinality(1 .. c) = c
      <3>1. 1 \in Int /\ c \in Int
        BY <1>1
      <3>2. IsFiniteSet(1 .. c) /\ Cardinality(1 .. c) = IF 1 > c THEN 0 ELSE c - 1 + 1
        BY <3>1, FS_Interval
      <3> QED
        BY <1>1, <3>2
    <2>5. R = 1 .. c
      <3> HIDE DEF R
      <3> QED
        BY <2>2, <2>3, <2>4, FS_Subset
    <2>6. PICK k \in S : f[k] = i
      BY <2>5
    <2> QED
      BY <1>1, <1>13, <2>6
  <1>8. ASSUME NEW i \in 1 .. c PROVE s[i] \in S /\ rank[s[i]] = i - 1
    BY <1>6, <1>7
  <1>9. s \in Seq(S) /\ Len(s) = c /\ DOMAIN s = 1 .. c
    <2>1. DOMAIN s = 1 .. c /\ s = [i \in 1 .. c |-> s[i]]
      BY <1>12
    <2>2. s \in [1 .. c -> S]
      BY <1>8, <2>1
    <2>3. \A A, n, g : n \in Nat /\ g \in [1 .. n -> A] => g \in Seq(A)
      OBVIOUS
    <2>4. s \in Seq(S)
      BY <1>1, <2>2, <2>3
    <2>5. DOMAIN s = 1 .. Len(s) /\ Len(s) \in Nat
      BY <2>4
    <2> QED
      BY <1>1, <2>1, <2>4, <2>5, SameRange
  <1>10. ASSUME NEW k \in S PROVE \E i \in 1 .. c : s[i] = k
    <2>1. rank[k] + 1 \in 1 .. c
      BY <1>1, <1>13, <1>3
    <2>2. s[rank[k] + 1] \in S /\ rank[s[rank[k] + 1]] = rank[k]
      BY <1>13, <1>8, <2>1
    <2>3. \A j \in S : rank[j] = rank[k] => ~ (j < k) /\ ~ (k < j)
      BY <1>13, <1>4
    <2>4. \A j \in S : ~ (j < k) /\ ~ (k < j) => j = k
      OBVIOUS
    <2> QED
      BY <2>1, <2>2, <2>3, <2>4
  <1>11. ASSUME NEW i \in 1 .. c, NEW j \in 1 .. c, i < j PROVE s[i] < s[j]
    <2>1. s[i] \in S /\ s[j] \in S /\ rank[s[i]] = i - 1 /\ rank[s[j]] = j - 1
      BY <1>8
    <2>2. i - 1 < j - 1 /\ ~ (j - 1 < i - 1)
      BY <1>1, <1>11
    <2>3. s[i] # s[j] /\ ~ (s[j] < s[i])
      BY <1>4, <2>1, <2>2
    <2>4. s[i] \in Nat /\ s[j] \in Nat
      BY <2>1
    <2> QED
      BY <2>3, <2>4
  <1> QED
    BY <1>1, <1>9, <1>10, <1>11 DEF c

\* Products whose specs are finitely many keys, as those of a board.
WithSpecs(ps) ==
    /\ ps \in Seq(ToSet(ps))
    /\ \A p \in ToSet(ps) : DOMAIN p.specs \subseteq Nat /\ IsFiniteSet(DOMAIN p.specs)

\* An iteration of the loop that collects their keys.
NextKeys(ps, seen, i) == seen \o Sorted(DOMAIN ps[i].specs \ ToSet(seen))

\* What it adds: the keys that are not there, sorted.
Added(seen, S, new, after) ==
    /\ after \in Seq(Nat) /\ Len(after) = Len(seen) + Len(new)
    /\ \A m \in 1 .. Len(seen) : after[m] = seen[m]
    /\ \A m \in 1 .. Len(new) : after[Len(seen) + m] = new[m]
    /\ \A m \in 1 .. Len(new) : new[m] \in S
    /\ \A k \in S : \E m \in 1 .. Len(new) : new[m] = k
    /\ \A m, l \in 1 .. Len(new) : m < l => new[m] < new[l]
    /\ Len(new) \in Nat

LEMMA NewKeys ==
    ASSUME NEW ps, WithSpecs(ps), NEW i \in 1 .. Len(ps), NEW seen \in Seq(Nat),
           NEW S, S = DOMAIN ps[i].specs \ ToSet(seen), NEW new, new = Sorted(S),
           NEW after, after = NextKeys(ps, seen, i)
    PROVE  Added(seen, S, new, after)
  <1>1. S \in SUBSET Nat /\ IsFiniteSet(S)
    <2>1. ps[i] \in ToSet(ps)
      <3>1. \A C : ps \in Seq(C) => DOMAIN ps = 1 .. Len(ps)
        OBVIOUS
      <3> QED
        BY <3>1 DEF WithSpecs, ToSet
    <2>2. DOMAIN ps[i].specs \subseteq Nat /\ IsFiniteSet(DOMAIN ps[i].specs)
      BY <2>1 DEF WithSpecs
    <2>3. S \subseteq DOMAIN ps[i].specs
      OBVIOUS
    <2> QED
      BY <2>2, <2>3, FS_Subset
  <1>2. /\ new \in Seq(S) /\ Len(new) \in Nat
        /\ \A k \in S : \E m \in 1 .. Len(new) : new[m] = k
        /\ \A m, l \in 1 .. Len(new) : m < l => new[m] < new[l]
    <2>1. \A T \in SUBSET Nat : IsFiniteSet(T) =>
             /\ Sorted(T) \in Seq(T) /\ Len(Sorted(T)) \in Nat
             /\ \A k \in T : \E m \in 1 .. Len(Sorted(T)) : Sorted(T)[m] = k
             /\ \A m, l \in 1 .. Len(Sorted(T)) : m < l => Sorted(T)[m] < Sorted(T)[l]
      BY SortedFacts
    <2> QED
      BY <1>1, <2>1
  <1>3. new \in Seq(Nat) /\ \A m \in 1 .. Len(new) : new[m] \in S
    <2>1. \A C, D : C \subseteq D => Seq(C) \subseteq Seq(D)
      OBVIOUS
    <2>2. S \subseteq Nat
      BY <1>1
    <2>3. new \in Seq(S)
      BY <1>2
    <2>4. \A C : \A t \in Seq(C) : \A m \in 1 .. Len(t) : t[m] \in C
      OBVIOUS
    <2>5. new \in Seq(Nat)
      BY <2>1, <2>2, <2>3
    <2>6. \A m \in 1 .. Len(new) : new[m] \in S
      BY <2>3, <2>4
    <2> QED
      BY <2>5, <2>6
  <1>4. after = seen \o new
    BY DEF NextKeys
  <1>5. /\ seen \o new \in Seq(Nat) /\ Len(seen \o new) = Len(seen) + Len(new)
        /\ \A m \in 1 .. Len(seen) : (seen \o new)[m] = seen[m]
        /\ \A m \in 1 .. Len(new) : (seen \o new)[Len(seen) + m] = new[m]
    BY <1>3, ConcatFacts
  <1> QED
    BY <1>2, <1>3, <1>4, <1>5 DEF Added

\* unionSpecKeys is that loop.
LEMMA KeysDefinition ==
    ASSUME NEW ps, WithSpecs(ps)
    PROVE  \E keys :
              /\ unionSpecKeys(ps) = keys[Len(ps)]
              /\ keys[0] = <<>>
              /\ \A i \in 1 .. Len(ps) : keys[i] = NextKeys(ps, keys[i - 1], i)
  <1> DEFINE n == Len(ps)
             X == Seq(Nat)
             step == [p \in (1 .. n) \X X |-> NextKeys(ps, p[2], p[1])]
             Body(f) == [i \in 0 .. n |-> IF i = 0 THEN <<>> ELSE NextKeys(ps, f[i - 1], i)]
  <1>1. n \in Nat
    <2>1. \A C : ps \in Seq(C) => Len(ps) \in Nat
      OBVIOUS
    <2> QED
      BY <2>1 DEF WithSpecs
  <1>2. <<>> \in X
    OBVIOUS
  <1>3. step \in Steps(n, X)
    <2>1. \A i \in 1 .. n, s \in X : NextKeys(ps, s, i) \in X
      BY NewKeys DEF Added
    <2> HIDE DEF X, n
    <2> QED
      BY <2>1 DEF Steps
  <1> HIDE DEF n
  <1>4. PICK f \in [0 .. n -> X] : f[0] = <<>> /\ \A i \in 1 .. n : f[i] = step[<<i, f[i - 1]>>]
    <2>1. n \in Nat
      BY <1>1
    <2> HIDE DEF X, step
    <2> QED
      BY <2>1, <1>2, <1>3, Iterates
  <1>5. f = Body(f)
    <2>1. \A i \in 1 .. n : f[i - 1] \in X
      <3>1. \A i \in 1 .. n : i - 1 \in 0 .. n
        BY <1>1
      <3> HIDE DEF X
      <3> QED
        BY <3>1
    <2>2. \A i \in 1 .. n, k \in X : step[<<i, k>>] = NextKeys(ps, k, i)
      <3> HIDE DEF X
      <3> QED
        OBVIOUS
    <2> HIDE DEF X, step
    <2>3. \A i \in 0 .. n : i = 0 \/ i \in 1 .. n
      BY <1>1
    <2>4. \A i \in 0 .. n : f[i] = IF i = 0 THEN <<>> ELSE NextKeys(ps, f[i - 1], i)
      BY <1>1, <1>4, <2>1, <2>2, <2>3
    <2>5. f = [i \in 0 .. n |-> f[i]]
      OBVIOUS
    <2> QED
      BY <2>4, <2>5
  <1> DEFINE keys == CHOOSE g : g = Body(g)
  <1>6. keys = Body(keys)
    <2> HIDE DEF Body
    <2> QED
      BY <1>5
  <1>7. unionSpecKeys(ps) = keys[Len(ps)]
    BY DEF unionSpecKeys, NextKeys, n
  <1> HIDE DEF keys
  <1>8. keys[0] = <<>> /\ \A i \in 1 .. n : keys[i] = NextKeys(ps, keys[i - 1], i)
    BY <1>1, <1>6
  <1> QED
    BY <1>7, <1>8 DEF n

\* The product that brings a key first, and the keys of the first n products: each
\* of them, after those that were brought earlier or by the same product and are
\* smaller.
Has(ps, i, k) == k \in DOMAIN ps[i].specs
Brings(ps, i, k) == Has(ps, i, k) /\ \A j \in 1 .. i - 1 : ~ Has(ps, j, k)
Precedes(ps, i, a, b) ==
    /\ Brings(ps, i, a)
    /\ \A j \in 1 .. i - 1 : ~ Has(ps, j, b)
    /\ Has(ps, i, b) => a < b
KeysOK(ps, keys, n) ==
    /\ keys \in Seq(Nat)
    /\ \A i \in 1 .. n : \A k \in Nat : Has(ps, i, k) => \E m \in 1 .. Len(keys) : keys[m] = k
    /\ \A m \in 1 .. Len(keys) : \E i \in 1 .. n : Brings(ps, i, keys[m])
    /\ \A m, l \in 1 .. Len(keys) : m < l => \E i \in 1 .. n : Precedes(ps, i, keys[m], keys[l])

\* An iteration keeps them so.
LEMMA NextKeysOK ==
    ASSUME NEW ps, WithSpecs(ps), NEW n \in 1 .. Len(ps), NEW seen, KeysOK(ps, seen, n - 1)
    PROVE  KeysOK(ps, NextKeys(ps, seen, n), n)
  <1> DEFINE S == DOMAIN ps[n].specs \ ToSet(seen)
             new == Sorted(S)
             after == NextKeys(ps, seen, n)
             old == Len(seen)
  <1>1. n \in Nat /\ n \in 1 .. n /\ seen \in Seq(Nat) /\ old \in Nat
        /\ \A i \in 1 .. n : i \in 1 .. n - 1 \/ i = n
    <2>1. \A C : ps \in Seq(C) => Len(ps) \in Nat
      OBVIOUS
    <2>2. Len(ps) \in Nat /\ seen \in Seq(Nat)
      BY <2>1 DEF WithSpecs, KeysOK
    <2> QED
      BY <2>2
  <1>2. \A i \in 1 .. n - 1 : i \in 1 .. n
    BY <1>1
  <1>3. /\ after \in Seq(Nat) /\ Len(after) = old + Len(new)
        /\ \A m \in 1 .. old : after[m] = seen[m]
        /\ \A m \in 1 .. Len(new) : after[old + m] = new[m]
        /\ \A m \in 1 .. Len(new) : new[m] \in S
        /\ \A k \in S : \E m \in 1 .. Len(new) : new[m] = k
        /\ \A m, l \in 1 .. Len(new) : m < l => new[m] < new[l]
        /\ Len(new) \in Nat
    <2>1. S = DOMAIN ps[n].specs \ ToSet(seen) /\ new = Sorted(S)
          /\ after = NextKeys(ps, seen, n) /\ old = Len(seen) /\ seen \in Seq(Nat)
      BY <1>1
    <2> HIDE DEF S, new, after, old
    <2>2. Added(seen, S, new, after)
      BY <2>1, NewKeys
    <2> QED
      BY <2>1, <2>2 DEF Added
  <1>4. \A k : Has(ps, n, k) => k \in S \/ \E m \in 1 .. old : seen[m] = k
    BY <1>1 DEF Has, ToSet
  <1>5. \A k \in S : Has(ps, n, k) /\ \A m \in 1 .. old : seen[m] # k
    BY <1>1 DEF Has, ToSet
  <1>6. S \subseteq Nat
    <2>1. \A m \in 1 .. Len(new) : after[old + m] \in Nat
      <3>1. \A m \in 1 .. Len(new) : old + m \in 1 .. Len(after)
        BY <1>1, <1>3
      <3> HIDE DEF after, new
      <3> QED
        BY <1>3, <3>1
    <2> HIDE DEF S, new, after, old
    <2> QED
      BY <1>3, <2>1
  <1> HIDE DEF S, new, after, old
  <1>7. ASSUME NEW k \in S PROVE Brings(ps, n, k)
    <2>1. \A j \in 1 .. n - 1 : ~ Has(ps, j, k)
      BY <1>5, <1>6 DEF KeysOK, old
    <2> QED
      BY <1>5, <2>1 DEF Brings
  <1>8. ASSUME NEW m \in 1 .. Len(after)
        PROVE  m \in 1 .. old \/ (m - old \in 1 .. Len(new) /\ old + (m - old) = m)
    BY <1>1, <1>3
  <1>9. ASSUME NEW m \in 1 .. Len(after), m \notin 1 .. old
        PROVE  after[m] = new[m - old] /\ after[m] \in S
    <2>1. m - old \in 1 .. Len(new) /\ old + (m - old) = m
      BY <1>8, <1>9
    <2>2. after[old + (m - old)] = new[m - old]
      BY <1>3, <2>1
    <2> QED
      BY <1>3, <2>1, <2>2
  <1>10. ASSUME NEW i \in 1 .. n, NEW k \in Nat, Has(ps, i, k)
         PROVE  \E m \in 1 .. Len(after) : after[m] = k
    <2>1. CASE \E m \in 1 .. old : seen[m] = k
      <3>1. \A m \in 1 .. old : m \in 1 .. Len(after)
        BY <1>1, <1>3
      <3> QED
        BY <1>3, <2>1, <3>1
    <2>2. CASE k \in S
      <3>1. PICK m \in 1 .. Len(new) : new[m] = k
        BY <1>3, <2>2
      <3>2. old + m \in 1 .. Len(after) /\ after[old + m] = k
        BY <1>1, <1>3, <3>1
      <3> QED
        BY <3>2
    <2>3. i \in 1 .. n - 1 => \E m \in 1 .. old : seen[m] = k
      BY <1>10 DEF KeysOK, old
    <2> QED
      BY <1>1, <1>4, <1>10, <2>1, <2>2, <2>3
  <1>11. ASSUME NEW m \in 1 .. old PROVE \E i \in 1 .. n - 1 : Brings(ps, i, seen[m])
    BY DEF KeysOK, old
  <1>12. ASSUME NEW m \in 1 .. Len(after) PROVE \E i \in 1 .. n : Brings(ps, i, after[m])
    <2>1. CASE m \in 1 .. old
      BY <1>2, <1>3, <1>11, <2>1
    <2>2. CASE m \notin 1 .. old
      BY <1>1, <1>7, <1>9, <2>2
    <2> QED
      BY <2>1, <2>2
  <1>13. ASSUME NEW m \in 1 .. Len(after), NEW l \in 1 .. Len(after), m < l
         PROVE  \E i \in 1 .. n : Precedes(ps, i, after[m], after[l])
    <2>1. CASE l \in 1 .. old
      <3>1. m \in 1 .. old
        BY <1>1, <1>3, <1>13, <2>1
      <3>2. PICK i \in 1 .. n - 1 : Precedes(ps, i, seen[m], seen[l])
        BY <1>13, <2>1, <3>1 DEF KeysOK, old
      <3> QED
        BY <1>2, <1>3, <2>1, <3>1, <3>2
    <2>2. CASE l \notin 1 .. old /\ m \in 1 .. old
      <3>1. PICK i \in 1 .. n - 1 : Brings(ps, i, after[m])
        BY <1>3, <1>11, <2>2
      <3>2. Brings(ps, n, after[l])
        BY <1>7, <1>9, <2>2
      <3>3. ~ Has(ps, i, after[l]) /\ \A j \in 1 .. i - 1 : ~ Has(ps, j, after[l])
        <4>1. i \in 1 .. n - 1 /\ \A j \in 1 .. i - 1 : j \in 1 .. n - 1
          BY <1>1
        <4> QED
          BY <3>2, <4>1 DEF Brings
      <3>4. Precedes(ps, i, after[m], after[l])
        BY <3>1, <3>3 DEF Precedes
      <3> QED
        BY <1>2, <3>4
    <2>3. CASE l \notin 1 .. old /\ m \notin 1 .. old
      <3>1. /\ after[m] = new[m - old] /\ after[m] \in S
            /\ after[l] = new[l - old] /\ after[l] \in S
        BY <1>9, <2>3
      <3>2. m - old \in 1 .. Len(new) /\ l - old \in 1 .. Len(new) /\ m - old < l - old
        BY <1>1, <1>3, <1>8, <1>13, <2>3
      <3>3. after[m] < after[l]
        BY <1>3, <3>1, <3>2
      <3>4. Brings(ps, n, after[m]) /\ Brings(ps, n, after[l])
        BY <1>7, <3>1
      <3>5. Precedes(ps, n, after[m], after[l])
        BY <3>3, <3>4 DEF Precedes, Brings
      <3> QED
        BY <1>1, <3>5
    <2> QED
      BY <2>1, <2>2, <2>3
  <1> QED
    BY <1>3, <1>10, <1>12, <1>13 DEF KeysOK, after

\* So they are at the end.
LEMMA KeysAll ==
    ASSUME NEW ps, WithSpecs(ps)
    PROVE  KeysOK(ps, unionSpecKeys(ps), Len(ps))
  <1>1. PICK keys : /\ unionSpecKeys(ps) = keys[Len(ps)]
                    /\ keys[0] = <<>>
                    /\ \A i \in 1 .. Len(ps) : keys[i] = NextKeys(ps, keys[i - 1], i)
    BY KeysDefinition
  <1> DEFINE S == {i \in 0 .. Len(ps) : KeysOK(ps, keys[i], i)}
  <1>2. Len(ps) \in Nat
    <2>1. \A C : ps \in Seq(C) => Len(ps) \in Nat
      OBVIOUS
    <2> QED
      BY <2>1 DEF WithSpecs
  <1>3. 0 \in S
    <2>1. <<>> \in Seq(Nat) /\ Len(<<>>) = 0
      OBVIOUS
    <2>2. \A i \in 1 .. 0 : FALSE
      OBVIOUS
    <2>3. KeysOK(ps, <<>>, 0)
      BY <2>1, <2>2 DEF KeysOK
    <2> QED
      BY <1>1, <1>2, <2>3
  <1>4. \A i \in 1 .. Len(ps) : i - 1 \in S => i \in S
    BY <1>1, <1>2, NextKeysOK
  <1>5. Len(ps) \in S
    <2>1. Len(ps) \in 0 .. Len(ps)
      BY <1>2
    <2> HIDE DEF S
    <2>2. \A i \in 0 .. Len(ps) : i \in S
      BY <1>2, <1>3, <1>4, Induction
    <2> QED
      BY <2>1, <2>2
  <1> QED
    BY <1>1, <1>5

\* A category of the view: what was found for it, and what is shown of that.
LEMMA ItsCategory ==
    ASSUME NEW ps, Stored(ps), NEW v, v = BuildBoardView(ps), NEW c \in ToSet(v),
           NEW found, found = ByCategory(ps, c.name)
    PROVE  /\ WithSpecs(found) /\ DOMAIN found = 1 .. Len(found) /\ Len(found) \in Nat
           /\ c.specKeys = unionSpecKeys(found)
           /\ \A i \in 1 .. Len(found) :
                 found[i] \in ToSet(ps) /\ c.products[i] = buildProduct(found[i], c.specKeys)
  <1> DEFINE names == Order(ps)
  <1>1. /\ DOMAIN v = 1 .. Len(names)
        /\ \A i \in 1 .. Len(names) :
              v[i] = buildCategory(names[i], ByCategory(ps, names[i]), Anchors(names)[i])
    BY Built
  <1>2. \A i \in 1 .. Len(names) : v[i].name = names[i]
    BY BuiltAnchors
  <1> HIDE DEF names
  <1>3. PICK k \in 1 .. Len(names) : c = v[k]
    BY <1>1 DEF ToSet
  <1>4. c = buildCategory(c.name, found, Anchors(names)[k])
    BY <1>1, <1>2, <1>3
  <1>5. /\ found \in Seq(ToSet(ps)) /\ DOMAIN found = 1 .. Len(found) /\ Len(found) \in Nat
        /\ \A i \in 1 .. Len(found) : c.products[i] = buildProduct(found[i], c.specKeys)
    BY <1>4, BuiltProducts
  <1>6. c.specKeys = unionSpecKeys(found)
    <2>1. \A name, anchor : buildCategory(name, found, anchor).specKeys = unionSpecKeys(found)
      BY DEF buildCategory
    <2> QED
      BY <1>4, <2>1
  <1>7. \A i \in 1 .. Len(found) : found[i] \in ToSet(ps)
    BY <1>5
  <1>8. WithSpecs(found)
    <2>1. found \in Seq(ToSet(found))
      <3>1. found \in [1 .. Len(found) -> ToSet(found)]
        BY <1>5 DEF ToSet
      <3>2. \A A, n, f : n \in Nat /\ f \in [1 .. n -> A] => f \in Seq(A)
        OBVIOUS
      <3> QED
        BY <1>5, <3>1, <3>2
    <2>2. \A p \in ToSet(found) : p \in ToSet(ps)
      BY <1>5, <1>7 DEF ToSet
    <2> QED
      BY <2>1, <2>2 DEF WithSpecs, Stored
  <1> QED
    BY <1>5, <1>6, <1>7, <1>8

\* The keys of a table come in the order of the products that bring them, for any
\* number of products and keys.
THEOREM KeysAppearInOrderAlways == Spec => []KeysAppearInOrder
  <1> DEFINE At(ps, k) == {i \in DOMAIN ps : k \in DOMAIN ps[i].specs}
  <1>1. BInv => KeysAppearInOrder
    <2> SUFFICES ASSUME BInv, view # NoView,
                        NEW c \in ToSet(view), NEW ps, ps = ByCategory(products, c.name),
                        NEW keys, keys = c.specKeys,
                        NEW m \in DOMAIN keys, NEW n \in DOMAIN keys, m < n,
                        NEW a, a = keys[m], NEW b, b = keys[n]
                 PROVE  Min(At(ps, a)) < Min(At(ps, b)) \/ (Min(At(ps, a)) = Min(At(ps, b)) /\ a < b)
      BY DEF KeysAppearInOrder, Rendered
    <2>1. Stored(products) /\ view = BuildBoardView(products)
      BY DEF BInv
    <2>2. WithSpecs(ps) /\ DOMAIN ps = 1 .. Len(ps) /\ Len(ps) \in Nat /\ keys = unionSpecKeys(ps)
      BY <2>1, ItsCategory
    <2>3. KeysOK(ps, keys, Len(ps))
      BY <2>2, KeysAll
    <2>4. m \in 1 .. Len(keys) /\ n \in 1 .. Len(keys)
      BY <2>3 DEF KeysOK
    <2>5. PICK i \in 1 .. Len(ps) : Precedes(ps, i, a, b)
      BY <2>3, <2>4 DEF KeysOK
    <2>6. PICK l \in 1 .. Len(ps) : Brings(ps, l, b)
      BY <2>3, <2>4 DEF KeysOK
    <2> DEFINE A == At(ps, a)
               B == At(ps, b)
    <2>7. /\ A \in SUBSET Nat /\ B \in SUBSET Nat /\ i \in A /\ l \in B
          /\ \A j \in A : j \in 1 .. Len(ps) /\ Has(ps, j, a)
          /\ \A j \in B : j \in 1 .. Len(ps) /\ Has(ps, j, b)
      BY <2>2, <2>5, <2>6 DEF Precedes, Brings, Has
    <2> HIDE DEF A, B
    <2> DEFINE x == Min(A)
               y == Min(B)
    <2>8. x \in A /\ y \in B /\ \A j \in A : x <= j
      BY <2>7, MinIsLeast
    <2> HIDE DEF x, y
    <2>9. x \in 1 .. Len(ps) /\ y \in 1 .. Len(ps) /\ Has(ps, x, a) /\ Has(ps, y, b) /\ x <= i
      BY <2>7, <2>8
    <2>10. ~ (x < i) /\ ~ (y < i)
      <3>1. \A j \in 1 .. i - 1 : ~ Has(ps, j, a) /\ ~ Has(ps, j, b)
        BY <2>5 DEF Precedes, Brings
      <3>2. x < i => x \in 1 .. i - 1
        BY <2>9
      <3>3. y < i => y \in 1 .. i - 1
        BY <2>9
      <3> QED
        BY <2>9, <3>1, <3>2, <3>3
    <2>11. x = i /\ i <= y /\ (y = i => a < b)
      <3>1. x = i /\ i <= y
        BY <2>2, <2>9, <2>10
      <3>2. Has(ps, i, b) => a < b
        BY <2>5 DEF Precedes
      <3> QED
        BY <2>9, <3>1, <3>2
    <2>12. x < y \/ (x = y /\ a < b)
      BY <2>9, <2>11
    <2> QED
      BY <2>12 DEF x, y, A, B
  <1> QED
    BY <1>1, ViewInvariance, PTL

\* What a table shows of a product: its own values under their keys, dashes under
\* the others.
CellsOK(p, keys, cells) ==
    /\ Len(cells) = Len(keys)
    /\ \A k \in DOMAIN p.specs : \E n \in DOMAIN cells : keys[n] = k /\ cells[n] = p.specs[k]
    /\ \A n \in DOMAIN cells : keys[n] \notin DOMAIN p.specs => cells[n] = Dash

LEMMA ItsCells ==
    ASSUME NEW p, NEW keys \in Seq(Nat), NEW cells, cells = SpecCells(p, keys),
           \A k \in DOMAIN p.specs : \E n \in 1 .. Len(keys) : keys[n] = k
    PROVE  CellsOK(p, keys, cells)
  <1>1. DOMAIN keys = 1 .. Len(keys) /\ Len(keys) \in Nat
    OBVIOUS
  <1> DEFINE value(k) == IF k \in DOMAIN p.specs THEN p.specs[k] ELSE Dash
  <1>2. cells = [n \in 1 .. Len(keys) |-> value(keys[n])]
    BY <1>1 DEF SpecCells
  <1>3. Len(cells) = Len(keys)
    <2>1. \A n \in Nat : Len([i \in 1 .. n |-> value(keys[i])]) = n
      <3> HIDE DEF value
      <3> QED
        OBVIOUS
    <2> QED
      BY <1>1, <1>2, <2>1
  <1>4. DOMAIN cells = 1 .. Len(keys) /\ \A n \in 1 .. Len(keys) : cells[n] = value(keys[n])
    BY <1>2
  <1> QED
    BY <1>3, <1>4 DEF CellsOK

\* What a card shows of it: what the operator chose, or its own first two facts.
CardOK(p, shown) ==
    IF p.highlights # <<>> THEN shown = p.highlights
    ELSE FirstTwo(shown, p.specs)

LEMMA ItsCard ==
    ASSUME NEW p, DOMAIN p.specs \subseteq Nat, IsFiniteSet(DOMAIN p.specs),
           NEW shown, shown = Highlights(p)
    PROVE  CardOK(p, shown)
  <1> DEFINE keys == Sorted(DOMAIN p.specs)
             fact(k) == <<k, p.specs[k]>>
             derived == [i \in DOMAIN keys |-> fact(keys[i])]
             F == {fact(k) : k \in DOMAIN p.specs}
             n == Len(keys)
  <1>1. CASE p.highlights # <<>>
    BY <1>1 DEF Highlights, CardOK
  <1>2. CASE p.highlights = <<>>
    <2>1. /\ keys \in Seq(DOMAIN p.specs) /\ n = Cardinality(DOMAIN p.specs)
          /\ n \in Nat /\ DOMAIN keys = 1 .. n
          /\ \A k \in DOMAIN p.specs : \E i \in 1 .. n : keys[i] = k
          /\ \A i, j \in 1 .. n : i < j => keys[i] < keys[j]
      BY SortedFacts
    <2>2. shown = SubSeq(derived, 1, Min({2, Len(derived)}))
      BY <1>2 DEF Highlights
    <2>3. derived \in Seq(F) /\ Len(derived) = n
      <3> HIDE DEF keys
      <3>1. \A i \in 1 .. n : keys[i] \in DOMAIN p.specs
        BY <2>1
      <3>2. derived \in [1 .. n -> F]
        <4> HIDE DEF fact, n
        <4> QED
          BY <2>1, <3>1
      <3>3. \A A, m, f : m \in Nat /\ f \in [1 .. m -> A] => f \in Seq(A) /\ Len(f) = m
        <4>1. \A A, m, f : m \in Nat /\ f \in [1 .. m -> A] => f \in Seq(A) /\ DOMAIN f = 1 .. m
          OBVIOUS
        <4>2. \A A, f : f \in Seq(A) => DOMAIN f = 1 .. Len(f) /\ Len(f) \in Nat
          OBVIOUS
        <4> QED
          BY <4>1, <4>2, SameRange
      <3> HIDE DEF derived, F, n
      <3> QED
        BY <2>1, <3>2, <3>3
    <2> DEFINE least == Min({2, n})
    <2>4. least \in 0 .. 2 /\ least <= n /\ (least = 0 => n = 0)
      <3> HIDE DEF n, keys
      <3>1. {2, n} \in SUBSET Nat /\ {2, n} # {}
        BY <2>1
      <3>2. least \in {2, n} /\ \A m \in {2, n} : least <= m
        BY <3>1, MinIsLeast
      <3> QED
        BY <2>1, <3>2
    <2>5. shown = SubSeq(derived, 1, least)
      BY <2>2, <2>3
    <2> HIDE DEF derived, least, F, n, keys
    <2>6. shown \in Seq(F) /\ Len(shown) = least
      <3>1. CASE least = 0
        <4>1. shown = <<>>
          BY <2>3, <2>5, <3>1
        <4> QED
          BY <3>1, <4>1
      <3>2. CASE least # 0
        <4>1. 1 \in 1 .. Len(derived) /\ least \in 1 .. Len(derived)
          BY <2>1, <2>3, <2>4, <3>2
        <4>2. /\ SubSeq(derived, 1, least) \in Seq(F)
              /\ Len(SubSeq(derived, 1, least)) = least - 1 + 1
          BY <2>3, <4>1, SubSeqFacts
        <4> QED
          BY <2>4, <2>5, <4>2
      <3> QED
        BY <3>1, <3>2
    <2>7. DOMAIN shown = 1 .. least
      <3>1. \A E, t : t \in Seq(E) => DOMAIN t = 1 .. Len(t)
        OBVIOUS
      <3> QED
        BY <2>6, <3>1
    <2>8. ASSUME NEW m \in 1 .. least
          PROVE  /\ m \in 1 .. n /\ keys[m] \in DOMAIN p.specs
                 /\ shown[m][1] = keys[m] /\ shown[m][2] = p.specs[keys[m]]
      <3>1. m \in 1 .. n /\ m \in Nat /\ least \in Nat /\ 1 <= m /\ m <= least
        BY <2>1, <2>4
      <3>2. keys[m] \in DOMAIN p.specs
        BY <2>1, <3>1
      <3>3. derived[m] = fact(keys[m])
        BY <2>1, <3>1 DEF derived
      <3>4. derived \in Seq(F) /\ 1 \in 1 .. Len(derived) /\ least \in 1 .. Len(derived)
        BY <2>1, <2>3, <2>4, <3>1
      <3>5. SubSeq(derived, 1, least)[m] = derived[m]
        BY <3>1, <3>4
      <3> QED
        BY <2>5, <3>1, <3>2, <3>3, <3>5
    <2>9. Len(shown) = Min({2, Cardinality(DOMAIN p.specs)})
      BY <2>1, <2>6 DEF least
    <2>10. \A i, j \in DOMAIN shown : i < j => shown[i][1] < shown[j][1]
      BY <2>1, <2>7, <2>8
    <2>11. ASSUME NEW k \in DOMAIN p.specs
           PROVE  \/ \E m \in DOMAIN shown : shown[m][1] = k
                  \/ \A m \in DOMAIN shown : shown[m][1] < k
      <3>1. PICK i \in 1 .. n : keys[i] = k
        BY <2>1
      <3>2. CASE i \in 1 .. least
        BY <2>7, <2>8, <3>1, <3>2
      <3>3. CASE i \notin 1 .. least
        <4>1. \A m \in 1 .. least : m < i
          BY <2>1, <2>4, <3>1, <3>3
        <4>2. \A m \in 1 .. least : keys[m] < keys[i]
          BY <2>1, <2>8, <3>1, <4>1
        <4> QED
          BY <2>7, <2>8, <3>1, <4>2
      <3> QED
        BY <3>2, <3>3
    <2> QED
      BY <1>2, <2>7, <2>8, <2>9, <2>10, <2>11 DEF CardOK, FirstTwo
  <1> QED
    BY <1>1, <1>2

\* Every fact of a product is shown with it and with no other, and the card of one
\* without chosen highlights has its first two, for any number of products and facts.
THEOREM FactsStayWithTheirProductAlways == Spec => []FactsStayWithTheirProduct
  <1>1. BInv => FactsStayWithTheirProduct
    <2> SUFFICES ASSUME BInv, view # NoView PROVE FactsStayWithTheirProduct
      BY DEF FactsStayWithTheirProduct, Rendered
    <2>1. ASSUME NEW c \in ToSet(view), NEW i \in DOMAIN ByCategory(products, c.name)
          PROVE  /\ CellsOK(ByCategory(products, c.name)[i], c.specKeys, c.products[i].cells)
                 /\ CardOK(ByCategory(products, c.name)[i], c.products[i].highlights)
      <3> DEFINE ps == ByCategory(products, c.name)
                 keys == c.specKeys
      <3>1. Stored(products) /\ view = BuildBoardView(products)
        BY DEF BInv
      <3>2. /\ WithSpecs(ps) /\ DOMAIN ps = 1 .. Len(ps) /\ keys = unionSpecKeys(ps)
            /\ \A n \in 1 .. Len(ps) : c.products[n] = buildProduct(ps[n], keys)
        BY <3>1, ItsCategory
      <3>3. i \in 1 .. Len(ps)
        BY <3>2
      <3> HIDE DEF keys, ps
      <3>4. KeysOK(ps, keys, Len(ps))
        BY <3>2, KeysAll
      <3>5. DOMAIN ps[i].specs \subseteq Nat /\ IsFiniteSet(DOMAIN ps[i].specs)
        BY <3>2, <3>3 DEF WithSpecs, ToSet
      <3>6. keys \in Seq(Nat) /\ \A k \in DOMAIN ps[i].specs : \E n \in 1 .. Len(keys) : keys[n] = k
        BY <3>3, <3>4, <3>5 DEF KeysOK, Has
      <3>7. c.products[i] = buildProduct(ps[i], keys)
        BY <3>2, <3>3
      <3>8. \A p : /\ buildProduct(p, keys).cells = SpecCells(p, keys)
                   /\ buildProduct(p, keys).highlights = Highlights(p)
        BY DEF buildProduct
      <3>9. CellsOK(ps[i], keys, c.products[i].cells)
        BY <3>6, <3>7, <3>8, ItsCells
      <3>10. CardOK(ps[i], c.products[i].highlights)
        BY <3>5, <3>7, <3>8, ItsCard
      <3> QED
        BY <3>9, <3>10 DEF keys, ps
    <2> QED
      BY <2>1 DEF FactsStayWithTheirProduct, CellsOK, CardOK
  <1> QED
    BY <1>1, ViewInvariance, PTL
-----------------------------------------------------------------------------
\* Where the letters and digits of a text stand.
Spots(s) == {i \in DOMAIN s : s[i] \in Letters}

\* f tells where the letters of t stood in s: t has those of s up to some place, in
\* their order, and two of them are neighbours in t just if they were in s.
Keeps(s, t, f) ==
    /\ f \in [Spots(t) -> Spots(s)]
    /\ \A j \in Spots(t) : t[j] = s[f[j]]
    /\ \A j, k \in Spots(t) : j < k => f[j] < f[k]
    /\ \A j, k \in Spots(t) : k = j + 1 <=> f[k] = f[j] + 1
    /\ \A j \in Spots(t), p \in Spots(s) : p <= f[j] => \E k \in Spots(t) : f[k] = p

\* It has all of them.
KeepsAll(s, t, f) == Keeps(s, t, f) /\ \A p \in Spots(s) : \E k \in Spots(t) : f[k] = p

\* Places are numbers.
LEMMA SpotsFacts ==
    ASSUME NEW C, NEW s \in Seq(C)
    PROVE  /\ Spots(s) = {i \in 1 .. Len(s) : s[i] \in Letters}
           /\ Spots(s) \in SUBSET Nat /\ IsFiniteSet(Spots(s)) /\ Len(s) \in Nat
  <1>1. DOMAIN s = 1 .. Len(s) /\ Len(s) \in Nat
    OBVIOUS
  <1>2. Spots(s) = {i \in 1 .. Len(s) : s[i] \in Letters}
    BY <1>1 DEF Spots
  <1>3. IsFiniteSet(1 .. Len(s))
    BY <1>1, FS_Interval
  <1> QED
    BY <1>1, <1>2, <1>3, FS_Subset

\* What keeps the letters of a text that keeps those of another keeps those.
LEMMA KeepsIsTransitive ==
    ASSUME NEW s, NEW t, NEW u, NEW f, NEW g, Keeps(s, t, f), Keeps(t, u, g),
           Spots(s) \in SUBSET Nat, Spots(t) \in SUBSET Nat, Spots(u) \in SUBSET Nat
    PROVE  \E h : /\ Keeps(s, u, h)
                  /\ KeepsAll(s, t, f) /\ KeepsAll(t, u, g) => KeepsAll(s, u, h)
  <1> DEFINE h == [j \in Spots(u) |-> f[g[j]]]
  <1>1. f \in [Spots(t) -> Spots(s)] /\ g \in [Spots(u) -> Spots(t)]
    BY DEF Keeps
  <1>2. Spots(s) \in SUBSET Nat /\ Spots(t) \in SUBSET Nat /\ Spots(u) \in SUBSET Nat
    OBVIOUS
  <1>3. h \in [Spots(u) -> Spots(s)] /\ \A j \in Spots(u) : h[j] = f[g[j]]
    BY <1>1
  <1> HIDE DEF h
  <1>4. \A j \in Spots(u) : u[j] = s[h[j]]
    BY <1>1, <1>3 DEF Keeps
  <1>5. \A j, k \in Spots(u) : j < k => h[j] < h[k]
    BY <1>1, <1>3 DEF Keeps
  <1>6. \A j, k \in Spots(u) : k = j + 1 <=> h[k] = h[j] + 1
    BY <1>1, <1>3 DEF Keeps
  <1>7. ASSUME NEW j \in Spots(u), NEW p \in Spots(s), p <= h[j]
        PROVE  \E k \in Spots(u) : h[k] = p
    <2>1. g[j] \in Spots(t) /\ p <= f[g[j]]
      BY <1>1, <1>3, <1>7
    <2>2. PICK k \in Spots(t) : f[k] = p
      BY <2>1 DEF Keeps
    <2>3. k <= g[j]
      <3>1. k \in Nat /\ g[j] \in Nat /\ p \in Nat /\ f[g[j]] \in Nat
        BY <1>1, <1>2, <2>1
      <3>2. g[j] < k => f[g[j]] < f[k]
        BY <2>1 DEF Keeps
      <3> QED
        BY <2>1, <2>2, <3>1, <3>2
    <2>4. PICK l \in Spots(u) : g[l] = k
      BY <2>3 DEF Keeps
    <2> QED
      BY <1>3, <2>2, <2>4
  <1>8. ASSUME KeepsAll(s, t, f), KeepsAll(t, u, g), NEW p \in Spots(s)
        PROVE  \E k \in Spots(u) : h[k] = p
    <2>1. PICK k \in Spots(t) : f[k] = p
      BY <1>8 DEF KeepsAll
    <2>2. PICK l \in Spots(u) : g[l] = k
      BY <1>8 DEF KeepsAll
    <2> QED
      BY <1>3, <2>1, <2>2
  <1>9. Keeps(s, u, h)
    BY <1>3, <1>4, <1>5, <1>6, <1>7 DEF Keeps
  <1> QED
    BY <1>8, <1>9 DEF KeepsAll

\* Clean keeps every letter where it is.
LEMMA CleanKeeps ==
    ASSUME NEW C, NEW s \in Seq(C), NEW t, t = Clean(s)
    PROVE  t \in Seq(Letters \cup {"-"}) /\ \E f : KeepsAll(s, t, f)
  <1>1. DOMAIN s = 1 .. Len(s) /\ Len(s) \in Nat
    OBVIOUS
  <1>2. t = [i \in 1 .. Len(s) |-> IF s[i] \in Letters THEN s[i] ELSE "-"]
    BY <1>1 DEF Clean
  <1>3. t \in Seq(Letters \cup {"-"})
    <2>1. t \in [1 .. Len(s) -> Letters \cup {"-"}]
      BY <1>2
    <2>2. \A A, n, q : n \in Nat /\ q \in [1 .. n -> A] => q \in Seq(A)
      OBVIOUS
    <2> QED
      BY <1>1, <2>1, <2>2
  <1>4. Spots(t) = Spots(s) /\ \A i \in Spots(s) : t[i] = s[i]
    <2>1. "-" \notin Letters
      BY Chars
    <2> QED
      BY <1>1, <1>2, <2>1 DEF Spots
  <1> DEFINE f == [i \in Spots(s) |-> i]
  <1>5. KeepsAll(s, t, f)
    BY <1>4 DEF KeepsAll, Keeps
  <1> HIDE DEF f
  <1> QED
    BY <1>3, <1>5

\* After n characters collapseDashes has kept all their letters; the last letter is
\* at the end just if it was read last.
CollapsedKeeps(s, kept, n, f) ==
    /\ Keeps(s, kept, f)
    /\ \A j \in Spots(kept) : f[j] <= n
    /\ \A p \in Spots(s) : p <= n => \E k \in Spots(kept) : f[k] = p
    /\ n \in Spots(s) => Len(kept) \in Spots(kept) /\ f[Len(kept)] = n

\* An iteration keeps it so.
LEMMA NextKeptKeeps ==
    ASSUME NEW C, NEW s \in Seq(C), NEW n \in 1 .. Len(s), NEW kept,
           CollapsedOK(C, s, kept, n - 1), \E f : CollapsedKeeps(s, kept, n - 1, f)
    PROVE  \E f : CollapsedKeeps(s, NextKept(s, kept, n), n, f)
  <1>1. kept \in Seq(C) /\ Len(kept) \in Nat /\ s[n] \in C /\ Len(s) \in Nat
    BY DEF CollapsedOK
  <1>2. PICK f : CollapsedKeeps(s, kept, n - 1, f)
    OBVIOUS
  <1>3. /\ Spots(s) = {i \in 1 .. Len(s) : s[i] \in Letters} /\ Spots(s) \in SUBSET Nat
        /\ Spots(kept) = {i \in 1 .. Len(kept) : kept[i] \in Letters} /\ Spots(kept) \in SUBSET Nat
        /\ f \in [Spots(kept) -> Spots(s)]
    BY <1>1, <1>2, SpotsFacts DEF CollapsedKeeps, Keeps
  <1> DEFINE after == NextKept(s, kept, n)
  <1>4. CASE s[n] \notin Letters
    <2>1. Spots(after) = Spots(kept) /\ \A j \in Spots(kept) : after[j] = kept[j]
      <3>1. CASE after = kept
        BY <3>1
      <3>2. CASE after = Append(kept, s[n])
        <4>1. /\ after \in Seq(C) /\ Len(after) = Len(kept) + 1
              /\ after[Len(kept) + 1] = s[n] /\ \A i \in 1 .. Len(kept) : after[i] = kept[i]
          BY <1>1, <3>2, AppendFacts
        <4> HIDE DEF after
        <4>2. Spots(after) = {i \in 1 .. Len(after) : after[i] \in Letters}
          BY <4>1, SpotsFacts
        <4>3. \A i : i \in 1 .. Len(after) <=> i \in 1 .. Len(kept) \/ i = Len(kept) + 1
          BY <1>1, <4>1
        <4> QED
          BY <1>3, <1>4, <4>1, <4>2, <4>3
      <3> QED
        BY <3>1, <3>2 DEF NextKept
    <2> HIDE DEF after
    <2>2. n \notin Spots(s)
      BY <1>3, <1>4
    <2>3. Keeps(s, after, f)
      BY <1>2, <2>1 DEF CollapsedKeeps, Keeps
    <2>4. \A j \in Spots(after) : f[j] <= n
      <3>1. \A j \in Spots(kept) : f[j] <= n - 1 /\ f[j] \in Nat
        BY <1>2, <1>3 DEF CollapsedKeeps
      <3> QED
        BY <2>1, <3>1
    <2>5. \A p \in Spots(s) : p <= n => \E k \in Spots(after) : f[k] = p
      <3>1. \A p \in Spots(s) : p <= n => p <= n - 1
        BY <1>3, <2>2
      <3> QED
        BY <1>2, <2>1, <3>1 DEF CollapsedKeeps
    <2>6. CollapsedKeeps(s, after, n, f)
      BY <2>2, <2>3, <2>4, <2>5 DEF CollapsedKeeps
    <2> QED
      BY <2>6 DEF after
  <1>5. CASE s[n] \in Letters
    <2> DEFINE m == Len(kept) + 1
               g == [j \in Spots(kept) \cup {m} |-> IF j = m THEN n ELSE f[j]]
    <2>1. /\ after \in Seq(C) /\ Len(after) = m
          /\ after[m] = s[n] /\ \A i \in 1 .. Len(kept) : after[i] = kept[i]
      <3>1. after = Append(kept, s[n])
        BY <1>5, Chars DEF NextKept
      <3> QED
        BY <1>1, <3>1, AppendFacts
    <2> HIDE DEF after
    <2>2. m \in Nat /\ m \notin Spots(kept) /\ \A j \in Spots(kept) : j < m /\ j \in 1 .. Len(kept)
      BY <1>1, <1>3
    <2>3. Spots(after) = Spots(kept) \cup {m}
      <3>1. Spots(after) = {i \in 1 .. Len(after) : after[i] \in Letters}
        BY <2>1, SpotsFacts
      <3>2. \A i : i \in 1 .. Len(after) <=> i \in 1 .. Len(kept) \/ i = m
        BY <1>1, <2>1
      <3> QED
        BY <1>3, <1>5, <2>1, <3>1, <3>2
    <2>4. n \in Spots(s) /\ g[m] = n /\ \A j \in Spots(kept) : g[j] = f[j]
      BY <1>3, <1>5, <2>2
    <2>5. g \in [Spots(after) -> Spots(s)]
      BY <1>3, <2>3, <2>4
    <2>6. \A j \in Spots(kept) : f[j] \in Nat /\ f[j] <= n - 1 /\ f[j] < n
      BY <1>2, <1>3 DEF CollapsedKeeps
    <2>7. ASSUME NEW j \in Spots(kept) PROVE m = j + 1 <=> n = f[j] + 1
      <3>1. ASSUME m = j + 1 PROVE n = f[j] + 1
        <4>1. j = Len(kept) /\ n - 1 > 0
          <5>1. n - 1 = 0 => kept = <<>>
            BY DEF CollapsedOK
          <5>2. kept = <<>> => Len(kept) = 0
            OBVIOUS
          <5> QED
            BY <1>1, <1>3, <3>1, <5>1, <5>2
        <4>2. s[n - 1] \in Letters
          BY <1>3, <4>1 DEF CollapsedOK
        <4>3. n - 1 \in Spots(s)
          BY <1>1, <1>3, <4>1, <4>2
        <4> QED
          BY <1>2, <2>6, <4>1, <4>3 DEF CollapsedKeeps
      <3>2. ASSUME n = f[j] + 1 PROVE m = j + 1
        <4>1. n - 1 = f[j] /\ n - 1 \in Spots(s)
          BY <1>3, <2>6, <3>2
        <4>2. Len(kept) \in Spots(kept) /\ f[Len(kept)] = f[j]
          BY <1>2, <4>1 DEF CollapsedKeeps
        <4>3. j = Len(kept)
          <5>1. j < Len(kept) => f[j] < f[Len(kept)]
            BY <1>2, <4>2 DEF CollapsedKeeps, Keeps
          <5> QED
            BY <1>3, <2>6, <4>2, <5>1
        <4> QED
          BY <4>3
      <3> QED
        BY <3>1, <3>2
    <2> HIDE DEF m, g
    <2>8. \A j \in Spots(after) : after[j] = s[g[j]]
      <3>1. \A j \in Spots(kept) : kept[j] = s[f[j]]
        BY <1>2 DEF CollapsedKeeps, Keeps
      <3> QED
        BY <2>1, <2>2, <2>3, <2>4, <3>1
    <2>9. \A j, k \in Spots(after) : j < k => g[j] < g[k]
      <3>1. \A j, k \in Spots(kept) : j < k => f[j] < f[k]
        BY <1>2 DEF CollapsedKeeps, Keeps
      <3>2. \A j \in Spots(kept) : j \in Nat /\ ~ (m < j) /\ ~ (m < m)
        BY <1>3, <2>2
      <3> QED
        BY <2>2, <2>3, <2>4, <2>6, <3>1, <3>2
    <2>10. \A j, k \in Spots(after) : k = j + 1 <=> g[k] = g[j] + 1
      <3>1. \A j, k \in Spots(kept) : k = j + 1 <=> f[k] = f[j] + 1
        BY <1>2 DEF CollapsedKeeps, Keeps
      <3>2. \A j \in Spots(kept) : j # m + 1 /\ f[j] # n + 1 /\ m # m + 1 /\ n # n + 1
        BY <1>3, <2>2, <2>6
      <3>3. m # m + 1 /\ n # n + 1
        BY <2>2
      <3> QED
        BY <2>3, <2>4, <2>7, <3>1, <3>2, <3>3
    <2>11. \A p \in Spots(s) : p <= n => \E k \in Spots(after) : g[k] = p
      <3>1. \A p \in Spots(s) : p <= n => p = n \/ p <= n - 1
        BY <1>3
      <3>2. \A p \in Spots(s) : p <= n - 1 => \E k \in Spots(kept) : f[k] = p
        BY <1>2 DEF CollapsedKeeps
      <3> QED
        BY <2>3, <2>4, <3>1, <3>2
    <2>12. \A j \in Spots(after) : g[j] <= n
      <3>1. n <= n
        OBVIOUS
      <3> QED
        BY <2>3, <2>4, <2>6, <3>1
    <2>13. Keeps(s, after, g)
      <3>1. \A j \in Spots(after), p \in Spots(s) : p <= g[j] => p <= n
        BY <1>3, <2>5, <2>12
      <3> QED
        BY <2>5, <2>8, <2>9, <2>10, <2>11, <3>1 DEF Keeps
    <2>14. CollapsedKeeps(s, after, n, g)
      BY <2>1, <2>3, <2>4, <2>11, <2>12, <2>13 DEF CollapsedKeeps
    <2> QED
      BY <2>14 DEF after
  <1> QED
    BY <1>4, <1>5

\* So collapseDashes keeps all letters.
LEMMA CollapseKeeps ==
    ASSUME NEW C, NEW s \in Seq(C)
    PROVE  \E f : KeepsAll(s, CollapseDashes(s), f)
  <1>1. PICK kept : /\ CollapseDashes(s) = kept[Len(s)]
                    /\ kept[0] = <<>>
                    /\ \A i \in 1 .. Len(s) : kept[i] = NextKept(s, kept[i - 1], i)
    BY CollapseDefinition
  <1> DEFINE S == {i \in 0 .. Len(s) :
                     CollapsedOK(C, s, kept[i], i) /\ \E f : CollapsedKeeps(s, kept[i], i, f)}
  <1>2. Len(s) \in Nat /\ Spots(s) = {i \in 1 .. Len(s) : s[i] \in Letters}
    BY SpotsFacts
  <1>3. 0 \in S
    <2>1. <<>> \in Seq(C) /\ SingleDashes(<<>>)
      BY DEF SingleDashes
    <2>2. CollapsedOK(C, s, <<>>, 0)
      BY <2>1 DEF CollapsedOK
    <2>3. Spots(<<>>) = {}
      BY DEF Spots
    <2> DEFINE f == [j \in {} |-> j]
    <2>4. Keeps(s, <<>>, f)
      BY <2>3 DEF Keeps
    <2>5. \A p \in Spots(s) : ~ (p <= 0)
      BY <1>2
    <2>6. 0 \notin Spots(s)
      BY <1>2
    <2> HIDE DEF f
    <2>7. CollapsedKeeps(s, <<>>, 0, f)
      BY <2>3, <2>4, <2>5, <2>6 DEF CollapsedKeeps
    <2> QED
      BY <1>1, <1>2, <2>2, <2>7
  <1>4. \A i \in 1 .. Len(s) : i - 1 \in S => i \in S
    BY <1>1, <1>2, NextKeptOK, NextKeptKeeps
  <1>5. Len(s) \in S
    <2>1. Len(s) \in 0 .. Len(s)
      BY <1>2
    <2> HIDE DEF S
    <2>2. \A i \in 0 .. Len(s) : i \in S
      BY <1>2, <1>3, <1>4, Induction
    <2> QED
      BY <2>1, <2>2
  <1>6. PICK f : CollapsedKeeps(s, CollapseDashes(s), Len(s), f)
    BY <1>1, <1>5
  <1>7. \A p \in Spots(s) : p <= Len(s)
    BY <1>2
  <1> QED
    BY <1>6, <1>7 DEF CollapsedKeeps, KeepsAll

\* TrimDashes keeps all letters; if the text starts with one, all that it takes away
\* is at the end, and that is one dash at most.
LEMMA TrimKeeps ==
    ASSUME NEW C, NEW s \in Seq(C), NEW t, t = TrimDashes(s)
    PROVE  /\ \E f : KeepsAll(s, t, f)
           /\ SingleDashes(s) /\ Len(s) >= 1 /\ s[1] # "-" =>
                 Len(t) \in {Len(s) - 1, Len(s)} /\ Len(t) >= 1
  <1> DEFINE letters == {i \in DOMAIN s : s[i] # "-"}
  <1>1. /\ DOMAIN s = 1 .. Len(s) /\ Len(s) \in Nat
        /\ Spots(s) = {i \in 1 .. Len(s) : s[i] \in Letters}
    BY SpotsFacts
  <1>2. \A i \in Spots(s) : i \in letters
    BY <1>1, Chars
  <1>3. CASE letters = {}
    <2>1. t = <<>>
      BY <1>3 DEF TrimDashes
    <2>2. Spots(t) = {} /\ Spots(s) = {}
      BY <1>2, <1>3, <2>1 DEF Spots
    <2> DEFINE f == [j \in {} |-> j]
    <2>3. KeepsAll(s, t, f)
      BY <2>2 DEF KeepsAll, Keeps
    <2>4. ~ (Len(s) >= 1 /\ s[1] # "-")
      BY <1>1, <1>3
    <2> HIDE DEF f
    <2> QED
      BY <2>3, <2>4
  <1>4. CASE letters # {}
    <2> DEFINE a == CHOOSE i \in letters : \A j \in letters : i <= j
               b == CHOOSE i \in letters : \A j \in letters : i >= j
    <2>1. letters \in SUBSET (0 .. Len(s)) /\ letters \in SUBSET Nat
      BY <1>1
    <2>2. /\ a \in letters /\ b \in letters /\ a <= b
          /\ \A j \in letters : a <= j /\ j <= b
      <3>1. \E i \in letters : \A j \in letters : i <= j
        <4> HIDE DEF letters
        <4> QED
          BY <1>4, <2>1, HasLeast
      <3>2. \E i \in letters : \A j \in letters : i >= j
        <4> HIDE DEF letters
        <4> QED
          BY <1>1, <1>4, <2>1, HasGreatest
      <3> HIDE DEF letters
      <3>3. \A j \in letters : j \in Nat
        BY <2>1
      <3>4. a \in letters /\ \A j \in letters : a <= j
        BY <3>1
      <3>5. b \in letters /\ \A j \in letters : b >= j
        BY <3>2
      <3> HIDE DEF a, b
      <3> QED
        BY <3>3, <3>4, <3>5
    <2>3. t = SubSeq(s, a, b)
      BY <1>4 DEF TrimDashes
    <2> HIDE DEF a, b
    <2>4. a \in 1 .. Len(s) /\ b \in a .. Len(s)
      BY <1>1, <2>2
    <2>5. /\ t \in Seq(C) /\ Len(t) = b - a + 1
          /\ \A i \in 1 .. b - a + 1 : t[i] = s[a + i - 1]
      BY <2>3, <2>4, SubSeqFacts
    <2>6. Spots(t) = {i \in 1 .. b - a + 1 : t[i] \in Letters}
      BY <2>5, SpotsFacts
    <2> DEFINE f == [j \in Spots(t) |-> a + j - 1]
    <2>7. \A j \in Spots(t) : f[j] = a + j - 1 /\ j \in Nat /\ f[j] \in Spots(s) /\ t[j] = s[f[j]]
      BY <1>1, <2>4, <2>5, <2>6
    <2>8. ASSUME NEW p \in Spots(s) PROVE \E k \in Spots(t) : f[k] = p
      <3>1. p \in letters
        BY <1>2
      <3>2. a <= p /\ p <= b /\ p \in Nat
        BY <1>1, <2>2, <3>1
      <3> DEFINE k == p - a + 1
      <3>3. k \in 1 .. b - a + 1 /\ a + k - 1 = p
        BY <2>4, <3>2
      <3>4. t[k] \in Letters
        BY <1>1, <2>5, <3>3
      <3> HIDE DEF k
      <3> QED
        BY <2>6, <2>7, <3>3, <3>4
    <2>9. KeepsAll(s, t, f)
      <3>1. f \in [Spots(t) -> Spots(s)]
        BY <2>7
      <3>2. \A j, k \in Spots(t) : /\ j < k => f[j] < f[k]
                                   /\ k = j + 1 <=> f[k] = f[j] + 1
        BY <2>4, <2>7
      <3> HIDE DEF f
      <3> QED
        BY <2>7, <2>8, <3>1, <3>2 DEF KeepsAll, Keeps
    <2>10. ASSUME SingleDashes(s), Len(s) >= 1, s[1] # "-"
           PROVE  Len(t) \in {Len(s) - 1, Len(s)} /\ Len(t) >= 1
      <3>1. a = 1
        <4>1. 1 \in letters
          BY <1>1, <2>10
        <4> QED
          BY <2>2, <2>4, <4>1
      <3>2. b >= Len(s) - 1
        <4>1. CASE Len(s) = 1
          BY <2>4, <4>1
        <4>2. CASE Len(s) # 1
          <5>1. Len(s) - 1 \in 1 .. Len(s) - 1 /\ (Len(s) - 1) + 1 = Len(s)
            BY <1>1, <2>10, <4>2
          <5>2. s[Len(s) - 1] # "-" \/ s[Len(s)] # "-"
            BY <2>10, <5>1 DEF SingleDashes
          <5>3. Len(s) - 1 \in letters \/ Len(s) \in letters
            BY <1>1, <5>1, <5>2
          <5> QED
            BY <1>1, <2>2, <2>4, <5>3
        <4> QED
          BY <4>1, <4>2
      <3>3. b \in {Len(s) - 1, Len(s)} /\ b \in Nat /\ b >= 1
        <4> DEFINE l == Len(s)
        <4>1. l \in Nat /\ b \in Nat /\ b >= 1 /\ b <= l
          BY <1>1, <2>4, <3>1
        <4>2. b >= l - 1
          BY <3>2
        <4> HIDE DEF l
        <4>3. b = l - 1 \/ b = l
          BY <4>1, <4>2
        <4> QED
          BY <4>1, <4>3 DEF l
      <3>4. Len(t) = b
        <4>1. Len(t) = b - 1 + 1
          BY <2>5, <3>1
        <4> QED
          BY <3>3, <4>1
      <3> QED
        BY <3>3, <3>4
    <2> HIDE DEF f
    <2> QED
      BY <2>9, <2>10
  <1> QED
    BY <1>3, <1>4

\* Truncate keeps all letters, or those up to the cut, and then it takes no more.
LEMMA TruncateKeeps ==
    ASSUME NEW C, NEW s \in Seq(C), SingleDashes(s), s = <<>> \/ s[1] # "-",
           NEW t, t = Truncate(s)
    PROVE  \E f : \/ KeepsAll(s, t, f)
                  \/ Keeps(s, t, f) /\ Len(t) \in {maxSlugifiedLen - 1, maxSlugifiedLen} /\ Len(t) >= 1
  <1> DEFINE m == maxSlugifiedLen
  <1>1. m \in Nat /\ m >= 1 /\ Len(s) \in Nat
    BY LengthAssumption
  <1>2. CASE ~ (Len(s) > m)
    <2>1. t = s
      BY <1>2 DEF Truncate
    <2> DEFINE f == [j \in Spots(s) |-> j]
    <2>2. KeepsAll(s, t, f)
      BY <2>1 DEF KeepsAll, Keeps
    <2> HIDE DEF f
    <2> QED
      BY <2>2
  <1>3. CASE Len(s) > m
    <2> DEFINE cut == SubSeq(s, 1, m)
               f == [j \in Spots(cut) |-> j]
    <2>1. m \in 1 .. Len(s) /\ 1 \in 1 .. Len(s) /\ m - 1 + 1 = m
      BY <1>1, <1>3
    <2>2. cut \in Seq(C) /\ SingleDashes(cut)
      BY <2>1, SubSeqFacts, PartOfSingle
    <2>3. Len(cut) = m /\ \A i \in 1 .. m : cut[i] = s[i]
      <3>1. Len(cut) = m - 1 + 1 /\ \A i \in 1 .. m - 1 + 1 : cut[i] = s[1 + i - 1]
        BY <2>1, SubSeqFacts
      <3>2. \A i \in 1 .. m : 1 + i - 1 = i
        BY <1>1
      <3> HIDE DEF cut
      <3> QED
        BY <2>1, <3>1, <3>2
    <2>4. t = TrimDashes(cut)
      BY <1>3 DEF Truncate
    <2> HIDE DEF cut
    <2>5. cut[1] # "-"
      <3>1. s # <<>>
        BY <1>1, <1>3
      <3> QED
        BY <1>1, <2>3, <3>1
    <2>6. /\ Spots(cut) = {i \in 1 .. m : cut[i] \in Letters}
          /\ Spots(s) = {i \in 1 .. Len(s) : s[i] \in Letters}
      BY <2>2, <2>3, SpotsFacts
    <2>7. Keeps(s, cut, f)
      <3>1. \A j \in Spots(cut) : j \in Spots(s) /\ cut[j] = s[j]
        BY <1>1, <1>3, <2>3, <2>6
      <3>2. \A j \in Spots(cut), p \in Spots(s) : p <= j => p \in Spots(cut)
        BY <1>1, <2>3, <2>6
      <3> QED
        BY <3>1, <3>2 DEF Keeps
    <2>8. PICK g : KeepsAll(cut, t, g)
      BY <2>2, <2>4, TrimKeeps
    <2>9. Len(t) \in {m - 1, m} /\ Len(t) >= 1
      BY <1>1, <2>2, <2>3, <2>4, <2>5, TrimKeeps
    <2>10. t \in Seq(C)
      BY <2>2, <2>4, Trimmed
    <2> HIDE DEF f
    <2>11. \E h : Keeps(s, t, h)
      <3>1. Keeps(cut, t, g)
        BY <2>8 DEF KeepsAll
      <3>2. Spots(s) \in SUBSET Nat /\ Spots(cut) \in SUBSET Nat /\ Spots(t) \in SUBSET Nat
        BY <2>2, <2>10, SpotsFacts
      <3> QED
        BY <2>7, <3>1, <3>2, KeepsIsTransitive
    <2> QED
      BY <2>9, <2>11
  <1> QED
    BY <1>2, <1>3

\* What Sorted lists.
Lists(s, S) ==
    /\ s \in Seq(S) /\ Len(s) \in Nat /\ DOMAIN s = 1 .. Len(s)
    /\ \A k \in S : \E i \in 1 .. Len(s) : s[i] = k
    /\ \A i, j \in 1 .. Len(s) : i < j => s[i] < s[j]

LEMMA SortedLists ==
    ASSUME NEW S \in SUBSET Nat, IsFiniteSet(S)
    PROVE  Lists(Sorted(S), S)
  <1> DEFINE s == Sorted(S)
  <1>1. s = Sorted(S)
    OBVIOUS
  <1> HIDE DEF s
  <1>2. Lists(s, S)
    BY <1>1, SortedFacts DEF Lists
  <1> QED
    BY <1>1, <1>2

\* The numbered places of the letters of t are those of s: rank n stood at rank n.
LEMMA RanksAreKept ==
    ASSUME NEW C, NEW s \in Seq(C), NEW t \in Seq(C), NEW f, Keeps(s, t, f),
           NEW a, a = Sorted(Spots(t)), NEW b, b = Sorted(Spots(s))
    PROVE  /\ DOMAIN a = 1 .. Len(a) /\ DOMAIN b = 1 .. Len(b) /\ Len(a) \in Nat /\ Len(b) \in Nat
           /\ Len(a) <= Len(b)
           /\ \A n \in 1 .. Len(a) : a[n] \in Spots(t) /\ b[n] \in Spots(s) /\ b[n] = f[a[n]]
           /\ KeepsAll(s, t, f) => Len(a) = Len(b)
  <1>1. /\ Spots(s) \in SUBSET Nat /\ IsFiniteSet(Spots(s))
        /\ Spots(t) \in SUBSET Nat /\ IsFiniteSet(Spots(t))
    BY SpotsFacts
  <1>2. /\ a \in Seq(Spots(t)) /\ Len(a) \in Nat /\ DOMAIN a = 1 .. Len(a)
        /\ \A k \in Spots(t) : \E i \in 1 .. Len(a) : a[i] = k
        /\ \A i, j \in 1 .. Len(a) : i < j => a[i] < a[j]
    BY <1>1, SortedLists DEF Lists
  <1>3. /\ b \in Seq(Spots(s)) /\ Len(b) \in Nat /\ DOMAIN b = 1 .. Len(b)
        /\ \A k \in Spots(s) : \E i \in 1 .. Len(b) : b[i] = k
        /\ \A i, j \in 1 .. Len(b) : i < j => b[i] < b[j]
    BY <1>1, SortedLists DEF Lists
  <1>4. /\ \A n \in 1 .. Len(a) : a[n] \in Spots(t) /\ a[n] \in Nat
        /\ \A n \in 1 .. Len(b) : b[n] \in Spots(s) /\ b[n] \in Nat
    <2>1. /\ \A n \in 1 .. Len(a) : a[n] \in Spots(t)
          /\ \A n \in 1 .. Len(b) : b[n] \in Spots(s)
      BY <1>2, <1>3
    <2> QED
      BY <1>1, <2>1
  <1>5. \A j \in Spots(t) : f[j] \in Spots(s) /\ f[j] \in Nat
    BY <1>1 DEF Keeps
  <1> DEFINE S == {n \in 0 .. Len(a) : \A m \in 1 .. n : m <= Len(b) /\ b[m] = f[a[m]]}
  <1>6. 0 \in S
    BY <1>2
  <1>7. ASSUME NEW n \in 1 .. Len(a), n - 1 \in S PROVE n \in S
    <2>1. /\ \A m \in 1 .. n - 1 : m <= Len(b) /\ b[m] = f[a[m]]
          /\ \A m \in 1 .. n : m \in 1 .. n - 1 \/ m = n
      BY <1>2, <1>7
    <2>2. PICK l \in 1 .. Len(b) : b[l] = f[a[n]]
      BY <1>3, <1>4, <1>5
    <2>3. \A m \in 1 .. n - 1 : b[m] < b[l] /\ m \in 1 .. Len(b)
      <3>1. \A m \in 1 .. n - 1 : a[m] < a[n] /\ m \in 1 .. Len(a)
        BY <1>2
      <3>2. \A m \in 1 .. n - 1 : f[a[m]] < f[a[n]]
        BY <1>4, <3>1 DEF Keeps
      <3> QED
        BY <1>3, <2>1, <2>2, <3>2
    <2>4. l >= n
      <3> SUFFICES ASSUME l \in 1 .. n - 1 PROVE FALSE
        BY <1>2, <1>3
      <3>1. b[l] < b[l] /\ b[l] \in Nat
        BY <1>4, <2>3
      <3> QED
        BY <3>1
    <2>5. n \in 1 .. Len(b)
      BY <1>2, <1>3, <2>4
    <2>6. b[n] = f[a[n]]
      <3> SUFFICES ASSUME n < l PROVE FALSE
        BY <1>2, <1>3, <2>2, <2>4
      <3>1. b[n] < b[l] /\ b[n] \in Nat /\ b[l] \in Nat
        BY <1>3, <1>4, <2>5
      <3>2. PICK k \in Spots(t) : f[k] = b[n]
        <4>1. b[n] <= f[a[n]] /\ b[n] \in Spots(s) /\ a[n] \in Spots(t)
          BY <1>4, <2>2, <2>5, <3>1
        <4> QED
          BY <4>1 DEF Keeps
      <3>3. PICK m \in 1 .. Len(a) : a[m] = k
        BY <1>2, <3>2
      <3>4. m < n
        <4>1. n < m => a[n] < a[m]
          BY <1>2, <3>3
        <4>2. a[n] < k => f[a[n]] < f[k]
          BY <1>4, <3>2 DEF Keeps
        <4>3. m # n
          BY <2>2, <3>1, <3>2, <3>3
        <4> QED
          BY <1>2, <2>2, <3>1, <3>2, <3>3, <4>1, <4>2, <4>3
      <3>5. m \in 1 .. n - 1 /\ b[m] = b[n]
        BY <2>1, <3>2, <3>3, <3>4
      <3>6. b[m] < b[n] /\ b[m] \in Nat
        BY <1>3, <1>4, <2>3, <2>5, <3>4, <3>5
      <3> QED
        BY <3>5, <3>6
    <2> QED
      BY <1>2, <2>1, <2>5, <2>6
  <1>8. \A m \in 1 .. Len(a) : m <= Len(b) /\ b[m] = f[a[m]]
    <2>1. Len(a) \in 0 .. Len(a)
      BY <1>2
    <2> HIDE DEF S
    <2>2. \A n \in 0 .. Len(a) : n \in S
      BY <1>2, <1>6, <1>7, Induction
    <2>3. Len(a) \in S
      BY <2>1, <2>2
    <2> QED
      BY <2>3 DEF S
  <1>9. Len(a) <= Len(b) /\ \A n \in 1 .. Len(a) : n \in 1 .. Len(b)
    <2>1. Len(a) >= 1 => Len(a) \in 1 .. Len(a)
      BY <1>2
    <2>2. Len(a) <= Len(b)
      BY <1>2, <1>3, <1>8, <2>1
    <2> QED
      BY <1>2, <1>3, <2>2
  <1>10. ASSUME KeepsAll(s, t, f) PROVE Len(a) = Len(b)
    <2> SUFFICES ASSUME Len(a) < Len(b) PROVE FALSE
      <3>1. Len(a) \in Nat /\ Len(b) \in Nat /\ Len(a) <= Len(b)
        BY <1>2, <1>3, <1>9
      <3> HIDE DEF S
      <3> QED
        BY <3>1
    <2> DEFINE n == Len(b)
    <2>1. n \in 1 .. Len(b) /\ b[n] \in Spots(s)
      BY <1>2, <1>3, <1>4
    <2>2. PICK k \in Spots(t) : f[k] = b[n]
      BY <1>10, <2>1 DEF KeepsAll
    <2>3. PICK m \in 1 .. Len(a) : a[m] = k
      BY <1>2, <2>2
    <2>4. b[m] = b[n] /\ m < n /\ m \in 1 .. Len(b)
      BY <1>2, <1>8, <1>9, <2>2, <2>3
    <2>5. b[m] < b[n] /\ b[n] \in Nat
      BY <1>3, <1>4, <2>1, <2>4
    <2> QED
      BY <2>4, <2>5
  <1> QED
    BY <1>2, <1>3, <1>4, <1>8, <1>9, <1>10

\* Slugify keeps the letters of what was typed, or those up to the cut; without a
\* letter the slug is a board.
SlugOf(typed, slug) ==
    /\ \E E : typed \in Seq(E)
    /\ Spots(typed) = {} => slug = board
    /\ Spots(typed) # {} =>
          /\ slug \in Seq(Letters \cup {"-"})
          /\ \E f : \/ KeepsAll(typed, slug, f)
                    \/ /\ Keeps(typed, slug, f)
                       /\ Len(slug) \in {maxSlugifiedLen - 1, maxSlugifiedLen}

LEMMA SlugifyKeeps ==
    ASSUME NEW C, NEW s \in Seq(C)
    PROVE  SlugOf(Transliterate(ToLower(s)), Slugify(s))
  <1> DEFINE typed == Transliterate(ToLower(s))
             slug == Slugify(s)
             D == Letters \cup {"-"}
             clean == Clean(typed)
             single == CollapseDashes(clean)
             trimmed == TrimDashes(single)
             t == Truncate(trimmed)
  <1>1. PICK E : typed \in Seq(E)
    BY Typed
  <1>2. slug = IF t = <<>> THEN board ELSE t
    BY DEF Slugify
  <1> HIDE DEF typed
  <1>3. clean \in Seq(D) /\ \E f : KeepsAll(typed, clean, f)
    BY <1>1, CleanKeeps
  <1> HIDE DEF clean, D
  <1>4. single \in Seq(D) /\ SingleDashes(single) /\ \E f : KeepsAll(clean, single, f)
    BY <1>3, Collapsed, CollapseKeeps
  <1> HIDE DEF single
  <1>5. trimmed \in Seq(D) /\ SingleDashes(trimmed) /\ (trimmed = <<>> \/ trimmed[1] # "-")
    BY <1>4, Trimmed
  <1>6. \E f : KeepsAll(single, trimmed, f)
    BY <1>4, TrimKeeps
  <1> HIDE DEF trimmed
  <1>7. \E f : \/ KeepsAll(trimmed, t, f)
               \/ /\ Keeps(trimmed, t, f)
                  /\ Len(t) \in {maxSlugifiedLen - 1, maxSlugifiedLen} /\ Len(t) >= 1
    <2> HIDE DEF t
    <2>1. t = Truncate(trimmed)
      BY DEF t
    <2> QED
      BY <1>5, <2>1, TruncateKeeps
  <1>8. t \in Seq(D)
    <2>1. CASE Len(trimmed) > maxSlugifiedLen
      <3> DEFINE cut == SubSeq(trimmed, 1, maxSlugifiedLen)
      <3>1. maxSlugifiedLen \in 1 .. Len(trimmed) /\ 1 \in 1 .. Len(trimmed)
        BY <1>5, <2>1, LengthAssumption
      <3>2. cut \in Seq(D) /\ SingleDashes(cut)
        BY <1>5, <3>1, SubSeqFacts, PartOfSingle
      <3>3. t = TrimDashes(cut)
        BY <2>1 DEF Truncate
      <3> HIDE DEF cut, t
      <3> QED
        BY <3>2, <3>3, Trimmed
    <2>2. CASE ~ (Len(trimmed) > maxSlugifiedLen)
      BY <1>5, <2>2 DEF Truncate
    <2> QED
      BY <2>1, <2>2
  <1> HIDE DEF t
  <1>9. /\ Spots(typed) \in SUBSET Nat /\ Spots(clean) \in SUBSET Nat
        /\ Spots(single) \in SUBSET Nat /\ Spots(trimmed) \in SUBSET Nat
        /\ Spots(t) \in SUBSET Nat
    BY <1>1, <1>3, <1>4, <1>5, <1>8, SpotsFacts
  <1>10. \A r, q, f : KeepsAll(r, q, f) => Keeps(r, q, f)
    BY DEF KeepsAll
  <1>11. PICK f : KeepsAll(typed, trimmed, f)
    <2>1. \E f : KeepsAll(typed, single, f)
      BY <1>3, <1>4, <1>9, <1>10, KeepsIsTransitive
    <2> QED
      BY <1>6, <1>9, <1>10, <2>1, KeepsIsTransitive
  <1>12. PICK g : \/ KeepsAll(trimmed, t, g)
                  \/ /\ Keeps(trimmed, t, g)
                     /\ Len(t) \in {maxSlugifiedLen - 1, maxSlugifiedLen} /\ Len(t) >= 1
    BY <1>7
  <1>13. PICK h : Keeps(typed, t, h) /\ (KeepsAll(trimmed, t, g) => KeepsAll(typed, t, h))
    <2>1. Keeps(typed, trimmed, f) /\ Keeps(trimmed, t, g)
      BY <1>10, <1>11, <1>12
    <2>2. \E h : /\ Keeps(typed, t, h)
                 /\ KeepsAll(typed, trimmed, f) /\ KeepsAll(trimmed, t, g) => KeepsAll(typed, t, h)
      BY <1>9, <2>1, KeepsIsTransitive
    <2> QED
      BY <1>11, <2>2
  <1>14. ASSUME t = <<>> PROVE Spots(typed) = {}
    <2>1. Spots(t) = {} /\ Len(t) = 0
      BY <1>14 DEF Spots
    <2>2. KeepsAll(typed, t, h)
      BY <1>12, <1>13, <2>1
    <2> QED
      BY <2>1, <2>2 DEF KeepsAll
  <1>15. ASSUME t # <<>> PROVE Spots(typed) # {}
    <2>1. slug = t
      BY <1>2, <1>15
    <2> HIDE DEF slug
    <2>2. t[1] # "-" /\ Len(t) >= 1
      <3>1. Neat(slug)
        BY Slugified DEF slug
      <3> QED
        BY <2>1, <3>1 DEF Neat
    <2>3. Spots(t) = {i \in 1 .. Len(t) : t[i] \in Letters} /\ Len(t) \in Nat
      BY <1>8, SpotsFacts
    <2>4. 1 \in 1 .. Len(t) /\ t[1] \in D
      BY <1>8, <2>2, <2>3
    <2>5. 1 \in Spots(t)
      BY <2>2, <2>3, <2>4 DEF D
    <2> QED
      BY <1>13, <2>5 DEF Keeps
  <1> HIDE DEF slug
  <1>16. ASSUME t = <<>> PROVE SlugOf(typed, slug)
    BY <1>1, <1>2, <1>14, <1>16 DEF SlugOf
  <1>17. ASSUME t # <<>> PROVE SlugOf(typed, slug)
    BY <1>1, <1>2, <1>8, <1>12, <1>13, <1>15, <1>17 DEF D, SlugOf
  <1> QED
    BY <1>16, <1>17 DEF typed, slug

\* Sequences with the same elements.
LEMMA PrefixByElements ==
    ASSUME NEW C, NEW s \in Seq(C), NEW t \in Seq(C), Len(s) <= Len(t),
           \A i \in 1 .. Len(s) : s[i] = t[i]
    PROVE  IsPrefix(s, t) /\ (Len(s) = Len(t) => s = t)
  <1>1. Len(s) \in Nat /\ Len(t) \in Nat
    OBVIOUS
  <1>2. Len(s) = Len(t) => s = t
    OBVIOUS
  <1>3. CASE Len(s) = 0
    <2>1. SubSeq(s, 1, 0) = <<>> /\ SubSeq(t, 1, 0) = <<>>
      OBVIOUS
    <2> QED
      BY <1>2, <1>3, <2>1 DEF IsPrefix
  <1>4. CASE Len(s) # 0
    <2> DEFINE n == Len(s)
               p == SubSeq(s, 1, n)
               q == SubSeq(t, 1, n)
    <2>1. 1 \in 1 .. Len(s) /\ 1 \in 1 .. Len(t) /\ n \in 1 .. Len(s) /\ n \in 1 .. Len(t)
      BY <1>1, <1>4
    <2>2. /\ p \in Seq(C) /\ Len(p) = n - 1 + 1
          /\ \A i \in 1 .. n - 1 + 1 : p[i] = s[1 + i - 1]
      BY <2>1, SubSeqFacts
    <2>3. /\ q \in Seq(C) /\ Len(q) = n - 1 + 1
          /\ \A i \in 1 .. n - 1 + 1 : q[i] = t[1 + i - 1]
      BY <2>1, SubSeqFacts
    <2> HIDE DEF p, q
    <2>4. \A i \in 1 .. n - 1 + 1 : 1 + i - 1 = i /\ i \in 1 .. Len(s)
      BY <1>1
    <2>5. \A i \in 1 .. n - 1 + 1 : p[i] = q[i]
      BY <2>2, <2>3, <2>4
    <2>6. p = q
      BY <2>2, <2>3, <2>5
    <2> QED
      BY <1>2, <2>6 DEF IsPrefix, p, q
  <1> QED
    BY <1>3, <1>4

\* No letter of a name is lost or changed up to the cut, and only what else was
\* there becomes a dash, for names of any length.
THEOREM SlugKeepsTheNameAlways == Spec => []SlugKeepsTheName
  <1>1. BInv => SlugKeepsTheName
    <2> SUFFICES ASSUME BInv, view # NoView, view # <<>> PROVE SlugKeepsTheName
      BY DEF SlugKeepsTheName, Rendered
    <2> DEFINE typed == Transliterate(ToLower(firstName))
               a == Sorted(Spots(firstSlug))
               b == Sorted(Spots(typed))
               short == [n \in DOMAIN a |-> firstSlug[a[n]]]
               long == [n \in DOMAIN b |-> typed[b[n]]]
    <2> SUFFICES IF long = <<>> THEN firstSlug = board
                 ELSE /\ IsPrefix(short, long)
                      /\ short # long => Len(firstSlug) \in {maxSlugifiedLen - 1, maxSlugifiedLen}
                      /\ \A n \in 1 .. Len(a) - 1 : a[n + 1] > a[n] + 1 <=> b[n + 1] > b[n] + 1
      BY DEF SlugKeepsTheName, Spots
    <2>1. firstName \in Seq(Characters) /\ firstSlug = Slugify(firstName)
      <3> DEFINE names == Order(products)
      <3>1. Stored(products) /\ view = BuildBoardView(products)
        BY DEF BInv
      <3>2. /\ GivenOK(names, Anchors(names), Len(names)) /\ names \in Seq(Seq(Characters))
            /\ Len(names) \in Nat /\ Len(names) >= 1
        BY <3>1, Built
      <3>3. \A i \in 1 .. Len(names) : view[i].name = names[i] /\ view[i].anchor = Anchors(names)[i]
        BY <3>1, BuiltAnchors
      <3> HIDE DEF names
      <3>4. 1 \in 1 .. Len(names)
        BY <3>2
      <3>5. names[1] \in Seq(Characters)
        BY <3>2, <3>4
      <3>6. Anchors(names)[1] = Slugify(names[1])
        BY <3>2, <3>4 DEF GivenOK
      <3> QED
        BY <3>3, <3>4, <3>5, <3>6 DEF firstName, firstSlug
    <2> DEFINE slug == firstSlug
    <2>2. SlugOf(typed, slug)
      BY <2>1, SlugifyKeeps
    <2>3. PICK E : typed \in Seq(E)
      BY <2>2 DEF SlugOf
    <2> HIDE DEF typed
    <2>4. Lists(b, Spots(typed)) /\ Spots(typed) = {i \in 1 .. Len(typed) : typed[i] \in Letters}
      BY <2>3, SpotsFacts, SortedLists
    <2> HIDE DEF b
    <2>5. DOMAIN b = 1 .. Len(b) /\ Len(b) \in Nat /\ \A n \in 1 .. Len(b) : b[n] \in Spots(typed)
      BY <2>4 DEF Lists
    <2>6. \A A, n, q : n \in Nat /\ q \in [1 .. n -> A] => q \in Seq(A) /\ Len(q) = n
      OBVIOUS
    <2>7. long \in Seq(Letters) /\ Len(long) = Len(b) /\ \A n \in 1 .. Len(b) : long[n] = typed[b[n]]
      <3>1. long \in [1 .. Len(b) -> Letters]
        BY <2>4, <2>5
      <3> QED
        BY <2>5, <2>6, <3>1
    <2> HIDE DEF long
    <2>8. CASE Spots(typed) = {}
      <3>1. Len(b) = 0
        BY <2>5, <2>8
      <3>2. long = <<>>
        BY <2>7, <3>1
      <3> QED
        BY <2>2, <2>8, <3>2 DEF SlugOf
    <2>9. CASE Spots(typed) # {}
      <3>1. long # <<>>
        <4>1. \E n \in 1 .. Len(b) : TRUE
          BY <2>4, <2>9 DEF Lists
        <4>2. Len(b) # 0
          BY <4>1
        <4> QED
          BY <2>7, <4>2
      <3>2. PICK f : \/ KeepsAll(typed, slug, f)
                     \/ /\ Keeps(typed, slug, f)
                        /\ Len(slug) \in {maxSlugifiedLen - 1, maxSlugifiedLen}
        BY <2>2, <2>9 DEF SlugOf
      <3>3. Keeps(typed, slug, f)
        BY <3>2 DEF KeepsAll
      <3> DEFINE X == E \cup Letters \cup {"-"}
      <3>4. typed \in Seq(X) /\ slug \in Seq(X)
        <4>1. \A A, B : A \subseteq B => Seq(A) \subseteq Seq(B)
          OBVIOUS
        <4>2. Seq(E) \subseteq Seq(X) /\ Seq(Letters \cup {"-"}) \subseteq Seq(X)
          BY <4>1
        <4> HIDE DEF X
        <4> QED
          BY <2>2, <2>3, <2>9, <4>2 DEF SlugOf
      <3> HIDE DEF X
      <3>5. a = Sorted(Spots(slug)) /\ b = Sorted(Spots(typed))
        BY DEF b
      <3> HIDE DEF a, slug
      <3>6. /\ DOMAIN a = 1 .. Len(a) /\ Len(a) \in Nat /\ Len(a) <= Len(b)
            /\ \A n \in 1 .. Len(a) : a[n] \in Spots(slug) /\ b[n] \in Spots(typed) /\ b[n] = f[a[n]]
            /\ KeepsAll(typed, slug, f) => Len(a) = Len(b)
        BY <3>3, <3>4, <3>5, RanksAreKept
      <3>7. Spots(slug) = {i \in 1 .. Len(slug) : slug[i] \in Letters}
        BY <3>4, SpotsFacts
      <3>8. /\ short \in Seq(Letters) /\ Len(short) = Len(a)
            /\ \A n \in 1 .. Len(a) : short[n] = slug[a[n]]
        <4>1. short \in [1 .. Len(a) -> Letters] /\ \A n \in 1 .. Len(a) : short[n] = slug[a[n]]
          BY <3>6, <3>7 DEF slug
        <4> QED
          BY <2>6, <3>6, <4>1
      <3> HIDE DEF short
      <3>9. \A n \in 1 .. Len(short) : short[n] = long[n]
        <4>1. \A n \in 1 .. Len(a) : slug[a[n]] = typed[f[a[n]]]
          BY <3>3, <3>6 DEF Keeps
        <4>2. \A n \in 1 .. Len(a) : n \in 1 .. Len(b)
          <5>1. Len(a) \in Nat /\ Len(b) \in Nat /\ Len(a) <= Len(b)
            BY <2>5, <3>6
          <5> QED
            BY <5>1
        <4> QED
          BY <2>7, <3>6, <3>8, <4>1, <4>2
      <3>10. IsPrefix(short, long) /\ (Len(short) = Len(long) => short = long)
        BY <2>7, <3>6, <3>8, <3>9, PrefixByElements
      <3>11. short # long => Len(slug) \in {maxSlugifiedLen - 1, maxSlugifiedLen}
        BY <2>7, <3>2, <3>6, <3>8, <3>10
      <3>12. ASSUME NEW n \in 1 .. Len(a) - 1 PROVE a[n + 1] > a[n] + 1 <=> b[n + 1] > b[n] + 1
        <4>1. n \in 1 .. Len(a) /\ n + 1 \in 1 .. Len(a) /\ n < n + 1
          BY <3>6
        <4>2. /\ a[n] \in Spots(slug) /\ a[n + 1] \in Spots(slug)
              /\ b[n] = f[a[n]] /\ b[n + 1] = f[a[n + 1]]
              /\ b[n] \in Spots(typed) /\ b[n + 1] \in Spots(typed)
          BY <3>6, <4>1
        <4>3. a[n] \in Nat /\ a[n + 1] \in Nat /\ b[n] \in Nat /\ b[n + 1] \in Nat
          BY <2>4, <3>7, <4>2
        <4>4. a[n + 1] = a[n] + 1 <=> b[n + 1] = b[n] + 1
          BY <3>3, <4>2 DEF Keeps
        <4>5. a[n] < a[n + 1] /\ b[n] < b[n + 1]
          <5>1. a[n] < a[n + 1]
            <6>1. Spots(slug) \in SUBSET Nat /\ IsFiniteSet(Spots(slug))
              BY <3>4, SpotsFacts
            <6>2. Lists(a, Spots(slug))
              BY <3>5, <6>1, SortedLists
            <6> QED
              BY <4>1, <6>2 DEF Lists
          <5> QED
            BY <3>3, <4>2, <5>1 DEF Keeps
        <4> QED
          BY <4>3, <4>4, <4>5
      <3> QED
        BY <3>1, <3>10, <3>11, <3>12 DEF slug
    <2> QED
      BY <2>8, <2>9
  <1> QED
    BY <1>1, ViewInvariance, PTL
=============================================================================
