---------------------------- MODULE WebhookProofs ----------------------------
(***************************************************************************)
(* Proofs about Webhook and Payload, for any requests, any number of       *)
(* products and texts of any size: what Validate has seen and what the     *)
(* store is handed after normalize, and what is reported to the caller.    *)
(*                                                                         *)
(* Induction over the loop of normalize is by its first iteration that     *)
(* would not do what it should (HasLeast).                                 *)
(***************************************************************************)
EXTENDS Webhook, TLAPS, WellFoundedInduction

\* Every set of numbers that is not empty has a least one.
LEMMA HasLeast ==
    ASSUME NEW S \in SUBSET Nat, S # {}
    PROVE  \E n \in S : \A m \in S : n <= m
  <1> DEFINE less == {p \in Nat \X Nat : p[1] < p[2]}
  <1>1. less = OpToRel(<, Nat)
    BY DEF OpToRel
  <1>2. IsWellFoundedOn(less, Nat)
    BY <1>1, NatLessThanWellFounded
  <1>3. \E n \in S : \A m \in S : ~ (<<m, n>> \in less)
    <2> HIDE DEF less
    <2> QED BY <1>2, WFMin
  <1>4. PICK n \in S : \A m \in S : ~ (<<m, n>> \in less)
    BY <1>3
  <1>5. \A m \in S : ~ (m < n)
    <2> SUFFICES ASSUME NEW m \in S, m < n PROVE FALSE
      OBVIOUS
    <2>1. <<m, n>> \in Nat \X Nat
      OBVIOUS
    <2>2. <<m, n>> \in less
      BY <2>1
    <2> QED BY <1>4, <2>2
  <1> QED
    <2>1. \A m \in S : n <= m
       <3> HIDE DEF less
       <3> QED BY <1>5
    <2> QED BY <2>1

\* Min finds it.
LEMMA MinIsMember ==
    ASSUME NEW S \in SUBSET Nat, S # {}
    PROVE  Min(S) \in S
  BY HasLeast DEF Min

\* Min finds no other.
LEMMA MinIsFirst ==
    ASSUME NEW S \in SUBSET Nat, NEW n \in S, \A m \in S : n <= m
    PROVE  Min(S) = n
  <1>1. Min(S) \in S /\ \A m \in S : Min(S) <= m
    BY HasLeast DEF Min
  <1>2. Min(S) <= n /\ n <= Min(S) /\ Min(S) \in Nat /\ n \in Nat
    BY <1>1
  <1> QED
    BY <1>2

\* The field of the first failure.
LEMMA FailureIsFirst ==
    ASSUME NEW checks, DOMAIN checks \subseteq Nat, NEW i \in DOMAIN checks, checks[i][2],
           \A j \in DOMAIN checks : j < i => ~ checks[j][2]
    PROVE  FirstFailure(checks) = checks[i][1]
  <1> DEFINE failing == {j \in DOMAIN checks : checks[j][2]}
  <1>1. failing \in SUBSET Nat /\ i \in failing
    OBVIOUS
  <1>2. \A j \in failing : i <= j
    OBVIOUS
  <1>3. Min(failing) = i
    <2> HIDE DEF failing
    <2> QED
      BY <1>1, <1>2, MinIsFirst
  <1> QED
    BY <1>1, <1>3 DEF FirstFailure

\* A list of checks none of which fails.
LEMMA NothingFails ==
    ASSUME NEW checks, \A i \in DOMAIN checks : ~ checks[i][2]
    PROVE  FirstFailure(checks) = "none"
  BY DEF FirstFailure

\* A list of checks without a failure: none of them fails.
LEMMA NoFailure ==
    ASSUME NEW checks, DOMAIN checks \subseteq Nat,
           \A i \in DOMAIN checks : checks[i][1] # "none",
           FirstFailure(checks) = "none"
    PROVE  \A i \in DOMAIN checks : ~ checks[i][2]
  <1> DEFINE failing == {i \in DOMAIN checks : checks[i][2]}
  <1>1. failing # {} => Min(failing) \in failing
    BY MinIsMember
  <1>2. failing = {}
    BY <1>1 DEF FirstFailure
  <1> QED
    BY <1>2

\* What StoredViewIsSound says of a product.
SoundProduct(p) ==
    /\ ~Empty(p.category) /\ ~Empty(p.title)
    /\ Bytes(p.title) <= maxTitleLen
    /\ Bytes(p.recommendation) <= maxRecommendationLen
    /\ p.specs <= maxSpecsPerProduct
    /\ p.rating = NoRating \/ p.rating \in 0 .. 50
    /\ ~Overfull(p.highlights, maxHighlights, maxHighlightLen)
    /\ ~Overfull(p.pros, maxPros, maxProConLen)
    /\ ~Overfull(p.cons, maxCons, maxProConLen)
    /\ p.affiliate_link # "other" /\ p.image_url # "other"

\* The checks of a product, each for itself.
LEMMA ProductCheck ==
    ASSUME NEW p, NEW checks, checks = ProductChecks(p)
    PROVE  /\ DOMAIN checks = 1 .. 10 /\ \A i \in 1 .. 10 : checks[i][1] # "none"
           /\ checks[1][2] <=> Empty(p.category)
           /\ checks[2][2] <=> Empty(p.title) \/ Bytes(p.title) > maxTitleLen
           /\ checks[3][2] <=> Bytes(p.recommendation) > maxRecommendationLen
           /\ checks[4][2] <=> p.specs > maxSpecsPerProduct
           /\ checks[5][2] <=> p.rating # NoRating /\ p.rating \notin 0 .. 50
           /\ checks[6][2] <=> Overfull(p.highlights, maxHighlights, maxHighlightLen)
           /\ checks[7][2] <=> Overfull(p.pros, maxPros, maxProConLen)
           /\ checks[8][2] <=> Overfull(p.cons, maxCons, maxProConLen)
           /\ checks[9][2] <=> p.affiliate_link = "other"
           /\ checks[10][2] <=> p.image_url = "other"
  <1>1. /\ checks[1][2] <=> Empty(p.category)
        /\ checks[2][2] <=> Empty(p.title) \/ Bytes(p.title) > maxTitleLen
        /\ checks[3][2] <=> Bytes(p.recommendation) > maxRecommendationLen
        /\ checks[4][2] <=> p.specs > maxSpecsPerProduct
    BY DEF ProductChecks
  <1>2. checks[5][2] <=> p.rating # NoRating /\ p.rating \notin 0 .. 50
    BY DEF ProductChecks
  <1>3. /\ checks[6][2] <=> Overfull(p.highlights, maxHighlights, maxHighlightLen)
        /\ checks[7][2] <=> Overfull(p.pros, maxPros, maxProConLen)
        /\ checks[8][2] <=> Overfull(p.cons, maxCons, maxProConLen)
    BY DEF ProductChecks, Overfull
  <1>4. /\ checks[9][2] <=> p.affiliate_link = "other"
        /\ checks[10][2] <=> p.image_url = "other"
    BY DEF ProductChecks
  <1>5. /\ DOMAIN checks = 1 .. 10
        /\ checks[1][1] = "category" /\ checks[2][1] = "title"
        /\ checks[3][1] = "recommendation" /\ checks[4][1] = "specs"
        /\ checks[5][1] = "rating" /\ checks[6][1] = "highlights"
        /\ checks[7][1] = "pros" /\ checks[8][1] = "cons"
        /\ checks[9][1] = "affiliate_link" /\ checks[10][1] = "image_url"
    BY DEF ProductChecks
  <1>6. \A i \in 1 .. 10 : checks[i][1] # "none"
    BY <1>5
  <1> QED
    BY <1>1, <1>2, <1>3, <1>4, <1>5, <1>6, Zenon

\* A product passes its checks if and only if it is sound.
LEMMA ProductPasses ==
    ASSUME NEW p \in Product
    PROVE  FirstFailure(ProductChecks(p)) = "none" <=> SoundProduct(p)
  <1> DEFINE checks == ProductChecks(p)
  <1>1. Bytes(p.title) \in Nat /\ Bytes(p.recommendation) \in Nat /\ p.specs \in Nat
    <2>1. p.title \in Text /\ p.recommendation \in Text /\ p.specs \in Nat
      BY DEF Product
    <2> QED
      BY <2>1 DEF Text, Bytes
  <1>2. /\ Bytes(p.title) > maxTitleLen <=> ~ (Bytes(p.title) <= maxTitleLen)
        /\ Bytes(p.recommendation) > maxRecommendationLen
              <=> ~ (Bytes(p.recommendation) <= maxRecommendationLen)
        /\ p.specs > maxSpecsPerProduct <=> ~ (p.specs <= maxSpecsPerProduct)
    BY <1>1 DEF maxTitleLen, maxRecommendationLen, maxSpecsPerProduct
  <1>3. /\ DOMAIN checks = 1 .. 10 /\ \A i \in 1 .. 10 : checks[i][1] # "none"
        /\ SoundProduct(p) <=>
             /\ ~checks[1][2] /\ ~checks[2][2] /\ ~checks[3][2] /\ ~checks[4][2] /\ ~checks[5][2]
             /\ ~checks[6][2] /\ ~checks[7][2] /\ ~checks[8][2] /\ ~checks[9][2] /\ ~checks[10][2]
    <2> HIDE DEF checks
    <2>1. checks = ProductChecks(p)
      BY DEF checks
    <2> QED
      BY <2>1, <1>2, ProductCheck, Zenon DEF SoundProduct
  <1>4. SoundProduct(p) <=> \A i \in 1 .. 10 : ~checks[i][2]
    <2>1. \A i \in 1 .. 10 : \/ i = 1 \/ i = 2 \/ i = 3 \/ i = 4 \/ i = 5
                             \/ i = 6 \/ i = 7 \/ i = 8 \/ i = 9 \/ i = 10
      OBVIOUS
    <2>2. /\ 1 \in 1 .. 10 /\ 2 \in 1 .. 10 /\ 3 \in 1 .. 10 /\ 4 \in 1 .. 10 /\ 5 \in 1 .. 10
          /\ 6 \in 1 .. 10 /\ 7 \in 1 .. 10 /\ 8 \in 1 .. 10 /\ 9 \in 1 .. 10 /\ 10 \in 1 .. 10
      OBVIOUS
    <2> HIDE DEF checks
    <2> QED
      BY <1>3, <2>1, <2>2, Zenon
  <1>5. (\A i \in 1 .. 10 : ~checks[i][2]) <=> FirstFailure(checks) = "none"
    <2> HIDE DEF checks
    <2>1. DOMAIN checks \subseteq Nat
      BY <1>3
    <2> QED
      BY <1>3, <2>1, NoFailure, NothingFails
  <1> QED
    BY <1>4, <1>5

\* The checks of a view, each for itself.
LEMMA ViewCheck ==
    ASSUME NEW v, NEW checks, checks = ViewChecks(v)
    PROVE  /\ DOMAIN checks = 1 .. 4 /\ \A i \in 1 .. 4 : checks[i][1] # "none"
           /\ checks[2][1] = "client_name" /\ checks[4][1] = "products"
           /\ checks[1][2] <=> Empty(v.customer_id)
           /\ checks[2][2] <=> Empty(v.client_name) \/ Bytes(v.client_name) > maxClientNameLen
           /\ checks[3][2] <=> v.language = "malformed"
           /\ checks[4][2] <=> Len(v.products) = 0 \/ Len(v.products) > maxProducts
  <1>1. /\ checks[1][2] <=> Empty(v.customer_id)
        /\ checks[2][2] <=> Empty(v.client_name) \/ Bytes(v.client_name) > maxClientNameLen
        /\ checks[3][2] <=> v.language = "malformed"
        /\ checks[4][2] <=> Len(v.products) = 0 \/ Len(v.products) > maxProducts
    BY DEF ViewChecks
  <1>2. /\ DOMAIN checks = 1 .. 4
        /\ checks[1][1] = "customer_id" /\ checks[2][1] = "client_name"
        /\ checks[3][1] = "language" /\ checks[4][1] = "products"
    BY DEF ViewChecks
  <1>3. \A i \in 1 .. 4 : checks[i][1] # "none"
    BY <1>2
  <1> QED
    BY <1>1, <1>2, <1>3, Zenon

\* What StoredViewIsSound says of a view by itself.
Sound(v) ==
    /\ ~Empty(v.customer_id)
    /\ Bytes(v.client_name) <= maxClientNameLen
    /\ v.language # "malformed"
    /\ Len(v.products) <= maxProducts
    /\ \A i \in DOMAIN v.products : SoundProduct(v.products[i])

\* A view that Validate accepts is sound, and neither without name nor products.
LEMMA ViewPasses ==
    ASSUME NEW v \in CustomerView, Validate(v) = "none"
    PROVE  /\ Sound(v)
           /\ ~ Empty(v.client_name)
  <1> DEFINE checks == ViewChecks(v)
             fault(i) == FirstFailure(ProductChecks(v.products[i]))
             faulty == {i \in DOMAIN v.products : fault(i) # "none"}
  <1>1. faulty # {} => Min(faulty) \in faulty
    <2>1. faulty \in SUBSET Nat
      BY DEF CustomerView
    <2> QED
      BY <2>1, MinIsMember
  <1>2. FirstFailure(checks) = "none" /\ faulty = {}
    BY <1>1 DEF Validate
  <1>3. \A i \in 1 .. 4 : ~ checks[i][2]
    <2> HIDE DEF checks
    <2>1. DOMAIN checks = 1 .. 4 /\ \A i \in 1 .. 4 : checks[i][1] # "none"
      BY ViewCheck DEF checks
    <2> QED
      BY <1>2, <2>1, NoFailure
  <1>4. /\ ~ Empty(v.customer_id)
        /\ ~ (Empty(v.client_name) \/ Bytes(v.client_name) > maxClientNameLen)
        /\ ~ (v.language = "malformed")
        /\ ~ (Len(v.products) = 0 \/ Len(v.products) > maxProducts)
    <2> HIDE DEF checks
    <2>1. ~ checks[1][2] /\ ~ checks[2][2] /\ ~ checks[3][2] /\ ~ checks[4][2]
      BY <1>3
    <2>2. checks = ViewChecks(v)
      BY DEF checks
    <2> QED
      BY <2>1, <2>2, ViewCheck, Zenon
  <1>5. Bytes(v.client_name) \in Nat /\ Len(v.products) \in Nat
    BY DEF CustomerView, Text, Bytes
  <1>6. ASSUME NEW i \in DOMAIN v.products PROVE SoundProduct(v.products[i])
    <2>1. v.products[i] \in Product
      BY DEF CustomerView
    <2>2. fault(i) = "none"
      BY <1>2
    <2> QED
      BY <2>1, <2>2, ProductPasses
  <1>7. Bytes(v.client_name) <= maxClientNameLen /\ Len(v.products) <= maxProducts
    BY <1>4, <1>5 DEF maxClientNameLen, maxProducts
  <1> QED
    BY <1>4, <1>6, <1>7 DEF Sound

\* A sound view is refused for the lack of a name or of products only.
LEMMA SoundViewIsTaken ==
    ASSUME NEW v \in CustomerView, Sound(v)
    PROVE  Validate(v) = IF Empty(v.client_name) THEN "client_name"
                         ELSE IF v.products = <<>> THEN "products" ELSE "none"
  <1> DEFINE checks == ViewChecks(v)
             fault(i) == FirstFailure(ProductChecks(v.products[i]))
             faulty == {i \in DOMAIN v.products : fault(i) # "none"}
  <1>1. faulty = {}
    <2> SUFFICES ASSUME NEW i \in DOMAIN v.products PROVE fault(i) = "none"
      OBVIOUS
    <2>1. v.products[i] \in Product /\ SoundProduct(v.products[i])
      BY DEF CustomerView, Sound
    <2> QED
      BY <2>1, ProductPasses
  <1>2. Validate(v) = FirstFailure(checks)
    BY <1>1 DEF Validate
  <1>3. Bytes(v.client_name) \in Nat /\ v.products \in Seq(Product)
    BY DEF CustomerView, Text, Bytes
  <1>4. /\ ~ (Bytes(v.client_name) > maxClientNameLen) /\ ~ (Len(v.products) > maxProducts)
        /\ ~ Empty(v.customer_id) /\ v.language # "malformed"
        /\ Len(v.products) = 0 <=> v.products = <<>>
    BY <1>3 DEF Sound, maxClientNameLen, maxProducts
  <1>5. /\ DOMAIN checks = 1 .. 4
        /\ checks[2][1] = "client_name" /\ checks[4][1] = "products"
        /\ ~ checks[1][2] /\ ~ checks[3][2]
        /\ checks[2][2] <=> Empty(v.client_name)
        /\ checks[4][2] <=> v.products = <<>>
    <2> HIDE DEF checks
    <2>1. checks = ViewChecks(v)
      BY DEF checks
    <2> QED
      BY <1>4, <2>1, ViewCheck, Zenon
  <1>6. 2 \in DOMAIN checks /\ 4 \in DOMAIN checks /\ DOMAIN checks \subseteq Nat
    BY <1>5
  <1> HIDE DEF checks
  <1>7. CASE Empty(v.client_name)
    <2>1. \A j \in DOMAIN checks : j < 2 => ~ checks[j][2]
      BY <1>5
    <2>2. checks[2][2]
      BY <1>5, <1>7, Zenon
    <2> QED
      BY <1>2, <1>5, <1>6, <1>7, <2>1, <2>2, FailureIsFirst
  <1>8. CASE ~Empty(v.client_name) /\ v.products = <<>>
    <2>1. ~ checks[2][2] /\ checks[4][2]
      BY <1>5, <1>8, Zenon
    <2>2. \A j \in DOMAIN checks : j < 4 => ~ checks[j][2]
      BY <1>5, <2>1
    <2> QED
      BY <1>2, <1>5, <1>6, <1>8, <2>1, <2>2, FailureIsFirst
  <1>9. CASE ~Empty(v.client_name) /\ v.products # <<>>
    <2>1. ~ checks[2][2] /\ ~ checks[4][2]
      BY <1>5, <1>9, Zenon
    <2>2. \A j \in DOMAIN checks : ~ checks[j][2]
      BY <1>5, <2>1
    <2> QED
      BY <1>2, <1>9, <2>2, NothingFails
  <1> QED
    BY <1>7, <1>8, <1>9

\* An iteration of the loop of normalize.
Appended(list, kept, i) ==
    IF i = 0 THEN <<>>
    ELSE LET p == TrimProduct(list[i])
         IN  IF Listed(p) THEN Append(kept[i - 1], p) ELSE kept[i - 1]

\* The recursion of Kept has a solution, up to every place of the list.
LEMMA KeptExists ==
    ASSUME NEW list, Len(list) \in Nat, NEW n \in 0 .. Len(list)
    PROVE  \E f : f = [i \in 0 .. n |-> Appended(list, f, i)]
  <1> DEFINE Solves(f, m) == f = [i \in 0 .. m |-> Appended(list, f, i)]
             bad == {m \in 0 .. Len(list) : ~ \E f : Solves(f, m)}
  <1>1. SUFFICES ASSUME bad # {} PROVE FALSE
    OBVIOUS
  <1>2. PICK m \in bad : \A k \in bad : m <= k
    <2>1. bad \in SUBSET Nat
      OBVIOUS
    <2> HIDE DEF bad
    <2> QED
      BY <1>1, <2>1, HasLeast
  <1>3. CASE m = 0
    <2>1. Solves([i \in 0 .. 0 |-> <<>>], 0)
      BY DEF Appended
    <2> QED
      BY <1>3, <2>1
  <1>4. CASE m # 0
    <2>1. m - 1 \in 0 .. Len(list) /\ m - 1 \notin bad
      BY <1>2, <1>4
    <2>2. PICK g : Solves(g, m - 1)
      BY <2>1
    <2> DEFINE f == [i \in 0 .. m |-> IF i = m THEN Appended(list, g, m) ELSE g[i]]
    <2>3. \A i \in 0 .. m : f[i] = Appended(list, f, i)
      <3>1. \A i \in 0 .. m - 1 : f[i] = Appended(list, g, i)
        <4>1. \A i \in 0 .. m - 1 : g[i] = Appended(list, g, i)
          BY <2>2
        <4>2. \A i \in 0 .. m - 1 : f[i] = g[i]
          BY <2>1
        <4> QED
          BY <4>1, <4>2
      <3>2. \A i \in 0 .. m : Appended(list, f, i) = Appended(list, g, i)
        BY <2>1, <1>4 DEF Appended
      <3>3. f[m] = Appended(list, g, m)
        BY <2>1
      <3>4. \A i \in 0 .. m : i = m \/ i \in 0 .. m - 1
        BY <2>1
      <3> HIDE DEF f
      <3> QED
        BY <3>1, <3>2, <3>3, <3>4
    <2>4. Solves(f, m)
      <3> HIDE DEF f
      <3>1. f = [i \in 0 .. m |-> f[i]]
        BY DEF f
      <3> QED
        BY <2>3, <3>1
    <2> QED
      BY <2>4
  <1> QED
    BY <1>3, <1>4

\* Kept is the loop of normalize over the products.
LEMMA KeptDefinition ==
    ASSUME NEW list, Len(list) \in Nat
    PROVE  Kept(list) = [i \in 0 .. Len(list) |-> Appended(list, Kept(list), i)]
  <1>1. \E f : f = [i \in 0 .. Len(list) |-> Appended(list, f, i)]
    BY KeptExists
  <1> QED
    BY <1>1 DEF Kept, Appended

\* Trimming a text makes a text.
LEMMA TrimmedText == \A t \in Text : TrimSpace(t) \in Text
  BY DEF TrimSpace, Text

\* Trimming a product makes a product.
LEMMA TrimmedProduct == \A p \in Product : TrimProduct(p) \in Product
  <1> SUFFICES ASSUME NEW p \in Product PROVE TrimProduct(p) \in Product
    OBVIOUS
  <1> HIDE DEF Text
  <1>1. /\ TrimSpace(p.category) \in Text /\ TrimSpace(p.title) \in Text
        /\ TrimSpace(p.recommendation) \in Text
        /\ TrimSpace(p.price) \in Text /\ TrimSpace(p.badge) \in Text
    BY TrimmedText DEF Product
  <1> QED
    BY <1>1 DEF TrimProduct, Product

\* What is kept: the products of the list, trimmed, that still have their names,
\* and nothing else.
LEMMA KeptProducts ==
    ASSUME NEW list \in Seq(Product)
    PROVE  \A n \in 0 .. Len(list) :
             /\ Kept(list)[n] \in Seq(Product)
             /\ Len(Kept(list)[n]) <= n
             /\ \A j \in 1 .. Len(Kept(list)[n]) :
                   \E k \in 1 .. Len(list) :
                      /\ Kept(list)[n][j] = TrimProduct(list[k])
                      /\ Listed(Kept(list)[n][j])
             /\ \A k \in 1 .. n :
                   Listed(TrimProduct(list[k])) =>
                     \E j \in 1 .. Len(Kept(list)[n]) : Kept(list)[n][j] = TrimProduct(list[k])
  <1> DEFINE From(p) == \E k \in 1 .. Len(list) : p = TrimProduct(list[k]) /\ Listed(p)
             Into(k, ps) == Listed(TrimProduct(list[k])) =>
                               \E j \in 1 .. Len(ps) : ps[j] = TrimProduct(list[k])
             Fine(n) == /\ Kept(list)[n] \in Seq(Product)
                        /\ Len(Kept(list)[n]) <= n
                        /\ \A j \in 1 .. Len(Kept(list)[n]) : From(Kept(list)[n][j])
                        /\ \A k \in 1 .. n : Into(k, Kept(list)[n])
             bad == {n \in 0 .. Len(list) : ~ Fine(n)}
  <1>1. \A n \in 0 .. Len(list) : Kept(list)[n] = Appended(list, Kept(list), n)
    <2>1. Kept(list) = [i \in 0 .. Len(list) |-> Appended(list, Kept(list), i)]
      BY KeptDefinition
    <2> QED
      BY <2>1
  <1>2. Fine(0)
    <2>1. Kept(list)[0] = <<>>
      BY <1>1 DEF Appended
    <2> HIDE DEF From, Into
    <2> QED
      BY <2>1
  <1>3. ASSUME NEW n \in 1 .. Len(list), Fine(n - 1) PROVE Fine(n)
    <2> DEFINE p == TrimProduct(list[n])
    <2>1. Kept(list)[n] = IF Listed(p) THEN Append(Kept(list)[n - 1], p) ELSE Kept(list)[n - 1]
      BY <1>1 DEF Appended
    <2>2. p \in Product
      BY TrimmedProduct
    <2>3. CASE ~ Listed(p)
      <3>1. Kept(list)[n] = Kept(list)[n - 1]
        BY <2>1, <2>3
      <3>2. Into(n, Kept(list)[n])
        BY <2>3
      <3> HIDE DEF p, From, Into
      <3>3. \A k \in 1 .. n : k = n \/ k \in 1 .. n - 1
        OBVIOUS
      <3>4. \A k \in 1 .. n : Into(k, Kept(list)[n])
        BY <1>3, <3>1, <3>2, <3>3
      <3> QED
        BY <1>3, <3>1, <3>4
    <2>4. CASE Listed(p)
      <3>1. Kept(list)[n] = Append(Kept(list)[n - 1], p)
        BY <2>1, <2>4
      <3>2. From(p)
        BY <2>4
      <3> DEFINE before == Kept(list)[n - 1]
      <3>3. /\ before \in Seq(Product) /\ Kept(list)[n] = Append(before, p)
            /\ \A k \in 1 .. n - 1 : Into(k, before)
        BY <1>3, <3>1
      <3>4. \A k \in 1 .. n - 1 : Into(k, Append(before, p))
        <4> HIDE DEF before, p
        <4> QED
          BY <2>2, <3>3
      <3>5. Into(n, Append(before, p))
        <4> HIDE DEF before
        <4>1. Append(before, p)[Len(before) + 1] = p /\ Len(Append(before, p)) = Len(before) + 1
              /\ Len(before) \in Nat
          <5> HIDE DEF p
          <5> QED
            BY <2>2, <3>3
        <4> QED
          BY <4>1
      <3>6. \A k \in 1 .. n : k = n \/ k \in 1 .. n - 1
        OBVIOUS
      <3> HIDE DEF p, From, Into, before
      <3>7. \A k \in 1 .. n : Into(k, Kept(list)[n])
        BY <3>3, <3>4, <3>5, <3>6
      <3>8. Kept(list)[n - 1] = before
        BY DEF before
      <3> QED
        BY <1>3, <2>2, <3>1, <3>2, <3>7
    <2> QED
      BY <2>3, <2>4
  <1>4. bad = {}
    <2> SUFFICES ASSUME bad # {} PROVE FALSE
      OBVIOUS
    <2> HIDE DEF Fine
    <2>1. bad \in SUBSET Nat
      OBVIOUS
    <2>2. PICK n \in bad : \A k \in bad : n <= k
      <3> HIDE DEF bad
      <3> QED
        BY <2>1, HasLeast
    <2>3. n \in 1 .. Len(list)
      BY <1>2, <2>2
    <2>4. Fine(n - 1)
      BY <2>2, <2>3
    <2> QED
      BY <1>3, <2>2, <2>3, <2>4
  <1> QED
    <2>1. \A n \in 0 .. Len(list) : Fine(n)
      BY <1>4
    <2> QED
      BY <2>1

\* The same of the whole list.
LEMMA KeptList ==
    ASSUME NEW list \in Seq(Product), NEW ps, ps = Kept(list)[Len(list)]
    PROVE  /\ ps \in Seq(Product)
           /\ Len(ps) <= Len(list)
           /\ \A j \in 1 .. Len(ps) : \E k \in 1 .. Len(list) :
                 ps[j] = TrimProduct(list[k]) /\ Listed(ps[j])
           /\ \A k \in 1 .. Len(list) :
                 Listed(TrimProduct(list[k])) => \E j \in 1 .. Len(ps) : ps[j] = TrimProduct(list[k])
  <1>1. Len(list) \in 0 .. Len(list)
    OBVIOUS
  <1> QED
    BY <1>1, KeptProducts

\* Trimming makes no text longer, and is done once.
LEMMA TrimFacts ==
    \A t \in Text :
        /\ Bytes(TrimSpace(t)) \in Nat /\ Bytes(t) \in Nat
        /\ Bytes(TrimSpace(t)) <= Bytes(t)
        /\ TrimSpace(TrimSpace(t)) = TrimSpace(t)
  <1> SUFFICES ASSUME NEW t \in Text
               PROVE  /\ Bytes(TrimSpace(t)) \in Nat /\ Bytes(t) \in Nat
                      /\ Bytes(TrimSpace(t)) <= Bytes(t)
                      /\ TrimSpace(TrimSpace(t)) = TrimSpace(t)
    OBVIOUS
  <1>1. /\ t.pad \in Nat /\ t.bytes \in Nat
        /\ TrimSpace(t) = [pad |-> 0, chars |-> t.chars, bytes |-> t.bytes]
    BY DEF TrimSpace, Text
  <1>2. TrimSpace(TrimSpace(t)) = TrimSpace(t)
    BY <1>1 DEF TrimSpace
  <1> QED
    BY <1>1, <1>2 DEF Bytes

\* What trimming a product does to its fields.
LEMMA TrimmedFields ==
    ASSUME NEW p \in Product
    PROVE  /\ p.title \in Text /\ p.recommendation \in Text
           /\ TrimProduct(p).title = TrimSpace(p.title)
           /\ TrimProduct(p).recommendation = TrimSpace(p.recommendation)
           /\ TrimProduct(p).affiliate_link = p.affiliate_link
           /\ TrimProduct(p).image_url = p.image_url
           /\ TrimProduct(p).specs = p.specs /\ TrimProduct(p).rating = p.rating
           /\ TrimProduct(p).highlights = p.highlights
           /\ TrimProduct(p).pros = p.pros /\ TrimProduct(p).cons = p.cons
           /\ TrimProduct(TrimProduct(p)) = TrimProduct(p)
  <1>1. /\ TrimSpace(TrimSpace(p.category)) = TrimSpace(p.category)
        /\ TrimSpace(TrimSpace(p.title)) = TrimSpace(p.title)
        /\ TrimSpace(TrimSpace(p.recommendation)) = TrimSpace(p.recommendation)
        /\ TrimSpace(TrimSpace(p.price)) = TrimSpace(p.price)
        /\ TrimSpace(TrimSpace(p.badge)) = TrimSpace(p.badge)
    BY TrimFacts DEF Product
  <1> QED
    BY <1>1 DEF TrimProduct, Product

\* What normalize does to the fields of a view.
LEMMA NormalizedFields ==
    ASSUME NEW v \in CustomerView
    PROVE  /\ normalize(v) \in CustomerView
           /\ normalize(v).customer_id = v.customer_id
           /\ normalize(v).client_name = TrimSpace(v.client_name)
           /\ normalize(v).intro = TrimSpace(v.intro)
           /\ normalize(v).language = v.language
           /\ normalize(v).products = Kept(v.products)[Len(v.products)]
           /\ v.client_name \in Text /\ v.intro \in Text
           /\ v.products \in Seq(Product)
  <1>1. /\ v.client_name \in Text /\ v.intro \in Text /\ v.products \in Seq(Product)
    BY DEF CustomerView
  <1>2. TrimSpace(v.client_name) \in Text /\ TrimSpace(v.intro) \in Text
    BY <1>1, TrimmedText
  <1>3. Kept(v.products)[Len(v.products)] \in Seq(Product)
    BY <1>1, KeptList
  <1> QED
    BY <1>1, <1>2, <1>3 DEF normalize, CustomerView

\* What Validate has accepted is within the contract after the trimming, too.
LEMMA NormalizedIsSound ==
    ASSUME NEW v \in CustomerView, Validate(v) = "none"
    PROVE  Sound(normalize(v))
  <1> DEFINE ps == Kept(v.products)[Len(v.products)]
  <1>1. /\ ps \in Seq(Product) /\ Len(ps) <= Len(v.products)
        /\ \A j \in 1 .. Len(ps) : \E k \in 1 .. Len(v.products) :
              ps[j] = TrimProduct(v.products[k]) /\ Listed(ps[j])
    BY NormalizedFields, KeptList
  <1> HIDE DEF ps
  <1>2. ASSUME NEW j \in DOMAIN ps PROVE SoundProduct(ps[j])
    <2>1. PICK k \in 1 .. Len(v.products) : ps[j] = TrimProduct(v.products[k]) /\ Listed(ps[j])
      BY <1>1
    <2> DEFINE p == v.products[k]
    <2>2. p \in Product /\ SoundProduct(p)
      BY NormalizedFields, ViewPasses DEF Sound
    <2> HIDE DEF p
    <2>3. /\ ps[j].title = TrimSpace(p.title)
          /\ ps[j].recommendation = TrimSpace(p.recommendation)
          /\ ps[j].affiliate_link = p.affiliate_link /\ ps[j].image_url = p.image_url
          /\ ps[j].specs = p.specs /\ ps[j].rating = p.rating
          /\ ps[j].highlights = p.highlights /\ ps[j].pros = p.pros /\ ps[j].cons = p.cons
          /\ p.title \in Text /\ p.recommendation \in Text
      BY <2>1, <2>2, TrimmedFields DEF p
    <2>4. /\ Bytes(p.title) <= maxTitleLen
          /\ Bytes(p.recommendation) <= maxRecommendationLen
      BY <2>2 DEF SoundProduct
    <2>5. /\ Bytes(ps[j].title) <= maxTitleLen
          /\ Bytes(ps[j].recommendation) <= maxRecommendationLen
      BY <2>3, <2>4, TrimFacts DEF maxTitleLen, maxRecommendationLen
    <2> QED
      BY <2>1, <2>2, <2>3, <2>5 DEF Listed, SoundProduct
  <1>3. Bytes(TrimSpace(v.client_name)) <= maxClientNameLen
    BY ViewPasses, NormalizedFields, TrimFacts DEF Sound, maxClientNameLen
  <1>4. Len(ps) <= maxProducts
    <2>1. Len(v.products) <= maxProducts /\ Len(v.products) \in Nat
      BY ViewPasses, NormalizedFields DEF Sound
    <2> QED
      BY <1>1, <2>1 DEF maxProducts
  <1>5. /\ ~ Empty(v.customer_id) /\ v.language # "malformed"
    BY ViewPasses DEF Sound
  <1>6. /\ normalize(v).customer_id = v.customer_id
        /\ normalize(v).client_name = TrimSpace(v.client_name)
        /\ normalize(v).language = v.language
        /\ normalize(v).products = ps
    BY NormalizedFields DEF ps
  <1> QED
    BY <1>2, <1>3, <1>4, <1>5, <1>6 DEF Sound

\* A list that is trimmed, and in which nothing is empty, is kept as it is.
LEMMA KeptAsItIs ==
    ASSUME NEW list \in Seq(Product),
           \A i \in 1 .. Len(list) : TrimProduct(list[i]) = list[i] /\ Listed(list[i])
    PROVE  Kept(list)[Len(list)] = list
  <1> DEFINE Same(n) == Kept(list)[n] = SubSeq(list, 1, n)
             bad == {n \in 0 .. Len(list) : ~ Same(n)}
  <1>1. \A n \in 0 .. Len(list) : Kept(list)[n] = Appended(list, Kept(list), n)
    <2>1. Kept(list) = [i \in 0 .. Len(list) |-> Appended(list, Kept(list), i)]
      BY KeptDefinition
    <2> QED
      BY <2>1
  <1>2. Same(0)
    <2>1. Kept(list)[0] = <<>>
      BY <1>1 DEF Appended
    <2> QED
      BY <2>1
  <1>3. ASSUME NEW n \in 1 .. Len(list), Same(n - 1) PROVE Same(n)
    <2>1. Kept(list)[n] = Append(Kept(list)[n - 1], list[n])
      <3>1. Kept(list)[n] = Appended(list, Kept(list), n) /\ n # 0
        BY <1>1
      <3>2. TrimProduct(list[n]) = list[n] /\ Listed(list[n])
        OBVIOUS
      <3> QED
        BY <3>1, <3>2 DEF Appended
    <2>2. Append(SubSeq(list, 1, n - 1), list[n]) = SubSeq(list, 1, n)
      OBVIOUS
    <2> QED
      BY <1>3, <2>1, <2>2
  <1>4. bad = {}
    <2> SUFFICES ASSUME bad # {} PROVE FALSE
      OBVIOUS
    <2> HIDE DEF Same
    <2>1. bad \in SUBSET Nat
      OBVIOUS
    <2>2. PICK n \in bad : \A k \in bad : n <= k
      <3> HIDE DEF bad
      <3> QED
        BY <2>1, HasLeast
    <2>3. n \in 1 .. Len(list)
      BY <1>2, <2>2
    <2>4. Same(n - 1)
      BY <2>2, <2>3
    <2> QED
      BY <1>3, <2>2, <2>3, <2>4
  <1>5. Same(Len(list))
    BY <1>4
  <1>6. SubSeq(list, 1, Len(list)) = list
    OBVIOUS
  <1> QED
    BY <1>5, <1>6

\* Normalizing a view again changes nothing.
LEMMA NormalizedAgain ==
    ASSUME NEW v \in CustomerView
    PROVE  normalize(normalize(v)) = normalize(v)
  <1> DEFINE u == normalize(v)
  <1>1. /\ u \in CustomerView
        /\ u.client_name = TrimSpace(v.client_name) /\ u.intro = TrimSpace(v.intro)
        /\ u.products = Kept(v.products)[Len(v.products)]
    BY NormalizedFields
  <1>2. TrimSpace(u.client_name) = u.client_name /\ TrimSpace(u.intro) = u.intro
    BY <1>1, NormalizedFields, TrimFacts
  <1>3. u.products \in Seq(Product)
    BY <1>1 DEF CustomerView
  <1>4. \A i \in 1 .. Len(u.products) :
          TrimProduct(u.products[i]) = u.products[i] /\ Listed(u.products[i])
    <2> HIDE DEF u
    <2> SUFFICES ASSUME NEW i \in 1 .. Len(u.products)
                 PROVE  TrimProduct(u.products[i]) = u.products[i] /\ Listed(u.products[i])
      OBVIOUS
    <2>1. PICK k \in 1 .. Len(v.products) :
            u.products[i] = TrimProduct(v.products[k]) /\ Listed(u.products[i])
      BY <1>1, NormalizedFields, KeptList
    <2>2. v.products[k] \in Product
      BY NormalizedFields
    <2> QED
      BY <2>1, <2>2, TrimmedFields
  <1>5. Kept(u.products)[Len(u.products)] = u.products
    BY <1>3, <1>4, KeptAsItIs
  <1> HIDE DEF u
  <1>6. normalize(u) = u
    BY <1>1, <1>2, <1>5 DEF normalize, CustomerView
  <1> QED
    BY <1>6 DEF u
-----------------------------------------------------------------------------
\* The list of ignored keys belongs to the request, from the decoding on; only
\* the answer to an accepted push has it.
IgnoredOK ==
    /\ pc \in {"validate", "upsert"} => ignored = ignoredFields(request)
    /\ pc = "answered" /\ reply.status = 200 => reply.ignored = ignoredFields(request)

\* The statuses of the errors of Ingest.
LEMMA ErrorStatus == \A e : mapIngestError(e)[1] # 200
  BY DEF mapIngestError

\* Every answer but that of Upsert is an error.
LEMMA RejectKeeps ==
    ASSUME NEW status \in Int, NEW code, status # 200, Reject(status, code)
    PROVE  IgnoredOK'
  BY DEF Reject, Goto, IgnoredOK

\* IgnoredOK is inductive.
LEMMA WebhookNextInv == IgnoredOK /\ [Next]_vars => IgnoredOK'
  <1> SUFFICES ASSUME IgnoredOK, [Next]_vars PROVE IgnoredOK'
    OBVIOUS
  <1>1. CASE UNCHANGED vars
    BY <1>1 DEF vars, IgnoredOK
  <1>2. CASE (\E r \in Requests : Receive(r)) \/ Finish
    BY <1>2 DEF Receive, Finish, Pass, Goto, IgnoredOK
  <1>3. CASE Authenticate
    <2>1. CASE Pass("auth", "read")
      BY <2>1 DEF Pass, Goto, IgnoredOK
    <2> QED
      BY <1>3, <2>1, RejectKeeps DEF Authenticate
  <1>4. CASE ReadBody
    <2>1. CASE Pass("read", "decode")
      BY <2>1 DEF Pass, Goto, IgnoredOK
    <2>2. CASE Reject(413, "payload_too_large")
      BY <2>2 DEF Reject, Goto, IgnoredOK
    <2>3. CASE Reject(400, "invalid_payload")
      BY <2>3 DEF Reject, Goto, IgnoredOK
    <2> QED
      BY <1>4, <2>1, <2>2, <2>3 DEF ReadBody
  <1>5. CASE Decode
    <2>1. CASE Pass("decode", "validate") /\ ignored' = ignoredFields(request) /\ request' = request
      BY <2>1 DEF Pass, Goto, IgnoredOK
    <2> QED
      BY <1>5, <2>1, RejectKeeps DEF Decode
  <1>6. CASE Check
    <2>1. CASE Pass("validate", "upsert") /\ UNCHANGED <<request, ignored>>
      BY <2>1 DEF Pass, Goto, IgnoredOK
    <2>2. ASSUME NEW e, Reject(mapIngestError(e)[1], mapIngestError(e)[2]) PROVE IgnoredOK'
      BY <2>2, ErrorStatus DEF Reject, Goto, IgnoredOK
    <2> QED
      BY <1>6, <2>1, <2>2 DEF Check
  <1>7. CASE Upsert
    <2>1. pc = "upsert" /\ pc' = "answered" /\ request' = request
      BY <1>7 DEF Upsert, Goto
    <2>2. ignored = ignoredFields(request)
      BY <2>1 DEF IgnoredOK
    <2>3. reply'.status = 200 => reply'.ignored = ignored
      BY <1>7, ErrorStatus DEF Upsert
    <2> QED
      BY <2>1, <2>2, <2>3 DEF IgnoredOK
  <1> QED
    BY <1>1, <1>2, <1>3, <1>4, <1>5, <1>6, <1>7 DEF Next
-----------------------------------------------------------------------------
\* The view is one that was decoded, then one that was checked and normalized;
\* the store is handed no other.
Storable(v) == v \in CustomerView /\ Sound(v) /\ normalize(v) = v

ViewOK ==
    /\ pc # "idle" => request \in Requests
    /\ pc = "validate" => view \in CustomerView
    /\ pc = "upsert" => Storable(view)
    /\ handed # NoView => Storable(handed)

\* Steps that leave the view and the store alone and go to an earlier place, or
\* to the answer.
LEMMA ElsewhereKeeps ==
    ASSUME ViewOK, pc # "idle", pc' \notin {"validate", "upsert"},
           UNCHANGED <<request, handed>>
    PROVE  ViewOK'
  BY DEF ViewOK, Storable, Sound

\* ViewOK is inductive.
LEMMA ViewNextInv == ViewOK /\ [Next]_vars => ViewOK'
  <1> SUFFICES ASSUME ViewOK, [Next]_vars PROVE ViewOK'
    OBVIOUS
  <1>1. CASE UNCHANGED vars
    BY <1>1 DEF vars, ViewOK, Storable, Sound
  <1>2. ASSUME NEW r \in Requests, Receive(r) PROVE ViewOK'
    BY <1>2 DEF Receive, Pass, Goto, ViewOK
  <1>3. CASE Authenticate \/ ReadBody
    BY <1>3, ElsewhereKeeps DEF Authenticate, ReadBody, Pass, Goto, Reject
  <1>4. CASE Decode
    <2>1. CASE Pass("decode", "validate") /\ view' = request.view /\ UNCHANGED <<request, handed>>
      <3>1. request.view \in CustomerView
        BY <2>1, RequestsAssumption DEF ViewOK, Pass, Request
      <3> QED
        BY <2>1, <3>1 DEF Pass, Goto, ViewOK
    <2>2. CASE pc = "decode" /\ Reject(400, "invalid_payload")
      BY <2>2, ElsewhereKeeps DEF Reject, Goto
    <2> QED
      BY <1>4, <2>1, <2>2 DEF Decode
  <1>5. CASE Check
    <2>1. CASE /\ Pass("validate", "upsert") /\ Validate(view) = "none"
               /\ view' = normalize(view) /\ UNCHANGED <<request, handed>>
      <3>1. view \in CustomerView
        BY <2>1 DEF ViewOK, Pass
      <3>2. Storable(normalize(view))
        BY <2>1, <3>1, NormalizedIsSound, NormalizedAgain, NormalizedFields DEF Storable
      <3> QED
        BY <2>1, <3>2 DEF Pass, Goto, ViewOK
    <2>2. ASSUME NEW e, pc = "validate", Reject(e[1], e[2]) PROVE ViewOK'
      BY <2>2, ElsewhereKeeps DEF Reject, Goto
    <2> QED
      BY <1>5, <2>1, <2>2 DEF Check
  <1>6. CASE Upsert
    <2>1. pc = "upsert" /\ pc' = "answered" /\ handed' = view /\ UNCHANGED request
      BY <1>6 DEF Upsert, Goto
    <2> QED
      BY <2>1 DEF ViewOK
  <1>7. CASE Finish
    BY <1>7 DEF Finish, Pass, Goto, ViewOK
  <1> QED
    BY <1>1, <1>2, <1>3, <1>4, <1>5, <1>6, <1>7 DEF Next

\* ViewOK holds of every request.
THEOREM ViewInvariance == Spec => []ViewOK
  <1>1. Init => ViewOK
    BY DEF Init, ViewOK
  <1> QED
    BY <1>1, ViewNextInv, PTL DEF Spec

\* Whoever fails the workflow on a non-empty ignored_fields hears of every accepted
\* push with a key that bound nothing, whatever the spelling of the keys and in any
\* number of products; and such a push names each of these keys unless "products"
\* itself is spelled otherwise, when the keys of the products are not looked at.
THEOREM TyposAreReportedAlways == Spec => []TyposAreReported
  <1>1. Init => IgnoredOK
    BY DEF Init, IgnoredOK
  <1>2. ViewOK /\ IgnoredOK => TyposAreReported
    <2> SUFFICES ASSUME ViewOK, IgnoredOK, pc = "answered", reply.status = 200
                 PROVE  /\ Unbound(request) # {} => reply.ignored # {}
                        /\ request.products = "exact" => Unbound(request) \subseteq reply.ignored
      BY DEF TyposAreReported, Answered
    <2>1. reply.ignored = ignoredFields(request)
      BY DEF IgnoredOK
    <2>2. request.products \in {"exact", "folded"}
      BY RequestsAssumption DEF ViewOK, Request
    <2>3. request.products = "exact" => Unbound(request) \subseteq ignoredFields(request)
      BY DEF Unbound, ignoredFields
    <2>4. request.products = "folded" => <<0, "folded">> \in ignoredFields(request)
      BY DEF ignoredFields
    <2> QED
      BY <2>1, <2>2, <2>3, <2>4
  <1> QED
    BY <1>1, <1>2, WebhookNextInv, ViewInvariance, PTL DEF Spec

\* Who pushes a board as it was stored changes nothing: the store is handed the same
\* board, or the push is refused since the board was stored without a name or
\* without products, for texts of any size and any number of products.
THEOREM NormalizedOnceAlways == Spec => []NormalizedOnce
  <1>1. ViewOK => NormalizedOnce
    BY SoundViewIsTaken DEF ViewOK, Storable, NormalizedOnce
  <1> QED
    BY <1>1, ViewInvariance, PTL
-----------------------------------------------------------------------------
\* A push that passes all checks: the secret, the size, the JSON, the fields.
Passes(r) ==
    /\ r.secret = "right" /\ r.size = "fits" /\ r.form = "ok"
    /\ Validate(r.view) = "none"

\* Whatever the checks are worth one by one, together they guard the store: it is
\* handed the view of this request, trimmed, if the request passes all of them, and
\* nothing if it does not.  A refused push is never the server's error, and who
\* does not know the secret learns nothing of what else is wrong.
StoreIsGuarded ==
    /\ handed # NoView => Answered
    /\ Answered =>
         \/ /\ Passes(request) /\ handed = normalize(request.view)
            /\ reply.status \in {200, 500}
         \/ /\ ~Passes(request) /\ handed = NoView
            /\ reply.status \in {400, 401, 413}
            /\ reply.status = 401 <=> request.secret # "right"

\* What each check may rely on.
StagesOK ==
    /\ pc \in {"idle", "auth", "read", "decode", "validate", "upsert", "answered"}
    /\ pc \in {"read", "decode", "validate", "upsert"} => request.secret = "right"
    /\ pc \in {"decode", "validate", "upsert"} => request.size = "fits"
    /\ pc \in {"validate", "upsert"} => request.form = "ok"
    /\ pc = "validate" => view = request.view
    /\ pc = "upsert" => Passes(request) /\ view = normalize(request.view)
    /\ pc # "answered" => handed = NoView

\* The field that is blamed is that of a check, not an error of the store.
LEMMA BlamedField ==
    ASSUME NEW checks, DOMAIN checks \subseteq Nat, NEW Names, "none" \in Names,
           \A i \in DOMAIN checks : checks[i][1] \in Names
    PROVE  FirstFailure(checks) \in Names
  <1> DEFINE failing == {i \in DOMAIN checks : checks[i][2]}
  <1>1. failing # {} => Min(failing) \in failing
    BY MinIsMember
  <1> QED
    BY <1>1 DEF FirstFailure

FieldNames ==
    {"none", "category", "title", "recommendation", "specs", "rating", "highlights", "pros",
     "cons", "affiliate_link", "image_url", "customer_id", "client_name", "language",
     "products"}

\* Validate blames a field.
LEMMA ValidateBlames == \A v \in CustomerView : Validate(v) \in FieldNames
  <1> SUFFICES ASSUME NEW v \in CustomerView PROVE Validate(v) \in FieldNames
    OBVIOUS
  <1> DEFINE own == FirstFailure(ViewChecks(v))
             fault(i) == FirstFailure(ProductChecks(v.products[i]))
             faulty == {i \in DOMAIN v.products : fault(i) # "none"}
  <1>1. own \in FieldNames
    <2> DEFINE checks == ViewChecks(v)
    <2>1. DOMAIN checks \subseteq Nat /\ \A i \in DOMAIN checks : checks[i][1] \in FieldNames
      BY DEF ViewChecks, FieldNames
    <2>2. "none" \in FieldNames
      BY DEF FieldNames
    <2> HIDE DEF checks
    <2>3. FirstFailure(checks) \in FieldNames
      BY <2>1, <2>2, BlamedField
    <2> QED
      BY <2>3 DEF checks
  <1>2. ASSUME NEW i PROVE fault(i) \in FieldNames
    <2> DEFINE checks == ProductChecks(v.products[i])
    <2>1. DOMAIN checks = 1 .. 10
      BY DEF ProductChecks
    <2>3. /\ checks[1][1] = "category" /\ checks[2][1] = "title"
          /\ checks[3][1] = "recommendation" /\ checks[4][1] = "specs"
          /\ checks[5][1] = "rating" /\ checks[6][1] = "highlights"
          /\ checks[7][1] = "pros" /\ checks[8][1] = "cons"
          /\ checks[9][1] = "affiliate_link" /\ checks[10][1] = "image_url"
      BY DEF ProductChecks
    <2>2. "none" \in FieldNames
      BY DEF FieldNames
    <2> HIDE DEF checks
    <2>4. \A j \in DOMAIN checks : checks[j][1] \in FieldNames
      BY <2>1, <2>3 DEF FieldNames
    <2>5. FirstFailure(checks) \in FieldNames
      BY <2>1, <2>2, <2>4, BlamedField
    <2> QED
      BY <2>5 DEF checks
  <1>3. Validate(v) = own \/ Validate(v) = fault(Min(faulty))
    BY DEF Validate
  <1> HIDE DEF own, fault, faulty
  <1> QED
    BY <1>1, <1>2, <1>3

\* The answer to a push whose view does not pass.
LEMMA BlamedStatus ==
    ASSUME NEW v \in CustomerView, Validate(v) # "none"
    PROVE  mapIngestError(Validate(v))[1] = 400
  <1>1. Validate(v) \notin {"slug_exhausted", "busy", "aborted"}
    BY ValidateBlames DEF FieldNames
  <1> QED
    BY <1>1 DEF mapIngestError

\* A check that the request does not pass.
LEMMA RefusalKeeps ==
    ASSUME StagesOK, pc # "answered", NEW status, NEW code, Reject(status, code),
           ~Passes(request), status \in {400, 401, 413},
           status = 401 <=> request.secret # "right"
    PROVE  StagesOK' /\ StoreIsGuarded'
  <1>1. pc' = "answered" /\ UNCHANGED <<request, handed>> /\ reply'.status = status
    BY DEF Reject, Goto
  <1> QED
    BY <1>1 DEF StagesOK, StoreIsGuarded, Answered, Passes

\* A check that it passes, or the end of the request.
LEMMA StageKeeps ==
    ASSUME StagesOK', pc' # "answered"
    PROVE  StoreIsGuarded'
  BY DEF StagesOK, StoreIsGuarded, Answered

LEMMA GuardNextInv ==
    ViewOK /\ StagesOK /\ StoreIsGuarded /\ [Next]_vars => StagesOK' /\ StoreIsGuarded'
  <1> SUFFICES ASSUME ViewOK, StagesOK, StoreIsGuarded, [Next]_vars
               PROVE  StagesOK' /\ StoreIsGuarded'
    OBVIOUS
  <1>1. CASE UNCHANGED vars
    BY <1>1 DEF vars, StagesOK, StoreIsGuarded, Answered, Passes
  <1>2. CASE (\E r \in Requests : Receive(r)) \/ Finish
    BY <1>2, StageKeeps DEF Receive, Finish, Pass, Goto, StagesOK
  <1>3. CASE Authenticate
    <2>1. CASE Pass("auth", "read") /\ request.secret = "right" /\ UNCHANGED <<request, handed>>
      BY <2>1, StageKeeps DEF Pass, Goto, StagesOK
    <2>2. CASE pc = "auth" /\ request.secret # "right" /\ Reject(401, "unauthorized")
      BY <2>2, RefusalKeeps DEF Passes
    <2> QED
      BY <1>3, <2>1, <2>2 DEF Authenticate
  <1>4. CASE ReadBody
    <2>1. CASE Pass("read", "decode") /\ request.size = "fits" /\ UNCHANGED <<request, handed>>
      BY <2>1, StageKeeps DEF Pass, Goto, StagesOK
    <2>2. CASE pc = "read" /\ request.size = "too large" /\ Reject(413, "payload_too_large")
      <3>1. request.size # "fits"
        BY <2>2
      <3>2. pc = "read" /\ Reject(413, "payload_too_large")
        BY <2>2
      <3>3. ~Passes(request) /\ request.secret = "right"
        BY <3>1, <3>2 DEF Passes, StagesOK
      <3> QED
        BY <3>2, <3>3, RefusalKeeps
    <2>3. CASE pc = "read" /\ request.size = "cut off" /\ Reject(400, "invalid_payload")
      <3>1. request.size # "fits"
        BY <2>3
      <3>2. pc = "read" /\ Reject(400, "invalid_payload")
        BY <2>3
      <3>3. ~Passes(request) /\ request.secret = "right"
        BY <3>1, <3>2 DEF Passes, StagesOK
      <3> QED
        BY <3>2, <3>3, RefusalKeeps
    <2> QED
      BY <1>4, <2>1, <2>2, <2>3 DEF ReadBody
  <1>5. CASE Decode
    <2>1. CASE /\ Pass("decode", "validate") /\ request.form = "ok"
               /\ view' = request.view /\ UNCHANGED <<request, handed>>
      BY <2>1, StageKeeps DEF Pass, Goto, StagesOK
    <2>2. CASE pc = "decode" /\ request.form = "malformed" /\ Reject(400, "invalid_payload")
      BY <2>2, RefusalKeeps DEF Passes, StagesOK
    <2> QED
      BY <1>5, <2>1, <2>2 DEF Decode
  <1>6. CASE Check
    <2>1. CASE /\ Pass("validate", "upsert") /\ Validate(view) = "none"
               /\ view' = normalize(view) /\ UNCHANGED <<request, handed>>
      <3>1. pc = "validate" /\ view = request.view
        BY <2>1 DEF Pass, StagesOK
      <3>2. Passes(request)
        BY <2>1, <3>1 DEF StagesOK, Passes
      <3>3. StagesOK' /\ pc' # "answered"
        BY <2>1, <3>1, <3>2 DEF Pass, Goto, StagesOK, Passes
      <3> QED
        BY <3>3, StageKeeps
    <2>2. ASSUME pc = "validate", Validate(view) # "none",
                 Reject(mapIngestError(Validate(view))[1], mapIngestError(Validate(view))[2])
          PROVE  StagesOK' /\ StoreIsGuarded'
      <3>1. view = request.view /\ view \in CustomerView /\ request.secret = "right"
        BY <2>2 DEF StagesOK, ViewOK
      <3>2. mapIngestError(Validate(view))[1] = 400
        BY <2>2, <3>1, BlamedStatus
      <3>3. ~Passes(request)
        BY <2>2, <3>1 DEF Passes
      <3> QED
        BY <2>2, <3>1, <3>2, <3>3, RefusalKeeps
    <2> QED
      BY <1>6, <2>1, <2>2 DEF Check
  <1>7. CASE Upsert
    <2>1. /\ pc = "upsert" /\ pc' = "answered" /\ handed' = view /\ UNCHANGED request
          /\ reply'.status \in {200, 500}
      BY <1>7 DEF Upsert, Goto, mapIngestError, isURLField
    <2> QED
      BY <2>1 DEF StagesOK, StoreIsGuarded, Answered, Passes
  <1> QED
    BY <1>1, <1>2, <1>3, <1>4, <1>5, <1>6, <1>7 DEF Next

\* The store is handed exactly the pushes that pass every check, each as its own
\* request brought it, whatever requests come.
THEOREM StoreIsGuardedAlways == Spec => []StoreIsGuarded
  <1>1. Init => StagesOK /\ StoreIsGuarded
    BY DEF Init, StagesOK, StoreIsGuarded, Answered
  <1> QED
    BY <1>1, GuardNextInv, ViewInvariance, PTL DEF Spec
-----------------------------------------------------------------------------
\* What reaches the store keeps every limit of Validate, although the checks come
\* before the trimming, and has every product that is more than blanks, for texts of
\* any size and any number of products.  What the trimming may leave of the required
\* parts is said in the property: no name for one of blanks, no products if all of
\* them were.
THEOREM StoredViewIsSoundAlways == Spec => []StoredViewIsSound
  <1>1. ViewOK /\ StagesOK /\ StoreIsGuarded => StoredViewIsSound
    <2> SUFFICES ASSUME ViewOK, StoreIsGuarded, handed # NoView PROVE StoredViewIsSound
      BY DEF StoredViewIsSound
    <2> DEFINE v == request.view
    <2>1. Sound(handed) /\ handed = normalize(v)
      BY DEF ViewOK, Storable, StoreIsGuarded, Answered
    <2>2. v \in CustomerView
      BY RequestsAssumption DEF ViewOK, StoreIsGuarded, Answered, Request
    <2> HIDE DEF v
    <2>3. handed.client_name = TrimSpace(v.client_name)
      BY <2>1, <2>2, NormalizedFields
    <2>4. /\ handed.products \in Seq(Product) /\ v.products \in Seq(Product)
          /\ \A i \in 1 .. Len(v.products) :
                Listed(TrimProduct(v.products[i])) =>
                  \E j \in 1 .. Len(handed.products) :
                     handed.products[j] = TrimProduct(v.products[i])
      <3> DEFINE list == v.products
                 ps == Kept(list)[Len(list)]
      <3>1. handed.products = ps /\ v.products \in Seq(Product)
        BY <2>1, <2>2, NormalizedFields
      <3>2. /\ ps \in Seq(Product)
            /\ \A i \in 1 .. Len(v.products) :
                  Listed(TrimProduct(v.products[i])) =>
                    \E j \in 1 .. Len(ps) : ps[j] = TrimProduct(v.products[i])
        <4>1. list \in Seq(Product) /\ ps = Kept(list)[Len(list)]
          BY <3>1
        <4> HIDE DEF ps, list
        <4>2. /\ ps \in Seq(Product)
              /\ \A i \in 1 .. Len(list) :
                    Listed(TrimProduct(list[i])) => \E j \in 1 .. Len(ps) : ps[j] = TrimProduct(list[i])
          BY <4>1, KeptList
        <4> QED
          BY <4>2 DEF list
      <3> HIDE DEF ps
      <3> QED
        BY <3>1, <3>2
    <2>5. \A i \in DOMAIN v.products : LET p == TrimProduct(v.products[i]) IN
             Listed(p) => \E j \in DOMAIN handed.products : handed.products[j] = p
      BY <2>4
    <2> QED
      BY <2>1, <2>3, <2>5 DEF v, StoredViewIsSound, Sound, SoundProduct
  <1>2. Init => StagesOK /\ StoreIsGuarded
    BY DEF Init, StagesOK, StoreIsGuarded, Answered
  <1> QED
    BY <1>1, <1>2, GuardNextInv, ViewInvariance, PTL DEF Spec
=============================================================================
