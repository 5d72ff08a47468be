----------------------------- MODULE MCVitrine -----------------------------
(***************************************************************************)
(* Instances of Vitrine for TLC.                                           *)
(***************************************************************************)
EXTENDS Vitrine, TLC

Interchangeable ==
    Permutations(Handlers) \cup Permutations(Customers) \cup Permutations(Slugs)
=============================================================================
