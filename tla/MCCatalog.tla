----------------------------- MODULE MCCatalog -----------------------------
(***************************************************************************)
(* Three names of which two make one slug, two categories, three           *)
(* restaurants, one caller.                                                *)
(***************************************************************************)
EXTENDS Catalog, TLC

CONSTANTS r1, r2, q1, k1, k2, chicken, chickenSpaced, pizza

MCSlugOf == [n \in Names |-> IF n = pizza THEN "pizza" ELSE "chicken"]

\* Slots, ids and names of one slug are interchangeable.
Alike ==
  Permutations(Requests) \cup Permutations(Categories)
    \cup Permutations({chicken, chickenSpaced})

=============================================================================
