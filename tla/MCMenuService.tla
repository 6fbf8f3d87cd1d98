--------------------------- MODULE MCMenuService ---------------------------
(***************************************************************************)
(* Instances of MenuService for TLC: one restaurant and one dish, so that  *)
(* a fee and a price change independently, and a cart of two items that    *)
(* names the option of the dish twice and not at all.                      *)
(***************************************************************************)
EXTENDS MenuService, TLC

CONSTANT owner

\* A body that deletes a restaurant, and one that brings a dish back.
MCShopDrafts ==
  {[fee |-> 1, name |-> CHOOSE n \in Names : TRUE, owner |-> owner,
    deleted |-> TRUE]}
MCDishDrafts ==
  {[price |-> 1, extra |-> 1, home |-> s, deleted |-> FALSE] : s \in Restaurants}

ItemOf(d, n) == [dish |-> d, picks |-> n]
MCCarts == {<<ItemOf(d, 2), ItemOf(d, 0)>> : d \in Dishes}

RequestsAlike == Permutations(Requests)

=============================================================================
