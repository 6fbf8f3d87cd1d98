--------------------------- MODULE MCOrderReviews ---------------------------
(***************************************************************************)
(* An instance of OrderReviews for TLC. The orders are one client's with   *)
(* one restaurant; another client tries to take part. Bodies that name     *)
(* other columns take a review from its order and author, insert one that  *)
(* has neither, or bring a deleted one back.                               *)
(***************************************************************************)
EXTENDS OrderReviews, TLC

CONSTANTS client, stranger, restaurant, owner

MCClients == {client, stranger}
MCOwners == {owner}
MCCustomerOf == [o \in Orders |-> client]
MCRestaurantOf == [o \in Orders |-> restaurant]
MCOwnerOf == [o \in Orders |-> owner]

MCDrafts ==
  [order : {None}, client : {None}, restaurant : {restaurant},
   content : Contents, deleted : {FALSE}]

\* Keys of reviews and request slots are interchangeable.
ReviewsAndRequests == Permutations(Reviews) \cup Permutations(Requests)

=============================================================================
