--------------------------- MODULE MCOrderService ---------------------------
(***************************************************************************)
(* Instances of OrderService for TLC. Every order is placed by the same    *)
(* client with the same restaurant: who may touch which order is decided   *)
(* by equality with these two users only.                                  *)
(***************************************************************************)
EXTENDS OrderService, TLC

CONSTANTS client, owner

MCClients == {client}
MCOwners == {owner}
MCCustomerOf == [o \in Orders |-> client]
MCOwnerOf == [o \in Orders |-> owner]

\* Drivers and request slots are interchangeable.
DriversAndRequests == Permutations(Drivers) \cup Permutations(Requests)

\* Orders are interchangeable too, once they have the same parties.
OrdersAndRequests == Permutations(Orders) \cup Permutations(Requests)

=============================================================================
