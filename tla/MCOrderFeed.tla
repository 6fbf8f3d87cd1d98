---------------------------- MODULE MCOrderFeed ----------------------------
(***************************************************************************)
(* One order, two requests served by one task, and one socket that may     *)
(* act for anybody and connects to this task or to another. With a driver  *)
(* the states are too many; OrderProofs has the properties for any number  *)
(* of drivers, tasks and sockets.                                          *)
(***************************************************************************)
EXTENDS OrderFeed, TLC

CONSTANTS client, owner, r1, r2, o1, k1, t1, t2

MCClients == {client}
MCOwners == {owner}
MCCustomerOf == [o \in Orders |-> client]
MCOwnerOf == [o \in Orders |-> owner]
MCServedOn == [r \in Requests |-> t1]

RequestsAlike == Permutations(Requests)
=============================================================================
