---------------------------- MODULE OrderReviews ----------------------------
(***************************************************************************)
(* Reviews and orders together: the review service (ReviewService) on the  *)
(* tables of the order service (OrderService), with the transactions, the  *)
(* row locks and the clean-up that ReviewService sees only as the life of  *)
(* an order.                                                               *)
(***************************************************************************)
EXTENDS ReviewService

CONSTANTS
  Owners,         \* owners of restaurants
  OwnerOf,        \* the owner of the restaurant an order is placed with
  OrderRequests   \* slots for requests of the order service

VARIABLES
  stale, paid, scanned, room, broadcast,  \* as in OrderService
  orderReq        \* the order service's requests being served

service == <<stale, paid, orderReq, scanned, room, broadcast>>
jointVars == <<vars, service>>

Service == INSTANCE OrderService WITH
  req <- orderReq, Requests <- OrderRequests

\* What OrderService assumes of its users.
ASSUME RolesOfUsers ==
  /\ Clients \cap Owners = {}
  /\ Clients \cap Drivers = {}
  /\ Owners \cap Drivers = {}

ASSUME OwnersOfOrders == OwnerOf \in [Orders -> Owners]

ASSUME NoneIsNobody == None \notin Service!Users \cup Service!OrderStatus

JointInit == Init /\ Service!Init

\* The order whose key the next statement of a request writes.
KeyWritten(q) ==
  CASE q.pc = "single" -> q.order
    [] q.pc = "diffed" /\ "order" \in q.diff -> q.entity.order
    [] q.pc = "inserting" -> q.entity.order
    [] OTHER -> None

\* A statement that writes the key of an order checks the foreign key and waits
\* for whoever has locked the order's row: an edit before its commit, or the
\* scan of the clean-up. The others read snapshots or lock the review alone.
ReviewStep(r) ==
  LET o == KeyWritten(req[r]) IN
  /\ Serve(r) \/ ((o # None => Service!Free(o)) /\ Write(r))
  /\ UNCHANGED service

\* When the DELETE of the clean-up commits, reviews lose the order's key.
OrderStep ==
  /\ Service!Next
  /\ review' = [v \in Reviews |-> Unlinked(review[v])]
  /\ UNCHANGED <<req, strayed>>

JointNext == OrderStep \/ \E r \in Requests : ReviewStep(r)

JointSpec == JointInit /\ [][JointNext]_jointVars

-----------------------------------------------------------------------------
\* What ReviewService takes for the life of an order is what the order service
\* does to its rows, with transactions in flight, under locks and in the
\* clean-up: beside it reviews take no step they would not take alone.
ImplementsReviews == Spec

=============================================================================
