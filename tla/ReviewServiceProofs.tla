------------------------ MODULE ReviewServiceProofs ------------------------
(***************************************************************************)
(* Proofs about ReviewService, for any number of orders, reviews and       *)
(* concurrent requests.                                                    *)
(*                                                                         *)
(* A review and its order stay together because of two components: reviews *)
(* are written of delivered orders only, and an order that has been        *)
(* delivered keeps a driver and never becomes Pending again, so the        *)
(* clean-up never deletes it and its foreign key never fires. That is said *)
(* of reviews that no body has named with other columns than the content;  *)
(* of the others it is known that the index and the foreign key hold.      *)
(*                                                                         *)
(* The last section puts both services together: what OrderProofs knows of *)
(* a step of the order service makes it a step of ReviewService.           *)
(***************************************************************************)
EXTENDS OrderReviews, TLAPS

\* Records of requests.
LEMMA AtType ==
  ASSUME NEW pc \in PCs, NEW o \in Orders \cup {None},
         NEW v \in Reviews \cup {None}, NEW x \in Row \cup {None},
         NEW diff \in SUBSET Columns
  PROVE  /\ At(pc, o, v, x, diff) \in Request
         /\ At(pc, o, v, x, diff).pc = pc
         /\ At(pc, o, v, x, diff).order = o
         /\ At(pc, o, v, x, diff).review = v
         /\ At(pc, o, v, x, diff).entity = x
BY DEF At, Request

LEMMA IdleType == Idle \in Request /\ Idle.pc = "idle"
BY AtType DEF Idle, PCs

\* Rows of reviews.
LEMMA RowType ==
  ASSUME NEW o \in Orders \cup {None}, NEW c \in Clients \cup {None},
         NEW s \in Restaurants \cup {None}, NEW x \in Contents,
         NEW gone \in BOOLEAN
  PROVE  [order |-> o, client |-> c, restaurant |-> s, content |-> x,
          deleted |-> gone] \in Row
BY DEF Row

\* One request changes, no row of a review goes away, and the orders and
\* authors of those that have not strayed stay as they are.
Others(r) == \A q \in Requests : q # r => req'[q] = req[q]
RowsKept ==
  \A v \in Reviews :
    Stored(v) => /\ Stored(v)'
                 /\ v \notin strayed =>
                      /\ review'[v].order = review[v].order
                      /\ review'[v].client = review[v].client

\* What is known of the rows.
Tables == OrdersExist /\ OneReviewPerOrder /\ ReviewKeepsOrder

LEMMA LastingKept ==
  ASSUME NEW o, UNCHANGED <<status, driver>>, Lasting(o)
  PROVE  Lasting(o)'
BY DEF Lasting, Life!Active

LEMMA SameRows ==
  ASSUME IInv, UNCHANGED <<status, driver, review>>, strayed \subseteq strayed'
  PROVE  Tables' /\ RowsKept
<1>1. OneReviewPerOrder' /\ OrdersExist' /\ RowsKept
  BY DEF IInv, OneReviewPerOrder, OrdersExist, Placed, Stored, RowsKept
<1>2. ReviewKeepsOrder'
  <2> SUFFICES ASSUME NEW v \in Reviews \ strayed', Stored(v)'
               PROVE  /\ review'[v].order # None
                      /\ Lasting(review[v].order)'
                      /\ review'[v].client = CustomerOf[review'[v].order]
    BY DEF ReviewKeepsOrder
  <2>1. /\ review[v].order # None /\ Lasting(review[v].order)
        /\ review[v].client = CustomerOf[review[v].order]
    BY DEF IInv, ReviewKeepsOrder, Stored
  <2> QED
    BY <2>1 DEF Lasting, Life!Active
<1> QED
  BY <1>1, <1>2 DEF Tables

\* What a step of request r has to establish.
LEMMA RequestStep ==
  ASSUME IInv, NEW r \in Requests, UNCHANGED <<status, driver>>, TypeOK',
         Others(r), RowsKept, strayed \subseteq strayed', InFlight(r)', Tables'
  PROVE  IInv'
<1>1. ASSUME NEW q \in Requests PROVE InFlight(q)'
  <2>1. CASE q = r
    BY <2>1
  <2>2. CASE q # r
    <3>1. InFlight(q) /\ req'[q] = req[q] /\ req[q] \in Request
      BY <2>2 DEF Others, IInv, TypeOK
    <3> QED
      BY <3>1, LastingKept DEF InFlight, RowsKept, Request
  <2> QED
    BY <2>1, <2>2
<1>2. DriverOfDelivered'
  BY DEF IInv, DriverOfDelivered
<1> QED
  BY <1>1, <1>2 DEF IInv, Tables

LEMMA InitCorrect == Init => IInv
<1> SUFFICES ASSUME Init PROVE IInv
  OBVIOUS
<1>1. TypeOK
  BY IdleType DEF Init, TypeOK, Life!Init, Statuses
<1>2. \A r \in Requests : InFlight(r)
  BY IdleType DEF Init, InFlight
<1>3. DriverOfDelivered /\ OrdersExist /\ OneReviewPerOrder /\ ReviewKeepsOrder
  BY DEF Init, Life!Init, DriverOfDelivered, OrdersExist, OneReviewPerOrder,
         ReviewKeepsOrder, Stored
<1> QED
  BY <1>1, <1>2, <1>3 DEF IInv

\* The life of orders: an order that has been delivered keeps a driver and is
\* never deleted.
LEMMA LifeStep ==
  ASSUME TypeOK, DriverOfDelivered, Life!Next
  PROVE  /\ status' \in [Orders -> Statuses]
         /\ driver' \in [Orders -> Drivers \cup {None}]
         /\ DriverOfDelivered'
         /\ \A o \in Orders : Lasting(o) => Lasting(o)'
         /\ \A o \in Orders : Placed(o) => status'[o] # "Unplaced"
<1> USE NoneIsNew DEF TypeOK, DriverOfDelivered, Lasting, Life!Active, Statuses,
                      Placed
<1>1. ASSUME NEW o \in Orders, Life!Place(o)
      PROVE  /\ status' \in [Orders -> Statuses]
             /\ driver' \in [Orders -> Drivers \cup {None}]
             /\ DriverOfDelivered'
             /\ \A p \in Orders : Lasting(p) => Lasting(p)'
             /\ \A p \in Orders : Placed(p) => status'[p] # "Unplaced"
  BY <1>1 DEF Life!Place
<1>2. ASSUME NEW o \in Orders, NEW s \in {"Cooking", "Cooked"}, Life!Cook(o, s)
      PROVE  /\ status' \in [Orders -> Statuses]
             /\ driver' \in [Orders -> Drivers \cup {None}]
             /\ DriverOfDelivered'
             /\ \A p \in Orders : Lasting(p) => Lasting(p)'
             /\ \A p \in Orders : Placed(p) => status'[p] # "Unplaced"
  BY <1>2 DEF Life!Cook
<1>3. ASSUME NEW o \in Orders, NEW d \in Drivers, Life!PickUp(o, d)
      PROVE  /\ status' \in [Orders -> Statuses]
             /\ driver' \in [Orders -> Drivers \cup {None}]
             /\ DriverOfDelivered'
             /\ \A p \in Orders : Lasting(p) => Lasting(p)'
             /\ \A p \in Orders : Placed(p) => status'[p] # "Unplaced"
  BY <1>3 DEF Life!PickUp
<1>4. ASSUME NEW o \in Orders, NEW d \in Drivers, Life!Reassign(o, d)
      PROVE  /\ status' \in [Orders -> Statuses]
             /\ driver' \in [Orders -> Drivers \cup {None}]
             /\ DriverOfDelivered'
             /\ \A p \in Orders : Lasting(p) => Lasting(p)'
             /\ \A p \in Orders : Placed(p) => status'[p] # "Unplaced"
  BY <1>4 DEF Life!Reassign
<1>5. ASSUME NEW o \in Orders, NEW s \in {"PickedUp", "Delivered"},
             Life!Ride(o, s)
      PROVE  /\ status' \in [Orders -> Statuses]
             /\ driver' \in [Orders -> Drivers \cup {None}]
             /\ DriverOfDelivered'
             /\ \A p \in Orders : Lasting(p) => Lasting(p)'
             /\ \A p \in Orders : Placed(p) => status'[p] # "Unplaced"
  BY <1>5 DEF Life!Ride
<1>6. ASSUME NEW gone \in SUBSET Orders, Life!Expire(gone)
      PROVE  /\ status' \in [Orders -> Statuses]
             /\ driver' \in [Orders -> Drivers \cup {None}]
             /\ DriverOfDelivered'
             /\ \A p \in Orders : Lasting(p) => Lasting(p)'
             /\ \A p \in Orders : Placed(p) => status'[p] # "Unplaced"
  BY <1>6 DEF Life!Expire
<1> QED
  BY <1>1, <1>2, <1>3, <1>4, <1>5, <1>6 DEF Life!Next

\* The foreign key unlinks no review but such that have strayed.
LEMMA Unlinks ==
  ASSUME IInv, OrderMoves, NEW v \in Reviews
  PROVE  /\ review'[v] = Unlinked(review[v])
         /\ v \notin strayed => Unlinked(review[v]) = review[v]
         /\ Stored(v) => /\ Unlinked(review[v]) \in Row
                         /\ Unlinked(review[v]).client = review[v].client
                         /\ \/ Unlinked(review[v]).order = None
                            \/ /\ Unlinked(review[v]) = review[v]
                               /\ status'[review[v].order] # "Deleted"
<1>1. review'[v] = Unlinked(review[v])
  BY DEF OrderMoves
<1>2. CASE ~ Stored(v)
  BY <1>1, <1>2 DEF Stored, Unlinked
<1>3. CASE Stored(v)
  <2>1. review[v] \in Row /\ review[v] # None
    BY <1>3 DEF IInv, TypeOK, Stored
  <2>2. ASSUME v \notin strayed PROVE Unlinked(review[v]) = review[v]
    <3>1. PICK o \in Orders : o = review[v].order /\ Lasting(o)
      BY <1>3, <2>1, <2>2 DEF IInv, ReviewKeepsOrder, Row
    <3>2. Lasting(o)'
      BY <3>1, LifeStep DEF IInv, OrderMoves
    <3>3. status'[review[v].order] # "Deleted"
      BY <3>1, <3>2 DEF Lasting, Life!Active
    <3> QED
      BY <3>3 DEF Unlinked
  <2>3. /\ Unlinked(review[v]) \in Row
        /\ Unlinked(review[v]).client = review[v].client
        /\ \/ Unlinked(review[v]).order = None
           \/ /\ Unlinked(review[v]) = review[v]
              /\ status'[review[v].order] # "Deleted"
    BY <2>1 DEF Unlinked, Row
  <2> QED
    BY <1>1, <2>2, <2>3
<1> QED
  BY <1>2, <1>3

LEMMA OrderMovesStep ==
  ASSUME IInv, OrderMoves
  PROVE  IInv'
<1>1. UNCHANGED <<req, strayed>>
  BY DEF OrderMoves
<1>2. /\ status' \in [Orders -> Statuses]
      /\ driver' \in [Orders -> Drivers \cup {None}]
      /\ DriverOfDelivered'
      /\ \A o \in Orders : Lasting(o) => Lasting(o)'
      /\ \A o \in Orders : Placed(o) => status'[o] # "Unplaced"
  BY LifeStep DEF IInv, OrderMoves
<1>3. ASSUME NEW v \in Reviews
      PROVE  /\ Stored(v)' <=> Stored(v)
             /\ v \notin strayed => review'[v] = review[v]
             /\ Stored(v) => \/ review'[v].order = None
                             \/ /\ review'[v] = review[v]
                                /\ status'[review[v].order] # "Deleted"
  <2>1. ~ Stored(v) => Unlinked(review[v]) = None
    BY DEF Stored, Unlinked
  <2> QED
    BY <2>1, Unlinks, NoneIsNew DEF Stored
<1>4. TypeOK'
  <2>1. \A v \in Reviews : Unlinked(review[v]) \in Row \cup {None}
    BY Unlinks DEF Stored, Unlinked
  <2>2. review' = [v \in Reviews |-> Unlinked(review[v])]
    BY DEF OrderMoves
  <2>3. review' \in [Reviews -> Row \cup {None}]
    BY <2>1, <2>2
  <2> QED
    BY <1>1, <1>2, <2>3 DEF IInv, TypeOK
<1>5. ASSUME NEW r \in Requests PROVE InFlight(r)'
  <2>1. InFlight(r) /\ req[r] \in Request
    BY DEF IInv, TypeOK
  <2> QED
    BY <1>1, <1>2, <1>3, <2>1 DEF InFlight, Request
<1>6. OneReviewPerOrder'
  BY <1>3 DEF IInv, OneReviewPerOrder
<1>7. OrdersExist'
  <2> SUFFICES ASSUME NEW v \in Reviews, Stored(v)', review'[v].order # None
               PROVE  Placed(review[v].order)'
    BY DEF OrdersExist
  <2>1. /\ Stored(v) /\ review'[v] = review[v]
        /\ status'[review[v].order] # "Deleted"
    BY <1>3
  <2>2. review[v].order \in Orders /\ Placed(review[v].order)
    BY <2>1 DEF IInv, OrdersExist, TypeOK, Stored, Row
  <2> QED
    BY <1>2, <2>1, <2>2 DEF Placed
<1>8. ReviewKeepsOrder'
  <2> SUFFICES ASSUME NEW v \in Reviews \ strayed, Stored(v)'
               PROVE  /\ review'[v].order # None
                      /\ Lasting(review[v].order)'
                      /\ review'[v].client = CustomerOf[review'[v].order]
    BY <1>1 DEF ReviewKeepsOrder
  <2>1. Stored(v) /\ review'[v] = review[v]
    BY <1>3
  <2>2. /\ review[v].order \in Orders /\ Lasting(review[v].order)
        /\ review[v].order # None
        /\ review[v].client = CustomerOf[review[v].order]
    BY <2>1 DEF IInv, ReviewKeepsOrder, TypeOK, Stored, Row
  <2>3. Lasting(review[v].order)'
    <3>1. PICK o \in Orders : o = review[v].order /\ Lasting(o)
      BY <2>2
    <3> QED
      BY <1>2, <2>1, <3>1
  <2> QED
    BY <2>1, <2>2, <2>3
<1> QED
  BY <1>2, <1>4, <1>5, <1>6, <1>7, <1>8 DEF IInv

\* A request that moves on to a record q and leaves the tables alone.
LEMMA MoveStep ==
  ASSUME IInv, NEW r \in Requests, NEW q \in Request,
         req' = [req EXCEPT ![r] = q], UNCHANGED <<status, driver, review>>,
         strayed \subseteq strayed', strayed' \subseteq Reviews, InFlight(r)'
  PROVE  IInv'
<1>1. TypeOK' /\ Others(r)
  BY DEF IInv, TypeOK, Others
<1> QED
  BY <1>1, SameRows, RequestStep

LEMMA QuietEndStep ==
  ASSUME IInv, NEW r \in Requests, Ends(r),
         UNCHANGED <<status, driver, review, strayed>>
  PROVE  IInv'
<1>1. Idle \in Request /\ req' = [req EXCEPT ![r] = Idle] /\ req'[r] = Idle
  BY IdleType DEF Ends, IInv, TypeOK
<1>2. InFlight(r)'
  BY <1>1, IdleType DEF InFlight
<1> QED
  BY <1>1, <1>2, MoveStep DEF IInv, TypeOK

\* A request that ends with a statement by which row v becomes new. The
\* database lets it pass, and unless the review has strayed it keeps its order
\* and author, or has those of a delivered order.
LEMMA WriteStep ==
  ASSUME IInv, NEW r \in Requests, NEW v \in Reviews, NEW new \in Row,
         review' = [review EXCEPT ![v] = new], Linkable(v, new.order),
         v \notin strayed =>
           /\ new.order # None /\ Lasting(new.order)
           /\ new.client = CustomerOf[new.order]
           /\ Stored(v) => /\ new.order = review[v].order
                           /\ new.client = review[v].client,
         Ends(r), UNCHANGED <<status, driver, strayed>>
  PROVE  IInv'
<1>1. /\ TypeOK' /\ Others(r) /\ req'[r] = Idle
      /\ review'[v] = new /\ new # None
      /\ \A w \in Reviews : w # v => review'[w] = review[w]
  BY IdleType, NoneIsNew DEF IInv, TypeOK, Others, Ends
<1>2. RowsKept
  BY <1>1 DEF RowsKept, Stored
<1>3. OneReviewPerOrder'
  BY <1>1 DEF IInv, OneReviewPerOrder, Linkable, Stored
<1>4. OrdersExist'
  BY <1>1 DEF IInv, OrdersExist, Linkable, Placed, Stored
<1>5. ReviewKeepsOrder'
  <2> SUFFICES ASSUME NEW w \in Reviews \ strayed, Stored(w)'
               PROVE  /\ review'[w].order # None
                      /\ Lasting(review[w].order)'
                      /\ review'[w].client = CustomerOf[review'[w].order]
    BY DEF ReviewKeepsOrder
  <2>1. CASE w = v
    BY <1>1, <2>1 DEF Lasting, Life!Active
  <2>2. CASE w # v
    BY <1>1, <2>2 DEF IInv, ReviewKeepsOrder, Stored, Lasting, Life!Active
  <2> QED
    BY <2>1, <2>2
<1>6. InFlight(r)'
  BY <1>1, IdleType DEF InFlight
<1> QED
  BY <1>1, <1>2, <1>3, <1>4, <1>5, <1>6, RequestStep DEF Tables

\* A row may be stored again with the order it has.
LEMMA LinkableAsIs ==
  ASSUME IInv, NEW v \in Reviews, Stored(v)
  PROVE  Linkable(v, review[v].order)
BY DEF IInv, Linkable, OrdersExist, OneReviewPerOrder

LEMMA CreateReviewStep ==
  ASSUME IInv, NEW r \in Requests, NEW c \in Clients, NEW o \in Orders,
         NEW s \in Restaurants, CreateReview(r, c, o, s)
  PROVE  IInv'
<1> DEFINE q == At("checked", o, None, None, {})
<1>1. q \in Request /\ q.pc = "checked" /\ q.order = o
  BY AtType DEF PCs
<1> HIDE DEF q
<1>2. req' = [req EXCEPT ![r] = q] /\ UNCHANGED <<status, driver, review, strayed>>
  BY DEF CreateReview, q
<1>3. req'[r] = q
  BY <1>2 DEF IInv, TypeOK
<1>4. Lasting(o)' /\ o # None
  BY <1>2, NoneIsNew DEF CreateReview, IInv, DriverOfDelivered, Lasting, Life!Active
<1>5. InFlight(r)'
  BY <1>1, <1>3, <1>4 DEF InFlight
<1> QED
  BY <1>1, <1>2, <1>5, MoveStep DEF IInv, TypeOK

LEMMA FindExistingStep ==
  ASSUME IInv, NEW r \in Requests, FindExisting(r)
  PROVE  IInv'
<1>1. PICK o \in Orders : o = req[r].order /\ Lasting(o)
  BY DEF FindExisting, IInv, InFlight, TypeOK, Request
<1> DEFINE q == At("single", o, None, None, {})
<1>2. q \in Request /\ q.pc = "single" /\ q.order = o
  BY AtType DEF PCs
<1> HIDE DEF q
<1>3. CASE Ends(r)
  BY <1>3, QuietEndStep DEF FindExisting
<1>4. CASE req' = [req EXCEPT ![r] = q]
  <2>1. UNCHANGED <<status, driver, review, strayed>> /\ req'[r] = q
    BY <1>4 DEF FindExisting, IInv, TypeOK
  <2>2. Lasting(o)' /\ o # None
    BY <1>1, <2>1, LastingKept, NoneIsNew
  <2>3. InFlight(r)'
    BY <1>2, <2>1, <2>2 DEF InFlight
  <2> QED
    BY <1>2, <1>4, <2>1, <2>3, MoveStep DEF IInv, TypeOK
<1> QED
  BY <1>1, <1>3, <1>4 DEF FindExisting, q

LEMMA SaveReviewStep ==
  ASSUME IInv, NEW r \in Requests, NEW v \in Reviews, NEW x \in Contents,
         SaveReview(r, v, x)
  PROVE  IInv'
<1>1. PICK o \in Orders : o = req[r].order /\ Lasting(o)
  BY DEF SaveReview, IInv, InFlight, TypeOK, Request
<1>2. CASE ~ Linkable(v, o)
  BY <1>1, <1>2, QuietEndStep DEF SaveReview
<1>3. CASE Linkable(v, o)
  <2> DEFINE new == [order |-> o, client |-> CustomerOf[o],
                     restaurant |-> RestaurantOf[o], content |-> x,
                     deleted |-> FALSE]
  <2>0. CustomerOf[o] \in Clients /\ RestaurantOf[o] \in Restaurants
    BY Parties
  <2>1. new \in Row /\ new.order = o /\ new.client = CustomerOf[o]
    BY <2>0, RowType
  <2>2. review' = [review EXCEPT ![v] = new]
    BY <1>1, <1>3 DEF SaveReview
  <2> HIDE DEF new
  <2>3. /\ ~ Stored(v) /\ Ends(r) /\ UNCHANGED <<status, driver, strayed>>
        /\ o # None
    BY NoneIsNew DEF SaveReview
  <2> QED
    BY <1>1, <1>3, <2>1, <2>2, <2>3, WriteStep
<1> QED
  BY <1>2, <1>3

LEMMA UpdateReviewStep ==
  ASSUME IInv, NEW r \in Requests, NEW v \in Reviews, NEW c \in Clients,
         NEW w \in Reviews, NEW new, Live(v) => new \in Row,
         UpdateReview(r, v, c, w, new)
  PROVE  IInv'
<1> DEFINE q == At("changed", None, w, new, {})
<1>1. review[v] \in Row /\ ~ review[v].deleted /\ Stored(v) /\ new \in Row
  BY DEF UpdateReview, Live, Stored, IInv, TypeOK
<1>2. "changed" \in PCs
  BY DEF PCs
<1>3. q \in Request /\ q.pc = "changed" /\ q.review = w /\ q.entity = new
  BY <1>1, <1>2, AtType
<1>4. /\ req' = [req EXCEPT ![r] = q] /\ UNCHANGED <<status, driver, review>>
      /\ strayed' = IF ContentOnly(v, w, new) THEN strayed ELSE strayed \cup {w}
  BY DEF UpdateReview
<1> HIDE DEF q
<1>5. req'[r] = q
  BY <1>4 DEF IInv, TypeOK
<1>6. w \notin strayed' =>
        /\ Stored(w) /\ ~ new.deleted
        /\ new.order = review[w].order /\ new.client = review[w].client
  <2>1. CASE ContentOnly(v, w, new)
    BY <1>1, <2>1 DEF ContentOnly, Row
  <2>2. CASE ~ ContentOnly(v, w, new)
    BY <1>4, <2>2
  <2> QED
    BY <2>1, <2>2
<1>7. InFlight(r)'
  BY <1>1, <1>3, <1>4, <1>5, <1>6, NoneIsNew DEF InFlight, Stored
<1>8. strayed \subseteq strayed' /\ strayed' \subseteq Reviews
  BY <1>4 DEF IInv, TypeOK
<1> QED
  BY <1>3, <1>4, <1>7, <1>8, MoveStep

LEMMA LoadReviewStep ==
  ASSUME IInv, NEW r \in Requests, LoadReview(r)
  PROVE  IInv'
<1> DEFINE w == req[r].review
           e == req[r].entity
           d == {k \in Columns : e[k] # review[w][k]}
           q == IF Stored(w) THEN At("diffed", None, w, e, d)
                             ELSE At("inserting", None, w, e, {})
<1>1. /\ w \in Reviews /\ e \in Row /\ e # None
      /\ w \notin strayed => /\ Stored(w) /\ ~ e.deleted
                             /\ e.order = review[w].order
                             /\ e.client = review[w].client
  BY DEF LoadReview, IInv, InFlight, TypeOK, Request
<1>2. req' = [req EXCEPT ![r] = q] /\ UNCHANGED <<status, driver, review, strayed>>
  BY DEF LoadReview
<1>3. d \in SUBSET Columns
  OBVIOUS
<1> HIDE DEF d, w, e
<1>4. /\ q \in Request /\ q.review = w /\ q.entity = e
      /\ q.pc = IF Stored(w) THEN "diffed" ELSE "inserting"
  BY <1>1, <1>3, AtType DEF PCs
<1> HIDE DEF q
<1>5. req'[r] = q
  BY <1>2 DEF IInv, TypeOK
<1>6. InFlight(r)'
  <2>1. CASE Stored(w)
    BY <1>1, <1>2, <1>4, <1>5, <2>1, NoneIsNew DEF InFlight, Stored
  <2>2. CASE ~ Stored(w)
    BY <1>1, <1>2, <1>4, <1>5, <2>2, NoneIsNew DEF InFlight
  <2> QED
    BY <2>1, <2>2
<1> QED
  BY <1>2, <1>4, <1>6, MoveStep DEF IInv, TypeOK

LEMMA SaveChangesStep ==
  ASSUME IInv, NEW r \in Requests, SaveChanges(r)
  PROVE  IInv'
<1>1. PICK w \in Reviews : w = req[r].review /\ Stored(w)
  BY DEF SaveChanges, IInv, InFlight, TypeOK, Request
<1>2. review[w] \in Row /\ req[r].entity \in Row
  BY <1>1 DEF SaveChanges, Stored, IInv, InFlight, TypeOK, Request
<1> DEFINE Written(k) == IF k \in req[r].diff THEN req[r].entity[k]
                         ELSE review[w][k]
           new == [order |-> Written("order"), client |-> Written("client"),
                   restaurant |-> Written("restaurant"),
                   content |-> Written("content"),
                   deleted |-> Written("deleted")]
<1>3. /\ Written("order") \in Orders \cup {None}
      /\ Written("client") \in Clients \cup {None}
      /\ Written("restaurant") \in Restaurants \cup {None}
      /\ Written("content") \in Contents /\ Written("deleted") \in BOOLEAN
  BY <1>2 DEF Row
<1>4. w \notin strayed => /\ Written("order") = review[w].order
                          /\ Written("client") = review[w].client
  BY <1>1 DEF SaveChanges, IInv, InFlight
<1>5. /\ IF Linkable(w, Written("order"))
         THEN review' = [review EXCEPT ![w] = new] ELSE UNCHANGED review
      /\ Ends(r) /\ UNCHANGED <<status, driver, strayed>>
  BY <1>1 DEF SaveChanges
<1> HIDE DEF Written
<1>6. /\ new \in Row /\ new.order = Written("order")
      /\ new.client = Written("client")
  BY <1>3, RowType
<1> HIDE DEF new
<1>7. w \notin strayed => /\ new.order = review[w].order
                          /\ new.client = review[w].client
                          /\ new.order # None /\ Lasting(new.order)
                          /\ new.client = CustomerOf[new.order]
  BY <1>1, <1>4, <1>6 DEF IInv, ReviewKeepsOrder
<1>8. CASE Linkable(w, Written("order"))
  BY <1>5, <1>6, <1>7, <1>8, WriteStep
<1>9. CASE ~ Linkable(w, Written("order"))
  BY <1>5, <1>9, QuietEndStep
<1> QED
  BY <1>8, <1>9

LEMMA InsertEntityStep ==
  ASSUME IInv, NEW r \in Requests, InsertEntity(r)
  PROVE  IInv'
<1>1. /\ req[r].review \in Reviews /\ req[r].entity \in Row
      /\ req[r].review \in strayed
  BY DEF InsertEntity, IInv, InFlight, TypeOK, Request
<1>2. CASE ~ Stored(req[r].review) /\ Linkable(req[r].review, req[r].entity.order)
  BY <1>1, <1>2, WriteStep DEF InsertEntity
<1>3. CASE UNCHANGED review
  BY <1>3, QuietEndStep DEF InsertEntity
<1> QED
  BY <1>2, <1>3 DEF InsertEntity

LEMMA DeleteReviewStep ==
  ASSUME IInv, NEW r \in Requests, NEW v \in Reviews, NEW c \in Clients,
         DeleteReview(r, v, c)
  PROVE  IInv'
<1> DEFINE q == At("deleting", None, v, None, {})
<1>1. q \in Request /\ q.pc = "deleting" /\ q.review = v
  BY AtType DEF PCs
<1> HIDE DEF q
<1>2. /\ req' = [req EXCEPT ![r] = q]
      /\ UNCHANGED <<status, driver, review, strayed>>
      /\ Stored(v)
  BY DEF DeleteReview, Live, q
<1>3. req'[r] = q
  BY <1>2 DEF IInv, TypeOK
<1>4. InFlight(r)'
  BY <1>1, <1>2, <1>3, NoneIsNew DEF InFlight, Stored
<1> QED
  BY <1>1, <1>2, <1>4, MoveStep DEF IInv, TypeOK

LEMMA SoftDeleteStep ==
  ASSUME IInv, NEW r \in Requests, SoftDelete(r)
  PROVE  IInv'
<1>1. PICK v \in Reviews : v = req[r].review /\ Stored(v)
  BY DEF SoftDelete, IInv, InFlight, TypeOK, Request
<1> DEFINE new == [order |-> review[v].order, client |-> review[v].client,
                   restaurant |-> review[v].restaurant,
                   content |-> review[v].content, deleted |-> TRUE]
<1>2. review[v] \in Row
  BY <1>1 DEF Stored, IInv, TypeOK
<1>3. /\ new \in Row
      /\ new.order = review[v].order /\ new.client = review[v].client
  BY <1>2 DEF Row
<1>4. /\ review' = [review EXCEPT ![v] = new]
      /\ Ends(r) /\ UNCHANGED <<status, driver, strayed>>
  BY <1>1 DEF SoftDelete
<1> HIDE DEF new
<1>5. Linkable(v, new.order)
  BY <1>1, <1>3, LinkableAsIs
<1>6. v \notin strayed => /\ new.order # None /\ Lasting(new.order)
                          /\ new.client = CustomerOf[new.order]
  BY <1>1, <1>3 DEF IInv, ReviewKeepsOrder
<1> QED
  BY <1>3, <1>4, <1>5, <1>6, WriteStep

LEMMA Inductive == IInv /\ [Next]_vars => IInv'
<1> SUFFICES ASSUME IInv, [Next]_vars PROVE IInv'
  OBVIOUS
<1>1. CASE UNCHANGED vars
  BY <1>1 DEF vars, IInv, TypeOK, InFlight, Lasting, Life!Active, Stored, Placed,
              DriverOfDelivered, OrdersExist, OneReviewPerOrder, ReviewKeepsOrder
<1>2. CASE OrderMoves
  BY <1>2, OrderMovesStep
<1>3. ASSUME NEW r \in Requests, Fail(r) PROVE IInv'
  BY <1>3, QuietEndStep DEF Fail
<1>4. ASSUME NEW r \in Requests, NEW v \in Reviews, NEW c \in Clients,
             NEW x \in Contents,
             UpdateReview(r, v, c, v, [review[v] EXCEPT !.content = x])
      PROVE  IInv'
  <2>1. Live(v) => [review[v] EXCEPT !.content = x] \in Row
    BY DEF Live, Stored, IInv, TypeOK, Row
  <2> QED
    BY <1>4, <2>1, UpdateReviewStep
<1>5. ASSUME NEW r \in Requests, NEW v \in Reviews, NEW c \in Clients,
             NEW w \in Reviews, NEW new \in Drafts, UpdateReview(r, v, c, w, new)
      PROVE  IInv'
  BY <1>5, DraftsAreRows, UpdateReviewStep
<1>6. ASSUME NEW r \in Requests, Serve(r) PROVE IInv'
  BY <1>3, <1>4, <1>5, <1>6, CreateReviewStep, FindExistingStep, LoadReviewStep,
     DeleteReviewStep, SoftDeleteStep DEF Serve
<1>7. ASSUME NEW r \in Requests, Write(r) PROVE IInv'
  BY <1>7, SaveReviewStep, SaveChangesStep, InsertEntityStep DEF Write
<1> QED
  BY <1>1, <1>2, <1>6, <1>7 DEF Next

\* Everything below rests on this invariant of ReviewService.
THEOREM Invariant == Spec => []IInv
BY InitCorrect, Inductive, PTL DEF Spec

\* At most one row per order, whatever createReview requests overlap
\* (review.service.ts:46-60).
THEOREM SingleCorrect == Spec => []OneReviewPerOrder
BY Invariant, PTL DEF IInv

\* The order of a review is never deleted from under it, although the review
\* service reads its status once and the order service goes on changing it.
THEOREM OrdersKept == Spec => []ReviewKeepsOrder
BY Invariant, PTL DEF IInv

LEMMA ServeTouches ==
  ASSUME NEW r \in Requests, Serve(r)
  PROVE  (SoftDelete(r) \/ UNCHANGED review) /\ strayed \subseteq strayed'
<1>1. ASSUME NEW v \in Reviews, NEW c, NEW w \in Reviews, NEW new,
             UpdateReview(r, v, c, w, new)
      PROVE  UNCHANGED review /\ strayed \subseteq strayed'
  BY <1>1 DEF UpdateReview
<1>2. SoftDelete(r) => UNCHANGED strayed
  BY DEF SoftDelete
<1> QED
  BY <1>1, <1>2
  DEF Serve, CreateReview, FindExisting, LoadReview, DeleteReview, Fail

\* A deleted review that no request under way has read before stays as it is,
\* and no later request reads it (review.service.ts:66-105), unless a body names
\* it or columns that the DTO does not list.
THEOREM DeletionCorrect == Spec => QuietDeletionFinal
<1> DEFINE Kept == \A v \in Reviews \ strayed' :
                     Stored(v) /\ review[v].deleted /\ ~ BeingUpdated(v)
                       => review'[v] = review[v] /\ ~ BeingUpdated(v)'
<1>0. ASSUME IInv, Next PROVE strayed \subseteq strayed'
  BY <1>0, ServeTouches
  DEF Next, OrderMoves, Write, SaveReview, SaveChanges, InsertEntity
<1>1. ASSUME IInv, Next, NEW v \in Reviews \ strayed', Stored(v),
             review[v].deleted, ~ BeingUpdated(v)
      PROVE  review'[v] = review[v]
  <2>0. v \notin strayed
    BY <1>0, <1>1
  <2>1. review[v] \in Row /\ review \in [Reviews -> Row \cup {None}]
    BY <1>1 DEF IInv, TypeOK, Stored
  <2>2. CASE OrderMoves
    BY <1>1, <2>0, <2>2, Unlinks
  <2>3. ASSUME NEW r \in Requests, NEW w \in Reviews, NEW x \in Contents,
               SaveReview(r, w, x)
        PROVE  review'[v] = review[v]
    BY <1>1, <2>1, <2>3 DEF SaveReview, Stored
  <2>4. ASSUME NEW r \in Requests, SaveChanges(r) PROVE review'[v] = review[v]
    BY <1>1, <2>1, <2>4 DEF SaveChanges, BeingUpdated
  <2>6. ASSUME NEW r \in Requests, InsertEntity(r) PROVE review'[v] = review[v]
    BY <1>1, <2>0, <2>1, <2>6 DEF InsertEntity, IInv, InFlight
  <2>5. ASSUME NEW r \in Requests, SoftDelete(r) PROVE review'[v] = review[v]
    <3>1. CASE req[r].review = v
      <4>1. review'[v] = [order |-> review[v].order, client |-> review[v].client,
                          restaurant |-> review[v].restaurant,
                          content |-> review[v].content, deleted |-> TRUE]
        BY <2>1, <2>5, <3>1 DEF SoftDelete
      <4>2. review[v].deleted = TRUE
        BY <1>1, <2>1 DEF Row
      <4> QED
        BY <2>1, <4>1, <4>2 DEF Row
    <3>2. CASE req[r].review # v
      BY <2>1, <2>5, <3>2 DEF SoftDelete
    <3> QED
      BY <3>1, <3>2
  <2> QED
    BY <1>1, <2>2, <2>3, <2>4, <2>5, <2>6, ServeTouches DEF Next, Write
<1>2. ASSUME IInv, Next, NEW v \in Reviews \ strayed', Stored(v),
             review[v].deleted, ~ BeingUpdated(v)
      PROVE  ~ BeingUpdated(v)'
  <2> SUFFICES ASSUME NEW q \in Requests, req'[q].review = v,
                      req'[q].pc \in {"changed", "diffed"}
               PROVE  FALSE
    BY DEF BeingUpdated
  <2>1. req \in [Requests -> Request]
    BY <1>2 DEF IInv, TypeOK
  <2>2. req'[q] # req[q]
    BY <1>2 DEF BeingUpdated
  <2>3. ASSUME NEW r \in Requests, Ends(r) PROVE FALSE
    BY <2>1, <2>2, <2>3 DEF Ends, Idle, At
  <2>4. ASSUME NEW r \in Requests, NEW u \in Reviews, NEW c \in Clients,
               NEW w \in Reviews, NEW new, UpdateReview(r, u, c, w, new)
        PROVE  FALSE
    <3>1. w = v
      BY <2>1, <2>2, <2>4 DEF UpdateReview, At
    <3>2. ~ ContentOnly(u, w, new)
      BY <1>2, <2>4, <3>1 DEF ContentOnly, UpdateReview, Live
    <3> QED
      BY <1>2, <2>4, <3>1, <3>2 DEF UpdateReview
  <2>5. ASSUME NEW r \in Requests, LoadReview(r) PROVE FALSE
    BY <1>2, <2>1, <2>2, <2>5 DEF LoadReview, BeingUpdated, At
  <2>6. ASSUME NEW r \in Requests, NEW c \in Clients, NEW o \in Orders,
               NEW s \in Restaurants, CreateReview(r, c, o, s)
        PROVE  FALSE
    BY <2>1, <2>2, <2>6 DEF CreateReview, At
  <2>7. ASSUME NEW r \in Requests, FindExisting(r) PROVE FALSE
    BY <2>1, <2>2, <2>3, <2>7 DEF FindExisting, At
  <2>8. ASSUME NEW r \in Requests, NEW w \in Reviews, NEW c \in Clients,
               DeleteReview(r, w, c)
        PROVE  FALSE
    BY <2>1, <2>2, <2>8 DEF DeleteReview, At
  <2> QED
    BY <1>2, <2>2, <2>3, <2>4, <2>5, <2>6, <2>7, <2>8
       DEF Next, Serve, Write, OrderMoves, SaveReview, SaveChanges, InsertEntity,
           SoftDelete, Fail
<1>3. IInv /\ [Next]_vars => [Kept]_vars
  BY <1>1, <1>2
<1> QED
  BY Invariant, <1>3, PTL DEF Spec, QuietDeletionFinal

-----------------------------------------------------------------------------
\* Reviews over the order service

\* What is proved of the order service; no socket listens.
OrderFacts == INSTANCE OrderProofs WITH
  req <- orderReq, Requests <- OrderRequests, Sockets <- {}, Tasks <- {"Pending"},
  ServedOn <- [r \in OrderRequests |-> "Pending"], at <- {}, rooms <- {},
  heard <- {}, told <- {}, due <- {}, lost <- {}, following <- {},
  reading <- {}, fresh <- {}

\* The assumptions of OrderProofs.
LEMMA OrderRoles ==
  /\ Clients \cap Owners = {}
  /\ Clients \cap Drivers = {}
  /\ Owners \cap Drivers = {}
BY RolesOfUsers

LEMMA OrderParties ==
  /\ CustomerOf \in [Orders -> Clients]
  /\ OwnerOf \in [Orders -> Owners]
BY Parties, OwnersOfOrders

LEMMA OrderNone ==
  None \notin OrderFacts!Users \cup Orders \cup OrderFacts!OrderStatus
BY NoneIsNew, NoneIsNobody
DEF OrderFacts!Users, OrderFacts!OrderStatus, Service!Users, Service!OrderStatus

LEMMA OrderTasks ==
  /\ [r \in OrderRequests |-> "Pending"] \in [OrderRequests -> {"Pending"}]
  /\ None \notin {"Pending"}
BY NoneIsNobody DEF Service!OrderStatus

\* The two instances of the order service are the same, action by action.
LEMMA SameState ==
  /\ Service!vars = OrderFacts!vars
  /\ Service!Init <=> OrderFacts!Init
BY DEF Service!vars, OrderFacts!vars, Service!Init, OrderFacts!Init,
       Service!Idle, OrderFacts!Idle

LEMMA SamePlacing ==
  ASSUME NEW r \in OrderRequests
  PROVE  /\ \A o \in Orders :
              Service!CreateOrder(r, o) <=> OrderFacts!CreateOrder(r, o)
         /\ Service!CommitOrder(r) <=> OrderFacts!CommitOrder(r)
         /\ Service!AnnounceOrder(r) <=> OrderFacts!AnnounceOrder(r)
<1>1. \A o \in Orders :
        Service!CreateOrder(r, o) <=> OrderFacts!CreateOrder(r, o)
  BY DEF Service!CreateOrder, OrderFacts!CreateOrder, Service!Idle,
         OrderFacts!Idle, Service!Free, OrderFacts!Free, Service!Locked,
         OrderFacts!Locked, Service!HoldsLock, OrderFacts!HoldsLock
<1>2. Service!CommitOrder(r) <=> OrderFacts!CommitOrder(r)
  BY DEF Service!CommitOrder, OrderFacts!CommitOrder
<1>3. Service!AnnounceOrder(r) <=> OrderFacts!AnnounceOrder(r)
  BY DEF Service!AnnounceOrder, OrderFacts!AnnounceOrder, Service!Idle,
         OrderFacts!Idle
<1> QED
  BY <1>1, <1>2, <1>3

LEMMA SameEditing ==
  ASSUME NEW r \in OrderRequests
  PROVE  /\ \A u \in Service!Users, o \in Orders, s \in Service!OrderStatus :
              Service!EditOrderStatus(r, u, o, s)
                <=> OrderFacts!EditOrderStatus(r, u, o, s)
         /\ Service!SaveStatus(r) <=> OrderFacts!SaveStatus(r)
         /\ Service!CommitStatus(r) <=> OrderFacts!CommitStatus(r)
<1>1. \A u \in Service!Users, o \in Orders, s \in Service!OrderStatus :
        Service!EditOrderStatus(r, u, o, s)
          <=> OrderFacts!EditOrderStatus(r, u, o, s)
  BY DEF Service!EditOrderStatus, OrderFacts!EditOrderStatus, Service!Exists,
         OrderFacts!Exists, Service!EditAllowed, OrderFacts!EditAllowed
<1>2. Service!SaveStatus(r) <=> OrderFacts!SaveStatus(r)
  BY DEF Service!SaveStatus, OrderFacts!SaveStatus, Service!Writes,
         OrderFacts!Writes, Service!Diff, OrderFacts!Diff, Service!Columns,
         OrderFacts!Columns, Service!Exists, OrderFacts!Exists, Service!Free,
         OrderFacts!Free, Service!Locked, OrderFacts!Locked, Service!HoldsLock,
         OrderFacts!HoldsLock
<1>3. Service!CommitStatus(r) <=> OrderFacts!CommitStatus(r)
  BY DEF Service!CommitStatus, OrderFacts!CommitStatus, Service!Idle,
         OrderFacts!Idle
<1> QED
  BY <1>1, <1>2, <1>3

LEMMA SamePaying ==
  ASSUME NEW r \in OrderRequests
  PROVE  /\ \A u \in Service!Users, o \in Orders :
              Service!ProcessPayment(r, u, o) <=> OrderFacts!ProcessPayment(r, u, o)
         /\ Service!SavePayment(r) <=> OrderFacts!SavePayment(r)
         /\ Service!Fail(r) <=> OrderFacts!Fail(r)
<1>1. \A u \in Service!Users, o \in Orders :
        Service!ProcessPayment(r, u, o) <=> OrderFacts!ProcessPayment(r, u, o)
  BY DEF Service!ProcessPayment, OrderFacts!ProcessPayment, Service!Exists,
         OrderFacts!Exists, Service!Idle, OrderFacts!Idle
<1>2. Service!SavePayment(r) <=> OrderFacts!SavePayment(r)
  BY DEF Service!SavePayment, OrderFacts!SavePayment, Service!PaymentAccepted,
         OrderFacts!PaymentAccepted, Service!Exists, OrderFacts!Exists,
         Service!Idle, OrderFacts!Idle, Service!Free, OrderFacts!Free,
         Service!Locked, OrderFacts!Locked, Service!HoldsLock,
         OrderFacts!HoldsLock
<1>3. Service!Fail(r) <=> OrderFacts!Fail(r)
  BY DEF Service!Fail, OrderFacts!Fail, Service!Idle, OrderFacts!Idle
<1> QED
  BY <1>1, <1>2, <1>3

LEMMA SameCleaning ==
  /\ \A o \in Orders : /\ Service!GrowStale(o) <=> OrderFacts!GrowStale(o)
                       /\ Service!ScanRow(o) <=> OrderFacts!ScanRow(o)
  /\ Service!HandleCron <=> OrderFacts!HandleCron
<1>1. \A o \in Orders : Service!GrowStale(o) <=> OrderFacts!GrowStale(o)
  BY DEF Service!GrowStale, OrderFacts!GrowStale
<1>2. \A o \in Orders : Service!ScanRow(o) <=> OrderFacts!ScanRow(o)
  BY DEF Service!ScanRow, OrderFacts!ScanRow, Service!Expired,
         OrderFacts!Expired, Service!Free, OrderFacts!Free,
         Service!Locked, OrderFacts!Locked, Service!HoldsLock,
         OrderFacts!HoldsLock
<1>3. Service!HandleCron <=> OrderFacts!HandleCron
  BY DEF Service!HandleCron, OrderFacts!HandleCron, Service!Expired,
         OrderFacts!Expired
<1> QED
  BY <1>1, <1>2, <1>3

LEMMA SameSteps == Service!Next <=> OrderFacts!Next
<1> USE DEF Service!Users, OrderFacts!Users, Service!OrderStatus,
            OrderFacts!OrderStatus
<1>1. Service!Next => OrderFacts!Next
  BY SamePlacing, SameEditing, SamePaying, SameCleaning
  DEF Service!Next, OrderFacts!Next
<1>2. OrderFacts!Next => Service!Next
  BY SamePlacing, SameEditing, SamePaying, SameCleaning
  DEF Service!Next, OrderFacts!Next
<1> QED
  BY <1>1, <1>2

\* A step of the order service is a step of the life of orders.
LEMMA ServiceStepIsLife ==
  ASSUME OrderFacts!IInv, Service!Next
  PROVE  Life!Next \/ UNCHANGED <<status, driver>>
<1>1. [OrderFacts!Lifecycle!Next]_OrderFacts!rows
  BY SameSteps, OrderRoles, OrderParties, OrderNone, OrderTasks, OrderFacts!StepIsLifecycle
<1>2. OrderFacts!Lifecycle!Next => Life!Next
  BY DEF OrderFacts!Lifecycle!Next, Life!Next, OrderFacts!Lifecycle!Active,
         Life!Active, OrderFacts!Lifecycle!Place, Life!Place,
         OrderFacts!Lifecycle!Cook, Life!Cook, OrderFacts!Lifecycle!PickUp,
         Life!PickUp, OrderFacts!Lifecycle!Reassign, Life!Reassign,
         OrderFacts!Lifecycle!Ride, Life!Ride, OrderFacts!Lifecycle!Expire,
         Life!Expire
<1> QED
  BY <1>1, <1>2 DEF OrderFacts!rows

JointInv == IInv /\ OrderFacts!IInv

\* An order that has a review is there, so as long as the orders' rows stay
\* no review loses its order.
LEMMA QuietUnlinksNothing ==
  ASSUME IInv, OrderStep, UNCHANGED <<status, driver>>
  PROVE  UNCHANGED vars
<1>1. ASSUME NEW v \in Reviews PROVE Unlinked(review[v]) = review[v]
  BY DEF IInv, OrdersExist, Placed, Stored, Unlinked
<1>2. /\ review' = [v \in Reviews |-> Unlinked(review[v])]
      /\ review = [v \in Reviews |-> review[v]]
  BY DEF OrderStep, IInv, TypeOK
<1>3. review' = review
  BY <1>1, <1>2
<1> QED
  BY <1>3 DEF OrderStep, vars

LEMMA ReviewLeavesOrders ==
  ASSUME NEW r \in Requests, ReviewStep(r)
  PROVE  Next /\ UNCHANGED OrderFacts!vars
<1>1. Serve(r) \/ Write(r)
  BY DEF ReviewStep
<1>2. UNCHANGED <<status, driver>>
  BY <1>1 DEF Serve, Write, CreateReview, FindExisting, SaveReview,
              UpdateReview, LoadReview, SaveChanges, InsertEntity, DeleteReview,
              SoftDelete, Fail
<1> QED
  BY <1>1, <1>2 DEF ReviewStep, Next, service, OrderFacts!vars

\* Every step of the two together is a step of each of them alone.
LEMMA JointStep ==
  ASSUME JointInv, [JointNext]_jointVars
  PROVE  [Next]_vars /\ [OrderFacts!Next]_OrderFacts!vars
<1>1. CASE OrderStep
  <2>1. Service!Next /\ OrderFacts!Next
    BY <1>1, SameSteps DEF OrderStep
  <2>2. CASE Life!Next
    BY <1>1, <2>1, <2>2 DEF OrderStep, OrderMoves, Next
  <2>3. CASE UNCHANGED <<status, driver>>
    BY <1>1, <2>1, <2>3, QuietUnlinksNothing DEF JointInv
  <2> QED
    BY <2>1, <2>2, <2>3, ServiceStepIsLife DEF JointInv
<1>2. ASSUME NEW r \in Requests, ReviewStep(r)
      PROVE  [Next]_vars /\ [OrderFacts!Next]_OrderFacts!vars
  BY <1>2, ReviewLeavesOrders
<1>3. CASE UNCHANGED jointVars
  BY <1>3 DEF jointVars, vars, service, OrderFacts!vars
<1> QED
  BY <1>1, <1>2, <1>3 DEF JointNext

LEMMA JointInductive == JointInv /\ [JointNext]_jointVars => JointInv'
<1> SUFFICES ASSUME JointInv, [JointNext]_jointVars PROVE JointInv'
  OBVIOUS
<1>1. IInv'
  BY JointStep, Inductive DEF JointInv
<1>2. OrderFacts!IInv'
  BY JointStep, OrderRoles, OrderParties, OrderNone, OrderTasks, OrderFacts!NextInv
  DEF JointInv
<1> QED
  BY <1>1, <1>2 DEF JointInv

LEMMA JointInitially == JointInit => JointInv
<1>1. JointInit => IInv
  BY InitCorrect DEF JointInit
<1>2. JointInit => OrderFacts!IInv
  BY SameState, OrderRoles, OrderParties, OrderNone, OrderTasks, OrderFacts!InitInv
  DEF JointInit
<1> QED
  BY <1>1, <1>2 DEF JointInv

\* Both inductive invariants hold when the services run together.
THEOREM JointInvariant == JointSpec => []JointInv
BY JointInitially, JointInductive, PTL DEF JointSpec

\* Reviews over the real order service, with its transactions, locks and
\* clean-up, behave as ReviewService says: what is proved of it holds there.
THEOREM ReviewsImplemented == JointSpec => ImplementsReviews
<1>1. JointInit => Init
  BY DEF JointInit
<1>2. JointInv /\ [JointNext]_jointVars => [Next]_vars
  BY JointStep
<1> QED
  BY <1>1, <1>2, JointInvariant, PTL DEF JointSpec, ImplementsReviews, Spec

\* The order service does nothing beside reviews that it does not do alone.
THEOREM OrdersImplemented == JointSpec => Service!Spec
<1>1. JointInit => Service!Init
  BY DEF JointInit
<1>2. JointInv /\ [JointNext]_jointVars => [Service!Next]_(Service!vars)
  BY JointStep, SameSteps DEF Service!vars, OrderFacts!vars
<1> QED
  BY <1>1, <1>2, JointInvariant, PTL DEF JointSpec, Service!Spec

=============================================================================
