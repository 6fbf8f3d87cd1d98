---------------------------- MODULE ReviewService ----------------------------
(***************************************************************************)
(* Reviews of delivered orders (review.service.ts), beside the life of the *)
(* orders themselves.                                                      *)
(*                                                                         *)
(* None of the three handlers runs in a transaction: each query is a step  *)
(* and other requests come in between. An update saves the entity it read  *)
(* with the body spread over it: save() reads the row of the entity's id   *)
(* again, deleted or not, and writes every column in which the entity      *)
(* differs, or inserts the entity when there is no such row. Pipes keep    *)
(* what a DTO does not list, so a body can name any column and another     *)
(* row. Reviews are deleted softly: the row stays and keeps its order_id.  *)
(* Orders change as OrderLifecycle says, which the order service           *)
(* implements.                                                             *)
(***************************************************************************)
EXTENDS Integers, FiniteSets

CONSTANTS
  Orders, Drivers,
  Clients, Restaurants,
  CustomerOf,    \* customer_id of an order
  RestaurantOf,  \* restaurant_id of an order
  Reviews,       \* primary keys of reviews
  Contents,      \* score, text and pictures
  Drafts,        \* entities that updates whose body names other columns save
  MaxStrayed,    \* how many reviews such bodies name
  Requests,      \* slots for requests being served at the same time
  None

ASSUME Parties ==
  /\ CustomerOf \in [Orders -> Clients]
  /\ RestaurantOf \in [Orders -> Restaurants]

Row == [order : Orders \cup {None}, client : Clients \cup {None},
        restaurant : Restaurants \cup {None}, content : Contents,
        deleted : BOOLEAN]

ASSUME NoneIsNew ==
  None \notin Orders \cup Drivers \cup Reviews \cup Clients \cup Row

ASSUME DraftsAreRows == Drafts \subseteq Row

VARIABLES
  status, driver,   \* table order
  review,           \* table reviews: a row, or None
  req,              \* the requests being served
  strayed           \* history: the reviews that the bodies of updates have
                    \* named with other columns than content

vars == <<status, driver, review, req, strayed>>

Life == INSTANCE OrderLifecycle

Columns == {"order", "client", "restaurant", "content", "deleted"}

\* review: the id of the entity; entity: what the request saves; diff: the
\* columns save() will write.
At(pc, o, v, entity, diff) ==
  [pc |-> pc, order |-> o, review |-> v, entity |-> entity, diff |-> diff]

Idle == At("idle", None, None, None, {})

PCs == {"idle", "checked", "single", "changed", "diffed", "inserting",
        "deleting"}

Request == [pc : PCs, order : Orders \cup {None}, review : Reviews \cup {None},
            entity : Row \cup {None}, diff : SUBSET Columns]

Statuses == {"Unplaced", "Pending", "Cooking", "Cooked", "PickedUp",
             "Delivered", "Deleted"}

TypeOK ==
  /\ status \in [Orders -> Statuses]
  /\ driver \in [Orders -> Drivers \cup {None}]
  /\ review \in [Reviews -> Row \cup {None}]
  /\ req \in [Requests -> Request]
  /\ strayed \subseteq Reviews

Init ==
  /\ Life!Init
  /\ review = [v \in Reviews |-> None]
  /\ req = [r \in Requests |-> Idle]
  /\ strayed = {}

Stored(v) == review[v] # None

\* Rows that a find() returns: TypeORM leaves out those that have deletedAt.
Live(v) == Stored(v) /\ ~ review[v].deleted

\* There is a row of the order.
Placed(o) == status[o] \notin {"Unplaced", "Deleted"}

Ends(r) == req' = [req EXCEPT ![r] = Idle]

-----------------------------------------------------------------------------
\* createReview

\* Faulty variant: the status of the order is not checked.
CreateReviewEarly(r, c, o, s) ==
  /\ req[r].pc = "idle"
  /\ Placed(o)
  /\ CustomerOf[o] = c
  /\ RestaurantOf[o] = s
  /\ req' = [req EXCEPT ![r] = At("checked", o, None, None, {})]
  /\ UNCHANGED <<status, driver, review, strayed>>

\* The order exists, is the user's, was placed with the restaurant named in
\* the request and is delivered; otherwise 404 or 400.
CreateReview(r, c, o, s) ==
  /\ req[r].pc = "idle"
  /\ status[o] = "Delivered"
  /\ CustomerOf[o] = c
  /\ RestaurantOf[o] = s
  /\ req' = [req EXCEPT ![r] = At("checked", o, None, None, {})]
  /\ UNCHANGED <<status, driver, review, strayed>>

\* 409 when a find() sees a review of this order.
FindExisting(r) ==
  LET o == req[r].order IN
  /\ req[r].pc = "checked"
  /\ IF \E v \in Reviews : Live(v) /\ review[v].order = o
     THEN Ends(r)
     ELSE req' = [req EXCEPT ![r] = At("single", o, None, None, {})]
  /\ UNCHANGED <<status, driver, review, strayed>>

\* Faulty variant: without the unique index.
LinkableAgain(v, o) == o # None => Placed(o)

\* What the database lets review v be stored with: the foreign key wants the
\* order to be there, and the unique index on order_id, which counts deleted
\* reviews too, no other review of it.
Linkable(v, o) ==
  o # None => /\ Placed(o)
              /\ \A w \in Reviews \ {v} : Stored(w) => review[w].order # o

\* The INSERT, under a fresh key; 500 when the database refuses it.
SaveReview(r, v, x) ==
  LET o == req[r].order IN
  /\ req[r].pc = "single"
  /\ ~ Stored(v)
  /\ IF Linkable(v, o)
     THEN review' = [review EXCEPT ![v] =
                       [order |-> o, client |-> CustomerOf[o],
                        restaurant |-> RestaurantOf[o], content |-> x,
                        deleted |-> FALSE]]
     ELSE UNCHANGED review
  /\ Ends(r)
  /\ UNCHANGED <<status, driver, strayed>>

-----------------------------------------------------------------------------
\* updateReview and deleteReview

\* Entity new with id w is what a body makes of review v that names nothing
\* but what UpdateReviewDto lists.
ContentOnly(v, w, new) ==
  w = v /\ \E x \in Contents : new = [review[v] EXCEPT !.content = x]

\* Faulty variant: the find() of the update returns deleted reviews too.
UpdateAnyReview(r, v, c, w, new) ==
  /\ req[r].pc = "idle"
  /\ Stored(v)
  /\ review[v].client = c
  /\ req' = [req EXCEPT ![r] = At("changed", None, w, new, {})]
  /\ strayed' = IF ContentOnly(v, w, new) THEN strayed ELSE strayed \cup {w}
  /\ UNCHANGED <<status, driver, review>>

\* The review is there and the user's, and with the body spread over it
\* becomes entity new with id w; otherwise 404 or 403.
UpdateReview(r, v, c, w, new) ==
  /\ req[r].pc = "idle"
  /\ Live(v)
  /\ review[v].client = c
  /\ req' = [req EXCEPT ![r] = At("changed", None, w, new, {})]
  /\ strayed' = IF ContentOnly(v, w, new) THEN strayed ELSE strayed \cup {w}
  /\ UNCHANGED <<status, driver, review>>

\* save() reads the row of the entity's id, deleted rows included, and
\* compares.
LoadReview(r) ==
  LET w == req[r].review
      differs == {k \in Columns : req[r].entity[k] # review[w][k]}
  IN
  /\ req[r].pc = "changed"
  /\ req' = [req EXCEPT ![r] =
               IF Stored(w) THEN At("diffed", None, w, req[r].entity, differs)
                            ELSE At("inserting", None, w, req[r].entity, {})]
  /\ UNCHANGED <<status, driver, review, strayed>>

\* The UPDATE of the columns found to differ; 500 when the database refuses
\* the order.
SaveChanges(r) ==
  LET w == req[r].review
      Written(k) ==
        IF k \in req[r].diff THEN req[r].entity[k] ELSE review[w][k]
  IN
  /\ req[r].pc = "diffed"
  /\ IF Linkable(w, Written("order"))
     THEN review' = [review EXCEPT ![w] =
                       [order |-> Written("order"),
                        client |-> Written("client"),
                        restaurant |-> Written("restaurant"),
                        content |-> Written("content"),
                        deleted |-> Written("deleted")]]
     ELSE UNCHANGED review
  /\ Ends(r)
  /\ UNCHANGED <<status, driver, strayed>>

\* The INSERT of an entity whose id save() has not found.
InsertEntity(r) ==
  LET w == req[r].review IN
  /\ req[r].pc = "inserting"
  /\ IF ~ Stored(w) /\ Linkable(w, req[r].entity.order)
     THEN review' = [review EXCEPT ![w] = req[r].entity]
     ELSE UNCHANGED review
  /\ Ends(r)
  /\ UNCHANGED <<status, driver, strayed>>

DeleteReview(r, v, c) ==
  /\ req[r].pc = "idle"
  /\ Live(v)
  /\ review[v].client = c
  /\ req' = [req EXCEPT ![r] = At("deleting", None, v, None, {})]
  /\ UNCHANGED <<status, driver, review, strayed>>

\* softDelete: UPDATE ... SET deleted_at.
SoftDelete(r) ==
  LET v == req[r].review IN
  /\ req[r].pc = "deleting"
  /\ review' = [review EXCEPT ![v] =
                  [order |-> review[v].order, client |-> review[v].client,
                   restaurant |-> review[v].restaurant,
                   content |-> review[v].content, deleted |-> TRUE]]
  /\ Ends(r)
  /\ UNCHANGED <<status, driver, strayed>>

\* A query of the request fails, or its server stops.
Fail(r) ==
  /\ req[r].pc # "idle"
  /\ Ends(r)
  /\ UNCHANGED <<status, driver, review, strayed>>

-----------------------------------------------------------------------------
\* The foreign key of reviews.order_id: ON DELETE SET NULL.
Unlinked(row) ==
  IF row # None /\ row.order # None /\ status'[row.order] = "Deleted"
  THEN [row EXCEPT !.order = None]
  ELSE row

OrderMoves ==
  /\ Life!Next
  /\ review' = [v \in Reviews |-> Unlinked(review[v])]
  /\ UNCHANGED <<req, strayed>>

\* The steps of a request that do not write the key of an order.
Serve(r) ==
  \/ \E c \in Clients :
       \/ \E o \in Orders, s \in Restaurants : CreateReview(r, c, o, s)
       \/ \E v \in Reviews :
            \/ \E x \in Contents :
                 UpdateReview(r, v, c, v, [review[v] EXCEPT !.content = x])
            \/ \E w \in Reviews, new \in Drafts :
                 /\ Cardinality(strayed \cup {w}) <= MaxStrayed
                 /\ UpdateReview(r, v, c, w, new)
            \/ DeleteReview(r, v, c)
  \/ FindExisting(r)
  \/ LoadReview(r)
  \/ SoftDelete(r)
  \/ Fail(r)

Write(r) ==
  \/ \E v \in Reviews, x \in Contents : SaveReview(r, v, x)
  \/ SaveChanges(r)
  \/ InsertEntity(r)

Next == OrderMoves \/ \E r \in Requests : Serve(r) \/ Write(r)

Spec == Init /\ [][Next]_vars

-----------------------------------------------------------------------------
\* An order is reviewed once, whoever creates reviews of it at the same time,
\* whether or not the first one was deleted, and whatever updates write
\* (review.service.ts:46-60, 79-84).
OneReviewPerOrder ==
  \A v, w \in Reviews :
    Stored(v) /\ Stored(w) /\ review[v].order = review[w].order
      => v = w \/ review[v].order = None

\* An order of which a review was or is being written stays in the table
\* although its status may change in between and afterwards: it has been
\* delivered, so it has a driver and the clean-up never takes it, and the
\* review keeps its order_id. (A review that a body has named with other
\* columns than its content may have been given any order.)
Lasting(o) == Life!Active(o) /\ driver[o] # None

ReviewKeepsOrder ==
  \A v \in Reviews \ strayed :
    Stored(v) => /\ review[v].order # None
                 /\ Lasting(review[v].order)
                 /\ review[v].client = CustomerOf[review[v].order]

\* Once a review is deleted and no update that read it before is under way, it
\* never changes or comes back: no later request can touch it
\* (review.service.ts:66-105), but by a body that names it or its columns.
BeingUpdated(v) ==
  \E r \in Requests : req[r].pc \in {"changed", "diffed"} /\ req[r].review = v

QuietDeletionFinal ==
  [][\A v \in Reviews \ strayed' :
       Stored(v) /\ review[v].deleted /\ ~ BeingUpdated(v)
         => review'[v] = review[v] /\ ~ BeingUpdated(v)']_vars

\* A deleted review stays deleted (review.service.ts:101, "Soft Delete").
DeletionStands ==
  [][\A v \in Reviews :
       Stored(v) /\ review[v].deleted => review'[v].deleted]_vars

-----------------------------------------------------------------------------
\* The inductive invariant. A request that creates has seen its order
\* delivered; one that updates by content alone read its review while it was
\* not deleted and has not changed what it says of order and author.
InFlight(r) ==
  LET w == req[r].review  entity == req[r].entity IN
  /\ req[r].pc \in {"checked", "single"}
       => req[r].order # None /\ Lasting(req[r].order)
  /\ req[r].pc \in {"changed", "diffed", "inserting"}
       => w # None /\ entity # None
  /\ req[r].pc \in {"diffed", "deleting"} => w # None /\ Stored(w)
  /\ req[r].pc = "inserting" => w \in strayed
  /\ req[r].pc \in {"changed", "diffed"} /\ w \notin strayed
       => /\ Stored(w)
          /\ ~ entity.deleted
          /\ entity.order = review[w].order
          /\ entity.client = review[w].client

DriverOfDelivered ==
  \A o \in Orders : status[o] = "Delivered" => driver[o] # None

OrdersExist ==
  \A v \in Reviews :
    Stored(v) /\ review[v].order # None => Placed(review[v].order)

IInv ==
  /\ TypeOK
  /\ \A r \in Requests : InFlight(r)
  /\ DriverOfDelivered
  /\ OrdersExist
  /\ OneReviewPerOrder
  /\ ReviewKeepsOrder

=============================================================================
