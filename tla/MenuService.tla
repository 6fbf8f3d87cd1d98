----------------------------- MODULE MenuService -----------------------------
(***************************************************************************)
(* What a restaurant offers and what an order of it costs: dishes          *)
(* (dish.service.ts), changes of a restaurant (restaurant.service.ts) and  *)
(* the pricing of a new order (order.service.ts, createOrder).             *)
(*                                                                         *)
(* createOrder and updateRestaurant run in a transaction: what they read   *)
(* is the read view InnoDB takes at their first SELECT. The dish handlers  *)
(* run without one, and each of their queries is a step that sees the      *)
(* table as it is. Both kinds save() an entity: save() reads the row of    *)
(* its id, deleted or not, and writes the columns that differ, or inserts  *)
(* the entity when there is no such row. UPDATE and COMMIT are one step,   *)
(* as the row lock in between keeps other writers away.                    *)
(*                                                                         *)
(* The entity is made of the whole body, and pipes keep what a DTO does    *)
(* not list: a body can name any column, and the id of another row. Lists  *)
(* of related rows in a body (the dishes of a restaurant) are left out.    *)
(***************************************************************************)
EXTENDS Naturals, Sequences, FiniteSets, Functions

CONSTANTS
  Restaurants, Dishes, Orders,
  Users,       \* owners of restaurants
  Names,       \* names of restaurants; stands for all but the delivery fee
  Fees,        \* delivery fees
  Prices,      \* prices of dishes
  Extras,      \* prices of the option of a dish
  Carts,       \* the lists of items that customers order
  ShopDrafts,  \* rows that bodies which name other columns or ids make
  DishDrafts,
  MaxStrayed,  \* how many rows such bodies name
  Requests,    \* slots for requests being served at the same time
  MaxMenus,    \* bound on the menus a behaviour goes through
  None

\* An item of a cart: a dish and how often the request names its option. An
\* option the dish does not have costs nothing.
Item == [dish : Dishes, picks : Nat]

Shop == [fee : Fees, name : Names, owner : Users, deleted : BOOLEAN]
Dish == [price : Prices, extra : Extras, home : Restaurants,
         deleted : BOOLEAN]

ASSUME Quantities ==
  /\ Fees \cup Prices \cup Extras \subseteq Nat
  /\ Carts \subseteq Seq(Item)

ASSUME DraftsAreRows == ShopDrafts \subseteq Shop /\ DishDrafts \subseteq Dish

VARIABLES
  shop,    \* table restaurant: a row, or None
  dish,    \* table dish: a row, or None
  order,   \* restaurant, cart and total of an order, or None
  req,     \* the requests being served
  past,    \* history: every menu there has been
  strayed  \* history: the rows that bodies have named otherwise than by the
           \* path, or with columns that the DTO does not list

vars == <<shop, dish, order, req, past, strayed>>

\* What the tables offer together at one moment; also what a transaction sees.
Menu == [shop |-> shop, dish |-> dish]

Menus == [shop : [Restaurants -> Shop \cup {None}],
          dish : [Dishes -> Dish \cup {None}]]

Stored(d) == dish[d] # None

\* Rows that a find() returns: TypeORM leaves out those that have deletedAt.
Live(d) == Stored(d) /\ ~ dish[d].deleted
Open(s) == shop[s] # None /\ ~ shop[s].deleted

\* The user owns the restaurant that is joined to the dish; when that one is
\* deleted the join brings nothing and the handler fails.
Manages(u, d) == Open(dish[d].home) /\ shop[dish[d].home].owner = u

\* Menu m has the restaurant and every dish of the cart. The dishes need not
\* be the restaurant's.
Offered(m, s, cart) ==
  /\ m.shop[s] # None /\ ~ m.shop[s].deleted
  /\ \A i \in DOMAIN cart :
       m.dish[cart[i].dish] # None /\ ~ m.dish[cart[i].dish].deleted

\* The price of a dish, and the extra of its option once per mention.
ItemPrice(m, item) ==
  m.dish[item.dish].price + item.picks * m.dish[item.dish].extra

Total(m, s, cart) ==
  SumFunction([i \in DOMAIN cart |-> ItemPrice(m, cart[i])]) + m.shop[s].fee

\* Every total there can be.
Totals ==
  {Total(c[1], c[2], c[3]) :
     c \in {x \in Menus \X Restaurants \X Carts : Offered(x[1], x[2], x[3])}}

ShopListed == {"fee", "name"}
DishListed == {"price", "extra"}
ShopColumns == ShopListed \cup {"owner", "deleted"}
DishColumns == DishListed \cup {"home", "deleted"}
Columns == ShopColumns \cup DishColumns

\* A request that saves an entity with the id `on`: the read view of its
\* transaction, the entity and the columns it asked for or writes.
Editing(pc, on, view, entity, columns) ==
  [pc |-> pc, on |-> on, view |-> view, entity |-> entity,
   columns |-> columns, cart |-> None, total |-> None]

\* A request that places an order with restaurant s.
Placing(pc, s, view, cart, total) ==
  [pc |-> pc, on |-> s, view |-> view, entity |-> None,
   columns |-> {}, cart |-> cart, total |-> total]

Idle == Editing("idle", None, None, None, {})

PCs == {"idle", "saving", "adding", "changed", "diffed", "deleting",
        "reading", "priced"}

Request == [pc : PCs, on : Restaurants \cup Dishes \cup {None},
            view : Menus \cup {None}, entity : Shop \cup Dish \cup {None},
            columns : SUBSET Columns, cart : Carts \cup {None},
            total : Totals \cup {None}]

Bill == [restaurant : Restaurants, cart : Carts, total : Totals]

ASSUME NoneIsNew ==
  None \notin Restaurants \cup Dishes \cup Carts \cup Shop \cup Dish \cup Bill

TypeOK ==
  /\ shop \in [Restaurants -> Shop \cup {None}]
  /\ dish \in [Dishes -> Dish \cup {None}]
  /\ order \in [Orders -> Bill \cup {None}]
  /\ req \in [Requests -> Request]
  /\ past \subseteq Menus
  /\ strayed \subseteq Restaurants \cup Dishes

Ends(r) == req' = [req EXCEPT ![r] = Idle]

\* The bound on changes of the menu.
MayChange == Cardinality(past) < MaxMenus

Init ==
  /\ shop = [s \in Restaurants |-> None]
  /\ dish = [d \in Dishes |-> None]
  /\ order = [o \in Orders |-> None]
  /\ req = [r \in Requests |-> Idle]
  /\ past = {Menu}
  /\ strayed = {}

-----------------------------------------------------------------------------
\* Restaurants

\* The row with columns taken from an entity.
Renewed(old, new, columns) ==
  [fee |-> IF "fee" \in columns THEN new.fee ELSE old.fee,
   name |-> IF "name" \in columns THEN new.name ELSE old.name,
   owner |-> IF "owner" \in columns THEN new.owner ELSE old.owner,
   deleted |-> IF "deleted" \in columns THEN new.deleted ELSE old.deleted]

\* The transaction reads the category. The entity is the body, and whoever
\* creates a restaurant owns it; its id is new unless the body names one.
CreateRestaurant(r, s, u, new) ==
  /\ req[r].pc = "idle"
  /\ MayChange
  /\ req' = [req EXCEPT ![r] =
               Editing("saving", s, Menu,
                       Renewed(new, [new EXCEPT !.owner = u], {"owner"}), {})]
  /\ strayed' = IF shop[s] = None THEN strayed ELSE strayed \cup {s}
  /\ UNCHANGED <<shop, dish, order>>

\* The transaction reads the restaurant, which is the user's; otherwise 404
\* or 403. With the body spread over it, it becomes an entity with id t.
UpdateRestaurant(r, s, u, t, new, asked) ==
  /\ req[r].pc = "idle"
  /\ MayChange
  /\ Open(s)
  /\ shop[s].owner = u
  /\ req' = [req EXCEPT ![r] =
               Editing("saving", t, Menu, Renewed(shop[s], new, asked), asked)]
  /\ strayed' = IF t = s /\ asked \subseteq ShopListed
                THEN strayed ELSE strayed \cup {t}
  /\ UNCHANGED <<shop, dish, order>>

\* Faulty variant: save() outside a transaction sees the row as it is.
SaveRestaurantPlainly(r) ==
  LET s == req[r].on IN
  /\ req[r].pc = "saving"
  /\ shop' = [shop EXCEPT ![s] = req[r].entity]
  /\ Ends(r)
  /\ UNCHANGED <<dish, order, strayed>>

\* save() inside the transaction: its SELECT sees the read view. Of a row that
\* is there it writes the columns in which the entity differs and no others;
\* the INSERT is refused when another request has inserted the id.
SaveRestaurant(r) ==
  LET s == req[r].on
      seen == req[r].view.shop[s]
      entity == req[r].entity
      diff == {k \in ShopColumns : entity[k] # seen[k]}
  IN
  /\ req[r].pc = "saving"
  /\ shop' = [shop EXCEPT ![s] =
                IF seen # None THEN Renewed(shop[s], entity, diff)
                ELSE IF shop[s] = None THEN entity
                ELSE shop[s]]
  /\ Ends(r)
  /\ UNCHANGED <<dish, order, strayed>>

-----------------------------------------------------------------------------
\* Dishes

\* The row with columns taken from an entity.
Merged(old, new, columns) ==
  [price |-> IF "price" \in columns THEN new.price ELSE old.price,
   extra |-> IF "extra" \in columns THEN new.extra ELSE old.extra,
   home |-> IF "home" \in columns THEN new.home ELSE old.home,
   deleted |-> IF "deleted" \in columns THEN new.deleted ELSE old.deleted]

\* The restaurant is the user's. The entity is the body, with the restaurant
\* of the path and the id d that the body names; without one save() inserts.
CreateDish(r, s, u, d, new) ==
  /\ req[r].pc = "idle"
  /\ MayChange
  /\ Open(s)
  /\ shop[s].owner = u
  /\ req' = [req EXCEPT ![r] =
               Editing(IF d = None THEN "adding" ELSE "changed", d, None,
                       Merged(new, [new EXCEPT !.home = s], {"home"}), {})]
  /\ strayed' = IF d = None THEN strayed ELSE strayed \cup {d}
  /\ UNCHANGED <<shop, dish, order>>

\* The INSERT, under the id of the entity or else a fresh one; refused when
\* the id is there or the restaurant is not.
AddDish(r, d) ==
  LET entity == req[r].entity IN
  /\ req[r].pc = "adding"
  /\ req[r].on \in {d, None}
  /\ dish' = IF ~ Stored(d) /\ shop[entity.home] # None
             THEN [dish EXCEPT ![d] = entity] ELSE dish
  /\ Ends(r)
  /\ UNCHANGED <<shop, order, strayed>>

\* Faulty variant: the find() of the update returns deleted dishes too.
UpdateAnyDish(r, d, u, e, new, asked) ==
  /\ req[r].pc = "idle"
  /\ MayChange
  /\ Stored(d)
  /\ Manages(u, d)
  /\ req' = [req EXCEPT ![r] =
               Editing("changed", e, None, Merged(dish[d], new, asked), {})]
  /\ strayed' = IF e = d /\ asked \subseteq DishListed
                THEN strayed ELSE strayed \cup {e}
  /\ UNCHANGED <<shop, dish, order>>

\* The dish is there, not deleted, and its restaurant the user's. With the
\* body spread over it, it becomes an entity with id e.
UpdateDish(r, d, u, e, new, asked) ==
  /\ req[r].pc = "idle"
  /\ MayChange
  /\ Live(d)
  /\ Manages(u, d)
  /\ req' = [req EXCEPT ![r] =
               Editing("changed", e, None, Merged(dish[d], new, asked), {})]
  /\ strayed' = IF e = d /\ asked \subseteq DishListed
                THEN strayed ELSE strayed \cup {e}
  /\ UNCHANGED <<shop, dish, order>>

\* save() reads the row of the entity's id, deleted or not, and compares.
LoadDish(r) ==
  LET d == req[r].on
      entity == req[r].entity
      diff == {k \in DishColumns : entity[k] # dish[d][k]}
  IN
  /\ req[r].pc = "changed"
  /\ req' = [req EXCEPT ![r] =
               IF Stored(d) THEN Editing("diffed", d, None, entity, diff)
                            ELSE Editing("adding", d, None, entity, {})]
  /\ UNCHANGED <<shop, dish, order, strayed>>

\* The UPDATE; refused when it names a restaurant that is not there.
SaveDish(r) ==
  LET d == req[r].on
      row == Merged(dish[d], req[r].entity, req[r].columns)
  IN
  /\ req[r].pc = "diffed"
  /\ dish' = [dish EXCEPT ![d] = IF shop[row.home] # None THEN row ELSE dish[d]]
  /\ Ends(r)
  /\ UNCHANGED <<shop, order, strayed>>

DeleteDish(r, d, u) ==
  /\ req[r].pc = "idle"
  /\ MayChange
  /\ Live(d)
  /\ Manages(u, d)
  /\ req' = [req EXCEPT ![r] = Editing("deleting", d, None, None, {})]
  /\ UNCHANGED <<shop, dish, order, strayed>>

\* softDelete: UPDATE ... SET deleted_at.
SoftDelete(r) ==
  LET d == req[r].on IN
  /\ req[r].pc = "deleting"
  /\ dish' = [dish EXCEPT ![d] =
                [price |-> dish[d].price, extra |-> dish[d].extra,
                 home |-> dish[d].home, deleted |-> TRUE]]
  /\ Ends(r)
  /\ UNCHANGED <<shop, order, strayed>>

-----------------------------------------------------------------------------
\* createOrder

\* The first read, of the restaurant, fixes the read view.
CreateOrder(r, s, cart) ==
  /\ req[r].pc = "idle"
  /\ Open(s)
  /\ req' = [req EXCEPT ![r] = Placing("reading", s, Menu, cart, None)]
  /\ UNCHANGED <<shop, dish, order, strayed>>

\* Faulty variant: without a transaction the dishes are read as they are.
PriceOrderPlainly(r) ==
  LET s == req[r].on
      view == [shop |-> req[r].view.shop, dish |-> dish]
      cart == req[r].cart
  IN
  /\ req[r].pc = "reading"
  /\ IF Offered(view, s, cart)
     THEN req' = [req EXCEPT ![r] =
                    Placing("priced", s, view, cart, Total(view, s, cart))]
     ELSE Ends(r)
  /\ UNCHANGED <<shop, dish, order, strayed>>

\* The dishes are read in the same view, and the total is added up; 404 when
\* one of them is missing.
PriceOrder(r) ==
  LET s == req[r].on
      view == req[r].view
      cart == req[r].cart
  IN
  /\ req[r].pc = "reading"
  /\ IF Offered(view, s, cart)
     THEN req' = [req EXCEPT ![r] =
                    Placing("priced", s, view, cart, Total(view, s, cart))]
     ELSE Ends(r)
  /\ UNCHANGED <<shop, dish, order, strayed>>

SaveOrder(r, o) ==
  /\ req[r].pc = "priced"
  /\ order[o] = None
  /\ order' = [order EXCEPT ![o] =
                 [restaurant |-> req[r].on, cart |-> req[r].cart,
                  total |-> req[r].total]]
  /\ Ends(r)
  /\ UNCHANGED <<shop, dish, strayed>>

\* A query of the request fails, or its server stops.
Fail(r) ==
  /\ req[r].pc # "idle"
  /\ Ends(r)
  /\ UNCHANGED <<shop, dish, order, strayed>>

-----------------------------------------------------------------------------
\* Bodies that name what their DTO lists, with the id that the path names.
Plain(r) ==
  \E u \in Users :
    \/ \E s \in Restaurants :
         \/ \E new \in Shop :
              /\ shop[s] = None /\ ~ new.deleted
              /\ CreateRestaurant(r, s, u, new)
         \/ \E new \in Shop, asked \in SUBSET ShopListed :
              UpdateRestaurant(r, s, u, s, new, asked)
         \/ \E new \in Dish :
              ~ new.deleted /\ CreateDish(r, s, u, None, new)
    \/ \E d \in Dishes :
         \/ \E new \in Dish, asked \in SUBSET DishListed :
              UpdateDish(r, d, u, d, new, asked)
         \/ DeleteDish(r, d, u)

\* Other bodies.
Stray(r) ==
  \E u \in Users, s \in Restaurants :
    \/ \E new \in ShopDrafts :
         \/ CreateRestaurant(r, s, u, new)
         \/ \E t \in Restaurants :
              UpdateRestaurant(r, t, u, s, new, ShopColumns)
    \/ \E new \in DishDrafts, e \in Dishes :
         \/ CreateDish(r, s, u, e, new)
         \/ \E d \in Dishes : UpdateDish(r, d, u, e, new, DishColumns)

\* The queries after the first.
Serve(r) ==
  \/ SaveRestaurant(r)
  \/ \E d \in Dishes : AddDish(r, d)
  \/ LoadDish(r)
  \/ SaveDish(r)
  \/ SoftDelete(r)
  \/ \E s \in Restaurants, cart \in Carts : CreateOrder(r, s, cart)
  \/ PriceOrder(r)
  \/ \E o \in Orders : SaveOrder(r, o)
  \/ Fail(r)

Step ==
  \E r \in Requests :
    \/ Plain(r)
    \/ Stray(r) /\ Cardinality(strayed') <= MaxStrayed
    \/ Serve(r)

\* Every step notes the menu it leaves behind.
Next == Step /\ past' = past \cup {Menu'}

Spec == Init /\ [][Next]_vars

-----------------------------------------------------------------------------
\* What an order costs is what restaurant and dishes cost together at one
\* moment, and all of its dishes were to be had at that moment, however long
\* the request took and whatever changed meanwhile (order.service.ts:37-82).
PricedAtOneMoment ==
  \A o \in Orders :
    order[o] # None =>
      \E m \in past :
        /\ Offered(m, order[o].restaurant, order[o].cart)
        /\ order[o].total = Total(m, order[o].restaurant, order[o].cart)

\* A change of a restaurant writes the columns it was asked to write; it does
\* not put back what another one changed (restaurant.service.ts:71-94). This
\* does not hold of a restaurant that a body has named by its id, or given
\* columns that UpdateRestaurantDto does not list.
RestaurantChangedAsAsked ==
  [][\A s \in Restaurants \ strayed' :
       shop[s] # None /\ shop'[s] # shop[s] =>
         \E r \in Requests :
           /\ req[r].pc = "saving" /\ req[r].on = s
           /\ \A k \in ShopColumns \ req[r].columns :
                shop'[s][k] = shop[s][k]]_vars

\* Once a dish is deleted and no update that read it before is under way, it
\* never changes or comes back: no later request can touch it
\* (dish.service.ts:37-83), but by a body that names it or its columns.
BeingUpdated(d) ==
  \E r \in Requests : req[r].pc \in {"changed", "diffed"} /\ req[r].on = d

QuietDeletionFinal ==
  [][\A d \in Dishes \ strayed' :
       Stored(d) /\ dish[d].deleted /\ ~ BeingUpdated(d)
         => dish'[d] = dish[d] /\ ~ BeingUpdated(d)']_vars

-----------------------------------------------------------------------------
\* The inductive invariant. Read views are menus of the past, no row goes
\* away, and an update whose body names what it may has not changed the rest.
InFlight(r) ==
  LET s == req[r].on  entity == req[r].entity IN
  /\ req[r].pc = "saving"
       => /\ s \in Restaurants
          /\ req[r].view \in past
          /\ entity \in Shop
          /\ req[r].view.shop[s] # None
               => /\ shop[s] # None
                  /\ s \notin strayed
                       => \A k \in ShopColumns \ req[r].columns :
                            entity[k] = req[r].view.shop[s][k]
  /\ req[r].pc \in {"adding", "changed", "diffed"} => entity \in Dish
  /\ req[r].pc = "changed" => s \in Dishes
  /\ req[r].pc \in {"diffed", "deleting"} => s \in Dishes /\ Stored(s)
  /\ req[r].pc \in {"reading", "priced"}
       => /\ req[r].on \in Restaurants
          /\ req[r].cart \in Carts
          /\ req[r].view \in past
  /\ req[r].pc = "priced"
       => /\ Offered(req[r].view, req[r].on, req[r].cart)
          /\ req[r].total = Total(req[r].view, req[r].on, req[r].cart)

IInv ==
  /\ TypeOK
  /\ Menu \in past
  /\ \A r \in Requests : InFlight(r)
  /\ PricedAtOneMoment

=============================================================================
