------------------------- MODULE MenuServiceProofs -------------------------
(***************************************************************************)
(* Proofs about MenuService, for any number of restaurants, dishes, carts  *)
(* and concurrent requests: an order costs what one menu asked for it, and *)
(* a change of a restaurant writes what it was asked to write. Both rest   *)
(* on the read views of the two transactions, which are menus there have   *)
(* been; how a total is added up does not matter to the argument.          *)
(***************************************************************************)
EXTENDS MenuService, TLAPS

\* Records of requests.
LEMMA EditingType ==
  ASSUME NEW pc \in PCs, NEW on \in Restaurants \cup Dishes \cup {None},
         NEW view \in Menus \cup {None}, NEW x \in Shop \cup Dish \cup {None},
         NEW columns \in SUBSET Columns
  PROVE  /\ Editing(pc, on, view, x, columns) \in Request
         /\ Editing(pc, on, view, x, columns).pc = pc
         /\ Editing(pc, on, view, x, columns).on = on
         /\ Editing(pc, on, view, x, columns).view = view
         /\ Editing(pc, on, view, x, columns).entity = x
         /\ Editing(pc, on, view, x, columns).columns = columns
BY DEF Editing, Request

LEMMA PlacingType ==
  ASSUME NEW pc \in PCs, NEW s \in Restaurants, NEW view \in Menus,
         NEW cart \in Carts, NEW total \in Totals \cup {None}
  PROVE  /\ Placing(pc, s, view, cart, total) \in Request
         /\ Placing(pc, s, view, cart, total).pc = pc
         /\ Placing(pc, s, view, cart, total).on = s
         /\ Placing(pc, s, view, cart, total).view = view
         /\ Placing(pc, s, view, cart, total).cart = cart
         /\ Placing(pc, s, view, cart, total).total = total
BY DEF Placing, Request, Columns

LEMMA IdleType == Idle \in Request /\ Idle.pc = "idle"
BY EditingType DEF Idle, PCs

\* Rows are rewritten by column.
LEMMA RenewedType ==
  ASSUME NEW old \in Shop, NEW new \in Shop, NEW asked
  PROVE  /\ Renewed(old, new, asked) \in Shop
         /\ \A k \in ShopColumns \ asked : Renewed(old, new, asked)[k] = old[k]
BY DEF Renewed, Shop, ShopColumns, ShopListed

\* What creates a row sets its owner or its restaurant.
LEMMA OwnedType ==
  ASSUME NEW new \in Shop, NEW u \in Users
  PROVE  Renewed(new, [new EXCEPT !.owner = u], {"owner"}) \in Shop
BY DEF Renewed, Shop

LEMMA HousedType ==
  ASSUME NEW new \in Dish, NEW s \in Restaurants
  PROVE  Merged(new, [new EXCEPT !.home = s], {"home"}) \in Dish
BY DEF Merged, Dish

LEMMA MergedType ==
  ASSUME NEW old \in Dish, NEW new \in Dish, NEW columns
  PROVE  Merged(old, new, columns) \in Dish
BY DEF Merged, Dish

LEMMA TotalType ==
  ASSUME NEW m \in Menus, NEW s \in Restaurants, NEW cart \in Carts,
         Offered(m, s, cart)
  PROVE  Total(m, s, cart) \in Totals
<1> DEFINE c == <<m, s, cart>>
<1>1. /\ c \in Menus \X Restaurants \X Carts
      /\ c[1] = m /\ c[2] = s /\ c[3] = cart
  OBVIOUS
<1> HIDE DEF c
<1>2. Offered(c[1], c[2], c[3]) /\ Total(m, s, cart) = Total(c[1], c[2], c[3])
  BY <1>1
<1> QED
  BY <1>1, <1>2 DEF Totals

\* The menu a step leaves behind is noted, and no row goes away.
Noted == past' = past \cup {Menu'}
Others(r) == \A q \in Requests : q # r => req'[q] = req[q]
RowsKept ==
  /\ \A s \in Restaurants : shop[s] # None => shop'[s] # None
  /\ \A d \in Dishes : Stored(d) => Stored(d)'
  /\ strayed \subseteq strayed'

LEMMA PricesKept ==
  ASSUME IInv, Noted, UNCHANGED order
  PROVE  PricedAtOneMoment'
BY DEF IInv, PricedAtOneMoment, Noted

\* What a step of request r has to establish.
LEMMA StepPreserves ==
  ASSUME IInv, Noted, NEW r \in Requests,
         shop' \in [Restaurants -> Shop \cup {None}],
         dish' \in [Dishes -> Dish \cup {None}],
         order' \in [Orders -> Bill \cup {None}],
         req' \in [Requests -> Request],
         strayed' \subseteq Restaurants \cup Dishes,
         Others(r), RowsKept, InFlight(r)', PricedAtOneMoment'
  PROVE  IInv'
<1>1. Menu' \in Menus
  BY DEF Menu, Menus
<1>2. TypeOK' /\ Menu' \in past'
  BY <1>1 DEF IInv, TypeOK, Noted
<1>3. ASSUME NEW q \in Requests PROVE InFlight(q)'
  <2>1. CASE q = r
    BY <2>1
  <2>2. CASE q # r
    <3>1. InFlight(q) /\ req'[q] = req[q]
      BY <2>2 DEF Others, IInv
    <3> QED
      BY <3>1 DEF InFlight, RowsKept, Noted
  <2> QED
    BY <2>1, <2>2
<1> QED
  BY <1>2, <1>3 DEF IInv

\* A request moves on to record q and leaves the tables alone.
LEMMA MoveStep ==
  ASSUME IInv, Noted, NEW r \in Requests, NEW q \in Request,
         req' = [req EXCEPT ![r] = q], UNCHANGED <<shop, dish, order>>,
         strayed \subseteq strayed', strayed' \subseteq Restaurants \cup Dishes,
         InFlight(r)'
  PROVE  IInv'
<1>1. /\ req' \in [Requests -> Request] /\ Others(r) /\ RowsKept
  BY DEF IInv, TypeOK, Others, RowsKept, Stored
<1> QED
  BY <1>1, PricesKept, StepPreserves DEF IInv, TypeOK

\* A request ends, having rewritten rows of shop or dish.
LEMMA EndStep ==
  ASSUME IInv, Noted, NEW r \in Requests, Ends(r),
         shop' \in [Restaurants -> Shop \cup {None}],
         dish' \in [Dishes -> Dish \cup {None}],
         order' \in [Orders -> Bill \cup {None}],
         UNCHANGED strayed, RowsKept, PricedAtOneMoment'
  PROVE  IInv'
<1>1. req' \in [Requests -> Request] /\ Others(r) /\ req'[r] = Idle
  BY IdleType DEF IInv, TypeOK, Others, Ends
<1>2. InFlight(r)'
  BY <1>1, IdleType DEF InFlight
<1> QED
  BY <1>1, <1>2, StepPreserves DEF IInv, TypeOK

LEMMA QuietEndStep ==
  ASSUME IInv, Noted, NEW r \in Requests, Ends(r),
         UNCHANGED <<shop, dish, order, strayed>>
  PROVE  IInv'
BY PricesKept, EndStep DEF IInv, TypeOK, RowsKept, Stored

LEMMA InitCorrect == Init => IInv
<1> SUFFICES ASSUME Init PROVE IInv
  OBVIOUS
<1>1. /\ shop \in [Restaurants -> Shop \cup {None}]
      /\ dish \in [Dishes -> Dish \cup {None}]
  BY DEF Init
<1>2. Menu \in Menus
  BY <1>1 DEF Menu, Menus
<1>3. TypeOK /\ Menu \in past
  BY <1>1, <1>2, IdleType DEF Init, TypeOK
<1>4. \A r \in Requests : InFlight(r)
  BY IdleType DEF Init, InFlight
<1>5. PricedAtOneMoment
  BY DEF Init, PricedAtOneMoment
<1> QED
  BY <1>3, <1>4, <1>5 DEF IInv

LEMMA CreateRestaurantStep ==
  ASSUME IInv, Noted, NEW r \in Requests, NEW s \in Restaurants,
         NEW u \in Users, NEW new \in Shop, CreateRestaurant(r, s, u, new)
  PROVE  IInv'
<1> DEFINE entity == Renewed(new, [new EXCEPT !.owner = u], {"owner"})
           q == Editing("saving", s, Menu, entity, {})
<1>1. entity \in Shop
  BY OwnedType
<1>2. req' = [req EXCEPT ![r] = q]
  BY DEF CreateRestaurant
<1> HIDE DEF entity
<1>3. Menu \in Menus /\ Menu \in past /\ Menu.shop[s] = shop[s]
  BY DEF IInv, TypeOK, Menu
<1>4. "saving" \in PCs
  BY DEF PCs
<1>5. /\ q \in Request /\ q.pc = "saving" /\ q.on = s /\ q.view = Menu
      /\ q.entity = entity
  BY <1>1, <1>3, <1>4, EditingType
<1> HIDE DEF q
<1>6. /\ UNCHANGED <<shop, dish, order>>
      /\ strayed \subseteq strayed' /\ strayed' \subseteq Restaurants \cup Dishes
      /\ shop[s] # None => s \in strayed'
  BY DEF CreateRestaurant, IInv, TypeOK
<1>7. req'[r] = q
  BY <1>2 DEF IInv, TypeOK
<1>8. q.view \in past'
  BY <1>3, <1>5 DEF Noted
<1>9. InFlight(r)'
  BY <1>1, <1>3, <1>5, <1>6, <1>7, <1>8 DEF InFlight
<1> QED
  BY <1>2, <1>5, <1>6, <1>9, MoveStep

LEMMA UpdateRestaurantStep ==
  ASSUME IInv, Noted, NEW r \in Requests, NEW s \in Restaurants, NEW u \in Users,
         NEW t \in Restaurants, NEW new \in Shop,
         NEW asked \in SUBSET ShopColumns,
         UpdateRestaurant(r, s, u, t, new, asked)
  PROVE  IInv'
<1> DEFINE entity == Renewed(shop[s], new, asked)
           q == Editing("saving", t, Menu, entity, asked)
<1>1. shop[s] \in Shop /\ shop[s] # None
  BY DEF UpdateRestaurant, Open, IInv, TypeOK
<1>2. entity \in Shop /\ \A k \in ShopColumns \ asked : entity[k] = shop[s][k]
  BY <1>1, RenewedType
<1> HIDE DEF entity
<1>3. Menu \in Menus /\ Menu \in past /\ Menu.shop[t] = shop[t]
  BY DEF IInv, TypeOK, Menu
<1>4. "saving" \in PCs /\ asked \in SUBSET Columns
  BY DEF PCs, Columns
<1>5. /\ q \in Request /\ q.pc = "saving" /\ q.on = t /\ q.view = Menu
      /\ q.entity = entity /\ q.columns = asked
  BY <1>2, <1>3, <1>4, EditingType
<1>6. req' = [req EXCEPT ![r] = q] /\ UNCHANGED <<shop, dish, order>>
  BY DEF UpdateRestaurant, entity
<1> HIDE DEF q
<1>7. /\ strayed \subseteq strayed' /\ strayed' \subseteq Restaurants \cup Dishes
      /\ t \notin strayed' => t = s
  BY DEF UpdateRestaurant, IInv, TypeOK
<1>8. req'[r] = q /\ q.view \in past'
  BY <1>3, <1>5, <1>6 DEF IInv, TypeOK, Noted
<1>9. t \notin strayed'
        => \A k \in ShopColumns \ q.columns : q.entity[k] = q.view.shop[t][k]
  BY <1>2, <1>3, <1>5, <1>7
<1>10. q.view.shop[t] # None => shop'[t] # None
  BY <1>3, <1>5, <1>6
<1>11. InFlight(r)'
  BY <1>2, <1>5, <1>8, <1>9, <1>10 DEF InFlight
<1> QED
  BY <1>5, <1>6, <1>7, <1>11, MoveStep

\* The row that SaveRestaurant leaves.
LEMMA SaveRestaurantRow ==
  ASSUME IInv, NEW r \in Requests, SaveRestaurant(r)
  PROVE  \E s \in Restaurants, row \in Shop :
           /\ s = req[r].on
           /\ shop' = [shop EXCEPT ![s] = row]
           /\ shop[s] # None /\ s \notin strayed =>
                \A k \in ShopColumns \ req[r].columns : row[k] = shop[s][k]
<1>1. PICK s \in Restaurants : s = req[r].on
  BY DEF SaveRestaurant, IInv, InFlight
<1> DEFINE seen == req[r].view.shop[s]
           entity == req[r].entity
           diff == {k \in ShopColumns : entity[k] # seen[k]}
           row == IF seen # None THEN Renewed(shop[s], entity, diff)
                  ELSE IF shop[s] = None THEN entity
                  ELSE shop[s]
<1>2. shop' = [shop EXCEPT ![s] = row]
  BY <1>1 DEF SaveRestaurant
<1>3. /\ entity \in Shop
      /\ seen # None => shop[s] # None
      /\ seen # None /\ s \notin strayed =>
           \A k \in ShopColumns \ req[r].columns : entity[k] = seen[k]
  BY <1>1 DEF SaveRestaurant, IInv, InFlight
<1>4. shop[s] # None => shop[s] \in Shop
  BY DEF IInv, TypeOK
<1>5. /\ row \in Shop
      /\ shop[s] # None /\ s \notin strayed =>
           \A k \in ShopColumns \ req[r].columns : row[k] = shop[s][k]
  <2>1. CASE seen # None
    <3>1. shop[s] \in Shop /\ entity \in Shop
      BY <1>3, <1>4, <2>1
    <3>2. s \notin strayed =>
            \A k \in ShopColumns \ req[r].columns : k \notin diff
      BY <1>3, <2>1
    <3>3. row = Renewed(shop[s], entity, diff)
      BY <2>1
    <3> HIDE DEF row, diff, entity, seen
    <3>4. /\ row \in Shop
          /\ \A k \in ShopColumns \ diff : row[k] = shop[s][k]
      BY <3>1, <3>3, RenewedType
    <3> QED
      BY <3>2, <3>4
  <2>2. CASE seen = None /\ shop[s] = None
    BY <1>3, <2>2
  <2>3. CASE seen = None /\ shop[s] # None
    <3>1. row = shop[s] /\ shop[s] \in Shop
      BY <1>4, <2>3
    <3> HIDE DEF row
    <3> QED
      BY <3>1
  <2> QED
    BY <2>1, <2>2, <2>3
<1> HIDE DEF row
<1> QED
  BY <1>1, <1>2, <1>5, Zenon

LEMMA SaveRestaurantStep ==
  ASSUME IInv, Noted, NEW r \in Requests, SaveRestaurant(r)
  PROVE  IInv'
<1>1. PICK s \in Restaurants, row \in Shop : shop' = [shop EXCEPT ![s] = row]
  BY SaveRestaurantRow
<1>2. UNCHANGED <<dish, order, strayed>> /\ Ends(r)
  BY DEF SaveRestaurant
<1>3. row # None
  BY NoneIsNew
<1>4. /\ shop' \in [Restaurants -> Shop \cup {None}]
      /\ dish' \in [Dishes -> Dish \cup {None}]
      /\ RowsKept
  BY <1>1, <1>2, <1>3 DEF IInv, TypeOK, RowsKept, Stored
<1> QED
  BY <1>2, <1>4, PricesKept, EndStep DEF IInv, TypeOK

LEMMA CreateDishStep ==
  ASSUME IInv, Noted, NEW r \in Requests, NEW s \in Restaurants,
         NEW u \in Users, NEW d \in Dishes \cup {None}, NEW new \in Dish,
         CreateDish(r, s, u, d, new)
  PROVE  IInv'
<1> DEFINE entity == Merged(new, [new EXCEPT !.home = s], {"home"})
           pc == IF d = None THEN "adding" ELSE "changed"
           q == Editing(pc, d, None, entity, {})
<1>1. entity \in Dish /\ pc \in PCs
  BY HousedType DEF PCs
<1>2. req' = [req EXCEPT ![r] = q]
  BY DEF CreateDish
<1>3. pc = "adding" \/ (pc = "changed" /\ d \in Dishes)
  BY Zenon
<1> HIDE DEF entity, pc
<1>4. q \in Request /\ q.pc = pc /\ q.on = d /\ q.entity = entity
  BY <1>1, EditingType
<1> HIDE DEF q
<1>5. /\ UNCHANGED <<shop, dish, order>>
      /\ strayed \subseteq strayed' /\ strayed' \subseteq Restaurants \cup Dishes
  BY DEF CreateDish, IInv, TypeOK
<1>6. req'[r] = q
  BY <1>2 DEF IInv, TypeOK
<1>7. InFlight(r)'
  BY <1>1, <1>3, <1>4, <1>6 DEF InFlight
<1> QED
  BY <1>2, <1>4, <1>5, <1>7, MoveStep

LEMMA AddDishStep ==
  ASSUME IInv, Noted, NEW r \in Requests, NEW d \in Dishes, AddDish(r, d)
  PROVE  IInv'
<1>1. req[r].entity \in Dish
  BY DEF AddDish, IInv, InFlight
<1>2. /\ shop' \in [Restaurants -> Shop \cup {None}]
      /\ dish' \in [Dishes -> Dish \cup {None}]
      /\ RowsKept
  BY <1>1, NoneIsNew DEF AddDish, IInv, TypeOK, RowsKept, Stored
<1> QED
  BY <1>2, PricesKept, EndStep DEF AddDish, IInv, TypeOK

LEMMA UpdateDishStep ==
  ASSUME IInv, Noted, NEW r \in Requests, NEW d \in Dishes, NEW u \in Users,
         NEW e \in Dishes, NEW new \in Dish, NEW asked \in SUBSET DishColumns,
         UpdateDish(r, d, u, e, new, asked)
  PROVE  IInv'
<1> DEFINE entity == Merged(dish[d], new, asked)
           q == Editing("changed", e, None, entity, {})
<1>1. dish[d] \in Dish
  BY DEF UpdateDish, Live, Stored, IInv, TypeOK
<1>2. entity \in Dish /\ "changed" \in PCs
  BY <1>1, MergedType DEF PCs
<1> HIDE DEF entity
<1>3. q \in Request /\ q.pc = "changed" /\ q.on = e /\ q.entity = entity
  BY <1>2, EditingType
<1>4. req' = [req EXCEPT ![r] = q] /\ UNCHANGED <<shop, dish, order>>
  BY DEF UpdateDish, entity
<1> HIDE DEF q
<1>5. strayed \subseteq strayed' /\ strayed' \subseteq Restaurants \cup Dishes
  BY DEF UpdateDish, IInv, TypeOK
<1>6. req'[r] = q
  BY <1>4 DEF IInv, TypeOK
<1>7. InFlight(r)'
  BY <1>2, <1>3, <1>4, <1>6 DEF InFlight
<1> QED
  BY <1>3, <1>4, <1>5, <1>7, MoveStep

LEMMA LoadDishStep ==
  ASSUME IInv, Noted, NEW r \in Requests, LoadDish(r)
  PROVE  IInv'
<1>1. PICK d \in Dishes, entity \in Dish : d = req[r].on /\ entity = req[r].entity
  BY DEF LoadDish, IInv, InFlight
<1> DEFINE diff == {k \in DishColumns : entity[k] # dish[d][k]}
           q == IF Stored(d) THEN Editing("diffed", d, None, entity, diff)
                             ELSE Editing("adding", d, None, entity, {})
<1>2. diff \in SUBSET Columns /\ "diffed" \in PCs /\ "adding" \in PCs
  BY DEF Columns, PCs
<1>3. /\ req' = [req EXCEPT ![r] = q]
      /\ UNCHANGED <<shop, dish, order, strayed>>
  BY <1>1 DEF LoadDish
<1> HIDE DEF diff
<1>4. /\ q \in Request /\ q.on = d /\ q.entity = entity
      /\ (q.pc = "diffed" /\ Stored(d)) \/ q.pc = "adding"
  <2>1. CASE Stored(d)
    <3>1. q = Editing("diffed", d, None, entity, diff)
      BY <2>1
    <3> HIDE DEF q
    <3> QED
      BY <1>2, <2>1, <3>1, EditingType
  <2>2. CASE ~ Stored(d)
    <3>1. q = Editing("adding", d, None, entity, {}) /\ {} \in SUBSET Columns
      BY <2>2
    <3> HIDE DEF q
    <3> QED
      BY <1>2, <3>1, EditingType
  <2> QED
    BY <2>1, <2>2
<1> HIDE DEF q
<1>5. req'[r] = q
  BY <1>3 DEF IInv, TypeOK
<1>6. InFlight(r)'
  BY <1>1, <1>3, <1>4, <1>5 DEF InFlight, Stored
<1> QED
  BY <1>3, <1>4, <1>6, MoveStep DEF IInv, TypeOK

\* A dish that is there is given another row.
LEMMA RewriteDish ==
  ASSUME IInv, Noted, NEW r \in Requests, NEW d \in Dishes, NEW row \in Dish,
         dish' = [dish EXCEPT ![d] = row], Ends(r),
         UNCHANGED <<shop, order, strayed>>
  PROVE  IInv'
<1>1. /\ shop' \in [Restaurants -> Shop \cup {None}]
      /\ dish' \in [Dishes -> Dish \cup {None}]
      /\ RowsKept
  BY NoneIsNew DEF IInv, TypeOK, RowsKept, Stored
<1> QED
  BY <1>1, PricesKept, EndStep DEF IInv, TypeOK

LEMMA SaveDishStep ==
  ASSUME IInv, Noted, NEW r \in Requests, SaveDish(r)
  PROVE  IInv'
<1>1. PICK d \in Dishes : d = req[r].on /\ Stored(d) /\ req[r].entity \in Dish
  BY DEF SaveDish, IInv, InFlight
<1>2. dish[d] \in Dish
  BY <1>1 DEF Stored, IInv, TypeOK
<1> DEFINE merged == Merged(dish[d], req[r].entity, req[r].columns)
           row == IF shop[merged.home] # None THEN merged ELSE dish[d]
<1>3. merged \in Dish
  BY <1>1, <1>2, MergedType
<1>4. dish' = [dish EXCEPT ![d] = row]
  BY <1>1 DEF SaveDish
<1> HIDE DEF merged
<1>5. row \in Dish
  BY <1>2, <1>3
<1> HIDE DEF row
<1> QED
  BY <1>4, <1>5, RewriteDish DEF SaveDish

LEMMA DeleteDishStep ==
  ASSUME IInv, Noted, NEW r \in Requests, NEW d \in Dishes, NEW u \in Users,
         DeleteDish(r, d, u)
  PROVE  IInv'
<1> DEFINE q == Editing("deleting", d, None, None, {})
<1>1. "deleting" \in PCs
  BY DEF PCs
<1>2. q \in Request /\ q.pc = "deleting" /\ q.on = d
  BY <1>1, EditingType
<1>3. /\ req' = [req EXCEPT ![r] = q]
      /\ UNCHANGED <<shop, dish, order, strayed>>
      /\ Stored(d)
  BY DEF DeleteDish, Live
<1> HIDE DEF q
<1>4. req'[r] = q
  BY <1>3 DEF IInv, TypeOK
<1>5. InFlight(r)'
  BY <1>2, <1>3, <1>4 DEF InFlight, Stored
<1> QED
  BY <1>2, <1>3, <1>5, MoveStep DEF IInv, TypeOK

LEMMA SoftDeleteStep ==
  ASSUME IInv, Noted, NEW r \in Requests, SoftDelete(r)
  PROVE  IInv'
<1>1. PICK d \in Dishes : d = req[r].on /\ Stored(d)
  BY DEF SoftDelete, IInv, InFlight
<1>2. dish[d] \in Dish
  BY <1>1 DEF Stored, IInv, TypeOK
<1> DEFINE row == [price |-> dish[d].price, extra |-> dish[d].extra,
                   home |-> dish[d].home, deleted |-> TRUE]
<1>3. row \in Dish
  BY <1>2 DEF Dish
<1>4. dish' = [dish EXCEPT ![d] = row]
  BY <1>1 DEF SoftDelete
<1> HIDE DEF row
<1> QED
  BY <1>3, <1>4, RewriteDish DEF SoftDelete

LEMMA CreateOrderStep ==
  ASSUME IInv, Noted, NEW r \in Requests, NEW s \in Restaurants,
         NEW cart \in Carts, CreateOrder(r, s, cart)
  PROVE  IInv'
<1> DEFINE q == Placing("reading", s, Menu, cart, None)
<1>1. Menu \in Menus /\ Menu \in past /\ "reading" \in PCs
  BY DEF IInv, TypeOK, PCs
<1>2. /\ q \in Request /\ q.pc = "reading" /\ q.on = s /\ q.view = Menu
      /\ q.cart = cart
  BY <1>1, PlacingType
<1>3. /\ req' = [req EXCEPT ![r] = q]
      /\ UNCHANGED <<shop, dish, order, strayed>>
  BY DEF CreateOrder
<1> HIDE DEF q
<1>4. req'[r] = q /\ q.view \in past'
  BY <1>1, <1>2, <1>3 DEF IInv, TypeOK, Noted
<1>5. InFlight(r)'
  BY <1>2, <1>4 DEF InFlight
<1> QED
  BY <1>2, <1>3, <1>5, MoveStep DEF IInv, TypeOK

LEMMA PriceOrderStep ==
  ASSUME IInv, Noted, NEW r \in Requests, PriceOrder(r)
  PROVE  IInv'
<1>1. PICK s \in Restaurants, m \in past, cart \in Carts :
        s = req[r].on /\ m = req[r].view /\ cart = req[r].cart
  BY DEF PriceOrder, IInv, InFlight
<1>2. m \in Menus
  BY DEF IInv, TypeOK
<1>3. CASE ~ Offered(m, s, cart)
  BY <1>1, <1>3, QuietEndStep DEF PriceOrder
<1>4. CASE Offered(m, s, cart)
  <2> DEFINE q == Placing("priced", s, m, cart, Total(m, s, cart))
  <2>1. Total(m, s, cart) \in Totals /\ "priced" \in PCs
    BY <1>2, <1>4, TotalType DEF PCs
  <2>2. /\ q \in Request /\ q.pc = "priced" /\ q.on = s /\ q.view = m
        /\ q.cart = cart /\ q.total = Total(m, s, cart)
    BY <1>2, <2>1, PlacingType
  <2>3. /\ req' = [req EXCEPT ![r] = q]
        /\ UNCHANGED <<shop, dish, order, strayed>>
    BY <1>1, <1>4 DEF PriceOrder
  <2> HIDE DEF q
  <2>4. req'[r] = q /\ m \in past'
    BY <2>3 DEF IInv, TypeOK, Noted
  <2>5. /\ Offered(q.view, q.on, q.cart)
        /\ q.total = Total(q.view, q.on, q.cart)
    BY <1>4, <2>2
  <2>6. InFlight(r)'
    BY <2>2, <2>4, <2>5 DEF InFlight
  <2> QED
    BY <2>2, <2>3, <2>6, MoveStep DEF IInv, TypeOK
<1> QED
  BY <1>3, <1>4

LEMMA SaveOrderStep ==
  ASSUME IInv, Noted, NEW r \in Requests, NEW o \in Orders, SaveOrder(r, o)
  PROVE  IInv'
<1>1. PICK s \in Restaurants, m \in past, cart \in Carts :
        /\ s = req[r].on /\ m = req[r].view /\ cart = req[r].cart
        /\ Offered(m, s, cart) /\ req[r].total = Total(m, s, cart)
  BY DEF SaveOrder, IInv, InFlight
<1> DEFINE bill == [restaurant |-> s, cart |-> cart, total |-> Total(m, s, cart)]
<1>2. Total(m, s, cart) \in Totals
  BY <1>1, TotalType DEF IInv, TypeOK
<1>3. /\ bill \in Bill /\ bill.restaurant = s /\ bill.cart = cart
      /\ bill.total = Total(m, s, cart)
  BY <1>2 DEF Bill
<1>4. order' = [order EXCEPT ![o] = bill] /\ UNCHANGED <<shop, dish, strayed>>
  BY <1>1 DEF SaveOrder
<1> HIDE DEF bill
<1>5. order' \in [Orders -> Bill \cup {None}]
  BY <1>3, <1>4 DEF IInv, TypeOK
<1>6. PricedAtOneMoment'
  <2> SUFFICES ASSUME NEW p \in Orders, order'[p] # None
               PROVE  \E n \in past' :
                        /\ Offered(n, order'[p].restaurant, order'[p].cart)
                        /\ order'[p].total
                             = Total(n, order'[p].restaurant, order'[p].cart)
    BY DEF PricedAtOneMoment
  <2>1. CASE p = o
    <3>1. order'[p] = bill /\ m \in past'
      BY <1>4, <2>1 DEF IInv, TypeOK, Noted
    <3> QED
      BY <1>1, <1>3, <3>1
  <2>2. CASE p # o
    BY <1>4, <2>2 DEF IInv, TypeOK, PricedAtOneMoment, Noted
  <2> QED
    BY <2>1, <2>2
<1>7. RowsKept
  BY <1>4 DEF RowsKept, Stored
<1> QED
  BY <1>4, <1>5, <1>6, <1>7, EndStep DEF SaveOrder, IInv, TypeOK

\* What a first query of a request does.
LEMMA FirstQuery ==
  ASSUME IInv, Noted, NEW r \in Requests, Plain(r) \/ Stray(r)
  PROVE  IInv'
<1>1. ASSUME Plain(r) PROVE IInv'
  <2>1. ASSUME NEW s \in Restaurants, NEW u \in Users, NEW new \in Shop,
               NEW asked \in SUBSET ShopListed,
               UpdateRestaurant(r, s, u, s, new, asked)
        PROVE  IInv'
    <3>1. asked \in SUBSET ShopColumns
      BY DEF ShopColumns
    <3> QED
      BY <2>1, <3>1, UpdateRestaurantStep
  <2>2. ASSUME NEW d \in Dishes, NEW u \in Users, NEW new \in Dish,
               NEW asked \in SUBSET DishListed, UpdateDish(r, d, u, d, new, asked)
        PROVE  IInv'
    <3>1. asked \in SUBSET DishColumns
      BY DEF DishColumns
    <3> QED
      BY <2>2, <3>1, UpdateDishStep
  <2> QED
    BY <1>1, <2>1, <2>2, CreateRestaurantStep, CreateDishStep, DeleteDishStep
       DEF Plain
<1>2. ASSUME Stray(r) PROVE IInv'
  <2>1. /\ ShopDrafts \subseteq Shop /\ DishDrafts \subseteq Dish
        /\ ShopColumns \in SUBSET ShopColumns
        /\ DishColumns \in SUBSET DishColumns
    BY DraftsAreRows
  <2> QED
    BY <1>2, <2>1, CreateRestaurantStep, UpdateRestaurantStep, CreateDishStep,
       UpdateDishStep DEF Stray
<1> QED
  BY <1>1, <1>2

LEMMA Inductive == IInv /\ [Next]_vars => IInv'
<1> SUFFICES ASSUME IInv, [Next]_vars PROVE IInv'
  OBVIOUS
<1>1. CASE UNCHANGED vars
  BY <1>1 DEF vars, IInv, TypeOK, Menu, InFlight, Stored, PricedAtOneMoment
<1>2. CASE Next
  <2>1. Noted
    BY <1>2 DEF Next, Noted
  <2>2. PICK r \in Requests : Plain(r) \/ Stray(r) \/ Serve(r)
    BY <1>2 DEF Next, Step
  <2>3. ASSUME Serve(r) PROVE IInv'
    <3>1. ASSUME Fail(r) PROVE IInv'
      BY <2>1, <3>1, QuietEndStep DEF Fail
    <3> QED
      BY <2>1, <2>3, <3>1, SaveRestaurantStep, AddDishStep, LoadDishStep,
         SaveDishStep, SoftDeleteStep, CreateOrderStep, PriceOrderStep,
         SaveOrderStep DEF Serve
  <2> QED
    BY <2>1, <2>2, <2>3, FirstQuery
<1> QED
  BY <1>1, <1>2

\* Everything below rests on this invariant of MenuService.
THEOREM Invariant == Spec => []IInv
BY InitCorrect, Inductive, PTL DEF Spec

\* An order is priced by one menu, and all it contains was on that menu
\* (order.service.ts:37-82).
THEOREM PricesCorrect == Spec => []PricedAtOneMoment
BY Invariant, PTL DEF IInv

\* First queries write no table.
LEMMA FirstQueryReads ==
  ASSUME NEW r \in Requests, Plain(r) \/ Stray(r)
  PROVE  UNCHANGED <<shop, dish>>
BY DEF Plain, Stray, CreateRestaurant, UpdateRestaurant, CreateDish, UpdateDish,
       DeleteDish

\* A change of a restaurant puts back nothing that others changed
\* (restaurant.service.ts:71-94).
THEOREM RestaurantsCorrect == Spec => RestaurantChangedAsAsked
<1> DEFINE AsAsked ==
             \A s \in Restaurants \ strayed' :
               shop[s] # None /\ shop'[s] # shop[s] =>
                 \E r \in Requests :
                   /\ req[r].pc = "saving" /\ req[r].on = s
                   /\ \A k \in ShopColumns \ req[r].columns :
                        shop'[s][k] = shop[s][k]
<1>1. ASSUME IInv, Next PROVE AsAsked
  <2> SUFFICES ASSUME NEW s \in Restaurants \ strayed', shop[s] # None,
                      shop'[s] # shop[s]
               PROVE  \E r \in Requests :
                        /\ req[r].pc = "saving" /\ req[r].on = s
                        /\ \A k \in ShopColumns \ req[r].columns :
                             shop'[s][k] = shop[s][k]
    OBVIOUS
  <2>1. shop \in [Restaurants -> Shop \cup {None}]
    BY <1>1 DEF IInv, TypeOK
  <2>2. PICK r \in Requests : SaveRestaurant(r)
    BY <1>1, FirstQueryReads
       DEF Next, Step, Serve, AddDish, LoadDish, SaveDish, SoftDelete,
           CreateOrder, PriceOrder, SaveOrder, Fail
  <2>3. PICK t \in Restaurants, row \in Shop :
          /\ t = req[r].on
          /\ shop' = [shop EXCEPT ![t] = row]
          /\ shop[t] # None /\ t \notin strayed =>
               \A k \in ShopColumns \ req[r].columns : row[k] = shop[t][k]
    BY <1>1, <2>2, SaveRestaurantRow
  <2>4. t = s /\ shop'[s] = row
    BY <2>1, <2>3
  <2>5. req[r].pc = "saving" /\ req[r].on = s /\ s \notin strayed
    BY <2>2, <2>3, <2>4 DEF SaveRestaurant
  <2>6. \A k \in ShopColumns \ req[r].columns : shop'[s][k] = shop[s][k]
    BY <2>3, <2>4, <2>5
  <2> QED
    BY <2>5, <2>6, Zenon
<1> HIDE DEF AsAsked
<1>2. IInv /\ [Next]_vars => [AsAsked]_vars
  BY <1>1
<1>3. Spec => [][AsAsked]_vars
  BY Invariant, <1>2, PTL DEF Spec
<1> QED
  BY <1>3 DEF RestaurantChangedAsAsked, AsAsked

\* Nor another request.
LEMMA FirstQueryAlone ==
  ASSUME NEW r \in Requests, req \in [Requests -> Request],
         Plain(r) \/ Stray(r), NEW p \in Requests \ {r}
  PROVE  req'[p] = req[p]
<1>1. ASSUME NEW s, NEW u, NEW new, CreateRestaurant(r, s, u, new)
      PROVE  req'[p] = req[p]
  BY <1>1 DEF CreateRestaurant
<1>2. ASSUME NEW s, NEW u, NEW t, NEW new, NEW asked,
             UpdateRestaurant(r, s, u, t, new, asked)
      PROVE  req'[p] = req[p]
  BY <1>2 DEF UpdateRestaurant
<1>3. ASSUME NEW s, NEW u, NEW d, NEW new, CreateDish(r, s, u, d, new)
      PROVE  req'[p] = req[p]
  BY <1>3 DEF CreateDish
<1>4. ASSUME NEW d, NEW u, NEW e, NEW new, NEW asked,
             UpdateDish(r, d, u, e, new, asked)
      PROVE  req'[p] = req[p]
  BY <1>4 DEF UpdateDish
<1>5. ASSUME NEW d, NEW u, DeleteDish(r, d, u) PROVE req'[p] = req[p]
  BY <1>5 DEF DeleteDish
<1> QED
  BY <1>1, <1>2, <1>3, <1>4, <1>5 DEF Plain, Stray

\* A first query that is about to rewrite dish d has read it undeleted, or its
\* body names d otherwise.
LEMMA FirstQueryOf ==
  ASSUME IInv, NEW r \in Requests, Plain(r) \/ Stray(r), NEW d \in Dishes,
         d \notin strayed', req'[r].pc \in {"changed", "diffed"}, req'[r].on = d
  PROVE  Live(d)
<1>1. req \in [Requests -> Request]
  BY DEF IInv, TypeOK
<1>2. ASSUME NEW s \in Restaurants, NEW u \in Users, NEW new,
             CreateRestaurant(r, s, u, new)
      PROVE  FALSE
  BY <1>1, <1>2 DEF CreateRestaurant, Editing
<1>3. ASSUME NEW s \in Restaurants, NEW u \in Users, NEW t, NEW new, NEW asked,
             UpdateRestaurant(r, s, u, t, new, asked)
      PROVE  FALSE
  BY <1>1, <1>3 DEF UpdateRestaurant, Editing
<1>4. ASSUME NEW s \in Restaurants, NEW u \in Users, NEW new, NEW e,
             CreateDish(r, s, u, e, new)
      PROVE  FALSE
  <2>1. CASE e = None
    BY <1>1, <1>4, <2>1 DEF CreateDish, Editing
  <2>2. CASE e # None
    <3>1. req'[r].on = e
      BY <1>1, <1>4 DEF CreateDish, Editing
    <3> QED
      BY <1>4, <2>2, <3>1 DEF CreateDish
  <2> QED
    BY <2>1, <2>2
<1>5. ASSUME NEW e \in Dishes, NEW u \in Users, NEW f, NEW new, NEW asked,
             UpdateDish(r, e, u, f, new, asked)
      PROVE  Live(d)
  <2>1. req'[r].on = f
    BY <1>1, <1>5 DEF UpdateDish, Editing
  <2> QED
    BY <1>5, <2>1 DEF UpdateDish
<1>6. ASSUME NEW e \in Dishes, NEW u \in Users, DeleteDish(r, e, u)
      PROVE  FALSE
  BY <1>1, <1>6 DEF DeleteDish, Editing
<1> QED
  BY <1>2, <1>3, <1>4, <1>5, <1>6 DEF Plain, Stray

\* A deleted dish that no request under way has read before stays as it is, and
\* no later request reads it (dish.service.ts:37-83).
THEOREM DeletionCorrect == Spec => QuietDeletionFinal
<1> DEFINE Kept == \A d \in Dishes \ strayed' :
                     Stored(d) /\ dish[d].deleted /\ ~ BeingUpdated(d)
                       => dish'[d] = dish[d] /\ ~ BeingUpdated(d)'
<1>1. ASSUME IInv, Next, NEW d \in Dishes, Stored(d), dish[d].deleted,
             ~ BeingUpdated(d)
      PROVE  dish'[d] = dish[d]
  <2>1. dish[d] \in Dish /\ dish \in [Dishes -> Dish \cup {None}]
    BY <1>1 DEF IInv, TypeOK, Stored
  <2>2. ASSUME NEW r \in Requests, NEW e \in Dishes, AddDish(r, e)
        PROVE  dish'[d] = dish[d]
    BY <1>1, <2>1, <2>2 DEF AddDish, Stored
  <2>3. ASSUME NEW r \in Requests, SaveDish(r) PROVE dish'[d] = dish[d]
    BY <1>1, <2>1, <2>3 DEF SaveDish, BeingUpdated
  <2>4. ASSUME NEW r \in Requests, SoftDelete(r) PROVE dish'[d] = dish[d]
    <3>1. CASE req[r].on = d
      <4>1. dish'[d] = [price |-> dish[d].price, extra |-> dish[d].extra,
                        home |-> dish[d].home, deleted |-> TRUE]
        BY <2>1, <2>4, <3>1 DEF SoftDelete
      <4>2. dish[d].deleted = TRUE
        BY <1>1, <2>1 DEF Dish
      <4> QED
        BY <2>1, <4>1, <4>2 DEF Dish
    <3>2. CASE req[r].on # d
      BY <2>1, <2>4, <3>2 DEF SoftDelete
    <3> QED
      BY <3>1, <3>2
  <2> QED
    BY <1>1, <2>2, <2>3, <2>4, FirstQueryReads
       DEF Next, Step, Serve, SaveRestaurant, LoadDish, CreateOrder, PriceOrder,
           SaveOrder, Fail
<1>2. ASSUME IInv, Next, NEW d \in Dishes \ strayed', Stored(d),
             dish[d].deleted, ~ BeingUpdated(d)
      PROVE  ~ BeingUpdated(d)'
  <2> SUFFICES ASSUME NEW q \in Requests, req'[q].on = d,
                      req'[q].pc \in {"changed", "diffed"}
               PROVE  FALSE
    BY DEF BeingUpdated
  <2>1. req \in [Requests -> Request]
    BY <1>2 DEF IInv, TypeOK
  <2>2. req'[q] # req[q]
    BY <1>2 DEF BeingUpdated
  <2>3. ASSUME NEW r \in Requests, Ends(r) PROVE FALSE
    BY <2>1, <2>2, <2>3 DEF Ends, Idle, Editing
  <2>4. ASSUME NEW r \in Requests, Plain(r) \/ Stray(r) PROVE FALSE
    <3>1. \A p \in Requests \ {r} : req'[p] = req[p]
      BY <2>1, <2>4, FirstQueryAlone
    <3>2. q = r
      BY <2>2, <3>1
    <3>3. Live(d)
      BY <1>2, <2>4, <3>2, FirstQueryOf
    <3> QED
      BY <1>2, <3>3 DEF Live
  <2>5. ASSUME NEW r \in Requests, LoadDish(r) PROVE FALSE
    <3>1. req[r].pc = "changed" /\ \A p \in Requests \ {r} : req'[p] = req[p]
      BY <2>1, <2>5 DEF LoadDish
    <3>2. q = r
      BY <2>2, <3>1
    <3>3. req'[r].on = req[r].on
      BY <2>1, <2>5 DEF LoadDish, Editing
    <3> QED
      BY <1>2, <3>1, <3>2, <3>3 DEF BeingUpdated
  <2>6. ASSUME NEW r \in Requests, NEW s \in Restaurants, NEW cart \in Carts,
               CreateOrder(r, s, cart)
        PROVE  FALSE
    BY <2>1, <2>2, <2>6 DEF CreateOrder, Placing
  <2>7. ASSUME NEW r \in Requests, PriceOrder(r) PROVE FALSE
    BY <2>1, <2>2, <2>3, <2>7 DEF PriceOrder, Placing
  <2> QED
    BY <1>2, <2>3, <2>4, <2>5, <2>6, <2>7
       DEF Next, Step, Serve, SaveRestaurant, AddDish, SaveDish, SoftDelete,
           SaveOrder, Fail
<1>3. IInv /\ [Next]_vars => [Kept]_vars
  BY <1>1, <1>2
<1> QED
  BY Invariant, <1>3, PTL DEF Spec, QuietDeletionFinal

=============================================================================
