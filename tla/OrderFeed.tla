----------------------------- MODULE OrderFeed -----------------------------
(***************************************************************************)
(* OrderService together with EventsGateway and the reads of orders: what  *)
(* a client gets to know of an order from the two. createOrder notifies    *)
(* after its commit, editOrderStatus before, and a client that has joined  *)
(* an order's room reads the order to have a status to begin with. A load  *)
(* balancer spreads requests and sockets over several tasks of the         *)
(* service, and a notice reaches only the sockets of the task it is sent   *)
(* by: the one that serves the request.                                    *)
(***************************************************************************)
EXTENDS OrderService

CONSTANTS
  Sockets,
  Tasks,      \* the running tasks of the service
  ServedOn    \* the task that serves the request in a slot

ASSUME SpreadOverTasks == ServedOn \in [Requests -> Tasks] /\ None \notin Tasks

VARIABLES
  at,         \* the task each socket is connected to
  rooms,      \* the rooms each socket is in
  heard,      \* the orders each socket has had a newPendingOrder of
  told,       \* the status each socket's client was last told of each order
  due,        \* orders its task committed while it was in the owner's room
  lost,       \* orders whose notice died with its request
  following,  \* orders of which the client should know the status
  reading,    \* the statuses in the answer that is on its way to each client
  fresh       \* those of them that no notice has come after

feed == <<at, rooms, heard, told, due, lost, following, reading, fresh>>
allVars == <<vars, feed>>

Gateway == INSTANCE EventsGateway WITH
  Sockets <- Sockets, Tasks <- Tasks, Users <- Users, Orders <- Orders,
  None <- None, at <- at, rooms <- rooms

-----------------------------------------------------------------------------
\* Reading orders

\* getOrders: what is listed for a user, by his role.
Listed(u) ==
  {o \in Orders : Exists(o) /\
     \/ u \in Clients /\ CustomerOf[o] = u
     \/ u \in Owners /\ OwnerOf[o] = u
     \/ u \in Drivers /\ \/ status[o] = "Cooked"
                         \/ status[o] = "PickedUp" /\ driver[o] = u}

\* getOrderById: what he may read; otherwise 403.
Readable(u, o) ==
  /\ Exists(o)
  /\ \/ u \in Clients /\ CustomerOf[o] = u
     \/ u \in Owners /\ OwnerOf[o] = u
     \/ u \in Drivers /\ (status[o] = "Cooked" \/ driver[o] = u)

-----------------------------------------------------------------------------
\* Notices

\* Faulty variant: the notice goes to who placed the order.
NoticeToCustomer(o) == Gateway!UserRoom(CustomerOf[o])

NoticeRoom(o) == Gateway!UserRoom(OwnerOf[o])

\* r is about to write the status of o.
Writing(r, o) ==
  req[r].order = o /\ req[r].pc = "saved" /\ "status" \in req[r].writes

Unsettled(o) == \E r \in Requests : Writing(r, o)

NoAnswer == [o \in Orders |-> None]

FeedInit ==
  /\ Init
  /\ Gateway!Init
  /\ heard = [k \in Sockets |-> {}]
  /\ told = [k \in Sockets |-> [o \in Orders |-> None]]
  /\ due = [k \in Sockets |-> {}]
  /\ lost = {}
  /\ following = [k \in Sockets |-> {}]
  /\ reading = [k \in Sockets |-> NoAnswer]
  /\ fresh = [k \in Sockets |-> {}]

\* The commit makes the notice due to the sockets in the owner's room of the
\* task that serves the request.
PlaceCommitted(r) ==
  LET o == req[r].order IN
  /\ CommitOrder(r)
  /\ due' = [k \in Sockets |->
       IF k \in Gateway!Hearers(Gateway!UserRoom(OwnerOf[o]), ServedOn[r])
         THEN due[k] \cup {o} ELSE due[k]]
  /\ UNCHANGED <<at, rooms, heard, told, lost, following, reading, fresh>>

PlaceAnnounced(r) ==
  LET o == req[r].order IN
  /\ AnnounceOrder(r)
  /\ heard' = [k \in Sockets |->
       IF k \in Gateway!Hearers(NoticeRoom(o), ServedOn[r])
         THEN heard[k] \cup {o} ELSE heard[k]]
  /\ UNCHANGED <<at, rooms, told, due, lost, following, reading, fresh>>

\* The room is told the requested status, whether or not the UPDATE writes it.
\* Where it does not, who hears of it may be told wrong; where it does, the
\* sockets of the other tasks are not told at all.
StatusAnnounced(r) ==
  LET o == req[r].order
      in == Gateway!Hearers(Gateway!OrderRoom(o), ServedOn[r])
      stores == "status" \in Writes(req[r])
  IN  /\ SaveStatus(r)
      /\ told' = [k \in Sockets |->
           IF k \in in THEN [told[k] EXCEPT ![o] = req[r].target] ELSE told[k]]
      /\ following' = [k \in Sockets |->
           IF (k \in in) <=> stores THEN following[k] ELSE following[k] \ {o}]
      /\ fresh' = [k \in Sockets |->
           IF k \in in \/ stores THEN fresh[k] \ {o} ELSE fresh[k]]
      /\ UNCHANGED <<at, rooms, heard, due, lost, reading>>

\* A request that dies takes with it a notice not yet sent, or leaves the room
\* with a status that is not committed.
RequestDies(r) ==
  LET o == req[r].order IN
  /\ Fail(r)
  /\ lost' = IF req[r].pc = "placed" THEN lost \cup {o} ELSE lost
  /\ following' = [k \in Sockets |->
       IF Writing(r, o) THEN following[k] \ {o} ELSE following[k]]
  /\ UNCHANGED <<at, rooms, heard, told, due, reading, fresh>>

\* The other steps of the service send nothing.
OrderStep ==
  /\ \/ \E r \in Requests :
          \/ \E o \in Orders : CreateOrder(r, o)
          \/ \E u \in Users, o \in Orders, s \in OrderStatus :
               EditOrderStatus(r, u, o, s)
          \/ CommitStatus(r)
          \/ \E u \in Users, o \in Orders : ProcessPayment(r, u, o)
          \/ SavePayment(r)
     \/ \E o \in Orders : GrowStale(o) \/ ScanRow(o)
     \/ HandleCron
  /\ UNCHANGED feed

-----------------------------------------------------------------------------
\* Sockets and their clients

Connect(k, task) ==
  /\ Gateway!Connect(k, task)
  /\ UNCHANGED <<vars, heard, told, due, lost, following, reading, fresh>>

JoinUserRoom(k, u) ==
  /\ Gateway!JoinUserRoom(k, u)
  /\ UNCHANGED <<vars, heard, told, due, lost, following, reading, fresh>>

JoinOrderRoom(k, o) ==
  /\ Gateway!JoinOrderRoom(k, o)
  /\ UNCHANGED <<vars, heard, told, due, lost, following, reading, fresh>>

\* The connection breaks; the client keeps what it knows.
Disconnect(k) ==
  /\ Gateway!Disconnect(k)
  /\ due' = [due EXCEPT ![k] = {}]
  /\ following' = [following EXCEPT ![k] = {}]
  /\ fresh' = [fresh EXCEPT ![k] = {}]
  /\ UNCHANGED <<vars, heard, told, lost, reading>>

\* The rows os are read for the client of k. Those count whose room it is in
\* and whose status no transaction is about to change.
Read(k, os) ==
  /\ reading[k] = NoAnswer
  /\ reading' = [reading EXCEPT ![k] =
       [o \in Orders |-> IF o \in os THEN status[o] ELSE None]]
  /\ fresh' = [fresh EXCEPT ![k] =
       {o \in os : Gateway!OrderRoom(o) \in rooms[k] /\ ~ Unsettled(o)}]
  /\ UNCHANGED <<vars, at, rooms, heard, told, due, lost, following>>

\* The answer reaches the client, over another connection than the notices:
\* it takes the place of what a notice has told since the rows were read.
Receive(k) ==
  LET os == {o \in Orders : reading[k][o] # None} IN
  /\ os # {}
  /\ told' = [told EXCEPT ![k] =
       [o \in Orders |-> IF o \in os THEN reading[k][o] ELSE told[k][o]]]
  /\ following' = [following EXCEPT ![k] = (@ \ os) \cup fresh[k]]
  /\ reading' = [reading EXCEPT ![k] = NoAnswer]
  /\ fresh' = [fresh EXCEPT ![k] = {}]
  /\ UNCHANGED <<vars, at, rooms, heard, due, lost>>

GetOrders(k, u) == Read(k, Listed(u))

GetOrderById(k, u, o) == Readable(u, o) /\ Read(k, {o})

FeedNext ==
  \/ \E r \in Requests :
       PlaceCommitted(r) \/ PlaceAnnounced(r) \/ StatusAnnounced(r) \/ RequestDies(r)
  \/ OrderStep
  \/ \E k \in Sockets :
       \/ \E task \in Tasks : Connect(k, task)
       \/ \E u \in Users : JoinUserRoom(k, u) \/ GetOrders(k, u)
       \/ \E o \in Orders : JoinOrderRoom(k, o)
       \/ \E u \in Users, o \in Orders : GetOrderById(k, u, o)
       \/ Receive(k) \/ Disconnect(k)

FeedSpec == FeedInit /\ [][FeedNext]_allVars

-----------------------------------------------------------------------------
\* Properties

FeedTypeOK ==
  /\ Gateway!RoomsTyped
  /\ heard \in [Sockets -> SUBSET Orders]
  /\ told \in [Sockets -> [Orders -> OrderStatus \cup {None}]]
  /\ due \in [Sockets -> SUBSET Orders]
  /\ lost \subseteq Orders
  /\ following \in [Sockets -> SUBSET Orders]
  /\ reading \in [Sockets -> [Orders -> OrderStatus \cup {None}]]
  /\ fresh \in [Sockets -> SUBSET Orders]

\* An owner who is in his room, on the task that serves the request, when an
\* order is committed hears of it, or its request still has to tell, or died
\* before it could. (An owner on another task hears nothing of it.)
OwnerHears ==
  \A k \in Sockets : \A o \in due[k] :
    \/ o \in heard[k] \cup lost
    \/ \E r \in Requests : req[r].pc = "placed" /\ req[r].order = o

\* A client that joined the order's room, then read the order while no edit
\* of its status was in flight, heard no notice before the answer came, and
\* has stayed connected, knows the stored status whenever no edit is in flight
\* - though every notice leaves before its commit. The exceptions, until the
\* client reads again: an edit was served by another task than the client's,
\* its notice was rolled back, or it wrote no status.
FollowerUpToDate ==
  \A k \in Sockets : \A o \in following[k] :
    Exists(o) /\ ~ Unsettled(o) => told[k][o] = status[o]

=============================================================================
