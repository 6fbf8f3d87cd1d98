---------------------------- MODULE OrderService ----------------------------
(***************************************************************************)
(* The order table and the handlers that change it: createOrder and        *)
(* editOrderStatus (order.service.ts), processPayment (payment.service.ts) *)
(* and the nightly clean-up (order-cron.service.ts).                       *)
(*                                                                         *)
(* Every handler is cut where the server can interleave another one: a     *)
(* transactional handler reads from an InnoDB snapshot, holds the row lock *)
(* from its UPDATE to its COMMIT, and may be rolled back in between.       *)
(* TypeORM's save() writes only the columns that differ from what the      *)
(* transaction read, so two edits of one order merge column by column.     *)
(***************************************************************************)
EXTENDS Naturals, FiniteSets

CONSTANTS
  Orders,       \* order ids; an id is never reused
  Clients, Owners, Drivers,  \* the users, by role
  Requests,     \* slots for requests being served at the same time
  CustomerOf,   \* the client that places an order
  OwnerOf,      \* the owner of the restaurant an order is placed with
  None

OrderStatus == {"Pending", "Cooking", "Cooked", "PickedUp", "Delivered"}
Users == Clients \cup Owners \cup Drivers

ASSUME RolesDisjoint ==
  /\ Clients \cap Owners = {}
  /\ Clients \cap Drivers = {}
  /\ Owners \cap Drivers = {}

ASSUME PartiesOfOrders ==
  /\ CustomerOf \in [Orders -> Clients]
  /\ OwnerOf \in [Orders -> Owners]

ASSUME NoneIsFresh == None \notin Users \cup Orders \cup OrderStatus

VARIABLES
  status,     \* column order.status; "Unplaced" before the row exists
  driver,     \* column order.driver_id
  stale,      \* createdAt lies more than a day back
  paid,       \* number of payment rows of the order
  req,        \* the requests being served
  scanned,    \* rows the clean-up's DELETE has locked so far
  room,       \* status told by the last orderUpdate in the order's room
  broadcast   \* the newPendingOrder and newCookedOrder events sent so far

rows == <<status, driver>>
vars == <<status, driver, stale, paid, req, scanned, room, broadcast>>

-----------------------------------------------------------------------------
\* State

Exists(o) == status[o] \notin {"Unplaced", "Deleted"}

Columns == {"status", "driver"}

Idle == [pc |-> "idle", user |-> None, order |-> None, target |-> None,
         seenStatus |-> None, seenDriver |-> None, writes |-> {}]

PCs == {"idle", "placing", "placed", "read", "saved", "paying"}

Request == [pc : PCs, user : Users \cup {None}, order : Orders \cup {None},
            target : OrderStatus \cup {None},
            seenStatus : OrderStatus \cup {None},
            seenDriver : Drivers \cup {None},
            writes : SUBSET Columns]

TypeOK ==
  /\ status \in [Orders -> OrderStatus \cup {"Unplaced", "Deleted"}]
  /\ driver \in [Orders -> Drivers \cup {None}]
  /\ stale \in [Orders -> BOOLEAN]
  /\ paid \in [Orders -> Nat]
  /\ req \in [Requests -> Request]
  /\ scanned \subseteq Orders
  /\ room \in [Orders -> OrderStatus \cup {None}]
  /\ broadcast \subseteq {"newPendingOrder", "newCookedOrder"} \X Orders

Init ==
  /\ status = [o \in Orders |-> "Unplaced"]
  /\ driver = [o \in Orders |-> None]
  /\ stale = [o \in Orders |-> FALSE]
  /\ paid = [o \in Orders |-> 0]
  /\ req = [r \in Requests |-> Idle]
  /\ scanned = {}
  /\ room = [o \in Orders |-> None]
  /\ broadcast = {}

\* An open transaction holds the lock of the row it inserted or updated.
HoldsLock(r, o) ==
  /\ req[r].order = o
  /\ \/ req[r].pc = "placing"
     \/ req[r].pc = "saved" /\ req[r].writes # {}

Locked(o) == \E r \in Requests : HoldsLock(r, o)

\* The row can be locked: no request and no clean-up holds it.
Free(o) == ~ Locked(o) /\ o \notin scanned

-----------------------------------------------------------------------------
\* createOrder

\* Faulty variant: the notice is sent inside the transaction.
CreateOrderAnnouncing(r, o) ==
  /\ req[r].pc = "idle"
  /\ status[o] = "Unplaced"
  /\ Free(o)
  /\ req' = [req EXCEPT ![r] = [Idle EXCEPT !.pc = "placing",
                                            !.user = CustomerOf[o],
                                            !.order = o]]
  /\ broadcast' = broadcast \cup {<<"newPendingOrder", o>>}
  /\ UNCHANGED <<status, driver, stale, paid, scanned, room>>

\* POST /orders up to the INSERT: the row is written but not yet committed.
CreateOrder(r, o) ==
  /\ req[r].pc = "idle"
  /\ status[o] = "Unplaced"
  /\ Free(o)
  /\ req' = [req EXCEPT ![r] = [Idle EXCEPT !.pc = "placing",
                                            !.user = CustomerOf[o],
                                            !.order = o]]
  /\ UNCHANGED <<status, driver, stale, paid, scanned, room, broadcast>>

\* The transaction commits; the notice to the owner is queued.
CommitOrder(r) ==
  /\ req[r].pc = "placing"
  /\ status' = [status EXCEPT ![req[r].order] = "Pending"]
  /\ req' = [req EXCEPT ![r].pc = "placed"]
  /\ UNCHANGED <<driver, stale, paid, scanned, room, broadcast>>

\* runOnTransactionCommit: the owner's room hears of the new order.
AnnounceOrder(r) ==
  /\ req[r].pc = "placed"
  /\ broadcast' = broadcast \cup {<<"newPendingOrder", req[r].order>>}
  /\ req' = [req EXCEPT ![r] = Idle]
  /\ UNCHANGED <<status, driver, stale, paid, scanned, room>>

-----------------------------------------------------------------------------
\* editOrderStatus

\* Faulty variant: any driver may report the delivery.
EditAllowedToAnyDriver(u, o, s) ==
  \/ u \in Owners /\ OwnerOf[o] = u /\ s \in {"Cooking", "Cooked"}
  \/ u \in Drivers /\ s \in {"PickedUp", "Delivered"}

\* The role checks. They look at who asks and at the row as it was read, and
\* never at the status the order is leaving.
EditAllowed(u, o, s) ==
  \/ u \in Owners /\ OwnerOf[o] = u /\ s \in {"Cooking", "Cooked"}
  \/ u \in Drivers /\ s = "PickedUp"
  \/ u \in Drivers /\ s = "Delivered" /\ driver[o] = u

\* PATCH /orders/:id opens its transaction and reads the order. A request
\* that fails a check (403) or finds no row (404) changes nothing.
EditOrderStatus(r, u, o, s) ==
  /\ req[r].pc = "idle"
  /\ Exists(o)
  /\ EditAllowed(u, o, s)
  /\ req' = [req EXCEPT ![r] = [pc |-> "read", user |-> u, order |-> o,
                                target |-> s, seenStatus |-> status[o],
                                seenDriver |-> driver[o], writes |-> {}]]
  /\ UNCHANGED <<status, driver, stale, paid, scanned, room, broadcast>>

\* Faulty variant: a new driver is stored without the status.
DiffDriverAlone(q) ==
  IF q.target = "PickedUp" /\ q.seenDriver # q.user
  THEN {"driver"}
  ELSE {c \in {"status"} : q.target # q.seenStatus}

\* What save() finds changed in the entity with respect to the snapshot.
Diff(q) ==
  {c \in Columns :
     \/ c = "status" /\ q.target # q.seenStatus
     \/ c = "driver" /\ q.target = "PickedUp" /\ q.seenDriver # q.user}

\* The UPDATE of a row that was deleted meanwhile affects nothing and raises
\* no error; without changed columns there is no UPDATE at all.
Writes(q) == IF Exists(q.order) THEN Diff(q) ELSE {}

\* Faulty variant: the UPDATE does not wait for the lock of the row.
SaveStatusUnlocked(r) ==
  LET q == req[r] IN
  /\ q.pc = "read"
  /\ req' = [req EXCEPT ![r] = [q EXCEPT !.pc = "saved",
                                         !.writes = Writes(q)]]
  /\ room' = [room EXCEPT ![q.order] = q.target]
  /\ UNCHANGED <<status, driver, stale, paid, scanned, broadcast>>

\* save() and the two events behind it, all before the transaction commits.
SaveStatus(r) ==
  LET q == req[r] IN
  /\ q.pc = "read"
  /\ Writes(q) # {} => Free(q.order)
  /\ req' = [req EXCEPT ![r] = [q EXCEPT !.pc = "saved",
                                         !.writes = Writes(q)]]
  /\ room' = [room EXCEPT ![q.order] = q.target]
  /\ broadcast' = broadcast \cup
       (IF q.target = "Cooked" THEN {<<"newCookedOrder", q.order>>} ELSE {})
  /\ UNCHANGED <<status, driver, stale, paid, scanned>>

\* Faulty variant: every column of the entity is written, changed or not.
CommitStaleEntity(r) ==
  LET q == req[r] IN
  /\ q.pc = "saved"
  /\ status' = [status EXCEPT ![q.order] =
                  IF q.writes # {} THEN q.target ELSE @]
  /\ driver' = [driver EXCEPT ![q.order] =
                  CASE q.writes = {} -> @
                    [] q.writes # {} /\ q.target = "PickedUp" -> q.user
                    [] q.writes # {} /\ q.target # "PickedUp" -> q.seenDriver]
  /\ req' = [req EXCEPT ![r] = Idle]
  /\ UNCHANGED <<stale, paid, scanned, room, broadcast>>

\* The handler returns, the transaction commits: the answer is 200.
CommitStatus(r) ==
  LET q == req[r] IN
  /\ q.pc = "saved"
  /\ status' = [status EXCEPT ![q.order] =
                  IF "status" \in q.writes THEN q.target ELSE @]
  /\ driver' = [driver EXCEPT ![q.order] =
                  IF "driver" \in q.writes THEN q.user ELSE @]
  /\ req' = [req EXCEPT ![r] = Idle]
  /\ UNCHANGED <<stale, paid, scanned, room, broadcast>>

-----------------------------------------------------------------------------
\* processPayment: no transaction spans its reads and its INSERT

\* The order exists, is the caller's own, and no payment of it was found.
ProcessPayment(r, u, o) ==
  /\ req[r].pc = "idle"
  /\ Exists(o)
  /\ u = CustomerOf[o]
  /\ paid[o] = 0
  /\ req' = [req EXCEPT ![r] = [Idle EXCEPT !.pc = "paying", !.user = u,
                                            !.order = o]]
  /\ UNCHANGED <<status, driver, stale, paid, scanned, room, broadcast>>

\* Faulty variant: no unique index.
PaymentAcceptedTwice(o) == Exists(o)

\* The unique index on payment.order_id and the foreign key to the order.
PaymentAccepted(o) == Exists(o) /\ paid[o] = 0

\* save() inserts the payment. As the body becomes the entity as it is, it may
\* name the payment of some other order: that one is moved here instead. The
\* INSERT or UPDATE waits for the order's row lock (foreign key check); a
\* violated constraint answers 500 and changes nothing.
SavePayment(r) ==
  LET o == req[r].order
      moved == {[paid EXCEPT ![p] = @ - 1, ![o] = @ + 1] :
                  p \in {p \in Orders : paid[p] > 0}}
  IN  /\ req[r].pc = "paying"
      /\ Free(o)
      /\ paid' \in IF PaymentAccepted(o)
                     THEN {[paid EXCEPT ![o] = @ + 1]} \cup moved ELSE {paid}
      /\ req' = [req EXCEPT ![r] = Idle]
      /\ UNCHANGED <<status, driver, stale, scanned, room, broadcast>>

-----------------------------------------------------------------------------
\* handleCron, time and failures

\* A day passes over a pending order. The job fixes its age limit when it
\* starts: what turns a day old meanwhile is left for the next night.
GrowStale(o) ==
  /\ status[o] = "Pending"
  /\ ~ stale[o]
  /\ scanned = {}
  /\ stale' = [stale EXCEPT ![o] = TRUE]
  /\ UNCHANGED <<status, driver, paid, req, scanned, room, broadcast>>

Expired == {o \in Orders : status[o] = "Pending" /\ stale[o]}

\* Faulty variant: the scan does not wait for locks.
ScanLockedRow(o) ==
  /\ o \notin scanned
  /\ scanned' = IF o \in Expired /\ paid[o] > 0 THEN {} ELSE scanned \cup {o}
  /\ UNCHANGED <<status, driver, stale, paid, req, room, broadcast>>

\* Faulty variant: a failed DELETE leaves its transaction open.
ScanLeftOpen(o) ==
  /\ Free(o)
  /\ ~ (o \in Expired /\ paid[o] > 0)
  /\ scanned' = scanned \cup {o}
  /\ UNCHANGED <<status, driver, stale, paid, req, room, broadcast>>

\* One DELETE statement: no index serves its condition, so it scans the table
\* and locks every row it reads, one after the other, until it ends. At an
\* expired row that a payment refers to (ON DELETE NO ACTION) it fails: its
\* locks are released and no row is deleted.
ScanRow(o) ==
  /\ Free(o)
  /\ scanned' = IF o \in Expired /\ paid[o] > 0 THEN {} ELSE scanned \cup {o}
  /\ UNCHANGED <<status, driver, stale, paid, req, room, broadcast>>

\* Faulty variant: the status is not part of the condition.
CleanAnyStatus ==
  LET old == {o \in Orders : Exists(o) /\ stale[o]} IN
  /\ scanned = Orders
  /\ scanned' = {}
  /\ status' = [o \in Orders |->
       IF o \in old /\ \A p \in old : paid[p] = 0 THEN "Deleted"
                                                ELSE status[o]]
  /\ UNCHANGED <<driver, stale, paid, req, room, broadcast>>

\* The statement has read the whole table: the expired rows are deleted.
HandleCron ==
  /\ scanned = Orders
  /\ scanned' = {}
  /\ status' = [o \in Orders |-> IF o \in Expired THEN "Deleted" ELSE status[o]]
  /\ UNCHANGED <<driver, stale, paid, req, room, broadcast>>

\* A request dies: a database error, a deadlock victim, a lost connection or
\* a restart of the server. What it has not committed is rolled back; events
\* already sent stay sent.
Fail(r) ==
  /\ req[r].pc # "idle"
  /\ req' = [req EXCEPT ![r] = Idle]
  /\ UNCHANGED <<status, driver, stale, paid, scanned, room, broadcast>>

-----------------------------------------------------------------------------
Next ==
  \/ \E r \in Requests :
       \/ \E o \in Orders : CreateOrder(r, o)
       \/ CommitOrder(r)
       \/ AnnounceOrder(r)
       \/ \E u \in Users, o \in Orders, s \in OrderStatus :
            EditOrderStatus(r, u, o, s)
       \/ SaveStatus(r)
       \/ CommitStatus(r)
       \/ \E u \in Users, o \in Orders : ProcessPayment(r, u, o)
       \/ SavePayment(r)
       \/ Fail(r)
  \/ \E o \in Orders : GrowStale(o) \/ ScanRow(o)
  \/ HandleCron

Spec == Init /\ [][Next]_vars

\* A request that was started runs on; waiting for a row lock ends because
\* InnoDB grants locks in the order they were asked for; the scheduler starts
\* the clean-up every night.
Fairness ==
  /\ \A r \in Requests :
       /\ WF_vars(CommitOrder(r))
       /\ WF_vars(AnnounceOrder(r))
       /\ SF_vars(SaveStatus(r))
       /\ WF_vars(CommitStatus(r))
       /\ SF_vars(SavePayment(r))
  /\ \A o \in Orders : SF_vars(ScanRow(o))
  /\ WF_vars(HandleCron)

FairSpec == Spec /\ Fairness

-----------------------------------------------------------------------------
\* Safety

\* An order on the road or delivered has a driver, and one that no kitchen
\* has accepted, or that was cleaned up, has none, although status and driver
\* are written by different transactions that merge column by column.
DriverMatchesStatus ==
  \A o \in Orders :
    /\ status[o] \in {"PickedUp", "Delivered"} => driver[o] # None
    /\ status[o] \in {"Unplaced", "Pending", "Deleted"} => driver[o] = None

\* Two racing payments and the clean-up leave at most one payment per order,
\* and never one whose order is gone.
PaymentsConsistent ==
  \A o \in Orders : paid[o] <= 1 /\ (paid[o] > 0 => Exists(o))

\* No room is told of an order whose transaction did not commit.
AnnouncedCommitted ==
  \A e \in broadcast : status[e[2]] # "Unplaced"

\* The order's room is told "Delivered" only of an order that has a driver,
\* although the event leaves before the transaction commits, or fails.
DeliveredHeardHasDriver ==
  \A o \in Orders : room[o] = "Delivered" => driver[o] # None

\* The clean-up takes an order only while it is pending, a day old and unpaid,
\* and never from under a transaction that has already written it.
OnlyExpiredDeleted ==
  [][\A o \in Orders : Exists(o) /\ ~ Exists(o)' =>
       o \in Expired /\ paid[o] = 0 /\ ~ Locked(o)]_vars

\* A deleted order stays deleted: an edit that read it before the clean-up
\* does not write it back.
DeletedIsFinal ==
  [][\A o \in Orders : status[o] = "Deleted" => status'[o] = "Deleted"]_vars

\* An assigned order keeps a driver, whoever it is.
DriverNeverUnassigned ==
  [][\A o \in Orders : driver[o] # None => driver'[o] # None]_vars

\* No update is lost: an edit that is answered 200 leaves the order with the
\* status it was asked for and, when a driver picks it up, with that driver -
\* unless the order was so when the edit read it (save() then writes nothing,
\* and another edit may have come in between) or the clean-up has taken it.
EditTakesEffect ==
  [][\A r \in Requests :
       LET q == req[r] IN
       CommitStatus(r) /\ Exists(q.order) =>
         /\ q.target \in {status'[q.order], q.seenStatus}
         /\ q.target = "PickedUp" => q.user \in {driver'[q.order], q.seenDriver}]_vars

\* The order life cycle, with the stored columns as its state.
Lifecycle == INSTANCE OrderLifecycle WITH
  status <- status, driver <- driver,
  Orders <- Orders, Drivers <- Drivers, None <- None

\* Every step of the service is a step of the order life cycle: transactions
\* that interleave never leave a stored order no single step could have made.
ImplementsLifecycle == Lifecycle!Spec

-----------------------------------------------------------------------------
\* The inductive invariant behind them

\* What an edit has read stays true enough to be written later: a driver is
\* never unassigned and a status never returns to "Pending", so the columns
\* it leaves alone still fit the ones it writes.
EditInFlight(r) ==
  LET q == req[r] IN
  q.pc \in {"read", "saved"} =>
    /\ q.order \in Orders
    /\ q.seenStatus \in OrderStatus
    /\ q.target \in OrderStatus \ {"Pending"}
    /\ q.target = "PickedUp" => q.user \in Drivers
    /\ q.target = "Delivered" => q.seenDriver # None
    /\ q.seenStatus = "Pending" => q.seenDriver = None
    /\ q.seenStatus \in {"PickedUp", "Delivered"} => q.seenDriver # None
    /\ status[q.order] # "Unplaced"
    /\ q.seenStatus # "Pending" => status[q.order] \notin {"Pending", "Deleted"}
    /\ q.seenDriver # None => driver[q.order] # None

\* An UPDATE that hit the row wrote all changed columns, and the lock keeps
\* the row from being deleted before the commit; one that hit nothing had
\* nothing to write, or its row is gone for good.
WriteInFlight(r) ==
  LET q == req[r] IN
  q.pc = "saved" =>
    IF q.writes # {} THEN q.writes = Diff(q) /\ Exists(q.order)
                     ELSE Diff(q) = {} \/ status[q.order] = "Deleted"

\* An id is being placed by one request only, and is not placed yet.
PlaceInFlight(r) ==
  LET q == req[r] IN
  /\ q.pc = "placing" =>
       /\ q.order \in Orders
       /\ status[q.order] = "Unplaced"
       /\ \A p \in Requests \ {r} : req[p].pc = "placing" =>
                                      req[p].order # q.order
  /\ q.pc = "placed" => q.order \in Orders /\ status[q.order] # "Unplaced"
  /\ q.pc = "paying" => q.order \in Orders

InFlight ==
  \A r \in Requests : EditInFlight(r) /\ WriteInFlight(r) /\ PlaceInFlight(r)

\* The clean-up holds no lock a request holds, and no expired row it holds has
\* a payment, nor can get one before the statement ends.
ScanInProgress ==
  \A o \in scanned : ~ Locked(o) /\ (o \in Expired => paid[o] = 0)

IInv ==
  /\ TypeOK
  /\ InFlight
  /\ DriverMatchesStatus
  /\ PaymentsConsistent
  /\ ScanInProgress
  /\ AnnouncedCommitted
  /\ DeliveredHeardHasDriver

-----------------------------------------------------------------------------
\* Liveness

\* A pending order of more than a day is accepted or deleted, unless a paid
\* one of that age stands in the way of the whole DELETE.
ExpiredResolved ==
  \A o \in Orders :
    o \in Expired ~> (o \notin Expired \/ \E p \in Expired : paid[p] > 0)

\* Every request gets its answer: no wait for a row lock lasts for ever.
RequestsAnswered ==
  \A r \in Requests : req[r].pc # "idle" ~> req[r].pc = "idle"

-----------------------------------------------------------------------------
\* What the repository says of the order life cycle, and the code does not do

Rank == [s \in OrderStatus |->
           CASE s = "Pending" -> 1 [] s = "Cooking" -> 2 [] s = "Cooked" -> 3
             [] s = "PickedUp" -> 4 [] s = "Delivered" -> 5]

\* common.interface.ts: an order waits, is cooked, waits for a driver, is on
\* its way, is delivered. It never goes back.
StatusNeverGoesBack ==
  [][\A o \in Orders : Exists(o) /\ Exists(o)' =>
       Rank[status'[o]] >= Rank[status[o]]]_vars

=============================================================================
