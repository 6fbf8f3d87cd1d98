---------------------------- MODULE OrderProofs ----------------------------
(***************************************************************************)
(* Proofs about OrderService and about OrderFeed, which puts sockets and   *)
(* notices around it, for any number of orders, users, concurrent requests *)
(* and sockets. First the service: the inductive invariant IInv, what      *)
(* follows from it (types, the observable invariants, what a step may      *)
(* never do), and that the service implements the order life cycle. Then   *)
(* the composition: it leaves the service as it is, owners hear of their   *)
(* orders, and clients that follow an order are up to date.                *)
(*                                                                         *)
(* One lemma per action shows that the action preserves IInv; its steps    *)
(* are the types, the facts about requests in flight, and the observable   *)
(* invariants.                                                             *)
(***************************************************************************)
EXTENDS OrderFeed, TLAPS

\* A request that moves on to "saved" is still a request.
LEMMA SavedRequest ==
  ASSUME NEW q \in Request, NEW w \in SUBSET Columns
  PROVE  [q EXCEPT !.pc = "saved", !.writes = w] \in Request
BY DEF Request, PCs

USE DEF OrderStatus, PCs, Columns

\* The part of IInv that does not speak of requests.
Observed ==
  /\ DriverMatchesStatus
  /\ PaymentsConsistent
  /\ AnnouncedCommitted
  /\ DeliveredHeardHasDriver

\* The facts about one request in flight.
RequestInv(r) == EditInFlight(r) /\ WriteInFlight(r) /\ PlaceInFlight(r)

-----------------------------------------------------------------------------
\* An INSERT that is not committed yet.
LEMMA CreateOrderStep ==
  ASSUME IInv, NEW r \in Requests, NEW o \in Orders, CreateOrder(r, o)
  PROVE  IInv'
<1> USE DEF IInv, CreateOrder
<1>1. TypeOK'
  BY PartiesOfOrders DEF TypeOK, Request, Idle, Users
<1>2. InFlight'
  <2> SUFFICES ASSUME NEW q \in Requests PROVE RequestInv(q)'
    BY DEF InFlight, RequestInv
  <2>1. EditInFlight(q)'
    BY DEF InFlight, EditInFlight, TypeOK, Request, Idle
  <2>2. WriteInFlight(q)'
    BY DEF InFlight, WriteInFlight, TypeOK, Request, Idle, Diff, Exists
  <2>3. PlaceInFlight(q)'
    BY DEF InFlight, PlaceInFlight, TypeOK, Request, Idle, Free, Locked,
         HoldsLock
  <2> QED
    BY <2>1, <2>2, <2>3 DEF RequestInv
<1>3. Observed'
  BY DEF Observed, DriverMatchesStatus, PaymentsConsistent,
         AnnouncedCommitted, DeliveredHeardHasDriver, Exists
<1>4. ScanInProgress'
  BY DEF ScanInProgress, Expired, Free, Locked, HoldsLock, Idle, TypeOK
<1> QED
  BY <1>1, <1>2, <1>3, <1>4 DEF Observed

\* The new order becomes visible.
LEMMA CommitOrderStep ==
  ASSUME IInv, NEW r \in Requests, CommitOrder(r)
  PROVE  IInv'
<1> USE DEF IInv, CommitOrder
<1>0. PlaceInFlight(r) /\ req[r].order \in Orders
  BY DEF InFlight, PlaceInFlight
<1>1. TypeOK'
  BY <1>0 DEF TypeOK, Request
<1>2. InFlight'
  <2> SUFFICES ASSUME NEW q \in Requests PROVE RequestInv(q)'
    BY DEF InFlight, RequestInv
  <2>1. EditInFlight(q)'
    BY <1>0 DEF InFlight, EditInFlight, PlaceInFlight, TypeOK, Request
  <2>2. WriteInFlight(q)'
    <3>1. CASE q = r
      BY <3>1 DEF WriteInFlight, TypeOK
    <3>2. CASE q # r
      <4>1. req'[q] = req[q]
        BY <3>2 DEF TypeOK
      <4>2. \A o \in Orders : status[o] = "Deleted" => status'[o] = "Deleted"
        BY <1>0 DEF PlaceInFlight, TypeOK
      <4>3. \A o \in Orders : Exists(o) => Exists(o)'
        BY <1>0 DEF Exists, TypeOK
      <4>4. EditInFlight(q) /\ WriteInFlight(q)
        BY DEF InFlight
      <4> QED
        BY <4>1, <4>2, <4>3, <4>4 DEF WriteInFlight, EditInFlight, Diff
    <3> QED
      BY <3>1, <3>2
  <2>3. PlaceInFlight(q)'
    BY <1>0 DEF InFlight, PlaceInFlight, TypeOK, Request
  <2> QED
    BY <2>1, <2>2, <2>3 DEF RequestInv
<1>3. Observed'
  BY <1>0 DEF Observed, DriverMatchesStatus, PaymentsConsistent,
         AnnouncedCommitted, DeliveredHeardHasDriver, Exists, PlaceInFlight, TypeOK
<1>4. ScanInProgress'
  BY <1>0 DEF ScanInProgress, Expired, Locked, HoldsLock, Idle, TypeOK
<1> QED
  BY <1>1, <1>2, <1>3, <1>4 DEF Observed

\* The notice to the owner.
LEMMA AnnounceOrderStep ==
  ASSUME IInv, NEW r \in Requests, AnnounceOrder(r)
  PROVE  IInv'
<1> USE DEF IInv, AnnounceOrder
<1>0. PlaceInFlight(r) /\ req[r].order \in Orders
  BY DEF InFlight, PlaceInFlight
<1>1. TypeOK'
  BY <1>0 DEF TypeOK, Request, Idle
<1>2. InFlight'
  <2> SUFFICES ASSUME NEW q \in Requests PROVE RequestInv(q)'
    BY DEF InFlight, RequestInv
  <2>1. EditInFlight(q)'
    BY DEF InFlight, EditInFlight, TypeOK, Request, Idle
  <2>2. WriteInFlight(q)'
    BY DEF InFlight, WriteInFlight, TypeOK, Request, Idle, Diff, Exists
  <2>3. PlaceInFlight(q)'
    BY DEF InFlight, PlaceInFlight, TypeOK, Request, Idle
  <2> QED
    BY <2>1, <2>2, <2>3 DEF RequestInv
<1>3. Observed'
  BY <1>0 DEF Observed, DriverMatchesStatus, PaymentsConsistent,
         AnnouncedCommitted, DeliveredHeardHasDriver, Exists, PlaceInFlight
<1>4. ScanInProgress'
  BY DEF ScanInProgress, Expired, Locked, HoldsLock, Idle, TypeOK
<1> QED
  BY <1>1, <1>2, <1>3, <1>4 DEF Observed

\* An edit takes its snapshot: the invariant holds of what it reads.
LEMMA EditOrderStatusStep ==
  ASSUME IInv, NEW r \in Requests, NEW u \in Users, NEW o \in Orders,
         NEW s \in OrderStatus, EditOrderStatus(r, u, o, s)
  PROVE  IInv'
<1> USE DEF IInv, EditOrderStatus
<1>1. TypeOK'
  BY DEF TypeOK, Request, Exists
<1>2. InFlight'
  <2> SUFFICES ASSUME NEW q \in Requests PROVE RequestInv(q)'
    BY DEF InFlight, RequestInv
  <2>1. EditInFlight(q)'
    BY NoneIsFresh, RolesDisjoint
       DEF InFlight, EditInFlight, EditAllowed, TypeOK, Request,
         Exists, DriverMatchesStatus, Users
  <2>2. WriteInFlight(q)'
    BY DEF InFlight, WriteInFlight, TypeOK, Request, Diff, Exists
  <2>3. PlaceInFlight(q)'
    BY DEF InFlight, PlaceInFlight, TypeOK, Request
  <2> QED
    BY <2>1, <2>2, <2>3 DEF RequestInv
<1>3. Observed'
  BY DEF Observed, DriverMatchesStatus, PaymentsConsistent,
         AnnouncedCommitted, DeliveredHeardHasDriver, Exists
<1>4. ScanInProgress'
  BY DEF ScanInProgress, Expired, Locked, HoldsLock, Idle, TypeOK
<1> QED
  BY <1>1, <1>2, <1>3, <1>4 DEF Observed

\* The UPDATE: what the edit writes was fixed by its snapshot and still fits.
LEMMA SaveStatusStep ==
  ASSUME IInv, NEW r \in Requests, SaveStatus(r)
  PROVE  IInv'
<1> USE DEF IInv, SaveStatus
<1>0. EditInFlight(r) /\ req[r].order \in Orders
  BY DEF InFlight, EditInFlight
<1>1. TypeOK'
  <2>0. Writes(req[r]) \in SUBSET Columns
    BY DEF Writes, Diff
  <2>c. [req[r] EXCEPT !.pc = "saved", !.writes = Writes(req[r])] \in Request
    BY <2>0, SavedRequest DEF TypeOK
  <2>1. req' \in [Requests -> Request]
    BY <2>c DEF TypeOK
  <2>2. room' \in [Orders -> OrderStatus \cup {None}]
    BY <1>0 DEF TypeOK, EditInFlight
  <2>a. <<"newCookedOrder", req[r].order>>
          \in {"newPendingOrder", "newCookedOrder"} \X Orders
    BY <1>0
  <2>b. broadcast' \subseteq broadcast \cup {<<"newCookedOrder", req[r].order>>}
    OBVIOUS
  <2>3. broadcast' \subseteq {"newPendingOrder", "newCookedOrder"} \X Orders
    BY <2>a, <2>b DEF TypeOK
  <2> QED
    BY <2>1, <2>2, <2>3 DEF TypeOK
<1>2. InFlight'
  <2> SUFFICES ASSUME NEW q \in Requests PROVE RequestInv(q)'
    BY DEF InFlight, RequestInv
  <2>1. EditInFlight(q)'
    BY <1>0 DEF InFlight, EditInFlight, PlaceInFlight, TypeOK, Request
  <2>2. WriteInFlight(q)'
    <3>1. CASE q = r
      <4>1. status[req[r].order] \notin {"Unplaced", "Deleted"}
              \/ status[req[r].order] = "Deleted"
        BY <1>0 DEF EditInFlight
      <4>2. /\ req'[r].pc = "saved"
            /\ req'[r].order = req[r].order
            /\ req'[r].writes = Writes(req[r])
            /\ req'[r].target = req[r].target
            /\ req'[r].seenStatus = req[r].seenStatus
            /\ req'[r].seenDriver = req[r].seenDriver
            /\ req'[r].user = req[r].user
        BY DEF TypeOK, Request
      <4>3. Diff(req'[r]) = Diff(req[r])
        BY <4>2 DEF Diff
      <4> QED
        BY <3>1, <4>1, <4>2, <4>3 DEF WriteInFlight, Writes, Exists, Diff
    <3>2. CASE q # r
      BY <3>2 DEF InFlight, WriteInFlight, TypeOK, Diff, Exists
    <3> QED
      BY <3>1, <3>2
  <2>3. PlaceInFlight(q)'
    BY <1>0 DEF InFlight, PlaceInFlight, TypeOK, Request
  <2> QED
    BY <2>1, <2>2, <2>3 DEF RequestInv
<1>3. Observed'
  BY <1>0 DEF Observed, DriverMatchesStatus, PaymentsConsistent, AnnouncedCommitted,
         DeliveredHeardHasDriver, Exists, EditInFlight, TypeOK, Request
<1>4. ScanInProgress'
  BY <1>0 DEF ScanInProgress, Expired, Free, Locked, HoldsLock, Idle, TypeOK
<1> QED
  BY <1>1, <1>2, <1>3, <1>4 DEF Observed

\* The COMMIT: the written columns fit the ones that were left alone.
LEMMA CommitStatusStep ==
  ASSUME IInv, NEW r \in Requests, CommitStatus(r)
  PROVE  IInv'
<1> USE DEF IInv
<1>0. EditInFlight(r) /\ WriteInFlight(r) /\ req[r].order \in Orders
  BY DEF CommitStatus, InFlight, EditInFlight
<1>1. TypeOK'
  BY <1>0, NoneIsFresh DEF CommitStatus, Users, CommitStatus, TypeOK, Request,
         EditInFlight, WriteInFlight, Diff, Idle
<1>a. \A o \in Orders :
         \/ status'[o] = status[o]
         \/ Exists(o) /\ status'[o] \in OrderStatus \ {"Pending"}
  BY <1>0 DEF CommitStatus, TypeOK, Request, EditInFlight, WriteInFlight
<1>b. \A o \in Orders : driver[o] # None => driver'[o] # None
  BY <1>0, NoneIsFresh DEF CommitStatus, TypeOK, Users, EditInFlight,
         WriteInFlight, Diff
<1>c. req' = [req EXCEPT ![r] = Idle]
  BY DEF CommitStatus
<1>2. InFlight'
  <2> SUFFICES ASSUME NEW q \in Requests PROVE RequestInv(q)'
    BY DEF InFlight, RequestInv
  <2>1. EditInFlight(q)'
    BY <1>a, <1>b, <1>c DEF Exists, InFlight, EditInFlight, PlaceInFlight,
           TypeOK, Request, Idle, Diff, WriteInFlight
  <2>2. WriteInFlight(q)'
    <3>1. CASE q = r
      BY <3>1, <1>c DEF WriteInFlight, TypeOK, Idle
    <3>2. CASE q # r
      <4>1. req'[q] = req[q]
        BY <3>2, <1>c DEF TypeOK
      <4>2. \A o \in Orders : /\ status[o] = "Deleted" => status'[o] = "Deleted"
                              /\ Exists(o) => Exists(o)'
        BY <1>a DEF Exists
      <4>3. EditInFlight(q) /\ WriteInFlight(q)
        BY DEF InFlight
      <4> QED
        BY <4>1, <4>2, <4>3 DEF WriteInFlight, EditInFlight, Diff, Exists
    <3> QED
      BY <3>1, <3>2
  <2>3. PlaceInFlight(q)'
    BY <1>a, <1>b, <1>c DEF Exists, InFlight, PlaceInFlight, TypeOK, Request,
           Idle, Diff, WriteInFlight
  <2> QED
    BY <2>1, <2>2, <2>3 DEF RequestInv
<1>3. Observed'
  BY <1>0, NoneIsFresh DEF CommitStatus, Users, CommitStatus, Observed,
         DriverMatchesStatus, PaymentsConsistent, AnnouncedCommitted,
         DeliveredHeardHasDriver, Exists, EditInFlight, WriteInFlight, TypeOK, Diff
<1>4. ScanInProgress'
  BY <1>a, <1>c DEF ScanInProgress, Expired, CommitStatus, Locked, HoldsLock, Idle, TypeOK
<1> QED
  BY <1>1, <1>2, <1>3, <1>4 DEF Observed

\* A payment passes its checks.
LEMMA ProcessPaymentStep ==
  ASSUME IInv, NEW r \in Requests, NEW u \in Users, NEW o \in Orders, ProcessPayment(r, u, o)
  PROVE  IInv'
<1> USE DEF IInv, ProcessPayment
<1>1. TypeOK'
  BY DEF TypeOK, Request, Idle
<1>2. InFlight'
  <2> SUFFICES ASSUME NEW q \in Requests PROVE RequestInv(q)'
    BY DEF InFlight, RequestInv
  <2>1. EditInFlight(q)'
    BY DEF InFlight, EditInFlight, TypeOK, Request, Idle
  <2>2. WriteInFlight(q)'
    BY DEF InFlight, WriteInFlight, TypeOK, Request, Idle, Diff, Exists
  <2>3. PlaceInFlight(q)'
    BY DEF InFlight, PlaceInFlight, TypeOK, Request, Idle
  <2> QED
    BY <2>1, <2>2, <2>3 DEF RequestInv
<1>3. Observed'
  BY DEF Observed, DriverMatchesStatus, PaymentsConsistent,
         AnnouncedCommitted, DeliveredHeardHasDriver, Exists
<1>4. ScanInProgress'
  BY DEF ScanInProgress, Expired, Locked, HoldsLock, Idle, TypeOK
<1> QED
  BY <1>1, <1>2, <1>3, <1>4 DEF Observed

\* The payment row is inserted, or refused by a constraint.
LEMMA SavePaymentStep ==
  ASSUME IInv, NEW r \in Requests, SavePayment(r)
  PROVE  IInv'
<1> USE DEF IInv, SavePayment
<1>0. req[r].order \in Orders
  BY DEF InFlight, PlaceInFlight
<1> DEFINE Payments ==
             /\ paid' \in [Orders -> Nat]
             /\ \A o \in Orders :
                  \/ paid'[o] = paid[o]
                  \/ paid[o] = 1 /\ paid'[o] = 0
                  \/ o = req[r].order /\ Exists(o) /\ paid'[o] = 1
<1>a. Payments
  <2>1. PICK o \in Orders : o = req[r].order
    BY <1>0
  <2>2. CASE PaymentAccepted(o) /\ paid' = [paid EXCEPT ![o] = @ + 1]
    BY <2>1, <2>2 DEF PaymentAccepted, TypeOK
  <2>3. ASSUME PaymentAccepted(o), NEW p \in Orders, paid[p] > 0,
               paid' = [paid EXCEPT ![p] = @ - 1, ![o] = @ + 1]
        PROVE  Payments
    <3>1. paid[p] = 1 /\ p # o /\ paid[o] = 0 /\ Exists(o)
      BY <2>1, <2>3 DEF PaymentAccepted, Observed, PaymentsConsistent, TypeOK
    <3>. QED
      BY <2>1, <2>3, <3>1 DEF TypeOK
  <2>4. CASE paid' = paid
    BY <2>4 DEF TypeOK
  <2> QED
    BY <2>1, <2>2, <2>3, <2>4
<1>1. TypeOK'
  BY <1>0, <1>a DEF TypeOK, Request, Idle
<1>2. InFlight'
  <2> SUFFICES ASSUME NEW q \in Requests PROVE RequestInv(q)'
    BY DEF InFlight, RequestInv
  <2>1. EditInFlight(q)'
    BY DEF InFlight, EditInFlight, TypeOK, Request, Idle
  <2>2. WriteInFlight(q)'
    BY DEF InFlight, WriteInFlight, TypeOK, Request, Idle, Diff, Exists
  <2>3. PlaceInFlight(q)'
    BY DEF InFlight, PlaceInFlight, TypeOK, Request, Idle
  <2> QED
    BY <2>1, <2>2, <2>3 DEF RequestInv
<1>3. Observed'
  BY <1>0, <1>a DEF Observed, DriverMatchesStatus, PaymentsConsistent,
         AnnouncedCommitted, DeliveredHeardHasDriver, Exists, TypeOK
<1>4. ScanInProgress'
  BY <1>a DEF ScanInProgress, Expired, Free, Locked, HoldsLock, Idle, TypeOK
<1> QED
  BY <1>1, <1>2, <1>3, <1>4 DEF Observed

\* Time passes.
LEMMA GrowStaleStep ==
  ASSUME IInv, NEW o \in Orders, GrowStale(o)
  PROVE  IInv'
<1> USE DEF IInv, GrowStale
<1>1. TypeOK'
  BY DEF TypeOK
<1>2. InFlight'
  <2> SUFFICES ASSUME NEW q \in Requests PROVE RequestInv(q)'
    BY DEF InFlight, RequestInv
  <2>1. EditInFlight(q)'
    BY DEF InFlight, EditInFlight
  <2>2. WriteInFlight(q)'
    BY DEF InFlight, WriteInFlight, Diff, Exists
  <2>3. PlaceInFlight(q)'
    BY DEF InFlight, PlaceInFlight
  <2> QED
    BY <2>1, <2>2, <2>3 DEF RequestInv
<1>3. Observed'
  BY DEF Observed, DriverMatchesStatus, PaymentsConsistent,
         AnnouncedCommitted, DeliveredHeardHasDriver, Exists
<1>4. ScanInProgress'
  BY DEF ScanInProgress, Expired, Locked, HoldsLock, Idle, TypeOK
<1> QED
  BY <1>1, <1>2, <1>3, <1>4 DEF Observed

\* The clean-up's DELETE locks one more row.
LEMMA ScanRowStep ==
  ASSUME IInv, NEW o \in Orders, ScanRow(o)
  PROVE  IInv'
<1> USE DEF IInv, ScanRow
<1>1. TypeOK'
  BY DEF TypeOK
<1>2. InFlight'
  <2> SUFFICES ASSUME NEW q \in Requests PROVE RequestInv(q)'
    BY DEF InFlight, RequestInv
  <2>1. EditInFlight(q)'
    BY DEF InFlight, EditInFlight
  <2>2. WriteInFlight(q)'
    BY DEF InFlight, WriteInFlight, Diff, Exists
  <2>3. PlaceInFlight(q)'
    BY DEF InFlight, PlaceInFlight
  <2> QED
    BY <2>1, <2>2, <2>3 DEF RequestInv
<1>3. Observed'
  BY DEF Observed, DriverMatchesStatus, PaymentsConsistent,
         AnnouncedCommitted, DeliveredHeardHasDriver, Exists
<1>4. ScanInProgress'
  <2> DEFINE blocked == o \in Expired /\ paid[o] > 0
  <2>1. scanned' = {} \/ (scanned' = scanned \cup {o} /\ ~ blocked)
    <3> scanned' = IF blocked THEN {} ELSE scanned \cup {o}
      OBVIOUS
    <3> HIDE DEF blocked
    <3>1. CASE blocked
      BY <3>1
    <3>2. CASE ~ blocked
      BY <3>2
    <3> QED
      BY <3>1, <3>2
  <2>2. o \in Expired => paid[o] = 0 \/ paid[o] > 0
    BY DEF TypeOK
  <2>3. Expired' = Expired /\ \A p \in Orders : Locked(p)' <=> Locked(p)
    BY DEF Expired, Locked, HoldsLock
  <2> QED
    BY <2>1, <2>2, <2>3 DEF ScanInProgress, Free, TypeOK
<1> QED
  BY <1>1, <1>2, <1>3, <1>4 DEF Observed

\* The clean-up: no written row is locked, so no write in flight loses its row.
LEMMA HandleCronStep ==
  ASSUME IInv, HandleCron
  PROVE  IInv'
<1> USE DEF IInv, HandleCron
<1>0. \A o \in Orders :
        /\ \/ status'[o] = status[o]
           \/ status[o] = "Pending" /\ status'[o] = "Deleted" /\ paid[o] = 0
        /\ ~ Locked(o)
  <2> TAKE o \in Orders
  <2>0. ~ Locked(o)
    BY DEF ScanInProgress
  <2>1. CASE o \in Expired
    BY <2>0, <2>1 DEF ScanInProgress, Expired
  <2>2. CASE o \notin Expired
    BY <2>0, <2>2
  <2> QED
    BY <2>1, <2>2
<1>1. TypeOK'
  BY DEF TypeOK
<1>2. InFlight'
  <2> SUFFICES ASSUME NEW q \in Requests PROVE RequestInv(q)'
    BY DEF InFlight, RequestInv
  <2>1. EditInFlight(q)'
    BY <1>0 DEF InFlight, EditInFlight
  <2>2. WriteInFlight(q)'
    BY <1>0 DEF InFlight, WriteInFlight, EditInFlight, Diff, Exists, Locked,
           HoldsLock
  <2>3. PlaceInFlight(q)'
    BY <1>0 DEF InFlight, PlaceInFlight
  <2> QED
    BY <2>1, <2>2, <2>3 DEF RequestInv
<1>3. Observed'
  BY <1>0 DEF Observed, DriverMatchesStatus, PaymentsConsistent,
         AnnouncedCommitted, DeliveredHeardHasDriver, Exists, TypeOK
<1>4. ScanInProgress'
  BY DEF ScanInProgress, Expired, Locked, HoldsLock, Idle, TypeOK
<1> QED
  BY <1>1, <1>2, <1>3, <1>4 DEF Observed

\* A request dies and leaves the rows as they were.
LEMMA FailStep ==
  ASSUME IInv, NEW r \in Requests, Fail(r)
  PROVE  IInv'
<1> USE DEF IInv, Fail
<1>1. TypeOK'
  BY DEF TypeOK, Request, Idle
<1>2. InFlight'
  <2> SUFFICES ASSUME NEW q \in Requests PROVE RequestInv(q)'
    BY DEF InFlight, RequestInv
  <2>1. EditInFlight(q)'
    BY DEF InFlight, EditInFlight, TypeOK, Request, Idle
  <2>2. WriteInFlight(q)'
    BY DEF InFlight, WriteInFlight, TypeOK, Request, Idle, Diff, Exists
  <2>3. PlaceInFlight(q)'
    BY DEF InFlight, PlaceInFlight, TypeOK, Request, Idle
  <2> QED
    BY <2>1, <2>2, <2>3 DEF RequestInv
<1>3. Observed'
  BY DEF Observed, DriverMatchesStatus, PaymentsConsistent,
         AnnouncedCommitted, DeliveredHeardHasDriver, Exists
<1>4. ScanInProgress'
  BY DEF ScanInProgress, Expired, Locked, HoldsLock, Idle, TypeOK
<1> QED
  BY <1>1, <1>2, <1>3, <1>4 DEF Observed

-----------------------------------------------------------------------------
\* The invariant holds initially.
LEMMA InitInv == Init => IInv
<1> SUFFICES ASSUME Init PROVE IInv
  OBVIOUS
<1> USE DEF Init
<1>1. TypeOK
  BY DEF TypeOK, Request, Idle
<1>2. InFlight
  BY DEF InFlight, EditInFlight, WriteInFlight, PlaceInFlight, Idle
<1>3. Observed
  BY NoneIsFresh DEF Observed, DriverMatchesStatus, PaymentsConsistent,
                     AnnouncedCommitted, DeliveredHeardHasDriver
<1>4. ScanInProgress
  BY DEF ScanInProgress
<1> QED
  BY <1>1, <1>2, <1>3, <1>4 DEF IInv, Observed

\* Every step preserves it.
LEMMA NextInv == IInv /\ [Next]_vars => IInv'
<1> SUFFICES ASSUME IInv, [Next]_vars PROVE IInv'
  OBVIOUS
<1>1. CASE Next
  BY <1>1, CreateOrderStep, CommitOrderStep, AnnounceOrderStep,
     EditOrderStatusStep, SaveStatusStep, CommitStatusStep, ProcessPaymentStep,
     SavePaymentStep, GrowStaleStep, ScanRowStep, HandleCronStep, FailStep
  DEF Next
<1>2. CASE UNCHANGED vars
  BY <1>2 DEF vars, IInv, TypeOK, InFlight, EditInFlight, WriteInFlight,
     PlaceInFlight, Diff, Exists, DriverMatchesStatus, PaymentsConsistent,
     AnnouncedCommitted, DeliveredHeardHasDriver, ScanInProgress, Expired, Locked,
     HoldsLock
<1> QED
  BY <1>1, <1>2

\* The inductive invariant, from which the theorems below follow.
THEOREM Invariant == Spec => []IInv
BY InitInv, NextInv, PTL DEF Spec

\* Every variable keeps its type, whichever handlers interleave.
THEOREM TypeCorrect == Spec => []TypeOK
<1>1. IInv => TypeOK
  BY DEF IInv
<1> QED
  BY Invariant, <1>1, PTL

\* Status and driver fit together although different transactions write them.
THEOREM DriverCorrect == Spec => []DriverMatchesStatus
<1>1. IInv => DriverMatchesStatus
  BY DEF IInv
<1> QED
  BY Invariant, <1>1, PTL

\* At most one payment per order, and none of an order that is gone.
THEOREM PaymentsCorrect == Spec => []PaymentsConsistent
<1>1. IInv => PaymentsConsistent
  BY DEF IInv
<1> QED
  BY Invariant, <1>1, PTL

\* Events name committed orders only.
THEOREM AnnouncedCorrect == Spec => []AnnouncedCommitted
<1>1. IInv => AnnouncedCommitted
  BY DEF IInv
<1> QED
  BY Invariant, <1>1, PTL

\* "Delivered" is told only of an order with a driver.
THEOREM HeardCorrect == Spec => []DeliveredHeardHasDriver
<1>1. IInv => DeliveredHeardHasDriver
  BY DEF IInv
<1> QED
  BY Invariant, <1>1, PTL

-----------------------------------------------------------------------------
\* The stored columns, action by action: either the columns of one order
\* change in a way the life cycle knows, or the clean-up removes orders.
LEMMA CommitStatusEffect ==
  ASSUME IInv, NEW r \in Requests, CommitStatus(r)
  PROVE  [Lifecycle!Next]_rows
<1> DEFINE q == req[r]
<1> DEFINE o == q.order
<1>0. EditInFlight(r) /\ WriteInFlight(r) /\ o \in Orders
  BY DEF IInv, InFlight, EditInFlight, CommitStatus
<1>1. CASE q.writes = {}
  BY <1>0, <1>1 DEF CommitStatus, rows, IInv, TypeOK
<1>2. CASE q.writes # {}
  <2>1. Exists(o) /\ q.writes = Diff(q)
    BY <1>0, <1>2 DEF WriteInFlight, CommitStatus
  <2>2. CASE q.target \in {"Cooking", "Cooked"}
    <3>1. Lifecycle!Cook(o, q.target)
      BY <1>0, <1>2, <2>1, <2>2
      DEF Lifecycle!Cook, Lifecycle!Active, CommitStatus, Diff, Exists, IInv, TypeOK
    <3> QED
      BY <1>0, <2>2, <3>1 DEF Lifecycle!Next
  <2>3. CASE q.target = "Delivered"
    <3>1. Lifecycle!Ride(o, "Delivered")
      BY <1>0, <1>2, <2>1, <2>3
      DEF Lifecycle!Ride, Lifecycle!Active, CommitStatus, Diff, Exists, IInv,
          TypeOK, EditInFlight, DriverMatchesStatus
    <3> QED
      BY <1>0, <3>1 DEF Lifecycle!Next
  <2>4. CASE q.target = "PickedUp" /\ q.writes = {"status", "driver"}
    <3>1. Lifecycle!PickUp(o, q.user) /\ q.user \in Drivers
      BY <1>0, <2>1, <2>4
      DEF Lifecycle!PickUp, Lifecycle!Active, CommitStatus, Exists, IInv, TypeOK,
          EditInFlight
    <3> QED
      BY <1>0, <3>1 DEF Lifecycle!Next
  <2>5. CASE q.target = "PickedUp" /\ q.writes = {"driver"}
    <3>1. q.seenStatus = "PickedUp"
      BY <1>0, <2>1, <2>5 DEF Diff, EditInFlight, CommitStatus
    <3>2. Lifecycle!Active(o) /\ q.user \in Drivers
      BY <1>0, <2>1, <2>5, <3>1
      DEF Lifecycle!Active, Exists, EditInFlight, CommitStatus, IInv, TypeOK
    <3>3. status' = status
      BY <1>0, <2>5 DEF CommitStatus, IInv, TypeOK
    <3>4. driver' = [driver EXCEPT ![o] = q.user]
      BY <2>5 DEF CommitStatus
    <3>5. Lifecycle!Reassign(o, q.user)
      BY <3>2, <3>3, <3>4 DEF Lifecycle!Reassign
    <3> QED
      BY <1>0, <3>2, <3>5 DEF Lifecycle!Next
  <2>6. CASE q.target = "PickedUp" /\ q.writes = {"status"}
    <3>1. q.seenDriver = q.user /\ q.user # None
      BY <1>0, <2>1, <2>6, NoneIsFresh DEF Diff, EditInFlight, CommitStatus, Users
    <3>2. Lifecycle!Ride(o, "PickedUp")
      BY <1>0, <2>1, <2>6, <3>1
      DEF Lifecycle!Ride, Lifecycle!Active, CommitStatus, Exists, IInv, TypeOK,
          EditInFlight, DriverMatchesStatus
    <3> QED
      BY <1>0, <3>2 DEF Lifecycle!Next
  <2> QED
    <3>1. q.target \in {"Cooking", "Cooked", "PickedUp", "Delivered"}
      BY <1>0 DEF EditInFlight, CommitStatus
    <3>2. q.writes \in {{"status"}, {"driver"}, {"status", "driver"}}
      BY <1>2, <2>1 DEF Diff
    <3> QED
      BY <2>2, <2>3, <2>4, <2>5, <2>6, <3>1, <3>2
<1> QED
  BY <1>1, <1>2

\* Every step is a step of the life cycle, or leaves the columns alone.
LEMMA StepIsLifecycle ==
  ASSUME IInv, [Next]_vars
  PROVE  [Lifecycle!Next]_rows
<1>1. ASSUME NEW r \in Requests, CommitOrder(r)
      PROVE  [Lifecycle!Next]_rows
  <2>1. req[r].order \in Orders /\ status[req[r].order] = "Unplaced"
    BY <1>1 DEF IInv, InFlight, PlaceInFlight, CommitOrder
  <2>2. Lifecycle!Place(req[r].order)
    BY <1>1, <2>1 DEF Lifecycle!Place, CommitOrder
  <2> QED
    BY <2>1, <2>2 DEF Lifecycle!Next
<1>2. ASSUME NEW r \in Requests, CommitStatus(r)
      PROVE  [Lifecycle!Next]_rows
  BY <1>2, CommitStatusEffect
<1>3. ASSUME HandleCron
      PROVE  [Lifecycle!Next]_rows
  <2>1. Expired \in SUBSET Orders
    BY DEF Expired
  <2>2. Lifecycle!Expire(Expired)
    BY <1>3 DEF Lifecycle!Expire, HandleCron, Expired
  <2> QED
    BY <2>1, <2>2 DEF Lifecycle!Next
<1>4. CASE UNCHANGED vars
  BY <1>4 DEF vars, rows
<1> QED
  BY <1>1, <1>2, <1>3, <1>4
  DEF Next, rows, CreateOrder, AnnounceOrder, EditOrderStatus, SaveStatus,
      ProcessPayment, SavePayment, Fail, GrowStale, ScanRow

\* The service with all its transactions in flight implements the life cycle
\* of an order that has none.
THEOREM Refinement == Spec => ImplementsLifecycle
<1>1. Init => Lifecycle!Init
  BY DEF Init, Lifecycle!Init
<1>2. IInv /\ [Next]_vars => [Lifecycle!Next]_(Lifecycle!rows)
  BY StepIsLifecycle DEF Lifecycle!rows, rows
<1> QED
  BY <1>1, <1>2, Invariant, PTL DEF Spec, ImplementsLifecycle, Lifecycle!Spec

\* A row is removed only while its order is pending, a day old and unpaid, and
\* no transaction has written it.
THEOREM DeletionsCorrect == Spec => OnlyExpiredDeleted
<1>1. ASSUME IInv, [Next]_vars, NEW o \in Orders, Exists(o), ~ Exists(o)'
      PROVE  o \in Expired /\ paid[o] = 0 /\ ~ Locked(o)
  <2>1. ASSUME NEW r \in Requests, CommitOrder(r) PROVE FALSE
    BY <1>1, <2>1 DEF CommitOrder, IInv, TypeOK, InFlight, PlaceInFlight, Exists
  <2>2. ASSUME NEW r \in Requests, CommitStatus(r) PROVE FALSE
    BY <1>1, <2>2 DEF CommitStatus, IInv, TypeOK, InFlight, EditInFlight, Exists
  <2>3. CASE HandleCron
    BY <1>1, <2>3 DEF HandleCron, IInv, TypeOK, Exists, ScanInProgress
  <2>4. CASE UNCHANGED status
    BY <1>1, <2>4 DEF Exists
  <2> QED
    BY <1>1, <2>1, <2>2, <2>3, <2>4
    DEF Next, vars, CreateOrder, AnnounceOrder, EditOrderStatus, SaveStatus,
        ProcessPayment, SavePayment, Fail, GrowStale, ScanRow
<1>2. IInv /\ [Next]_vars =>
        [\A o \in Orders : Exists(o) /\ ~ Exists(o)' =>
           o \in Expired /\ paid[o] = 0 /\ ~ Locked(o)]_vars
  BY <1>1
<1> QED
  BY <1>2, Invariant, PTL DEF Spec, OnlyExpiredDeleted

\* A deleted order stays deleted, and an assigned order keeps a driver.
THEOREM RowsCorrect == Spec => DeletedIsFinal /\ DriverNeverUnassigned
<1>1. ASSUME IInv, [Next]_vars, NEW o \in Orders
      PROVE  /\ status[o] = "Deleted" => status'[o] = "Deleted"
             /\ driver[o] # None => driver'[o] # None
  <2>1. ASSUME NEW r \in Requests, CommitOrder(r)
        PROVE  (status[o] = "Deleted" => status'[o] = "Deleted")
                 /\ UNCHANGED driver
    BY <1>1, <2>1 DEF CommitOrder, IInv, TypeOK, InFlight, PlaceInFlight
  <2>2. ASSUME NEW r \in Requests, CommitStatus(r)
        PROVE  /\ status[o] = "Deleted" => status'[o] = "Deleted"
               /\ driver[o] # None => driver'[o] # None
    <3>1. EditInFlight(r) /\ WriteInFlight(r) /\ req[r].order \in Orders
      BY <1>1, <2>2 DEF CommitStatus, IInv, InFlight, EditInFlight
    <3> QED
      BY <2>2, <1>1, <3>1, NoneIsFresh
      DEF CommitStatus, IInv, TypeOK, EditInFlight, WriteInFlight, Diff,
             Exists, Users
  <2>3. CASE HandleCron
    BY <1>1, <2>3 DEF HandleCron
  <2>4. CASE UNCHANGED rows
    BY <2>4 DEF rows
  <2> QED
    BY <1>1, <2>1, <2>2, <2>3, <2>4
    DEF Next, vars, rows, CreateOrder, AnnounceOrder, EditOrderStatus, SaveStatus,
        ProcessPayment, SavePayment, Fail, GrowStale, ScanRow
<1>2. IInv /\ [Next]_vars =>
        /\ [\A o \in Orders : status[o] = "Deleted" => status'[o] = "Deleted"]_vars
        /\ [\A o \in Orders : driver[o] # None => driver'[o] # None]_vars
  BY <1>1
<1> QED
  BY <1>2, Invariant, PTL DEF Spec, DeletedIsFinal, DriverNeverUnassigned

\* No update is lost, whichever edits, payments and clean-ups overlap.
THEOREM EditsCorrect == Spec => EditTakesEffect
<1> DEFINE Taken(r) ==
      LET q == req[r] IN
      CommitStatus(r) /\ Exists(q.order) =>
        /\ q.target \in {status'[q.order], q.seenStatus}
        /\ q.target = "PickedUp" => q.user \in {driver'[q.order], q.seenDriver}
<1>1. ASSUME IInv, NEW r \in Requests, CommitStatus(r), Exists(req[r].order)
      PROVE  /\ req[r].target \in {status'[req[r].order], req[r].seenStatus}
             /\ req[r].target = "PickedUp" =>
                  req[r].user \in {driver'[req[r].order], req[r].seenDriver}
  <2>1. WriteInFlight(r) /\ req[r].pc = "saved" /\ req[r].order \in Orders
    BY <1>1 DEF IInv, InFlight, EditInFlight, CommitStatus
  <2>2. req[r].writes = Diff(req[r])
    BY <1>1, <2>1 DEF WriteInFlight, Exists
  <2>3. /\ status'[req[r].order] = IF "status" \in Diff(req[r])
                                   THEN req[r].target ELSE status[req[r].order]
        /\ driver'[req[r].order] = IF "driver" \in Diff(req[r])
                                   THEN req[r].user ELSE driver[req[r].order]
    BY <1>1, <2>1, <2>2 DEF CommitStatus, IInv, TypeOK
  <2> QED
    BY <2>3 DEF Diff
<1>2. IInv /\ [Next]_vars => [\A r \in Requests : Taken(r)]_vars
  BY <1>1
<1> QED
  BY <1>2, Invariant, PTL DEF Spec, EditTakesEffect

-----------------------------------------------------------------------------
\* Sockets and notices

\* Why a notice that is due is still to come: its owner has stayed in his room.
Due ==
  \A k \in Sockets : \A o \in due[k] :
    /\ Gateway!UserRoom(OwnerOf[o]) \in rooms[k]
    /\ at[k] # None
    /\ \/ o \in heard[k] \cup lost
       \/ \E r \in Requests :
            req[r].pc = "placed" /\ req[r].order = o /\ ServedOn[r] = at[k]

\* Two transactions never write the status of one order at a time.
OneWriter ==
  \A o \in Orders : \A r, p \in Requests : Writing(r, o) /\ Writing(p, o) => r = p

\* A client that follows an order is in its room and knows the stored status
\* or, while an edit is in flight, the one that is going to be stored.
Follows(k, o) ==
  /\ Gateway!OrderRoom(o) \in rooms[k]
  /\ status[o] # "Unplaced"
  /\ Exists(o) /\ ~ Unsettled(o) => told[k][o] = status[o]
  /\ \A r \in Requests : Writing(r, o) => told[k][o] = req[r].target

\* A row on its way to the client that no notice has come after is current.
Current(k, o) ==
  /\ Gateway!OrderRoom(o) \in rooms[k]
  /\ status[o] # "Unplaced"
  /\ reading[k][o] # None
  /\ ~ Unsettled(o)
  /\ Exists(o) => reading[k][o] = status[o]

Following ==
  \A k \in Sockets :
    /\ \A o \in following[k] : Follows(k, o)
    /\ \A o \in fresh[k] : Current(k, o)

FeedInv ==
  /\ IInv
  /\ FeedTypeOK
  /\ Due
  /\ OneWriter
  /\ Following

-----------------------------------------------------------------------------
\* The service underneath

LEMMA FeedStepIsStep == [FeedNext]_allVars => [Next]_vars
<1>1. SUFFICES ASSUME FeedNext, ~ UNCHANGED vars PROVE Next
  BY DEF allVars
<1>2. ASSUME NEW r \in Requests,
             \/ PlaceCommitted(r) \/ PlaceAnnounced(r)
             \/ StatusAnnounced(r) \/ RequestDies(r)
      PROVE  Next
  BY <1>2 DEF PlaceCommitted, PlaceAnnounced, StatusAnnounced, RequestDies, Next
<1>3. CASE OrderStep
  BY <1>3 DEF OrderStep, Next
<1>4. ASSUME NEW k \in Sockets,
             \/ \E task \in Tasks : Connect(k, task)
             \/ \E u \in Users : JoinUserRoom(k, u) \/ GetOrders(k, u)
             \/ \E o \in Orders : JoinOrderRoom(k, o)
             \/ \E u \in Users, o \in Orders : GetOrderById(k, u, o)
             \/ Receive(k) \/ Disconnect(k)
      PROVE  UNCHANGED vars
  BY <1>4 DEF Connect, JoinUserRoom, JoinOrderRoom, GetOrders, GetOrderById, Read,
              Receive, Disconnect
<1>. QED
  BY <1>1, <1>2, <1>3, <1>4 DEF FeedNext

\* Sockets and notices leave the service as it is.
THEOREM FeedIsService == FeedSpec => Spec
<1>1. FeedInit => Init
  BY DEF FeedInit
<1>. QED
  BY <1>1, FeedStepIsStep, PTL DEF FeedSpec, Spec

-----------------------------------------------------------------------------
\* What a step of the service keeps

\* Who writes, and what, does not change.
SameWriters ==
  \A p \in Requests, o \in Orders :
    /\ Writing(p, o)' <=> Writing(p, o)
    /\ Writing(p, o) => req'[p].target = req[p].target

\* No row but a new one comes in or changes its status.
SameRows ==
  \A o \in Orders : status[o] # "Unplaced" =>
    /\ status'[o] # "Unplaced"
    /\ Exists(o)' => Exists(o) /\ status'[o] = status[o]

SamePlaced ==
  \A p \in Requests : req[p].pc = "placed" => req'[p] = req[p]

LEMMA DueKept ==
  ASSUME FeedInv, SamePlaced, UNCHANGED <<at, heard, due, lost>>,
         \A k \in Sockets : rooms[k] \subseteq rooms'[k]
  PROVE  Due'
BY DEF FeedInv, Due, SamePlaced

LEMMA FollowingKept ==
  ASSUME FeedInv, SameWriters, SameRows, UNCHANGED <<told, following, reading, fresh>>,
         \A k \in Sockets : rooms[k] \subseteq rooms'[k]
  PROVE  Following' /\ OneWriter'
<1>1. OneWriter'
  BY DEF FeedInv, OneWriter, SameWriters
<1>2. ASSUME NEW k \in Sockets, NEW o \in following[k]
      PROVE  Follows(k, o)'
  <2>1. o \in Orders /\ Follows(k, o)
    BY <1>2 DEF FeedInv, FeedTypeOK, Following
  <2>2. Unsettled(o)' <=> Unsettled(o)
    BY <2>1 DEF Unsettled, SameWriters
  <2>. QED
    BY <1>2, <2>1, <2>2 DEF Follows, SameWriters, SameRows
<1>3. ASSUME NEW k \in Sockets, NEW o \in fresh[k]
      PROVE  Current(k, o)'
  <2>1. o \in Orders /\ Current(k, o)
    BY <1>3 DEF FeedInv, FeedTypeOK, Following
  <2>2. Unsettled(o)' <=> Unsettled(o)
    BY <2>1 DEF Unsettled, SameWriters
  <2>. QED
    BY <1>3, <2>1, <2>2 DEF Current, SameRows
<1>. QED
  BY <1>1, <1>2, <1>3 DEF Following

\* The steps that send nothing and commit no status.
LEMMA SilentStep ==
  ASSUME FeedInv, SamePlaced, SameWriters, SameRows, UNCHANGED feed
  PROVE  FeedTypeOK' /\ Due' /\ Following' /\ OneWriter'
<1>1. FeedTypeOK'
  BY DEF FeedInv, FeedTypeOK, feed, Gateway!RoomsTyped
<1>2. \A k \in Sockets : rooms[k] \subseteq rooms'[k]
  BY DEF feed
<1>. QED
  BY <1>1, <1>2, DueKept, FollowingKept DEF feed

LEMMA RequestsTyped ==
  ASSUME FeedInv
  PROVE  req \in [Requests -> Request] /\ status \in [Orders -> OrderStatus \cup {"Unplaced", "Deleted"}]
BY DEF FeedInv, IInv, TypeOK

LEMMA CreateOrderFeed ==
  ASSUME FeedInv, NEW r \in Requests, NEW o \in Orders, CreateOrder(r, o), UNCHANGED feed
  PROVE  FeedTypeOK' /\ Due' /\ Following' /\ OneWriter'
<1>1. SamePlaced /\ SameWriters
  BY RequestsTyped DEF CreateOrder, SamePlaced, SameWriters, Writing, Idle
<1>2. SameRows
  BY DEF CreateOrder, SameRows, Exists
<1>. QED
  BY <1>1, <1>2, SilentStep

LEMMA EditOrderStatusFeed ==
  ASSUME FeedInv, NEW r \in Requests, NEW u \in Users, NEW o \in Orders,
         NEW s \in OrderStatus, EditOrderStatus(r, u, o, s), UNCHANGED feed
  PROVE  FeedTypeOK' /\ Due' /\ Following' /\ OneWriter'
<1>1. SamePlaced /\ SameWriters
  BY RequestsTyped DEF EditOrderStatus, SamePlaced, SameWriters, Writing
<1>2. SameRows
  BY DEF EditOrderStatus, SameRows, Exists
<1>. QED
  BY <1>1, <1>2, SilentStep

LEMMA PaymentFeed ==
  ASSUME FeedInv, NEW r \in Requests, UNCHANGED feed,
         SavePayment(r) \/ \E u \in Users, o \in Orders : ProcessPayment(r, u, o)
  PROVE  FeedTypeOK' /\ Due' /\ Following' /\ OneWriter'
<1>1. SamePlaced /\ SameWriters
  <2>1. CASE SavePayment(r)
    BY <2>1, RequestsTyped DEF SavePayment, SamePlaced, SameWriters, Writing, Idle
  <2>2. ASSUME NEW u \in Users, NEW o \in Orders, ProcessPayment(r, u, o)
        PROVE  SamePlaced /\ SameWriters
    BY <2>2, RequestsTyped
    DEF ProcessPayment, SamePlaced, SameWriters, Writing, Idle
  <2>. QED
    BY <2>1, <2>2
<1>2. SameRows
  BY DEF ProcessPayment, SavePayment, SameRows, Exists
<1>. QED
  BY <1>1, <1>2, SilentStep

LEMMA CleanUpFeed ==
  ASSUME FeedInv, UNCHANGED feed,
         HandleCron \/ \E o \in Orders : GrowStale(o) \/ ScanRow(o)
  PROVE  FeedTypeOK' /\ Due' /\ Following' /\ OneWriter'
<1>1. SamePlaced /\ SameWriters
  BY DEF HandleCron, GrowStale, ScanRow, SamePlaced, SameWriters, Writing
<1>2. SameRows
  <2>1. CASE HandleCron
    BY <2>1, RequestsTyped DEF HandleCron, SameRows, Exists
  <2>2. CASE UNCHANGED status
    BY <2>2 DEF SameRows, Exists
  <2>. QED
    BY <2>1, <2>2 DEF GrowStale, ScanRow
<1>. QED
  BY <1>1, <1>2, SilentStep

\* The commit stores what the room was told.
LEMMA CommitStatusFeed ==
  ASSUME FeedInv, NEW r \in Requests, CommitStatus(r), UNCHANGED feed
  PROVE  FeedTypeOK' /\ Due' /\ Following' /\ OneWriter'
<1>1. PICK q \in Request : q = req[r]
  BY RequestsTyped
<1>2. /\ q.pc = "saved" /\ q.order \in Orders /\ status[q.order] # "Unplaced"
      /\ q.target \in OrderStatus
  BY <1>1 DEF CommitStatus, FeedInv, IInv, InFlight, EditInFlight
<1>3. /\ req' = [req EXCEPT ![r] = Idle]
      /\ status' = [status EXCEPT ![q.order] =
                      IF "status" \in q.writes THEN q.target ELSE @]
  BY <1>1 DEF CommitStatus
<1>4. SamePlaced
  BY <1>1, <1>2, <1>3, RequestsTyped DEF SamePlaced
<1>5. CASE "status" \notin q.writes
  <2>1. SameWriters
    BY <1>1, <1>3, <1>5, RequestsTyped DEF SameWriters, Writing, Idle
  <2>2. SameRows
    BY <1>3, <1>5, RequestsTyped DEF SameRows, Exists
  <2>. QED
    BY <1>4, <2>1, <2>2, SilentStep
<1>6. CASE "status" \in q.writes
  <2>1. Writing(r, q.order)
    BY <1>1, <1>2, <1>6 DEF Writing
  <2>2. \A p \in Requests, o \in Orders :
          Writing(p, o)' <=> Writing(p, o) /\ o # q.order
    <3>1. \A p \in Requests \ {r} : ~ Writing(p, q.order)
      BY <1>2, <2>1 DEF FeedInv, OneWriter
    <3>2. \A p \in Requests \ {r}, o \in Orders : Writing(p, o)' <=> Writing(p, o)
      BY <1>3, RequestsTyped DEF Writing
    <3>3. \A o \in Orders : ~ Writing(r, o)' /\ (Writing(r, o) => o = q.order)
      BY <1>1, <1>3, RequestsTyped DEF Writing, Idle
    <3>. QED
      BY <2>1, <3>1, <3>2, <3>3
  <2>3. \A p \in Requests, o \in Orders : Writing(p, o)' => req'[p] = req[p]
    BY <1>3, RequestsTyped DEF Writing, Idle
  <2>4. status'[q.order] = q.target
        /\ \A o \in Orders \ {q.order} : status'[o] = status[o]
    BY <1>2, <1>3, <1>6, RequestsTyped
  <2>5. OneWriter'
    BY <2>2 DEF FeedInv, OneWriter
  <2>6. ASSUME NEW k \in Sockets, NEW o \in following[k]
        PROVE  Follows(k, o)'
    <3>1. o \in Orders /\ Follows(k, o)
      BY <2>6 DEF FeedInv, FeedTypeOK, Following
    <3>2. CASE o = q.order
      <4>1. told[k][o] = status'[o]
        BY <1>1, <2>1, <2>4, <3>1, <3>2 DEF Follows
      <4>2. ~ Unsettled(o)'
        BY <2>2, <3>1, <3>2 DEF Unsettled
      <4>3. status'[o] # "Unplaced"
        BY <1>2, <2>4, <3>2 DEF OrderStatus
      <4>. QED
        BY <2>2, <3>1, <3>2, <4>1, <4>2, <4>3 DEF Follows, feed
    <3>3. CASE o # q.order
      <4>1. Unsettled(o)' <=> Unsettled(o)
        BY <2>2, <3>1, <3>3 DEF Unsettled
      <4>2. status'[o] = status[o] /\ (Exists(o)' <=> Exists(o))
        BY <2>4, <3>1, <3>3 DEF Exists
      <4>. QED
        BY <2>2, <2>3, <3>1, <3>3, <4>1, <4>2 DEF Follows, feed
    <3>. QED
      BY <3>2, <3>3
  <2>7. ASSUME NEW k \in Sockets, NEW o \in fresh[k]
        PROVE  Current(k, o)'
    <3>1. o \in Orders /\ Current(k, o)
      BY <2>7 DEF FeedInv, FeedTypeOK, Following
    <3>2. o # q.order
      BY <2>1, <3>1 DEF Current, Unsettled
    <3>3. Unsettled(o)' <=> Unsettled(o)
      BY <2>2, <3>1, <3>2 DEF Unsettled
    <3>4. status'[o] = status[o] /\ (Exists(o)' <=> Exists(o))
      BY <2>4, <3>1, <3>2 DEF Exists
    <3>. QED
      BY <3>1, <3>3, <3>4 DEF Current, feed
  <2>8. Due'
    BY <1>4, DueKept DEF feed
  <2>9. FeedTypeOK'
    BY DEF FeedInv, FeedTypeOK, feed, Gateway!RoomsTyped
  <2>. QED
    BY <2>5, <2>6, <2>7, <2>8, <2>9 DEF Following, feed
<1>. QED
  BY <1>5, <1>6

-----------------------------------------------------------------------------
\* Notices

LEMMA UserRooms ==
  /\ \A o \in Orders : Gateway!UserRoom(OwnerOf[o]) \in Gateway!Rooms
  /\ \A u \in Users : Gateway!UserRoom(u) \in Gateway!Rooms
  /\ \A o \in Orders : Gateway!OrderRoom(o) \in Gateway!Rooms
BY PartiesOfOrders DEF Gateway!Rooms, Users

\* The order becomes due to whoever is in its owner's room, and nobody follows
\* it yet.
LEMMA PlaceCommittedFeed ==
  ASSUME FeedInv, NEW r \in Requests, PlaceCommitted(r)
  PROVE  FeedTypeOK' /\ Due' /\ Following' /\ OneWriter'
<1>1. PICK o \in Orders : o = req[r].order /\ status[o] = "Unplaced"
  BY DEF PlaceCommitted, CommitOrder, FeedInv, IInv, InFlight, PlaceInFlight
<1>2. /\ req[r].pc = "placing"
      /\ req' = [req EXCEPT ![r].pc = "placed"]
      /\ status' = [status EXCEPT ![o] = "Pending"]
      /\ UNCHANGED <<at, rooms, heard, told, lost, following, reading, fresh>>
  BY <1>1 DEF PlaceCommitted, CommitOrder
<1>3. due' = [k \in Sockets |->
        IF Gateway!UserRoom(OwnerOf[o]) \in rooms[k] /\ at[k] = ServedOn[r]
          THEN due[k] \cup {o} ELSE due[k]]
  BY <1>1 DEF PlaceCommitted, Gateway!Hearers
<1>4. FeedTypeOK'
  BY <1>2, <1>3 DEF FeedInv, FeedTypeOK, Gateway!RoomsTyped
<1>5. SameWriters /\ SamePlaced
  BY <1>2, RequestsTyped DEF SameWriters, SamePlaced, Writing, Request
<1>6. SameRows
  BY <1>1, <1>2, RequestsTyped DEF SameRows, Exists
<1>7. Following' /\ OneWriter'
  BY <1>2, <1>5, <1>6, FollowingKept
<1>8. Due'
  <2>1. req'[r].pc = "placed" /\ req'[r].order = o
    BY <1>1, <1>2, RequestsTyped DEF Request
  <2>2. ASSUME NEW k \in Sockets, NEW p \in due'[k]
        PROVE  /\ Gateway!UserRoom(OwnerOf[p]) \in rooms'[k]
               /\ at'[k] # None
               /\ \/ p \in heard'[k] \cup lost'
                  \/ \E x \in Requests : /\ req'[x].pc = "placed"
                                         /\ req'[x].order = p
                                         /\ ServedOn[x] = at'[k]
    <3>1. CASE p \in due[k]
      BY <1>2, <1>5, <3>1 DEF FeedInv, Due, SamePlaced
    <3>2. CASE p = o /\ Gateway!UserRoom(OwnerOf[o]) \in rooms[k] /\ at[k] = ServedOn[r]
      BY <1>2, <2>1, <3>2, SpreadOverTasks
    <3>. QED
      BY <1>3, <2>2, <3>1, <3>2
  <2>. QED
    BY <2>2 DEF Due
<1>. QED
  BY <1>4, <1>7, <1>8

\* Whoever the order was due to is in the owner's room still, and hears of it.
LEMMA PlaceAnnouncedFeed ==
  ASSUME FeedInv, NEW r \in Requests, PlaceAnnounced(r)
  PROVE  FeedTypeOK' /\ Due' /\ Following' /\ OneWriter'
<1>1. PICK o \in Orders : o = req[r].order
  BY DEF PlaceAnnounced, AnnounceOrder, FeedInv, IInv, InFlight, PlaceInFlight
<1>2. /\ req[r].pc = "placed"
      /\ req' = [req EXCEPT ![r] = Idle] /\ UNCHANGED status
      /\ UNCHANGED <<at, rooms, told, due, lost, following, reading, fresh>>
  BY DEF PlaceAnnounced, AnnounceOrder
<1>3. heard' = [k \in Sockets |->
        IF Gateway!UserRoom(OwnerOf[o]) \in rooms[k] /\ at[k] = ServedOn[r]
          THEN heard[k] \cup {o} ELSE heard[k]]
  BY <1>1 DEF PlaceAnnounced, NoticeRoom, Gateway!Hearers
<1>4. FeedTypeOK'
  BY <1>2, <1>3 DEF FeedInv, FeedTypeOK, Gateway!RoomsTyped
<1>5. SameWriters
  BY <1>2, RequestsTyped DEF SameWriters, Writing, Idle
<1>6. SameRows
  BY <1>2 DEF SameRows, Exists
<1>7. Following' /\ OneWriter'
  BY <1>2, <1>5, <1>6, FollowingKept
<1>8. ASSUME NEW k \in Sockets, NEW p \in due[k]
      PROVE  /\ Gateway!UserRoom(OwnerOf[p]) \in rooms[k]
             /\ at[k] # None
             /\ \/ p \in heard'[k] \cup lost
                \/ \E x \in Requests : /\ req'[x].pc = "placed"
                                       /\ req'[x].order = p
                                       /\ ServedOn[x] = at[k]
  <2>1. Gateway!UserRoom(OwnerOf[p]) \in rooms[k] /\ at[k] # None
    BY <1>8 DEF FeedInv, Due
  <2>2. CASE p \in heard[k] \cup lost
    BY <1>3, <2>1, <2>2
  <2>3. ASSUME NEW x \in Requests, req[x].pc = "placed", req[x].order = p,
               ServedOn[x] = at[k]
        PROVE  \/ p \in heard'[k]
               \/ \E y \in Requests : /\ req'[y].pc = "placed"
                                      /\ req'[y].order = p
                                      /\ ServedOn[y] = at[k]
    <3>1. CASE x = r
      BY <1>1, <1>3, <2>1, <2>3, <3>1
    <3>2. CASE x # r
      BY <1>2, <2>3, <3>2, RequestsTyped
    <3>. QED
      BY <3>1, <3>2
  <2>. QED
    BY <1>8, <2>1, <2>2, <2>3 DEF FeedInv, Due
<1>9. Due'
  BY <1>2, <1>8 DEF Due
<1>. QED
  BY <1>4, <1>7, <1>9

\* The notice tells the followers what the transaction is going to store, or
\* ends their following where it stores nothing.
LEMMA StatusAnnouncedFeed ==
  ASSUME FeedInv, NEW r \in Requests, StatusAnnounced(r)
  PROVE  FeedTypeOK' /\ Due' /\ Following' /\ OneWriter'
<1>1. PICK q \in Request : q = req[r]
  BY RequestsTyped
<1>2. q.pc = "read" /\ q.order \in Orders /\ q.target \in OrderStatus
  BY <1>1 DEF StatusAnnounced, SaveStatus, FeedInv, IInv, InFlight, EditInFlight
<1>3. PICK o \in Orders, w \in SUBSET Columns : o = q.order /\ w = Writes(q)
  BY <1>2 DEF Writes, Diff
<1>4. /\ req' = [req EXCEPT ![r] = [q EXCEPT !.pc = "saved", !.writes = w]]
      /\ w # {} => Free(o)
      /\ UNCHANGED status /\ UNCHANGED <<at, rooms, heard, due, lost, reading>>
  BY <1>1, <1>3 DEF StatusAnnounced, SaveStatus
<1> DEFINE Hears(k) == Gateway!OrderRoom(o) \in rooms[k] /\ at[k] = ServedOn[r]
<1>5. /\ told' = [k \in Sockets |->
             IF Hears(k) THEN [told[k] EXCEPT ![o] = q.target] ELSE told[k]]
      /\ following' = [k \in Sockets |->
             IF Hears(k) <=> "status" \in w THEN following[k] ELSE following[k] \ {o}]
      /\ fresh' = [k \in Sockets |->
             IF Hears(k) \/ "status" \in w THEN fresh[k] \ {o} ELSE fresh[k]]
  BY <1>1, <1>3 DEF StatusAnnounced, Gateway!Hearers
<1>6. /\ req'[r].pc = "saved" /\ req'[r].writes = w /\ req'[r].order = o
      /\ req'[r].target = q.target
      /\ \A p \in Requests \ {r} : req'[p] = req[p]
  BY <1>1, <1>3, <1>4, RequestsTyped DEF Request
<1>7. FeedTypeOK'
  <2>1. told' \in [Sockets -> [Orders -> OrderStatus \cup {None}]]
    BY <1>2, <1>5 DEF FeedInv, FeedTypeOK
  <2>. QED
    BY <1>4, <1>5, <2>1 DEF FeedInv, FeedTypeOK, Gateway!RoomsTyped
<1>8. Due'
  BY <1>1, <1>2, <1>4, <1>6, DueKept DEF SamePlaced
<1>9. \A p \in Requests \ {r}, x \in Orders : Writing(p, x)' <=> Writing(p, x)
  BY <1>6 DEF Writing
<1>10. \A x \in Orders :
         /\ ~ Writing(r, x)
         /\ Writing(r, x)' <=> x = o /\ "status" \in w
  BY <1>1, <1>2, <1>6 DEF Writing
<1>11. "status" \in w => \A p \in Requests : ~ Writing(p, o)
  BY <1>4 DEF Free, Locked, HoldsLock, Writing
<1>12. OneWriter'
  BY <1>9, <1>10, <1>11 DEF FeedInv, OneWriter
<1>13. \A x \in Orders : x # o => (Unsettled(x)' <=> Unsettled(x))
  BY <1>9, <1>10 DEF Unsettled
<1>14. ASSUME NEW k \in Sockets, NEW x \in following'[k]
       PROVE  Follows(k, x)'
  <2>1. x \in Orders /\ x \in following[k] /\ Follows(k, x)
    BY <1>5, <1>14 DEF FeedInv, FeedTypeOK, Following
  <2>2. CASE x = o /\ ~ Hears(k)
    <3>1. told'[k] = told[k]
      BY <1>5, <2>2
    <3>2. "status" \notin w
      BY <1>5, <1>14, <2>2
    <3>3. \A p \in Requests : Writing(p, x)' => Writing(p, x) /\ req'[p] = req[p]
      BY <1>6, <1>9, <1>10, <2>1, <3>2
    <3>4. Unsettled(x)' <=> Unsettled(x)
      BY <1>9, <1>10, <2>1, <3>2 DEF Unsettled
    <3>. QED
      BY <1>4, <2>1, <3>1, <3>3, <3>4 DEF Follows, Exists
  <2>4. CASE x = o /\ Hears(k)
    <3>1. "status" \in w
      BY <1>5, <1>14, <2>4
    <3>2. told'[k][x] = q.target
      BY <1>5, <2>1, <2>4 DEF FeedInv, FeedTypeOK
    <3>3. Unsettled(x)'
      BY <1>10, <2>4, <3>1 DEF Unsettled
    <3>4. \A p \in Requests : Writing(p, x)' => p = r
      BY <1>9, <1>11, <2>4, <3>1
    <3>. QED
      BY <1>4, <1>6, <2>1, <3>2, <3>3, <3>4 DEF Follows
  <2>3. CASE x # o
    <3>1. told'[k][x] = told[k][x]
      BY <1>5, <2>1, <2>3 DEF FeedInv, FeedTypeOK
    <3>2. \A p \in Requests : Writing(p, x)' => Writing(p, x) /\ req'[p] = req[p]
      BY <1>6, <1>9, <1>10, <2>1, <2>3
    <3>. QED
      BY <1>4, <1>13, <2>1, <2>3, <3>1, <3>2 DEF Follows, Exists
  <2>. QED
    BY <2>2, <2>3, <2>4
<1>15. ASSUME NEW k \in Sockets, NEW x \in fresh'[k]
       PROVE  Current(k, x)'
  <2>1. x \in Orders /\ x \in fresh[k] /\ Current(k, x)
    BY <1>5, <1>15 DEF FeedInv, FeedTypeOK, Following
  <2>2. CASE x # o
    BY <1>4, <1>13, <2>1, <2>2 DEF Current, Exists
  <2>3. CASE x = o
    <3>1. "status" \notin w
      BY <1>5, <1>15, <2>3
    <3>2. ~ Unsettled(x)'
      BY <1>9, <1>10, <2>1, <3>1 DEF Current, Unsettled
    <3>. QED
      BY <1>4, <2>1, <3>2 DEF Current, Exists
  <2>. QED
    BY <2>2, <2>3
<1>. QED
  BY <1>7, <1>8, <1>12, <1>14, <1>15 DEF Following

\* What dies with its request is remembered as lost, or ends the following.
LEMMA RequestDiesFeed ==
  ASSUME FeedInv, NEW r \in Requests, RequestDies(r)
  PROVE  FeedTypeOK' /\ Due' /\ Following' /\ OneWriter'
<1>1. PICK o : o = req[r].order
  OBVIOUS
<1>2. /\ req' = [req EXCEPT ![r] = Idle] /\ UNCHANGED status
      /\ UNCHANGED <<at, rooms, heard, told, due, reading, fresh>>
      /\ lost' = IF req[r].pc = "placed" THEN lost \cup {o} ELSE lost
      /\ following' = [k \in Sockets |->
           IF Writing(r, o) THEN following[k] \ {o} ELSE following[k]]
  BY <1>1 DEF RequestDies, Fail
<1>3. req'[r] = Idle /\ \A p \in Requests \ {r} : req'[p] = req[p]
  BY <1>2, RequestsTyped
<1>4. req[r].pc = "placed" => o \in Orders
  BY <1>1 DEF FeedInv, IInv, InFlight, PlaceInFlight
<1>5. FeedTypeOK'
  BY <1>2, <1>4 DEF FeedInv, FeedTypeOK, Gateway!RoomsTyped
<1>6. ASSUME NEW k \in Sockets, NEW p \in due[k]
      PROVE  /\ Gateway!UserRoom(OwnerOf[p]) \in rooms[k]
             /\ at[k] # None
             /\ \/ p \in heard[k] \cup lost'
                \/ \E x \in Requests : /\ req'[x].pc = "placed"
                                       /\ req'[x].order = p
                                       /\ ServedOn[x] = at[k]
  BY <1>1, <1>2, <1>3 DEF FeedInv, Due
<1>7. Due'
  BY <1>2, <1>6 DEF Due
<1>8. \A p \in Requests, x \in Orders : Writing(p, x)' <=> Writing(p, x) /\ p # r
  BY <1>3 DEF Writing, Idle
<1>9. OneWriter'
  BY <1>8 DEF FeedInv, OneWriter
<1>10. \A x \in Orders : ~ Writing(r, x) => (Unsettled(x)' <=> Unsettled(x))
  BY <1>8 DEF Unsettled
<1>11. ASSUME NEW k \in Sockets, NEW x \in following'[k]
       PROVE  Follows(k, x)'
  <2>1. x \in Orders /\ x \in following[k] /\ Follows(k, x)
    BY <1>2, <1>11 DEF FeedInv, FeedTypeOK, Following
  <2>2. ~ Writing(r, x)
    BY <1>1, <1>2, <1>11 DEF Writing
  <2>3. \A p \in Requests : Writing(p, x)' => Writing(p, x) /\ req'[p] = req[p]
    BY <1>3, <1>8, <2>1
  <2>. QED
    BY <1>2, <1>10, <2>1, <2>2, <2>3 DEF Follows, Exists
<1>12. ASSUME NEW k \in Sockets, NEW x \in fresh[k]
       PROVE  Current(k, x)'
  <2>1. x \in Orders /\ Current(k, x)
    BY <1>12 DEF FeedInv, FeedTypeOK, Following
  <2>2. ~ Writing(r, x)
    BY <2>1 DEF Current, Unsettled
  <2>. QED
    BY <1>2, <1>10, <2>1, <2>2 DEF Current, Exists
<1>. QED
  BY <1>2, <1>5, <1>7, <1>9, <1>11, <1>12 DEF Following

-----------------------------------------------------------------------------
\* Sockets

LEMMA ServiceUnchanged ==
  ASSUME FeedInv, UNCHANGED vars
  PROVE  SamePlaced /\ SameWriters /\ SameRows
BY DEF vars, SamePlaced, SameWriters, SameRows, Writing, Exists

LEMMA ConnectFeed ==
  ASSUME FeedInv, NEW k \in Sockets, NEW task \in Tasks, Connect(k, task)
  PROVE  FeedTypeOK' /\ Due' /\ Following' /\ OneWriter'
<1>1. /\ at' = [at EXCEPT ![k] = task] /\ at[k] = None /\ UNCHANGED vars
      /\ UNCHANGED <<rooms, heard, told, due, lost, following, reading, fresh>>
  BY DEF Connect, Gateway!Connect
<1>2. FeedTypeOK'
  BY <1>1 DEF FeedInv, FeedTypeOK, Gateway!RoomsTyped
<1>3. \A x \in Sockets : due[x] # {} => at'[x] = at[x]
  BY <1>1 DEF FeedInv, FeedTypeOK, Gateway!RoomsTyped, Due
<1>4. Due'
  BY <1>1, <1>3 DEF FeedInv, Due, vars
<1>5. Following' /\ OneWriter'
  BY <1>1, ServiceUnchanged, FollowingKept
<1>. QED
  BY <1>2, <1>4, <1>5

LEMMA JoinFeed ==
  ASSUME FeedInv, NEW k \in Sockets, NEW name \in Gateway!Rooms,
         Gateway!Join(k, name),
         UNCHANGED <<vars, heard, told, due, lost, following, reading, fresh>>
  PROVE  FeedTypeOK' /\ Due' /\ Following' /\ OneWriter'
<1>1. rooms' = [rooms EXCEPT ![k] = @ \cup {name}] /\ UNCHANGED at
  BY DEF Gateway!Join
<1>2. FeedTypeOK'
  BY <1>1 DEF FeedInv, FeedTypeOK, Gateway!RoomsTyped
<1>3. \A x \in Sockets : rooms[x] \subseteq rooms'[x]
  BY <1>1 DEF FeedInv, FeedTypeOK, Gateway!RoomsTyped
<1>. QED
  BY <1>1, <1>2, <1>3, ServiceUnchanged, DueKept, FollowingKept

LEMMA DisconnectFeed ==
  ASSUME FeedInv, NEW k \in Sockets, Disconnect(k)
  PROVE  FeedTypeOK' /\ Due' /\ Following' /\ OneWriter'
<1>1. /\ at' = [at EXCEPT ![k] = None]
      /\ rooms' = [rooms EXCEPT ![k] = {}] /\ due' = [due EXCEPT ![k] = {}]
      /\ following' = [following EXCEPT ![k] = {}] /\ fresh' = [fresh EXCEPT ![k] = {}]
      /\ UNCHANGED <<vars, heard, told, lost, reading>>
  BY DEF Disconnect, Gateway!Disconnect
<1>2. FeedTypeOK'
  BY <1>1 DEF FeedInv, FeedTypeOK, Gateway!RoomsTyped
<1>3. UNCHANGED <<req, status>>
  BY <1>1 DEF vars
<1>4. OneWriter'
  BY <1>3 DEF FeedInv, OneWriter, Writing
<1>5. ASSUME NEW x \in Sockets
      PROVE  \/ due'[x] = {} /\ following'[x] = {} /\ fresh'[x] = {}
             \/ UNCHANGED <<at[x], rooms[x], due[x], following[x], fresh[x]>>
  BY <1>1 DEF FeedInv, FeedTypeOK, Gateway!RoomsTyped
<1>6. Due'
  BY <1>1, <1>3, <1>5 DEF FeedInv, Due
<1>7. Following'
  BY <1>1, <1>3, <1>5
  DEF FeedInv, Following, Follows, Current, Unsettled, Writing, Exists
<1>. QED
  BY <1>2, <1>4, <1>6, <1>7

LEMMA ReadFeed ==
  ASSUME FeedInv, NEW k \in Sockets, NEW os \in SUBSET Orders,
         \A o \in os : Exists(o), Read(k, os)
  PROVE  FeedTypeOK' /\ Due' /\ Following' /\ OneWriter'
<1>1. /\ reading' = [reading EXCEPT ![k] =
           [o \in Orders |-> IF o \in os THEN status[o] ELSE None]]
      /\ fresh' = [fresh EXCEPT ![k] =
           {o \in os : Gateway!OrderRoom(o) \in rooms[k] /\ ~ Unsettled(o)}]
      /\ UNCHANGED <<at, rooms, heard, told, due, lost, following>>
      /\ UNCHANGED <<req, status>>
  BY DEF Read, vars, Gateway!Hearers
<1>2. \A o \in os : status[o] \in OrderStatus
  BY RequestsTyped DEF Exists
<1>3. FeedTypeOK'
  BY <1>1, <1>2 DEF FeedInv, FeedTypeOK, Gateway!RoomsTyped
<1>4. Due' /\ OneWriter'
  BY <1>1 DEF FeedInv, Due, OneWriter, Writing
<1>5. ASSUME NEW x \in Sockets, NEW o \in following[x]
      PROVE  Follows(x, o)'
  BY <1>1, <1>5 DEF FeedInv, Following, Follows, Unsettled, Writing, Exists
<1>6. ASSUME NEW x \in Sockets, NEW o \in fresh'[x]
      PROVE  Current(x, o)'
  <2>1. CASE x = k
    <3>1. o \in os /\ Gateway!OrderRoom(o) \in rooms[k] /\ ~ Unsettled(o)
      BY <1>1, <1>6, <2>1 DEF FeedInv, FeedTypeOK
    <3>2. reading'[k][o] = status[o] /\ reading'[k][o] # None
      BY <1>1, <1>2, <3>1, NoneIsFresh DEF FeedInv, FeedTypeOK
    <3>3. status[o] # "Unplaced"
      BY <3>1 DEF Exists
    <3>4. ~ Unsettled(o)'
      BY <1>1, <3>1 DEF Unsettled, Writing
    <3>. QED
      BY <1>1, <2>1, <3>1, <3>2, <3>3, <3>4 DEF Current
  <2>2. CASE x # k
    <3>1. fresh'[x] = fresh[x] /\ reading'[x] = reading[x]
      BY <1>1, <2>2 DEF FeedInv, FeedTypeOK
    <3>. QED
      BY <1>1, <1>6, <3>1 DEF FeedInv, Following, Current, Unsettled, Writing, Exists
  <2>. QED
    BY <2>1, <2>2
<1>. QED
  BY <1>1, <1>3, <1>4, <1>5, <1>6 DEF Following

LEMMA ReceiveFeed ==
  ASSUME FeedInv, NEW k \in Sockets, Receive(k)
  PROVE  FeedTypeOK' /\ Due' /\ Following' /\ OneWriter'
<1>1. PICK os \in SUBSET Orders : os = {o \in Orders : reading[k][o] # None}
  OBVIOUS
<1>2. /\ told' = [told EXCEPT ![k] =
           [o \in Orders |-> IF o \in os THEN reading[k][o] ELSE told[k][o]]]
      /\ following' = [following EXCEPT ![k] = (@ \ os) \cup fresh[k]]
      /\ reading' = [reading EXCEPT ![k] = NoAnswer]
      /\ fresh' = [fresh EXCEPT ![k] = {}]
      /\ UNCHANGED <<at, rooms, heard, due, lost>>
      /\ UNCHANGED <<req, status>>
  BY <1>1 DEF Receive, vars
<1>3. FeedTypeOK'
  <2>1. NoAnswer \in [Orders -> OrderStatus \cup {None}]
    BY DEF NoAnswer
  <2>2. reading' \in [Sockets -> [Orders -> OrderStatus \cup {None}]]
    BY <1>2, <2>1 DEF FeedInv, FeedTypeOK
  <2>3. [o \in Orders |-> IF o \in os THEN reading[k][o] ELSE told[k][o]]
           \in [Orders -> OrderStatus \cup {None}]
    BY DEF FeedInv, FeedTypeOK
  <2>4. told' \in [Sockets -> [Orders -> OrderStatus \cup {None}]]
    BY <1>2, <2>3 DEF FeedInv, FeedTypeOK
  <2>5. /\ following' \in [Sockets -> SUBSET Orders]
        /\ fresh' \in [Sockets -> SUBSET Orders]
    BY <1>2 DEF FeedInv, FeedTypeOK
  <2>. QED
    BY <1>2, <2>2, <2>4, <2>5 DEF FeedInv, FeedTypeOK, Gateway!RoomsTyped
<1>4. Due' /\ OneWriter'
  BY <1>2 DEF FeedInv, Due, OneWriter, Writing
<1>5. ASSUME NEW x \in Sockets, NEW o \in following'[x]
      PROVE  Follows(x, o)'
  <2>1. CASE x = k /\ o \in fresh[k]
    <3>1. o \in Orders /\ Current(k, o)
      BY <2>1 DEF FeedInv, FeedTypeOK, Following
    <3>2. told'[k][o] = reading[k][o]
      BY <1>1, <1>2, <3>1 DEF Current, FeedInv, FeedTypeOK
    <3>. QED
      BY <1>2, <2>1, <3>1, <3>2 DEF Follows, Current, Unsettled, Writing, Exists
  <2>2. CASE x = k /\ o \in following[k] \ os
    <3>1. o \in Orders /\ Follows(k, o)
      BY <2>2 DEF FeedInv, FeedTypeOK, Following
    <3>2. told'[k][o] = told[k][o]
      BY <1>2, <2>2, <3>1 DEF FeedInv, FeedTypeOK
    <3>. QED
      BY <1>2, <2>2, <3>1, <3>2 DEF Follows, Unsettled, Writing, Exists
  <2>3. CASE x # k
    <3>1. following'[x] = following[x] /\ told'[x] = told[x]
      BY <1>2, <2>3 DEF FeedInv, FeedTypeOK
    <3>. QED
      BY <1>2, <1>5, <3>1 DEF FeedInv, Following, Follows, Unsettled, Writing, Exists
  <2>. QED
    BY <1>2, <1>5, <2>1, <2>2, <2>3 DEF FeedInv, FeedTypeOK
<1>6. ASSUME NEW x \in Sockets, NEW o \in fresh'[x]
      PROVE  Current(x, o)'
  <2>1. x # k /\ o \in fresh[x] /\ reading'[x] = reading[x]
    BY <1>2, <1>6 DEF FeedInv, FeedTypeOK
  <2>. QED
    BY <1>2, <2>1 DEF FeedInv, Following, Current, Unsettled, Writing, Exists
<1>. QED
  BY <1>3, <1>4, <1>5, <1>6 DEF Following

-----------------------------------------------------------------------------
\* The specification

LEMMA FeedInitInv == FeedInit => FeedInv
<1>1. SUFFICES ASSUME FeedInit PROVE FeedInv
  OBVIOUS
<1>2. IInv
  BY <1>1, InitInv DEF FeedInit
<1>3. FeedTypeOK
  BY <1>1 DEF FeedInit, FeedTypeOK, Gateway!Init, Gateway!RoomsTyped, NoAnswer
<1>4. Due /\ Following
  BY <1>1 DEF FeedInit, Due, Following
<1>5. OneWriter
  BY <1>1 DEF FeedInit, Init, OneWriter, Writing, Idle
<1>. QED
  BY <1>2, <1>3, <1>4, <1>5 DEF FeedInv

LEMMA OrderStepFeed ==
  ASSUME FeedInv, OrderStep
  PROVE  FeedTypeOK' /\ Due' /\ Following' /\ OneWriter'
BY CreateOrderFeed, EditOrderStatusFeed, CommitStatusFeed, PaymentFeed,
   CleanUpFeed DEF OrderStep

LEMMA SocketStepFeed ==
  ASSUME FeedInv, NEW k \in Sockets,
         \/ \E task \in Tasks : Connect(k, task)
         \/ \E u \in Users : JoinUserRoom(k, u) \/ GetOrders(k, u)
         \/ \E o \in Orders : JoinOrderRoom(k, o)
         \/ \E u \in Users, o \in Orders : GetOrderById(k, u, o)
         \/ Receive(k) \/ Disconnect(k)
  PROVE  FeedTypeOK' /\ Due' /\ Following' /\ OneWriter'
<1>1. ASSUME NEW u \in Users, JoinUserRoom(k, u)
      PROVE  FeedTypeOK' /\ Due' /\ Following' /\ OneWriter'
  BY <1>1, JoinFeed, UserRooms DEF JoinUserRoom, Gateway!JoinUserRoom
<1>2. ASSUME NEW o \in Orders, JoinOrderRoom(k, o)
      PROVE  FeedTypeOK' /\ Due' /\ Following' /\ OneWriter'
  BY <1>2, JoinFeed, UserRooms DEF JoinOrderRoom, Gateway!JoinOrderRoom
<1>3. ASSUME NEW u \in Users, GetOrders(k, u)
      PROVE  FeedTypeOK' /\ Due' /\ Following' /\ OneWriter'
  <2>1. Listed(u) \in SUBSET Orders /\ \A o \in Listed(u) : Exists(o)
    BY DEF Listed
  <2>. QED
    BY <1>3, <2>1, ReadFeed DEF GetOrders
<1>4. ASSUME NEW u \in Users, NEW o \in Orders, GetOrderById(k, u, o)
      PROVE  FeedTypeOK' /\ Due' /\ Following' /\ OneWriter'
  <2>1. {o} \in SUBSET Orders /\ \A p \in {o} : Exists(p)
    BY <1>4 DEF GetOrderById, Readable
  <2>. QED
    BY <1>4, <2>1, ReadFeed DEF GetOrderById
<1>. QED
  BY <1>1, <1>2, <1>3, <1>4, ConnectFeed, ReceiveFeed, DisconnectFeed

LEMMA FeedNextInv == FeedInv /\ [FeedNext]_allVars => FeedInv'
<1>1. SUFFICES ASSUME FeedInv, [FeedNext]_allVars PROVE FeedInv'
  OBVIOUS
<1>2. IInv'
  BY <1>1, FeedStepIsStep, NextInv DEF FeedInv
<1>3. CASE FeedNext
  <2>1. FeedTypeOK' /\ Due' /\ Following' /\ OneWriter'
    BY <1>1, <1>3, PlaceCommittedFeed, PlaceAnnouncedFeed, StatusAnnouncedFeed,
       RequestDiesFeed, OrderStepFeed, SocketStepFeed DEF FeedNext
  <2>. QED
    BY <1>2, <2>1 DEF FeedInv
<1>4. CASE UNCHANGED allVars
  <2>1. UNCHANGED vars /\ UNCHANGED feed
    BY <1>4 DEF allVars
  <2>2. FeedTypeOK' /\ Due' /\ Following' /\ OneWriter'
    BY <1>1, <2>1, ServiceUnchanged, SilentStep
  <2>. QED
    BY <1>2, <2>2 DEF FeedInv
<1>. QED
  BY <1>1, <1>3, <1>4

\* The inductive invariant of the composition: what each client knows of the
\* orders it follows, and why each notice that is due is still to come.
THEOREM FeedInvariant == FeedSpec => []FeedInv
BY FeedInitInv, FeedNextInv, PTL DEF FeedSpec

\* An owner in his room when an order is committed hears of it, unless the
\* request dies before its notice, for any number of sockets and requests.
THEOREM OwnersHear == FeedSpec => []OwnerHears
<1>1. FeedInv => OwnerHears
  BY DEF FeedInv, Due, OwnerHears
<1>. QED
  BY <1>1, FeedInvariant, PTL

\* A client that follows an order knows its stored status whenever no edit of
\* it is in flight, though the notices leave before the commits.
THEOREM FollowersUpToDate == FeedSpec => []FollowerUpToDate
<1>1. FeedInv => FollowerUpToDate
  BY DEF FeedInv, Following, Follows, FollowerUpToDate
<1>. QED
  BY <1>1, FeedInvariant, PTL

=============================================================================
