--------------------------- MODULE OrderLifecycle ---------------------------
(***************************************************************************)
(* What the order service promises of an order, without requests, locks or *)
(* transactions: each step changes the stored orders at once.              *)
(***************************************************************************)
CONSTANTS Orders, Drivers, None

VARIABLES status, driver

rows == <<status, driver>>

\* The kitchen has accepted the order, or a driver has taken it.
Active(o) == status[o] \in {"Cooking", "Cooked", "PickedUp", "Delivered"}

Init ==
  /\ status = [o \in Orders |-> "Unplaced"]
  /\ driver = [o \in Orders |-> None]

Place(o) ==
  /\ status[o] = "Unplaced"
  /\ status' = [status EXCEPT ![o] = "Pending"]
  /\ UNCHANGED driver

\* The owner accepts the order or reports it cooked, at whatever stage it is.
Cook(o, s) ==
  /\ status[o] = "Pending" \/ Active(o)
  /\ s \in {"Cooking", "Cooked"}
  /\ status' = [status EXCEPT ![o] = s]
  /\ UNCHANGED driver

\* A driver takes the order, possibly from another driver.
PickUp(o, d) ==
  /\ status[o] = "Pending" \/ Active(o)
  /\ status' = [status EXCEPT ![o] = "PickedUp"]
  /\ driver' = [driver EXCEPT ![o] = d]

\* The driver of an active order is replaced, its status stays.
Reassign(o, d) ==
  /\ Active(o)
  /\ driver' = [driver EXCEPT ![o] = d]
  /\ UNCHANGED status

\* An order that has a driver is on the road again, or delivered.
Ride(o, s) ==
  /\ Active(o)
  /\ driver[o] # None
  /\ s \in {"PickedUp", "Delivered"}
  /\ status' = [status EXCEPT ![o] = s]
  /\ UNCHANGED driver

\* The clean-up removes orders nobody accepted.
Expire(gone) ==
  /\ \A o \in gone : status[o] = "Pending"
  /\ status' = [o \in Orders |-> IF o \in gone THEN "Deleted" ELSE status[o]]
  /\ UNCHANGED driver

Next ==
  \/ \E o \in Orders :
       \/ Place(o)
       \/ \E s \in {"Cooking", "Cooked"} : Cook(o, s)
       \/ \E d \in Drivers : PickUp(o, d) \/ Reassign(o, d)
       \/ \E s \in {"PickedUp", "Delivered"} : Ride(o, s)
  \/ \E gone \in SUBSET Orders : Expire(gone)

Spec == Init /\ [][Next]_rows

=============================================================================
