--------------------------- MODULE EventsGateway ---------------------------
(***************************************************************************)
(* The rooms of the socket servers. A socket gets into a room by a         *)
(* message, in any order and at any time after it has connected, and out   *)
(* of all of them when its connection ends. What is emitted to a room      *)
(* reaches the sockets that are in it at that moment and connected to the  *)
(* emitting task, and nothing keeps it for others: every task keeps its    *)
(* own rooms in memory, and no adapter joins those of several tasks.       *)
(***************************************************************************)
CONSTANTS
  Sockets,
  Tasks,    \* of the service; a load balancer spreads connections over them
  Users,    \* each has a room, named by role and id
  Orders,   \* each has a room
  None

VARIABLES
  at,      \* the task each socket is connected to
  rooms    \* the rooms each socket is in

UserRoom(u) == <<"user", u>>
OrderRoom(o) == <<"order", o>>

Rooms == {UserRoom(u) : u \in Users} \cup {OrderRoom(o) : o \in Orders}

RoomsTyped ==
  /\ at \in [Sockets -> Tasks \cup {None}]
  /\ rooms \in [Sockets -> SUBSET Rooms]

Init ==
  /\ at = [k \in Sockets |-> None]
  /\ rooms = [k \in Sockets |-> {}]

Hearers(room, task) == {k \in Sockets : room \in rooms[k] /\ at[k] = task}

\* A client connects, for the first time or again, to any task.
Connect(k, task) ==
  /\ at[k] = None
  /\ at' = [at EXCEPT ![k] = task]
  /\ UNCHANGED rooms

Join(k, room) ==
  /\ at[k] # None
  /\ rooms' = [rooms EXCEPT ![k] = @ \cup {room}]
  /\ UNCHANGED at

JoinUserRoom(k, u) == Join(k, UserRoom(u))
JoinOrderRoom(k, o) == Join(k, OrderRoom(o))

Disconnect(k) ==
  /\ at[k] # None
  /\ at' = [at EXCEPT ![k] = None]
  /\ rooms' = [rooms EXCEPT ![k] = {}]

=============================================================================
