---------------------------- MODULE AccessPolicy ----------------------------
(***************************************************************************)
(* What the chain of guards promises, without the chain: who is served, who *)
(* may be turned away, and with which answer. A credential is dead once it  *)
(* has expired, and one that was signed out is dead in a header that spells *)
(* the scheme "Bearer" with one space, as the blacklist expects it.         *)
(***************************************************************************)
EXTENDS Routes

CONSTANTS Requests, Served, Statuses

VARIABLES
  revoked, \* credentials that are signed out
  expired, \* credentials past their exp
  ask,     \* what each caller asks for, and how far it has got
  sent     \* the answer that goes out in this step, if one does

vars == <<revoked, expired, ask, sent>>

Silent == [state |-> "none", route |-> None, cred |-> None,
           plain |-> FALSE, late |-> FALSE, fault |-> FALSE]

Waiting(rt, c, plain, late, fault) ==
  [state |-> "waiting", route |-> rt, cred |-> c, plain |-> plain,
   late |-> late, fault |-> fault]

Dead(c, plain) == c \in expired \/ (plain /\ c \in revoked)

\* Nobody has to show anything.
IsOpen(rt) == rt.public /\ rt.name # "refresh"

\* The right kind of credential for the route.
Fits(rt, c) ==
  IF rt.name = "refresh" THEN c \in RefreshTokens ELSE c \in AccessTokens

\* The caller's role is one the route admits.
Admitted(rt, c) == rt.public \/ RoleOf[UserOf[c]] \in rt.roles

Init ==
  /\ revoked = {}
  /\ expired = {}
  /\ ask = [r \in Requests |-> Silent]
  /\ sent = None

Ask(r, rt, c, plain) ==
  /\ ask' = [ask EXCEPT ![r] = Waiting(rt, c, plain, Dead(c, plain), FALSE)]
  /\ sent' = None
  /\ UNCHANGED <<revoked, expired>>

\* Redis or the database fails while the caller is being checked.
Break(r) ==
  /\ ask[r].state = "waiting"
  /\ ~ ask[r].route.public
  /\ ask' = [ask EXCEPT
       ![r] = Waiting(ask[r].route, ask[r].cred, ask[r].plain, ask[r].late, TRUE)]
  /\ sent' = None
  /\ UNCHANGED <<revoked, expired>>

\* The handler may run: the credential was alive when the request came in.
Serve(r) ==
  LET rt == ask[r].route  c == ask[r].cred IN
  /\ ask[r].state = "waiting"
  /\ IsOpen(rt) \/ (Fits(rt, c) /\ Admitted(rt, c) /\ ~ ask[r].late)
  /\ ask' = [ask EXCEPT ![r].state = "served"]
  /\ sent' = None
  /\ UNCHANGED <<revoked, expired>>

\* 403 is for a role the route does not admit, 401 for everything that is
\* wrong with the credential, and with a failure anything may be answered.
Refuse(r, s) ==
  LET rt == ask[r].route  c == ask[r].cred IN
  /\ ask[r].state = "waiting"
  /\ ~ IsOpen(rt)
  /\ \/ s = 401 /\ (~ Fits(rt, c) \/ Dead(c, ask[r].plain) \/ ask[r].fault)
     \/ s = 403 /\ Fits(rt, c) /\ ~ Admitted(rt, c)
     \/ s = 500 /\ ask[r].fault
  /\ ask' = [ask EXCEPT ![r] = Silent]
  /\ sent' = [to |-> r, status |-> s]
  /\ UNCHANGED <<revoked, expired>>

\* The input is refused or the handler has ended, with whatever answer.
Finish(r, s) ==
  /\ ask[r].state = "served"
  /\ ask' = [ask EXCEPT ![r] = Silent]
  /\ sent' = [to |-> r, status |-> s]
  /\ UNCHANGED <<revoked, expired>>

\* A request is lost with its connection or its server.
Lose(r) ==
  /\ ask[r] # Silent
  /\ ask' = [ask EXCEPT ![r] = Silent]
  /\ sent' = None
  /\ UNCHANGED <<revoked, expired>>

\* Only who is served by signOut ends a credential, and only his own.
SignOut(r) ==
  /\ ask[r].state = "served"
  /\ ask[r].route.name = "signOut"
  /\ revoked' = revoked \cup {ask[r].cred}
  /\ sent' = None
  /\ UNCHANGED <<expired, ask>>

Expire(c) ==
  /\ expired' = expired \cup {c}
  /\ sent' = None
  /\ UNCHANGED <<revoked, ask>>

\* Nothing the callers can tell.
Quiet ==
  /\ sent' = None
  /\ UNCHANGED <<revoked, expired, ask>>

Next ==
  \/ Quiet
  \/ \E r \in Requests :
       \/ /\ ask[r] = Silent
          /\ \E rt \in Served, c \in Credentials \cup {None}, plain \in BOOLEAN :
               Ask(r, rt, c, plain)
       \/ Break(r)
       \/ Serve(r)
       \/ \E s \in {401, 403, 500} : Refuse(r, s)
       \/ \E s \in Statuses : Finish(r, s)
       \/ Lose(r)
       \/ SignOut(r)
  \/ \E c \in Credentials : Expire(c)

Spec == Init /\ [][Next]_vars

=============================================================================
