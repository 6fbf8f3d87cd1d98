----------------------- MODULE RequestPipelineProofs -----------------------
(***************************************************************************)
(* RequestPipeline keeps its inductive invariant and implements the access *)
(* policy, for any users, tokens, routes and number of requests in flight. *)
(***************************************************************************)
EXTENDS RequestPipeline, TLAPS

\* What the decorators of a controller can make of a route.
RouteFacts(rt) ==
  /\ rt.public \in BOOLEAN
  /\ Len(rt.guards) \in 2 .. 4
  /\ rt.guards[1] = "JwtBlacklistGuard"
  /\ rt.guards[2] = "AccessTokenGuard"
  /\ rt.public => Len(rt.guards) <= 3
  /\ rt.public => (rt.name = "refresh" <=> Len(rt.guards) = 3)
  /\ rt.public /\ Len(rt.guards) = 3 => rt.guards[3] = "RefreshTokenGuard"
  /\ rt.public => rt.name # "signOut"
  /\ ~ rt.public => rt.name # "refresh"
  /\ ~ rt.public /\ Len(rt.guards) >= 3 => rt.guards[3] = "AccessTokenGuard"
  /\ Len(rt.guards) = 4 => rt.guards[4] = "RolesGuard"
  /\ ~ rt.public /\ Len(rt.guards) < 4 => rt.roles = Role

LEMMA OpenFacts ==
  ASSUME NEW name, name \notin {"refresh", "signOut"}
  PROVE  RouteFacts(Open(name))
BY DEF RouteFacts, Open, GlobalGuards

LEMMA RefreshFacts == RouteFacts(Refreshing("refresh"))
BY DEF RouteFacts, Refreshing, GlobalGuards

LEMMA ClosedFacts ==
  ASSUME NEW name, name # "refresh"
  PROVE  RouteFacts(Closed(name))
BY DEF RouteFacts, Closed, GlobalGuards

LEMMA SignedInFacts ==
  ASSUME NEW name, name # "refresh"
  PROVE  RouteFacts(SignedIn(name))
BY DEF RouteFacts, SignedIn, GlobalGuards

LEMMA OnlyFacts ==
  ASSUME NEW role, NEW name, name # "refresh"
  PROVE  RouteFacts(Only(role, name))
BY DEF RouteFacts, Only, GlobalGuards

LEMMA RoutesDecorated ==
  ASSUME NEW rt \in Served
  PROVE  RouteFacts(rt)
<1>1. rt \in AllRoutes
  BY Parameters
<1>2. CASE rt \in AppRoutes
  BY <1>2, OpenFacts DEF AppRoutes
<1>3. CASE rt \in AuthRoutes
  BY <1>3, OpenFacts, RefreshFacts, ClosedFacts DEF AuthRoutes
<1>4. CASE rt \in UserRoutes \cup CategoryRoutes
  BY <1>4, OpenFacts, SignedInFacts DEF UserRoutes, CategoryRoutes
<1>5. CASE rt \in RestaurantRoutes
  BY <1>5, OpenFacts, OnlyFacts DEF RestaurantRoutes
<1>6. CASE rt \in DishRoutes \cup PaymentRoutes \cup ReviewRoutes
  BY <1>6, OnlyFacts DEF DishRoutes, PaymentRoutes, ReviewRoutes
<1>7. CASE rt \in OrderRoutes \cup UploadRoutes
  BY <1>7, OnlyFacts, SignedInFacts, ClosedFacts DEF OrderRoutes, UploadRoutes
<1>. QED
  BY <1>1, <1>2, <1>3, <1>4, <1>5, <1>6, <1>7 DEF AllRoutes

-----------------------------------------------------------------------------
\* Requests

Request ==
  [pc : PCs, route : Served \cup {None}, cred : Credentials \cup {None},
   user : Users \cup {None}, at : 0 .. 5, plain : BOOLEAN, late : BOOLEAN,
   fault : BOOLEAN]

LEMMA CatchStatus ==
  ASSUME NEW e \in Exceptions
  PROVE  Catch(e) \in Statuses
BY DEF Catch, Exceptions, HttpStatus, Statuses

LEMMA ThrownExceptions == Thrown \subseteq Exceptions
BY Parameters

LEMMA IdleInv == Idle \in Request /\ RequestInv(Idle)
BY DEF Idle, Request, RequestInv, PCs

\* Tokens only die: what is known of a request stays true while it waits.
LEMMA RequestInvKept ==
  ASSUME NEW q, RequestInv(q), revoked \subseteq revoked', expired \subseteq expired'
  PROVE  RequestInv(q)'
BY DEF RequestInv, Established, Dead

\* One request moves to q, the others stay as they are.
LEMMA OneMoves ==
  ASSUME IInv, NEW r \in Requests, NEW q \in Request,
         req' = [req EXCEPT ![r] = q], RequestInv(q)',
         revoked \subseteq revoked', expired \subseteq expired',
         revoked' \subseteq AccessTokens, expired' \subseteq Credentials,
         sent' \in [to : Requests, status : Statuses] \cup {None}
  PROVE  IInv'
<1>1. req \in [Requests -> Request]
  BY DEF IInv, TypeOK, Request
<1>2. req' \in [Requests -> Request]
  BY <1>1
<1>3. TypeOK'
  BY <1>2 DEF TypeOK, Request
<1>4. ASSUME NEW p \in Requests
      PROVE  RequestInv(req[p])'
  <2>1. CASE p = r
    <3>1. req'[p] = q
      BY <1>1, <2>1
    <3>. QED
      BY <3>1
  <2>2. CASE p # r
    <3>1. req'[p] = req[p]
      BY <1>1, <2>2
    <3>2. RequestInv(req[p])
      BY DEF IInv
    <3>. QED
      BY <3>1, <3>2, RequestInvKept
  <2>. QED
    BY <2>1, <2>2
<1>. QED
  BY <1>3, <1>4 DEF IInv

\* An answer ends its request.
LEMMA RespondInv ==
  ASSUME IInv, NEW r \in Requests, NEW status \in Statuses, Respond(r, status),
         UNCHANGED <<revoked, expired>>
  PROVE  IInv'
<1>1. sent' \in [to : Requests, status : Statuses]
  BY DEF Respond
<1>2. req' = [req EXCEPT ![r] = Idle]
  BY DEF Respond
<1>3. RequestInv(Idle)'
  BY IdleInv, RequestInvKept
<1>. QED
  BY <1>1, <1>2, <1>3, IdleInv, OneMoves DEF IInv, TypeOK

LEMMA RejectInv ==
  ASSUME IInv, NEW r \in Requests, NEW e \in Exceptions, Reject(r, e)
  PROVE  IInv'
BY CatchStatus, RespondInv DEF Reject

-----------------------------------------------------------------------------
\* Guards

\* A request behind the guard that it has passed.
Passed(q, user) ==
  [q EXCEPT !.at = @ + 1, !.user = user,
            !.pc = IF q.at = Len(q.route.guards) THEN "pipes" ELSE "guards"]

\* What is known of a request in front of a guard.
LEMMA AtGuard ==
  ASSUME IInv, NEW r \in Requests, req[r].pc = "guards"
  PROVE  /\ req[r] \in Request
         /\ req[r].route \in Served
         /\ RouteFacts(req[r].route)
         /\ req[r].at \in 1 .. Len(req[r].route.guards)
         /\ RequestInv(req[r])
         /\ Established(req[r])
<1>1. req[r] \in Request /\ RequestInv(req[r])
  BY DEF IInv, TypeOK, Request
<1>. QED
  BY <1>1, RoutesDecorated DEF RequestInv

LEMMA Places ==
  ASSUME NEW n \in 2 .. 4, NEW at \in 1 .. n
  PROVE  at \in {1, 2, 3, 4} /\ at + 1 \in 0 .. 5
OBVIOUS

\* Which guard stands where.
LEMMA GuardPlace ==
  ASSUME NEW rt, RouteFacts(rt), NEW at \in 1 .. Len(rt.guards)
  PROVE  /\ rt.guards[at] = "JwtBlacklistGuard" => at = 1
         /\ rt.guards[at] = "AccessTokenGuard" =>
              at \in {2, 3} /\ (rt.public => at = 2)
         /\ rt.guards[at] = "RefreshTokenGuard" => at = 3 /\ rt.public
         /\ rt.guards[at] = "RolesGuard" => at = 4 /\ ~ rt.public
<1>1. Len(rt.guards) \in 2 .. 4 /\ at \in {1, 2, 3, 4}
  <2>1. PICK n : n = Len(rt.guards)
    OBVIOUS
  <2>2. n \in 2 .. 4 /\ at \in 1 .. n
    BY <2>1 DEF RouteFacts
  <2>. QED
    BY <2>1, <2>2, Places
<1>2. CASE at = 1
  BY <1>2 DEF RouteFacts
<1>3. CASE at = 2
  BY <1>3 DEF RouteFacts
<1>4. CASE at = 3
  BY <1>1, <1>4 DEF RouteFacts
<1>5. CASE at = 4
  BY <1>1, <1>5 DEF RouteFacts
<1>. QED
  BY <1>1, <1>2, <1>3, <1>4, <1>5

LEMMA PassedType ==
  ASSUME NEW q \in Request, NEW user \in Users \cup {None},
         Len(q.route.guards) \in 2 .. 4, q.at \in 1 .. Len(q.route.guards)
  PROVE  Passed(q, user) \in Request
<1>1. q.at + 1 \in 0 .. 5
  <2>1. PICK n : n = Len(q.route.guards)
    OBVIOUS
  <2>2. n \in 2 .. 4 /\ q.at \in 1 .. n
    BY <2>1
  <2>. QED
    BY <2>2, Places
<1>2. (IF q.at = Len(q.route.guards) THEN "pipes" ELSE "guards") \in PCs
  BY DEF PCs
<1>. QED
  BY <1>1, <1>2 DEF Passed, Request

LEMMA PassInv ==
  ASSUME IInv, NEW r \in Requests, NEW user \in Users \cup {None},
         req[r].pc = "guards", ~ req[r].fault, Pass(r, user),
         Established(Passed(req[r], user))
  PROVE  IInv'
<1>1. /\ req[r] \in Request /\ req[r].route \in Served
      /\ RouteFacts(req[r].route)
      /\ req[r].at \in 1 .. Len(req[r].route.guards)
      /\ RequestInv(req[r])
  BY AtGuard
<1>2. Len(req[r].route.guards) \in 2 .. 4
  BY <1>1 DEF RouteFacts
<1>3. PICK q : q = Passed(req[r], user)
  OBVIOUS
<1>4. q \in Request
  BY <1>1, <1>2, <1>3, PassedType
<1>5. RequestInv(q)
  BY <1>1, <1>2, <1>3 DEF RequestInv, Passed, Request
<1>6. req' = [req EXCEPT ![r] = q]
  BY <1>3 DEF Pass, Passed, IInv, TypeOK
<1>7. RequestInv(q)'
  BY <1>5, RequestInvKept DEF Pass
<1>. QED
  BY <1>4, <1>6, <1>7, OneMoves DEF Pass, IInv, TypeOK

LEMMA BlacklistGuardInv ==
  ASSUME IInv, NEW r \in Requests, JwtBlacklistGuard(r)
  PROVE  IInv'
<1>1. CASE Reject(r, "Unauthorized")
  BY <1>1, RejectInv DEF Exceptions, HttpStatus
<1>2. CASE /\ req[r].route.public \/ (req[r].cred # None /\ ~ Listed(r))
           /\ Pass(r, req[r].user)
  <2>1. /\ req[r].pc = "guards" /\ ~ req[r].fault
        /\ req[r].route.guards[req[r].at] = "JwtBlacklistGuard"
    BY DEF JwtBlacklistGuard, At
  <2>2. /\ req[r] \in Request /\ RouteFacts(req[r].route)
        /\ req[r].at \in 1 .. Len(req[r].route.guards)
        /\ RequestInv(req[r])
    BY <2>1, AtGuard
  <2>3. req[r].at = 1
    BY <2>1, <2>2, GuardPlace
  <2>4. Established(Passed(req[r], req[r].user))
    BY <1>2, <2>2, <2>3 DEF Established, Passed, Request, RequestInv, Listed, Dead
  <2>. QED
    BY <1>2, <2>1, <2>2, <2>4, PassInv DEF Request
<1>. QED
  BY <1>1, <1>2 DEF JwtBlacklistGuard

LEMMA AccessGuardInv ==
  ASSUME IInv, NEW r \in Requests, AccessTokenGuard(r)
  PROVE  IInv'
<1>1. /\ req[r].pc = "guards" /\ ~ req[r].fault
      /\ req[r].route.guards[req[r].at] = "AccessTokenGuard"
  BY DEF AccessTokenGuard, At
<1>2. /\ req[r] \in Request /\ RouteFacts(req[r].route)
      /\ req[r].at \in 1 .. Len(req[r].route.guards)
      /\ RequestInv(req[r]) /\ Established(req[r])
  BY <1>1, AtGuard
<1>3. req[r].at \in {2, 3} /\ (req[r].route.public => req[r].at = 2)
  BY <1>1, <1>2, GuardPlace
<1>4. CASE Reject(r, "Unauthorized")
  BY <1>4, RejectInv DEF Exceptions, HttpStatus
<1>5. CASE req[r].route.public /\ Pass(r, req[r].user)
  <2>1. Established(Passed(req[r], req[r].user))
    BY <1>2, <1>3, <1>5 DEF Established, Passed, Request
  <2>. QED
    BY <1>1, <1>2, <1>5, <2>1, PassInv DEF Request
<1>6. CASE /\ ~ req[r].route.public /\ Verified(req[r].cred)
           /\ Pass(r, UserOf[req[r].cred])
  <2>1. req[r].cred \in AccessTokens /\ req[r].cred \notin expired
    BY <1>6 DEF Verified
  <2>2. UserOf[req[r].cred] \in Users \cup {None}
    BY <2>1, TokensHaveUsers
  <2>3. ~ req[r].late
    BY <1>2, <1>3, <1>6, <2>1 DEF Established
  <2>4. Established(Passed(req[r], UserOf[req[r].cred]))
    BY <1>2, <1>3, <1>6, <2>1, <2>3 DEF Established, Passed, Request
  <2>. QED
    BY <1>1, <1>6, <2>2, <2>4, PassInv
<1>. QED
  BY <1>4, <1>5, <1>6 DEF AccessTokenGuard

LEMMA RolesGuardInv ==
  ASSUME IInv, NEW r \in Requests, RolesGuard(r)
  PROVE  IInv'
<1>1. /\ req[r].pc = "guards" /\ ~ req[r].fault
      /\ req[r].route.guards[req[r].at] = "RolesGuard"
  BY DEF RolesGuard, At
<1>2. /\ req[r] \in Request /\ RouteFacts(req[r].route)
      /\ req[r].at \in 1 .. Len(req[r].route.guards)
      /\ Established(req[r])
  BY <1>1, AtGuard
<1>3. req[r].at = 4 /\ ~ req[r].route.public
  BY <1>1, <1>2, GuardPlace
<1>4. CASE Reject(r, "Forbidden")
  BY <1>4, RejectInv DEF Exceptions, HttpStatus
<1>5. CASE /\ RoleOf[req[r].user] \in req[r].route.roles
           /\ Pass(r, req[r].user)
  <2>1. Established(Passed(req[r], req[r].user))
    BY <1>2, <1>3, <1>5 DEF Established, Passed, Request
  <2>. QED
    BY <1>1, <1>2, <1>5, <2>1, PassInv DEF Request
<1>. QED
  BY <1>4, <1>5 DEF RolesGuard

LEMMA RefreshGuardInv ==
  ASSUME IInv, NEW r \in Requests, RefreshTokenGuard(r)
  PROVE  IInv'
<1>1. /\ req[r].pc = "guards" /\ ~ req[r].fault
      /\ req[r].route.guards[req[r].at] = "RefreshTokenGuard"
  BY DEF RefreshTokenGuard, At
<1>2. /\ req[r] \in Request /\ RouteFacts(req[r].route)
      /\ req[r].at \in 1 .. Len(req[r].route.guards)
      /\ RequestInv(req[r])
  BY <1>1, AtGuard
<1>3. req[r].at = 3 /\ req[r].route.public
  BY <1>1, <1>2, GuardPlace
<1>4. CASE Reject(r, "Unauthorized")
  BY <1>4, RejectInv DEF Exceptions, HttpStatus
<1>5. CASE req[r].cred \in RefreshTokens \ expired /\ Pass(r, req[r].user)
  <2>1. ~ req[r].late
    BY <1>2, <1>5, TokensHaveUsers DEF RequestInv, IInv, TypeOK, Dead
  <2>2. Established(Passed(req[r], req[r].user))
    BY <1>2, <1>3, <1>5, <2>1 DEF Established, Passed, Request
  <2>. QED
    BY <1>1, <1>2, <1>5, <2>2, PassInv DEF Request
<1>. QED
  BY <1>4, <1>5 DEF RefreshTokenGuard

LEMMA GuardFailsInv ==
  ASSUME IInv, NEW r \in Requests, GuardFails(r)
  PROVE  IInv'
<1>1. "Unauthorized" \in Exceptions /\ "Error" \in Exceptions
  BY DEF Exceptions, HttpStatus
<1>. QED
  BY <1>1, RejectInv DEF GuardFails

-----------------------------------------------------------------------------
\* The other steps

LEMMA ArriveInv ==
  ASSUME IInv, NEW r \in Requests, NEW rt \in Served,
         NEW c \in Credentials \cup {None}, NEW plain \in BOOLEAN,
         Arrive(r, rt, c, plain)
  PROVE  IInv'
<1>1. PICK q : q = [Idle EXCEPT !.pc = "guards", !.route = rt, !.cred = c,
                                !.at = 1, !.plain = plain,
                                !.late = Dead(c, plain)]
  OBVIOUS
<1>2. q = [pc |-> "guards", route |-> rt, cred |-> c, user |-> None, at |-> 1,
           plain |-> plain, late |-> Dead(c, plain), fault |-> FALSE]
  BY <1>1 DEF Idle
<1>3. q \in Request
  BY <1>2 DEF Request, PCs, Dead
<1>4. 1 \in 1 .. Len(rt.guards)
  <2>1. PICK n : n = Len(rt.guards)
    OBVIOUS
  <2>2. n \in 2 .. 4
    BY <2>1, RoutesDecorated DEF RouteFacts
  <2>3. 1 \in 1 .. n
    BY <2>2
  <2>. QED
    BY <2>1, <2>3
<1>5. RequestInv(q)
  <2>1. /\ q.pc = "guards" /\ q.route = rt /\ q.cred = c /\ q.at = 1
        /\ q.plain = plain /\ q.late = Dead(c, plain)
        /\ ~ q.fault
    BY <1>2
  <2>2. Established(q)
    BY <2>1 DEF Established
  <2>. QED
    BY <1>4, <2>1, <2>2 DEF RequestInv
<1>6. req' = [req EXCEPT ![r] = q]
  BY <1>1 DEF Arrive
<1>7. RequestInv(q)'
  BY <1>5, RequestInvKept DEF Arrive
<1>. QED
  BY <1>3, <1>6, <1>7, OneMoves DEF Arrive, IInv, TypeOK

LEMMA LoseStoreInv ==
  ASSUME IInv, NEW r \in Requests, LoseStore(r)
  PROVE  IInv'
<1>1. /\ req[r].pc = "guards" /\ ~ req[r].route.public
      /\ req' = [req EXCEPT ![r].fault = TRUE]
      /\ sent' = None /\ UNCHANGED <<revoked, expired>>
  BY DEF LoseStore, At
<1>2. req[r] \in Request /\ RequestInv(req[r])
  BY <1>1, AtGuard
<1>3. PICK q : q = [req[r] EXCEPT !.fault = TRUE]
  OBVIOUS
<1>4. q \in Request
  BY <1>2, <1>3 DEF Request
<1>5. RequestInv(q)
  BY <1>1, <1>2, <1>3 DEF RequestInv, Established, Request
<1>6. req' = [req EXCEPT ![r] = q]
  BY <1>1, <1>3
<1>7. RequestInv(q)'
  BY <1>1, <1>5, RequestInvKept
<1>. QED
  BY <1>1, <1>4, <1>6, <1>7, OneMoves DEF IInv, TypeOK

LEMMA AcceptInputInv ==
  ASSUME IInv, NEW r \in Requests, AcceptInput(r)
  PROVE  IInv'
<1>1. /\ req[r].pc = "pipes"
      /\ req' = [req EXCEPT ![r].pc = "handler"]
      /\ sent' = None /\ UNCHANGED <<revoked, expired>>
  BY DEF AcceptInput
<1>2. req[r] \in Request /\ RequestInv(req[r])
  BY DEF IInv, TypeOK, Request
<1>3. PICK q : q = [req[r] EXCEPT !.pc = "handler"]
  OBVIOUS
<1>4. q \in Request
  BY <1>2, <1>3 DEF Request, PCs
<1>5. RequestInv(q)
  BY <1>1, <1>2, <1>3 DEF RequestInv, Established, Request
<1>6. req' = [req EXCEPT ![r] = q]
  BY <1>1, <1>3
<1>7. RequestInv(q)'
  BY <1>1, <1>5, RequestInvKept
<1>. QED
  BY <1>1, <1>4, <1>6, <1>7, OneMoves DEF IInv, TypeOK

\* Sign-out is a closed route: its handler has an access token.
LEMMA SignOutClosed ==
  ASSUME IInv, NEW r \in Requests, req[r].pc \in {"handler", "leaving"},
         req[r].route.name = "signOut"
  PROVE  req[r].cred \in AccessTokens /\ ~ req[r].route.public
<1>1. /\ req[r].route \in Served
      /\ req[r].at = Len(req[r].route.guards) + 1
      /\ Established(req[r])
  BY DEF IInv, RequestInv
<1>2. RouteFacts(req[r].route)
  BY <1>1, RoutesDecorated
<1>3. ~ req[r].route.public
  BY <1>2 DEF RouteFacts
<1>4. req[r].at > 2
  <2>1. PICK n : n = Len(req[r].route.guards)
    OBVIOUS
  <2>2. n \in 2 .. 4
    BY <1>2, <2>1 DEF RouteFacts
  <2>3. req[r].at = n + 1
    BY <1>1, <2>1
  <2>. QED
    BY <2>2, <2>3
<1>. QED
  BY <1>1, <1>3, <1>4 DEF Established

LEMMA BlacklistTokenInv ==
  ASSUME IInv, NEW r \in Requests, BlacklistToken(r)
  PROVE  IInv'
<1>1. /\ req[r].pc = "handler" /\ req[r].route.name = "signOut"
      /\ revoked' = revoked \cup {req[r].cred}
      /\ req' = [req EXCEPT ![r].pc = "leaving"]
      /\ sent' = None /\ UNCHANGED expired
  BY DEF BlacklistToken
<1>2. req[r].cred \in AccessTokens
  BY <1>1, SignOutClosed
<1>3. req[r] \in Request /\ RequestInv(req[r])
  BY DEF IInv, TypeOK, Request
<1>4. PICK q : q = [req[r] EXCEPT !.pc = "leaving"]
  OBVIOUS
<1>5. q \in Request
  BY <1>3, <1>4 DEF Request, PCs
<1>6. RequestInv(q)
  BY <1>1, <1>3, <1>4 DEF RequestInv, Established, Request
<1>7. req' = [req EXCEPT ![r] = q]
  BY <1>1, <1>4
<1>8. RequestInv(q)'
  BY <1>1, <1>6, RequestInvKept
<1>. QED
  BY <1>1, <1>2, <1>5, <1>7, <1>8, OneMoves DEF IInv, TypeOK

LEMMA CrashInv ==
  ASSUME IInv, NEW r \in Requests, Crash(r)
  PROVE  IInv'
<1>1. RequestInv(Idle)'
  BY IdleInv, RequestInvKept DEF Crash
<1>. QED
  BY <1>1, IdleInv, OneMoves DEF Crash, IInv, TypeOK

LEMMA ExpireInv ==
  ASSUME IInv, NEW c \in Credentials, Expire(c)
  PROVE  IInv'
<1>1. TypeOK'
  BY DEF IInv, TypeOK, Expire
<1>2. ASSUME NEW p \in Requests
      PROVE  RequestInv(req[p])'
  BY RequestInvKept DEF IInv, Expire
<1>. QED
  BY <1>1, <1>2 DEF IInv

LEMMA HandleInv ==
  ASSUME IInv, NEW r \in Requests, Handle(r)
  PROVE  IInv'
<1>1. CASE RefuseInput(r)
  BY <1>1, RejectInv DEF RefuseInput, Exceptions, HttpStatus
<1>2. CASE AcceptInput(r)
  BY <1>2, AcceptInputInv
<1>3. CASE Return(r)
  BY <1>3, RespondInv DEF Return, Statuses
<1>4. CASE \E e \in Thrown : Throw(r, e)
  BY <1>4, RejectInv, ThrownExceptions DEF Throw
<1>5. CASE BlacklistToken(r)
  BY <1>5, BlacklistTokenInv
<1>. QED
  BY <1>1, <1>2, <1>3, <1>4, <1>5 DEF Handle

LEMMA InitInv == Init => IInv
<1>1. SUFFICES ASSUME Init PROVE IInv
  OBVIOUS
<1>2. req \in [Requests -> Request] /\ \A r \in Requests : req[r] = Idle
  BY <1>1, IdleInv DEF Init
<1>3. TypeOK
  BY <1>1, <1>2 DEF Init, TypeOK, Request
<1>4. ASSUME NEW r \in Requests
      PROVE  RequestInv(req[r])
  <2>1. req[r] = Idle
    BY <1>2
  <2>. QED
    BY <2>1, IdleInv
<1>. QED
  BY <1>3, <1>4 DEF IInv

LEMMA StepInv == IInv /\ [Next]_vars => IInv'
<1>1. SUFFICES ASSUME IInv, [Next]_vars PROVE IInv'
  OBVIOUS
<1>2. ASSUME NEW r \in Requests, Guard(r)
      PROVE  IInv'
  BY <1>1, <1>2, BlacklistGuardInv, AccessGuardInv, RolesGuardInv,
     RefreshGuardInv, GuardFailsInv DEF Guard
<1>3. ASSUME NEW r \in Requests, NEW rt \in Served,
             NEW c \in Credentials \cup {None}, NEW plain \in BOOLEAN,
             Arrive(r, rt, c, plain)
      PROVE  IInv'
  BY <1>1, <1>3, ArriveInv
<1>4. ASSUME NEW r \in Requests, LoseStore(r) \/ Handle(r) \/ Crash(r)
      PROVE  IInv'
  BY <1>1, <1>4, LoseStoreInv, HandleInv, CrashInv
<1>5. ASSUME NEW c \in Credentials, Expire(c)
      PROVE  IInv'
  BY <1>1, <1>5, ExpireInv
<1>6. CASE UNCHANGED vars
  BY <1>1, <1>6 DEF vars, IInv, TypeOK, RequestInv, Established, Dead
<1>. QED
  BY <1>1, <1>2, <1>3, <1>4, <1>5, <1>6 DEF Next

\* The inductive invariant: what the guards a request has passed say of its
\* credential and its user, for every route of the server.
THEOREM Invariant == Spec => []IInv
BY InitInv, StepInv, PTL DEF Spec

\* Every variable keeps its type, and every answer is one of the statuses that
\* the error filter and the envelope give.
THEOREM TypeCorrect == Spec => []TypeOK
<1>1. IInv => TypeOK
  BY DEF IInv
<1>. QED
  BY <1>1, Invariant, PTL

-----------------------------------------------------------------------------
\* The access policy

LEMMA SeenMoves ==
  ASSUME IInv, NEW r \in Requests, NEW q, req' = [req EXCEPT ![r] = q]
  PROVE  Asked' = [Asked EXCEPT ![r] = Seen(q)]
<1>1. req \in [Requests -> Request]
  BY DEF IInv, TypeOK, Request
<1>2. ASSUME NEW p \in Requests
      PROVE  Asked'[p] = [Asked EXCEPT ![r] = Seen(q)][p]
  <2>1. Asked'[p] = Seen(req'[p])
    BY DEF Asked, Seen
  <2>2. CASE p = r
    BY <1>1, <2>1, <2>2 DEF Asked
  <2>3. CASE p # r
    BY <1>1, <2>1, <2>3 DEF Asked
  <2>. QED
    BY <2>2, <2>3
<1>3. Asked' = [p \in Requests |-> Asked'[p]]
  BY DEF Asked
<1>. QED
  BY <1>2, <1>3 DEF Asked

\* A step of one request that its caller cannot tell.
LEMMA Unseen ==
  ASSUME IInv, NEW r \in Requests, NEW q, req' = [req EXCEPT ![r] = q],
         Seen(q) = Seen(req[r]), sent' = None,
         UNCHANGED <<revoked, expired>>
  PROVE  Policy!Next
<1>1. Asked' = Asked
  BY SeenMoves DEF Asked
<1>. QED
  BY <1>1 DEF Policy!Next, Policy!Quiet

LEMMA AskedOf ==
  ASSUME NEW r \in Requests
  PROVE  /\ Asked[r] = Seen(req[r])
         /\ Asked[r].route = req[r].route /\ Asked[r].cred = req[r].cred
         /\ Asked[r].plain = req[r].plain
         /\ Asked[r].late = req[r].late /\ Asked[r].fault = req[r].fault
         /\ req[r].pc = "guards" => Asked[r].state = "waiting"
         /\ req[r].pc \in {"pipes", "handler", "leaving"} =>
              Asked[r].state = "served"
BY DEF Asked, Seen

LEMMA IdleSilent == Seen(Idle) = Policy!Silent
BY DEF Seen, Idle, Policy!Silent

\* An answer to a request whose caller was told to wait.
LEMMA Refused ==
  ASSUME IInv, NEW r \in Requests, NEW e \in Exceptions, Reject(r, e),
         req[r].pc = "guards", Catch(e) \in {401, 403, 500},
         ~ Policy!IsOpen(req[r].route),
         \/ /\ Catch(e) = 401
            /\ \/ ~ Policy!Fits(req[r].route, req[r].cred)
               \/ Policy!Dead(req[r].cred, req[r].plain)
               \/ req[r].fault
         \/ /\ Catch(e) = 403
            /\ Policy!Fits(req[r].route, req[r].cred)
            /\ ~ Policy!Admitted(req[r].route, req[r].cred)
         \/ Catch(e) = 500 /\ req[r].fault
  PROVE  Policy!Next
<1>1. /\ req' = [req EXCEPT ![r] = Idle]
      /\ sent' = [to |-> r, status |-> Catch(e)]
      /\ UNCHANGED <<revoked, expired>>
  BY DEF Reject, Respond
<1>2. Asked' = [Asked EXCEPT ![r] = Policy!Silent]
  BY <1>1, SeenMoves, IdleSilent
<1>3. Policy!Refuse(r, Catch(e))
  BY <1>1, <1>2, AskedOf DEF Policy!Refuse
<1>. QED
  BY <1>3 DEF Policy!Next

\* An answer to a request that was served.
LEMMA Finished ==
  ASSUME IInv, NEW r \in Requests, NEW s \in Statuses, Respond(r, s),
         req[r].pc \in {"pipes", "handler", "leaving"},
         UNCHANGED <<revoked, expired>>
  PROVE  Policy!Next
<1>1. /\ req' = [req EXCEPT ![r] = Idle]
      /\ sent' = [to |-> r, status |-> s]
      /\ UNCHANGED <<revoked, expired>>
  BY DEF Respond
<1>2. Asked' = [Asked EXCEPT ![r] = Policy!Silent]
  BY <1>1, SeenMoves, IdleSilent
<1>3. Policy!Finish(r, s)
  BY <1>1, <1>2, AskedOf DEF Policy!Finish
<1>. QED
  BY <1>3 DEF Policy!Next

\* Behind the last guard of its route, whatever the route.
LEMMA BehindTheGuards ==
  ASSUME NEW q \in Request, RouteFacts(q.route), Established(q),
         q.at = Len(q.route.guards) + 1
  PROVE  \/ Policy!IsOpen(q.route)
         \/ /\ Policy!Fits(q.route, q.cred)
            /\ Policy!Admitted(q.route, q.cred)
            /\ ~ q.late
<1>1. PICK n : n = Len(q.route.guards)
  OBVIOUS
<1>2. n \in 2 .. 4 /\ q.at = n + 1 /\ (q.route.public => n <= 3)
  BY <1>1 DEF RouteFacts
<1>3. CASE q.route.public
  <2>1. CASE q.route.name = "refresh"
    <3>1. n = 3
      BY <1>1, <1>3, <2>1 DEF RouteFacts
    <3>2. q.cred \in RefreshTokens /\ ~ q.late
      BY <1>2, <1>3, <3>1 DEF Established
    <3>. QED
      BY <1>3, <2>1, <3>2 DEF Policy!Fits, Policy!Admitted
  <2>2. CASE q.route.name # "refresh"
    BY <1>3, <2>2 DEF Policy!IsOpen
  <2>. QED
    BY <2>1, <2>2
<1>4. CASE ~ q.route.public
  <2>1. q.at > 2
    BY <1>2
  <2>2. q.cred \in AccessTokens /\ ~ q.late /\ q.user = UserOf[q.cred]
    BY <1>4, <2>1 DEF Established
  <2>3. Policy!Fits(q.route, q.cred)
    BY <1>4, <2>2 DEF Policy!Fits, RouteFacts
  <2>4. RoleOf[UserOf[q.cred]] \in q.route.roles
    <3>1. CASE n < 4
      <4>1. q.route.roles = Role
        BY <1>1, <1>4, <3>1 DEF RouteFacts
      <4>. QED
        BY <2>2, <4>1, TokensHaveUsers
    <3>2. CASE n = 4
      BY <1>2, <1>4, <2>2, <3>2 DEF Established
    <3>. QED
      BY <1>2, <3>1, <3>2
  <2>. QED
    BY <2>2, <2>3, <2>4 DEF Policy!Admitted
<1>. QED
  BY <1>3, <1>4

LEMMA PassImplements ==
  ASSUME IInv, IInv', NEW r \in Requests, NEW user \in Users \cup {None},
         req[r].pc = "guards", Pass(r, user)
  PROVE  Policy!Next
<1>1. /\ req[r] \in Request /\ RouteFacts(req[r].route)
      /\ req[r].at \in 1 .. Len(req[r].route.guards)
  BY AtGuard
<1>2. PICK q : q = Passed(req[r], user)
  OBVIOUS
<1>3. /\ q.route = req[r].route /\ q.cred = req[r].cred
      /\ q.plain = req[r].plain
      /\ q.late = req[r].late /\ q.fault = req[r].fault
      /\ q.at = req[r].at + 1
      /\ q.pc = IF req[r].at = Len(req[r].route.guards)
                  THEN "pipes" ELSE "guards"
  BY <1>1, <1>2 DEF Passed, Request
<1>4. req' = [req EXCEPT ![r] = q]
  BY <1>2 DEF Pass, Passed, IInv, TypeOK
<1>5. sent' = None /\ UNCHANGED <<revoked, expired>>
  BY DEF Pass
<1>6. CASE req[r].at # Len(req[r].route.guards)
  <2>1. Seen(q) = Seen(req[r])
    BY <1>3, <1>6 DEF Seen
  <2>. QED
    BY <1>4, <1>5, <2>1, Unseen
<1>7. CASE req[r].at = Len(req[r].route.guards)
  <2>1. req'[r] = q
    BY <1>4 DEF IInv, TypeOK
  <2>2. q \in Request
    BY <2>1 DEF IInv, TypeOK, Request
  <2>3. Established(q)
    <3>1. RequestInv(req[r])'
      BY DEF IInv
    <3>2. q.pc = "pipes"
      BY <1>3, <1>7
    <3>. QED
      BY <1>5, <2>1, <3>1, <3>2 DEF RequestInv, Established
  <2>4. \/ Policy!IsOpen(q.route)
        \/ /\ Policy!Fits(q.route, q.cred)
           /\ Policy!Admitted(q.route, q.cred)
           /\ ~ q.late
    BY <1>1, <1>3, <1>7, <2>2, <2>3, BehindTheGuards
  <2>5. Asked' = [Asked EXCEPT ![r] = Seen(q)]
    BY <1>4, SeenMoves
  <2>6. Seen(q) = [Asked[r] EXCEPT !.state = "served"]
    BY <1>3, <1>7 DEF Asked, Seen
  <2>7. Asked' = [Asked EXCEPT ![r].state = "served"]
    BY <2>5, <2>6 DEF Asked
  <2>8. Policy!Serve(r)
    BY <1>3, <1>5, <2>4, <2>7, AskedOf DEF Policy!Serve
  <2>. QED
    BY <2>8 DEF Policy!Next
<1>. QED
  BY <1>6, <1>7

LEMMA GuardImplements ==
  ASSUME IInv, IInv', NEW r \in Requests, Guard(r)
  PROVE  Policy!Next
<1>1. req[r].pc = "guards"
  BY DEF Guard, JwtBlacklistGuard, AccessTokenGuard, RolesGuard,
         RefreshTokenGuard, GuardFails, At
<1>2. /\ req[r] \in Request /\ RouteFacts(req[r].route)
      /\ req[r].at \in 1 .. Len(req[r].route.guards)
      /\ RequestInv(req[r]) /\ Established(req[r])
  BY <1>1, AtGuard
<1>3. /\ Catch("Unauthorized") = 401 /\ Catch("Forbidden") = 403
      /\ Catch("Error") = 500
      /\ "Unauthorized" \in Exceptions /\ "Forbidden" \in Exceptions
      /\ "Error" \in Exceptions
  BY DEF Catch, HttpStatus, Exceptions
<1>4. ASSUME NEW user \in Users \cup {None}, Pass(r, user)
      PROVE  Policy!Next
  BY <1>1, <1>4, PassImplements
<1>5. req[r].user \in Users \cup {None}
  BY <1>2 DEF Request
<1>6. CASE JwtBlacklistGuard(r)
  <2>1. CASE /\ ~ req[r].route.public
             /\ req[r].cred = None \/ Listed(r)
             /\ Reject(r, "Unauthorized")
    <3>1. ~ Policy!IsOpen(req[r].route)
      BY <2>1 DEF Policy!IsOpen
    <3>2. \/ ~ Policy!Fits(req[r].route, req[r].cred)
          \/ Policy!Dead(req[r].cred, req[r].plain)
      BY <2>1, TokensHaveUsers DEF Policy!Fits, Policy!Dead, Listed, Credentials
    <3>. QED
      BY <1>1, <1>3, <2>1, <3>1, <3>2, Refused
  <2>. QED
    BY <1>4, <1>5, <1>6, <2>1 DEF JwtBlacklistGuard
<1>7. CASE AccessTokenGuard(r)
  <2>1. CASE /\ ~ req[r].route.public /\ ~ Verified(req[r].cred)
             /\ Reject(r, "Unauthorized")
    <3>1. ~ Policy!IsOpen(req[r].route)
      BY <2>1 DEF Policy!IsOpen
    <3>2. \/ ~ Policy!Fits(req[r].route, req[r].cred)
          \/ Policy!Dead(req[r].cred, req[r].plain)
      BY <1>2, <2>1 DEF Policy!Fits, Policy!Dead, Verified, RouteFacts
    <3>. QED
      BY <1>1, <1>3, <2>1, <3>1, <3>2, Refused
  <2>2. CASE ~ req[r].route.public /\ Verified(req[r].cred)
               /\ Pass(r, UserOf[req[r].cred])
    <3>1. UserOf[req[r].cred] \in Users \cup {None}
      BY <2>2, TokensHaveUsers DEF Verified
    <3>. QED
      BY <1>4, <2>2, <3>1
  <2>. QED
    BY <1>4, <1>5, <1>7, <2>1, <2>2 DEF AccessTokenGuard
<1>8. CASE RolesGuard(r)
  <2>1. CASE /\ req[r].user = None \/ RoleOf[req[r].user] \notin req[r].route.roles
             /\ Reject(r, "Forbidden")
    <3>1. req[r].at = 4 /\ ~ req[r].route.public
      BY <1>2, <1>8, GuardPlace DEF RolesGuard, At
    <3>2. req[r].cred \in AccessTokens /\ req[r].user = UserOf[req[r].cred]
      BY <1>2, <3>1 DEF Established
    <3>3. req[r].user # None
      BY <3>2, TokensHaveUsers
    <3>4. ~ Policy!IsOpen(req[r].route)
      BY <3>1 DEF Policy!IsOpen
    <3>5. Policy!Fits(req[r].route, req[r].cred)
      BY <1>2, <3>1, <3>2 DEF Policy!Fits, RouteFacts
    <3>6. ~ Policy!Admitted(req[r].route, req[r].cred)
      BY <2>1, <3>1, <3>2, <3>3 DEF Policy!Admitted
    <3>. QED
      BY <1>1, <1>3, <2>1, <3>4, <3>5, <3>6, Refused
  <2>. QED
    BY <1>4, <1>5, <1>8, <2>1 DEF RolesGuard
<1>9. CASE RefreshTokenGuard(r)
  <2>1. CASE /\ req[r].cred \notin RefreshTokens \ expired
             /\ Reject(r, "Unauthorized")
    <3>1. req[r].at = 3 /\ req[r].route.public
      BY <1>2, <1>9, GuardPlace DEF RefreshTokenGuard, At
    <3>2. req[r].route.name = "refresh"
      <4>1. PICK n : n = Len(req[r].route.guards)
        OBVIOUS
      <4>2. n \in 2 .. 4 /\ n <= 3 /\ 3 \in 1 .. n
        BY <1>2, <3>1, <4>1 DEF RouteFacts
      <4>3. n = 3
        BY <4>2
      <4>. QED
        BY <1>2, <3>1, <4>1, <4>3 DEF RouteFacts
    <3>3. ~ Policy!IsOpen(req[r].route)
      BY <3>2 DEF Policy!IsOpen
    <3>4. \/ ~ Policy!Fits(req[r].route, req[r].cred)
          \/ Policy!Dead(req[r].cred, req[r].plain)
      BY <2>1, <3>2 DEF Policy!Fits, Policy!Dead
    <3>. QED
      BY <1>1, <1>3, <2>1, <3>3, <3>4, Refused
  <2>. QED
    BY <1>4, <1>5, <1>9, <2>1 DEF RefreshTokenGuard
<1>10. CASE GuardFails(r)
  <2>1. ~ Policy!IsOpen(req[r].route) /\ req[r].fault
    BY <1>2, <1>10 DEF GuardFails, RequestInv, Policy!IsOpen
  <2>2. CASE Reject(r, "Unauthorized")
    BY <1>1, <1>3, <2>1, <2>2, Refused
  <2>3. CASE Reject(r, "Error")
    BY <1>1, <1>3, <2>1, <2>3, Refused
  <2>. QED
    BY <1>10, <2>2, <2>3 DEF GuardFails
<1>. QED
  BY <1>6, <1>7, <1>8, <1>9, <1>10 DEF Guard

LEMMA ArriveImplements ==
  ASSUME IInv, NEW r \in Requests, NEW rt \in Served,
         NEW c \in Credentials \cup {None}, NEW plain \in BOOLEAN,
         Arrive(r, rt, c, plain)
  PROVE  Policy!Next
<1>1. PICK q : q = [Idle EXCEPT !.pc = "guards", !.route = rt, !.cred = c,
                                !.at = 1, !.plain = plain,
                                !.late = Dead(c, plain)]
  OBVIOUS
<1>2. req' = [req EXCEPT ![r] = q] /\ sent' = None /\ UNCHANGED <<revoked, expired>>
  BY <1>1 DEF Arrive
<1>3. Seen(q) = [state |-> "waiting", route |-> rt, cred |-> c, plain |-> plain,
                 late |-> Policy!Dead(c, plain), fault |-> FALSE]
  BY <1>1 DEF Seen, Idle, Dead, Policy!Dead
<1>4. Policy!Ask(r, rt, c, plain)
  BY <1>2, <1>3, SeenMoves DEF Policy!Ask, Policy!Waiting
<1>5. Asked[r] = Policy!Silent
  <2>1. req[r] = Idle
    BY DEF Arrive, IInv, RequestInv
  <2>. QED
    BY <2>1, AskedOf, IdleSilent
<1>. QED
  BY <1>4, <1>5 DEF Policy!Next, Policy!Credentials, Credentials

LEMMA HandleImplements ==
  ASSUME IInv, NEW r \in Requests, Handle(r)
  PROVE  Policy!Next
<1>1. CASE RefuseInput(r)
  <2>1. Respond(r, 400) /\ UNCHANGED <<revoked, expired>>
    BY <1>1 DEF RefuseInput, Reject, Catch, HttpStatus
  <2>. QED
    BY <1>1, <2>1, Finished DEF RefuseInput, Statuses
<1>2. CASE AcceptInput(r)
  <2>1. PICK q : q = [req[r] EXCEPT !.pc = "handler"]
    OBVIOUS
  <2>2. req[r] \in Request
    BY DEF IInv, TypeOK, Request
  <2>3. req' = [req EXCEPT ![r] = q]
    BY <1>2, <2>1 DEF AcceptInput
  <2>4. Seen(q) = Seen(req[r])
    BY <1>2, <2>1, <2>2 DEF Seen, AcceptInput, Request
  <2>. QED
    BY <1>2, <2>3, <2>4, Unseen DEF AcceptInput
<1>3. CASE Return(r)
  BY <1>3, Finished DEF Return, Statuses
<1>4. ASSUME NEW e \in Thrown, Throw(r, e)
      PROVE  Policy!Next
  BY <1>4, Finished, CatchStatus, ThrownExceptions DEF Throw, Reject
<1>5. CASE BlacklistToken(r)
  <2>1. PICK q : q = [req[r] EXCEPT !.pc = "leaving"]
    OBVIOUS
  <2>2. req[r] \in Request
    BY DEF IInv, TypeOK, Request
  <2>3. req' = [req EXCEPT ![r] = q]
    BY <1>5, <2>1 DEF BlacklistToken
  <2>4. Seen(q) = Seen(req[r])
    BY <1>5, <2>1, <2>2 DEF Seen, BlacklistToken, Request
  <2>5. Asked' = Asked
    BY <2>3, <2>4, SeenMoves DEF Asked
  <2>6. /\ revoked' = revoked \cup {req[r].cred}
        /\ sent' = None /\ UNCHANGED expired
    BY <1>5 DEF BlacklistToken
  <2>7. Policy!SignOut(r)
    BY <1>5, <2>5, <2>6, AskedOf DEF Policy!SignOut, BlacklistToken
  <2>. QED
    BY <2>7 DEF Policy!Next
<1>. QED
  BY <1>1, <1>2, <1>3, <1>4, <1>5 DEF Handle

LEMMA LoseStoreImplements ==
  ASSUME IInv, NEW r \in Requests, LoseStore(r)
  PROVE  Policy!Next
<1>1. /\ req[r].pc = "guards" /\ ~ req[r].route.public
      /\ req' = [req EXCEPT ![r].fault = TRUE]
      /\ sent' = None /\ UNCHANGED <<revoked, expired>>
  BY DEF LoseStore, At
<1>2. PICK q : q = [req[r] EXCEPT !.fault = TRUE]
  OBVIOUS
<1>3. req[r] \in Request
  BY DEF IInv, TypeOK, Request
<1>4. req' = [req EXCEPT ![r] = q]
  BY <1>1, <1>2
<1>5. Seen(q) = Policy!Waiting(Asked[r].route, Asked[r].cred,
                                Asked[r].plain, Asked[r].late, TRUE)
  <2>1. /\ q.pc = req[r].pc /\ q.route = req[r].route /\ q.cred = req[r].cred
        /\ q.plain = req[r].plain /\ q.late = req[r].late /\ q.fault = TRUE
    BY <1>2, <1>3 DEF Request
  <2>. QED
    BY <1>1, <2>1, AskedOf DEF Seen, Policy!Waiting
<1>6. Asked' = [Asked EXCEPT ![r] = Seen(q)]
  BY <1>4, SeenMoves
<1>7. Policy!Break(r)
  BY <1>1, <1>5, <1>6, AskedOf DEF Policy!Break
<1>. QED
  BY <1>7 DEF Policy!Next

LEMMA CrashImplements ==
  ASSUME IInv, NEW r \in Requests, Crash(r)
  PROVE  Policy!Next
<1>1. Asked' = [Asked EXCEPT ![r] = Policy!Silent]
  BY SeenMoves, IdleSilent DEF Crash
<1>2. Asked[r] # Policy!Silent
  BY DEF Asked, Seen, Crash, Policy!Silent
<1>3. Policy!Lose(r)
  BY <1>1, <1>2 DEF Policy!Lose, Crash
<1>. QED
  BY <1>3 DEF Policy!Next

LEMMA ExpireImplements ==
  ASSUME IInv, NEW c \in Credentials, Expire(c)
  PROVE  Policy!Next
<1>1. Policy!Expire(c)
  BY DEF Expire, Policy!Expire, Asked
<1>. QED
  BY <1>1 DEF Policy!Next, Policy!Credentials, Credentials

\* The chain of guards implements the access policy: who is served had, when
\* the request came in, a live credential of the right kind and an admitted
\* role, and a refusal says what was wrong, for every route of the server.
THEOREM PolicyImplemented == Spec => ImplementsAccessPolicy
<1>1. Init => Policy!Init
  BY IdleSilent DEF Init, Policy!Init, Asked
<1>2. ASSUME IInv, IInv', [Next]_vars
      PROVE  [Policy!Next]_(Policy!vars)
  <2>1. ASSUME NEW r \in Requests, Guard(r)
        PROVE  Policy!Next
    BY <1>2, <2>1, GuardImplements
  <2>2. ASSUME NEW r \in Requests, NEW rt \in Served,
               NEW c \in Credentials \cup {None}, NEW plain \in BOOLEAN,
               Arrive(r, rt, c, plain)
        PROVE  Policy!Next
    BY <1>2, <2>2, ArriveImplements
  <2>3. ASSUME NEW r \in Requests, LoseStore(r) \/ Handle(r) \/ Crash(r)
        PROVE  Policy!Next
    BY <1>2, <2>3, LoseStoreImplements, HandleImplements, CrashImplements
  <2>4. ASSUME NEW c \in Credentials, Expire(c)
        PROVE  Policy!Next
    BY <1>2, <2>4, ExpireImplements
  <2>5. CASE UNCHANGED vars
    BY <2>5 DEF vars, Policy!vars, Asked
  <2>. QED
    BY <1>2, <2>1, <2>2, <2>3, <2>4, <2>5 DEF Next
<1>. QED
  BY <1>1, <1>2, Invariant, PTL
  DEF Spec, ImplementsAccessPolicy, Policy!Spec

=============================================================================
