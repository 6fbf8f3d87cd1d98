-------------------------- MODULE RequestPipeline --------------------------
(***************************************************************************)
(* The way of a request through the server: middleware, the two global     *)
(* guards, the guards of the route, interceptors and pipes, the handler,   *)
(* and the response interceptor or the error filter. A call to Redis or to *)
(* the database is a step, so that other requests and the expiry of tokens *)
(* come in between. Of the handlers only sign-out is here in detail, which *)
(* the guards of later requests depend on; the others just end.            *)
(***************************************************************************)
EXTENDS Routes

CONSTANTS
  Requests,   \* slots of the server for requests in flight
  Served,     \* the routes that are called
  Thrown      \* the exceptions their handlers throw

\* 200 stands for 201 too, which the routes that create something answer.
Statuses == {200, 400, 401, 403, 404, 409, 500}

\* The exceptions of Nest carry their status; ErrorFilter answers every
\* other one (a failed query, a broken connection) with 500.
HttpStatus == [BadRequest |-> 400, Unauthorized |-> 401, Forbidden |-> 403,
               NotFound |-> 404, Conflict |-> 409, Internal |-> 500]
Exceptions == DOMAIN HttpStatus \cup {"Error"}

Catch(e) == IF e \in DOMAIN HttpStatus THEN HttpStatus[e] ELSE 500

ASSUME Parameters == Served \subseteq AllRoutes /\ Thrown \subseteq Exceptions

VARIABLES
  revoked,   \* blacklisted access tokens, in Redis
  expired,   \* tokens past their exp
  req,       \* the requests in flight
  sent       \* the answer that goes out in this step, if one does

vars == <<revoked, expired, req, sent>>

PCs == {"idle", "guards", "pipes", "handler", "leaving"}

Idle == [pc |-> "idle", route |-> None, cred |-> None, user |-> None, at |-> 0,
         plain |-> FALSE, late |-> FALSE, fault |-> FALSE]

Init ==
  /\ revoked = {}
  /\ expired = {}
  /\ req = [r \in Requests |-> Idle]
  /\ sent = None

\* No longer good. The blacklist is looked up under what is left of the header
\* without "Bearer ": a scheme written otherwise leaves another key.
Dead(c, plain) == c \in expired \/ (plain /\ c \in revoked)

\* A request with the token of its header, or of the cookie for refresh; plain
\* says that the header is "Bearer " and the token, which is not the only
\* spelling that the strategy takes. late is bookkeeping: the token was no
\* longer good when it was sent.
Arrive(r, rt, c, plain) ==
  /\ req[r].pc = "idle"
  /\ req' = [req EXCEPT ![r] =
       [Idle EXCEPT !.pc = "guards", !.route = rt, !.cred = c, !.at = 1,
                    !.plain = plain, !.late = Dead(c, plain)]]
  /\ sent' = None
  /\ UNCHANGED <<revoked, expired>>

Respond(r, status) ==
  /\ req' = [req EXCEPT ![r] = Idle]
  /\ sent' = [to |-> r, status |-> status]

Reject(r, e) ==
  /\ Respond(r, Catch(e))
  /\ UNCHANGED <<revoked, expired>>

-----------------------------------------------------------------------------
\* Guards

At(r, guard) ==
  /\ req[r].pc = "guards"
  /\ ~ req[r].fault
  /\ req[r].route.guards[req[r].at] = guard

\* The next guard of the list, or the pipes after the last one.
Pass(r, user) ==
  /\ req' = [req EXCEPT
       ![r].at = @ + 1, ![r].user = user,
       ![r].pc = IF req[r].at = Len(req[r].route.guards)
                   THEN "pipes" ELSE "guards"]
  /\ sent' = None
  /\ UNCHANGED <<revoked, expired>>

Listed(r) == req[r].plain /\ req[r].cred \in revoked

\* Faulty variant: the blacklist is not consulted.
PassAnyToken(r) ==
  /\ At(r, "JwtBlacklistGuard")
  /\ IF req[r].route.public \/ req[r].cred # None
       THEN Pass(r, req[r].user)
       ELSE Reject(r, "Unauthorized")

JwtBlacklistGuard(r) ==
  /\ At(r, "JwtBlacklistGuard")
  /\ IF req[r].route.public \/ (req[r].cred # None /\ ~ Listed(r))
       THEN Pass(r, req[r].user)
       ELSE Reject(r, "Unauthorized")

\* Signature, expiry and type of an access token; that its user has a row
\* goes without saying, since no code deletes users.
Verified(c) == c \in AccessTokens \ expired

AccessTokenGuard(r) ==
  /\ At(r, "AccessTokenGuard")
  /\ CASE req[r].route.public -> Pass(r, req[r].user)
       [] ~ req[r].route.public /\ Verified(req[r].cred) ->
            Pass(r, UserOf[req[r].cred])
       [] OTHER -> Reject(r, "Unauthorized")

RolesGuard(r) ==
  /\ At(r, "RolesGuard")
  /\ IF req[r].user # None /\ RoleOf[req[r].user] \in req[r].route.roles
       THEN Pass(r, req[r].user)
       ELSE Reject(r, "Forbidden")

\* Faulty variant: ignoreExpiration is set.
RefreshAnyToken(r) ==
  /\ At(r, "RefreshTokenGuard")
  /\ IF req[r].cred \in RefreshTokens
       THEN Pass(r, req[r].user)
       ELSE Reject(r, "Unauthorized")

RefreshTokenGuard(r) ==
  /\ At(r, "RefreshTokenGuard")
  /\ IF req[r].cred \in RefreshTokens \ expired
       THEN Pass(r, req[r].user)
       ELSE Reject(r, "Unauthorized")

\* Redis or the database does not answer the guard at which the request is.
LoseStore(r) ==
  /\ \/ At(r, "JwtBlacklistGuard") /\ req[r].cred # None
     \/ At(r, "AccessTokenGuard") /\ Verified(req[r].cred)
  /\ ~ req[r].route.public
  /\ req' = [req EXCEPT ![r].fault = TRUE]
  /\ sent' = None
  /\ UNCHANGED <<revoked, expired>>

\* Faulty variant: an error that Passport hands on is dropped.
GuardFailsQuietly(r) ==
  /\ req[r].pc = "guards"
  /\ req[r].fault
  /\ req[r].route.guards[req[r].at] # "AccessTokenGuard"
  /\ Reject(r, "Error")

\* The error of Redis is thrown as it is. handleRequest makes an
\* UnauthorizedException of whatever error Passport hands it.
GuardFails(r) ==
  /\ req[r].pc = "guards"
  /\ req[r].fault
  /\ Reject(r, IF req[r].route.guards[req[r].at] = "AccessTokenGuard"
                 THEN "Unauthorized" ELSE "Error")

-----------------------------------------------------------------------------
\* Pipes and handlers

\* ValidationPipe and the pipes of single parameters.
RefuseInput(r) ==
  /\ req[r].pc = "pipes"
  /\ Reject(r, "BadRequest")

AcceptInput(r) ==
  /\ req[r].pc = "pipes"
  /\ req' = [req EXCEPT ![r].pc = "handler"]
  /\ sent' = None
  /\ UNCHANGED <<revoked, expired>>

\* The response envelope around what the handler returned.
Return(r) ==
  /\ \/ req[r].pc = "leaving"
     \/ req[r].pc = "handler" /\ req[r].route.name # "signOut"
  /\ Respond(r, 200)
  /\ UNCHANGED <<revoked, expired>>

Throw(r, e) ==
  /\ req[r].pc \in {"handler", "leaving"}
  /\ Reject(r, e)

BlacklistToken(r) ==
  /\ req[r].pc = "handler"
  /\ req[r].route.name = "signOut"
  /\ revoked' = revoked \cup {req[r].cred}
  /\ req' = [req EXCEPT ![r].pc = "leaving"]
  /\ sent' = None
  /\ UNCHANGED expired

-----------------------------------------------------------------------------
\* The clock and the connections

Expire(c) ==
  /\ c \notin expired
  /\ expired' = expired \cup {c}
  /\ sent' = None
  /\ UNCHANGED <<revoked, req>>

\* The caller's connection or the server goes down.
Crash(r) ==
  /\ req[r].pc # "idle"
  /\ req' = [req EXCEPT ![r] = Idle]
  /\ sent' = None
  /\ UNCHANGED <<revoked, expired>>

Guard(r) ==
  JwtBlacklistGuard(r) \/ AccessTokenGuard(r) \/ RolesGuard(r)
    \/ RefreshTokenGuard(r) \/ GuardFails(r)

Handle(r) ==
  \/ RefuseInput(r) \/ AcceptInput(r)
  \/ Return(r)
  \/ \E e \in Thrown : Throw(r, e)
  \/ BlacklistToken(r)

Next ==
  \/ \E r \in Requests :
       \/ \E rt \in Served, c \in Credentials \cup {None}, plain \in BOOLEAN :
            Arrive(r, rt, c, plain)
       \/ Guard(r) \/ LoseStore(r)
       \/ Handle(r)
       \/ Crash(r)
  \/ \E c \in Credentials : Expire(c)

Spec == Init /\ [][Next]_vars

\* The event loop goes on with every request whose call has returned, and
\* every call to Redis and MySQL returns or fails.
Fairness == \A r \in Requests : WF_vars(Guard(r) \/ Handle(r))

FairSpec == Spec /\ Fairness

-----------------------------------------------------------------------------
\* Properties

TypeOK ==
  /\ revoked \subseteq AccessTokens
  /\ expired \subseteq Credentials
  /\ req \in [Requests ->
       [pc : PCs, route : Served \cup {None}, cred : Credentials \cup {None},
        user : Users \cup {None}, at : 0 .. 5, plain : BOOLEAN, late : BOOLEAN,
        fault : BOOLEAN]]
  /\ sent \in [to : Requests, status : Statuses] \cup {None}

\* What the guards before position at have established. The blacklist is read
\* before the token is verified, and a route with roles verifies it twice.
Established(q) ==
  LET open == q.route.public IN
  /\ ~ open /\ q.at > 1 => q.cred # None /\ (q.late => q.cred \in expired)
  /\ ~ open /\ q.at > 2 =>
       q.cred \in AccessTokens /\ ~ q.late /\ q.user = UserOf[q.cred]
  /\ ~ open /\ q.at > 4 => RoleOf[q.user] \in q.route.roles
  /\ open /\ q.at > 3 => q.cred \in RefreshTokens /\ ~ q.late

\* The inductive invariant: where a request stands in its list of guards and
\* what that says of its credential.
RequestInv(q) ==
  /\ q.pc = "idle" => q = Idle
  /\ q.pc # "idle" => q.route \in Served
  /\ q.pc = "guards" => q.at \in 1 .. Len(q.route.guards)
  /\ q.pc \notin {"idle", "guards"} => q.at = Len(q.route.guards) + 1
  /\ q.late => Dead(q.cred, q.plain)
  /\ q.fault => q.pc = "guards" /\ ~ q.route.public
  /\ q.pc = "leaving" => q.route.name = "signOut"
  /\ q.pc # "idle" => Established(q)

IInv ==
  /\ TypeOK
  /\ \A r \in Requests : RequestInv(req[r])

\* What the caller can know of his request.
Seen(q) ==
  [state |-> CASE q.pc = "idle" -> "none" [] q.pc = "guards" -> "waiting"
               [] OTHER -> "served",
   route |-> q.route, cred |-> q.cred, plain |-> q.plain, late |-> q.late,
   fault |-> q.fault]

Asked == [r \in Requests |-> Seen(req[r])]

Policy == INSTANCE AccessPolicy WITH ask <- Asked

\* Whoever is served had, when the request came in, a credential of the right
\* kind that was neither expired nor, if it came in a header "Bearer " and
\* token, signed out, and a role the route admits; whoever is turned away is
\* told why.
ImplementsAccessPolicy == Policy!Spec

\* Every request ends: it is answered, whichever guard, pipe or handler
\* fails, or its connection goes down.
EveryRequestAnswered ==
  \A r \in Requests : (req[r].pc # "idle") ~> (req[r].pc = "idle")

=============================================================================
