---------------------------- MODULE TokenService ----------------------------
(***************************************************************************)
(* Sessions: sign-in, refresh and sign-out (auth.service.ts,               *)
(* jwt.service.ts) over the two kinds of keys they keep in Redis, and the  *)
(* guard that every request with an access token passes.                   *)
(*                                                                         *)
(* A JWT carries its user, its type and the second it was signed in, and   *)
(* nothing else that changes: two tokens of one type that are signed for   *)
(* one user within one second are the same string. Every Redis command is  *)
(* a step of its own; CacheService.set is two of them, SET and EXPIRE.     *)
(***************************************************************************)
EXTENDS Naturals

CONSTANTS
  Users,
  Requests,     \* slots for requests being served at the same time
  AccessLife,   \* seconds until an access token expires
  AccessTTL,    \* seconds the blacklist keeps one
  RefreshLife,  \* seconds until a refresh token expires
  RefreshTTL,   \* seconds Redis keeps one
  MaxTime,      \* bound on the clock
  None,
  Forever       \* expiry of a key that was SET and not yet given an EXPIRE

\* Both come from one configuration string: the library's reading of it is the
\* life, parseExpirationToSeconds the time to live in Redis.
ASSUME Lifetimes ==
  /\ AccessLife \in Nat /\ AccessTTL \in Nat /\ AccessLife <= AccessTTL
  /\ RefreshLife \in Nat /\ RefreshTTL \in Nat
  /\ MaxTime \in Nat

ASSUME NamesAreFresh ==
  /\ None \notin Users \cup Nat
  /\ Forever \notin Nat \cup {None}

VARIABLES
  now,         \* the clock, in seconds
  refreshKey,  \* Redis, per user: the second the kept token was signed in, or
               \* None, and when the key expires
  blacklist,   \* Redis, per access token: when the key expires; None: no key
  req,         \* the requests being served
  issued,      \* the token pairs that clients have received
  signedOut,   \* access tokens whose sign-out was answered
  closed       \* users whose session a sign-out has ended: see SessionEnded

vars == <<now, refreshKey, blacklist, req, issued, signedOut, closed>>

Times == 0 .. MaxTime

\* A token pair, by what tells it from other pairs.
Tokens == [user : Users, iat : Times]
Expiries == Nat \cup {Forever}

Idle == [pc |-> "idle", user |-> None, old |-> None, iat |-> None]

\* The token pair a request is about, once it is signed.
Token(r) == [user |-> req[r].user, iat |-> req[r].iat]

PCs == {"idle", "verified", "signed", "stored", "leaving", "deleted", "listed"}

Request == [pc : PCs, user : Users \cup {None}, old : Times \cup {None},
            iat : Times \cup {None}]

TypeOK ==
  /\ now \in Times
  /\ refreshKey \in [Users -> [iat : Times \cup {None}, until : Expiries]]
  /\ blacklist \in [Tokens -> Expiries \cup {None}]
  /\ req \in [Requests -> Request]
  /\ issued \subseteq Tokens
  /\ signedOut \subseteq Tokens
  /\ closed \subseteq Users

NoKey == [iat |-> None, until |-> Forever]

Init ==
  /\ now = 0
  /\ refreshKey = [u \in Users |-> NoKey]
  /\ blacklist = [t \in Tokens |-> None]
  /\ req = [r \in Requests |-> Idle]
  /\ issued = {}
  /\ signedOut = {}
  /\ closed = {}

\* A key with this expiry is still there.
Alive(until) == until = Forever \/ now < until

Stored(u) == IF Alive(refreshKey[u].until) THEN refreshKey[u].iat ELSE None

Blacklisted(t) == blacklist[t] # None /\ Alive(blacklist[t])

\* How the Authorization header gives the token: behind "Bearer" and one space
\* and with nothing after it, or in any other spelling that the strategy reads,
\* which cares for no case and no white space.
Schemes == {"Bearer", "other"}

\* JwtBlacklistGuard, then AccessTokenGuard. The first looks up what is left of
\* the header without a literal "Bearer ", the second takes the token out of
\* any spelling: under another one it is the token's age alone that counts.
Accepts(t, scheme) ==
  /\ scheme = "Bearer" => ~ Blacklisted(t)
  /\ now < t.iat + AccessLife

-----------------------------------------------------------------------------
\* signIn and refreshTokens

\* The password was right and the address is verified.
SignIn(r, u) ==
  /\ req[r].pc = "idle"
  /\ req' = [req EXCEPT ![r] =
       [pc |-> "verified", user |-> u, old |-> None, iat |-> None]]
  /\ closed' = closed \ {u}
  /\ UNCHANGED <<now, refreshKey, blacklist, issued, signedOut>>

\* Faulty variant: the token is not compared with the one in Redis.
RefreshWithAny(r, t) ==
  /\ req[r].pc = "idle"
  /\ t \in issued
  /\ now < t.iat + RefreshLife
  /\ req' = [req EXCEPT ![r] =
       [pc |-> "verified", user |-> t.user, old |-> t.iat, iat |-> None]]
  /\ UNCHANGED <<now, refreshKey, blacklist, issued, signedOut, closed>>

\* A client sends a refresh token; it has not expired and is the one in Redis.
Refresh(r, t) ==
  /\ req[r].pc = "idle"
  /\ t \in issued
  /\ now < t.iat + RefreshLife
  /\ Stored(t.user) = t.iat
  /\ req' = [req EXCEPT ![r] =
       [pc |-> "verified", user |-> t.user, old |-> t.iat, iat |-> None]]
  /\ UNCHANGED <<now, refreshKey, blacklist, issued, signedOut, closed>>

\* Both tokens of the pair are signed in the same second.
GenerateTokenPair(r) ==
  /\ req[r].pc = "verified"
  /\ req' = [req EXCEPT ![r] =
       [@ EXCEPT !.pc = "signed", !.iat = now]]
  /\ UNCHANGED <<now, refreshKey, blacklist, issued, signedOut, closed>>

\* SET refresh-token:<user>: it replaces the token of any other session.
StoreRefreshToken(r) ==
  /\ req[r].pc = "signed"
  /\ refreshKey' = [refreshKey EXCEPT ![req[r].user] =
                      [iat |-> req[r].iat, until |-> Forever]]
  /\ req' = [req EXCEPT ![r].pc = "stored"]
  /\ UNCHANGED <<now, blacklist, issued, signedOut, closed>>

\* EXPIRE on whatever the key holds by now, if it is there; then the answer.
ExpireRefreshToken(r) ==
  LET u == req[r].user IN
  /\ req[r].pc = "stored"
  /\ refreshKey' = IF Stored(u) = None THEN refreshKey
                   ELSE [refreshKey EXCEPT ![u].until = now + RefreshTTL]
  /\ issued' = issued \cup {Token(r)}
  /\ req' = [req EXCEPT ![r] = Idle]
  /\ UNCHANGED <<now, blacklist, signedOut, closed>>

-----------------------------------------------------------------------------
\* signOut

\* The guards let the request through; the token is taken out of any spelling.
SignOut(r, t) ==
  /\ req[r].pc = "idle"
  /\ t \in issued
  /\ \E scheme \in Schemes : Accepts(t, scheme)
  /\ req' = [req EXCEPT ![r] =
       [pc |-> "leaving", user |-> t.user, old |-> None, iat |-> t.iat]]
  /\ UNCHANGED <<now, refreshKey, blacklist, issued, signedOut, closed>>

\* A token of this user is about to be stored.
Issuing(u) ==
  \E r \in Requests : req[r].user = u /\ req[r].pc \in {"verified", "signed"}

\* Faulty variant: only the access token is revoked.
KeepRefreshToken(r) ==
  /\ req[r].pc = "leaving"
  /\ req' = [req EXCEPT ![r].pc = "deleted"]
  /\ closed' = IF Issuing(req[r].user)
               THEN closed
               ELSE closed \cup {req[r].user}
  /\ UNCHANGED <<now, refreshKey, blacklist, issued, signedOut>>

\* DEL refresh-token:<user>.
RevokeRefreshToken(r) ==
  /\ req[r].pc = "leaving"
  /\ refreshKey' = [refreshKey EXCEPT ![req[r].user] = NoKey]
  /\ req' = [req EXCEPT ![r].pc = "deleted"]
  /\ closed' = IF Issuing(req[r].user)
               THEN closed
               ELSE closed \cup {req[r].user}
  /\ UNCHANGED <<now, blacklist, issued, signedOut>>

\* SET blacklist:<token>.
BlacklistToken(r) ==
  /\ req[r].pc = "deleted"
  /\ blacklist' = [blacklist EXCEPT ![Token(r)] = Forever]
  /\ req' = [req EXCEPT ![r].pc = "listed"]
  /\ UNCHANGED <<now, refreshKey, issued, signedOut, closed>>

\* Faulty variant: the key goes one second before its token.
ExpireEarly(r) ==
  LET t == Token(r) IN
  /\ req[r].pc = "listed"
  /\ blacklist' = IF ~ Blacklisted(t) THEN blacklist
                  ELSE [blacklist EXCEPT ![t] = t.iat + AccessLife - 1]
  /\ signedOut' = signedOut \cup {t}
  /\ req' = [req EXCEPT ![r] = Idle]
  /\ UNCHANGED <<now, refreshKey, issued, closed>>

\* EXPIRE on the blacklist key, then the answer.
ExpireBlacklist(r) ==
  LET t == Token(r) IN
  /\ req[r].pc = "listed"
  /\ blacklist' = IF ~ Blacklisted(t) THEN blacklist
                  ELSE [blacklist EXCEPT ![t] = now + AccessTTL]
  /\ signedOut' = signedOut \cup {t}
  /\ req' = [req EXCEPT ![r] = Idle]
  /\ UNCHANGED <<now, refreshKey, issued, closed>>

-----------------------------------------------------------------------------
\* A request dies: a Redis error, a lost connection or a restart. The commands
\* it has sent stay done.
Fail(r) ==
  /\ req[r].pc # "idle"
  /\ req' = [req EXCEPT ![r] = Idle]
  /\ UNCHANGED <<now, refreshKey, blacklist, issued, signedOut, closed>>

Tick ==
  /\ now < MaxTime
  /\ now' = now + 1
  /\ UNCHANGED <<refreshKey, blacklist, req, issued, signedOut, closed>>

Next ==
  \/ \E r \in Requests :
       \/ \E u \in Users : SignIn(r, u)
       \/ \E t \in Tokens : Refresh(r, t) \/ SignOut(r, t)
       \/ GenerateTokenPair(r)
       \/ StoreRefreshToken(r)
       \/ ExpireRefreshToken(r)
       \/ RevokeRefreshToken(r)
       \/ BlacklistToken(r)
       \/ ExpireBlacklist(r)
       \/ Fail(r)
  \/ Tick

Spec == Init /\ [][Next]_vars

-----------------------------------------------------------------------------
\* Properties

\* An access token whose sign-out was answered is never accepted again in a
\* header that spells the scheme "Bearer ": the blacklist key outlives the
\* token, whatever other sign-outs do to the key. (Under another spelling the
\* blacklist is not found, and the token is accepted until it expires.)
RevokedRejected == \A t \in signedOut : ~ Accepts(t, "Bearer")

\* After a sign-out no refresh token of the user works until somebody signs in
\* again, provided no sign-in or refresh was under way when the key was deleted.
SessionEnded == \A u \in closed : Stored(u) = None

\* An access token that was turned away once, as too old or as signed out, is
\* turned away for good under the same spelling: no EXPIRE brings a listed
\* token back before its time, not the one of a second sign-out with the same
\* token either.
RejectedForGood ==
  [][\A t \in Tokens, scheme \in Schemes :
       ~ Accepts(t, scheme) => ~ Accepts(t, scheme)']_vars

\* A token a sign-out is about to list stays listed until it has expired.
Listed(t) ==
  blacklist[t] # None
    /\ (blacklist[t] # Forever => t.iat + AccessLife <= blacklist[t])

\* Requests in flight are about a user and, once it is known, a past second.
InFlight == \A r \in Requests :
  req[r].pc # "idle" =>
    /\ req[r].user \in Users
    /\ req[r].pc # "verified" => req[r].iat \in 0 .. now

IssuedInThePast == issued \subseteq [user : Users, iat : 0 .. now]

RevokedListed ==
  /\ \A t \in signedOut : Listed(t)
  /\ \A r \in Requests :
       req[r].pc = "listed" => Listed(Token(r))

\* No entry goes before its token, whoever wrote it.
EntriesOutlive == \A t \in Tokens : blacklist[t] # None => Listed(t)

\* Nobody can start from a token of a closed session or is about to store one.
ClosedQuiet == \A u \in closed : refreshKey[u].iat = None /\ ~ Issuing(u)

\* The inductive invariant: what RevokedRejected, RejectedForGood and
\* SessionEnded rest on.
IInv ==
  /\ TypeOK
  /\ InFlight
  /\ IssuedInThePast
  /\ RevokedListed
  /\ EntriesOutlive
  /\ ClosedQuiet

=============================================================================
