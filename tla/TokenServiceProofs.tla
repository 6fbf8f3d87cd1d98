------------------------- MODULE TokenServiceProofs -------------------------
(***************************************************************************)
(* Proofs about TokenService, for any number of users and of concurrent    *)
(* requests and for any lifetimes that keep a blacklist entry at least as  *)
(* long as an access token lives: IInv is an invariant, and an answered    *)
(* sign-out ends what it says it ends.                                     *)
(*                                                                         *)
(* The conjuncts of IInv carry the argument. A blacklist entry, once set,  *)
(* never expires before its token: an EXPIRE counts from a time after the  *)
(* signing. And a user whose session is closed has no request on the way   *)
(* to storing a token, and no stored token a request could start from.     *)
(***************************************************************************)
EXTENDS TokenService, TLAPS

USE DEF PCs, Token

LEMMA ClockFacts ==
  /\ MaxTime \in Nat
  /\ \A n \in Times : n \in Nat
  /\ \A n \in Times : 0 .. n \subseteq Times
  /\ None \notin Times
BY Lifetimes, NamesAreFresh DEF Times

\* The start.
LEMMA InitCorrect == Init => IInv
<1> SUFFICES ASSUME Init PROVE IInv
  OBVIOUS
<1>1. TypeOK
  BY Lifetimes DEF Init, TypeOK, Times, Expiries, Request, Idle, NoKey
<1>2. InFlight /\ IssuedInThePast /\ RevokedListed /\ EntriesOutlive
        /\ ClosedQuiet
  BY DEF Init, EntriesOutlive, InFlight, IssuedInThePast, RevokedListed, ClosedQuiet, Idle
<1> QED
  BY <1>1, <1>2 DEF IInv

\* A sign-in.
LEMMA SignInStep ==
  ASSUME IInv, NEW r \in Requests, NEW u \in Users, SignIn(r, u)
  PROVE  IInv'
<1> USE DEF SignIn
<1>0. TypeOK /\ InFlight /\ RevokedListed /\ EntriesOutlive /\ ClosedQuiet
  BY DEF IInv
<1>1. TypeOK'
  BY <1>0 DEF TypeOK, Request, Idle
<1>2. InFlight'
  BY <1>0 DEF TypeOK, InFlight, Idle
<1>3. RevokedListed'
  BY <1>0 DEF TypeOK, RevokedListed, Listed, Idle
<1>4. ClosedQuiet'
  BY <1>0 DEF TypeOK, ClosedQuiet, Issuing, Idle
<1> QED
  BY <1>0, <1>1, <1>2, <1>3, <1>4
  DEF IInv, IssuedInThePast, EntriesOutlive, Listed

\* A refresh: its token is stored, so the session of its user is not closed.
LEMMA RefreshStep ==
  ASSUME IInv, NEW r \in Requests, NEW t \in Tokens, Refresh(r, t)
  PROVE  IInv'
<1> USE DEF Refresh
<1>0. TypeOK /\ InFlight /\ RevokedListed /\ EntriesOutlive /\ ClosedQuiet
  BY DEF IInv
<1>1. t.user \in Users /\ t.iat \in Times
  BY DEF Tokens
<1>2. t.user \notin closed
  <2>1. Stored(t.user) # None
    BY <1>1, NamesAreFresh, ClockFacts
  <2> QED
    BY <1>0, <2>1 DEF ClosedQuiet, Stored
<1>3. TypeOK'
  BY <1>0, <1>1 DEF TypeOK, Request, Idle
<1>4. InFlight'
  BY <1>0, <1>1 DEF TypeOK, InFlight, Idle
<1>5. RevokedListed'
  BY <1>0 DEF TypeOK, RevokedListed, Listed, Idle
<1>6. ClosedQuiet'
  BY <1>0, <1>2 DEF TypeOK, ClosedQuiet, Issuing, Idle
<1> QED
  BY <1>0, <1>3, <1>4, <1>5, <1>6
  DEF IInv, IssuedInThePast, EntriesOutlive, Listed

\* The pair is signed.
LEMMA GenerateTokenPairStep ==
  ASSUME IInv, NEW r \in Requests, GenerateTokenPair(r)
  PROVE  IInv'
<1> USE DEF GenerateTokenPair
<1>0. TypeOK /\ InFlight /\ RevokedListed /\ EntriesOutlive /\ ClosedQuiet
  BY DEF IInv
<1>1. now \in Times /\ now \in 0 .. now
  BY <1>0, ClockFacts DEF TypeOK
<1>2. TypeOK'
  BY <1>0, <1>1 DEF TypeOK, Request
<1>3. InFlight'
  BY <1>0, <1>1 DEF TypeOK, InFlight, Request
<1>4. RevokedListed'
  BY <1>0 DEF TypeOK, RevokedListed, Listed, Request
<1>5. ClosedQuiet'
  BY <1>0 DEF TypeOK, ClosedQuiet, Issuing, Request
<1> QED
  BY <1>0, <1>2, <1>3, <1>4, <1>5
  DEF IInv, IssuedInThePast, EntriesOutlive, Listed

\* SET: not for a user whose session is closed, since it counts as issuing.
LEMMA StoreRefreshTokenStep ==
  ASSUME IInv, NEW r \in Requests, StoreRefreshToken(r)
  PROVE  IInv'
<1> USE DEF StoreRefreshToken
<1>0. TypeOK /\ InFlight /\ RevokedListed /\ EntriesOutlive /\ ClosedQuiet
  BY DEF IInv
<1>1. req[r].user \in Users /\ req[r].iat \in Times
  BY <1>0, ClockFacts DEF TypeOK, InFlight
<1>2. req[r].user \notin closed
  BY <1>0 DEF ClosedQuiet, Issuing
<1>3. TypeOK'
  BY <1>0, <1>1 DEF TypeOK, Request, Expiries
<1>4. InFlight'
  BY <1>0 DEF TypeOK, InFlight, Request
<1>5. RevokedListed'
  BY <1>0 DEF TypeOK, RevokedListed, Listed, Request
<1>6. ClosedQuiet'
  BY <1>0, <1>2 DEF TypeOK, ClosedQuiet, Issuing, Request
<1> QED
  BY <1>0, <1>3, <1>4, <1>5, <1>6
  DEF IInv, IssuedInThePast, EntriesOutlive, Listed

\* EXPIRE: it leaves alone which token a key holds.
LEMMA ExpireRefreshTokenStep ==
  ASSUME IInv, NEW r \in Requests, ExpireRefreshToken(r)
  PROVE  IInv'
<1> USE DEF ExpireRefreshToken
<1>0. TypeOK /\ InFlight /\ RevokedListed /\ EntriesOutlive /\ ClosedQuiet
  BY DEF IInv
<1>1. /\ req[r].user \in Users
      /\ req[r].iat \in 0 .. now /\ req[r].iat \in Times
      /\ now + RefreshTTL \in Nat
  BY <1>0, ClockFacts, Lifetimes DEF TypeOK, InFlight
<1>2. TypeOK'
  <2>1. refreshKey' \in [Users -> [iat : Times \cup {None}, until : Expiries]]
    BY <1>0, <1>1 DEF TypeOK, Expiries
  <2>2. issued' \subseteq Tokens
    BY <1>0, <1>1 DEF TypeOK, Tokens
  <2> QED
    BY <1>0, <2>1, <2>2 DEF TypeOK, Request, Idle
<1>3. InFlight'
  BY <1>0 DEF TypeOK, InFlight, Idle
<1>4. IssuedInThePast'
  BY <1>0, <1>1
  DEF IInv, IssuedInThePast, EntriesOutlive, Listed
<1>5. RevokedListed'
  BY <1>0 DEF TypeOK, RevokedListed, Listed, Idle
<1>6. ClosedQuiet'
  <2>1. \A u \in Users : refreshKey'[u].iat = refreshKey[u].iat
    BY <1>0 DEF TypeOK
  <2> QED
    BY <1>0, <2>1 DEF TypeOK, ClosedQuiet, Issuing, Idle
<1> QED
  BY <1>0, <1>2, <1>3, <1>4, <1>5, <1>6 DEF IInv, EntriesOutlive, Listed

\* A sign-out starts.
LEMMA SignOutStep ==
  ASSUME IInv, NEW r \in Requests, NEW t \in Tokens, SignOut(r, t)
  PROVE  IInv'
<1> USE DEF SignOut
<1>0. TypeOK /\ InFlight /\ IssuedInThePast /\ RevokedListed
        /\ EntriesOutlive /\ ClosedQuiet
  BY DEF IInv
<1>1. t.user \in Users /\ t.iat \in Times /\ t.iat \in 0 .. now
  BY <1>0 DEF Tokens, IssuedInThePast
<1>2. TypeOK'
  BY <1>0, <1>1 DEF TypeOK, Request
<1>3. InFlight'
  BY <1>0, <1>1 DEF TypeOK, InFlight
<1>4. RevokedListed'
  BY <1>0 DEF TypeOK, RevokedListed, Listed
<1>5. ClosedQuiet'
  BY <1>0 DEF TypeOK, ClosedQuiet, Issuing
<1> QED
  BY <1>0, <1>2, <1>3, <1>4, <1>5
  DEF IInv, IssuedInThePast, EntriesOutlive, Listed

\* DEL: the session is closed unless a token is about to be stored.
LEMMA RevokeRefreshTokenStep ==
  ASSUME IInv, NEW r \in Requests, RevokeRefreshToken(r)
  PROVE  IInv'
<1> USE DEF RevokeRefreshToken
<1>0. TypeOK /\ InFlight /\ RevokedListed /\ EntriesOutlive /\ ClosedQuiet
  BY DEF IInv
<1>1. req[r].user \in Users
  BY <1>0 DEF InFlight
<1>2. TypeOK'
  BY <1>0, <1>1 DEF TypeOK, Request, NoKey, Expiries
<1>3. InFlight'
  BY <1>0 DEF TypeOK, InFlight, Request
<1>4. RevokedListed'
  BY <1>0 DEF TypeOK, RevokedListed, Listed, Request
<1>5. ClosedQuiet'
  <2>1. \A u \in Users : ~ Issuing(u) => ~ Issuing(u)'
    BY <1>0 DEF TypeOK, Issuing, Request
  <2>2. \A u \in closed : refreshKey'[u].iat = None
    BY <1>0 DEF TypeOK, ClosedQuiet, NoKey
  <2>3. refreshKey'[req[r].user].iat = None
    BY <1>0, <1>1 DEF TypeOK, NoKey
  <2>4. closed \subseteq Users
    BY <1>0 DEF TypeOK
  <2> QED
    BY <1>0, <1>1, <2>1, <2>2, <2>3, <2>4 DEF ClosedQuiet
<1> QED
  BY <1>0, <1>2, <1>3, <1>4, <1>5
  DEF IInv, IssuedInThePast, EntriesOutlive, Listed

\* SET of a blacklist entry: from here on the token is listed.
LEMMA BlacklistTokenStep ==
  ASSUME IInv, NEW r \in Requests, BlacklistToken(r)
  PROVE  IInv'
<1> USE DEF BlacklistToken
<1>0. TypeOK /\ InFlight /\ RevokedListed /\ EntriesOutlive /\ ClosedQuiet
  BY DEF IInv
<1>1. Token(r) \in Tokens
  BY <1>0, ClockFacts DEF TypeOK, InFlight, Tokens
<1>2. TypeOK'
  BY <1>0, <1>1 DEF TypeOK, Request, Expiries
<1>3. InFlight'
  BY <1>0 DEF TypeOK, InFlight, Request
<1>4. ASSUME NEW t \in Tokens, Listed(t) \/ t = Token(r) PROVE Listed(t)'
  BY <1>0, <1>1, <1>4, NamesAreFresh DEF Listed, TypeOK
<1>5. EntriesOutlive'
  BY <1>0, <1>4 DEF EntriesOutlive, Listed, TypeOK
<1>6. RevokedListed'
  <2>1. \A t \in signedOut' : Listed(t)'
    BY <1>0, <1>4 DEF RevokedListed, TypeOK
  <2>2. \A q \in Requests : Token(q)' = Token(q)
    BY <1>0 DEF TypeOK, Request
  <2>3. ASSUME NEW q \in Requests, req'[q].pc = "listed" PROVE Listed(Token(q))'
    <3>1. Token(q) = Token(r) \/ Listed(Token(q))
      BY <1>0, <2>3 DEF RevokedListed, TypeOK
    <3>2. Token(q) \in Tokens
      BY <1>0, <1>1, <2>3, ClockFacts DEF InFlight, TypeOK, Tokens
    <3>3. blacklist'[Token(q)] # None
            /\ (blacklist'[Token(q)] # Forever =>
                  Token(q).iat + AccessLife <= blacklist'[Token(q)])
      BY <1>4, <3>1, <3>2 DEF Listed
    <3> QED
      BY <2>2, <3>3 DEF Listed
  <2> QED
    BY <2>1, <2>3 DEF RevokedListed
<1>7. ClosedQuiet'
  BY <1>0 DEF TypeOK, ClosedQuiet, Issuing, Request
<1> QED
  BY <1>2, <1>3, <1>5, <1>6, <1>7 DEF IInv, IssuedInThePast

\* EXPIRE of a blacklist entry: it counts from a second that is not before the
\* one the token was signed in, so the entry outlives the token.
LEMMA ExpireBlacklistStep ==
  ASSUME IInv, NEW r \in Requests, ExpireBlacklist(r)
  PROVE  IInv'
<1> USE DEF ExpireBlacklist
<1>0. TypeOK /\ InFlight /\ RevokedListed /\ EntriesOutlive /\ ClosedQuiet
  BY DEF IInv
<1>1. /\ Token(r) \in Tokens
      /\ req[r].iat \in 0 .. now
      /\ now \in Nat
  BY <1>0, ClockFacts DEF TypeOK, InFlight, Tokens
<1>2. TypeOK'
  BY <1>0, <1>1, Lifetimes DEF TypeOK, Request, Idle, Expiries
<1>3. InFlight'
  BY <1>0 DEF TypeOK, InFlight, Idle
<1>4. req[r].iat + AccessLife <= now + AccessTTL /\ now + AccessTTL \in Nat
  BY <1>1, Lifetimes
<1>5. ASSUME NEW t \in Tokens, Listed(t) PROVE Listed(t)'
  <2>1. CASE blacklist'[t] = blacklist[t]
    BY <1>5, <2>1 DEF Listed
  <2>2. CASE blacklist'[t] # blacklist[t]
    <3>1. t = Token(r) /\ blacklist'[t] = now + AccessTTL
      BY <1>0, <1>1, <2>2 DEF TypeOK
    <3> QED
      BY <1>4, <3>1, NamesAreFresh DEF Listed
  <2> QED
    BY <2>1, <2>2
<1>6. EntriesOutlive'
  <2> SUFFICES ASSUME NEW t \in Tokens, blacklist'[t] # None PROVE Listed(t)'
    BY DEF EntriesOutlive
  <2>1. blacklist[t] # None
    BY <1>0 DEF TypeOK, Blacklisted
  <2> QED
    BY <1>0, <1>5, <2>1 DEF EntriesOutlive
<1>7. RevokedListed'
  <2>1. Listed(Token(r))
    BY <1>0 DEF RevokedListed
  <2>2. ASSUME NEW t \in signedOut' PROVE Listed(t)'
    <3>1. t = Token(r) \/ t \in signedOut
      BY <2>2
    <3>2. t \in Tokens /\ Listed(t)
      BY <1>0, <1>1, <2>1, <3>1 DEF RevokedListed, TypeOK
    <3> QED
      BY <1>5, <3>2
  <2>3. ASSUME NEW q \in Requests, req'[q].pc = "listed" PROVE Listed(Token(q))'
    <3>1. req'[q] = req[q]
      BY <1>0, <2>3 DEF TypeOK, Idle
    <3>2. Token(q) \in Tokens
      BY <1>0, <2>3, <3>1, ClockFacts DEF InFlight, TypeOK, Tokens
    <3> QED
      BY <1>0, <1>5, <2>3, <3>1, <3>2 DEF RevokedListed, Listed
  <2> QED
    BY <2>2, <2>3 DEF RevokedListed, Listed
<1>8. ClosedQuiet'
  BY <1>0 DEF TypeOK, ClosedQuiet, Issuing, Idle
<1> QED
  BY <1>2, <1>3, <1>6, <1>7, <1>8 DEF IInv, IssuedInThePast

\* A request dies.
LEMMA FailStep ==
  ASSUME IInv, NEW r \in Requests, Fail(r)
  PROVE  IInv'
<1> USE DEF Fail
<1>0. TypeOK /\ InFlight /\ RevokedListed /\ EntriesOutlive /\ ClosedQuiet
  BY DEF IInv
<1>1. TypeOK'
  BY <1>0 DEF TypeOK, Request, Idle
<1>2. InFlight'
  BY <1>0 DEF TypeOK, InFlight, Idle
<1>3. RevokedListed'
  BY <1>0 DEF TypeOK, RevokedListed, Listed, Idle
<1>4. ClosedQuiet'
  BY <1>0 DEF TypeOK, ClosedQuiet, Issuing, Idle
<1> QED
  BY <1>0, <1>1, <1>2, <1>3, <1>4
  DEF IInv, IssuedInThePast, EntriesOutlive, Listed

\* The clock moves on.
LEMMA TickStep ==
  ASSUME IInv, Tick
  PROVE  IInv'
<1> USE DEF Tick
<1>0. TypeOK /\ InFlight /\ IssuedInThePast /\ RevokedListed
        /\ EntriesOutlive /\ ClosedQuiet
  BY DEF IInv
<1>1. now' \in Times /\ 0 .. now \subseteq 0 .. now'
  BY <1>0, Lifetimes DEF TypeOK, Times
<1>2. TypeOK'
  BY <1>0, <1>1 DEF TypeOK
<1>3. InFlight' /\ IssuedInThePast'
  BY <1>0, <1>1 DEF InFlight, IssuedInThePast
<1>4. RevokedListed' /\ ClosedQuiet'
  BY <1>0 DEF RevokedListed, Listed, ClosedQuiet, Issuing
<1> QED
  BY <1>0, <1>2, <1>3, <1>4 DEF IInv, EntriesOutlive, Listed

-----------------------------------------------------------------------------
\* Theorems

\* The inductive invariant of the sessions in Redis (jwt.service.ts).
THEOREM Invariant == Spec => []IInv
<1>1. ASSUME IInv, [Next]_vars PROVE IInv'
  <2>1. CASE UNCHANGED vars
    BY <1>1, <2>1 DEF vars, IInv, TypeOK, InFlight, IssuedInThePast,
         RevokedListed, EntriesOutlive, Listed, ClosedQuiet, Issuing
  <2>2. CASE Next
    BY <1>1, <2>2, SignInStep, RefreshStep, GenerateTokenPairStep,
       StoreRefreshTokenStep, ExpireRefreshTokenStep, SignOutStep,
       RevokeRefreshTokenStep, BlacklistTokenStep, ExpireBlacklistStep,
       FailStep, TickStep DEF Next
  <2> QED
    BY <1>1, <2>1, <2>2
<1> QED
  BY <1>1, InitCorrect, PTL DEF Spec

\* Types of the Redis keys and of the requests in flight.
THEOREM TypeCorrect == Spec => []TypeOK
<1>1. IInv => TypeOK
  BY DEF IInv
<1> QED
  BY <1>1, Invariant, PTL

\* While the key is there it is not past its expiry, and once it is the token
\* is past its own: a token with an entry, alive or not, is turned away.
EntriesReject == \A t \in Tokens : blacklist[t] # None => ~ Accepts(t, "Bearer")

LEMMA EntryRejects == IInv => EntriesReject
<1> SUFFICES ASSUME IInv, NEW t \in Tokens, blacklist[t] # None
             PROVE  ~ Accepts(t, "Bearer")
  BY DEF EntriesReject
<1>1. /\ Listed(t)
      /\ blacklist[t] \in Expiries
      /\ now \in Nat /\ t.iat \in Nat
  BY ClockFacts DEF IInv, TypeOK, EntriesOutlive, Tokens
<1>2. CASE blacklist[t] = Forever
  BY <1>1, <1>2 DEF Accepts, Blacklisted, Alive
<1>3. CASE blacklist[t] # Forever
  <2>1. t.iat + AccessLife <= blacklist[t] /\ blacklist[t] \in Nat
    BY <1>1, <1>3 DEF Listed, Expiries
  <2> QED
    BY <1>1, <2>1, Lifetimes DEF Accepts, Blacklisted, Alive
<1> QED
  BY <1>2, <1>3

\* The clock does not go back and no step removes a blacklist entry (its
\* expiry is a matter of the clock).
LEMMA EntriesStay ==
  ASSUME TypeOK, [Next]_vars
  PROVE  /\ now <= now' /\ now \in Nat /\ now' \in Nat
         /\ \A t \in Tokens : blacklist[t] # None => blacklist'[t] # None
<1>1. now \in Nat
  BY ClockFacts DEF TypeOK
<1>2. CASE Tick
  BY <1>1, <1>2 DEF Tick
<1>3. CASE \E r \in Requests : BlacklistToken(r) \/ ExpireBlacklist(r)
  <2>1. PICK r \in Requests : BlacklistToken(r) \/ ExpireBlacklist(r)
    BY <1>3
  <2>2. now' = now
    BY <2>1 DEF BlacklistToken, ExpireBlacklist
  <2>3. now + AccessTTL # None
    BY <1>1, Lifetimes, NamesAreFresh
  <2>4. \A t \in Tokens :
          blacklist'[t] \in {blacklist[t], Forever, now + AccessTTL}
    BY <2>1 DEF BlacklistToken, ExpireBlacklist, TypeOK
  <2> QED
    BY <1>1, <2>2, <2>3, <2>4, NamesAreFresh
<1>4. CASE UNCHANGED <<now, blacklist>>
  BY <1>1, <1>4
<1> QED
  BY <1>2, <1>3, <1>4 DEF Next, vars, SignIn, Refresh, GenerateTokenPair,
     StoreRefreshToken, ExpireRefreshToken, SignOut, RevokeRefreshToken, Fail

\* revokeAllUserTokens, then JwtBlacklistGuard: a signed-out access token is
\* never accepted again in a header that starts with "Bearer ", for any
\* lifetimes with AccessLife <= AccessTTL.
THEOREM RevokedCorrect == Spec => []RevokedRejected
<1>1. IInv => RevokedRejected
  BY EntryRejects DEF IInv, TypeOK, RevokedListed, Listed, EntriesReject,
     RevokedRejected
<1> QED
  BY <1>1, Invariant, PTL

\* JwtBlacklistGuard and AccessTokenGuard: once turned away, a token is turned
\* away for good under the same spelling of the header, however sign-outs with
\* it overlap, fail or come late.
THEOREM RejectionStands == Spec => RejectedForGood
<1> DEFINE Rejection == \A t \in Tokens, scheme \in Schemes :
                          ~ Accepts(t, scheme) => ~ Accepts(t, scheme)'
<1>1. ASSUME IInv, EntriesReject', [Next]_vars PROVE Rejection
  <2> SUFFICES ASSUME NEW t \in Tokens, NEW scheme \in Schemes,
                      ~ Accepts(t, scheme)
               PROVE  ~ Accepts(t, scheme)'
    OBVIOUS
  <2>0. /\ now <= now' /\ now \in Nat /\ now' \in Nat
        /\ blacklist[t] # None => blacklist'[t] # None
    BY <1>1, EntriesStay DEF IInv
  <2>1. CASE blacklist[t] # None /\ scheme = "Bearer"
    BY <1>1, <2>0, <2>1 DEF EntriesReject
  <2>2. CASE blacklist[t] = None \/ scheme # "Bearer"
    <3>1. t.iat \in Nat /\ t.iat + AccessLife \in Nat
      BY ClockFacts, Lifetimes DEF Tokens
    <3>2. t.iat + AccessLife <= now
      BY <2>0, <2>2, <3>1 DEF Accepts, Blacklisted
    <3> QED
      BY <2>0, <3>1, <3>2 DEF Accepts
  <2> QED
    BY <2>1, <2>2
<1> HIDE DEF Rejection
<1>2. [][Rejection]_vars => RejectedForGood
  BY PTL DEF Rejection, RejectedForGood
<1> QED
  BY <1>1, <1>2, EntryRejects, Invariant, PTL DEF Spec

\* revokeRefreshToken: after a sign-out that nothing overlaps, verifyRefreshToken
\* finds no token of the user until the next sign-in.
THEOREM SessionCorrect == Spec => []SessionEnded
<1>1. IInv => SessionEnded
  BY DEF IInv, ClosedQuiet, SessionEnded, Stored
<1> QED
  BY <1>1, Invariant, PTL

=============================================================================
