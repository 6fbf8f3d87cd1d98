------------------------ MODULE AccountServiceProofs ------------------------
(***************************************************************************)
(* Proofs about AccountService, for any number of accounts and concurrent  *)
(* requests: IInv is an invariant; no step takes a verification back; an   *)
(* account is verified only by a link mailed to its address; and no key    *)
(* is left to stay in Redis for good unless a request dies. Where a        *)
(* property excepts the accounts that sign-ups have named by their id, the *)
(* proof shows that such a sign-up harms no other account.                 *)
(*                                                                         *)
(* updateUser writes back every column that differs from what it read, so  *)
(* nothing in it protects the column verified. What does is far away: only *)
(* signIn gives an account its tokens, it asks for the verification, and   *)
(* so every entity that an updateUser has read is a verified one.          *)
(*                                                                         *)
(* The three parts of IInv are proved one after the other, each with one   *)
(* lemma per action that could disturb it.                                 *)
(***************************************************************************)
EXTENDS AccountService, TLAPS

\* Records of requests.
LEMMA AtType ==
  ASSUME NEW pc \in PCs, NEW a \in Accounts \cup {None},
         NEW e \in Emails \cup {None}, NEW l \in Links \cup {None},
         NEW x \in Row \cup {None}
  PROVE  /\ At(pc, a, e, l, x) \in Request
         /\ At(pc, a, e, l, x).pc = pc
         /\ At(pc, a, e, l, x).account = a
         /\ At(pc, a, e, l, x).email = e
         /\ At(pc, a, e, l, x).link = l
         /\ At(pc, a, e, l, x).entity = x
BY DEF At, Request

LEMMA IdleType == Idle \in Request /\ Idle.pc = "idle"
BY AtType DEF Idle, PCs

LEMMA GoesType ==
  ASSUME NEW q \in Request, NEW pc \in PCs
  PROVE  /\ [q EXCEPT !.pc = pc] \in Request
         /\ [q EXCEPT !.pc = pc].pc = pc
         /\ [q EXCEPT !.pc = pc].account = q.account
         /\ [q EXCEPT !.pc = pc].email = q.email
         /\ [q EXCEPT !.pc = pc].link = q.link
         /\ [q EXCEPT !.pc = pc].entity = q.entity
BY DEF Request

\* A row that takes columns from another one is a row.
LEMMA MergeType ==
  ASSUME NEW old \in Row, NEW new \in Row, NEW diff
  PROVE  Merge(old, new, diff) \in Row
BY DEF Merge, Row

\* One request changes, and the rest of the state at most grows.
Others(r) == \A q \in Requests : q # r => req'[q] = req[q]

\* Rows are never removed; but for those that sign-ups name they keep their
\* address and stay verified.
RowsKept ==
  /\ strayed \subseteq strayed'
  /\ \A a \in Accounts : Exists(a) => Exists(a)'
  /\ \A a \in Accounts \ strayed' :
       Exists(a) => /\ row'[a].email = row[a].email
                    /\ row[a].verified => row'[a].verified

LinksShrink == \A l \in Links : link'[l].value \in {link[l].value, None}

RequestFine(r) == InFlight(r) /\ SignUpInFlight(r) /\ SaveInFlight(r)

\* What a step of request r has to establish, besides the types, when it changes
\* no clients.
LEMMA StepPreserves ==
  ASSUME AccountsInv, NEW r \in Requests, TypeOK', Others(r), RowsKept,
         RequestFine(r)', UNCHANGED clients, OneAccountPerAddress',
         LinksOfAccounts'
  PROVE  AccountsInv'
<1>1. ASSUME NEW q \in Requests PROVE RequestFine(q)'
  <2>1. CASE q = r
    BY <2>1
  <2>2. CASE q # r
    <3>1. req'[q] = req[q] /\ RequestFine(q)
      BY <2>2 DEF Others, AccountsInv, RequestFine
    <3>2. req[q].pc \notin {"idle", "found"} => req[q].account \in Accounts
      BY <3>1 DEF RequestFine, InFlight
    <3>3. InFlight(q)'
      BY <3>1, <3>2 DEF RequestFine, InFlight, RowsKept
    <3>4. SignUpInFlight(q)'
      BY <3>1, <3>2 DEF RequestFine, InFlight, SignUpInFlight, RowsKept
    <3>5. SaveInFlight(q)'
      BY <3>1, <3>2 DEF RequestFine, InFlight, SaveInFlight, RowsKept
    <3> QED
      BY <3>3, <3>4, <3>5 DEF RequestFine
  <2> QED
    BY <2>1, <2>2
<1>2. ClientsVerified'
  BY DEF AccountsInv, TypeOK, ClientsVerified, RowsKept
<1> QED
  BY <1>1, <1>2 DEF AccountsInv, RequestFine

LEMMA LinksKept ==
  ASSUME AccountsInv, RowsKept, LinksShrink
  PROVE  LinksOfAccounts'
<1> SUFFICES ASSUME NEW l \in Links, link'[l].value # None
             PROVE  \E a \in Accounts :
                      /\ Exists(a)'
                      /\ a \in strayed' \/ row'[a].email = link'[l].value
  BY DEF LinksOfAccounts
<1>1. link'[l].value = link[l].value
  BY DEF LinksShrink
<1>2. PICK a \in Accounts : Exists(a) /\ (a \in strayed \/ row[a].email = link[l].value)
  BY <1>1 DEF AccountsInv, LinksOfAccounts
<1> QED
  BY <1>1, <1>2 DEF RowsKept

\* Steps that leave the table alone, ...
LEMMA RowsSame ==
  ASSUME AccountsInv, UNCHANGED row, strayed \subseteq strayed'
  PROVE  RowsKept /\ OneAccountPerAddress'
BY DEF RowsKept, AccountsInv, OneAccountPerAddress, Exists

LEMMA QuietStep ==
  ASSUME AccountsInv, NEW r \in Requests, UNCHANGED <<row, strayed, clients>>,
         LinksShrink, TypeOK', Others(r), RequestFine(r)'
  PROVE  AccountsInv'
BY RowsSame, LinksKept, StepPreserves

\* ... and one that writes row new under id a.
LEMMA RowWritten ==
  ASSUME AccountsInv, NEW a \in Accounts, NEW new \in Row,
         row' = [row EXCEPT ![a] = new], UNCHANGED strayed,
         ~ Taken(a, new.email),
         Exists(a) /\ a \notin strayed =>
           /\ new.email = row[a].email
           /\ row[a].verified => new.verified
  PROVE  /\ RowsKept /\ OneAccountPerAddress'
         /\ row' \in [Accounts -> Row \cup {None}]
         /\ row'[a] = new /\ Exists(a)'
<1>1. row'[a] = new /\ \A b \in Accounts \ {a} : row'[b] = row[b]
  BY DEF AccountsInv, TypeOK
<1>2. row' \in [Accounts -> Row \cup {None}]
  BY DEF AccountsInv, TypeOK
<1>3. Exists(a)'
  BY <1>1, NoneIsFresh DEF Exists
<1>4. RowsKept
  BY <1>1, <1>3 DEF RowsKept, Exists
<1>5. \A b \in Accounts \ {a} : Exists(b) => row[b].email # new.email
  BY DEF Taken
<1>6. OneAccountPerAddress'
  BY <1>1, <1>5 DEF OneAccountPerAddress, AccountsInv, Exists
<1> QED
  BY <1>1, <1>2, <1>3, <1>4, <1>6

LEMMA AccountsInit == Init => AccountsInv
<1> SUFFICES ASSUME Init PROVE AccountsInv
  OBVIOUS
<1>1. TypeOK
  BY Switches, IdleType DEF Init, TypeOK, NoKey
<1>2. \A r \in Requests : RequestFine(r)
  BY IdleType DEF Init, RequestFine, InFlight, SignUpInFlight, SaveInFlight
<1>3. OneAccountPerAddress /\ LinksOfAccounts /\ ClientsVerified
  BY DEF Init, OneAccountPerAddress, LinksOfAccounts, ClientsVerified, NoKey, Exists
<1> QED
  BY <1>1, <1>2, <1>3 DEF AccountsInv, RequestFine

LEMMA SignUpStep ==
  ASSUME AccountsInv, NEW r \in Requests, NEW e \in Emails, NEW a \in Accounts,
         SignUp(r, e, a)
  PROVE  AccountsInv'
<1> DEFINE q == At("checked", a, e, None, row[a])
<1>1. /\ q \in Request /\ q.pc = "checked" /\ q.account = a /\ q.email = e
      /\ q.entity = row[a]
  <2>1. "checked" \in PCs /\ row[a] \in Row \cup {None}
    BY DEF PCs, AccountsInv, TypeOK
  <2> QED
    BY <2>1, AtType
<1>2. /\ req' = [req EXCEPT ![r] = q]
      /\ UNCHANGED <<row, link, mailed, clients, cache, failures>>
  BY DEF SignUp
<1> HIDE DEF q
<1>3. /\ strayed \subseteq strayed' /\ strayed' \subseteq Accounts
      /\ Exists(a) => a \in strayed'
  BY DEF SignUp, AccountsInv, TypeOK
<1>4. TypeOK' /\ Others(r) /\ req'[r] = q
  BY <1>1, <1>2, <1>3 DEF AccountsInv, TypeOK, Others
<1>5. RequestFine(r)'
  BY <1>1, <1>2, <1>3, <1>4
     DEF RequestFine, InFlight, SignUpInFlight, SaveInFlight, Exists
<1>6. LinksShrink
  BY <1>2 DEF LinksShrink
<1> QED
  BY <1>2, <1>3, <1>4, <1>5, <1>6, RowsSame, LinksKept, StepPreserves

\* A request is answered or dies; nothing it has done before matters any more.
LEMMA EndsStep ==
  ASSUME AccountsInv, NEW r \in Requests, Ends(r)
  PROVE  /\ req' \in [Requests -> Request]
         /\ Others(r)
         /\ RequestFine(r)'
<1>1. req'[r] = Idle /\ req' \in [Requests -> Request] /\ Others(r)
  BY IdleType DEF AccountsInv, TypeOK, Ends, Others
<1> QED
  BY <1>1, IdleType DEF RequestFine, InFlight, SignUpInFlight, SaveInFlight

\* What createUserOrThrow leaves in the table when it is not refused.
LEMMA CreateUserRow ==
  ASSUME AccountsInv, NEW r \in Requests, NEW n \in Names, NEW p \in Passwords,
         NEW d \in Deletions, CreateUser(r, n, p, d)
  PROVE  \/ Ends(r) /\ UNCHANGED row
         \/ \E a \in Accounts, new \in Row :
              /\ a = req[r].account
              /\ row' = [row EXCEPT ![a] = new]
              /\ ~ Taken(a, new.email)
              /\ Exists(a) => a \in strayed
              /\ a \notin strayed => /\ new.email = req[r].email
                                     /\ new.verified = AutoVerify
              /\ Goes(r, "created")
<1> DEFINE a == req[r].account
           seen == req[r].entity
           fresh == [email |-> req[r].email, verified |-> AutoVerify,
                     name |-> n, password |-> p, deleted |-> d]
           new == Saved(row[a], seen, fresh)
<1>1. /\ a \in Accounts /\ req[r].email \in Emails
      /\ seen # None => Exists(a) /\ a \in strayed
  BY DEF CreateUser, AccountsInv, InFlight, SignUpInFlight
<1>2. /\ fresh \in Row /\ fresh.email = req[r].email
      /\ fresh.verified = AutoVerify
  BY <1>1, Switches DEF Row
<1> HIDE DEF fresh
<1>3. new \in Row /\ (seen = None => new = fresh)
  <2>1. CASE seen = None
    BY <1>2, <2>1 DEF Saved
  <2>2. CASE seen # None
    <3>1. row[a] \in Row
      BY <1>1, <2>2 DEF Exists, AccountsInv, TypeOK
    <3> QED
      BY <1>2, <2>2, <3>1, MergeType DEF Saved
  <2> QED
    BY <2>1, <2>2
<1>4. IF (seen = None /\ Exists(a)) \/ Taken(a, new.email)
      THEN Ends(r) /\ UNCHANGED row
      ELSE row' = [row EXCEPT ![a] = new] /\ Goes(r, "created")
  BY DEF CreateUser, fresh
<1> HIDE DEF new, seen
<1>5. CASE (seen = None /\ Exists(a)) \/ Taken(a, new.email)
  BY <1>4, <1>5
<1>6. CASE ~ ((seen = None /\ Exists(a)) \/ Taken(a, new.email))
  <2>1. /\ row' = [row EXCEPT ![a] = new] /\ Goes(r, "created")
        /\ ~ Taken(a, new.email)
    BY <1>4, <1>6
  <2>2. Exists(a) => a \in strayed
    BY <1>1, <1>6
  <2>3. a \notin strayed => new.email = req[r].email /\ new.verified = AutoVerify
    BY <1>1, <1>2, <1>3
  <2> QED
    BY <1>1, <1>3, <2>1, <2>2, <2>3
<1> QED
  BY <1>5, <1>6

LEMMA CreateUserStep ==
  ASSUME AccountsInv, NEW r \in Requests, NEW n \in Names, NEW p \in Passwords,
         NEW d \in Deletions, CreateUser(r, n, p, d)
  PROVE  AccountsInv' /\ RowsKept
<1>1. UNCHANGED <<link, mailed, clients, cache, strayed, failures>>
  BY DEF CreateUser
<1>2. LinksShrink
  BY <1>1 DEF LinksShrink
<1>3. CASE Ends(r) /\ UNCHANGED row
  BY <1>1, <1>2, <1>3, EndsStep, QuietStep, RowsSame DEF AccountsInv, TypeOK
<1>4. ASSUME NEW a \in Accounts, NEW new \in Row, a = req[r].account,
             row' = [row EXCEPT ![a] = new], ~ Taken(a, new.email),
             Exists(a) => a \in strayed,
             a \notin strayed => new.email = req[r].email, Goes(r, "created")
      PROVE  AccountsInv' /\ RowsKept
  <2>1. /\ RowsKept /\ OneAccountPerAddress'
        /\ row' \in [Accounts -> Row \cup {None}]
        /\ row'[a] = new /\ Exists(a)'
    BY <1>1, <1>4, RowWritten
  <2> DEFINE q == [req[r] EXCEPT !.pc = "created"]
  <2>2. /\ q \in Request /\ q.pc = "created" /\ q.account = a
        /\ q.email = req[r].email /\ req[r].email \in Emails
    <3>1. /\ req[r] \in Request /\ "created" \in PCs
          /\ req[r].email \in Emails
      BY DEF PCs, CreateUser, AccountsInv, TypeOK, InFlight
    <3> QED
      BY <1>4, <3>1, GoesType
  <2>3. req' = [req EXCEPT ![r] = q]
    BY <1>4 DEF Goes
  <2> HIDE DEF q
  <2>4. TypeOK' /\ Others(r) /\ req'[r] = q
    BY <1>1, <2>1, <2>2, <2>3 DEF AccountsInv, TypeOK, Others
  <2>5. RequestFine(r)'
    BY <1>1, <1>4, <2>1, <2>2, <2>4
       DEF RequestFine, InFlight, SignUpInFlight, SaveInFlight
  <2> QED
    BY <1>1, <1>2, <2>1, <2>4, <2>5, LinksKept, StepPreserves
<1> QED
  BY <1>3, <1>4, CreateUserRow

LEMMA StoreLinkStep ==
  ASSUME AccountsInv, NEW r \in Requests, NEW l \in Links, StoreLink(r, l)
  PROVE  AccountsInv'
<1> DEFINE a == req[r].account
           e == req[r].email
           q == At("linked", a, e, l, None)
<1>0. /\ a \in Accounts /\ Exists(a) /\ e \in Emails
      /\ a \notin strayed => row[a].email = e
  BY DEF StoreLink, AccountsInv, InFlight, SignUpInFlight
<1>1. /\ q \in Request /\ q.pc = "linked" /\ q.account = a /\ q.email = e
      /\ q.link = l
  BY <1>0, AtType DEF PCs
<1>2. /\ req' = [req EXCEPT ![r] = q]
      /\ link' = [link EXCEPT ![l] = [value |-> e, expires |-> FALSE]]
      /\ UNCHANGED <<row, mailed, clients, cache, strayed, failures>>
  BY DEF StoreLink
<1> HIDE DEF q, a, e
<1>3. TypeOK' /\ Others(r) /\ req'[r] = q
  BY <1>0, <1>1, <1>2 DEF AccountsInv, TypeOK, Others
<1>4. RequestFine(r)'
  BY <1>0, <1>1, <1>2, <1>3
     DEF RequestFine, InFlight, SignUpInFlight, SaveInFlight, Exists
<1>5. LinksOfAccounts'
  BY <1>0, <1>2 DEF AccountsInv, TypeOK, LinksOfAccounts, Exists
<1> QED
  BY <1>2, <1>3, <1>4, <1>5, RowsSame, StepPreserves

\* A step that moves a request on, to a pc at which little is asked of it.
LEMMA GoesStep ==
  ASSUME AccountsInv, NEW r \in Requests, NEW pc \in {"mailing", "saved", "filled"},
         Goes(r, pc), req[r].pc \notin {"idle", "checked", "found"},
         pc = "mailing" => req[r].pc = "linked"
  PROVE  /\ req' \in [Requests -> Request]
         /\ Others(r)
         /\ RowsKept => RequestFine(r)'
<1> DEFINE q == [req[r] EXCEPT !.pc = pc]
<1>1. /\ q \in Request /\ q.pc = pc /\ q.account = req[r].account
      /\ q.email = req[r].email /\ q.link = req[r].link
  <2>1. req[r] \in Request /\ pc \in PCs
    BY DEF PCs, AccountsInv, TypeOK
  <2> QED
    BY <2>1, GoesType
<1> HIDE DEF q
<1>2. req' = [req EXCEPT ![r] = q]
  BY DEF Goes, q
<1>3. req'[r] = q /\ req' \in [Requests -> Request] /\ Others(r)
  BY <1>1, <1>2 DEF AccountsInv, TypeOK, Others
<1>4. /\ req[r].account \in Accounts /\ Exists(req[r].account)
      /\ InFlight(r) /\ SignUpInFlight(r)
  BY DEF AccountsInv, InFlight
<1>5. ASSUME RowsKept PROVE RequestFine(r)'
  <2>1. InFlight(r)'
    BY <1>1, <1>3, <1>4, <1>5 DEF InFlight, RowsKept
  <2>2. SignUpInFlight(r)'
    BY <1>1, <1>3, <1>4, <1>5 DEF SignUpInFlight, RowsKept
  <2>3. SaveInFlight(r)'
    BY <1>1, <1>3 DEF SaveInFlight
  <2> QED
    BY <2>1, <2>2, <2>3 DEF RequestFine
<1> QED
  BY <1>3, <1>5

LEMMA ExpireLinkStep ==
  ASSUME AccountsInv, NEW r \in Requests, ExpireLink(r)
  PROVE  AccountsInv'
<1> USE DEF ExpireLink
<1>1. req[r].link \in Links
  BY DEF AccountsInv, InFlight
<1>2. RowsKept
  BY RowsSame
<1>3. req' \in [Requests -> Request] /\ Others(r) /\ RequestFine(r)'
  BY <1>1, <1>2, GoesStep
<1>4. TypeOK' /\ LinksShrink
  BY <1>1, <1>3 DEF AccountsInv, TypeOK, LinksShrink
<1> QED
  BY <1>3, <1>4, QuietStep

LEMMA SendWelcomeStep ==
  ASSUME AccountsInv, NEW r \in Requests, SendWelcome(r)
  PROVE  AccountsInv'
<1> USE DEF SendWelcome
<1>1. req[r].link \in Links /\ req[r].email \in Emails
  BY DEF AccountsInv, InFlight
<1>2. mailed' \subseteq [link : Links, to : Emails]
  BY <1>1 DEF AccountsInv, TypeOK
<1>3. TypeOK' /\ LinksShrink
  BY <1>2, EndsStep DEF AccountsInv, TypeOK, LinksShrink
<1> QED
  BY <1>3, EndsStep, QuietStep

LEMMA VerifyEmailStep ==
  ASSUME AccountsInv, NEW r \in Requests, NEW l \in Links, VerifyEmail(r, l)
  PROVE  AccountsInv'
<1> USE DEF VerifyEmail
<1> DEFINE e == link[l].value
           q == At("found", None, e, l, None)
<1>0. e \in Emails
  BY DEF AccountsInv, TypeOK
<1>1. q \in Request /\ q.pc = "found" /\ q.email = e
  <2> HIDE DEF e
  <2>1. "found" \in PCs
    BY DEF PCs
  <2> QED
    BY <1>0, <2>1, AtType
<1> HIDE DEF q
<1>2. TypeOK' /\ Others(r) /\ LinksShrink /\ req'[r] = q
  BY <1>1 DEF AccountsInv, TypeOK, Others, LinksShrink, q
<1>3. RequestFine(r)'
  BY <1>0, <1>1, <1>2 DEF RequestFine, InFlight, SignUpInFlight, SaveInFlight
<1> QED
  BY <1>2, <1>3, QuietStep

\* The entity that a verifyEmail saves.
LEMMA VerifyEntity ==
  ASSUME AccountsInv, NEW r \in Requests, Verify(r)
  PROVE  \/ Ends(r)
         \/ \E a \in Accounts, x \in Row :
              /\ Exists(a)
              /\ x.verified /\ x.email = row[a].email /\ x.email = req[r].email
              /\ req' = [req EXCEPT ![r] =
                   At("changed", a, req[r].email, req[r].link, x)]
<1>1. CASE Ends(r)
  BY <1>1
<1>2. CASE ~ Ends(r)
  <2>1. PICK a \in Accounts :
          /\ Live(a) /\ row[a].email = req[r].email
          /\ req' = [req EXCEPT ![r] =
               At("changed", a, req[r].email, req[r].link,
                  [row[a] EXCEPT !.verified = TRUE])]
    BY <1>2 DEF Verify
  <2> DEFINE x == [row[a] EXCEPT !.verified = TRUE]
  <2>2. row[a] \in Row
    BY <2>1 DEF Live, Exists, AccountsInv, TypeOK
  <2>3. x \in Row /\ x.verified /\ x.email = row[a].email
    BY <2>2 DEF Row
  <2>4. req' = [req EXCEPT ![r] = At("changed", a, req[r].email, req[r].link, x)]
    BY <2>1
  <2> HIDE DEF x
  <2> QED
    BY <2>1, <2>3, <2>4 DEF Live
<1> QED
  BY <1>1, <1>2

LEMMA VerifyStep ==
  ASSUME AccountsInv, NEW r \in Requests, Verify(r)
  PROVE  AccountsInv'
<1>0. UNCHANGED <<row, link, mailed, clients, cache, strayed, failures>>
  BY DEF Verify
<1>1. LinksShrink
  BY <1>0 DEF LinksShrink
<1>2. CASE Ends(r)
  BY <1>0, <1>1, <1>2, EndsStep, QuietStep DEF AccountsInv, TypeOK
<1>3. ASSUME NEW a \in Accounts, NEW x \in Row, Exists(a), x.verified,
             x.email = row[a].email,
             req' = [req EXCEPT ![r] =
               At("changed", a, req[r].email, req[r].link, x)]
      PROVE  AccountsInv'
  <2> DEFINE q == At("changed", a, req[r].email, req[r].link, x)
  <2>1. /\ q \in Request /\ q.pc = "changed" /\ q.account = a
        /\ q.entity = x
    <3> DEFINE e == req[r].email
               l == req[r].link
    <3>1. /\ "changed" \in PCs /\ e \in Emails \cup {None}
          /\ l \in Links \cup {None}
      BY DEF PCs, AccountsInv, TypeOK, Request
    <3>2. a \in Accounts \cup {None} /\ x \in Row \cup {None}
      OBVIOUS
    <3> HIDE DEF e, l, q
    <3>3. /\ At("changed", a, e, l, x) \in Request
          /\ At("changed", a, e, l, x).pc = "changed"
          /\ At("changed", a, e, l, x).account = a
          /\ At("changed", a, e, l, x).entity = x
      BY <3>1, <3>2 DEF At, Request
    <3> QED
      BY <3>3 DEF e, l, q
  <2>2. req' = [req EXCEPT ![r] = q]
    BY <1>3
  <2> HIDE DEF q
  <2>3. TypeOK' /\ Others(r) /\ req'[r] = q
    BY <1>0, <2>1, <2>2 DEF AccountsInv, TypeOK, Others
  <2>4. RequestFine(r)'
    BY <1>0, <1>3, <2>1, <2>3
       DEF RequestFine, InFlight, SignUpInFlight, SaveInFlight, Exists
  <2> QED
    BY <1>0, <1>1, <2>3, <2>4, QuietStep
<1> QED
  BY <1>2, <1>3, VerifyEntity

\* Only a verified account can sign in.
LEMMA SignInStep ==
  ASSUME AccountsInv, NEW a \in Accounts, SignIn(a)
  PROVE  AccountsInv'
<1>1. UNCHANGED <<row, link, mailed, cache, req, strayed, failures>>
  BY DEF SignIn
<1>2. clients' \subseteq Accounts /\ ClientsVerified'
  BY DEF SignIn, Live, AccountsInv, TypeOK, ClientsVerified, Exists
<1>3. TypeOK'
  BY <1>1, <1>2 DEF AccountsInv, TypeOK
<1>4. OneAccountPerAddress' /\ LinksOfAccounts'
  BY <1>1 DEF AccountsInv, OneAccountPerAddress, LinksOfAccounts, Exists
<1>5. \A r \in Requests : (InFlight(r) /\ SignUpInFlight(r) /\ SaveInFlight(r))'
  BY <1>1 DEF AccountsInv, InFlight, SignUpInFlight, SaveInFlight, Exists
<1> QED
  BY <1>2, <1>3, <1>4, <1>5 DEF AccountsInv

\* The entity of a client's profile change keeps address and verification.
LEMMA UpdateUserEntity ==
  ASSUME AccountsInv, NEW r \in Requests, NEW a \in Accounts,
         NEW asked \in SUBSET {"name", "password"},
         NEW n \in Names, NEW p \in Passwords, UpdateUser(r, a, asked, n, p)
  PROVE  \E x \in Row :
           /\ Exists(a) /\ x.email = row[a].email
           /\ a \notin strayed => row[a].verified /\ x.verified
           /\ req' = [req EXCEPT ![r] = At("changed", a, None, None, x)]
<1> DEFINE x == Merge(row[a], [name |-> n, password |-> p], asked)
<1>1. row[a] \in Row /\ Exists(a)
  BY DEF UpdateUser, Live, Exists, AccountsInv, TypeOK
<1>2. x \in Row /\ x.email = row[a].email /\ x.verified = row[a].verified
  BY <1>1 DEF Merge, Row
<1>3. a \notin strayed => row[a].verified
  BY DEF UpdateUser, AccountsInv, ClientsVerified
<1>4. req' = [req EXCEPT ![r] = At("changed", a, None, None, x)]
  BY DEF UpdateUser
<1> HIDE DEF x
<1> QED
  BY <1>1, <1>2, <1>3, <1>4

LEMMA UpdateUserStep ==
  ASSUME AccountsInv, NEW r \in Requests, NEW a \in Accounts,
         NEW asked \in SUBSET {"name", "password"},
         NEW n \in Names, NEW p \in Passwords, UpdateUser(r, a, asked, n, p)
  PROVE  AccountsInv'
<1>0. UNCHANGED <<row, link, mailed, clients, cache, strayed, failures>>
  BY DEF UpdateUser
<1>1. PICK x \in Row :
        /\ Exists(a) /\ x.email = row[a].email
        /\ a \notin strayed => x.verified
        /\ req' = [req EXCEPT ![r] = At("changed", a, None, None, x)]
  BY UpdateUserEntity
<1> DEFINE q == At("changed", a, None, None, x)
<1>2. /\ q \in Request /\ q.pc = "changed" /\ q.account = a
      /\ q.entity = x
  <2>1. "changed" \in PCs
    BY DEF PCs
  <2> QED
    BY <2>1, AtType
<1>3. req' = [req EXCEPT ![r] = q]
  BY <1>1
<1> HIDE DEF q
<1>4. TypeOK' /\ Others(r) /\ req'[r] = q
  BY <1>0, <1>2, <1>3 DEF AccountsInv, TypeOK, Others
<1>5. RequestFine(r)'
  BY <1>0, <1>1, <1>2, <1>4
     DEF RequestFine, InFlight, SignUpInFlight, SaveInFlight, Exists
<1>6. LinksShrink
  BY <1>0 DEF LinksShrink
<1> QED
  BY <1>0, <1>4, <1>5, <1>6, QuietStep

LEMMA LoadRowStep ==
  ASSUME AccountsInv, NEW r \in Requests, LoadRow(r)
  PROVE  AccountsInv'
<1> DEFINE d == {c \in Columns : req[r].entity[c] # row[req[r].account][c]}
           q == [req[r] EXCEPT !.pc = "diffed", !.diff = d]
<1>1. req[r] \in Request /\ "diffed" \in PCs /\ d \in SUBSET Columns
  BY DEF AccountsInv, TypeOK, PCs
<1>2. /\ q \in Request /\ q.pc = "diffed" /\ q.account = req[r].account
      /\ q.entity = req[r].entity
  <2> HIDE DEF d
  <2> QED
    BY <1>1 DEF Request
<1>3. req' = [req EXCEPT ![r] = q] /\ req[r].pc = "changed"
  BY DEF LoadRow
<1>4. UNCHANGED <<row, link, mailed, clients, cache, strayed, failures>>
  BY DEF LoadRow
<1> HIDE DEF q, d
<1>5. TypeOK' /\ Others(r) /\ req'[r] = q /\ LinksShrink
  BY <1>2, <1>3, <1>4 DEF AccountsInv, TypeOK, Others, LinksShrink
<1>6. RequestFine(r)'
  BY <1>2, <1>3, <1>4, <1>5
     DEF RequestFine, InFlight, SignUpInFlight, SaveInFlight, AccountsInv, Exists
<1> QED
  BY <1>4, <1>5, <1>6, QuietStep

\* What save() leaves in the table when it is not refused: an entity that is
\* verified leaves the row verified.
LEMMA UpdateRowRow ==
  ASSUME AccountsInv, NEW r \in Requests, UpdateRow(r)
  PROVE  \/ Ends(r) /\ UNCHANGED row
         \/ \E a \in Accounts, new \in Row :
              /\ a = req[r].account /\ Exists(a)
              /\ row' = [row EXCEPT ![a] = new]
              /\ ~ Taken(a, new.email)
              /\ a \notin strayed =>
                   /\ new.email = row[a].email
                   /\ row[a].verified => new.verified
              /\ Goes(r, "saved")
<1> DEFINE a == req[r].account
           x == req[r].entity
           new == Merge(row[a], x, req[r].diff)
<1>1. /\ a \in Accounts /\ Exists(a) /\ x \in Row
      /\ a \notin strayed => x.verified /\ x.email = row[a].email
  BY DEF UpdateRow, AccountsInv, InFlight, SaveInFlight
<1>2. row[a] \in Row
  BY <1>1 DEF Exists, AccountsInv, TypeOK
<1>3. new \in Row
  BY <1>1, <1>2, MergeType
<1>4. a \notin strayed => /\ new.email = row[a].email
                          /\ row[a].verified => new.verified
  BY <1>1 DEF Merge
<1>5. IF Taken(a, new.email)
      THEN Ends(r) /\ UNCHANGED row
      ELSE row' = [row EXCEPT ![a] = new] /\ Goes(r, "saved")
  BY DEF UpdateRow
<1> HIDE DEF new
<1> QED
  BY <1>1, <1>3, <1>4, <1>5

LEMMA UpdateRowStep ==
  ASSUME AccountsInv, NEW r \in Requests, UpdateRow(r)
  PROVE  AccountsInv' /\ RowsKept
<1>1. /\ UNCHANGED <<link, mailed, clients, cache, strayed, failures>>
      /\ req[r].pc = "diffed"
  BY DEF UpdateRow
<1>2. LinksShrink
  BY <1>1 DEF LinksShrink
<1>3. CASE Ends(r) /\ UNCHANGED row
  BY <1>1, <1>2, <1>3, EndsStep, QuietStep, RowsSame DEF AccountsInv, TypeOK
<1>4. ASSUME NEW a \in Accounts, NEW new \in Row,
             row' = [row EXCEPT ![a] = new], ~ Taken(a, new.email),
             a \notin strayed => /\ new.email = row[a].email
                                 /\ row[a].verified => new.verified,
             Goes(r, "saved")
      PROVE  AccountsInv' /\ RowsKept
  <2>1. /\ RowsKept /\ OneAccountPerAddress'
        /\ row' \in [Accounts -> Row \cup {None}]
    BY <1>1, <1>4, RowWritten
  <2>2. req' \in [Requests -> Request] /\ Others(r) /\ RequestFine(r)'
    BY <1>1, <1>4, <2>1, GoesStep
  <2>3. TypeOK'
    BY <1>1, <2>1, <2>2 DEF AccountsInv, TypeOK
  <2> QED
    BY <1>1, <1>2, <2>1, <2>2, <2>3, LinksKept, StepPreserves
<1> QED
  BY <1>3, <1>4, UpdateRowRow

LEMMA DeleteKeyStep ==
  ASSUME AccountsInv, NEW r \in Requests, DeleteKey(r)
  PROVE  AccountsInv'
<1> USE DEF DeleteKey
<1>1. /\ NoKey \in [value : Emails \cup {None}, expires : BOOLEAN]
      /\ NoKey \in [value : Row \cup {None}, expires : BOOLEAN]
      /\ NoKey.value = None
  BY DEF NoKey
<1>2. /\ link' \in [Links -> [value : Emails \cup {None}, expires : BOOLEAN]]
      /\ cache' \in [Accounts -> [value : Row \cup {None}, expires : BOOLEAN]]
  BY <1>1 DEF AccountsInv, TypeOK
<1>3. TypeOK' /\ LinksShrink
  BY <1>1, <1>2, EndsStep DEF AccountsInv, TypeOK, LinksShrink
<1> QED
  BY <1>3, EndsStep, QuietStep

LEMMA GetUserStep ==
  ASSUME AccountsInv, NEW r \in Requests, NEW a \in Accounts, GetUser(r, a)
  PROVE  AccountsInv'
<1> USE DEF GetUser
<1> DEFINE q == At("missed", a, None, None, None)
<1>1. q \in Request /\ q.pc = "missed" /\ q.account = a
  <2>1. "missed" \in PCs
    BY DEF PCs
  <2> QED
    BY <2>1, AtType
<1> HIDE DEF q
<1>2. TypeOK' /\ Others(r) /\ LinksShrink /\ req'[r] = q
  BY <1>1 DEF AccountsInv, TypeOK, Others, LinksShrink, q
<1>3. RequestFine(r)'
  BY <1>1, <1>2 DEF RequestFine, InFlight, SignUpInFlight, SaveInFlight, Exists
<1> QED
  BY <1>2, <1>3, QuietStep

LEMMA ReadUserStep ==
  ASSUME AccountsInv, NEW r \in Requests, ReadUser(r)
  PROVE  AccountsInv'
<1> DEFINE a == req[r].account
           q == At("read", a, None, None, row[a])
<1>0. /\ UNCHANGED <<row, link, mailed, clients, cache, strayed, failures>>
      /\ IF Live(a) THEN req' = [req EXCEPT ![r] = q] ELSE Ends(r)
  BY DEF ReadUser
<1>1. LinksShrink
  BY <1>0 DEF LinksShrink
<1>2. CASE ~ Live(a)
  BY <1>0, <1>1, <1>2, EndsStep, QuietStep DEF AccountsInv, TypeOK
<1>3. CASE Live(a)
  <2>1. a \in Accounts /\ Exists(a) /\ row[a] \in Row
    BY DEF ReadUser, AccountsInv, InFlight, TypeOK, Exists
  <2>2. q \in Request /\ q.pc = "read" /\ q.account = a /\ q.entity = row[a]
    <3>1. "read" \in PCs
      BY DEF PCs
    <3> HIDE DEF a
    <3> QED
      BY <2>1, <3>1, AtType
  <2>3. req' = [req EXCEPT ![r] = q]
    BY <1>0, <1>3
  <2> HIDE DEF q
  <2>4. TypeOK' /\ Others(r) /\ req'[r] = q
    BY <1>0, <2>2, <2>3 DEF AccountsInv, TypeOK, Others
  <2>5. RequestFine(r)'
    BY <1>0, <2>1, <2>2, <2>4
       DEF RequestFine, InFlight, SignUpInFlight, SaveInFlight, Exists
  <2> QED
    BY <1>0, <1>1, <2>4, <2>5, QuietStep
<1> QED
  BY <1>2, <1>3

LEMMA FillCacheStep ==
  ASSUME AccountsInv, NEW r \in Requests, FillCache(r)
  PROVE  AccountsInv'
<1> USE DEF FillCache
<1>1. RowsKept
  BY RowsSame
<1>2. req[r].account \in Accounts /\ req[r].entity \in Row
  BY DEF AccountsInv, InFlight
<1>3. req' \in [Requests -> Request] /\ Others(r) /\ RequestFine(r)'
  BY <1>1, GoesStep
<1>4. TypeOK' /\ LinksShrink
  BY <1>2, <1>3 DEF AccountsInv, TypeOK, LinksShrink
<1> QED
  BY <1>3, <1>4, QuietStep

LEMMA ExpireCachedStep ==
  ASSUME AccountsInv, NEW r \in Requests, ExpireCached(r)
  PROVE  AccountsInv'
<1> USE DEF ExpireCached
<1>1. TypeOK' /\ LinksShrink
  BY EndsStep DEF AccountsInv, TypeOK, LinksShrink
<1> QED
  BY <1>1, EndsStep, QuietStep

\* The steps of nobody's request.
LEMMA NobodysStep ==
  ASSUME AccountsInv, UNCHANGED <<row, clients, req, strayed>>, TypeOK',
         LinksShrink
  PROVE  AccountsInv'
<1>1. OneAccountPerAddress' /\ LinksOfAccounts'
  BY RowsSame, LinksKept
<1>2. \A r \in Requests : (InFlight(r) /\ SignUpInFlight(r) /\ SaveInFlight(r))'
  BY DEF AccountsInv, InFlight, SignUpInFlight, SaveInFlight, Exists
<1>3. ClientsVerified'
  BY DEF AccountsInv, ClientsVerified, Exists
<1> QED
  BY <1>1, <1>2, <1>3 DEF AccountsInv

LEMMA LinkGoneStep ==
  ASSUME AccountsInv, NEW l \in Links, LinkGone(l)
  PROVE  AccountsInv'
<1>1. TypeOK' /\ LinksShrink
  BY DEF LinkGone, NoKey, AccountsInv, TypeOK, LinksShrink
<1> QED
  BY <1>1, NobodysStep DEF LinkGone

LEMMA CachedGoneStep ==
  ASSUME AccountsInv, NEW a \in Accounts, CachedGone(a)
  PROVE  AccountsInv'
<1>1. TypeOK' /\ LinksShrink
  BY DEF CachedGone, NoKey, AccountsInv, TypeOK, LinksShrink
<1> QED
  BY <1>1, NobodysStep DEF CachedGone

\* The requests that die.
LEMMA FailStep ==
  ASSUME AccountsInv, NEW r \in Requests, Fail(r)
  PROVE  AccountsInv'
<1>1. TypeOK' /\ LinksShrink
  BY EndsStep, Switches DEF Fail, AccountsInv, TypeOK, LinksShrink
<1> QED
  BY <1>1, EndsStep, QuietStep DEF Fail

\* The first part of the inductive invariant is one by itself.
LEMMA AccountsStep ==
  ASSUME AccountsInv, [Next]_vars
  PROVE  AccountsInv'
<1>0. Next \/ UNCHANGED vars
  OBVIOUS
<1>1. CASE UNCHANGED vars
  <2>1. TypeOK' /\ LinksShrink
    BY <1>1 DEF vars, AccountsInv, TypeOK, LinksShrink
  <2> QED
    BY <1>1, <2>1, NobodysStep DEF vars
<1>2. ASSUME NEW r \in Requests, Step(r) PROVE AccountsInv'
  BY <1>2, CreateUserStep, StoreLinkStep, ExpireLinkStep,
     SendWelcomeStep, VerifyStep, LoadRowStep, UpdateRowStep, DeleteKeyStep,
     ReadUserStep, FillCacheStep, ExpireCachedStep DEF Step
<1>3. ASSUME NEW r \in Requests, NEW a \in Accounts,
             NEW asked \in SUBSET {"name", "password"},
             NEW n \in Names, NEW p \in Passwords,
             UpdateUser(r, a, asked, n, p)
      PROVE  AccountsInv'
  BY <1>3, UpdateUserStep
<1>4. ASSUME NEW r \in Requests, NEW e \in Emails, NEW a \in Accounts,
             SignUp(r, e, a)
      PROVE  AccountsInv'
  BY <1>4, SignUpStep
<1>5. ASSUME NEW r \in Requests, NEW l \in Links, VerifyEmail(r, l)
      PROVE  AccountsInv'
  BY <1>5, VerifyEmailStep
<1>6. ASSUME NEW a \in Accounts, SignIn(a) PROVE AccountsInv'
  BY <1>6, SignInStep
<1>7. ASSUME NEW r \in Requests, Fail(r) PROVE AccountsInv'
  BY <1>7, FailStep
<1>8. ASSUME NEW l \in Links, LinkGone(l) PROVE AccountsInv'
  BY <1>8, LinkGoneStep
<1>9. ASSUME NEW a \in Accounts, CachedGone(a) PROVE AccountsInv'
  BY <1>9, CachedGoneStep
<1>10. ASSUME NEW r \in Requests, NEW a \in Accounts, GetUser(r, a)
       PROVE  AccountsInv'
  BY <1>10, GetUserStep
<1> QED
  BY <1>0, <1>1, <1>2, <1>3, <1>4, <1>5, <1>6, <1>7, <1>8, <1>9, <1>10 DEF Next

-----------------------------------------------------------------------------
\* The mails

\* What a record of a request may be after a step that is not about mails.
Proven(q) ==
  /\ q.pc \notin Mailing
  /\ q.pc = "found" => ByMail(q.email)
  /\ q.pc \in {"changed", "diffed"} /\ q.account \notin strayed
       => ByMail(q.entity.email)

NoMail(q) == req'[q] = req[q] \/ Proven(req'[q])

\* Links are at most deleted, and no account becomes verified but by a mail.
MailsUntouched ==
  /\ UNCHANGED mailed
  /\ strayed \subseteq strayed'
  /\ \A l \in Links : link'[l] \in {link[l], NoKey}
  /\ \A a \in Accounts \ strayed' :
       (Exists(a) /\ row[a].verified)' => ByMail(row'[a].email)

LEMMA MailsKept ==
  ASSUME AccountsInv, MailsInv, MailsUntouched, AccountsInv',
         \A q \in Requests : NoMail(q)
  PROVE  MailsInv'
<1>1. \A l \in Links :
        /\ link'[l].value \in {link[l].value, None}
        /\ link'[l].value = None \/ link'[l] = link[l]
  BY DEF MailsUntouched, NoKey
<1>2. mailed' = mailed /\ mailed \subseteq [link : Links, to : Emails]
  BY DEF MailsUntouched, AccountsInv, TypeOK
<1>3. MailedLinks' = MailedLinks /\ \A e : ByMail(e)' <=> ByMail(e)
  BY <1>2 DEF MailedLinks, ByMail
<1>4. ASSUME NEW q \in Requests PROVE LinkInFlight(q)'
  <2> SUFFICES ASSUME req'[q].pc \in Mailing PROVE LinkInFlight(q)'
    BY DEF LinkInFlight
  <2>1. req'[q] = req[q]
    BY DEF NoMail, Proven
  <2>2. req[q].link \in Links
    BY <2>1 DEF AccountsInv, InFlight, Mailing
  <2>3. \A p \in Requests : req'[p].pc \in Mailing => req'[p] = req[p]
    BY DEF NoMail, Proven
  <2>4. LinkInFlight(q)
    BY DEF MailsInv
  <2> QED
    BY <1>1, <1>3, <2>1, <2>2, <2>3, <2>4 DEF LinkInFlight
<1>5. ASSUME NEW q \in Requests PROVE VerificationInFlight(q)'
  <2>1. VerificationInFlight(q) /\ strayed \subseteq strayed' /\ NoMail(q)
    BY DEF MailsInv, MailsUntouched
  <2> QED
    BY <1>3, <2>1 DEF NoMail, Proven, VerificationInFlight
<1>6. (MailedLinksExpire /\ LinksAsMailed)'
  BY <1>1, <1>2 DEF MailsInv, MailedLinksExpire, LinksAsMailed
<1>7. VerifiedByMail'
  BY <1>3 DEF VerifiedByMail, MailsUntouched
<1> QED
  BY <1>4, <1>5, <1>6, <1>7 DEF MailsInv

\* The same for a step that leaves all rows as they are.
LEMMA RowsAsTheyWere ==
  ASSUME MailsInv, UNCHANGED <<row, mailed>>, strayed \subseteq strayed',
         \A l \in Links : link'[l] \in {link[l], NoKey}
  PROVE  MailsUntouched
BY DEF MailsUntouched, MailsInv, VerifiedByMail, Exists

\* A request that is new, moves on or ends, by what its record is afterwards.
LEMMA RecordsNoMail ==
  ASSUME AccountsInv, NEW r \in Requests, NEW new, req' = [req EXCEPT ![r] = new],
         Proven(new)
  PROVE  \A q \in Requests : NoMail(q)
BY DEF NoMail, AccountsInv, TypeOK

\* Where a request is neither mailing nor verifying, nothing is asked of it.
LEMMA ProvenElsewhere ==
  ASSUME NEW q, q.pc \notin {"linked", "mailing", "found", "changed", "diffed"}
  PROVE  Proven(q)
BY DEF Proven, Mailing

LEMMA EndsNoMail ==
  ASSUME AccountsInv, NEW r \in Requests, Ends(r)
  PROVE  \A q \in Requests : NoMail(q)
<1>1. Proven(Idle)
  BY IdleType, ProvenElsewhere
<1> QED
  BY <1>1, RecordsNoMail DEF Ends

LEMMA GoesNoMail ==
  ASSUME AccountsInv, NEW r \in Requests, NEW pc \in {"created", "saved", "filled"},
         Goes(r, pc)
  PROVE  \A q \in Requests : NoMail(q)
<1> DEFINE new == [req[r] EXCEPT !.pc = pc]
<1>1. req[r] \in Request /\ pc \in PCs
  BY DEF AccountsInv, TypeOK, PCs
<1>2. new.pc = pc
  BY <1>1, GoesType
<1>3. req' = [req EXCEPT ![r] = new]
  BY DEF Goes
<1> HIDE DEF new
<1>4. Proven(new)
  BY <1>2, ProvenElsewhere
<1> QED
  BY <1>3, <1>4, RecordsNoMail

\* sign-up: an account that is new is verified only if the switch says so.
LEMMA CreateUserMails ==
  ASSUME AccountsInv, MailsInv, NEW r \in Requests, NEW n \in Names,
         NEW p \in Passwords, NEW d \in Deletions, CreateUser(r, n, p, d),
         AccountsInv'
  PROVE  MailsInv'
<1>1. UNCHANGED <<link, mailed, strayed>>
  BY DEF CreateUser
<1>2. CASE Ends(r) /\ UNCHANGED row
  BY <1>1, <1>2, EndsNoMail, RowsAsTheyWere, MailsKept
<1>3. ASSUME NEW a \in Accounts, NEW new \in Row,
             row' = [row EXCEPT ![a] = new],
             a \notin strayed => new.verified = AutoVerify, Goes(r, "created")
      PROVE  MailsInv'
  <2>1. row'[a] = new /\ \A b \in Accounts \ {a} : row'[b] = row[b]
    BY <1>3 DEF AccountsInv, TypeOK
  <2>2. MailsUntouched
    BY <1>1, <1>3, <2>1
       DEF MailsUntouched, MailsInv, VerifiedByMail, ByMail, Exists
  <2> QED
    BY <1>3, <2>2, GoesNoMail, MailsKept
<1> QED
  BY <1>2, <1>3, CreateUserRow

\* A fresh link is in no mailbox and no other request has it.
LEMMA StoreLinkMails ==
  ASSUME AccountsInv, MailsInv, NEW r \in Requests, NEW l \in Links,
         StoreLink(r, l)
  PROVE  MailsInv'
<1> USE DEF StoreLink
<1> DEFINE new == At("linked", req[r].account, req[r].email, l, None)
<1>1. new.pc = "linked" /\ new.email = req[r].email /\ new.link = l
  BY DEF At
<1> HIDE DEF new
<1>2. /\ req'[r] = new /\ Others(r)
      /\ \A k \in Links \ {l} : link'[k] = link[k]
      /\ link'[l].value = req[r].email
  BY DEF new, Others, AccountsInv, TypeOK
<1>3. mailed' = mailed /\ mailed \subseteq [link : Links, to : Emails]
  BY DEF AccountsInv, TypeOK
<1>4. MailedLinks' = MailedLinks /\ \A e : ByMail(e)' <=> ByMail(e)
  BY <1>3 DEF MailedLinks, ByMail
<1>5. ASSUME NEW q \in Requests PROVE LinkInFlight(q)'
  <2>1. CASE q = r
    BY <1>1, <1>2, <1>4, <2>1 DEF LinkInFlight, Others
  <2>2. CASE q # r /\ req[q].pc \in Mailing
    <3>1. /\ req'[q] = req[q] /\ req[q].link \in Links /\ req[q].link # l
          /\ LinkInFlight(q)
      BY <1>2, <2>2 DEF Others, AccountsInv, InFlight, Mailing, MailsInv
    <3> QED
      BY <1>1, <1>2, <1>4, <2>2, <3>1 DEF LinkInFlight, Others
  <2> QED
    BY <1>2, <2>1, <2>2 DEF LinkInFlight, Others
<1>6. \A q \in Requests : VerificationInFlight(q)'
  BY <1>1, <1>2, <1>4 DEF MailsInv, VerificationInFlight, Others
<1>7. \A m \in mailed : m.link \in Links /\ m.link # l
  BY <1>3 DEF MailedLinks
<1>8. (MailedLinksExpire /\ LinksAsMailed)'
  BY <1>2, <1>3, <1>7 DEF MailsInv, MailedLinksExpire, LinksAsMailed
<1>9. VerifiedByMail'
  BY <1>4 DEF MailsInv, VerifiedByMail, Exists
<1> QED
  BY <1>5, <1>6, <1>8, <1>9 DEF MailsInv

\* EXPIRE comes before the mail.
LEMMA ExpireLinkMails ==
  ASSUME AccountsInv, MailsInv, NEW r \in Requests, ExpireLink(r)
  PROVE  MailsInv'
<1> USE DEF ExpireLink
<1>1. req[r] \in Request /\ req[r].link \in Links /\ "mailing" \in PCs
  BY DEF AccountsInv, TypeOK, InFlight, PCs
<1>2. /\ req'[r].pc = "mailing" /\ Others(r)
      /\ \A q \in Requests : req'[q].link = req[q].link
                              /\ req'[q].email = req[q].email
  BY <1>1, GoesType DEF Goes, Others, AccountsInv, TypeOK
<1>3. /\ \A l \in Links : /\ link'[l].value = link[l].value
                          /\ link[l].expires => link'[l].expires
      /\ link'[req[r].link].expires
  BY <1>1 DEF AccountsInv, TypeOK
<1>4. mailed' = mailed /\ mailed \subseteq [link : Links, to : Emails]
  BY DEF AccountsInv, TypeOK
<1>5. MailedLinks' = MailedLinks /\ \A e : ByMail(e)' <=> ByMail(e)
  BY <1>4 DEF MailedLinks, ByMail
<1>6. ASSUME NEW q \in Requests PROVE LinkInFlight(q)'
  <2>1. \A p \in Requests : req'[p].pc \in Mailing => req[p].pc \in Mailing
    BY <1>2 DEF Others, Mailing
  <2> SUFFICES ASSUME req'[q].pc \in Mailing PROVE LinkInFlight(q)'
    BY DEF LinkInFlight
  <2>2. LinkInFlight(q) /\ req[q].pc \in Mailing /\ req[q].link \in Links
    BY <2>1 DEF MailsInv, AccountsInv, InFlight, Mailing
  <2>3. req'[q].pc = "mailing" =>
          link'[req[q].link].value = None \/ link'[req[q].link].expires
    BY <1>2, <1>3, <2>2 DEF LinkInFlight, Others
  <2> QED
    BY <1>2, <1>3, <1>5, <2>1, <2>2, <2>3 DEF LinkInFlight
<1>7. \A q \in Requests : VerificationInFlight(q)'
  BY <1>2, <1>5 DEF MailsInv, VerificationInFlight, Others
<1>8. (MailedLinksExpire /\ LinksAsMailed)'
  BY <1>3, <1>4 DEF MailsInv, MailedLinksExpire, LinksAsMailed
<1>9. VerifiedByMail'
  BY <1>5 DEF MailsInv, VerifiedByMail, Exists
<1> QED
  BY <1>6, <1>7, <1>8, <1>9 DEF MailsInv

\* The mail: from here on the link verifies the address it was sent to.
LEMMA SendWelcomeMails ==
  ASSUME AccountsInv, MailsInv, NEW r \in Requests, SendWelcome(r)
  PROVE  MailsInv'
<1> USE DEF SendWelcome
<1> DEFINE l == req[r].link
           m == [link |-> l, to |-> req[r].email]
<1>1. /\ l \in Links /\ req[r].email \in Emails /\ LinkInFlight(r)
      /\ req[r].pc \in Mailing
  BY DEF AccountsInv, InFlight, MailsInv, Mailing
<1>2. req'[r] = Idle /\ Others(r)
  BY DEF Ends, Others, AccountsInv, TypeOK
<1>3. MailedLinks' = MailedLinks \cup {l}
  <2>1. mailed' = mailed \cup {m} /\ m.link = l
    OBVIOUS
  <2> HIDE DEF m, l
  <2> QED
    BY <2>1 DEF MailedLinks
<1>4. \A e : ByMail(e) => ByMail(e)'
  BY DEF ByMail
<1>5. ASSUME NEW q \in Requests PROVE LinkInFlight(q)'
  <2> SUFFICES ASSUME req'[q].pc \in Mailing PROVE LinkInFlight(q)'
    BY DEF LinkInFlight
  <2>1. q # r /\ req'[q] = req[q] /\ LinkInFlight(q)
    BY <1>2, IdleType DEF Mailing, Others, MailsInv
  <2>2. req[q].link # l
    BY <1>1, <2>1 DEF LinkInFlight
  <2>3. \A p \in Requests : req'[p].pc \in Mailing => req'[p] = req[p]
    BY <1>2, IdleType DEF Mailing, Others
  <2> QED
    BY <1>3, <2>1, <2>2, <2>3 DEF LinkInFlight
<1>6. \A q \in Requests : VerificationInFlight(q)'
  BY <1>2, <1>4, IdleType DEF MailsInv, VerificationInFlight, Others
<1>7. (MailedLinksExpire /\ LinksAsMailed)'
  BY <1>1 DEF MailsInv, MailedLinksExpire, LinksAsMailed, LinkInFlight
<1>8. VerifiedByMail'
  BY <1>4 DEF MailsInv, VerifiedByMail, Exists
<1> QED
  BY <1>5, <1>6, <1>7, <1>8 DEF MailsInv

LEMMA VerifyEmailMails ==
  ASSUME AccountsInv, MailsInv, NEW r \in Requests, NEW l \in Links,
         VerifyEmail(r, l), AccountsInv'
  PROVE  MailsInv'
<1> USE DEF VerifyEmail
<1> DEFINE e == link[l].value
           new == At("found", None, e, l, None)
<1>1. ByMail(e)
  BY DEF MailsInv, LinksAsMailed, MailedLinks, ByMail, AccountsInv, TypeOK
<1>2. new.pc = "found" /\ new.email = e
  BY DEF At
<1> HIDE DEF new
<1>3. req' = [req EXCEPT ![r] = new]
  BY DEF new
<1>4. Proven(new)
  BY <1>1, <1>2 DEF Proven, Mailing
<1> QED
  BY <1>3, <1>4, RecordsNoMail, RowsAsTheyWere, MailsKept

\* verifyEmail reads the account of the address that the mail was sent to.
LEMMA VerifyMails ==
  ASSUME AccountsInv, MailsInv, NEW r \in Requests, Verify(r), AccountsInv'
  PROVE  MailsInv'
<1>1. UNCHANGED <<row, link, mailed, strayed>> /\ req[r].pc = "found"
  BY DEF Verify
<1>2. MailsUntouched
  BY <1>1, RowsAsTheyWere
<1>3. CASE Ends(r)
  BY <1>2, <1>3, EndsNoMail, MailsKept
<1>4. ASSUME NEW a \in Accounts, NEW x \in Row, x.email = req[r].email,
             req' = [req EXCEPT ![r] =
               At("changed", a, req[r].email, req[r].link, x)]
      PROVE  MailsInv'
  <2> DEFINE new == At("changed", a, req[r].email, req[r].link, x)
  <2>1. ByMail(x.email)
    BY <1>1, <1>4 DEF MailsInv, VerificationInFlight
  <2>2. new.pc = "changed" /\ new.entity = x
    BY DEF At
  <2>3. req' = [req EXCEPT ![r] = new]
    BY <1>4
  <2> HIDE DEF new
  <2>4. Proven(new)
    BY <2>1, <2>2 DEF Proven, Mailing
  <2> QED
    BY <1>2, <2>3, <2>4, RecordsNoMail, MailsKept
<1> QED
  BY <1>3, <1>4, VerifyEntity

\* A client is verified, so his save in flight is no news.
LEMMA UpdateUserMails ==
  ASSUME AccountsInv, MailsInv, NEW r \in Requests, NEW a \in Accounts,
         NEW asked \in SUBSET {"name", "password"},
         NEW n \in Names, NEW p \in Passwords, UpdateUser(r, a, asked, n, p),
         AccountsInv'
  PROVE  MailsInv'
<1>1. UNCHANGED <<row, link, mailed, strayed>>
  BY DEF UpdateUser
<1>2. PICK x \in Row :
        /\ Exists(a) /\ x.email = row[a].email
        /\ a \notin strayed => row[a].verified
        /\ req' = [req EXCEPT ![r] = At("changed", a, None, None, x)]
  BY UpdateUserEntity
<1> DEFINE new == At("changed", a, None, None, x)
<1>3. a \notin strayed => ByMail(x.email)
  BY <1>2 DEF MailsInv, VerifiedByMail
<1>4. new.pc = "changed" /\ new.account = a /\ new.entity = x
  BY DEF At
<1>5. req' = [req EXCEPT ![r] = new]
  BY <1>2
<1> HIDE DEF new
<1>6. Proven(new)
  BY <1>3, <1>4 DEF Proven, Mailing
<1> QED
  BY <1>1, <1>5, <1>6, RecordsNoMail, RowsAsTheyWere, MailsKept

LEMMA LoadRowMails ==
  ASSUME AccountsInv, MailsInv, NEW r \in Requests, LoadRow(r), AccountsInv'
  PROVE  MailsInv'
<1> DEFINE new == [req[r] EXCEPT !.pc = "diffed",
       !.diff = {c \in Columns : req[r].entity[c] # row[req[r].account][c]}]
<1>1. /\ UNCHANGED <<row, link, mailed, strayed>>
      /\ req' = [req EXCEPT ![r] = new]
      /\ req[r].pc = "changed"
  BY DEF LoadRow
<1>2. req[r].account \notin strayed => ByMail(req[r].entity.email)
  BY <1>1 DEF MailsInv, VerificationInFlight
<1>3. /\ new.pc = "diffed" /\ new.account = req[r].account
      /\ new.entity = req[r].entity
  BY DEF AccountsInv, TypeOK, Request
<1> HIDE DEF new
<1>4. Proven(new)
  BY <1>2, <1>3 DEF Proven, Mailing
<1> QED
  BY <1>1, <1>4, RecordsNoMail, RowsAsTheyWere, MailsKept

\* The row that is written is verified because a mail was followed.
LEMMA UpdateRowMails ==
  ASSUME AccountsInv, MailsInv, NEW r \in Requests, UpdateRow(r), AccountsInv'
  PROVE  MailsInv'
<1>1. UNCHANGED <<link, mailed, strayed>> /\ req[r].pc = "diffed"
  BY DEF UpdateRow
<1>2. CASE Ends(r) /\ UNCHANGED row
  BY <1>1, <1>2, EndsNoMail, RowsAsTheyWere, MailsKept
<1>3. ASSUME NEW a \in Accounts, NEW new \in Row, a = req[r].account, Exists(a),
             row' = [row EXCEPT ![a] = new],
             a \notin strayed => new.email = row[a].email, Goes(r, "saved")
      PROVE  MailsInv'
  <2>1. a \notin strayed => ByMail(new.email)
    BY <1>1, <1>3 DEF MailsInv, VerificationInFlight, AccountsInv, SaveInFlight
  <2>2. row'[a] = new /\ \A b \in Accounts \ {a} : row'[b] = row[b]
    BY <1>3 DEF AccountsInv, TypeOK
  <2>3. MailsUntouched
    BY <1>1, <2>1, <2>2 DEF MailsUntouched, MailsInv, VerifiedByMail, Exists
  <2> QED
    BY <1>3, <2>3, GoesNoMail, MailsKept
<1> QED
  BY <1>2, <1>3, UpdateRowRow

LEMMA DeleteKeyMails ==
  ASSUME AccountsInv, MailsInv, NEW r \in Requests, DeleteKey(r), AccountsInv'
  PROVE  MailsInv'
<1> USE DEF DeleteKey
<1>1. \A l \in Links : link'[l] \in {link[l], NoKey}
  BY DEF AccountsInv, TypeOK
<1> QED
  BY <1>1, EndsNoMail, RowsAsTheyWere, MailsKept

\* The requests that have no part in mails.
LEMMA OtherMails ==
  ASSUME AccountsInv, MailsInv, NEW r \in Requests, AccountsInv',
         \/ \E a \in Accounts :
              GetUser(r, a) \/ \E e \in Emails : SignUp(r, e, a)
         \/ ReadUser(r) \/ FillCache(r) \/ ExpireCached(r) \/ Fail(r)
  PROVE  MailsInv'
<1>1. UNCHANGED <<row, link, mailed>> /\ strayed \subseteq strayed'
  BY DEF SignUp, GetUser, ReadUser, FillCache, ExpireCached, Fail
<1>2. \A q \in Requests : NoMail(q)
  <2>1. ASSUME NEW e \in Emails, NEW a \in Accounts, SignUp(r, e, a)
        PROVE  \A q \in Requests : NoMail(q)
    <3> DEFINE new == At("checked", a, e, None, row[a])
    <3>1. new.pc = "checked" /\ req' = [req EXCEPT ![r] = new]
      BY <2>1 DEF At, SignUp
    <3> HIDE DEF new
    <3> QED
      BY <3>1, ProvenElsewhere, RecordsNoMail
  <2>2. ASSUME NEW a \in Accounts, GetUser(r, a)
        PROVE  \A q \in Requests : NoMail(q)
    <3> DEFINE new == At("missed", a, None, None, None)
    <3>1. new.pc = "missed" /\ req' = [req EXCEPT ![r] = new]
      BY <2>2 DEF At, GetUser
    <3> HIDE DEF new
    <3> QED
      BY <3>1, ProvenElsewhere, RecordsNoMail
  <2>3. CASE ReadUser(r) /\ ~ Ends(r)
    <3> DEFINE new == At("read", req[r].account, None, None, row[req[r].account])
    <3>1. new.pc = "read" /\ req' = [req EXCEPT ![r] = new]
      BY <2>3 DEF At, ReadUser
    <3> HIDE DEF new
    <3> QED
      BY <3>1, ProvenElsewhere, RecordsNoMail
  <2>4. CASE FillCache(r)
    BY <2>4, GoesNoMail DEF FillCache
  <2>5. CASE Ends(r)
    BY <2>5, EndsNoMail
  <2>6. ExpireCached(r) \/ Fail(r) => Ends(r)
    BY DEF ExpireCached, Fail
  <2> QED
    BY <2>1, <2>2, <2>3, <2>4, <2>5, <2>6
<1>3. \A l \in Links : link'[l] \in {link[l], NoKey}
  BY <1>1
<1> QED
  BY <1>1, <1>2, <1>3, RowsAsTheyWere, MailsKept

\* The steps of nobody's request.
LEMMA EnvironmentMails ==
  ASSUME AccountsInv, MailsInv, AccountsInv',
         UNCHANGED <<row, mailed, req, strayed>>,
         \A l \in Links : link'[l] \in {link[l], NoKey}
  PROVE  MailsInv'
BY RowsAsTheyWere, MailsKept DEF NoMail

LEMMA MailsStep ==
  ASSUME AccountsInv, MailsInv, [Next]_vars, AccountsInv'
  PROVE  MailsInv'
<1>0. Next \/ UNCHANGED vars
  OBVIOUS
<1>1. CASE UNCHANGED vars
  BY <1>1, EnvironmentMails DEF vars
<1>2. ASSUME NEW r \in Requests, Step(r) PROVE MailsInv'
  BY <1>2, CreateUserMails, StoreLinkMails, ExpireLinkMails, SendWelcomeMails,
     VerifyMails, LoadRowMails, UpdateRowMails, DeleteKeyMails, OtherMails
     DEF Step
<1>3. ASSUME NEW r \in Requests, NEW a \in Accounts,
             NEW asked \in SUBSET {"name", "password"},
             NEW n \in Names, NEW p \in Passwords,
             UpdateUser(r, a, asked, n, p)
      PROVE  MailsInv'
  BY <1>3, UpdateUserMails
<1>4. ASSUME NEW r \in Requests, NEW e \in Emails, NEW a \in Accounts,
             SignUp(r, e, a)
      PROVE  MailsInv'
  BY <1>4, OtherMails
<1>5. ASSUME NEW r \in Requests, NEW a \in Accounts, GetUser(r, a)
      PROVE  MailsInv'
  BY <1>5, OtherMails
<1>6. ASSUME NEW r \in Requests, NEW l \in Links, VerifyEmail(r, l)
      PROVE  MailsInv'
  BY <1>6, VerifyEmailMails
<1>7. ASSUME NEW r \in Requests, Fail(r) PROVE MailsInv'
  BY <1>7, OtherMails
<1>8. ASSUME NEW l \in Links, LinkGone(l) PROVE MailsInv'
  BY <1>8, EnvironmentMails DEF LinkGone, AccountsInv, TypeOK
<1>9. ASSUME NEW a \in Accounts, SignIn(a) \/ CachedGone(a) PROVE MailsInv'
  BY <1>9, EnvironmentMails DEF SignIn, CachedGone
<1> QED
  BY <1>0, <1>1, <1>2, <1>3, <1>4, <1>5, <1>6, <1>7, <1>8, <1>9 DEF Next

-----------------------------------------------------------------------------
\* The keys

\* Keys are at most deleted, and nobody who has yet to EXPIRE one does a step.
KeysUntouched ==
  /\ failures' = failures
  /\ \A l \in Links : link'[l] \in {link[l], NoKey}
  /\ \A a \in Accounts : cache'[a] \in {cache[a], NoKey}
  /\ \A q \in Requests : req'[q] = req[q] \/ req[q].pc \notin {"linked", "filled"}

LEMMA KeysKept ==
  ASSUME KeysExpire, KeysUntouched
  PROVE  KeysExpire'
<1> SUFFICES ASSUME failures = 0 PROVE KeysExpire'
  BY DEF KeysExpire, KeysUntouched
<1>1. NoKey.value = None
  BY DEF NoKey
<1>2. \A q \in Requests : req[q].pc \in {"linked", "filled"} => req'[q] = req[q]
  BY DEF KeysUntouched
<1>3. ASSUME NEW a \in Accounts, cache'[a].value # None
      PROVE  \/ cache'[a].expires
             \/ \E r \in Requests : req'[r].pc = "filled" /\ req'[r].account = a
  BY <1>1, <1>2, <1>3 DEF KeysUntouched, KeysExpire
<1>4. ASSUME NEW l \in Links, link'[l].value # None
      PROVE  \/ link'[l].expires
             \/ \E r \in Requests : req'[r].pc = "linked" /\ req'[r].link = l
  BY <1>1, <1>2, <1>4 DEF KeysUntouched, KeysExpire
<1> QED
  BY <1>3, <1>4 DEF KeysExpire

\* Steps of a request that has no EXPIRE ahead and sets no key.
LEMMA StepKeepsKeys ==
  ASSUME AccountsInv, KeysExpire, NEW r \in Requests, NEW new,
         req' = [req EXCEPT ![r] = new], UNCHANGED failures,
         req[r].pc \notin {"linked", "filled"},
         \A l \in Links : link'[l] \in {link[l], NoKey},
         \A a \in Accounts : cache'[a] \in {cache[a], NoKey}
  PROVE  KeysExpire'
BY KeysKept DEF KeysUntouched, AccountsInv, TypeOK

\* A verification link: SET, then EXPIRE.
LEMMA StoreLinkKeys ==
  ASSUME AccountsInv, KeysExpire, NEW r \in Requests, NEW l \in Links,
         StoreLink(r, l)
  PROVE  KeysExpire'
<1> USE DEF StoreLink
<1> DEFINE new == At("linked", req[r].account, req[r].email, l, None)
<1>1. new.pc = "linked" /\ new.link = l
  BY DEF At
<1> HIDE DEF new
<1>2. /\ req'[r] = new /\ req[r].pc = "created"
      /\ \A q \in Requests \ {r} : req'[q] = req[q]
      /\ \A k \in Links \ {l} : link'[k] = link[k]
  BY DEF new, AccountsInv, TypeOK
<1> QED
  BY <1>1, <1>2 DEF KeysExpire

LEMMA ExpireLinkKeys ==
  ASSUME AccountsInv, KeysExpire, NEW r \in Requests, ExpireLink(r)
  PROVE  KeysExpire'
<1> USE DEF ExpireLink
<1>1. /\ req[r].link \in Links /\ req[r].pc = "linked"
      /\ link'[req[r].link].expires
      /\ \A l \in Links \ {req[r].link} : link'[l] = link[l]
      /\ \A q \in Requests \ {r} : req'[q] = req[q]
  BY DEF AccountsInv, TypeOK, InFlight, Goes
<1> QED
  BY <1>1 DEF KeysExpire

\* A cached account: SET, then EXPIRE.
LEMMA FillCacheKeys ==
  ASSUME AccountsInv, KeysExpire, NEW r \in Requests, FillCache(r)
  PROVE  KeysExpire'
<1> USE DEF FillCache
<1>1. req[r] \in Request /\ "filled" \in PCs
  BY DEF AccountsInv, TypeOK, PCs
<1>2. /\ req[r].pc = "read"
      /\ req'[r].pc = "filled" /\ req'[r].account = req[r].account
      /\ \A q \in Requests \ {r} : req'[q] = req[q]
      /\ \A a \in Accounts \ {req[r].account} : cache'[a] = cache[a]
  BY <1>1, GoesType DEF AccountsInv, TypeOK, Goes
<1> QED
  BY <1>2 DEF KeysExpire

LEMMA ExpireCachedKeys ==
  ASSUME AccountsInv, KeysExpire, NEW r \in Requests, ExpireCached(r)
  PROVE  KeysExpire'
<1> USE DEF ExpireCached
<1>1. /\ req[r].account \in Accounts /\ req[r].pc = "filled"
      /\ \A q \in Requests \ {r} : req'[q] = req[q]
      /\ \A a \in Accounts \ {req[r].account} : cache'[a] = cache[a]
      /\ \/ cache'[req[r].account].value = None
         \/ cache'[req[r].account].expires
  BY DEF AccountsInv, TypeOK, InFlight, Ends
<1> QED
  BY <1>1 DEF KeysExpire

\* A request that dies is not one of those the property is about.
LEMMA FailKeys ==
  ASSUME AccountsInv, NEW r \in Requests, Fail(r)
  PROVE  KeysExpire'
<1>1. failures' # 0
  BY Switches DEF Fail, AccountsInv, TypeOK
<1> QED
  BY <1>1 DEF KeysExpire

\* The steps that take no part in SET and EXPIRE.
LEMMA OtherStepsKeys ==
  ASSUME AccountsInv, KeysExpire, NEW r \in Requests,
         \/ \E n \in Names, p \in Passwords, d \in Deletions :
              CreateUser(r, n, p, d)
         \/ SendWelcome(r) \/ Verify(r) \/ LoadRow(r) \/ UpdateRow(r)
         \/ DeleteKey(r) \/ ReadUser(r)
  PROVE  KeysExpire'
<1>1. PICK new : req' = [req EXCEPT ![r] = new]
  BY DEF CreateUser, SendWelcome, Verify, LoadRow, UpdateRow, DeleteKey,
     ReadUser, Goes, Ends
<1>2. UNCHANGED failures /\ req[r].pc \notin {"linked", "filled"}
  BY DEF CreateUser, SendWelcome, Verify, LoadRow, UpdateRow, DeleteKey, ReadUser
<1>3. /\ \A l \in Links : link'[l] \in {link[l], NoKey}
      /\ \A a \in Accounts : cache'[a] \in {cache[a], NoKey}
  <2>1. CASE DeleteKey(r)
    BY <2>1 DEF DeleteKey, AccountsInv, TypeOK
  <2>2. CASE UNCHANGED <<link, cache>>
    BY <2>2
  <2> QED
    BY <2>1, <2>2 DEF CreateUser, SendWelcome, Verify, LoadRow, UpdateRow,
       ReadUser
<1> QED
  BY <1>1, <1>2, <1>3, StepKeepsKeys

\* The requests that begin.
LEMMA BeginningKeys ==
  ASSUME AccountsInv, KeysExpire, NEW r \in Requests, NEW new,
         req' = [req EXCEPT ![r] = new], req[r].pc = "idle",
         UNCHANGED <<link, cache, failures>>
  PROVE  KeysExpire'
BY StepKeepsKeys

LEMMA KeysStep ==
  ASSUME AccountsInv, KeysExpire, [Next]_vars
  PROVE  KeysExpire'
<1>0. Next \/ UNCHANGED vars
  OBVIOUS
<1>1. CASE UNCHANGED vars
  BY <1>1 DEF vars, KeysExpire
<1>2. ASSUME NEW r \in Requests, Step(r) PROVE KeysExpire'
  BY <1>2, StoreLinkKeys, ExpireLinkKeys, FillCacheKeys, ExpireCachedKeys,
     OtherStepsKeys DEF Step
<1>3. ASSUME NEW r \in Requests, NEW a \in Accounts,
             NEW asked \in SUBSET {"name", "password"},
             NEW n \in Names, NEW p \in Passwords,
             UpdateUser(r, a, asked, n, p)
      PROVE  KeysExpire'
  BY <1>3, BeginningKeys DEF UpdateUser
<1>4. ASSUME NEW r \in Requests, NEW e \in Emails, NEW a \in Accounts,
             SignUp(r, e, a)
      PROVE  KeysExpire'
  BY <1>4, BeginningKeys DEF SignUp
<1>5. ASSUME NEW r \in Requests, NEW a \in Accounts, GetUser(r, a)
      PROVE  KeysExpire'
  BY <1>5, BeginningKeys DEF GetUser
<1>6. ASSUME NEW r \in Requests, NEW l \in Links, VerifyEmail(r, l)
      PROVE  KeysExpire'
  BY <1>6, BeginningKeys DEF VerifyEmail
<1>7. ASSUME NEW r \in Requests, Fail(r) PROVE KeysExpire'
  BY <1>7, FailKeys
<1>8. ASSUME NEW l \in Links, LinkGone(l) PROVE KeysExpire'
  BY <1>8, KeysKept DEF LinkGone, KeysUntouched, AccountsInv, TypeOK
<1>9. ASSUME NEW a \in Accounts, SignIn(a) \/ CachedGone(a) PROVE KeysExpire'
  BY <1>9, KeysKept DEF SignIn, CachedGone, KeysUntouched, AccountsInv, TypeOK
<1> QED
  BY <1>0, <1>1, <1>2, <1>3, <1>4, <1>5, <1>6, <1>7, <1>8, <1>9 DEF Next

-----------------------------------------------------------------------------
\* Theorems

\* The start.
LEMMA InitCorrect == Init => IInv
<1> SUFFICES ASSUME Init PROVE IInv
  OBVIOUS
<1>1. MailsInv
  BY IdleType DEF Init, MailsInv, LinkInFlight, VerificationInFlight, Mailing,
     MailedLinksExpire, LinksAsMailed, VerifiedByMail, Exists
<1>2. KeysExpire
  BY DEF Init, KeysExpire, NoKey
<1> QED
  BY <1>1, <1>2, AccountsInit DEF IInv

\* The inductive invariant of accounts (auth.service.ts, user.service.ts): whoever
\* has been given a token is verified, and no save in flight takes that away; a
\* link verifies the address it was mailed to; no key is left to stay.
THEOREM Invariant == Spec => []IInv
<1>1. ASSUME IInv, [Next]_vars PROVE IInv'
  <2>1. AccountsInv'
    BY <1>1, AccountsStep DEF IInv
  <2>2. MailsInv' /\ KeysExpire'
    BY <1>1, <2>1, MailsStep, KeysStep DEF IInv
  <2> QED
    BY <2>1, <2>2 DEF IInv
<1> QED
  BY <1>1, InitCorrect, PTL DEF Spec

\* Types of the table, the keys and the requests.
THEOREM TypeCorrect == Spec => []TypeOK
<1>1. IInv => TypeOK
  BY DEF IInv, AccountsInv
<1> QED
  BY <1>1, Invariant, PTL

\* signUp: a link is in no mailbox before its key has a time to live.
THEOREM LinksCorrect == Spec => []MailedLinksExpire
<1>1. IInv => MailedLinksExpire
  BY DEF IInv, MailsInv
<1> QED
  BY <1>1, Invariant, PTL

\* signUp and verifyEmail: an account is verified only by a link that was mailed
\* to its address, or by the switch.
THEOREM VerificationCorrect == Spec => []VerifiedByMail
<1>1. IInv => VerifiedByMail
  BY DEF IInv, MailsInv
<1> QED
  BY <1>1, Invariant, PTL

\* CacheService.set: while no request dies, no key is left without a time to live
\* but by somebody whose next command gives it one.
THEOREM KeysCorrect == Spec => []KeysExpire
<1>1. IInv => KeysExpire
  BY DEF IInv
<1> QED
  BY <1>1, Invariant, PTL

\* updateUser and verifyEmail: no save takes a verification back, and of the
\* sign-ups only one that names the account by its id.
THEOREM VerifiedCorrect == Spec => VerifiedStays
<1> DEFINE Kept == \A a \in Accounts \ strayed' :
                     Exists(a) /\ row[a].verified
                       => Exists(a)' /\ row'[a].verified
<1>1. ASSUME IInv, [Next]_vars PROVE Kept
  <2>1. AccountsInv
    BY <1>1 DEF IInv
  <2>2. ASSUME RowsKept PROVE Kept
    BY <2>2 DEF RowsKept
  <2>3. ASSUME UNCHANGED row PROVE Kept
    BY <2>3 DEF Exists
  <2> HIDE DEF Kept
  <2>4. ASSUME NEW r \in Requests, Step(r) PROVE Kept
    <3>1. \/ \E n \in Names, p \in Passwords, d \in Deletions :
               CreateUser(r, n, p, d)
          \/ UpdateRow(r)
          \/ UNCHANGED row
      <4>1. LoadRow(r) => UNCHANGED row
        BY DEF LoadRow
      <4>2. \A l \in Links : StoreLink(r, l) => UNCHANGED row
        BY DEF StoreLink
      <4>3. ExpireLink(r) \/ SendWelcome(r) \/ Verify(r) \/ DeleteKey(r)
              => UNCHANGED row
        BY DEF ExpireLink, SendWelcome, Verify, DeleteKey
      <4>4. ReadUser(r) \/ FillCache(r) \/ ExpireCached(r) => UNCHANGED row
        BY DEF ReadUser, FillCache, ExpireCached
      <4> QED
        BY <2>4, <4>1, <4>2, <4>3, <4>4 DEF Step
    <3> QED
      BY <2>1, <2>2, <2>3, <3>1, CreateUserStep, UpdateRowStep
  <2>5. CASE UNCHANGED vars
    BY <2>3, <2>5 DEF vars
  <2>6. CASE Next
    <3>1. \/ \E r \in Requests : Step(r)
          \/ UNCHANGED row
      BY <2>6 DEF Next, SignUp, GetUser, VerifyEmail, UpdateUser, Fail, SignIn,
           CachedGone, LinkGone
    <3> QED
      BY <2>3, <2>4, <3>1
  <2> QED
    BY <1>1, <2>5, <2>6
<1>2. IInv /\ [Next]_vars => [Kept]_vars
  BY <1>1
<1> QED
  BY <1>2, Invariant, PTL DEF Spec, VerifiedStays

=============================================================================
