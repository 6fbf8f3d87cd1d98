--------------------------- MODULE AccountService ---------------------------
(***************************************************************************)
(* Accounts: sign-up and e-mail verification (auth.service.ts,             *)
(* auth.tx.service.ts), profile changes (user.service.ts) and the cache of *)
(* user rows in Redis (cache.module.ts).                                   *)
(*                                                                         *)
(* Neither verifyEmail nor updateUser runs in a transaction: they read the *)
(* row, change the entity and save() it. TypeORM's save() reads the row    *)
(* once more and updates the columns in which the entity differs from it,  *)
(* changed on purpose or not. Each of these reads, the UPDATE and every    *)
(* Redis command is a step; SET and EXPIRE are two. A sign-up's read and   *)
(* its save() are one transaction with one read view.                      *)
(*                                                                         *)
(* A sign-up saves an entity made of the whole body, and pipes keep what   *)
(* SignUpBody does not list: with the id of a row that is there, save()    *)
(* updates that row.                                                       *)
(***************************************************************************)
EXTENDS Naturals, FiniteSets

CONSTANTS
  Accounts,      \* primary keys of users
  Emails, Names, Passwords,
  Links,         \* the uuids of verification links
  Requests,      \* slots for requests being served at the same time
  AutoVerify,    \* AUTO_VERIFY_USERS
  Deletions,     \* whether the bodies of sign-ups name deletedAt
  MaxStrayed,    \* bound on the accounts that sign-ups name by id
  MaxFailures,   \* bound on the requests that die
  None

ASSUME Switches ==
  AutoVerify \in BOOLEAN /\ Deletions \subseteq BOOLEAN /\ MaxFailures \in Nat

Row == [email : Emails, verified : BOOLEAN, name : Names,
        password : Passwords, deleted : BOOLEAN]
Columns == {"email", "verified", "name", "password", "deleted"}

ASSUME NoneIsFresh == None \notin Accounts \cup Emails \cup Links \cup Row

VARIABLES
  row,       \* table user: a row, or None
  link,      \* Redis email-verify:<uuid>: the address it verifies, or None, and
             \* whether the key has a time to live
  mailed,    \* the mails that were sent: which link, to which address
  clients,   \* accounts that have been given an access token
  cache,     \* Redis user/<id>: the kept row, or None, and whether it has one
  req,       \* the requests being served
  strayed,   \* history: the accounts that sign-ups have named by their id
  failures   \* requests that have died so far

vars == <<row, link, mailed, clients, cache, req, strayed, failures>>

Exists(a) == row[a] # None

\* Rows that a find() returns: TypeORM leaves out those that have deletedAt.
Live(a) == Exists(a) /\ ~ row[a].deleted

\* The unique index on the address, which counts deleted accounts too.
Taken(a, e) == \E b \in Accounts \ {a} : Exists(b) /\ row[b].email = e

\* email: the address that a sign-up or a link gives; entity: the row as the
\* request has read and changed it; diff: the columns save() will write.
At(pc, a, e, l, entity) ==
  [pc |-> pc, account |-> a, email |-> e, link |-> l, entity |-> entity,
   diff |-> {}]

Idle == At("idle", None, None, None, None)

PCs == {"idle", "checked", "created", "linked", "mailing", "found", "changed",
        "diffed", "saved", "missed", "read", "filled"}

Request == [pc : PCs, account : Accounts \cup {None},
            email : Emails \cup {None}, link : Links \cup {None},
            entity : Row \cup {None}, diff : SUBSET Columns]

NoKey == [value |-> None, expires |-> FALSE]

TypeOK ==
  /\ row \in [Accounts -> Row \cup {None}]
  /\ link \in [Links -> [value : Emails \cup {None}, expires : BOOLEAN]]
  /\ mailed \subseteq [link : Links, to : Emails]
  /\ clients \subseteq Accounts
  /\ cache \in [Accounts -> [value : Row \cup {None}, expires : BOOLEAN]]
  /\ req \in [Requests -> Request]
  /\ strayed \subseteq Accounts
  /\ failures \in 0 .. MaxFailures

Init ==
  /\ row = [a \in Accounts |-> None]
  /\ link = [l \in Links |-> NoKey]
  /\ mailed = {}
  /\ clients = {}
  /\ cache = [a \in Accounts |-> NoKey]
  /\ req = [r \in Requests |-> Idle]
  /\ strayed = {}
  /\ failures = 0

\* A request goes on to step pc; a request is answered or dies.
Goes(r, pc) == req' = [req EXCEPT ![r].pc = pc]
Ends(r) == req' = [req EXCEPT ![r] = Idle]

MailedLinks == {m.link : m \in mailed}

-----------------------------------------------------------------------------
\* signUp

\* A row that takes the columns in diff from another one.
Merge(old, new, diff) ==
  [email    |-> IF "email" \in diff THEN new.email ELSE old.email,
   verified |-> IF "verified" \in diff THEN new.verified ELSE old.verified,
   name     |-> IF "name" \in diff THEN new.name ELSE old.name,
   password |-> IF "password" \in diff THEN new.password ELSE old.password,
   deleted  |-> IF "deleted" \in diff THEN new.deleted ELSE old.deleted]

\* The transaction's read finds no account of this address; otherwise 409. The
\* body may name the id of an account that is there; if not, the id is new.
SignUp(r, e, a) ==
  /\ req[r].pc = "idle"
  /\ ~ \E b \in Accounts : Live(b) /\ row[b].email = e
  /\ req' = [req EXCEPT ![r] = At("checked", a, e, None, row[a])]
  /\ strayed' = IF Exists(a) THEN strayed \cup {a} ELSE strayed
  /\ UNCHANGED <<row, link, mailed, clients, cache, failures>>

\* The row that save() leaves of an entity, when its read view showed `seen`
\* under the id.
Saved(old, seen, new) ==
  IF seen = None THEN new
  ELSE Merge(old, new, {c \in Columns : new[c] # seen[c]})

\* Faulty variant: the account starts as a verified one.
CreateVerified(r, n, p, d) ==
  LET a == req[r].account
      seen == req[r].entity
      new == Saved(row[a], seen, [email |-> req[r].email, verified |-> TRUE,
                                  name |-> n, password |-> p, deleted |-> d])
  IN
  /\ req[r].pc = "checked"
  /\ IF (seen = None /\ Exists(a)) \/ Taken(a, new.email)
     THEN Ends(r) /\ UNCHANGED row
     ELSE row' = [row EXCEPT ![a] = new] /\ Goes(r, "created")
  /\ UNCHANGED <<link, mailed, clients, cache, strayed, failures>>

\* INSERT and COMMIT, or UPDATE when the view has a row of the id. An id that
\* has come to be there, or an address that is taken, is refused: the unique
\* indexes turn the later of two sign-ups away.
CreateUser(r, n, p, d) ==
  LET a == req[r].account
      seen == req[r].entity
      new == Saved(row[a], seen, [email |-> req[r].email,
                                  verified |-> AutoVerify,
                                  name |-> n, password |-> p, deleted |-> d])
  IN
  /\ req[r].pc = "checked"
  /\ IF (seen = None /\ Exists(a)) \/ Taken(a, new.email)
     THEN Ends(r) /\ UNCHANGED row
     ELSE row' = [row EXCEPT ![a] = new] /\ Goes(r, "created")
  /\ UNCHANGED <<link, mailed, clients, cache, strayed, failures>>

\* Faulty variant: the link may be stored before the account is committed.
StoreLinkEarly(r, l) ==
  /\ req[r].pc \in {"checked", "created"}
  /\ link[l].value = None
  /\ \A q \in Requests : req[q].link # l
  /\ l \notin MailedLinks
  /\ link' = [link EXCEPT ![l] = [value |-> req[r].email, expires |-> FALSE]]
  /\ req' = [req EXCEPT ![r] = At("linked", req[r].account, req[r].email, l, None)]
  /\ UNCHANGED <<row, mailed, clients, cache, strayed, failures>>

\* SET email-verify:<uuid>, with a uuid nobody has.
StoreLink(r, l) ==
  /\ req[r].pc = "created"
  /\ link[l].value = None
  /\ \A q \in Requests : req[q].link # l
  /\ l \notin MailedLinks
  /\ link' = [link EXCEPT ![l] = [value |-> req[r].email, expires |-> FALSE]]
  /\ req' = [req EXCEPT ![r] = At("linked", req[r].account, req[r].email, l, None)]
  /\ UNCHANGED <<row, mailed, clients, cache, strayed, failures>>

\* EXPIRE.
ExpireLink(r) ==
  /\ req[r].pc = "linked"
  /\ link' = [link EXCEPT ![req[r].link].expires = TRUE]
  /\ Goes(r, "mailing")
  /\ UNCHANGED <<row, mailed, clients, cache, strayed, failures>>

\* Faulty variant: the mail goes out as soon as the link is stored.
MailEarly(r) ==
  /\ req[r].pc \in {"linked", "mailing"}
  /\ mailed' = mailed \cup {[link |-> req[r].link, to |-> req[r].email]}
  /\ Ends(r)
  /\ UNCHANGED <<row, link, clients, cache, strayed, failures>>

SendWelcome(r) ==
  /\ req[r].pc = "mailing"
  /\ mailed' = mailed \cup {[link |-> req[r].link, to |-> req[r].email]}
  /\ Ends(r)
  /\ UNCHANGED <<row, link, clients, cache, strayed, failures>>

-----------------------------------------------------------------------------
\* verifyEmail, updateUser: read, change, save, delete a key

\* Somebody follows a link and its key is still there; otherwise 400.
VerifyEmail(r, l) ==
  /\ req[r].pc = "idle"
  /\ l \in MailedLinks
  /\ link[l].value # None
  /\ req' = [req EXCEPT ![r] =
       At("found", None, link[l].value, l, None)]
  /\ UNCHANGED <<row, link, mailed, clients, cache, strayed, failures>>

\* Read the account of the link's address; 404 when there is none, and nothing
\* is left to do when it is verified.
Verify(r) ==
  LET found == {a \in Accounts : Live(a) /\ row[a].email = req[r].email} IN
  /\ req[r].pc = "found"
  /\ IF \A a \in found : row[a].verified
     THEN Ends(r)
     ELSE \E a \in found :
            req' = [req EXCEPT ![r] =
              At("changed", a, req[r].email, req[r].link,
                 [row[a] EXCEPT !.verified = TRUE])]
  /\ UNCHANGED <<row, link, mailed, clients, cache, strayed, failures>>

\* Faulty variant: an account can sign in before its address is verified.
SignInUnverified(a) ==
  /\ Live(a)
  /\ clients' = clients \cup {a}
  /\ UNCHANGED <<row, link, mailed, cache, req, strayed, failures>>

\* signIn lets only verified accounts have a token (TokenService has the rest).
SignIn(a) ==
  /\ Live(a) /\ row[a].verified
  /\ clients' = clients \cup {a}
  /\ UNCHANGED <<row, link, mailed, cache, req, strayed, failures>>

\* A signed-in user gives a new name, a new password or both.
UpdateUser(r, a, asked, n, p) ==
  /\ req[r].pc = "idle"
  /\ a \in clients
  /\ Live(a)
  /\ req' = [req EXCEPT ![r] =
       At("changed", a, None, None,
          Merge(row[a], [name |-> n, password |-> p], asked))]
  /\ UNCHANGED <<row, link, mailed, clients, cache, strayed, failures>>

\* save() reads the row again and compares.
LoadRow(r) ==
  LET now == row[req[r].account] IN
  /\ req[r].pc = "changed"
  /\ req' = [req EXCEPT ![r] =
       [@ EXCEPT !.pc = "diffed",
                 !.diff = {c \in Columns : req[r].entity[c] # now[c]}]]
  /\ UNCHANGED <<row, link, mailed, clients, cache, strayed, failures>>

\* The UPDATE; refused when it puts back an address that is taken by now.
UpdateRow(r) ==
  LET a == req[r].account
      new == Merge(row[a], req[r].entity, req[r].diff)
  IN
  /\ req[r].pc = "diffed"
  /\ IF Taken(a, new.email)
     THEN Ends(r) /\ UNCHANGED row
     ELSE row' = [row EXCEPT ![a] = new] /\ Goes(r, "saved")
  /\ UNCHANGED <<link, mailed, clients, cache, strayed, failures>>

\* DEL of the link that was used, or of the account's cached row.
DeleteKey(r) ==
  /\ req[r].pc = "saved"
  /\ IF req[r].link # None
     THEN link' = [link EXCEPT ![req[r].link] = NoKey] /\ UNCHANGED cache
     ELSE cache' = [cache EXCEPT ![req[r].account] = NoKey] /\ UNCHANGED link
  /\ Ends(r)
  /\ UNCHANGED <<row, mailed, clients, strayed, failures>>

-----------------------------------------------------------------------------
\* getUser behind @Cache

\* A signed-in user asks for an account that is not in the cache; a hit changes
\* nothing.
GetUser(r, a) ==
  /\ req[r].pc = "idle"
  /\ clients # {}
  /\ Exists(a)
  /\ cache[a].value = None
  /\ req' = [req EXCEPT ![r] = At("missed", a, None, None, None)]
  /\ UNCHANGED <<row, link, mailed, clients, cache, strayed, failures>>

\* 404 when it is deleted.
ReadUser(r) ==
  LET a == req[r].account IN
  /\ req[r].pc = "missed"
  /\ IF Live(a)
     THEN req' = [req EXCEPT ![r] = At("read", a, None, None, row[a])]
     ELSE Ends(r)
  /\ UNCHANGED <<row, link, mailed, clients, cache, strayed, failures>>

\* SET user/<id>.
FillCache(r) ==
  /\ req[r].pc = "read"
  /\ cache' = [cache EXCEPT ![req[r].account] =
                 [value |-> req[r].entity, expires |-> FALSE]]
  /\ Goes(r, "filled")
  /\ UNCHANGED <<row, link, mailed, clients, strayed, failures>>

\* Faulty variant: the key is left without a time to live.
KeepInCache(r) ==
  /\ req[r].pc = "filled"
  /\ Ends(r)
  /\ UNCHANGED <<row, link, mailed, clients, cache, strayed, failures>>

\* EXPIRE, on whatever the key holds by now.
ExpireCached(r) ==
  LET a == req[r].account IN
  /\ req[r].pc = "filled"
  /\ cache' = IF cache[a].value = None THEN cache
              ELSE [cache EXCEPT ![a].expires = TRUE]
  /\ Ends(r)
  /\ UNCHANGED <<row, link, mailed, clients, strayed, failures>>

-----------------------------------------------------------------------------
\* The environment

LinkGone(l) ==
  /\ link[l].expires
  /\ link' = [link EXCEPT ![l] = NoKey]
  /\ UNCHANGED <<row, mailed, clients, cache, req, strayed, failures>>

CachedGone(a) ==
  /\ cache[a].expires
  /\ cache' = [cache EXCEPT ![a] = NoKey]
  /\ UNCHANGED <<row, link, mailed, clients, req, strayed, failures>>

\* A request dies: an error of Redis, MySQL or SES, or a restart.
Fail(r) ==
  /\ req[r].pc # "idle"
  /\ failures < MaxFailures
  /\ failures' = failures + 1
  /\ Ends(r)
  /\ UNCHANGED <<row, link, mailed, clients, cache, strayed>>

\* The steps a request takes once it has begun.
Step(r) ==
  \/ \E n \in Names, p \in Passwords, d \in Deletions : CreateUser(r, n, p, d)
  \/ \E l \in Links : StoreLink(r, l)
  \/ ExpireLink(r)
  \/ SendWelcome(r)
  \/ Verify(r)
  \/ LoadRow(r)
  \/ UpdateRow(r)
  \/ DeleteKey(r)
  \/ ReadUser(r)
  \/ FillCache(r)
  \/ ExpireCached(r)

Next ==
  \/ \E r \in Requests :
       \/ \E e \in Emails, a \in Accounts :
            SignUp(r, e, a) /\ Cardinality(strayed') <= MaxStrayed
       \/ \E a \in Accounts :
            \/ GetUser(r, a)
            \/ \E asked \in SUBSET {"name", "password"},
                  n \in Names, p \in Passwords : UpdateUser(r, a, asked, n, p)
       \/ \E l \in Links : VerifyEmail(r, l)
       \/ Step(r)
       \/ Fail(r)
  \/ \E a \in Accounts : SignIn(a) \/ CachedGone(a)
  \/ \E l \in Links : LinkGone(l)

Spec == Init /\ [][Next]_vars

\* Requests go on, and keys with a time to live expire.
FairSpec ==
  /\ Spec
  /\ \A r \in Requests : WF_vars(Step(r))
  /\ \A a \in Accounts : WF_vars(CachedGone(a))

-----------------------------------------------------------------------------
\* Properties

\* No link in a mailbox can be used for ever: its key has a time to live before
\* the mail is sent.
MailedLinksExpire ==
  \A m \in mailed : link[m.link].value = None \/ link[m.link].expires

\* An account is verified only by a link that was mailed to its address: no
\* other request in flight, no other link and no save of an entity that was read
\* before can do it (but a sign-up that names the account by its id).
ByMail(e) == AutoVerify \/ \E l \in Links : [link |-> l, to |-> e] \in mailed

VerifiedByMail ==
  \A a \in Accounts \ strayed :
    Exists(a) /\ row[a].verified => ByMail(row[a].email)

\* While no request dies, every key in Redis has a time to live or is about to
\* get one, although SET and EXPIRE are two commands and other requests write
\* and delete the same key between them.
KeysExpire ==
  failures = 0 =>
    /\ \A a \in Accounts : cache[a].value # None =>
         \/ cache[a].expires
         \/ \E r \in Requests : req[r].pc = "filled" /\ req[r].account = a
    /\ \A l \in Links : link[l].value # None =>
         \/ link[l].expires
         \/ \E r \in Requests : req[r].pc = "linked" /\ req[r].link = l

\* An account that is verified stays verified, although updateUser writes back
\* whatever it has read: no account that could be unverified has a token. Only
\* a sign-up that names the account by its id takes the verification back.
VerifiedStays ==
  [][\A a \in Accounts \ strayed' : Exists(a) /\ row[a].verified
                                     => Exists(a)' /\ row'[a].verified]_vars

\* While no request dies, the cache cannot keep an old row for good: once the
\* row changes no more, what is cached is the row, or soon nothing.
CacheCatchesUp ==
  [](failures = 0) /\ <>[][UNCHANGED row]_vars
    => \A a \in Accounts : <>[](cache[a].value \in {None, row[a]})

\* A request in flight names what it works on, and the account is there.
InFlight(r) ==
  LET a == req[r].account IN
  /\ req[r].pc \notin {"idle", "found"} => a \in Accounts
  /\ req[r].pc \notin {"idle", "checked", "found"} => Exists(a)
  /\ req[r].pc \in {"checked", "created", "linked", "mailing", "found"}
       => req[r].email \in Emails
  /\ req[r].pc \in {"linked", "mailing"} => req[r].link \in Links
  /\ req[r].pc = "read" => req[r].entity \in Row

\* A sign-up that saves a row which was there named it by its id.
SignUpInFlight(r) ==
  LET a == req[r].account IN
  /\ req[r].pc = "checked" /\ req[r].entity # None
       => Exists(a) /\ a \in strayed
  /\ req[r].pc \in {"created", "linked", "mailing"} /\ a \notin strayed
       => row[a].email = req[r].email

\* A save in flight takes neither the verification nor the address away.
SaveInFlight(r) ==
  LET a == req[r].account  entity == req[r].entity IN
  req[r].pc \in {"changed", "diffed"} =>
    /\ entity \in Row
    /\ a \notin strayed => entity.verified /\ entity.email = row[a].email

\* A link is stored when the account of its address is committed.
LinksOfAccounts ==
  \A l \in Links : link[l].value # None =>
    \E a \in Accounts :
      Exists(a) /\ (a \in strayed \/ row[a].email = link[l].value)

ClientsVerified ==
  /\ \A a \in clients : Exists(a)
  /\ \A a \in clients \ strayed : row[a].verified

OneAccountPerAddress ==
  \A a, b \in Accounts :
    Exists(a) /\ Exists(b) /\ row[a].email = row[b].email => a = b

\* A link on its way to a mailbox is in none yet and verifies the address it is
\* sent to; its key has a time to live before the mail is sent.
Mailing == {"linked", "mailing"}

LinkInFlight(r) ==
  LET l == req[r].link IN
  req[r].pc \in Mailing =>
    /\ l \notin MailedLinks
    /\ link[l].value \in {None, req[r].email}
    /\ req[r].pc = "mailing" => link[l].value = None \/ link[l].expires
    /\ \A q \in Requests \ {r} : req[q].pc \in Mailing => req[q].link # l

\* A request that may verify an account got there by a mail to its address.
VerificationInFlight(r) ==
  /\ req[r].pc = "found" => ByMail(req[r].email)
  /\ req[r].pc \in {"changed", "diffed"} /\ req[r].account \notin strayed
       => ByMail(req[r].entity.email)

LinksAsMailed == \A m \in mailed : link[m.link].value \in {None, m.to}

\* The inductive invariant, in three parts: what VerifiedStays rests on, ...
AccountsInv ==
  /\ TypeOK
  /\ \A r \in Requests : InFlight(r) /\ SignUpInFlight(r) /\ SaveInFlight(r)
  /\ OneAccountPerAddress
  /\ LinksOfAccounts
  /\ ClientsVerified

\* ... what VerifiedByMail and MailedLinksExpire rest on, and KeysExpire.
MailsInv ==
  /\ \A r \in Requests : LinkInFlight(r) /\ VerificationInFlight(r)
  /\ MailedLinksExpire
  /\ LinksAsMailed
  /\ VerifiedByMail

IInv == AccountsInv /\ MailsInv /\ KeysExpire

=============================================================================
