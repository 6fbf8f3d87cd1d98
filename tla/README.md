# Coupang Eats backend: specifications, checks and proofs

TLA+ modules for the backend of this repository (`coupang_eats_backend_v2`), the TLC
configurations that check them and the theorems TLAPS proves about them. Paths below are
relative to `coupang_eats_backend_v2/src/` unless they say otherwise. `PROJECT.json` lists every
run, mutant, finding, hazard and theorem, and for every definition the source lines it stands for.

## 1. The system and its parts

A NestJS server (several tasks behind a load balancer, see `dev_infra`) over MySQL/InnoDB through
TypeORM, with Redis for tokens and cached users, socket.io for notices, S3 and SES for files and
mail. Within one task handlers interleave at every `await`; across tasks, and in the database,
they run in parallel. Requests share nothing but the database and Redis; sockets not even that:
each task keeps the rooms of its own connections in memory.

| part | state it keeps | operations | what is hard | what makes it correct |
|---|---|---|---|---|
| Orders (`modules/order`) | `order` rows: status, driver, createdAt | createOrder, editOrderStatus, getOrders, getOrderById | edits in parallel transactions merge column by column; checks read a snapshot without a lock; events leave before the commit | status and driver fit together, every step is a step of the life cycle, an edit never revives a deleted row |
| Clean-up (`order-cron.service.ts`) | the same rows | handleCron, every night | one DELETE that scans and locks the table while edits and payments are in flight, and fails as a whole on a paid order | removes pending, unpaid orders of more than a day and nothing else; an expired order does not stay |
| Payments (`modules/payment`) | `payment` rows | processPayment | read-check-insert without a transaction | at most one payment per order, none of an order that is gone |
| Sessions (`core/jwt`, `core/guard`, `modules/auth`) | Redis: one refresh token per user, a blacklist of access tokens | signIn, refreshTokens, signOut, the guards | each Redis command is a step of its own; keys and tokens expire on different clocks; compare-then-set | a signed-out access token is never accepted again; a signed-out session stays ended |
| Accounts (`modules/auth`, `modules/user`, `core/cache`) | `user` rows; Redis: links, cached users | signUp, verifyEmail, updateUser, getUser | save() writes back what was read earlier; SET and EXPIRE are two commands; the cache is filled after it was invalidated | a verification is never taken back; mailed links expire; the cache catches up |
| Reviews (`modules/review`) | `reviews` rows, deleted softly | createReview, updateReview, deleteReview | check-then-insert; the order moves meanwhile; save() of a deleted row | one review per order, of an order that stays; deletion is final |
| Menu (`modules/dish`, `modules/restaurant`) | `dish`, `restaurant` rows | createDish, updateDish, deleteDish, createRestaurant, updateRestaurant, four reads | one half in transactions, the other not; bodies that name other rows | no change undoes another; deletion is final |
| Pricing (`order.service.ts`) | `order.total` | createOrder, processOrderItem | prices change between the reads | an order costs what was asked for at one moment |
| Events (`events/`) | per task, the rooms of its sockets | joinUserRoom, joinOrderRoom, updateDriverLocation, disconnect | notices sent before, after or without the commit they speak of; rooms are lost with a connection and end at the task; answers of reads cross notices | nobody hears of an order that does not exist; owners hear of theirs; who joins and then reads is up to date about what his task has served |
| Categories (`modules/category`) | `category` rows | createCategory, getAllCategories | check-then-insert on a slug that several names share; an id in the body makes it an update | one category per slug |
| Generic repository, pagination (`core/database`, `common/pagination`) | none | find*, paginate | page and total are two queries; the list has no order of its own; page arithmetic | whoever reads to the last page has missed nothing |
| Uploads (`modules/upload`, `core/aws`) | objects in S3 | uploadImage, uploadImages | the puts of a batch run side by side and go on after one has failed | an answer names stored files only; every upload is answered |
| Roles and guards (`core/guard`, `core/decorator`) | none | canActivate of four guards | their order and the decorators that switch them off; tokens end while the guards run; a guard's own query fails | a handler runs for its roles and for live credentials only, and a refusal says why |
| Error filter, response envelope (`core/filter`, `core/interceptor`) | none | catch, intercept | which exceptions carry a status | every request is answered, with a status |
| Mail, logging, configuration | none | - | - | - |
| Frontend, `dev_infra` | - | - | - | - |

How they interact: a review reads the order's row; an order reads restaurant and dishes and is
announced to sockets; a payment, an order item and a review refer to the order by foreign keys (NO
ACTION, CASCADE, SET NULL); sign-up hands a link to Redis and a mail to SES; the guards of all
controllers read the blacklist that sign-out writes; the error filter turns what any of them throws
into an answer; restaurants name a category; the notices of orders go through the gateway's rooms to
clients that read the same orders over HTTP.

Five facts about the libraries and the wiring decide most of what can go wrong, and the modules
model them (as *external* in the map):

* `save(entity)` of TypeORM reads the row by its key, deleted rows included, compares and updates
  the columns that differ. Inside `@Transactional()` that read sees the transaction's snapshot, so
  only what the request changed is written. Outside, it sees the row as it is by then, and
  everything that others have changed since the first read is written back.
* InnoDB runs at REPEATABLE READ: reads see the snapshot of the transaction's first SELECT and take
  no locks, writes hold row locks until COMMIT.
* Redis keys expire; `CacheService.set` is a SET and an EXPIRE, and the server may stop in between.
* The global `ValidationPipe` (`setNestApp.ts:7-14`) transforms a body and keeps the fields its DTO
  does not list. Where an entity is made of the whole body (`signUp.body.ts:38-43`,
  `create-category.dto.ts:23-30`, `create-restaurant.dto.ts:34-40`, `create-dish.dto.ts:51-57`,
  `create-payment.dto.ts:17-26`, `restaurant.service.ts:88-91`, `dish.service.ts:55-58`,
  `review.service.ts:79-82`), a body can name any column and any id, and with the id of a row that is
  there save() updates this row, deleted ones included. Orders (`create-order.dto.ts`,
  `edit-order.dto.ts`), profiles and new reviews take their columns one by one.
* `JwtBlacklistGuard` looks up what is left of the Authorization header without a literal `Bearer `
  (`jwtBlacklist.guard.ts:40`); the strategy after it takes the token out of any spelling of the
  scheme and any white space (`accessToken.strategy.ts:22`). Only in the first spelling is a token
  looked up under the key that sign-out has written.

## 2. Modules

| module | models | its state and the code's |
|---|---|---|
| `OrderLifecycle` | the abstract life of orders: what a step may do to status and driver | `status`, `driver` |
| `OrderService` | `order.service.ts`, `order-cron.service.ts`, `payment.service.ts` | `status`, `driver`, `stale` (createdAt) and `paid` are tables; `req[r]` is a request in flight, its `pc` the await it is at, `seenStatus`/`seenDriver` its snapshot, `writes` the columns of its UPDATE; `scanned` the row locks of the DELETE; `room` and `broadcast` the emitted events; `SavePayment` inserts a payment or moves the one its body names |
| `TokenService` | `jwt.service.ts`, sign-in, refresh and sign-out of `auth.service.ts`, `jwtBlacklist.guard.ts` | `refreshKey`, `blacklist` are Redis, with expiry times on the clock `now`; a `scheme` is the spelling of a header; `signedOut`, `closed` are history |
| `AccountService` | `auth.service.ts` (sign-up, verification), `auth.tx.service.ts`, `user.service.ts`, `cache.module.ts` | `row` is the table, by id; `link` and `cache` Redis keys with or without a time to live; `mailed` (which link went to which address), `clients` and `strayed` (the accounts that sign-ups named by id) history |
| `ReviewService` | `review.service.ts`, with the orders of `OrderLifecycle` beside it | `review` is the table; `req[r].entity` what an update has read and changed, `.diff` what save() will write; `strayed` (history) the reviews that bodies named with other columns than their content |
| `OrderReviews` | `ReviewService` on the tables of `OrderService`: the foreign key from reviews to orders with its lock and its ON DELETE SET NULL | those of both; `orderReq` are the order service's requests |
| `OrderFeed`, `EventsGateway` | `events.gateway.ts`, getOrders and getOrderById, composed with `OrderService` | `at` is the task a socket is connected to, `ServedOn` the one that serves a request, `rooms` are socket.io's; `told` and `heard` what each client was told, `reading` an answer on its way to it; `due`, `lost`, `following`, `fresh` are history |
| `RequestPipeline`, `Routes` | the four guards, strategies, decorators, pipes, response interceptor and error filter, over the controllers' routes | `revoked` is the blacklist, `expired` the tokens past their exp; `req[r]` a request with its place in the list of guards and whether its header is `plain`, "Bearer " and the token; `late` is history; `sent` the answer of the step |
| `AccessPolicy` | abstract: what that chain promises, without guards | `revoked`, `expired`, `ask`, `sent` |
| `Catalog`, `Pagination` | `category.service.ts`, creation and moves of restaurants, getRestaurants with `paginate` and the three `pagination.*` files | `category` (names by id, of which `hidden` are deleted) and `restaurant` (its category, `Nowhere` for none) are tables; `reader[q]` a caller between two pages or two queries, its `owed`, `shown`, `count`, `grew`, `shrank` history |
| `UploadService` | `upload.controller.ts`, `aws-s3.service.ts` | `object` is the bucket, `req[r]` an upload in flight, `urls` the answered keys |
| `MenuService` | `dish.service.ts`, `restaurant.service.ts`, pricing in `order.service.ts` | `shop`, `dish`, `order` are tables; `req[r].view` the read view of a transaction; `past` the menus there have been, `strayed` the rows that bodies named by id or with columns their DTOs do not list |

Each action is one handler from one await to the next; refusals (400, 403, 404, 409) that change
nothing are guards, those in the middle of a handler end the request. `Fail` is a query that fails
or a server that stops: what was committed stays, the rest is gone. Operators that a comment calls
*Faulty variant* are never part of a specification; replacing the definition after them by them
shows which property would catch that bug.

Composition: `OrderService` is shown to implement `OrderLifecycle` (`ImplementsLifecycle`, by
TLC and as a theorem), and `ReviewService` takes the orders' side from `OrderLifecycle`, which
therefore allows everything the order service can do to an order while a review is written.
`OrderReviews` EXTENDS `ReviewService` and puts an INSTANCE of `OrderService` under it: a review's
INSERT waits for the order's row lock, and whatever the clean-up deletes takes the key out of the
reviews. The theorems `ReviewsImplemented` and `OrdersImplemented` say that the two together do only
what each does alone, so that what is proved of either holds of the system that has both.
`OrderFeed` EXTENDS `OrderService`, conjoins a notice to the step that emits it and adds sockets,
joins and reads; the theorem `FeedIsService` says that it does nothing to the service, so that every
theorem about orders holds of the composition. `RequestPipeline` implements `AccessPolicy` under the
mapping `ask <-` what a caller can know of his request (`Seen`).
`MC*` modules hold the constants for TLC, `*Proofs` modules the theorems.

Bodies that name more than their DTOs list are actions of the models, not left out: `UpdateReview`,
`UpdateDish` and `UpdateRestaurant` take the id `w` and the entity `new` that the body makes of what
was read, `CreateDish`, `CreateRestaurant`, `SaveCategory` and `SignUp` an id that may be a row's,
`SavePayment` the payment that is moved. Such a request may write whatever it names, so the
properties of reviews, menus and accounts speak of all rows but those it has named (`strayed`), and
the proofs show that it harms no other row, nor what others have in flight; the properties that rest
on the database's constraints (`OneReviewPerOrder`, `PaymentsConsistent`, `OneCategoryPerSlug`) and
those of orders and prices hold without exception.

Abstractions. Orders are placed by the parties the constants name. The payment's data, names, texts
and pictures are left out or one value. A dish has one option; a cart is a list of items that name
it any number of times (an option the dish does not have adds nothing). A restaurant's columns are
its fee, owner, `deletedAt` and its `name`, which stands for the rest. In `MenuService` an UPDATE
and its COMMIT are one step, since the row lock keeps writers away in between; in `OrderService`
they are two, because the clean-up and other requests wait there. `deletedAt` is a flag, so that two
overlapping deletions of one row do not differ; `updatedAt` is left out. `OrderFeed` delivers a
notice to the sockets of the room at once (socket.io keeps the order of one connection, and a
message lost on the wire is a `Disconnect` before it), while the answer of a read arrives at any
later moment. Lists of related rows in a body (a restaurant with dishes, a dish with its order
items) are left out, and so are the primary keys of payments, which only tell one payment from
another. Spellings of a header are two: the one the blacklist is looked up with, and all others the
strategy takes. Redis and the server read one clock. `RequestPipeline` has every route with its
decorators and lets all handlers but sign-out just end. Room names are pairs in place of strings,
ids of restaurants integers whose order is that of the primary key, slugs a function of the name. An
upload's key is fresh, as the uuid makes it. bcrypt, the JWT signature and the templates of mails
are trusted.

## 3. Runs

Passing runs (all finish; counts are distinct states):

| run | instance | shows | states |
|---|---|---|---|
| `order_races` | 1 order, 2 drivers, 2 requests, clean-up, failures | the safety and action properties of orders and the refinement | 200k |
| `order_cleanup` | 2 orders, 1 request, fair | an expired order stays only behind a paid one, no wait for a row lock lasts for ever | 177k |
| `sessions` | 1 user, 2 requests, 2 spellings of the header, lives of 2 s, clock to 3 | `RevokedRejected`, `RejectedForGood`, `SessionEnded` | 2.5M |
| `accounts` | 2 accounts, 2 addresses, 2 names, 1 link, 2 requests, 1 failure, 1 account named by a sign-up | `VerifiedStays`, `VerifiedByMail`, `MailedLinksExpire`, `KeysExpire`, `CacheCatchesUp` | 1.2M |
| `reviews` | `OrderReviews` with 1 order, 1 driver, 1 request on orders; 2 keys, 1 content, 2 clients, 2 requests on reviews, 1 review named by a body | `OneReviewPerOrder`, `ReviewKeepsOrder`, `QuietDeletionFinal`, `ImplementsReviews` | 974k |
| `menu` | 1 restaurant, 1 dish, 1 order of two items, 2 requests, 5 menus, 1 row named by a body | `PricedAtOneMoment`, `RestaurantChangedAsAsked`, `QuietDeletionFinal` | 1.1M |
| `events` | 1 order, 2 tasks, 1 socket that may be anybody's and on either task, 2 requests served by one | `OwnerHears`, `FollowerUpToDate` | 1.9M |
| `requests` | routes signOut, refresh, createOrder, createDish; 1 client with an access and a refresh token, 2 spellings, 2 requests, fair | the chain of guards implements `AccessPolicy`; every request is answered | 120k |
| `catalog` | 3 names of 2 slugs, 2 categories, 3 restaurants, pages of 2, 2 requests, 1 caller, 1 deleted category | `OneCategoryPerSlug`, `NothingSkipped`, `QuietListingExact` | 593k |
| `uploads` | 2 uploads, 4 files, fair | `AnswerNamesStored`, `EveryUploadAnswered` | 50k |

Violation runs, each a disagreement between what the repository says and what the code does:

| run | property | what happens |
|---|---|---|
| `order_goes_back` | `StatusNeverGoesBack` | `editOrderStatus` ignores the current status: a delivered order goes back into the kitchen |
| `reviews_revived` | `DeletionStands` | an update that overlaps a deletion brings the review back |

Further behaviours the models have, which the properties are worded around: one paid expired order
makes the whole DELETE fail, every night (so `ExpiredResolved` excepts orders behind a paid one);
two refreshes of one token that overlap both succeed, and a refresh that overlaps a sign-out opens
the session again (so `SessionEnded` asks that none was under way); a change of the name that
overlaps a change of the password stores the old hash again; a room is told a status that its edit
then rolls back or never writes, and an answer that was read before a notice and arrives after it
takes its place (so `FollowerUpToDate` names both); a restaurant that leaves the list moves the
others to earlier pages, where a caller has been already (so `NothingSkipped` excepts that); a
second category of one slug passes the check and fails at the unique index with a 500; the puts of a
batch that was answered 500 go on and leave objects that no answer names; an accept that read its
order before the clean-up took it is answered 200 without an order; a driver completes a delivery
that another has taken over meanwhile (the check reads a snapshot); the cache is filled with an old
row after the invalidation (so `CacheCatchesUp` says *soon*, not *at once*); a dish is revived like
a review (so `QuietDeletionFinal` excepts updates under way); a second review after a deletion
passes the check and fails at the unique index with a 500; an account whose mail or link got lost
can neither be verified nor signed up again; an option that a cart names twice is charged twice
(`Total` has this rule, so `PricedAtOneMoment` says nothing against it). Three more follow from the
facts of section 1: a notice does not reach the sockets of other tasks, so an owner or a follower
there learns of nothing until he reads (`OwnerHears` and `FollowerUpToDate` speak of the task that
serves the request); a token that was signed out and is not looked up in its header's spelling
counts until it expires (`RevokedRejected`, `RejectedForGood` and `AccessPolicy` speak of one
spelling at a time); a body that names a row by its id or other columns writes what it names
(`strayed`).

Why the bounds are enough. The races are between two requests, or one and the clean-up: checks and
writes of one request overlap one other writer of the same row, and a third request finds a row that
one of the two has left. Rows meet only under one DELETE (hence two orders in `order_cleanup`),
under a unique index (two keys of one order in `reviews`) and in a price (a restaurant and a dish in
`menu`, with a cart that counts an option twice and not at all). A clock of one second more than the
lives lets tokens and keys expire at different times. `MaxMenus = 5` admits the creation of both
rows and three changes between the reads of one order; `MaxFailures = 1` lets a request die at each
of its steps. In `events` one socket suffices, since sockets do not meet, and it may connect to the
task that serves the requests or to the other, join rooms and read for the client and for the owner;
requests on different tasks and drivers would make the states too many, and the proof covers them.
In `requests` the four routes are the kinds of guard list that differ (with roles, without,
refresh), two of them with different roles, and the proof covers every route of `Routes`. In
`catalog` up to three rows under pages of two give a full last page, one that is not full, and an
empty list, and two categories and `Nowhere` are what a restaurant moves between; in `uploads` two
batches overlap and one of them fails in part. In `accounts` two accounts and two addresses let a
sign-up give an account the address another one asks for; `MaxStrayed = 1` lets bodies name one row,
any of them and any number of times, and its two sides are then a row that was named and one that
was not; the entities such bodies make are those that take a review from its order, delete a
restaurant or bring a deleted row back, and the proofs cover all others. `MaxTime`, `MaxMenus`,
`MaxFailures`, `MaxStrayed` and `MaxHidden` (deleted categories) are the only bounds of the
specifications (`MaxFiles` is the code's own limit); the proofs hold for all their values. Deadlock
checking is off where a bound ends the behaviour (`sessions`, `accounts`, `menu`); everywhere else
it is on.

Symmetry is used for request slots, drivers, keys and, in `catalog`, the names of one slug, and in
no run with a liveness property.

Fairness. `OrderService`: node's event loop goes on with every request whose query has returned,
InnoDB grants a lock once it is free and the scheduler starts the nightly job; InnoDB queues those
who wait for a lock, so who waits for one that others keep taking gets it in its turn: strong
fairness of the steps that take a lock (`SaveStatus`, `SavePayment`, `ScanRow`), weak fairness of
the others. `AccountService`: requests go on and Redis drops keys whose time is over.
`RequestPipeline`: a request whose call has returned goes on, and every call to Redis and MySQL
returns or fails. `UploadService`: likewise, and every put to S3 ends. `OrderFeed` and `Catalog`
need none. Of clients it is assumed only what the abstractions of section 2 say of their bodies and
headers; nothing is assumed of the order of requests or of failures.

## 4. Proofs

TLAPS checks, for every value of the constants under the named assumptions (roles are disjoint,
parties of orders exist, `None` is new, `Nowhere` is no category, requests are served by tasks, the
entities that bodies make are rows, the ids of restaurants are a finite set of integers and page
sizes positive, and for sessions `AccessLife <= AccessTTL`: the key lives at least as long as the
token it lists):

| module | theorems |
|---|---|
| `OrderProofs` | of `OrderService`: `TypeCorrect`, `DriverCorrect`, `PaymentsCorrect`, `AnnouncedCorrect`, `HeardCorrect`, `DeletionsCorrect`, `EditsCorrect`, `RowsCorrect`, and `Refinement`: the service implements `OrderLifecycle`; of `OrderFeed`: `FeedIsService` (the composition implements `OrderService`), `OwnersHear`, `FollowersUpToDate` |
| `TokenServiceProofs` | `TypeCorrect`, `RevokedCorrect`, `RejectionStands`, `SessionCorrect` |
| `AccountServiceProofs` | `TypeCorrect`, `VerifiedCorrect`, `VerificationCorrect`, `LinksCorrect`, `KeysCorrect` |
| `ReviewServiceProofs` | `SingleCorrect`, `OrdersKept`, `DeletionCorrect`; of `OrderReviews`: `ReviewsImplemented`, `OrdersImplemented` |
| `MenuServiceProofs` | `PricesCorrect`, `RestaurantsCorrect`, `DeletionCorrect` |
| `RequestPipelineProofs` | `TypeCorrect`, and `PolicyImplemented`: the chain of guards implements `AccessPolicy` |
| `CatalogProofs` | `HasNextAgree` (the two ways in which the code asks for a next page), `SlugsUnique`, `ListingComplete`, `ListingExact`, `NoPageInVain` |
| `UploadServiceProofs` | `AnswersCorrect`, `AnswersStand` |

Each module proves `Spec => []IInv` (`Invariant`; for the compositions, `FeedSpec => []FeedInv` and
`JointSpec => []JointInv`) with one lemma per action, and the rest from it. `IInv` is also an
invariant of the component's run; `FeedInv` and the `IInv` of `UploadService` were tried the same
way outside the runs. What it adds to the properties is what requests in flight remember:

* orders: a status never returns to Pending and a driver is never unassigned, so what an edit has
  read still fits what it leaves alone when it writes (`EditInFlight`); a written row is locked, so
  the DELETE cannot have taken it, and an edit that wrote nothing had nothing to write or its order
  is gone for good (`WriteInFlight`, `ScanInProgress`): so no edit answered 200 is lost but those of
  an order the clean-up has taken;
* sessions: a token that is signed out, or about to be answered as such, is listed until it has
  expired (`RevokedListed`), and while a session is closed nobody is about to store a token
  (`ClosedQuiet`); an entry of the blacklist never goes before its token, signed out or not
  (`EntriesOutlive`), so what the guard has begun to reject it rejects for good;
* accounts: whoever has a token is verified (`ClientsVerified`), hence every save in flight carries
  a verified row with the account's own address (`SaveInFlight`), which is nobody else's
  (`OneAccountPerAddress`); a sign-up that saves a row which was there has named it
  (`SignUpInFlight`), and these facts are kept of every account that none has named; a link on its
  way to a mailbox is in no mailbox yet and verifies the address it is sent to (`LinkInFlight`), so
  whoever follows one verifies the account it was mailed to (`VerificationInFlight`,
  `LinksAsMailed`);
* reviews: the order of a review being written has a driver and is past Pending (`InFlight`), which
  no step of the life cycle takes away, so that the clean-up never reaches it; an update by content
  alone carries the order and the author of the row it will write, and an INSERT by an update is of
  a review that a body has named. With the order service itself (`JointInv` is the `IInv` of both),
  a step of it is one of the life cycle because of its own invariant, and one that leaves the
  orders' rows alone unlinks no review because of `ReviewKeepsOrder`: it takes both invariants to
  see a step of the order service as one of `ReviewService`;
* menus: every read view in flight is a menu of the past and an entity differs from its view only in
  the columns asked for (`InFlight`), but for rows that a body has named;
* orders and their readers: of two transactions that write one order's status at most one is past
  its UPDATE (`OneWriter`), so a follower that was told its target knows what the commit will store
  (`Follows`), while one that another task serves ends what its client can know; an answer that no
  notice has come after carries the stored status (`Current`); whoever is owed a notice has not left
  the owner's room on the task that serves the request (`Due`);
* requests: the place in the list of guards says what was established of the credential
  (`Established`). The blacklist is read before the token is verified: a token signed out in between
  is served, which `AccessPolicy` allows, since it was alive (in the header's spelling) when the
  request came in; one that was dead by then is refused by the first guard if signed out and by the
  second if expired;
* lists: a new row never lowers the rank of another, so as long as no row leaves the list, every row a
  caller is owed and has not seen is behind the pages it has read (`Knows`). The lemmas before it are
  about ranks (those of a finite set are 0 up to its size, each taken once) and about rounding up. As
  long as nothing shrinks, a reader that goes on has a page before it (`PageExists`);
* uploads: a request puts its files only once its handler runs (`FilesOnTheirWay`) and shares no key
  with another request or with an answer (`KeysApart`), so no put that goes on reaches an object
  that an answer has named.

Only model-checked: the liveness properties (`ExpiredResolved`, `RequestsAnswered`,
`CacheCatchesUp`, `EveryRequestAnswered`, `EveryUploadAnswered`), which are beyond the prover as
ENABLED is, and the violations. Trusted: TypeORM's, InnoDB's and
Redis's behaviour as section 1 states it.

## 5. Not modelled

The modules were written in this order: `OrderLifecycle` and `OrderService` (the core of the system,
and its only background job), `TokenService`, `AccountService`, `ReviewService`, `MenuService`, then
`Routes`, `AccessPolicy` and `RequestPipeline`, `UploadService`, `Pagination` and `Catalog`,
`EventsGateway` and `OrderFeed`, `OrderReviews`.

What could still be added: the creation of orders of `MenuService` as the `CreateOrder` of
`OrderService`, with which it shares only the order's row, and the guards of `RequestPipeline` over
the blacklist of `TokenService`, of which they need no more than `RejectionStands`.

Left out for good: the relay of driver locations (messages that keep no state and that nothing reads
back), logging, configuration, swagger and mail templates (no state), the bodies of answers,
`ErrorInterceptor` (registered nowhere), the frontend (views over the HTTP interface that open no
socket) and `dev_infra` (Terraform; only the fact that several tasks run is used). Mail is *partly*
modelled: sending it is a step of sign-up that may fail.
