------------------------------ MODULE Catalog ------------------------------
(***************************************************************************)
(* Categories, the restaurants in them, and callers of GET /restaurants    *)
(* that read page after page while others create and change restaurants.   *)
(* A restaurant's id is a random uuid and the list is not sorted, so that  *)
(* it comes in the order of the primary key: a new row can get any place.  *)
(*                                                                         *)
(* What is saved is made of the whole body: with the id of a row that is   *)
(* there, save() updates that row, and a body may name deletedAt.          *)
(***************************************************************************)
EXTENDS Pagination

CONSTANTS
  Names,      \* names that categories are created with
  SlugOf,     \* the slug of a name: trimmed, in small letters, hyphenated
  Categories, \* ids of categories
  Nowhere,    \* categoryId null
  MaxHidden,  \* bound on the categories that are marked deleted
  Rows,       \* ids of restaurants
  Limits,     \* page sizes
  Requests,   \* slots for createCategory
  Readers,
  None

ASSUME Parameters ==
  /\ Rows \subseteq Int /\ IsFiniteSet(Rows)
  /\ Limits \subseteq Nat \ {0}
  /\ None \notin Names \cup Categories \cup {Nowhere}
  /\ Nowhere \notin Categories

VARIABLES
  category,     \* table of categories: the name under each id, or None
  hidden,       \* the categories that are marked deleted
  restaurant,   \* the category of each restaurant, None while there is none
                \* or it is marked deleted
  req,          \* the name of each createCategory that has passed its check
  reader        \* the callers that read the list

vars == <<category, hidden, restaurant, req, reader>>

Exists(k) == category[k] # None

\* Categories that a find() returns.
Found == {k \in Categories : Exists(k)} \ hidden

\* Faulty variant: the slug has no unique index.
TakenName(k, name) == \E j \in Categories \ {k} : category[j] = name

\* Another row has this slug: what the unique index refuses.
Taken(k, name) ==
  \E j \in Categories \ {k} : Exists(j) /\ SlugOf[category[j]] = SlugOf[name]

\* The rows with a categoryId, or all rows when none is given.
Matching(filter) ==
  {x \in Rows : restaurant[x] # None /\ filter \in {None, restaurant[x]}}

\* A caller, and for the properties: the rows it is owed, which have matched
\* since it began; the rows it was shown and how many times in all; whether
\* a row has begun (grew) or ceased (shrank) to match.
Resting == [pc |-> "resting", filter |-> None, page |-> 1, limit |-> 1,
            total |-> 0, owed |-> {}, shown |-> {}, count |-> 0,
            grew |-> FALSE, shrank |-> FALSE]

Init ==
  /\ category = [k \in Categories |-> None]
  /\ hidden = {}
  /\ restaurant = [x \in Rows |-> None]
  /\ req = [r \in Requests |-> None]
  /\ reader = [q \in Readers |-> Resting]

-----------------------------------------------------------------------------
\* Categories

\* Nothing is found under the slug; otherwise 409.
CheckSlug(r, name) ==
  /\ req[r] = None
  /\ ~ \E k \in Found : SlugOf[category[k]] = SlugOf[name]
  /\ req' = [req EXCEPT ![r] = name]
  /\ UNCHANGED <<category, hidden, restaurant, reader>>

\* The INSERT, or the UPDATE of the row whose id the body names; a duplicate
\* fails at the unique index and is answered 500.
SaveCategory(r, k, deleted) ==
  /\ req[r] # None
  /\ IF Taken(k, req[r])
     THEN UNCHANGED <<category, hidden>>
     ELSE /\ category' = [category EXCEPT ![k] = req[r]]
          /\ hidden' = IF deleted THEN hidden \cup {k} ELSE hidden \ {k}
  /\ req' = [req EXCEPT ![r] = None]
  /\ UNCHANGED <<restaurant, reader>>

-----------------------------------------------------------------------------
\* Restaurants

\* What a change of the table means to the callers that are reading.
Observe(x, new) ==
  reader' = [q \in Readers |->
    LET Matches(c) == c # None /\ reader[q].filter \in {None, c}
        is == Matches(restaurant[x])
        will == Matches(new)
    IN  [reader[q] EXCEPT !.owed = IF will THEN @ ELSE @ \ {x},
                          !.grew = @ \/ (will /\ ~ is),
                          !.shrank = @ \/ (is /\ ~ will)]]

\* Row x is written with this category, or as a deleted one.
Write(x, c) ==
  /\ restaurant' = [restaurant EXCEPT ![x] = c]
  /\ Observe(x, c)
  /\ UNCHANGED <<category, hidden, req>>

\* Faulty variant: the category is not looked up.
CreateRestaurantAnywhere(x, c) ==
  \/ c \in Categories /\ Write(x, c)
  \/ Found # {} /\ Write(x, None)

\* In a transaction: the category is found, otherwise 404, and row x written.
CreateRestaurant(x, c) ==
  \/ c \in Found /\ Write(x, c)
  \/ Found # {} /\ Write(x, None)

\* The owner of x moves a row, x or the one whose id the body names: to a
\* category that is found, to none at all or, when the body names no category,
\* to that of x.
UpdateRestaurant(x, y, c) ==
  /\ restaurant[x] # None
  /\ c \in Found \cup {Nowhere, None, restaurant[x]}
  /\ Write(y, c)

-----------------------------------------------------------------------------
\* The list

Begin(q, filter, limit) ==
  /\ reader[q].pc = "resting"
  /\ reader' = [reader EXCEPT ![q] =
       [Resting EXCEPT !.pc = "asking", !.filter = filter, !.limit = limit,
                       !.owed = Matching(filter)]]
  /\ UNCHANGED <<category, hidden, restaurant, req>>

\* The caller has the page: it asks for the next if there is one.
Answered(s) ==
  IF HasNext(s.total, s.page, s.limit)
    THEN [s EXCEPT !.pc = "asking", !.page = @ + 1]
    ELSE [s EXCEPT !.pc = "done"]

Shown(s, list) ==
  [s EXCEPT !.shown = @ \cup list, !.count = @ + Cardinality(list)]

\* The first query of findAndCount, which may make the second one needless.
SelectPage(q) ==
  LET s == reader[q]
      list == Select(Matching(s.filter), s.page, s.limit)
  IN  /\ s.pc = "asking"
      /\ reader' = [reader EXCEPT ![q] =
           IF TellsTotal(list, s.page, s.limit)
             THEN Answered([Shown(s, list) EXCEPT
                    !.total = Skip(s.page, s.limit) + Cardinality(list)])
             ELSE [Shown(s, list) EXCEPT !.pc = "counting"]]
      /\ UNCHANGED <<category, hidden, restaurant, req>>

\* The second query: the table may have changed.
CountRows(q) ==
  /\ reader[q].pc = "counting"
  /\ reader' = [reader EXCEPT ![q] =
       Answered([reader[q] EXCEPT
         !.total = Cardinality(Matching(reader[q].filter))])]
  /\ UNCHANGED <<category, hidden, restaurant, req>>

\* A query fails and the caller gives up, or it begins anew.
Rest(q) ==
  /\ reader[q].pc # "resting"
  /\ reader' = [reader EXCEPT ![q] = Resting]
  /\ UNCHANGED <<category, hidden, restaurant, req>>

Next ==
  \/ \E r \in Requests :
       \/ \E name \in Names : CheckSlug(r, name)
       \/ \E k \in Categories, deleted \in BOOLEAN :
            SaveCategory(r, k, deleted) /\ Cardinality(hidden') <= MaxHidden
  \/ \E x \in Rows, c \in Categories \cup {Nowhere, None} :
       \/ CreateRestaurant(x, c)
       \/ \E y \in Rows : UpdateRestaurant(x, y, c)
  \/ \E q \in Readers :
       \/ \E filter \in Categories \cup {None}, limit \in Limits : Begin(q, filter, limit)
       \/ SelectPage(q) \/ CountRows(q) \/ Rest(q)

Spec == Init /\ [][Next]_vars

-----------------------------------------------------------------------------
\* Properties

Reader == [pc : {"resting", "asking", "counting", "done"},
           filter : Categories \cup {None}, page : Nat \ {0}, limit : Nat \ {0},
           total : Nat, owed : SUBSET Rows,
           shown : SUBSET Rows, count : Nat, grew : BOOLEAN, shrank : BOOLEAN]

TypeOK ==
  /\ category \in [Categories -> Names \cup {None}]
  /\ hidden \subseteq Categories
  /\ restaurant \in [Rows -> Categories \cup {Nowhere, None}]
  /\ req \in [Requests -> Names \cup {None}]
  /\ reader \in [Readers -> Reader]

\* Two createCategory requests that overlap never leave two categories with
\* one slug, though both have found none.
OneCategoryPerSlug ==
  \A j, k \in Categories :
    Exists(j) /\ Exists(k) /\ SlugOf[category[j]] = SlugOf[category[k]] => j = k

\* The rows that the pages up to now should have shown.
Behind(s) == s.page * s.limit - (IF s.pc = "asking" THEN s.limit ELSE 0)

\* The page a caller is at is the first or has a row on it.
PageExists(s, rows) ==
  s.page = 1 \/ Skip(s.page, s.limit) < Cardinality(rows)

\* What a caller has seen when these rows match: the rows it is still owed are
\* behind the pages it has read, as long as no row has ceased to match, and if
\* none has begun to match either it has seen just the rows of those pages.
\* The page it is at exists as long as no row has ceased to match.
Knows(s, rows) ==
  /\ s.owed \subseteq rows
  /\ ~ s.shrank => PageExists(s, rows)
  /\ s.pc \in {"asking", "counting"} /\ ~ s.shrank =>
       \A x \in s.owed \ s.shown : Rank(x, rows) >= Behind(s)
  /\ s.pc \in {"asking", "counting"} /\ ~ s.shrank /\ ~ s.grew =>
       /\ s.owed = rows
       /\ s.shown = {x \in rows : Rank(x, rows) < Behind(s)}
       /\ s.count = Cardinality(s.shown)
  /\ s.pc = "done" /\ ~ s.shrank => s.owed \subseteq s.shown
  /\ s.pc = "done" /\ ~ s.shrank /\ ~ s.grew =>
       /\ s.shown = rows
       /\ s.count = Cardinality(s.shown)
       /\ s.total = s.count

IInv ==
  /\ TypeOK
  /\ OneCategoryPerSlug
  /\ \A x \in Rows : restaurant[x] \in Categories => Exists(restaurant[x])
  /\ \A q \in Readers : Knows(reader[q], Matching(reader[q].filter))

\* Whoever reads the list to its last page has seen every restaurant that
\* matched all the time, whatever was created between two pages or between
\* the two queries of a page - unless a restaurant ceased to match, which
\* moves the others to earlier pages.
NothingSkipped ==
  \A q \in Readers :
    reader[q].pc = "done" /\ ~ reader[q].shrank =>
      reader[q].owed \subseteq reader[q].shown

\* If the table does not change for a caller while it reads, it sees every
\* matching restaurant once and no other, is told how many there are, and has
\* asked for no page in vain.
QuietListingExact ==
  \A q \in Readers :
    reader[q].pc = "done" /\ ~ reader[q].shrank /\ ~ reader[q].grew =>
      /\ reader[q].shown = Matching(reader[q].filter)
      /\ reader[q].count = Cardinality(reader[q].shown)
      /\ reader[q].total = reader[q].count
      /\ PageExists(reader[q], reader[q].shown)

=============================================================================
