--------------------------- MODULE CatalogProofs ---------------------------
(***************************************************************************)
(* Reading the list page after page skips nothing, for any rows, page      *)
(* sizes and number of callers, and a slug has one category.               *)
(***************************************************************************)
EXTENDS Catalog, FiniteSetTheorems, TLAPS

-----------------------------------------------------------------------------
\* Ranks

LEMMA RankType ==
  ASSUME NEW S, IsFiniteSet(S), NEW x
  PROVE  Rank(x, S) \in Nat
BY FS_Subset, FS_CardinalityType DEF Rank

LEMMA RankGrows ==
  ASSUME NEW T, IsFiniteSet(T), NEW S \in SUBSET T, NEW x
  PROVE  Rank(x, S) <= Rank(x, T)
<1>1. {y \in S : y < x} \in SUBSET {y \in T : y < x}
  OBVIOUS
<1>2. IsFiniteSet({y \in T : y < x})
  BY FS_Subset
<1>. QED
  BY <1>1, <1>2, FS_Subset DEF Rank

LEMMA RankOrder ==
  ASSUME NEW S \in SUBSET Int, IsFiniteSet(S), NEW x \in S, NEW y \in S, y < x
  PROVE  Rank(y, S) < Rank(x, S)
<1>1. {z \in S : z < y} \in SUBSET {z \in S : z < x}
  <2>1. ASSUME NEW z \in S, z < y
        PROVE  z < x
    <3>1. x \in Int /\ y \in Int /\ z \in Int
      OBVIOUS
    <3>. QED
      BY <2>1, <3>1
  <2>. QED
    BY <2>1
<1>2. y \in {z \in S : z < x} /\ y \notin {z \in S : z < y}
  OBVIOUS
<1>3. IsFiniteSet({z \in S : z < x})
  BY FS_Subset
<1>4. /\ Rank(y, S) <= Rank(x, S)
      /\ Rank(y, S) # Rank(x, S)
  BY <1>1, <1>2, <1>3, FS_Subset DEF Rank
<1>. QED
  BY <1>4, RankType

LEMMA RankBound ==
  ASSUME NEW S \in SUBSET Int, IsFiniteSet(S), NEW x \in S
  PROVE  Rank(x, S) < Cardinality(S)
<1>1. {z \in S : z < x} \in SUBSET S /\ x \notin {z \in S : z < x}
  OBVIOUS
<1>2. Rank(x, S) <= Cardinality(S) /\ Rank(x, S) # Cardinality(S)
  BY <1>1, FS_Subset DEF Rank
<1>. QED
  BY <1>2, RankType, FS_CardinalityType

LEMMA FirstNaturals ==
  ASSUME NEW n \in Nat
  PROVE  IsFiniteSet(0 .. n - 1) /\ Cardinality(0 .. n - 1) = n
<1>1. 0 \in Int /\ n - 1 \in Int
  OBVIOUS
<1>2. /\ IsFiniteSet(0 .. n - 1)
      /\ Cardinality(0 .. n - 1) = IF 0 > n - 1 THEN 0 ELSE (n - 1) - 0 + 1
  BY <1>1, FS_Interval
<1>. QED
  BY <1>2

\* The ranks up to that of a row are all taken.
LEMMA RanksContiguous ==
  ASSUME NEW S \in SUBSET Int, IsFiniteSet(S), NEW x \in S,
         NEW k \in Nat, k <= Rank(x, S)
  PROVE  Cardinality({y \in S : Rank(y, S) < k}) = k
<1> DEFINE L == {y \in S : y < x}
           P == {y \in S : Rank(y, S) < k}
<1>1. PICK n \in Nat : n = Rank(x, S) /\ n = Cardinality(L)
  BY RankType DEF Rank
<1>2. IsFiniteSet(L) /\ IsFiniteSet(P)
  BY FS_Subset
<1>3. ASSUME NEW y \in S, NEW z \in S, Rank(y, S) = Rank(z, S)
      PROVE  y = z
  BY <1>3, RankOrder, RankType
<1>4. ASSUME NEW y \in S
      PROVE  y < x <=> Rank(y, S) < n
  <2>1. x \in Int /\ y \in Int /\ Rank(y, S) \in Nat
    BY RankType
  <2>2. CASE y < x
    BY <1>1, <2>2, RankOrder
  <2>3. CASE y = x
    <3>1. Rank(y, S) = n
      BY <1>1, <2>3
    <3>2. ~ (y < x)
      BY <2>1, <2>3
    <3>3. ~ (Rank(y, S) < n)
      BY <3>1
    <3>. QED
      BY <3>2, <3>3
  <2>4. CASE x < y
    <3>1. n < Rank(y, S)
      BY <1>1, <2>4, RankOrder
    <3>. QED
      BY <2>1, <2>4, <3>1
  <2>. QED
    BY <2>1, <2>2, <2>3, <2>4
<1>5. PICK f : f = [y \in L |-> Rank(y, S)]
  OBVIOUS
<1>6. f \in Injection(L, 0 .. n - 1)
  <2>0. ASSUME NEW y \in L
        PROVE  Rank(y, S) \in 0 .. n - 1
    <3>1. Rank(y, S) \in Nat /\ Rank(y, S) < n
      BY <1>4, RankType
    <3>. QED
      BY <3>1
  <2>1. f \in [L -> 0 .. n - 1]
    BY <1>5, <2>0
  <2>. QED
    BY <1>3, <1>5, <2>1 DEF Injection, IsInjective
<1>7. IsFiniteSet(0 .. n - 1) /\ Cardinality(0 .. n - 1) = n
  BY FirstNaturals
<1>8. f \in Surjection(L, 0 .. n - 1)
  BY <1>1, <1>6, <1>7, FS_Injection
<1>9. PICK g : g = [y \in P |-> Rank(y, S)]
  OBVIOUS
<1>10. g \in Injection(P, 0 .. k - 1)
  <2>1. g \in [P -> 0 .. k - 1]
    BY <1>9, RankType
  <2>. QED
    BY <1>3, <1>9, <2>1 DEF Injection, IsInjective
<1>11. ASSUME NEW i \in 0 .. k - 1
       PROVE  \E y \in P : g[y] = i
  <2>1. i \in 0 .. n - 1
    BY <1>1
  <2>2. PICK y \in L : f[y] = i
    BY <1>8, <2>1 DEF Surjection
  <2>. QED
    BY <1>5, <1>9, <2>2
<1>12. g \in Surjection(P, 0 .. k - 1)
  BY <1>10, <1>11 DEF Injection, Surjection
<1>13. IsFiniteSet(0 .. k - 1) /\ Cardinality(0 .. k - 1) = k
  BY FirstNaturals
<1>. QED
  BY <1>10, <1>12, <1>13, FS_Injection

-----------------------------------------------------------------------------
\* Pages

LEMMA PageArithmetic ==
  ASSUME NEW page \in Nat \ {0}, NEW limit \in Nat \ {0}
  PROVE  /\ page * limit \in Nat
         /\ (page + 1) * limit = page * limit + limit
         /\ Skip(page, limit) = page * limit - limit
         /\ Skip(page, limit) \in Nat
<1>1. page * limit \in Nat /\ (page - 1) * limit \in Nat
  OBVIOUS
<1>2. (page - 1) * limit = page * limit - limit
  OBVIOUS
<1>. QED
  BY <1>1, <1>2 DEF Skip

LEMMA TimesMonotone ==
  ASSUME NEW a \in Nat, NEW b \in Nat, a <= b, NEW limit \in Nat \ {0}
  PROVE  a * limit <= b * limit
<1>1. PICK d \in Nat : b = a + d
  <2>1. b - a \in Nat /\ b = a + (b - a)
    OBVIOUS
  <2>. QED
    BY <2>1
<1>2. b * limit = a * limit + d * limit
  BY <1>1
<1>3. d * limit \in Nat /\ a * limit \in Nat
  OBVIOUS
<1>. QED
  BY <1>2, <1>3

LEMMA DivisionRounds ==
  ASSUME NEW a \in Nat, NEW b \in Nat \ {0}
  PROVE  /\ a \div b \in Nat
         /\ (a \div b) * b <= a
         /\ a < ((a \div b) + 1) * b
OBVIOUS

\* The two ways in which the code asks for a next page agree.
THEOREM HasNextAgree ==
  ASSUME NEW total \in Nat, NEW page \in Nat \ {0}, NEW limit \in Nat \ {0}
  PROVE  HasNext(total, page, limit) <=> GetHasNext(total, page, limit)
<1>1. total + limit - 1 \in Nat
  OBVIOUS
<1>2. PICK d \in Nat : /\ d = TotalPages(total, limit)
                       /\ d * limit <= total + limit - 1
                       /\ total + limit - 1 < (d + 1) * limit
  BY <1>1, DivisionRounds DEF TotalPages
<1>3. page * limit \in Nat /\ d * limit \in Nat /\ (d + 1) * limit \in Nat
  OBVIOUS
<1>4. CASE d > page
  <2>1. (page + 1) * limit <= d * limit
    BY <1>4, TimesMonotone
  <2>2. (page + 1) * limit = page * limit + limit
    BY PageArithmetic
  <2>. QED
    BY <1>2, <1>3, <1>4, <2>1, <2>2 DEF HasNext, GetHasNext
<1>5. CASE d <= page
  <2>1. (d + 1) * limit <= (page + 1) * limit
    BY <1>5, TimesMonotone
  <2>2. (page + 1) * limit = page * limit + limit
    BY PageArithmetic
  <2>. QED
    BY <1>2, <1>3, <1>5, <2>1, <2>2 DEF HasNext, GetHasNext
<1>. QED
  BY <1>4, <1>5

\* A page is full when a row comes after it.
LEMMA FullPage ==
  ASSUME NEW S \in SUBSET Int, IsFiniteSet(S), NEW x \in S,
         NEW page \in Nat \ {0}, NEW limit \in Nat \ {0},
         Rank(x, S) >= page * limit
  PROVE  Cardinality(Select(S, page, limit)) = limit
<1>1. PICK e \in Nat, d \in Nat :
        e = page * limit /\ d = Skip(page, limit) /\ d = e - limit
  BY PageArithmetic
<1> DEFINE A == {y \in S : Rank(y, S) < d}
           B == {y \in S : Rank(y, S) < e}
           P == Select(S, page, limit)
<1>2. Rank(x, S) \in Nat /\ e <= Rank(x, S) /\ d <= Rank(x, S)
  BY <1>1, RankType
<1>3. Cardinality(A) = d /\ Cardinality(B) = e
  BY <1>2, RanksContiguous
<1>4. IsFiniteSet(A) /\ IsFiniteSet(B) /\ IsFiniteSet(P)
  BY FS_Subset DEF Select
<1>5. P = B \ A
  BY <1>1, RankType DEF Select
<1>6. B \cap A = A
  BY <1>1, RankType
<1>7. Cardinality(P) = Cardinality(B) - Cardinality(A)
  BY <1>4, <1>5, <1>6, FS_Difference
<1>. QED
  BY <1>1, <1>3, <1>7

-----------------------------------------------------------------------------
\* What a caller knows

\* The table changes at one row.
LEMMA TableKnows ==
  ASSUME NEW s \in Reader, NEW S, NEW T, IsFiniteSet(S), IsFiniteSet(T),
         NEW x, \A y : y # x => (y \in S <=> y \in T),
         NEW t \in Reader, t.pc = s.pc, t.page = s.page, t.limit = s.limit,
         t.total = s.total, t.shown = s.shown, t.count = s.count,
         t.owed = IF x \in T THEN s.owed ELSE s.owed \ {x},
         t.grew <=> s.grew \/ (x \in T /\ x \notin S),
         t.shrank <=> s.shrank \/ (x \in S /\ x \notin T),
         Knows(s, S)
  PROVE  Knows(t, T)
<1>1. t.owed \subseteq T
  BY DEF Knows
<1>2. Behind(t) = Behind(s)
  BY DEF Behind
<1>3. ASSUME ~ t.shrank
      PROVE  S \in SUBSET T
  BY <1>3
<1>4. ASSUME t.pc \in {"asking", "counting"}, ~ t.shrank,
             NEW y \in t.owed \ t.shown
      PROVE  Rank(y, T) >= Behind(t)
  <2>1. Rank(y, S) >= Behind(s) /\ Rank(y, S) <= Rank(y, T)
    BY <1>3, <1>4, RankGrows DEF Knows
  <2>2. Behind(s) \in Int
    BY DEF Behind, Reader
  <2>. QED
    BY <1>2, <2>1, <2>2, RankType
<1>5. ASSUME ~ t.shrank, ~ t.grew
      PROVE  S = T /\ ~ s.shrank /\ ~ s.grew /\ (t.owed = s.owed \/ x \notin T)
  BY <1>5
<1>6. ASSUME t.pc \in {"asking", "counting"}, ~ t.shrank, ~ t.grew
      PROVE  /\ t.owed = T
             /\ t.shown = {y \in T : Rank(y, T) < Behind(t)}
             /\ t.count = Cardinality(t.shown)
  BY <1>2, <1>5, <1>6 DEF Knows
<1>7. ASSUME t.pc = "done", ~ t.shrank
      PROVE  t.owed \subseteq t.shown
  BY <1>7 DEF Knows
<1>8. ASSUME t.pc = "done", ~ t.shrank, ~ t.grew
      PROVE  /\ t.shown = T
             /\ t.count = Cardinality(t.shown)
             /\ t.total = t.count
  BY <1>5, <1>8 DEF Knows
<1>9. ASSUME ~ t.shrank
      PROVE  PageExists(t, T)
  <2>1. PageExists(s, S)
    BY <1>9 DEF Knows
  <2>2. Cardinality(S) \in Nat /\ Cardinality(T) \in Nat
    BY FS_CardinalityType
  <2>3. Cardinality(S) <= Cardinality(T)
    BY <1>3, <1>9, FS_Subset
  <2>4. Skip(s.page, s.limit) \in Nat
    BY PageArithmetic DEF Reader
  <2>. QED
    BY <2>1, <2>2, <2>3, <2>4 DEF PageExists
<1>. QED
  BY <1>1, <1>4, <1>6, <1>7, <1>8, <1>9 DEF Knows

LEMMA RestingKnows ==
  ASSUME NEW S
  PROVE  Resting \in Reader /\ Knows(Resting, S)
BY DEF Resting, Reader, Knows, PageExists

\* The caller begins with the rows that match.
LEMMA BeginKnows ==
  ASSUME NEW S \in SUBSET Rows, IsFiniteSet(S), NEW s \in Reader, s.pc = "asking",
         s.page = 1, s.owed = S, s.shown = {}, s.count = 0
  PROVE  Knows(s, S)
<1>1. Behind(s) = 0
  BY DEF Behind, Reader
<1>2. \A x \in S : Rank(x, S) \in Nat
  BY RankType
<1>3. s.shown = {x \in S : Rank(x, S) < Behind(s)}
  BY <1>1, <1>2
<1>4. s.count = Cardinality(s.shown)
  BY FS_EmptySet
<1>. QED
  BY <1>1, <1>2, <1>3, <1>4 DEF Knows, PageExists

\* A caller goes on to the next page, which is there.
LEMMA NextKnows ==
  ASSUME NEW s \in Reader, NEW S, IsFiniteSet(S), Knows(s, S), s.pc = "counting",
         s.page * s.limit < Cardinality(S),
         NEW t \in Reader, t.pc = "asking", t.page = s.page + 1, t.limit = s.limit,
         t.owed = s.owed, t.shown = s.shown, t.count = s.count,
         t.grew <=> s.grew, t.shrank <=> s.shrank
  PROVE  Knows(t, S)
<1>1. Behind(t) = Behind(s)
  BY PageArithmetic DEF Behind, Reader
<1>2. PageExists(t, S)
  <2>1. PICK e \in Nat : e = s.page * s.limit /\ e = Skip(t.page, t.limit)
    BY PageArithmetic DEF Skip, Reader
  <2>. QED
    BY <2>1 DEF PageExists
<1>. QED
  BY <1>1, <1>2 DEF Knows

\* A caller is told that there is no next page.
LEMMA CountKnows ==
  ASSUME NEW s \in Reader, NEW S \in SUBSET Int, IsFiniteSet(S), Knows(s, S),
         s.pc = "counting", Cardinality(S) <= s.page * s.limit,
         NEW t \in Reader, t.pc = "done", t.total = Cardinality(S),
         PageExists(s, S) => PageExists(t, S),
         t.owed = s.owed, t.shown = s.shown, t.count = s.count,
         t.grew <=> s.grew, t.shrank <=> s.shrank
  PROVE  Knows(t, S)
<1>1. PICK e \in Nat : e = s.page * s.limit /\ e = Behind(s)
  BY PageArithmetic DEF Behind, Reader
<1>2. ASSUME NEW x \in S
      PROVE  Rank(x, S) \in Nat /\ Rank(x, S) < e
  BY <1>1, RankBound, RankType, FS_CardinalityType
<1>3. ASSUME ~ s.shrank
      PROVE  s.owed \subseteq s.shown
  <2>1. ASSUME NEW x \in s.owed \ s.shown
        PROVE  FALSE
    <3>1. x \in S /\ Rank(x, S) >= e
      BY <1>1, <1>3, <2>1 DEF Knows
    <3>. QED
      BY <1>2, <3>1
  <2>. QED
    BY <2>1
<1>4. ASSUME ~ s.shrank, ~ s.grew
      PROVE  s.shown = S /\ s.count = Cardinality(s.shown)
  <2>1. s.shown = {x \in S : Rank(x, S) < e} /\ s.count = Cardinality(s.shown)
    BY <1>1, <1>4 DEF Knows
  <2>. QED
    BY <1>2, <2>1
<1>5. t.owed \subseteq S
  BY DEF Knows
<1>. QED
  BY <1>3, <1>4, <1>5 DEF Knows

\* The rows behind the pages read, with one page more.
LEMMA PageBehind ==
  ASSUME NEW S, IsFiniteSet(S), NEW page \in Nat \ {0}, NEW limit \in Nat \ {0},
         NEW A, A = {x \in S : Rank(x, S) < Skip(page, limit)}
  PROVE  /\ A \cup Select(S, page, limit)
                = {x \in S : Rank(x, S) < page * limit}
         /\ Cardinality(A \cup Select(S, page, limit))
                = Cardinality(A) + Cardinality(Select(S, page, limit))
<1>1. PICK e \in Nat, d \in Nat :
        e = page * limit /\ d = Skip(page, limit) /\ d = e - limit
  BY PageArithmetic
<1>2. \A x \in S : Rank(x, S) \in Nat
  BY RankType
<1>3. Select(S, page, limit) = {x \in S : Rank(x, S) \in d .. e - 1}
  BY <1>1 DEF Select
<1>4. A \cup Select(S, page, limit) = {x \in S : Rank(x, S) < e}
  BY <1>1, <1>2, <1>3
<1>5. A \cap Select(S, page, limit) = {}
  BY <1>1, <1>2, <1>3
<1>6. IsFiniteSet(A) /\ IsFiniteSet(Select(S, page, limit))
  BY FS_Subset DEF Select
<1>7. PICK P : P = Select(S, page, limit)
  OBVIOUS
<1>8. Cardinality(A \cup P) = Cardinality(A) + Cardinality(P) - Cardinality(A \cap P)
  BY <1>6, <1>7, FS_Union
<1>9. /\ Cardinality(A \cap P) = 0
      /\ Cardinality(A) \in Nat /\ Cardinality(P) \in Nat
  BY <1>5, <1>6, <1>7, FS_EmptySet, FS_CardinalityType
<1>10. Cardinality(A \cup P) = Cardinality(A) + Cardinality(P)
  BY <1>8, <1>9
<1>. QED
  BY <1>1, <1>4, <1>7, <1>10

\* The same for the rows that a caller has seen.
LEMMA SeenWithPage ==
  ASSUME NEW s \in Reader, NEW S, IsFiniteSet(S),
         s.shown = {x \in S : Rank(x, S) < Skip(s.page, s.limit)}
  PROVE  /\ s.shown \cup Select(S, s.page, s.limit)
                = {x \in S : Rank(x, S) < s.page * s.limit}
         /\ Cardinality(s.shown \cup Select(S, s.page, s.limit))
                = Cardinality(s.shown) + Cardinality(Select(S, s.page, s.limit))
<1>0. s.page \in Nat \ {0} /\ s.limit \in Nat \ {0}
  BY DEF Reader
<1>1. PICK A : A = s.shown
  OBVIOUS
<1>2. PICK page \in Nat \ {0} : page = s.page
  BY <1>0
<1>3. PICK limit \in Nat \ {0} : limit = s.limit
  BY <1>0
<1>4. A = {x \in S : Rank(x, S) < Skip(page, limit)}
  BY <1>1, <1>2, <1>3
<1>5. /\ A \cup Select(S, page, limit) = {x \in S : Rank(x, S) < page * limit}
      /\ Cardinality(A \cup Select(S, page, limit))
           = Cardinality(A) + Cardinality(Select(S, page, limit))
  BY <1>4, PageBehind
<1>. QED
  BY <1>1, <1>2, <1>3, <1>5

\* The page is there and the total is asked for.
LEMMA SelectKnows ==
  ASSUME NEW s \in Reader, NEW S \in SUBSET Int, IsFiniteSet(S), Knows(s, S),
         s.pc = "asking", NEW P, P = Select(S, s.page, s.limit),
         NEW t \in Reader, t.pc = "counting", t.page = s.page, t.limit = s.limit,
         t.owed = s.owed, t.shown = s.shown \cup P,
         t.count = s.count + Cardinality(P),
         t.grew <=> s.grew, t.shrank <=> s.shrank
  PROVE  Knows(t, S)
<1>1. PICK e \in Nat, d \in Nat :
        /\ e = s.page * s.limit /\ d = Skip(s.page, s.limit) /\ d = e - s.limit
        /\ Behind(s) = d /\ Behind(t) = e
  BY PageArithmetic DEF Behind, Reader
<1>2. \A x \in S : Rank(x, S) \in Nat
  BY RankType
<1>3. s.limit \in Nat \ {0} /\ s.page \in Nat \ {0}
  BY DEF Reader
<1>4. P = {x \in S : Rank(x, S) \in d .. e - 1}
  BY <1>1, <1>3 DEF Select
<1>5. ASSUME ~ t.shrank, NEW x \in t.owed \ t.shown
      PROVE  Rank(x, S) >= e
  <2>1. x \in S /\ Rank(x, S) >= d
    BY <1>1, <1>5 DEF Knows
  <2>2. Rank(x, S) \notin d .. e - 1
    BY <1>4, <1>5, <2>1
  <2>. QED
    BY <1>2, <2>1, <2>2
<1>6. ASSUME ~ t.shrank, ~ t.grew
      PROVE  /\ t.owed = S
             /\ t.shown = {x \in S : Rank(x, S) < e}
             /\ t.count = Cardinality(t.shown)
  <2>1. /\ s.owed = S
        /\ s.shown = {x \in S : Rank(x, S) < Skip(s.page, s.limit)}
        /\ s.count = Cardinality(s.shown)
    BY <1>1, <1>6 DEF Knows
  <2>2. /\ s.shown \cup P = {x \in S : Rank(x, S) < s.page * s.limit}
        /\ Cardinality(s.shown \cup P) = Cardinality(s.shown) + Cardinality(P)
    <3>1. s.shown = {x \in S : Rank(x, S) < Skip(s.page, s.limit)}
      BY <2>1
    <3>. QED
      BY <3>1, SeenWithPage, Zenon
  <2>. QED
    BY <1>1, <2>1, <2>2
<1>7. t.owed \subseteq S
  BY DEF Knows
<1>. QED
  BY <1>1, <1>5, <1>6, <1>7 DEF Knows, PageExists

\* The page tells the total: it is the last one.
LEMMA LastPageKnows ==
  ASSUME NEW s \in Reader, NEW S \in SUBSET Int, IsFiniteSet(S), Knows(s, S),
         s.pc = "asking", NEW P, P = Select(S, s.page, s.limit),
         TellsTotal(P, s.page, s.limit),
         NEW t \in Reader, t.pc = "done", PageExists(s, S) => PageExists(t, S),
         t.total = Skip(s.page, s.limit) + Cardinality(P),
         t.owed = s.owed, t.shown = s.shown \cup P,
         t.count = s.count + Cardinality(P),
         t.grew <=> s.grew, t.shrank <=> s.shrank
  PROVE  Knows(t, S)
<1>1. PICK e \in Nat, d \in Nat :
        /\ e = s.page * s.limit /\ d = Skip(s.page, s.limit) /\ d = e - s.limit
        /\ Behind(s) = d
  BY PageArithmetic DEF Behind, Reader
<1>2. \A x \in S : Rank(x, S) \in Nat
  BY RankType
<1>3. s.limit \in Nat \ {0} /\ s.page \in Nat \ {0}
  BY DEF Reader
<1>4. P = {x \in S : Rank(x, S) \in d .. e - 1}
  BY <1>1, <1>3 DEF Select
<1>5. ASSUME NEW x \in S
      PROVE  Rank(x, S) < e
  <2>1. CASE Rank(x, S) >= e
    <3>1. Cardinality(P) = s.limit
      BY <1>1, <1>3, <2>1, FullPage
    <3>. QED
      BY <1>3, <3>1 DEF TellsTotal
  <2>. QED
    BY <1>2, <2>1
<1>6. ASSUME ~ t.shrank
      PROVE  t.owed \subseteq t.shown
  <2>1. ASSUME NEW x \in s.owed \ s.shown
        PROVE  x \in P
    <3>1. x \in S /\ Rank(x, S) >= d
      BY <1>1, <1>6, <2>1 DEF Knows
    <3>. QED
      BY <1>2, <1>4, <1>5, <3>1
  <2>. QED
    BY <2>1
<1>7. ASSUME ~ t.shrank, ~ t.grew
      PROVE  /\ t.shown = S
             /\ t.count = Cardinality(t.shown)
             /\ t.total = t.count
  <2>1. /\ s.shown = {x \in S : Rank(x, S) < Skip(s.page, s.limit)}
        /\ s.count = Cardinality(s.shown)
    BY <1>1, <1>7 DEF Knows
  <2>2. /\ t.shown = {x \in S : Rank(x, S) < e}
        /\ t.count = Cardinality(t.shown)
    <3>1. /\ s.shown \cup P = {x \in S : Rank(x, S) < s.page * s.limit}
          /\ Cardinality(s.shown \cup P) = Cardinality(s.shown) + Cardinality(P)
      BY <2>1, SeenWithPage, Zenon
    <3>. QED
      BY <1>1, <2>1, <3>1
  <2>3. t.shown = S
    BY <1>5, <2>2
  <2>4. s.count = d
    <3>1. CASE s.page = 1
      <4>1. d = 0
        BY <1>1, <1>3, <3>1
      <4>2. s.shown = {}
        <5>1. ASSUME NEW x \in S
              PROVE  ~ (Rank(x, S) < d)
          BY <1>2, <4>1
        <5>. QED
          BY <1>1, <2>1, <5>1
      <4>. QED
        BY <2>1, <4>1, <4>2, FS_EmptySet
    <3>2. CASE P # {}
      <4>1. PICK x : x \in P
        BY <3>2
      <4>2. x \in S /\ d <= Rank(x, S)
        BY <1>4, <4>1
      <4>. QED
        BY <1>1, <2>1, <4>2, RanksContiguous
    <3>. QED
      BY <3>1, <3>2 DEF TellsTotal
  <2>. QED
    BY <1>1, <2>2, <2>3, <2>4
<1>8. t.owed \subseteq S
  BY DEF Knows
<1>. QED
  BY <1>6, <1>7, <1>8 DEF Knows

-----------------------------------------------------------------------------
\* The service

LEMMA MatchingRows ==
  ASSUME NEW filter
  PROVE  /\ Matching(filter) \in SUBSET Rows /\ Matching(filter) \in SUBSET Int
         /\ IsFiniteSet(Matching(filter))
BY Parameters, FS_Subset DEF Matching

\* A row is written: createRestaurant and updateRestaurant.
LEMMA WriteInv ==
  ASSUME IInv, NEW x \in Rows, NEW c \in Categories \cup {Nowhere, None},
         c \in Categories => Exists(c), Write(x, c)
  PROVE  IInv'
<1>0. /\ restaurant' = [restaurant EXCEPT ![x] = c] /\ Observe(x, c)
      /\ UNCHANGED <<category, hidden, req>>
  BY DEF Write
<1>1. /\ restaurant \in [Rows -> Categories \cup {Nowhere, None}]
      /\ restaurant' \in [Rows -> Categories \cup {Nowhere, None}]
      /\ reader \in [Readers -> Reader]
  BY <1>0 DEF IInv, TypeOK
<1>2. ASSUME NEW q \in Readers
      PROVE  /\ reader'[q] \in Reader
             /\ Knows(reader[q], Matching(reader[q].filter))'
  <2>1. PICK s \in Reader : s = reader[q]
    BY <1>1
  <2>2. PICK will \in BOOLEAN : will <=> c # None /\ s.filter \in {None, c}
    OBVIOUS
  <2>3. PICK is \in BOOLEAN :
          is <=> restaurant[x] # None /\ s.filter \in {None, restaurant[x]}
    OBVIOUS
  <2>4. PICK owed : owed = IF will THEN s.owed ELSE s.owed \ {x}
    OBVIOUS
  <2>5. PICK grew \in BOOLEAN : grew <=> s.grew \/ (will /\ ~ is)
    OBVIOUS
  <2>6. PICK shrank \in BOOLEAN : shrank <=> s.shrank \/ (is /\ ~ will)
    OBVIOUS
  <2>7. PICK t : t = [s EXCEPT !.owed = owed, !.grew = grew, !.shrank = shrank]
    OBVIOUS
  <2>8. reader'[q] = t
    BY <1>0, <2>1, <2>2, <2>3, <2>4, <2>5, <2>6, <2>7 DEF Observe
  <2>9. owed \in SUBSET Rows
    BY <2>4 DEF Reader
  <2>10. /\ t \in Reader /\ t.pc = s.pc /\ t.filter = s.filter /\ t.page = s.page
         /\ t.limit = s.limit /\ t.total = s.total /\ t.shown = s.shown
         /\ t.count = s.count /\ t.owed = owed
         /\ t.grew = grew /\ t.shrank = shrank
    BY <2>7, <2>9 DEF Reader
  <2>11. PICK S : S = Matching(s.filter)
    OBVIOUS
  <2>12. PICK T : T = {y \in Rows : /\ restaurant'[y] # None
                                    /\ s.filter \in {None, restaurant'[y]}}
    OBVIOUS
  <2>13. \A y : y # x => (y \in S <=> y \in T)
    BY <1>0, <1>1, <2>11, <2>12 DEF Matching
  <2>14. (x \in T <=> will) /\ (x \in S <=> is)
    BY <1>0, <1>1, <2>2, <2>3, <2>11, <2>12, Parameters DEF Matching
  <2>15. IsFiniteSet(S) /\ IsFiniteSet(T)
    BY <2>11, <2>12, Parameters, FS_Subset DEF Matching
  <2>16. Knows(s, S)
    BY <2>1, <2>11 DEF IInv
  <2>17. Knows(t, T)
    BY <2>4, <2>5, <2>6, <2>10, <2>13, <2>14, <2>15, <2>16, TableKnows
  <2>18. Matching(reader[q].filter)' = T
    BY <2>8, <2>10, <2>12 DEF Matching
  <2>. QED
    BY <2>8, <2>10, <2>17, <2>18 DEF Knows, PageExists, Behind
<1>3. reader' \in [Readers -> Reader]
  <2>1. reader' = [q \in Readers |-> reader'[q]]
    BY <1>0 DEF Observe
  <2>. QED
    BY <1>2, <2>1
<1>4. TypeOK'
  BY <1>0, <1>1, <1>3 DEF IInv, TypeOK
<1>5. \A y \in Rows : (restaurant[y] \in Categories => Exists(restaurant[y]))'
  BY <1>0, <1>1 DEF IInv, Exists
<1>6. OneCategoryPerSlug'
  BY <1>0 DEF IInv, OneCategoryPerSlug, Exists
<1>. QED
  BY <1>2, <1>4, <1>5, <1>6 DEF IInv

\* One caller moves to t, and the tables stay as they are.
LEMMA ReaderMoves ==
  ASSUME IInv, NEW q \in Readers, NEW t \in Reader,
         reader' = [reader EXCEPT ![q] = t],
         UNCHANGED <<category, hidden, restaurant, req>>,
         Knows(t, Matching(t.filter))
  PROVE  IInv'
<1>1. reader \in [Readers -> Reader]
  BY DEF IInv, TypeOK
<1>2. TypeOK'
  BY <1>1 DEF IInv, TypeOK
<1>3. ASSUME NEW p \in Readers
      PROVE  Knows(reader[p], Matching(reader[p].filter))'
  <2>1. PICK u : u = reader'[p]
    OBVIOUS
  <2>2. u = IF p = q THEN t ELSE reader[p]
    BY <1>1, <2>1
  <2>3. Knows(u, Matching(u.filter))
    BY <2>2 DEF IInv
  <2>4. Matching(u.filter)' = Matching(u.filter)
    BY DEF Matching
  <2>. QED
    BY <2>1, <2>3, <2>4 DEF Knows, PageExists, Behind, Matching
<1>. QED
  BY <1>2, <1>3 DEF IInv, OneCategoryPerSlug, Exists

LEMMA BeginInv ==
  ASSUME IInv, NEW q \in Readers, NEW filter \in Categories \cup {None},
         NEW limit \in Limits, Begin(q, filter, limit)
  PROVE  IInv'
<1>1. PICK t : t = [Resting EXCEPT !.pc = "asking", !.filter = filter,
                                   !.limit = limit, !.owed = Matching(filter)]
  OBVIOUS
<1>2. t = [pc |-> "asking", filter |-> filter, page |-> 1, limit |-> limit,
           total |-> 0, owed |-> Matching(filter), shown |-> {}, count |-> 0,
           grew |-> FALSE, shrank |-> FALSE]
  BY <1>1 DEF Resting
<1>3. limit \in Nat \ {0} /\ Matching(filter) \in SUBSET Rows
  BY Parameters, MatchingRows
<1>4. t \in Reader
  BY <1>2, <1>3 DEF Reader
<1>5. /\ t.pc = "asking" /\ t.page = 1 /\ t.owed = Matching(t.filter)
      /\ t.shown = {} /\ t.count = 0
  BY <1>2
<1>6. Knows(t, Matching(t.filter))
  BY <1>4, <1>5, MatchingRows, BeginKnows
<1>. QED
  BY <1>1, <1>4, <1>6, ReaderMoves DEF Begin

LEMMA RestInv ==
  ASSUME IInv, NEW q \in Readers, Rest(q)
  PROVE  IInv'
BY RestingKnows, ReaderMoves DEF Rest

\* The page that is read last tells the total and has no next one.
LEMMA NoNextPage ==
  ASSUME NEW s \in Reader, NEW n \in Nat, n < s.limit
  PROVE  ~ HasNext(Skip(s.page, s.limit) + n, s.page, s.limit)
<1>1. s.page \in Nat \ {0} /\ s.limit \in Nat \ {0}
  BY DEF Reader
<1>2. PICK page \in Nat \ {0}, limit \in Nat \ {0} :
        page = s.page /\ limit = s.limit
  BY <1>1
<1>3. PICK e \in Nat, d \in Nat :
        e = page * limit /\ d = Skip(page, limit) /\ d = e - limit
  BY PageArithmetic
<1>4. ~ GetHasNext(d + n, page, limit)
  BY <1>2, <1>3 DEF GetHasNext
<1>5. d + n \in Nat
  OBVIOUS
<1>6. ~ HasNext(d + n, page, limit)
  BY <1>4, <1>5, HasNextAgree
<1>. QED
  BY <1>2, <1>3, <1>6

LEMMA SelectPageInv ==
  ASSUME IInv, NEW q \in Readers, SelectPage(q)
  PROVE  IInv'
<1>1. PICK s \in Reader : s = reader[q]
  BY DEF IInv, TypeOK
<1>2. PICK S \in SUBSET Rows : S = Matching(s.filter)
  BY MatchingRows
<1>3. PICK P : P = Select(S, s.page, s.limit)
  OBVIOUS
<1>4. S \in SUBSET Int /\ IsFiniteSet(S)
  BY <1>2, MatchingRows
<1>5. P \in SUBSET Rows /\ IsFiniteSet(P) /\ Cardinality(P) \in Nat
  BY <1>3, <1>4, FS_Subset, FS_CardinalityType DEF Select
<1>6. Knows(s, S)
  BY <1>1, <1>2 DEF IInv
<1>7a. Skip(s.page, s.limit) \in Nat
  BY PageArithmetic DEF Reader
<1>7b. PICK shown \in SUBSET Rows : shown = s.shown \cup P
  BY <1>5 DEF Reader
<1>7c. PICK count \in Nat : count = s.count + Cardinality(P)
  BY <1>5 DEF Reader
<1>7d. PICK total \in Nat : total = Skip(s.page, s.limit) + Cardinality(P)
  BY <1>5, <1>7a
<1>7. /\ shown = s.shown \cup P
      /\ count = s.count + Cardinality(P)
      /\ total = Skip(s.page, s.limit) + Cardinality(P)
  BY <1>7b, <1>7c, <1>7d
<1>8. CASE TellsTotal(P, s.page, s.limit)
  <2>1. PICK t : t = [s EXCEPT !.pc = "done", !.shown = shown, !.count = count,
                               !.total = total]
    OBVIOUS
  <2>2. /\ t \in Reader /\ t.pc = "done" /\ t.filter = s.filter
        /\ t.total = total /\ t.shown = shown /\ t.count = count
        /\ t.page = s.page /\ t.limit = s.limit
        /\ t.owed = s.owed /\ t.grew = s.grew /\ t.shrank = s.shrank
    BY <2>1 DEF Reader
  <2>3. Knows(t, S)
    <3>1. PageExists(s, S) => PageExists(t, S)
      BY <2>2 DEF PageExists
    <3>. QED
      BY <1>1, <1>3, <1>4, <1>6, <1>7, <1>8, <2>2, <3>1, LastPageKnows
      DEF SelectPage
  <2>4. ~ HasNext(total, s.page, s.limit)
    BY <1>5, <1>7, <1>8, NoNextPage DEF TellsTotal
  <2>5. Answered([Shown(s, P) EXCEPT !.total = total]) = t
    BY <1>7, <2>1, <2>4 DEF Answered, Shown, Reader
  <2>6. reader' = [reader EXCEPT ![q] = t]
    BY <1>1, <1>2, <1>3, <1>7, <1>8, <2>5 DEF SelectPage
  <2>. QED
    BY <1>2, <2>2, <2>3, <2>6, ReaderMoves DEF SelectPage
<1>9. CASE ~ TellsTotal(P, s.page, s.limit)
  <2>1. PICK t : t = [s EXCEPT !.pc = "counting", !.shown = shown, !.count = count]
    OBVIOUS
  <2>2. /\ t \in Reader /\ t.pc = "counting" /\ t.filter = s.filter
        /\ t.page = s.page /\ t.limit = s.limit
        /\ t.shown = shown /\ t.count = count
        /\ t.owed = s.owed /\ t.grew = s.grew /\ t.shrank = s.shrank
    BY <2>1 DEF Reader
  <2>3. Knows(t, S)
    BY <1>1, <1>3, <1>4, <1>6, <1>7, <2>2, SelectKnows DEF SelectPage
  <2>4. [Shown(s, P) EXCEPT !.pc = "counting"] = t
    BY <1>7, <2>1 DEF Shown, Reader
  <2>5. reader' = [reader EXCEPT ![q] = t]
    BY <1>1, <1>2, <1>3, <1>9, <2>4 DEF SelectPage
  <2>. QED
    BY <1>2, <2>2, <2>3, <2>5, ReaderMoves DEF SelectPage
<1>. QED
  BY <1>8, <1>9

LEMMA CountRowsInv ==
  ASSUME IInv, NEW q \in Readers, CountRows(q)
  PROVE  IInv'
<1>1. PICK s \in Reader : s = reader[q]
  BY DEF IInv, TypeOK
<1>2. PICK S \in SUBSET Rows : S = Matching(s.filter)
  BY MatchingRows
<1>3. S \in SUBSET Int /\ IsFiniteSet(S)
  BY <1>2, MatchingRows
<1>4. PICK total \in Nat : total = Cardinality(S)
  BY <1>3, FS_CardinalityType
<1>5. Knows(s, S) /\ s.pc = "counting"
  BY <1>1, <1>2 DEF IInv, CountRows
<1>6. s.page \in Nat \ {0} /\ s.limit \in Nat \ {0}
  BY DEF Reader
<1>7. CASE HasNext(total, s.page, s.limit)
  <2>0. PICK next \in Nat \ {0} : next = s.page + 1
    BY <1>6
  <2>1. PICK t : t = [s EXCEPT !.total = total, !.pc = "asking", !.page = next]
    OBVIOUS
  <2>2. /\ t \in Reader /\ t.pc = "asking" /\ t.filter = s.filter
        /\ t.page = next /\ t.limit = s.limit
        /\ t.shown = s.shown /\ t.count = s.count
        /\ t.owed = s.owed /\ t.grew = s.grew /\ t.shrank = s.shrank
    BY <2>1 DEF Reader
  <2>3. Knows(t, S)
    <3>1. GetHasNext(total, s.page, s.limit)
      BY <1>6, <1>7, HasNextAgree
    <3>2. s.page * s.limit < Cardinality(S)
      BY <1>4, <3>1 DEF GetHasNext
    <3>. QED
      BY <1>3, <1>5, <2>0, <2>2, <3>2, NextKnows
  <2>4. Answered([s EXCEPT !.total = total]) = t
    BY <1>7, <2>0, <2>1 DEF Answered, Reader
  <2>5. reader' = [reader EXCEPT ![q] = t]
    BY <1>1, <1>2, <1>4, <2>4 DEF CountRows
  <2>. QED
    BY <1>2, <2>2, <2>3, <2>5, ReaderMoves DEF CountRows
<1>8. CASE ~ HasNext(total, s.page, s.limit)
  <2>1. PICK t : t = [s EXCEPT !.total = total, !.pc = "done"]
    OBVIOUS
  <2>2. /\ t \in Reader /\ t.pc = "done" /\ t.filter = s.filter
        /\ t.total = total /\ t.shown = s.shown /\ t.count = s.count
        /\ t.page = s.page /\ t.limit = s.limit
        /\ t.owed = s.owed /\ t.grew = s.grew /\ t.shrank = s.shrank
    BY <1>4, <2>1 DEF Reader
  <2>3. Cardinality(S) <= s.page * s.limit
    <3>1. ~ GetHasNext(total, s.page, s.limit)
      BY <1>6, <1>8, HasNextAgree
    <3>2. PICK e \in Nat : e = s.page * s.limit
      BY <1>6, PageArithmetic
    <3>. QED
      BY <1>4, <3>1, <3>2 DEF GetHasNext
  <2>4. Knows(t, S)
    <3>1. PageExists(s, S) => PageExists(t, S)
      BY <2>2 DEF PageExists
    <3>. QED
      BY <1>3, <1>4, <1>5, <2>2, <2>3, <3>1, CountKnows
  <2>5. Answered([s EXCEPT !.total = total]) = t
    BY <1>8, <2>1 DEF Answered, Reader
  <2>6. reader' = [reader EXCEPT ![q] = t]
    BY <1>1, <1>2, <1>4, <2>5 DEF CountRows
  <2>. QED
    BY <1>2, <2>2, <2>4, <2>6, ReaderMoves DEF CountRows
<1>. QED
  BY <1>7, <1>8

\* createCategory does not touch the restaurants, nor their callers.
LEMMA CategoryInv ==
  ASSUME IInv, NEW r \in Requests,
         \/ \E k \in Categories, deleted \in BOOLEAN : SaveCategory(r, k, deleted)
         \/ \E name \in Names : CheckSlug(r, name)
  PROVE  IInv'
<1>1. /\ category \in [Categories -> Names \cup {None}]
      /\ category' \in [Categories -> Names \cup {None}]
      /\ \A k \in Categories : Exists(k) => Exists(k)'
      /\ hidden' \subseteq Categories
      /\ UNCHANGED <<restaurant, reader>>
      /\ req' \in [Requests -> Names \cup {None}]
  BY Parameters DEF SaveCategory, CheckSlug, IInv, TypeOK, Exists
<1>2. TypeOK'
  BY <1>1 DEF IInv, TypeOK
<1>3. OneCategoryPerSlug'
  BY <1>1 DEF SaveCategory, CheckSlug, Taken, IInv, OneCategoryPerSlug, Exists
<1>4. \A q \in Readers : Knows(reader[q], Matching(reader[q].filter))'
  BY <1>1 DEF IInv, Knows, PageExists, Behind, Matching
<1>5. \A x \in Rows : (restaurant[x] \in Categories => Exists(restaurant[x]))'
  BY <1>1 DEF IInv
<1>. QED
  BY <1>2, <1>3, <1>4, <1>5 DEF IInv

LEMMA InitInv == Init => IInv
<1>1. SUFFICES ASSUME Init PROVE IInv
  OBVIOUS
<1>2. TypeOK
  BY <1>1, RestingKnows DEF Init, TypeOK
<1>3. \A q \in Readers : Knows(reader[q], Matching(reader[q].filter))
  BY <1>1, RestingKnows DEF Init
<1>. QED
  BY <1>1, <1>2, <1>3, Parameters DEF Init, IInv, OneCategoryPerSlug, Exists

LEMMA StepInv == IInv /\ [Next]_vars => IInv'
<1>1. SUFFICES ASSUME IInv, [Next]_vars PROVE IInv'
  OBVIOUS
<1>2. ASSUME NEW x \in Rows, NEW y \in Rows,
             NEW c \in Categories \cup {Nowhere, None},
             CreateRestaurant(y, c) \/ UpdateRestaurant(x, y, c)
      PROVE  IInv'
  <2>1. PICK d \in Categories \cup {Nowhere, None} :
          /\ Write(y, d)
          /\ d \in Found \cup {Nowhere, None} \/ d = restaurant[x]
    BY <1>2 DEF CreateRestaurant, UpdateRestaurant
  <2>2. d \in Categories => Exists(d)
    BY <1>1, <2>1, Parameters DEF Found, Exists, IInv, TypeOK
  <2>. QED
    BY <1>1, <2>1, <2>2, WriteInv
<1>3. CASE UNCHANGED vars
  <2>1. UNCHANGED <<category, hidden, restaurant, req, reader>>
    BY <1>3 DEF vars
  <2>2. \A q \in Readers : Knows(reader[q], Matching(reader[q].filter))'
    BY <1>1, <2>1 DEF IInv, Knows, PageExists, Behind, Matching
  <2>. QED
    BY <1>1, <2>1, <2>2 DEF IInv, TypeOK, OneCategoryPerSlug, Exists
<1>. QED
  BY <1>1, <1>2, <1>3, CategoryInv, BeginInv, SelectPageInv, CountRowsInv, RestInv
  DEF Next

\* The inductive invariant: what a caller has seen of the rows that match.
THEOREM Invariant == Spec => []IInv
BY InitInv, StepInv, PTL DEF Spec

\* Two createCategory requests that overlap leave one category per slug.
THEOREM SlugsUnique == Spec => []OneCategoryPerSlug
<1>1. IInv => OneCategoryPerSlug
  BY DEF IInv
<1>. QED
  BY <1>1, Invariant, PTL

\* Whoever reads the list to its last page has seen every restaurant that
\* matched all the time, for any number of rows, page size and callers.
THEOREM ListingComplete == Spec => []NothingSkipped
<1>1. IInv => NothingSkipped
  BY DEF IInv, NothingSkipped, Knows
<1>. QED
  BY <1>1, Invariant, PTL

\* hasNext: a caller that follows it is at no page without rows, but for the only
\* page of an empty list, as long as no row has ceased to match.
THEOREM NoPageInVain ==
  Spec => [](\A q \in Readers : ~ reader[q].shrank =>
               PageExists(reader[q], Matching(reader[q].filter)))
<1>1. IInv => \A q \in Readers : ~ reader[q].shrank =>
                PageExists(reader[q], Matching(reader[q].filter))
  BY DEF IInv, Knows
<1>. QED
  BY <1>1, Invariant, PTL

\* With no change of the table in between, the pages show every matching row
\* once, the total is their number, and no page was asked for in vain.
THEOREM ListingExact == Spec => []QuietListingExact
<1>1. IInv => QuietListingExact
  BY DEF IInv, QuietListingExact, Knows
<1>. QED
  BY <1>1, Invariant, PTL

=============================================================================
