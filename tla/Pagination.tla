----------------------------- MODULE Pagination -----------------------------
(***************************************************************************)
(* The arithmetic of pages and the page a query selects. Rows are numbers, *)
(* in the order of the primary key.                                        *)
(***************************************************************************)
EXTENDS Integers, FiniteSets

\* How many rows of s come before row x.
Rank(x, s) == Cardinality({y \in s : y < x})

\* skip: the rows of the pages before this one.
Skip(page, limit) == (page - 1) * limit

\* Faulty variant: skip counts from the page itself.
SelectNext(s, page, limit) ==
  {x \in s : Rank(x, s) \in page * limit .. (page + 1) * limit - 1}

\* SELECT with skip and take: limit rows after the first skip ones.
Select(s, page, limit) ==
  {x \in s : Rank(x, s) \in Skip(page, limit) .. Skip(page, limit) + limit - 1}

\* The total is not asked for when a page that is not full tells it. An empty
\* page tells it only if it is the first.
TellsTotal(list, page, limit) ==
  Cardinality(list) < limit /\ (list # {} \/ page = 1)

\* Math.ceil(total / limit).
TotalPages(total, limit) == (total + limit - 1) \div limit

\* Faulty variant: the division is rounded down.
HasNextRoundedDown(total, page, limit) == total \div limit > page

HasNext(total, page, limit) == TotalPages(total, limit) > page

\* PaginationRequest computes the same in another way.
GetHasNext(total, page, limit) == page * limit < total

=============================================================================
