----------------------------- MODULE SampleList ------------------------------
(***************************************************************************)
(* selectSampleList: a list page is made of two queries, each in a         *)
(* transaction of its own, while other requests write the table as module  *)
(* SampleTable says.  The first reads one page of rows, the second counts  *)
(* all rows; the template numbers the rows from the count, and its         *)
(* pagination links lead to the other pages with whatever keyword is in    *)
(* the search field when they are clicked.                                 *)
(***************************************************************************)
EXTENDS SampleTable, Integers, FiniteSets, SequencesExt

CONSTANTS
  ListTabs,   \* the tabs that show lists
  NameHits,   \* the texts a search by name finds
  IdHits,     \* the ids a search by id finds
  PageUnit,   \* rows per page, pageUnit of the properties
  PageSize,   \* pageSize of the properties, which the row numbers use
  MaxWrites   \* bound on writes

ASSUME PagesAssumption == PageUnit \in Nat \ {0} /\ PageSize \in Nat \ {0}
ASSUME HitsAssumption  == NameHits \subseteq Texts /\ IdHits \subseteq Ids
ASSUME WritesAssumption == MaxWrites \in 0 .. MaxInserts

VARIABLES
  at,        \* what a tab's request does: nothing yet, counting, or shown
  query,     \* the search it is made for
  pageIndex,
  rows,      \* the ids read for the page, in the order shown
  total,     \* totalRecordCount
  \* history
  rank,      \* how many rows up to each of rows the search had when it was read
  since,     \* writes since rows was read
  late,      \* ... of them those before the count
  followed,  \* the tab came by page 1 or by a link that was up to date
  writes

listVars == <<row, at, query, pageIndex, rows, total, rank, since, late, followed, writes>>

Queries == {"all", "byName", "byId"}

\* The WHERE clause.  An unknown searchCondition, or no keyword, finds all.
Finds(q, i) == /\ row[i] # Absent
               /\ q = "byName" => row[i].text \in NameHits
               /\ q = "byId"   => i \in IdHits

Found(q) == {i \in Ids : Finds(q, i)}

Least(a, b) == IF a < b THEN a ELSE b

\* ORDER BY ID DESC: the place of a row among those found, the newest first.
Place(q, i) == Cardinality({j \in Found(q) : j >= i})

\* LIMIT PageUnit OFFSET offset
RowsAfter(q, offset) ==
  [k \in 1 .. Least(PageUnit, Cardinality(Found(q)) - offset) |->
     CHOOSE i \in Found(q) : Place(q, i) = offset + k]

Slice(q, p) == RowsAfter(q, (p - 1) * PageUnit)

\* PaginationInfo.getTotalPageCount
TotalPages(n) == IF n = 0 THEN 1 ELSE (n - 1) \div PageUnit + 1

\* The template's number of the k-th row of a tab's page.
Number(u, k) == total[u] + 1 - ((pageIndex[u] - 1) * PageSize + k)

ListTypeOK ==
  /\ row \in [Ids -> [text : Texts, no : 0 .. MaxInserts] \cup {Absent}]
  /\ at \in [ListTabs -> {"away", "counting", "shown"}]
  /\ query \in [ListTabs -> Queries]
  /\ pageIndex \in [ListTabs -> 1 .. TotalPages(MaxId)]
  /\ rows \in [ListTabs -> BoundedSeq(Ids, PageUnit)]
  /\ rank \in [ListTabs -> BoundedSeq(1 .. MaxId, PageUnit)]
  /\ \A u \in ListTabs : Len(rank[u]) = Len(rows[u])
  /\ total \in [ListTabs -> 0 .. MaxId]
  /\ since \in [ListTabs -> 0 .. MaxWrites] /\ late \in [ListTabs -> 0 .. MaxWrites]
  /\ followed \in [ListTabs -> BOOLEAN] /\ writes \in 0 .. MaxWrites

ListInit ==
  /\ TableInit
  /\ at = [u \in ListTabs |-> "away"]
  /\ query = [u \in ListTabs |-> "all"]
  /\ pageIndex = [u \in ListTabs |-> 1]
  /\ rows = [u \in ListTabs |-> <<>>]
  /\ total = [u \in ListTabs |-> 0]
  /\ rank = [u \in ListTabs |-> <<>>]
  /\ since = [u \in ListTabs |-> 0]
  /\ late = [u \in ListTabs |-> 0]
  /\ followed = [u \in ListTabs |-> TRUE]
  /\ writes = 0

\* Mutant of Read: the offset is one row too far.
ReadFromNext(u, q, p) ==
  LET page == RowsAfter(q, (p - 1) * PageUnit + 1)
  IN  /\ rows' = [rows EXCEPT ![u] = page]
      /\ rank' = [rank EXCEPT ![u] =
           [k \in DOMAIN page |-> Cardinality({i \in Found(q) : i <= page[k]})]]

\* The service reads the rows of the page.
Read(u, q, p) ==
  LET page == Slice(q, p)
  IN  /\ rows' = [rows EXCEPT ![u] = page]
      /\ rank' = [rank EXCEPT ![u] =
           [k \in DOMAIN page |-> Cardinality({i \in Found(q) : i <= page[k]})]]

\* A tab asks for page p: the first after a search or a save, or another from a
\* link of the list it shows.
SelectList(u, q, p) ==
  /\ at[u] # "counting"
  /\ p # 1 => at[u] = "shown" /\ p <= TotalPages(total[u])
  /\ Read(u, q, p)
  /\ at' = [at EXCEPT ![u] = "counting"]
  /\ query' = [query EXCEPT ![u] = q]
  /\ pageIndex' = [pageIndex EXCEPT ![u] = p]
  /\ followed' = [followed EXCEPT ![u] = p = 1 \/ (q = query[u] /\ since[u] = 0)]
  /\ since' = [since EXCEPT ![u] = 0]
  /\ UNCHANGED <<row, total, late, writes>>

\* Mutants of SelectListTotCnt: the search is forgotten; full pages are counted.
CountAll(u) ==
  /\ at[u] = "counting"
  /\ total' = [total EXCEPT ![u] = Cardinality(Found("all"))]
  /\ late' = [late EXCEPT ![u] = since[u]]
  /\ at' = [at EXCEPT ![u] = "shown"]
  /\ UNCHANGED <<row, query, pageIndex, rows, rank, since, followed, writes>>

CountPage(u) ==
  /\ at[u] = "counting"
  /\ total' = [total EXCEPT ![u] = TotalPages(Cardinality(Found(query[u]))) * PageUnit]
  /\ late' = [late EXCEPT ![u] = since[u]]
  /\ at' = [at EXCEPT ![u] = "shown"]
  /\ UNCHANGED <<row, query, pageIndex, rows, rank, since, followed, writes>>

\* The service counts, and the page is rendered.
SelectListTotCnt(u) ==
  /\ at[u] = "counting"
  /\ total' = [total EXCEPT ![u] = Cardinality(Found(query[u]))]
  /\ late' = [late EXCEPT ![u] = since[u]]
  /\ at' = [at EXCEPT ![u] = "shown"]
  /\ UNCHANGED <<row, query, pageIndex, rows, rank, since, followed, writes>>

\* Another request saves a row.
Save ==
  /\ writes < MaxWrites
  /\ \E i \in Ids : \/ Delete(i)
                    \/ \E x \in Texts : Update(i, x) \/ Insert(i, x, writes + 1)
  /\ writes' = writes + 1
  /\ since' = [u \in ListTabs |-> IF at[u] = "away" THEN 0 ELSE since[u] + 1]
  /\ UNCHANGED <<at, query, pageIndex, rows, total, rank, late, followed>>

ListNext ==
  \/ Save
  \/ \E u \in ListTabs : \/ \E q \in Queries, p \in 1 .. TotalPages(MaxId) : SelectList(u, q, p)
                     \/ SelectListTotCnt(u)

ListSpec == ListInit /\ [][ListNext]_listVars

-----------------------------------------------------------------------------
(* Properties *)

Gap(a, b) == IF a > b THEN a - b ELSE b - a

\* The number of a row is its place, from the oldest, among the rows the search
\* finds; it is off by no more than the writes between the two queries.
NumbersAreRanks ==
  \A u \in ListTabs : at[u] = "shown" =>
    \A k \in DOMAIN rows[u] : Gap(Number(u, k), rank[u][k]) <= late[u]

\* A page without rows under a list that has some is shown only if a write made
\* the link or the count outdated, or the link carried another search.
LinksLeadToRows ==
  \A u \in ListTabs : at[u] = "shown" /\ followed[u] /\ late[u] = 0 =>
    (rows[u] = <<>> <=> total[u] = 0)
=============================================================================
