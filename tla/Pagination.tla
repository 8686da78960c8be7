----------------------------- MODULE Pagination -----------------------------
(***************************************************************************)
(* createPaginator (src/shared/utils/pagination.util.ts): one page of a    *)
(* table with the number of the next one, and a client that follows those  *)
(* numbers from the first page to the last while rows come and go.         *)
(*                                                                         *)
(* Nothing in the repository calls it.  The client gives arguments by      *)
(* which rows are ordered as they were inserted: a row is the number of    *)
(* its insertion.  The queries for the count and for the rows run at the   *)
(* same time, outside a transaction, and may see different tables.         *)
(***************************************************************************)
EXTENDS Naturals, FiniteSets

CONSTANTS
    DefaultPage,      \* 1
    DefaultPerPage,   \* 15
    FirstPage,        \* what a client may ask for first: 0 is also undefined
    InitialRows,      \* rows of the table when the client begins
    MaxRows,          \* bound: insertions
    MaxDeletes        \* bound: deletions

ASSUME PaginationAssumption ==
    /\ DefaultPage = 1 /\ DefaultPerPage \in Nat \ {0}
    /\ FirstPage \subseteq 0..1
    /\ MaxRows \in Nat /\ InitialRows \in 0..MaxRows /\ MaxDeletes \in Nat

VARIABLES
    table,     \* the rows
    rows,      \* insertions so far
    deletes,   \* deletions so far
    page,      \* the page asked for
    answered,  \* the queries for the page that were answered
    total,     \* the answer to count
    data,      \* the answer to findMany
    reads,     \* how often the client got each row
    done       \* meta.next was null

vars == <<table, rows, deletes, page, answered, total, data, reads, done>>

tableVars == <<table, rows, deletes>>

Row == 1..MaxRows

PageOf(option) == IF option = 0 THEN DefaultPage ELSE option

\* Mutant: rows are skipped by pages.
SkipByPage(p) == IF p > 0 THEN p - 1 ELSE 0

Skip(p) == IF p > 0 THEN DefaultPerPage * (p - 1) ELSE 0

\* Mutant: floor instead of ceil.
LastPageFloor(count) == count \div DefaultPerPage

\* Math.ceil(total / perPage)
LastPage(count) == (count + DefaultPerPage - 1) \div DefaultPerPage

\* meta.next, 0 for null.
NextPage(p, count) == IF p < LastPage(count) THEN p + 1 ELSE 0

\* How many rows stand before this one.
Rank(row) == Cardinality({r \in table : r < row})

\* The rows findMany takes after skipping some.
FindMany(take, skip) == {row \in table : skip <= Rank(row) /\ Rank(row) < skip + take}

Init ==
    /\ table = 1..InitialRows
    /\ rows = InitialRows
    /\ deletes = 0
    /\ page \in {PageOf(option) : option \in FirstPage}
    /\ answered = {}
    /\ total = 0
    /\ data = {}
    /\ reads = [row \in Row |-> 0]
    /\ done = FALSE

TypeOK ==
    /\ table \subseteq 1..rows
    /\ rows \in InitialRows..MaxRows
    /\ deletes \in 0..MaxDeletes
    /\ page \in Nat \ {0}
    /\ answered \subseteq {"count", "findMany"}
    /\ total \in 0..MaxRows
    /\ data \subseteq Row
    /\ reads \in [Row -> Nat]
    /\ done \in BOOLEAN

-----------------------------------------------------------------------------

Count ==
    /\ "count" \notin answered
    /\ answered' = answered \cup {"count"}
    /\ total' = Cardinality(table)
    /\ UNCHANGED <<tableVars, page, data, reads, done>>

Find ==
    /\ "findMany" \notin answered
    /\ answered' = answered \cup {"findMany"}
    /\ data' = FindMany(DefaultPerPage, Skip(page))
    /\ UNCHANGED <<tableVars, page, total, reads, done>>

\* Promise.all resolves; the client takes the page and asks for the next.
TakePage ==
    /\ ~done
    /\ answered = {"count", "findMany"}
    /\ reads' = [row \in Row |-> reads[row] + IF row \in data THEN 1 ELSE 0]
    /\ IF NextPage(page, total) = 0
       THEN /\ done' = TRUE
            /\ UNCHANGED <<page, answered, total, data>>
       ELSE /\ page' = PageOf(NextPage(page, total))
            /\ answered' = {}
            /\ total' = 0
            /\ data' = {}
            /\ UNCHANGED done
    /\ UNCHANGED tableVars

Insert ==
    /\ rows < MaxRows
    /\ rows' = rows + 1
    /\ table' = table \cup {rows + 1}
    /\ UNCHANGED <<deletes, page, answered, total, data, reads, done>>

Delete(row) ==
    /\ deletes < MaxDeletes
    /\ row \in table
    /\ table' = table \ {row}
    /\ deletes' = deletes + 1
    /\ UNCHANGED <<rows, page, answered, total, data, reads, done>>

Next == Count \/ Find \/ TakePage \/ Insert \/ \E row \in Row : Delete(row)

Spec == Init /\ [][Next]_vars

-----------------------------------------------------------------------------
(* Properties                                                              *)

\* Following meta.next from the first page, a client misses no row that was there
\* all the time, except for one per deletion: a row moves up into a page that was
\* read, or the count that names the last page falls.
MissesAtMostDeleted ==
    done => Cardinality({row \in table : row <= InitialRows /\ reads[row] = 0}) <= deletes

\* The client gets no row twice, whatever is inserted and deleted on the way.
NoRowTwice == \A row \in Row : reads[row] <= 1

\* The inductive invariant behind it: the rows the client has stand before the
\* page asked for, and those of the answer on its way are new and not behind it.
PageInv ==
    /\ NoRowTwice
    /\ \A row \in Row : reads[row] > 0 \/ row \in data => row <= rows
    /\ ~done =>
         /\ \A row \in table : reads[row] > 0 => Rank(row) < DefaultPerPage * (page - 1)
         /\ \A row \in data : reads[row] = 0
         /\ \A row \in data \cap table : Rank(row) < DefaultPerPage * page

\* How many rows stand before what the client will be given next.
Reached ==
    IF "findMany" \in answered THEN DefaultPerPage * page ELSE DefaultPerPage * (page - 1)

\* The rows of the beginning that fell behind the client unread.
Skipped ==
    {row \in table : /\ row <= InitialRows /\ reads[row] = 0 /\ row \notin data
                     /\ Rank(row) < Reached}

\* The inductive invariant behind MissesAtMostDeleted: each deletion lets one row
\* fall behind, and the rows of the beginning stand before the counted end.
MissInv ==
    /\ MissesAtMostDeleted
    /\ ~done =>
         /\ Cardinality(Skipped) <= deletes
         /\ "findMany" \notin answered => data = {}
         /\ "count" \in answered =>
              \A row \in table : row <= InitialRows => Rank(row) < total

=============================================================================
