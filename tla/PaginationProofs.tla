-------------------------- MODULE PaginationProofs --------------------------
(***************************************************************************)
(* No row comes twice, and a deletion costs at most one row: the proofs    *)
(* for every table, page size and history of insertions and deletions.     *)
(***************************************************************************)
EXTENDS Pagination, FiniteSetTheorems, TLAPS

\* A row is never moved back: insertions come after it, deletions only take rows
\* away.
LEMMA RankFalls ==
    ASSUME TypeOK, TypeOK', Insert \/ \E d \in Row : Delete(d),
           NEW row \in table \cap table'
    PROVE  Rank(row) \in Nat /\ Rank(row)' \in Nat /\ Rank(row)' <= Rank(row)
<1> DEFINE Before == {r \in table : r < row}
           After == {r \in table' : r < row}
<1>1. rows \in Nat /\ table \subseteq 1..rows
  BY PaginationAssumption DEF TypeOK
<1>2. After \subseteq Before
  BY <1>1 DEF Insert, Delete
<1>3. IsFiniteSet(Before)
  <2>1. IsFiniteSet(1..rows)
    BY <1>1, FS_Interval
  <2> QED
    BY <1>1, <2>1, FS_Subset
<1>4. Cardinality(After) <= Cardinality(Before)
  BY <1>2, <1>3, FS_Subset
<1>5. Cardinality(Before) \in Nat /\ Cardinality(After) \in Nat
  BY <1>2, <1>3, FS_Subset, FS_CardinalityType
<1> QED
  BY <1>4, <1>5 DEF Rank

LEMMA RankIsNat == ASSUME TypeOK, NEW row \in table PROVE Rank(row) \in Nat
<1>1. IsFiniteSet(1..rows) /\ table \subseteq 1..rows
  BY PaginationAssumption, FS_Interval DEF TypeOK
<1>2. IsFiniteSet({r \in table : r < row})
  BY <1>1, FS_Subset
<1> QED
  BY <1>2, FS_CardinalityType DEF Rank

LEMMA TypeInit == Init => TypeOK
<1> SUFFICES ASSUME Init PROVE TypeOK
  OBVIOUS
<1>1. PageOf(0) = 1 /\ PageOf(1) = 1
  BY PaginationAssumption DEF PageOf
<1>2. page = 1
  BY <1>1, PaginationAssumption DEF Init
<1>3. MaxRows \in Nat /\ InitialRows \in Nat /\ InitialRows <= MaxRows /\ MaxDeletes \in Nat
  BY PaginationAssumption
<1>4. rows \in InitialRows..MaxRows /\ deletes \in 0..MaxDeletes /\ total \in 0..MaxRows
  BY <1>3 DEF Init
<1>5. table = 1..rows /\ answered = {} /\ data = {} /\ done \in BOOLEAN
  BY DEF Init
<1>6. reads \in [Row -> Nat]
  BY DEF Init
<1> QED
  BY <1>2, <1>4, <1>5, <1>6 DEF TypeOK

LEMMA TypeStep == TypeOK /\ [Next]_vars => TypeOK'
<1> SUFFICES ASSUME TypeOK, [Next]_vars PROVE TypeOK'
  OBVIOUS
<1>a. MaxRows \in Nat /\ InitialRows \in Nat /\ InitialRows <= MaxRows /\ MaxDeletes \in Nat
  BY PaginationAssumption
<1>b. rows \in Nat /\ rows <= MaxRows /\ table \subseteq 1..rows /\ table \subseteq Row
  BY <1>a DEF TypeOK, Row
<1> USE DEF TypeOK, tableVars
<1>1. CASE Count
  <2>1. IsFiniteSet(1..rows) /\ Cardinality(1..rows) = rows
    BY <1>b, FS_Interval
  <2>2. IsFiniteSet(table) /\ Cardinality(table) <= rows
    BY <1>b, <2>1, FS_Subset
  <2>3. total' \in 0..MaxRows
    BY <1>1, <1>a, <1>b, <2>2, FS_CardinalityType DEF Count
  <2> QED
    BY <1>1, <2>3 DEF Count
<1>2. CASE Find
  <2>1. data' \subseteq Row
    BY <1>2, <1>b DEF Find, FindMany
  <2> QED
    BY <1>2, <2>1 DEF Find
<1>3. CASE TakePage
  <2>1. PageOf(page + 1) = page + 1
    BY DEF PageOf
  <2>2. NextPage(page, total) # 0 => NextPage(page, total) = page + 1
    BY DEF NextPage
  <2>3. page' \in Nat \ {0}
    BY <1>3, <2>1, <2>2 DEF TakePage
  <2>4. reads' \in [Row -> Nat]
    BY <1>3 DEF TakePage
  <2>5. /\ answered' \in {answered, {}} /\ total' \in {total, 0} /\ data' \in {data, {}}
        /\ done' \in BOOLEAN /\ UNCHANGED <<table, rows, deletes>>
    BY <1>3 DEF TakePage
  <2>6. total' \in 0..MaxRows
    BY <2>5, <1>a
  <2> QED
    BY <2>3, <2>4, <2>5, <2>6
<1>4. CASE Insert
  <2>1. rows' \in InitialRows..MaxRows /\ table' \subseteq 1..rows'
    BY <1>4, <1>a, <1>b DEF Insert
  <2> QED
    BY <1>4, <2>1 DEF Insert
<1>5. ASSUME NEW d \in Row, Delete(d) PROVE TypeOK'
  <2>1. deletes' \in 0..MaxDeletes
    BY <1>5, <1>a DEF Delete
  <2> QED
    BY <1>5, <2>1 DEF Delete
<1>6. CASE UNCHANGED vars
  BY <1>6 DEF vars
<1> QED
  BY <1>1, <1>2, <1>3, <1>4, <1>5, <1>6 DEF Next

LEMMA PageInvInit == Init => PageInv
BY PaginationAssumption DEF Init, PageInv, NoRowTwice, Row

LEMMA PageInvStep == TypeOK /\ TypeOK' /\ PageInv /\ [Next]_vars => PageInv'
<1> SUFFICES ASSUME TypeOK, TypeOK', PageInv, [Next]_vars PROVE PageInv'
  OBVIOUS
<1> DEFINE P == DefaultPerPage
<1>p. P \in Nat \ {0} /\ page \in Nat \ {0} /\ rows \in Nat /\ rows <= MaxRows /\ MaxRows \in Nat
  BY PaginationAssumption DEF TypeOK
<1>m. P * page = P * (page - 1) + P /\ P * (page - 1) \in Nat /\ P * page \in Nat
  BY <1>p
<1>1. CASE Count
  BY <1>1 DEF Count, PageInv, NoRowTwice, tableVars, Rank
<1>2. CASE Find
  <2>1. Skip(page) = P * (page - 1)
    BY <1>p DEF Skip
  <2>2. ASSUME NEW row \in data'
        PROVE  row \in table /\ P * (page - 1) <= Rank(row) /\ Rank(row) < P * page
    BY <1>2, <2>1, <1>m DEF Find, FindMany
  <2>3. \A row \in data' : row \in Row /\ row <= rows
    BY <2>2, <1>p DEF TypeOK, Row
  <2>4. ASSUME ~done, NEW row \in data' PROVE reads[row] = 0
    <3>1. ~(reads[row] > 0)
      BY <2>2, <2>4, RankIsNat, <1>m DEF PageInv
    <3> QED
      BY <3>1, <2>3 DEF TypeOK
  <2>5. UNCHANGED <<table, rows, page, reads, done>>
    BY <1>2 DEF Find, tableVars
  <2>6. \A row : Rank(row)' = Rank(row)
    BY <2>5 DEF Rank
  <2> QED
    BY <2>2, <2>3, <2>4, <2>5, <2>6 DEF PageInv, NoRowTwice
<1>3. CASE TakePage
  <2>1. /\ ~done
        /\ reads' = [row \in Row |-> reads[row] + IF row \in data THEN 1 ELSE 0]
        /\ UNCHANGED <<table, rows>>
    BY <1>3 DEF TakePage, tableVars
  <2>2. ASSUME NEW row \in Row
        PROVE  /\ reads[row] \in Nat /\ reads[row] <= 1
               /\ row \in data => reads[row] = 0 /\ reads'[row] = 1
               /\ row \notin data => reads'[row] = reads[row]
    BY <2>1 DEF PageInv, NoRowTwice, TypeOK
  <2>3. NoRowTwice'
    BY <2>2 DEF NoRowTwice
  <2>4. data' \in {data, {}}
    BY <1>3 DEF TakePage
  <2>5. \A row \in Row : reads'[row] > 0 \/ row \in data' => row <= rows
    BY <2>2, <2>4 DEF PageInv
  <2>6. ASSUME ~done' PROVE page' = page + 1 /\ data' = {}
    <3>1. NextPage(page, total) # 0
      BY <1>3, <2>6 DEF TakePage
    <3>2. NextPage(page, total) = page + 1 /\ PageOf(page + 1) = page + 1
      BY <3>1, <1>p DEF NextPage, PageOf
    <3> QED
      BY <1>3, <3>1, <3>2 DEF TakePage
  <2>7. ASSUME ~done', NEW row \in table, reads'[row] > 0
        PROVE  Rank(row) < P * page
    <3>1. row \in Row
      BY <1>p DEF TypeOK, Row
    <3>2. CASE row \in data
      BY <2>1, <3>2 DEF PageInv
    <3>3. CASE row \notin data
      <4>1. Rank(row) < P * (page - 1)
        BY <2>1, <2>2, <2>7, <3>1, <3>3 DEF PageInv
      <4> QED
        BY <4>1, RankIsNat, <1>m, <1>p
    <3> QED
      BY <3>2, <3>3
  <2>8. \A row : Rank(row)' = Rank(row)
    BY <2>1 DEF Rank
  <2>9. \A row \in Row : reads'[row] > 0 \/ row \in data' => row <= rows'
    BY <2>1, <2>5
  <2>10. ASSUME ~done'
         PROVE  /\ \A row \in table' : reads'[row] > 0 => Rank(row)' < P * (page' - 1)
                /\ \A row \in data' : reads'[row] = 0
                /\ \A row \in data' \cap table' : Rank(row)' < P * page'
    <3>1. page' - 1 = page /\ data' = {} /\ table' = table
      BY <2>1, <2>6, <2>10, <1>p
    <3> QED
      BY <2>7, <2>8, <2>10, <3>1
  <2> QED
    BY <2>3, <2>9, <2>10 DEF PageInv
<1>4. CASE Insert \/ \E d \in Row : Delete(d)
  <2>1. /\ UNCHANGED <<page, data, reads, done>>
        /\ rows <= rows' /\ rows' \in Nat
        /\ \A row \in table' : row \in table \/ row = rows + 1
    BY <1>4, <1>p DEF Insert, Delete
  <2>2. ASSUME NEW row \in Row, row = rows + 1 PROVE ~(reads[row] > 0) /\ row \notin data
    BY <2>2, <1>p DEF PageInv
  <2>3. \A row \in Row : reads[row] > 0 \/ row \in data => row <= rows'
    BY <2>1, <1>p DEF PageInv, Row
  <2>4. \A row \in table' : row \in Row
    <3>1. rows' \in Nat /\ rows' <= MaxRows /\ table' \subseteq 1..rows'
      BY <2>1, <1>p, PaginationAssumption DEF TypeOK
    <3> QED
      BY <3>1, <1>p DEF Row
  <2>5. ASSUME ~done, NEW row \in table', reads[row] > 0
        PROVE  Rank(row)' < P * (page - 1)
    <3>1. row \in table
      BY <2>1, <2>2, <2>4, <2>5
    <3>2. Rank(row) < P * (page - 1)
      BY <2>5, <3>1 DEF PageInv
    <3>3. Rank(row) \in Nat /\ Rank(row)' \in Nat /\ Rank(row)' <= Rank(row)
      BY <3>1, <1>4, RankFalls
    <3> QED
      BY <3>2, <3>3, <1>m
  <2>6. ASSUME ~done, NEW row \in data \cap table' PROVE Rank(row)' < P * page
    <3>1. row \in table
      BY <2>1, <2>2, <2>4
    <3>2. Rank(row) < P * page
      BY <2>6, <3>1 DEF PageInv
    <3>3. Rank(row) \in Nat /\ Rank(row)' \in Nat /\ Rank(row)' <= Rank(row)
      BY <3>1, <1>4, RankFalls
    <3> QED
      BY <3>2, <3>3, <1>m
  <2> QED
    BY <2>1, <2>3, <2>5, <2>6 DEF PageInv, NoRowTwice
<1>5. CASE UNCHANGED vars
  BY <1>5 DEF vars, PageInv, NoRowTwice, Rank
<1> QED
  BY <1>1, <1>2, <1>3, <1>4, <1>5 DEF Next

\* A client that follows meta.next gets no row twice, however the table changes
\* under it.
THEOREM PagesDisjoint == Spec => []NoRowTwice
<1>1. Init => TypeOK /\ PageInv
  BY TypeInit, PageInvInit
<1>2. TypeOK /\ PageInv /\ [Next]_vars => TypeOK' /\ PageInv'
  BY TypeStep, PageInvStep
<1>3. TypeOK /\ PageInv => NoRowTwice
  BY DEF PageInv
<1> QED
  BY <1>1, <1>2, <1>3, PTL DEF Spec

-----------------------------------------------------------------------------
(* What deletions cost                                                     *)

\* The table is a finite set of numbers.
LEMMA TableFinite ==
    ASSUME TypeOK
    PROVE  rows \in Nat /\ table \subseteq 1..rows /\ IsFiniteSet(table)
<1>1. rows \in Nat /\ table \subseteq 1..rows
  BY PaginationAssumption DEF TypeOK
<1>2. IsFiniteSet(1..rows)
  BY <1>1, FS_Interval
<1> QED
  BY <1>1, <1>2, FS_Subset

\* A set of rows has a size, and rows have been deleted some natural number of times.
LEMMA RowsFinite ==
    ASSUME TypeOK, NEW S \in SUBSET table
    PROVE  IsFiniteSet(S) /\ Cardinality(S) \in Nat /\ deletes \in Nat
<1>1. IsFiniteSet(S)
  BY TableFinite, FS_Subset
<1>2. deletes \in Nat
  BY PaginationAssumption DEF TypeOK
<1> QED
  BY <1>1, <1>2, FS_CardinalityType

\* Ranks are told apart by their rows, and within the size of the table.
LEMMA RankIsPlace ==
    ASSUME TypeOK, NEW row \in table
    PROVE  /\ Rank(row) < Cardinality(table)
           /\ \A r \in table : r < row => Rank(r) < Rank(row)
<1>1. \A x \in table : x \in Nat
  BY TableFinite
<1>2. IsFiniteSet(table)
  BY TableFinite
<1>3. ASSUME NEW S \in SUBSET table, NEW T \in SUBSET S, S # T
      PROVE  Cardinality(T) < Cardinality(S)
  <2>1. IsFiniteSet(S)
    BY <1>2, FS_Subset
  <2>2. IsFiniteSet(T) /\ Cardinality(T) <= Cardinality(S) /\ Cardinality(S) # Cardinality(T)
    BY <1>3, <2>1, FS_Subset
  <2> QED
    BY <2>1, <2>2, FS_CardinalityType
<1>4. Rank(row) < Cardinality(table)
  <2>1. row \notin {r \in table : r < row}
    BY <1>1
  <2> QED
    BY <1>3, <2>1 DEF Rank
<1>5. ASSUME NEW r \in table, r < row PROVE Rank(r) < Rank(row)
  <2>1. {x \in table : x < r} \subseteq {x \in table : x < row}
    BY <1>1, <1>5
  <2>2. r \in {x \in table : x < row} /\ r \notin {x \in table : x < r}
    BY <1>1, <1>5
  <2> QED
    BY <1>3, <2>1, <2>2 DEF Rank
<1> QED
  BY <1>4, <1>5

\* An insertion moves no row, and a deletion moves a row up one place at most.
LEMMA RankMoves ==
    ASSUME TypeOK, TypeOK', NEW row \in table
    PROVE  /\ Insert => Rank(row)' = Rank(row)
           /\ \A d \in Row : Delete(d) => Rank(row)' + 1 >= Rank(row)
<1> DEFINE Before == {r \in table : r < row}
<1>1. rows \in Nat /\ table \subseteq 1..rows
  BY TableFinite
<1>2. IsFiniteSet(Before)
  BY TableFinite, FS_Subset
<1>3. CASE Insert
  <2>1. {r \in table' : r < row} = Before
    BY <1>1, <1>3 DEF Insert
  <2> QED
    BY <1>3, <2>1 DEF Rank, Insert, Delete
<1>4. ASSUME NEW d \in Row, Delete(d) PROVE Rank(row)' + 1 >= Rank(row)
  <2>1. {r \in table' : r < row} = Before \ {d}
    BY <1>4 DEF Delete
  <2>2. Cardinality(Before \ {d}) = IF d \in Before THEN Cardinality(Before) - 1
                                                    ELSE Cardinality(Before)
    BY <1>2, FS_RemoveElement
  <2>3. Cardinality(Before) \in Nat
    BY <1>2, FS_CardinalityType
  <2> QED
    BY <2>1, <2>2, <2>3 DEF Rank
<1>5. CASE ~Insert
  BY <1>4, <1>5
<1> QED
  BY <1>3, <1>4, <1>5

\* Where the next page is null, the pages up to this one hold the counted rows.
LEMMA LastPageCovers ==
    ASSUME NEW p \in Nat \ {0}, NEW count \in Nat, NextPage(p, count) = 0
    PROVE  count <= DefaultPerPage * p
<1> DEFINE K == DefaultPerPage
           last == (count + K - 1) \div K
<1>1. K \in Nat \ {0}
  BY PaginationAssumption
<1>2. last \in Int /\ count <= K * last
  BY <1>1
<1>3. last <= p
  BY <1>1 DEF NextPage, LastPage
<1>4. K * last <= K * p
  BY <1>1, <1>2, <1>3
<1> QED
  BY <1>1, <1>2, <1>4

\* What the client is given next begins at a natural number.
LEMMA ReachedType ==
    ASSUME TypeOK
    PROVE  /\ Reached \in Nat
           /\ DefaultPerPage * page = DefaultPerPage * (page - 1) + DefaultPerPage
           /\ DefaultPerPage * page \in Nat /\ DefaultPerPage * (page - 1) \in Nat
BY PaginationAssumption DEF TypeOK, Reached

LEMMA MissInit == Init => MissInv
<1> SUFFICES ASSUME Init PROVE MissInv
  OBVIOUS
<1>1. TypeOK
  BY TypeInit
<1>2. page = 1 /\ DefaultPerPage \in Nat
  BY PaginationAssumption DEF Init, PageOf
<1>3. Skipped = {}
  <2>1. Reached = 0
    BY <1>2 DEF Init, Reached
  <2> QED
    BY <1>1, <2>1, RankIsNat DEF Skipped
<1> QED
  BY <1>3, FS_EmptySet DEF Init, MissInv, MissesAtMostDeleted

\* A deletion lets at most the one row fall behind that stood just before what
\* comes next.
LEMMA DeleteSkipsOne ==
    ASSUME TypeOK, TypeOK', NEW d \in Row, Delete(d)
    PROVE  \E row : Skipped' \subseteq Skipped \cup {row}
<1>1. /\ UNCHANGED <<page, answered, reads, data>>
      /\ table' \subseteq table
  BY DEF Delete
<1>2. Reached' = Reached /\ Reached \in Nat
  BY <1>1, ReachedType DEF Reached
<1>3. ASSUME NEW row \in Skipped' \ Skipped
      PROVE  row \in table /\ Rank(row) = Reached
  <2>1. row \in table /\ row \in table' /\ Rank(row)' < Reached /\ ~(Rank(row) < Reached)
    BY <1>1, <1>2, <1>3 DEF Skipped
  <2>2. Rank(row) \in Nat /\ Rank(row)' \in Nat
    BY <2>1, RankFalls
  <2>3. Rank(row)' + 1 >= Rank(row)
    BY <2>1, RankMoves
  <2> QED
    BY <1>2, <2>1, <2>2, <2>3
<1>4. \A r, s \in Skipped' \ Skipped : r = s
  <2> SUFFICES ASSUME NEW r \in Skipped' \ Skipped, NEW s \in Skipped' \ Skipped, r # s
               PROVE  FALSE
    OBVIOUS
  <2>1. r \in table /\ s \in table /\ Rank(r) = Rank(s) /\ Rank(r) \in Nat
    BY <1>2, <1>3
  <2>2. r < s \/ s < r
    BY <2>1, PaginationAssumption DEF TypeOK
  <2> QED
    BY <2>1, <2>2, RankIsPlace
<1> QED
  BY <1>4

LEMMA MissStep == TypeOK /\ TypeOK' /\ PageInv /\ MissInv /\ [Next]_vars => MissInv'
<1> SUFFICES ASSUME TypeOK, TypeOK', PageInv, MissInv, [Next]_vars PROVE MissInv'
  OBVIOUS
<1>p. /\ page \in Nat \ {0} /\ rows \in Nat /\ table \subseteq Row
      /\ InitialRows \in Nat /\ InitialRows <= rows /\ deletes \in Nat
  BY PaginationAssumption DEF TypeOK, Row
<1>1. CASE Count
  <2>1. /\ UNCHANGED <<table, deletes, page, data, reads, done>>
        /\ answered' = answered \cup {"count"} /\ total' = Cardinality(table)
    BY <1>1 DEF Count, tableVars
  <2>2. Skipped' = Skipped
    BY <2>1 DEF Skipped, Reached, Rank
  <2>3. \A row \in table : Rank(row)' < total'
    BY <2>1, RankIsPlace DEF Rank
  <2> QED
    BY <2>1, <2>2, <2>3 DEF MissInv, MissesAtMostDeleted
<1>2. CASE Find
  <2>1. /\ UNCHANGED <<table, deletes, page, total, reads, done>>
        /\ "findMany" \notin answered /\ answered' = answered \cup {"findMany"}
        /\ data' = FindMany(DefaultPerPage, DefaultPerPage * (page - 1))
    BY <1>2, <1>p DEF Find, tableVars, Skip
  <2>2. \A row \in table : Rank(row)' = Rank(row)
    BY <2>1 DEF Rank
  <2>3. ASSUME ~done PROVE Skipped' \subseteq Skipped
    <3>1. data = {}
      BY <2>1, <2>3 DEF MissInv
    <3>2. ASSUME NEW row \in Skipped' PROVE row \in Skipped
      <4>1. row \in table /\ Rank(row) < DefaultPerPage * page /\ row \notin data'
        BY <2>1, <2>2, <3>2 DEF Skipped, Reached
      <4>2. Rank(row) < DefaultPerPage * (page - 1)
        BY <2>1, <4>1, RankIsNat, ReachedType DEF FindMany
      <4> QED
        BY <2>1, <3>1, <3>2, <4>2 DEF Skipped, Reached
    <3> QED
      BY <3>2
  <2>4. ASSUME ~done PROVE Cardinality(Skipped') <= deletes
    <3>1. Skipped \subseteq table
      BY DEF Skipped
    <3>2. Cardinality(Skipped') <= Cardinality(Skipped)
      BY <2>3, <2>4, <3>1, RowsFinite, FS_Subset
    <3> QED
      BY <2>3, <2>4, <3>1, <3>2, RowsFinite DEF MissInv
  <2> QED
    BY <2>1, <2>2, <2>4 DEF MissInv, MissesAtMostDeleted
<1>3. CASE TakePage
  <2>1. /\ ~done /\ answered = {"count", "findMany"}
        /\ UNCHANGED <<table, deletes>>
        /\ reads' = [row \in Row |-> reads[row] + IF row \in data THEN 1 ELSE 0]
    BY <1>3 DEF TakePage, tableVars
  <2>2. \A row \in table : Rank(row)' = Rank(row)
    BY <2>1 DEF Rank
  <2>3. \A row \in table : reads'[row] = 0 <=> reads[row] = 0 /\ row \notin data
    BY <1>p, <2>1 DEF TypeOK
  <2>4. CASE NextPage(page, total) = 0
    <3>1. done'
      BY <1>3, <2>4 DEF TakePage
    <3>2. total <= DefaultPerPage * page
      BY <1>p, <2>4, LastPageCovers, PaginationAssumption DEF TypeOK
    <3>3. {row \in table : row <= InitialRows /\ reads'[row] = 0} \subseteq Skipped
      <4> SUFFICES ASSUME NEW row \in table, row <= InitialRows, reads'[row] = 0
                   PROVE  row \in Skipped
        OBVIOUS
      <4>1. Rank(row) < total
        BY <2>1 DEF MissInv
      <4>2. Rank(row) < Reached
        BY <2>1, <3>2, <4>1, RankIsNat, ReachedType, PaginationAssumption DEF Reached, TypeOK
      <4> QED
        BY <2>3, <4>2 DEF Skipped
    <3>4. Skipped \subseteq table /\ Cardinality(Skipped) <= deletes
      BY <2>1 DEF Skipped, MissInv
    <3>5. Cardinality({row \in table : row <= InitialRows /\ reads'[row] = 0}) <= deletes
      <4>1. IsFiniteSet(Skipped)
        BY <3>4, RowsFinite
      <4>2. Cardinality({row \in table : row <= InitialRows /\ reads'[row] = 0})
              <= Cardinality(Skipped)
        BY <3>3, <4>1, FS_Subset
      <4>3. {row \in table : row <= InitialRows /\ reads'[row] = 0} \in SUBSET table
        OBVIOUS
      <4> QED
        BY <3>4, <4>2, <4>3, RowsFinite
    <3> QED
      BY <2>1, <3>1, <3>5 DEF MissInv, MissesAtMostDeleted
  <2>5. CASE NextPage(page, total) # 0
    <3>1. NextPage(page, total) = page + 1 /\ PageOf(page + 1) = page + 1
      BY <1>p, <2>5 DEF NextPage, PageOf
    <3>2. page' = page + 1 /\ answered' = {} /\ data' = {} /\ ~done'
      BY <1>3, <2>1, <2>5, <3>1 DEF TakePage
    <3>3. Reached' = Reached
      BY <1>p, <2>1, <3>2 DEF Reached
    <3>4. Skipped' = Skipped
      BY <2>1, <2>2, <2>3, <3>2, <3>3 DEF Skipped
    <3> QED
      BY <2>1, <3>2, <3>4 DEF MissInv, MissesAtMostDeleted
  <2> QED
    BY <2>4, <2>5
<1>4. CASE Insert
  <2>1. /\ UNCHANGED <<deletes, page, answered, total, data, reads, done>>
        /\ table' = table \cup {rows + 1}
    BY <1>4 DEF Insert
  <2>2. \A row \in table' : row <= InitialRows => row \in table
    BY <1>p, <2>1
  <2>3. \A row \in table : Rank(row)' = Rank(row)
    BY <1>4, RankMoves
  <2>4. Skipped' = Skipped
    BY <2>1, <2>2, <2>3 DEF Skipped, Reached
  <2>5. {row \in table' : row <= InitialRows /\ reads'[row] = 0} =
        {row \in table : row <= InitialRows /\ reads[row] = 0}
    BY <2>1, <2>2
  <2> QED
    BY <2>1, <2>2, <2>3, <2>4, <2>5 DEF MissInv, MissesAtMostDeleted
<1>5. ASSUME NEW d \in Row, Delete(d) PROVE MissInv'
  <2>1. /\ UNCHANGED <<page, answered, total, data, reads, done>>
        /\ table' \subseteq table /\ deletes' = deletes + 1
    BY <1>5 DEF Delete
  <2>2. \A row \in table' : Rank(row) \in Nat /\ Rank(row)' \in Nat /\ Rank(row)' <= Rank(row)
    BY <1>5, <2>1, RankFalls
  <2>3. ASSUME NEW S, NEW T, NEW x, S \subseteq table, T \subseteq S \cup {x},
               Cardinality(S) <= deletes
        PROVE  Cardinality(T) <= deletes'
    <3>1. IsFiniteSet(S) /\ Cardinality(S) \in Nat
      BY <2>3, RowsFinite
    <3>2. IsFiniteSet(S \cup {x}) /\ Cardinality(S \cup {x}) <= Cardinality(S) + 1
      <4>1. /\ IsFiniteSet(S \cup {x})
            /\ Cardinality(S \cup {x}) = IF x \in S THEN Cardinality(S) ELSE Cardinality(S) + 1
        BY <3>1, FS_AddElement
      <4> QED
        BY <3>1, <4>1
    <3>3. Cardinality(T) <= Cardinality(S \cup {x}) /\ IsFiniteSet(T)
      BY <2>3, <3>2, FS_Subset
    <3> QED
      BY <1>p, <2>1, <2>3, <3>1, <3>2, <3>3, FS_CardinalityType
  <2>4. ASSUME done' PROVE MissesAtMostDeleted'
    <3>1. {row \in table' : row <= InitialRows /\ reads'[row] = 0} \subseteq
            {row \in table : row <= InitialRows /\ reads[row] = 0}
      BY <2>1
    <3>2. Cardinality({row \in table : row <= InitialRows /\ reads[row] = 0}) <= deletes
      BY <2>1, <2>4 DEF MissInv, MissesAtMostDeleted
    <3> QED
      BY <2>3, <3>1, <3>2 DEF MissesAtMostDeleted
  <2>5. ASSUME ~done' PROVE Cardinality(Skipped') <= deletes'
    <3>1. PICK row : Skipped' \subseteq Skipped \cup {row}
      BY <1>5, DeleteSkipsOne
    <3>2. Skipped \subseteq table /\ Cardinality(Skipped) <= deletes
      BY <2>1, <2>5 DEF Skipped, MissInv
    <3> QED
      BY <2>3, <3>1, <3>2
  <2>6. ASSUME ~done', "count" \in answered', NEW row \in table', row <= InitialRows
        PROVE  Rank(row)' < total'
    <3>1. Rank(row) < total
      BY <2>1, <2>6 DEF MissInv
    <3> QED
      BY <2>1, <2>2, <3>1, PaginationAssumption DEF TypeOK
  <2> QED
    BY <2>1, <2>4, <2>5, <2>6 DEF MissInv, MissesAtMostDeleted
<1>6. CASE UNCHANGED vars
  BY <1>6 DEF vars, MissInv, MissesAtMostDeleted, Skipped, Reached, Rank
<1> QED
  BY <1>1, <1>2, <1>3, <1>4, <1>5, <1>6 DEF Next

\* A client that follows meta.next to its end misses at most one of the rows that
\* were there all the time for each row deleted on the way.
THEOREM DeletionsCostOneRow == Spec => []MissesAtMostDeleted
<1>1. Init => TypeOK /\ PageInv /\ MissInv
  BY TypeInit, PageInvInit, MissInit
<1>2. TypeOK /\ PageInv /\ MissInv /\ [Next]_vars => TypeOK' /\ PageInv' /\ MissInv'
  BY TypeStep, PageInvStep, MissStep
<1>3. MissInv => MissesAtMostDeleted
  BY DEF MissInv
<1> QED
  BY <1>1, <1>2, <1>3, PTL DEF Spec

=============================================================================
