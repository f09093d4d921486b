---------------------------- MODULE RangeProofs ----------------------------
(* remove and fetch select what the manual says, of tables and sessions of  *)
(* any size: the subqueries count rows, so the proofs are about how many    *)
(* rows stand before and after a row.                                       *)
EXTENDS Ranges, RowidTheorems, FiniteSetTheorems

----------------------------------------------------------------------------
(* Positions.  The rows of a table are numbered from 0 in rowid order.      *)

Rows(table) == Cardinality(DOMAIN table)
PositionOf(table, r) == Cardinality(Before(table, r))

LEMMA RowsAreFinite ==
  ASSUME NEW table, Bounded(DOMAIN table)
  PROVE  IsFiniteSet(DOMAIN table) /\ Rows(table) \in Nat
<1>1. IsFiniteSet(DOMAIN table)
  BY FS_BoundedSetOfNaturals DEF Bounded
<1> QED
  BY <1>1, FS_CardinalityType DEF Rows

LEMMA Positions ==
  ASSUME NEW table, Bounded(DOMAIN table), NEW r \in DOMAIN table
  PROVE  /\ PositionOf(table, r) \in 0 .. Rows(table) - 1
         /\ Cardinality(After(table, r)) \in Nat
         /\ PositionOf(table, r) + Cardinality(After(table, r)) + 1 = Rows(table)
<1> DEFINE B == Before(table, r)
           A == After(table, r)
<1>1. IsFiniteSet(DOMAIN table) /\ Rows(table) \in Nat
  BY RowsAreFinite
<1>2. \A q \in DOMAIN table : q \in Nat
  BY DEF Bounded
<1>3. /\ B \in SUBSET (DOMAIN table) /\ A \in SUBSET (DOMAIN table)
      /\ r \notin B /\ r \notin A /\ A \cap B = {} /\ (A \cup B) \cup {r} = DOMAIN table
  BY <1>2 DEF Before, After
<1> HIDE DEF A, B
<1>4. IsFiniteSet(A) /\ IsFiniteSet(B)
  BY <1>1, <1>3, FS_Subset
<1>5. Cardinality(A) \in Nat /\ Cardinality(B) \in Nat
  BY <1>4, FS_CardinalityType
<1>6. IsFiniteSet(A \cup B) /\ Cardinality(A \cup B) = Cardinality(A) + Cardinality(B) - Cardinality(A \cap B)
  BY <1>4, FS_Union
<1>7. Cardinality(A \cap B) = 0
  BY <1>3, FS_EmptySet
<1>8. Cardinality((A \cup B) \cup {r}) = Cardinality(A \cup B) + 1
  BY <1>3, <1>6, FS_AddElement
<1>9. Cardinality(B) + Cardinality(A) + 1 = Rows(table)
  BY <1>3, <1>5, <1>6, <1>7, <1>8 DEF Rows
<1> QED
  BY <1>5, <1>9 DEF PositionOf, A, B

\* The order of the positions is that of the rowids.
LEMMA PositionsGrow ==
  ASSUME NEW table, Bounded(DOMAIN table), NEW q \in DOMAIN table, NEW r \in DOMAIN table
  PROVE  q < r <=> PositionOf(table, q) < PositionOf(table, r)
<1>1. IsFiniteSet(DOMAIN table)
  BY RowsAreFinite
<1>2. \A x \in DOMAIN table : x \in Nat
  BY DEF Bounded
<1>3. ASSUME NEW x \in DOMAIN table, NEW y \in DOMAIN table, x < y
      PROVE  PositionOf(table, x) < PositionOf(table, y)
  <2> DEFINE X == Before(table, x)
             Y == Before(table, y)
  <2>1. X \cup {x} \in SUBSET Y /\ x \notin X /\ Y \in SUBSET (DOMAIN table)
    BY <1>2, <1>3 DEF Before
  <2> HIDE DEF X, Y
  <2>2. IsFiniteSet(Y)
    BY <1>1, <2>1, FS_Subset
  <2>3. IsFiniteSet(X)
    BY <2>1, <2>2, FS_Subset
  <2>4. Cardinality(X \cup {x}) = Cardinality(X) + 1
    BY <2>1, <2>3, FS_AddElement
  <2>5. Cardinality(X \cup {x}) <= Cardinality(Y)
    BY <2>1, <2>2, FS_Subset
  <2>6. Cardinality(X) \in Nat /\ Cardinality(Y) \in Nat
    BY <2>2, <2>3, FS_CardinalityType
  <2> QED
    BY <2>4, <2>5, <2>6 DEF PositionOf, X, Y
<1>4. PositionOf(table, q) \in Int /\ PositionOf(table, r) \in Int
  BY Positions
<1>5. q < r \/ r < q \/ q = r
  BY <1>2
<1> QED
  BY <1>2, <1>3, <1>4, <1>5

\* No position is left out, whatever gaps the rowids have.
LEMMA PositionsAreTaken ==
  ASSUME NEW table, Bounded(DOMAIN table), NEW k \in 0 .. Rows(table) - 1
  PROVE  \E r \in DOMAIN table : PositionOf(table, r) = k
<1> DEFINE S == DOMAIN table
           T == 0 .. Rows(table) - 1
           f == [r \in S |-> PositionOf(table, r)]
<1>1. IsFiniteSet(S) /\ Rows(table) \in Nat
  BY RowsAreFinite
<1>2. IsFiniteSet(T) /\ Cardinality(T) = Rows(table)
  <2>1. Rows(table) - 1 \in Int
    BY <1>1
  <2>2. PICK last \in Int : last = Rows(table) - 1
    BY <2>1
  <2>3. IsFiniteSet(0 .. last) /\ Cardinality(0 .. last) = IF 0 > last THEN 0 ELSE last - 0 + 1
    BY FS_Interval
  <2> QED
    BY <1>1, <2>2, <2>3
<1>3. f \in [S -> T]
  BY Positions
<1>4. \A q, r \in S : f[q] = f[r] => q = r
  <2>1. SUFFICES ASSUME NEW q \in S, NEW r \in S, f[q] = f[r] PROVE q = r
    OBVIOUS
  <2>2. PositionOf(table, q) = PositionOf(table, r) /\ PositionOf(table, q) \in Int
    BY <2>1, Positions
  <2> HIDE DEF f, T
  <2>3. /\ q < r <=> PositionOf(table, q) < PositionOf(table, r)
        /\ r < q <=> PositionOf(table, r) < PositionOf(table, q)
    BY PositionsGrow
  <2>4. ~(q < r) /\ ~(r < q)
    BY <2>2, <2>3
  <2> QED
    BY <2>4 DEF Bounded
<1>5. f \in Injection(S, T)
  BY <1>3, <1>4 DEF Injection, IsInjective
<1>6. f \in Surjection(S, T)
  BY <1>1, <1>2, <1>5, FS_Injection DEF Rows
<1>7. PICK r \in S : f[r] = k
  BY <1>6 DEF Surjection
<1> QED
  BY <1>7

LEMMA MaxOfTwo ==
  ASSUME NEW x \in Int
  PROVE  Max({0, x}) = IF x >= 0 THEN x ELSE 0
<1>1. PICK m \in {0, x} : \A y \in {0, x} : m >= y
  OBVIOUS
<1>2. Max({0, x}) \in {0, x} /\ \A y \in {0, x} : Max({0, x}) >= y
  BY <1>1 DEF Max
<1> QED
  BY <1>2

----------------------------------------------------------------------------
(* remove: the rows the subqueries of GetWhereFromRange count to.           *)

\* A row that an offset, from either end, counts to stands at the position the
\* index means.
LEMMA RowAtIsAtPosition ==
  ASSUME NEW table, Bounded(DOMAIN table), NEW k \in Int, NEW r \in RowAt(table, k)
  PROVE  r \in DOMAIN table /\ PositionOf(table, r) = Position(table, k)
<1>1. r \in DOMAIN table /\ Rows(table) \in Nat
  BY RowsAreFinite DEF RowAt
<1>2. /\ PositionOf(table, r) \in 0 .. Rows(table) - 1
      /\ PositionOf(table, r) + Cardinality(After(table, r)) + 1 = Rows(table)
      /\ Cardinality(After(table, r)) \in Nat
  BY <1>1, Positions
<1>3. CASE k >= 0
  <2>1. ~(k < 0)
    BY <1>3
  <2> QED
    BY <1>1, <1>3, <2>1 DEF RowAt, Position, PositionOf
<1>4. CASE k < 0
  <2>1. Cardinality(After(table, r)) = -1 * k - 1
    BY <1>4 DEF RowAt
  <2>2. PositionOf(table, r) = Rows(table) + k /\ Rows(table) + k >= 0
    BY <1>1, <1>2, <2>1
  <2>3. Max({0, Rows(table) + k}) = Rows(table) + k
    BY <1>1, <2>2, MaxOfTwo
  <2> QED
    BY <1>1, <1>4, <2>2, <2>3 DEF Position, Rows
<1> QED
  BY <1>3, <1>4

\* An index inside the table counts to a row.
LEMMA RowAtExists ==
  ASSUME NEW table, Bounded(DOMAIN table), NEW k \in Int,
         -1 * Rows(table) <= k, k < Rows(table)
  PROVE  RowAt(table, k) # {}
<1>1. Rows(table) \in Nat
  BY RowsAreFinite
<1>2. CASE k >= 0
  <2>1. PICK r \in DOMAIN table : PositionOf(table, r) = k
    BY <1>1, <1>2, PositionsAreTaken
  <2>2. r \in RowAt(table, k)
    BY <1>2, <2>1 DEF RowAt, PositionOf
  <2> QED
    BY <2>2
<1>3. CASE k < 0
  <2>1. PICK r \in DOMAIN table : PositionOf(table, r) = Rows(table) + k
    BY <1>1, <1>3, PositionsAreTaken
  <2>2. Cardinality(After(table, r)) = -1 * k - 1
    BY <1>1, <2>1, Positions
  <2>3. r \in RowAt(table, k)
    BY <1>3, <2>1, <2>2 DEF RowAt
  <2> QED
    BY <2>3
<1> QED
  BY <1>2, <1>3

\* The bounds of a range: an index is an integer.
Start == [by : {"index"}, at : Int] \cup [by : {"indicator"}, at : Nat]
End == Start \cup {NoEnd}

\* remove selects nothing outside the slice, and all of it when both indices are
\* those of rows.
LEMMA SliceOfTable ==
  ASSUME NEW table, Bounded(DOMAIN table), NEW start \in Start, NEW end \in End
  PROVE  /\ FromRange(table, start, end) \subseteq Slice(table, start, end)
         /\ Exists(table, start) /\ Exists(table, end) =>
              FromRange(table, start, end) = Slice(table, start, end)
<1>1. /\ start.by = "index" => start.at \in Int
      /\ end.by = "index" => end.at \in Int
      /\ start.by \in {"index", "indicator"} /\ end.by \in {"index", "indicator", "none"}
  BY DEF Start, End, NoEnd
<1>2. ASSUME NEW r \in FromRange(table, start, end)
      PROVE  r \in Slice(table, start, end)
  <2>1. r \in DOMAIN table /\ PositionOf(table, r) \in Int
    BY Positions DEF FromRange
  <2>2. start.by = "index" => PositionOf(table, r) >= Position(table, start.at)
    <3>1. SUFFICES ASSUME start.by = "index"
                   PROVE  PositionOf(table, r) >= Position(table, start.at)
      OBVIOUS
    <3>2. PICK first \in RowAt(table, start.at) : r >= first
      BY <3>1 DEF FromRange
    <3>3. first \in DOMAIN table /\ PositionOf(table, first) = Position(table, start.at)
      BY <1>1, <3>1, RowAtIsAtPosition
    <3>4. PositionOf(table, first) \in Int
      BY <3>3, Positions
    <3>5. r < first <=> PositionOf(table, r) < PositionOf(table, first)
      BY <2>1, <3>3, PositionsGrow
    <3>6. r \in Nat /\ first \in Nat
      BY <2>1, <3>3 DEF Bounded
    <3> QED
      BY <2>1, <3>2, <3>3, <3>4, <3>5, <3>6
  <2>3. end.by = "index" => PositionOf(table, r) < Position(table, end.at)
    <3>1. SUFFICES ASSUME end.by = "index"
                   PROVE  PositionOf(table, r) < Position(table, end.at)
      OBVIOUS
    <3>2. PICK last \in RowAt(table, end.at) : r < last
      BY <3>1 DEF FromRange
    <3>3. last \in DOMAIN table /\ PositionOf(table, last) = Position(table, end.at)
      BY <1>1, <3>1, RowAtIsAtPosition
    <3>4. r < last <=> PositionOf(table, r) < PositionOf(table, last)
      BY <2>1, <3>3, PositionsGrow
    <3> QED
      BY <3>2, <3>3, <3>4
  <2>4. /\ start.by = "indicator" => table[r] >= start.at
        /\ end.by = "indicator" => table[r] <= end.at
    BY DEF FromRange
  <2> QED
    BY <2>1, <2>2, <2>3, <2>4 DEF Slice, PositionOf
<1>3. ASSUME Exists(table, start), Exists(table, end), NEW r \in Slice(table, start, end)
      PROVE  r \in FromRange(table, start, end)
  <2>1. r \in DOMAIN table /\ PositionOf(table, r) \in Int
    BY Positions DEF Slice
  <2>2. start.by = "index" => \E first \in RowAt(table, start.at) : r >= first
    <3>1. SUFFICES ASSUME start.by = "index"
                   PROVE  \E first \in RowAt(table, start.at) : r >= first
      OBVIOUS
    <3>2. PICK first \in RowAt(table, start.at) : TRUE
      BY <1>1, <1>3, <3>1, RowAtExists DEF Exists, Rows
    <3>3. first \in DOMAIN table /\ PositionOf(table, first) = Position(table, start.at)
      BY <1>1, <3>1, RowAtIsAtPosition
    <3>4. PositionOf(table, first) \in Int
      BY <3>3, Positions
    <3>5. PositionOf(table, r) >= Position(table, start.at)
      BY <3>1 DEF Slice, PositionOf
    <3>6. r < first <=> PositionOf(table, r) < PositionOf(table, first)
      BY <2>1, <3>3, PositionsGrow
    <3>7. r \in Nat /\ first \in Nat
      BY <2>1, <3>3 DEF Bounded
    <3> QED
      BY <2>1, <3>2, <3>3, <3>4, <3>5, <3>6, <3>7
  <2>3. end.by = "index" => \E last \in RowAt(table, end.at) : r < last
    <3>1. SUFFICES ASSUME end.by = "index"
                   PROVE  \E last \in RowAt(table, end.at) : r < last
      OBVIOUS
    <3>2. PICK last \in RowAt(table, end.at) : TRUE
      BY <1>1, <1>3, <3>1, RowAtExists DEF Exists, Rows
    <3>3. last \in DOMAIN table /\ PositionOf(table, last) = Position(table, end.at)
      BY <1>1, <3>1, RowAtIsAtPosition
    <3>4. PositionOf(table, r) < Position(table, end.at)
      BY <3>1 DEF Slice, PositionOf
    <3>5. r < last <=> PositionOf(table, r) < PositionOf(table, last)
      BY <2>1, <3>3, PositionsGrow
    <3> QED
      BY <3>2, <3>3, <3>4, <3>5
  <2>4. /\ start.by = "indicator" => table[r] >= start.at
        /\ end.by = "indicator" => table[r] <= end.at
    BY DEF Slice
  <2> QED
    BY <1>1, <2>1, <2>2, <2>3, <2>4 DEF FromRange
<1> QED
  BY <1>2, <1>3

----------------------------------------------------------------------------
(* fetch: the rows of a session have no gaps, and getWhere reckons with the *)
(* largest rowid.                                                           *)

\* The position of the command in row r.
LEMMA CommandPositions ==
  ASSUME NEW n \in Nat, NEW table, DOMAIN table = 1 .. n
  PROVE  Rows(table) = n /\ \A r \in 1 .. n : PositionOf(table, r) = r - 1
<1>1. Rows(table) = n
  <2>1. Cardinality(1 .. n) = IF 1 > n THEN 0 ELSE n - 1 + 1
    BY FS_Interval
  <2> QED
    BY <2>1 DEF Rows
<1>2. ASSUME NEW r \in 1 .. n PROVE PositionOf(table, r) = r - 1
  <2>1. PICK last \in Int : last = r - 1
    OBVIOUS
  <2>2. Before(table, r) = 1 .. last
    BY <2>1 DEF Before
  <2>3. Cardinality(1 .. last) = IF 1 > last THEN 0 ELSE last - 1 + 1
    BY FS_Interval
  <2> QED
    BY <2>1, <2>2, <2>3 DEF PositionOf
<1> QED
  BY <1>1, <1>2

\* With n + 1 rows getWhere cuts where the manual does, with n rows one command
\* before, and not before the first.
LEMMA CutsAtPosition ==
  ASSUME NEW n \in Nat, NEW table, DOMAIN table = 1 .. n, NEW k \in Int, NEW r \in 1 .. n
  PROVE  /\ k >= 0 => (r > k <=> PositionOf(table, r) >= Position(table, k))
         /\ k < 0 => (r >= n + 1 + k <=> PositionOf(table, r) >= Position(table, k))
         /\ k < 0 => (r >= n + k <=> PositionOf(table, r) >= Position(table, k - 1))
<1>1. PositionOf(table, r) = r - 1 /\ Rows(table) = n
  BY CommandPositions
<1>2. k >= 0 => Position(table, k) = k
  BY DEF Position
<1>3. k < 0 => Position(table, k) = IF n + k >= 0 THEN n + k ELSE 0
  <2>1. k < 0 => Position(table, k) = Max({0, n + k})
    <3>1. Cardinality(DOMAIN table) = n /\ (k < 0 => ~(k >= 0))
      BY <1>1 DEF Rows
    <3> QED
      BY <3>1 DEF Position
  <2>2. PICK x \in Int : x = n + k
    OBVIOUS
  <2>3. Max({0, x}) = IF x >= 0 THEN x ELSE 0
    BY MaxOfTwo
  <2> QED
    BY <2>1, <2>2, <2>3
<1>4. k < 0 => Position(table, k - 1) = IF n + (k - 1) >= 0 THEN n + (k - 1) ELSE 0
  <2>1. k < 0 => Position(table, k - 1) = Max({0, n + (k - 1)})
    <3>1. Cardinality(DOMAIN table) = n /\ (k < 0 => ~(k - 1 >= 0))
      BY <1>1 DEF Rows
    <3> QED
      BY <3>1 DEF Position
  <2>2. PICK x \in Int : x = n + (k - 1)
    OBVIOUS
  <2>3. Max({0, x}) = IF x >= 0 THEN x ELSE 0
    BY MaxOfTwo
  <2> QED
    BY <2>1, <2>2, <2>3
<1> QED
  BY <1>1, <1>2, <1>3, <1>4

----------------------------------------------------------------------------
(* The invariant: rowids are natural numbers and have a largest, and the    *)
(* commands of the session are a sequence.                                  *)

Command == [indicator : Time, status : Status]

RangesInv ==
  /\ Bounded(DOMAIN meta)
  /\ commands \in Seq(Command)
  /\ open \in BOOLEAN

LEMMA RangesInvHolds == RangesSpec => []RangesInv
<1>1. RangesInit => RangesInv
  <2>1. SUFFICES ASSUME RangesInit PROVE RangesInv
    OBVIOUS
  <2>2. DOMAIN meta = {}
    BY <2>1 DEF RangesInit
  <2>3. Bounded(DOMAIN meta)
    BY <2>2 DEF Bounded
  <2>4. commands \in Seq(Command) /\ open \in BOOLEAN
    BY <2>1 DEF RangesInit
  <2> QED
    BY <2>2, <2>3, <2>4 DEF RangesInv
<1>2. RangesInv /\ [RangesNext]_rangeVars => RangesInv'
  <2>1. SUFFICES ASSUME RangesInv, [RangesNext]_rangeVars PROVE RangesInv'
    OBVIOUS
  <2>2. ASSUME NEW i \in Time, BeginSession(i) PROVE RangesInv'
    <3>1. meta' = WithRow(meta, i)
      BY <2>2 DEF BeginSession, Inserted, WithRow, FreshRowid, NextRowid
    <3>2. Bounded(DOMAIN WithRow(meta, i))
      BY <2>1, RowAdded DEF RangesInv
    <3> QED
      BY <2>1, <2>2, <3>1, <3>2 DEF RangesInv, BeginSession
  <2>3. ASSUME NEW start \in RangeBounds, NEW end \in RangeBounds, RemoveRange(start, end)
        PROVE  RangesInv'
    <3>1. DOMAIN meta' \subseteq DOMAIN meta
      BY <2>3 DEF RemoveRange, Restrict
    <3>2. Bounded(DOMAIN meta')
      BY <2>1, <3>1 DEF RangesInv, Bounded
    <3> QED
      BY <2>1, <2>3, <3>2 DEF RangesInv, RemoveRange
  <2>4. ASSUME NEW t \in Time, NEW status \in Status, FinishCommand(t, status) PROVE RangesInv'
    <3>1. [indicator |-> t, status |-> status] \in Command
      BY DEF Command
    <3>2. /\ commands' = Append(commands, [indicator |-> t, status |-> status])
          /\ meta' = meta /\ open' = FALSE
      BY <2>4 DEF FinishCommand
    <3>3. commands' \in Seq(Command)
      BY <2>1, <3>1, <3>2 DEF RangesInv
    <3> QED
      BY <2>1, <3>2, <3>3 DEF RangesInv
  <2>5. CASE OpenRow
    BY <2>1, <2>5 DEF RangesInv, OpenRow
  <2>6. CASE UNCHANGED rangeVars
    BY <2>1, <2>6 DEF RangesInv, rangeVars
  <2> QED
    BY <2>1, <2>2, <2>3, <2>4, <2>5, <2>6 DEF RangesNext
<1> QED
  BY <1>1, <1>2, PTL DEF RangesSpec

----------------------------------------------------------------------------
LEMMA BoundsAreBounds ==
  RangeBounds \subseteq Start /\ RangeBounds \cup {NoEnd} \subseteq End
  BY TimeAssumption DEF RangeBounds, Start, End, Index, ByIndicator

\* remove (gets.go:71-108) selects nothing outside the slice the manual describes,
\* and all of it when both indices are those of sessions: of any number of
\* sessions, whatever rowids earlier removals have left.
THEOREM RemoveSelects == RangesSpec => []RemoveSelectsSlice
<1>1. RangesInv => RemoveSelectsSlice
  BY SliceOfTable, BoundsAreBounds DEF RangesInv, RemoveSelectsSlice
<1> QED
  BY <1>1, RangesInvHolds, PTL

\* What a session of n commands shows of a range, with a row open and without.
LEMMA FetchedRows ==
  ASSUME RangesInv, NEW start \in Start, NEW end \in End
  PROVE  /\ open => FetchRows(start, end, AnyStatus) = Slice(Recorded, start, end)
         /\ ~open => FetchRows(start, end, AnyStatus) =
              Slice(Recorded,
                    IF start.by = "index" /\ start.at < 0 THEN Index(start.at - 1) ELSE start,
                    IF end.by = "index" /\ end.at < 0 THEN Index(end.at - 1) ELSE end)
<1> DEFINE n == Len(commands)
<1>1. /\ n \in Nat /\ DOMAIN Recorded = 1 .. n
      /\ \A r \in 1 .. n : Recorded[r] = commands[r].indicator
      /\ open \in BOOLEAN
  BY DEF RangesInv, Recorded
<1>2. /\ start.by = "index" => start.at \in Int
      /\ end.by = "index" => end.at \in Int
      /\ start.by \in {"index", "indicator"} /\ end.by \in {"index", "indicator", "none"}
  BY DEF Start, End, NoEnd
<1> DEFINE back == IF start.by = "index" /\ start.at < 0 THEN Index(start.at - 1) ELSE start
           backEnd == IF end.by = "index" /\ end.at < 0 THEN Index(end.at - 1) ELSE end
           from == IF open THEN start ELSE back
           upTo == IF open THEN end ELSE backEnd
<1>3. FetchRows(start, end, AnyStatus) =
        {r \in 1 .. n : FromStart(r, start) /\ UpToEnd(r, end)}
  BY <1>1 DEF FetchRows, IsOpen, MaxRowid
<1>4. ASSUME NEW r \in 1 .. n
      PROVE  FromStart(r, start) <=>
               /\ from.by = "index" => PositionOf(Recorded, r) >= Position(Recorded, from.at)
               /\ from.by = "indicator" => Recorded[r] >= from.at
  <2>1. CASE start.by = "indicator"
    <3>1. from = start
      BY <2>1
    <3> QED
      BY <1>1, <2>1, <3>1 DEF FromStart, IsOpen
  <2>2. CASE start.by = "index"
    <3>1. /\ from.by = "index"
          /\ from.at = IF ~open /\ start.at < 0 THEN start.at - 1 ELSE start.at
      BY <1>2, <2>2 DEF Index
    <3>2. MaxRowid = IF open THEN n + 1 ELSE n
      BY <1>1 DEF MaxRowid
    <3>3. FromStart(r, start) <=> PositionOf(Recorded, r) >= Position(Recorded, from.at)
      BY <1>1, <1>2, <2>2, <3>1, <3>2, CutsAtPosition DEF FromStart
    <3> QED
      BY <3>1, <3>3
  <2> QED
    BY <1>2, <2>1, <2>2
<1>5. ASSUME NEW r \in 1 .. n
      PROVE  UpToEnd(r, end) <=>
               /\ upTo.by = "index" => PositionOf(Recorded, r) < Position(Recorded, upTo.at)
               /\ upTo.by = "indicator" => Recorded[r] <= upTo.at
  <2>1. CASE end.by # "index"
    <3>1. upTo = end
      BY <2>1
    <3> QED
      BY <1>1, <1>2, <2>1, <3>1 DEF UpToEnd, IsOpen
  <2>2. CASE end.by = "index"
    <3>1. /\ upTo.by = "index"
          /\ upTo.at = IF ~open /\ end.at < 0 THEN end.at - 1 ELSE end.at
      BY <1>2, <2>2 DEF Index
    <3>2. MaxRowid = IF open THEN n + 1 ELSE n
      BY <1>1 DEF MaxRowid
    <3>3. PositionOf(Recorded, r) \in Int /\ Position(Recorded, upTo.at) \in Int
      <4>1. PositionOf(Recorded, r) \in Int /\ Cardinality(DOMAIN Recorded) = n
        BY <1>1, CommandPositions DEF Rows
      <4>2. upTo.at \in Int
        BY <1>2, <2>2, <3>1
      <4>3. Max({0, n + upTo.at}) \in Int
        BY <1>1, <4>2, MaxOfTwo
      <4> QED
        BY <4>1, <4>2, <4>3 DEF Position
    <3>4. UpToEnd(r, end) <=> PositionOf(Recorded, r) < Position(Recorded, upTo.at)
      BY <1>1, <1>2, <2>2, <3>1, <3>2, <3>3, CutsAtPosition DEF UpToEnd
    <3> QED
      BY <3>1, <3>4
  <2> QED
    BY <2>1, <2>2
<1>6. Slice(Recorded, from, upTo) =
        {r \in 1 .. n :
           /\ from.by = "index" => PositionOf(Recorded, r) >= Position(Recorded, from.at)
           /\ from.by = "indicator" => Recorded[r] >= from.at
           /\ upTo.by = "index" => PositionOf(Recorded, r) < Position(Recorded, upTo.at)
           /\ upTo.by = "indicator" => Recorded[r] <= upTo.at}
  <2> HIDE DEF from, upTo
  <2> QED
    BY <1>1 DEF Slice, PositionOf
<1>7. FetchRows(start, end, AnyStatus) = Slice(Recorded, from, upTo)
  <2> HIDE DEF from, upTo
  <2> QED
    BY <1>3, <1>4, <1>5, <1>6
<1> QED
  BY <1>1, <1>7

\* fetch with a range (fetch.go:51-86) shows the commands of the slice, of a session
\* of any length and indices of any size, while the next row is open.
THEOREM FetchSelects == RangesSpec => []FetchSelectsSlice
<1>1. RangesInv => FetchSelectsSlice
  BY FetchedRows, BoundsAreBounds DEF FetchSelectsSlice
<1> QED
  BY <1>1, RangesInvHolds, PTL

\* Without an open row (nhi.c:303-308) negative indices are off by one, and
\* nothing else is.
THEOREM FetchIsOneOff == RangesSpec => []FetchOffByOneAtMost
<1>1. RangesInv => FetchOffByOneAtMost
  BY FetchedRows, BoundsAreBounds DEF FetchOffByOneAtMost
<1> QED
  BY <1>1, RangesInvHolds, PTL
============================================================================
