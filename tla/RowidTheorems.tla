--------------------------- MODULE RowidTheorems ---------------------------
(* A table of SQLite without INTEGER PRIMARY KEY gives a new row the rowid  *)
(* one above the largest.  Here a table is a function from rowids.          *)
EXTENDS FiniteSetsExt, Functions, Integers, WellFoundedInduction, TLAPS

\* A set of rowids with an upper bound.
Bounded(S) == S \subseteq Nat /\ \E n \in Nat : \A r \in S : r <= n

\* The order on the naturals as a relation.
Less == {ss \in Nat \X Nat : ss[1] < ss[2]}

LEMMA LessWellFounded == IsWellFoundedOn(Less, Nat)
<1>1. Less = OpToRel(<, Nat)
  BY Zenon DEF Less, OpToRel
<1> QED
  BY <1>1, NatLessThanWellFounded, Zenon

LEMMA MaxOfBounded ==
  ASSUME NEW S, Bounded(S), S # {}
  PROVE  Max(S) \in S /\ \A r \in S : r <= Max(S)
<1>1. PICK n \in Nat : \A r \in S : r <= n
  BY DEF Bounded
<1> DEFINE T == {n - r : r \in S}
<1>2. \A r \in S : r \in Nat /\ n - r \in Nat
  BY <1>1 DEF Bounded
<1>3. T \subseteq Nat /\ T # {}
  BY <1>2
<1>4. \E t \in T : \A u \in T : ~ (<<u, t>> \in Less)
  BY <1>3, LessWellFounded, WFMin
<1>5. PICK m \in S : \A u \in T : ~ (<<u, n - m>> \in Less)
  BY <1>4
<1>6. ASSUME NEW r \in S PROVE r <= m
  <2>1. n - r \in Nat /\ n - m \in Nat /\ r \in Nat /\ m \in Nat
    BY <1>2
  <2>2. ~ (<<n - r, n - m>> \in Less)
    BY <1>5
  <2>3. ~ (n - r < n - m)
    BY <2>1, <2>2 DEF Less
  <2> QED
    BY <2>1, <2>3
<1>7. \E x \in S : \A y \in S : x >= y
  BY <1>6, <1>2
<1>8. Max(S) \in S /\ \A y \in S : Max(S) >= y
  BY <1>7 DEF Max
<1> QED
  BY <1>8, <1>2

\* A table with one more row: the rowid of the new row is not taken, and the row
\* is added to the others.
FreshRowid(table) == IF DOMAIN table = {} THEN 1 ELSE Max(DOMAIN table) + 1

WithRow(table, row) ==
  [r \in DOMAIN table \cup {FreshRowid(table)} |->
     IF r = FreshRowid(table) THEN row ELSE table[r]]

LEMMA RowAdded ==
  ASSUME NEW table, Bounded(DOMAIN table), NEW row
  PROVE  /\ Bounded(DOMAIN WithRow(table, row))
         /\ Range(WithRow(table, row)) = Range(table) \cup {row}
<1> DEFINE n == FreshRowid(table)
           longer == WithRow(table, row)
<1>1. n \notin DOMAIN table /\ Bounded(DOMAIN table \cup {n})
  <2>1. CASE DOMAIN table = {}
    BY <2>1 DEF Bounded, FreshRowid
  <2>2. CASE DOMAIN table # {}
    <3>1. Max(DOMAIN table) \in DOMAIN table /\ \A r \in DOMAIN table : r <= Max(DOMAIN table)
      BY <2>2, MaxOfBounded
    <3>2. Max(DOMAIN table) \in Nat /\ \A r \in DOMAIN table : r \in Nat
      BY <3>1 DEF Bounded
    <3>3. n = Max(DOMAIN table) + 1
      BY <2>2 DEF FreshRowid
    <3> QED
      BY <3>1, <3>2, <3>3 DEF Bounded
  <2> QED
    BY <2>1, <2>2
<1>2. /\ DOMAIN longer = DOMAIN table \cup {n}
      /\ \A r \in DOMAIN longer : longer[r] = IF r = n THEN row ELSE table[r]
  BY DEF WithRow
<1> HIDE DEF n, longer
<1>3. Range(longer) = Range(table) \cup {row}
  <2>1. \A r \in DOMAIN table : longer[r] = table[r]
    BY <1>1, <1>2
  <2>2. longer[n] = row
    BY <1>2
  <2> QED
    BY <1>2, <2>1, <2>2 DEF Range
<1>4. Bounded(DOMAIN longer)
  BY <1>1, <1>2
<1> QED
  BY <1>3, <1>4 DEF longer
============================================================================
