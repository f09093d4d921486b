---------------------------- MODULE Selection ----------------------------
(* How the command line tool reads <session> and <start:end> arguments:     *)
(* pkg/utils/gets.go, and getWhere of pkg/fetch/fetch.go which has a        *)
(* translation of its own.  A table maps rowids to indicators; NoIndicator  *)
(* stands for the NULL of a row that is not finished.                       *)
(*                                                                          *)
(* A bound of a range is an index (a number below a billion), an indicator  *)
(* (a number from a billion on) or, at the end, missing.  A missing start   *)
(* is index 0.                                                              *)
EXTENDS Integers, FiniteSetsExt

Index(k) == [by |-> "index", at |-> k]
ByIndicator(x) == [by |-> "indicator", at |-> x]
NoEnd == [by |-> "none", at |-> 0]

Before(table, r) == {q \in DOMAIN table : q < r}
After(table, r) == {q \in DOMAIN table : q > r}

\* SELECT rowid ... LIMIT 1 OFFSET k, from the end for a negative index: one row
\* or none.
RowAt(table, k) ==
  {r \in DOMAIN table : IF k < 0 THEN Cardinality(After(table, r)) = -1 * k - 1
                        ELSE Cardinality(Before(table, r)) = k}

----------------------------------------------------------------------------
\* GetWhereFromRange, which remove uses on meta.  A comparison with the NULL of
\* an offset beyond the table selects nothing.

\* Slip: the end of a range of indices belongs to it.
FromRangeInclusive(table, start, end) ==
  {r \in DOMAIN table :
     /\ IF start.by = "indicator" THEN table[r] >= start.at
        ELSE \E first \in RowAt(table, start.at) : r >= first
     /\ \/ end.by = "none"
        \/ end.by = "indicator" /\ table[r] <= end.at
        \/ end.by = "index" /\ \E last \in RowAt(table, end.at) : r <= last}

FromRange(table, start, end) ==
  {r \in DOMAIN table :
     /\ IF start.by = "indicator" THEN table[r] >= start.at
        ELSE \E first \in RowAt(table, start.at) : r >= first
     /\ \/ end.by = "none"
        \/ end.by = "indicator" /\ table[r] <= end.at
        \/ end.by = "index" /\ \E last \in RowAt(table, end.at) : r < last}

----------------------------------------------------------------------------
\* The slices of the manual ("inspired by python slice notation",
\* doc/nhi-remove.1, doc/nhi-fetch.1), on the rows in order.

Position(table, k) ==
  IF k >= 0 THEN k ELSE Max({0, Cardinality(DOMAIN table) + k})

Slice(table, start, end) ==
  {r \in DOMAIN table :
     LET position == Cardinality(Before(table, r))
     IN  /\ start.by = "index" => position >= Position(table, start.at)
         /\ start.by = "indicator" => table[r] >= start.at
         /\ end.by = "index" => position < Position(table, end.at)
         /\ end.by = "indicator" => table[r] <= end.at}

\* An index that counts to a row the table has.
Exists(table, bound) ==
  bound.by = "index" =>
    -1 * Cardinality(DOMAIN table) <= bound.at /\ bound.at < Cardinality(DOMAIN table)
==========================================================================
