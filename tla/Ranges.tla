------------------------------ MODULE Ranges ------------------------------
(* What remove and fetch select, on every small table `meta` with the gaps  *)
(* earlier removals leave and every small session, while sessions and       *)
(* commands are added: getWhere of pkg/fetch/fetch.go and, from Selection,  *)
(* pkg/utils/gets.go, against the slices the manual describes.              *)
EXTENDS SessionDb, Selection

CONSTANTS
  Time,         \* tenths of a second: the indicators of sessions and of commands
  Status,       \* exit statuses
  AnyStatus,    \* no --exit-status
  MaxFinished   \* commands of the session that is fetched

ASSUME TimeAssumption == Time \subseteq Nat
ASSUME StatusAssumption == AnyStatus \notin Status

VARIABLES
  meta,       \* rowid -> indicator, of all sessions
  commands,   \* the finished rows of one session, in order
  open        \* the row of the next command has been created

rangeVars == <<meta, commands, open>>

RangesInit == meta = <<>> /\ commands = <<>> /\ open = TRUE

\* Indicators are times: they grow, strictly for sessions.
BeginSession(i) ==
  /\ \A r \in DOMAIN meta : meta[r] < i
  /\ meta' = Inserted(meta, i)
  /\ UNCHANGED <<commands, open>>

RangeBounds == {Index(k) : k \in -4 .. 4} \cup {ByIndicator(x) : x \in Time}

\* A remove with nobody in its way: indicators are unique, so the DELETEs take the
\* rows that were selected.
RemoveRange(start, end) ==
  /\ meta' = Restrict(meta, DOMAIN meta \ FromRange(meta, start, end))
  /\ UNCHANGED <<commands, open>>

\* nhid finishes a row, and opens the next with another statement; it may be
\* stopped in between, and sessions it does not know get no more rows.
FinishCommand(t, status) ==
  /\ open /\ Len(commands) < MaxFinished
  /\ \A k \in DOMAIN commands : commands[k].indicator <= t
  /\ commands' = Append(commands, [indicator |-> t, status |-> status])
  /\ open' = FALSE
  /\ UNCHANGED meta

OpenRow ==
  /\ ~open
  /\ open' = TRUE
  /\ UNCHANGED <<meta, commands>>

RangesNext ==
  \/ \E i \in Time : BeginSession(i)
  \/ \E start, end \in RangeBounds : RemoveRange(start, end)
  \/ \E t \in Time, status \in Status : FinishCommand(t, status)
  \/ OpenRow

RangesSpec == RangesInit /\ [][RangesNext]_rangeVars

----------------------------------------------------------------------------
\* getWhere.  Rows of a session are never deleted: the largest rowid is their
\* number, the open row included, and the indicator of that one is NULL.
MaxRowid == Len(commands) + IF open THEN 1 ELSE 0
IsOpen(r) == r > Len(commands)

\* Slip: the open row is not reckoned with.
FromStartExact(r, start) ==
  /\ start.by = "index" => IF start.at < 0 THEN r > MaxRowid + start.at
                           ELSE r > start.at
  /\ start.by = "indicator" => ~IsOpen(r) /\ commands[r].indicator >= start.at

FromStart(r, start) ==
  /\ start.by = "index" => IF start.at < 0 THEN r >= MaxRowid + start.at
                           ELSE r > start.at
  /\ start.by = "indicator" => ~IsOpen(r) /\ commands[r].indicator >= start.at

UpToEnd(r, end) ==
  /\ end.by = "index" => IF end.at < 0 THEN r < MaxRowid + end.at
                         ELSE r <= end.at
  /\ end.by = "indicator" => ~IsOpen(r) /\ commands[r].indicator <= end.at

\* The condition on the exit status takes the place of the range.  printRows
\* leaves out the row that has no command yet.
FetchRows(start, end, status) ==
  {r \in 1 .. MaxRowid :
     /\ ~IsOpen(r)
     /\ IF status = AnyStatus THEN FromStart(r, start) /\ UpToEnd(r, end)
        ELSE commands[r].status = status}

----------------------------------------------------------------------------
Recorded == [k \in DOMAIN commands |-> commands[k].indicator]

\* remove (gets.go:71-108) never selects a session outside the slice the manual
\* describes, and selects all of it when both indices are those of sessions,
\* whatever gaps earlier removals have left in the rowids.
RemoveSelectsSlice ==
  \A r \in DOMAIN meta, start \in RangeBounds, end \in RangeBounds \cup {NoEnd} :
    /\ r \in FromRange(meta, start, end) => r \in Slice(meta, start, end)
    /\ Exists(meta, start) /\ Exists(meta, end) /\ r \in Slice(meta, start, end)
         => r \in FromRange(meta, start, end)

\* fetch (fetch.go:51-86) with a range shows a command exactly if it is in the
\* slice, indices beyond the session included, provided the row of the next
\* command exists.
FetchSelectsSlice ==
  open => \A r \in DOMAIN commands, start \in RangeBounds, end \in RangeBounds \cup {NoEnd} :
    r \in FetchRows(start, end, AnyStatus) <=> r \in Slice(Recorded, start, end)

\* In the moment that row does not exist (nhi.c:303-308), or for ever if nhid was
\* stopped there, a negative index is one command off, and no more.
FetchOffByOneAtMost ==
  ~open => \A start \in RangeBounds, end \in RangeBounds \cup {NoEnd} :
    LET Back(bound) == IF bound.by = "index" /\ bound.at < 0
                       THEN Index(bound.at - 1) ELSE bound
    IN  FetchRows(start, end, AnyStatus) = Slice(Recorded, Back(start), Back(end))

\* "If you want to fetch only a part of shell session" (doc/nhi-fetch.1:30) and
\* "Only show command(s) with specified exit status" (doc/nhi-fetch.1:49): with
\* both, what is shown is part of the range.  The code does otherwise, as
\* README.md of this directory describes.
FetchKeepsRange ==
  \A start, end \in RangeBounds, status \in Status :
    FetchRows(start, end, status) \subseteq Slice(Recorded, start, end)
============================================================================
