--------------------------- MODULE SessionAdmin ---------------------------
(* The command line tool at work on the database nhid writes: rename,       *)
(* remove, log, and the look-up of one session (fetch, log-session), each a *)
(* process that runs several statements (pkg/rename, pkg/remove, pkg/log,   *)
(* pkg/utils/gets.go), with nhid's own statements in between.               *)
(*                                                                          *)
(* The database is in WAL mode: readers wait for nobody, and one writer at  *)
(* a time holds the lock `writer`.  The tool waits five seconds for it (the *)
(* default of go-sqlite3); nhid sets no timeout, so its statement fails.    *)
(* nhid is what it is to the database: sessions begin, have prompts and     *)
(* end, and their events are handled one by one.                            *)
EXTENDS SessionDb, Selection

CONSTANTS
  Cli,          \* processes of the command line tool, one command each
  NoCli,
  PlainName,    \* names that are no numbers
  NewName,      \* the names rename is given
  NoSession,    \* "0", the indicator of a session that is not found
  MaxCommands   \* prompts a session has

ASSUME SessionAssumption == Session \subseteq Nat /\ NoSession \notin Session
ASSUME NameAssumption == NewName \subseteq Session \cup PlainName
ASSUME CliAssumption == NoCli \notin Cli
ASSUME TextAssumption == MaxCommands \in Nat /\ NoText \notin 1 .. MaxCommands

VARIABLES
  db,
  writer,   \* who holds the write lock of the database
  nhid,     \* the statement nhid is at, and for which session
  cli,      \* the command each process is in
  \* the sessions, as nhid comes to know them
  begun,    \* indicators given out
  live,     \* sessions the running nhid handles
  prompts,  \* prompts handled
  \* history
  gone,     \* sessions whose row remove has deleted
  broken,   \* sessions a fault has left with a table and no row, or vice versa
  refused,  \* sessions for which a statement of nhid failed
  clash     \* names two renames have found free at the same time

sessionVars == <<begun, live, prompts>>
pastVars == <<gone, broken, refused, clash>>
adminVars == <<db, writer, nhid, cli, sessionVars, pastVars>>

Names == Session \cup PlainName

NhidSteps == {"wait", "table", "row", "meta", "finish", "next", "close"}
Waiting == [at |-> "wait", session |-> NoSession]

\* `todo` holds the sessions remove or log still has to visit, `session` the one
\* a look-up has found.
CliSteps == {"idle", "check", "rename", "drop", "delete", "log",
             "done", "failed", "missing", "killed"}
NewCommand == [at |-> "idle", session |-> NoSession, new |-> NoText, todo |-> <<>>]
WriteSteps == {"rename", "drop", "delete"}
Ended == {"idle", "done", "failed", "missing", "killed"}

AdminInit ==
  /\ db = EmptyDb
  /\ writer = NoCli
  /\ nhid = Waiting
  /\ cli = [p \in Cli |-> NewCommand]
  /\ begun = {} /\ live = {} /\ prompts = [i \in Session |-> 0]
  /\ gone = {} /\ broken = {} /\ refused = {} /\ clash = {}

----------------------------------------------------------------------------
\* nhid.

Handling(step) == nhid.at = step
HandleNext(step) == nhid' = IF step = "wait" THEN Waiting ELSE [nhid EXCEPT !.at = step]

\* An event comes in.  The clock goes on: indicators grow.
Begin(i) ==
  /\ Handling("wait")
  /\ \A j \in begun : j < i
  /\ nhid' = [at |-> "table", session |-> i]
  /\ begun' = begun \cup {i} /\ live' = live \cup {i}
  /\ UNCHANGED <<db, writer, cli, prompts, pastVars>>

PromptOf(i) ==
  /\ Handling("wait")
  /\ i \in live /\ prompts[i] < MaxCommands
  /\ nhid' = [at |-> "finish", session |-> i]
  /\ prompts' = [prompts EXCEPT ![i] = @ + 1]
  /\ UNCHANGED <<db, writer, cli, begun, live, pastVars>>

ExitOf(i) ==
  /\ Handling("wait")
  /\ i \in live
  /\ nhid' = [at |-> "close", session |-> i]
  /\ live' = live \ {i}
  /\ UNCHANGED <<db, writer, cli, begun, prompts, pastVars>>

\* A statement of nhid fails if a process of the tool is writing; the error is
\* logged and the handler goes on.
Statement(from, result, to) ==
  /\ Handling(from)
  /\ HandleNext(to)
  /\ IF writer = NoCli
     THEN db' = result /\ UNCHANGED <<refused, broken>>
     ELSE /\ refused' = refused \cup {nhid.session}
          /\ broken' = IF from \in {"table", "meta"}
                       THEN broken \cup {nhid.session} ELSE broken
          /\ UNCHANGED db
  /\ UNCHANGED <<writer, cli, sessionVars, gone, clash>>

CreateTable == Statement("table", create_table(db, nhid.session), "row")
CreateRow == Statement("row", create_row(db, nhid.session), "meta")
MetaCreateRow == Statement("meta", meta_create_row(db, nhid.session), "wait")
\* Slip: the row for the next command is opened before this one is finished.
FinishRowLate ==
  Statement("finish",
            finish_row(create_row(db, nhid.session), nhid.session, prompts[nhid.session]),
            "next")

FinishRow ==
  Statement("finish", finish_row(db, nhid.session, prompts[nhid.session]), "next")
NextRow == Statement("next", create_row(db, nhid.session), "wait")
FinishSession == Statement("close", meta_add_finish_time(db, nhid.session), "wait")

\* nhid is stopped; the one that is started next knows no session.
NhidStops ==
  /\ nhid' = Waiting
  /\ live' = {}
  /\ broken' = IF nhid.at \in {"row", "meta"} THEN broken \cup {nhid.session} ELSE broken
  /\ UNCHANGED <<db, writer, cli, begun, prompts, gone, refused, clash>>

NhidStep ==
  \/ \E i \in Session : Begin(i) \/ PromptOf(i) \/ ExitOf(i)
  \/ CreateTable \/ CreateRow \/ MetaCreateRow
  \/ FinishRow \/ NextRow \/ FinishSession
  \/ NhidStops

----------------------------------------------------------------------------
\* Looking up.  Numbers above a billion are taken for names.
SessionArgument ==
  [by : {"index"}, at : -1 .. 1] \cup [by : {"name"}, at : Names]

\* GetSessionIndicator: the first row that fits, or "0" (neither Next nor Scan
\* is checked).
Named(meta, name, n) == {r \in DOMAIN meta : name[meta[r]] = n}

FirstRow(rows) == {r \in rows : \A q \in rows : r <= q}

GetSessionIndicator(argument) ==
  LET rows == IF argument.by = "index" THEN RowAt(db.meta, argument.at)
              ELSE FirstRow(Named(db.meta, db.name, argument.at))
  IN  IF rows = {} THEN NoSession ELSE db.meta[CHOOSE r \in rows : TRUE]

\* Rows as SELECT returns them, and their sessions.
InOrder(rows) ==
  {s \in [1 .. Cardinality(rows) -> rows] :
     \A j, k \in 1 .. Cardinality(rows) : j < k => s[j] < s[k]}

Sessions(s) == [k \in 1 .. Len(s) |-> db.meta[s[k]]]

----------------------------------------------------------------------------
\* The tool.  Each step is a statement or, before a statement that writes, the
\* wait for the lock.

InCommand(p, step) == cli[p].at = step
GoOn(p, step) == cli' = [cli EXCEPT ![p].at = step]

Over(how) == [NewCommand EXCEPT !.at = how]
End(p, how) == cli' = [cli EXCEPT ![p] = Over(how)]

\* Slip: the loop is not left.
RestUnchecked(command) == [command EXCEPT !.todo = Tail(@), !.at = "drop"]

\* Where a remove is when it is done with the first of its sessions.
Rest(command) ==
  IF Len(command.todo) = 1 THEN Over("done")
  ELSE [command EXCEPT !.todo = Tail(@), !.at = "drop"]

TakeLock(p) ==
  /\ cli[p].at \in WriteSteps
  /\ InCommand(p, "drop") => Head(cli[p].todo) \in db.created
  /\ writer = NoCli
  /\ writer' = p
  /\ UNCHANGED <<db, nhid, cli, sessionVars, pastVars>>

\* Another process has held the lock for five seconds (it may be suspended).
\* rename returns the error; remove does not look at it and goes on.
LockTimesOut(p) ==
  /\ writer \notin {NoCli, p}
  /\ \/ /\ InCommand(p, "rename")
        /\ End(p, "failed")
        /\ UNCHANGED broken
     \/ /\ InCommand(p, "drop")
        /\ GoOn(p, "delete")
        /\ broken' = broken \cup {Head(cli[p].todo)}
     \/ /\ InCommand(p, "delete")
        /\ cli' = [cli EXCEPT ![p] = Rest(@)]
        /\ broken' = broken \cup {Head(cli[p].todo)}
  /\ UNCHANGED <<db, writer, nhid, sessionVars, gone, refused, clash>>

Rename(p, argument, new) ==
  /\ InCommand(p, "idle")
  /\ cli' = [cli EXCEPT ![p].at = "check", ![p].new = new,
                        ![p].session = GetSessionIndicator(argument)]
  /\ UNCHANGED <<db, writer, nhid, sessionVars, pastVars>>

\* Slip: the name is only looked for among sessions that still run.
CheckNameOfOpenSessions(p) ==
  /\ InCommand(p, "check")
  /\ IF \E i \in Listed(db) \ db.closed : db.name[i] = cli[p].new
     THEN End(p, "failed") ELSE GoOn(p, "rename")
  /\ UNCHANGED <<db, writer, nhid, sessionVars, pastVars>>

\* Others that have found the same name free and not used it yet.
Rivals(p) == {q \in Cli \ {p} : InCommand(q, "rename") /\ cli[q].new = cli[p].new}

\* checkIfNameIsUsed.
CheckName(p) ==
  /\ InCommand(p, "check")
  /\ IF \E i \in Listed(db) : db.name[i] = cli[p].new
     THEN End(p, "failed") /\ UNCHANGED clash
     ELSE /\ GoOn(p, "rename")
          /\ clash' = IF Rivals(p) = {} THEN clash ELSE clash \cup {cli[p].new}
  /\ UNCHANGED <<db, writer, nhid, sessionVars, gone, broken, refused>>

\* An UPDATE that finds no row is no error.
RenameSession(p) ==
  /\ InCommand(p, "rename") /\ writer = p
  /\ db' = rename_session(db, cli[p].session, cli[p].new)
  /\ writer' = NoCli
  /\ End(p, "done")
  /\ UNCHANGED <<nhid, sessionVars, pastVars>>

\* Remove: one SELECT with its range, then two statements per session.
Select(p, start, end) ==
  /\ InCommand(p, "idle")
  /\ LET chosen == FromRange(db.meta, start, end)
     IN  IF chosen = {} THEN End(p, "done")
         ELSE \E s \in InOrder(chosen) :
                cli' = [cli EXCEPT ![p].todo = Sessions(s), ![p].at = "drop"]
  /\ UNCHANGED <<db, writer, nhid, sessionVars, pastVars>>

\* Slip: the table of a session that still runs is left alone.
DropClosedTable(p) ==
  /\ InCommand(p, "drop") /\ writer = p
  /\ db' = IF Head(cli[p].todo) \in db.closed
           THEN drop_table(db, Head(cli[p].todo)) ELSE db
  /\ writer' = NoCli
  /\ GoOn(p, "delete")
  /\ UNCHANGED <<nhid, sessionVars, pastVars>>

\* Slip: the last indicator of the list is used, not the current one.
DropLastTable(p) ==
  /\ InCommand(p, "drop") /\ writer = p
  /\ db' = drop_table(db, Last(cli[p].todo))
  /\ writer' = NoCli
  /\ GoOn(p, "delete")
  /\ UNCHANGED <<nhid, sessionVars, pastVars>>

DropTable(p) ==
  /\ InCommand(p, "drop") /\ writer = p
  /\ db' = drop_table(db, Head(cli[p].todo))
  /\ writer' = NoCli
  /\ GoOn(p, "delete")
  /\ UNCHANGED <<nhid, sessionVars, pastVars>>

\* "no such table" comes before any lock, and is not looked at either.
NoTableToDrop(p) ==
  /\ InCommand(p, "drop") /\ writer # p
  /\ Head(cli[p].todo) \notin db.created
  /\ GoOn(p, "delete")
  /\ UNCHANGED <<db, writer, nhid, sessionVars, pastVars>>

\* Slip: the loop advances twice.
DeleteRowSkippingOne(p) ==
  /\ InCommand(p, "delete") /\ writer = p
  /\ db' = delete_meta_row(db, Head(cli[p].todo))
  /\ gone' = gone \cup {Head(cli[p].todo)}
  /\ writer' = NoCli
  /\ IF Len(cli[p].todo) <= 2 THEN End(p, "done")
     ELSE cli' = [cli EXCEPT ![p].todo = SubSeq(@, 3, Len(@)), ![p].at = "drop"]
  /\ UNCHANGED <<nhid, sessionVars, broken, refused, clash>>

DeleteRow(p) ==
  /\ InCommand(p, "delete") /\ writer = p
  /\ db' = delete_meta_row(db, Head(cli[p].todo))
  /\ gone' = gone \cup {Head(cli[p].todo)}
  /\ writer' = NoCli
  /\ cli' = [cli EXCEPT ![p] = Rest(@)]
  /\ UNCHANGED <<nhid, sessionVars, broken, refused, clash>>

\* Log reads meta and then opens the table of each session; fetch and
\* log-session look one session up and open its table.  One that has opened all
\* is done, whether or not it has found anything to show.
Log(p) ==
  /\ InCommand(p, "idle")
  /\ IF DOMAIN db.meta = {} THEN End(p, "done")
     ELSE \E s \in InOrder(DOMAIN db.meta) :
            cli' = [cli EXCEPT ![p].todo = Sessions(Reverse(s)), ![p].at = "log"]
  /\ UNCHANGED <<db, writer, nhid, sessionVars, pastVars>>

LookUp(p, argument) ==
  /\ InCommand(p, "idle")
  /\ cli' = [cli EXCEPT ![p].todo = <<GetSessionIndicator(argument)>>, ![p].at = "log"]
  /\ UNCHANGED <<db, writer, nhid, sessionVars, pastVars>>

\* The first table that is missing ends the command with an error.
Opened(command) ==
  IF Head(command.todo) \notin db.created
  THEN [Over("missing") EXCEPT !.session = Head(command.todo)]
  ELSE IF Len(command.todo) = 1 THEN Over("done")
  ELSE [command EXCEPT !.todo = Tail(@)]

OpenTable(p) ==
  /\ InCommand(p, "log")
  /\ cli' = [cli EXCEPT ![p] = Opened(@)]
  /\ UNCHANGED <<db, writer, nhid, sessionVars, pastVars>>

\* A process may be killed at any point; what it has not committed is undone.
Kill(p) ==
  /\ cli[p].at \notin Ended
  /\ End(p, "killed")
  /\ writer' = IF writer = p THEN NoCli ELSE writer
  /\ broken' = IF InCommand(p, "delete") THEN broken \cup {Head(cli[p].todo)} ELSE broken
  /\ UNCHANGED <<db, nhid, sessionVars, gone, refused, clash>>

\* What a process that has begun a command does next.
CliStep(p) ==
  \/ TakeLock(p) \/ LockTimesOut(p)
  \/ CheckName(p) \/ RenameSession(p)
  \/ DropTable(p) \/ NoTableToDrop(p) \/ DeleteRow(p)
  \/ OpenTable(p)

Bounds == {Index(k) : k \in -2 .. 2} \cup {ByIndicator(i) : i \in Session}

CliBegins(p) ==
  \/ \E argument \in SessionArgument :
       LookUp(p, argument) \/ \E new \in NewName : Rename(p, argument, new)
  \/ \E start \in Bounds, end \in Bounds \cup {NoEnd} : Select(p, start, end)
  \/ Log(p)

AdminNext ==
  \/ NhidStep
  \/ \E p \in Cli : CliBegins(p) \/ CliStep(p) \/ Kill(p)

AdminSpec == AdminInit /\ [][AdminNext]_adminVars

----------------------------------------------------------------------------
AdminTypeOK ==
  /\ db.created \cup db.closed \subseteq Session
  /\ DOMAIN db.meta \subseteq Nat /\ Listed(db) \subseteq Session
  /\ db.name \in [Session -> Names]
  /\ writer \in Cli \cup {NoCli}
  /\ nhid \in [at : NhidSteps, session : Session \cup {NoSession}]
  /\ cli \in [Cli -> [at : CliSteps, session : Session \cup {NoSession},
                     new : NewName \cup {NoText}, todo : Seq(Session \cup {NoSession})]]
  /\ \A p \in Cli : cli[p].at \in {"drop", "delete", "log"} <=> cli[p].todo # <<>>
  /\ live \subseteq begun /\ begun \subseteq Session
  /\ prompts \in [Session -> 0 .. MaxCommands]
  /\ gone \cup broken \cup refused \subseteq Session
  /\ clash \subseteq Names

\* Some process has dropped the table of i (remove.go:39) and not yet deleted
\* its row (remove.go:42).
BetweenDropAndDelete(i) ==
  \E p \in Cli : InCommand(p, "delete") /\ Head(cli[p].todo) = i

Registering(i) == nhid.session = i /\ nhid.at \in {"row", "meta"}

\* Whatever nhid and processes of the tool do to the database at the same time,
\* a session has a table if and only if it has a row in meta (sqlite.c:51,
\* sqlite.c:255, remove.go:38-44), but for sessions being registered or
\* removed and those a failed or interrupted statement has left half there.
TablesAndMetaAgree ==
  \A i \in Session :
    (i \in db.created) # (i \in Listed(db)) =>
      Registering(i) \/ BetweenDropAndDelete(i) \/ i \in broken

\* A session that was removed while its shell runs does not come back with the
\* next thing nhid records of it (remove.go:38-44, sqlite.c:68-83).
RemovedStaysRemoved ==
  \A i \in gone : i \notin Listed(db) /\ (i \in db.created => i \in broken)

\* Two sessions share a name (rename.go:32-44) only if two renames found it free
\* at the same time, or if it is what one of the two is called from its beginning:
\* the name was free when the other took it.
NamesDistinct ==
  \A i, j \in Listed(db) :
    i # j /\ db.name[i] = db.name[j] => db.name[i] \in clash \cup {i, j}

\* log, log-session and fetch fail on a table (log.go:193-196) only where the
\* session is not found, removed, being removed, or was broken before: a
\* session that is just starting never makes them fail.
FailureExplained ==
  \A p \in Cli : InCommand(p, "missing") =>
    LET i == cli[p].session
    IN  i = NoSession \/ i \in gone \cup broken \/ BetweenDropAndDelete(i)

\* Row k of a session holds its k-th command (nhi.c:303-308), whatever remove
\* and rename do, as long as no statement of nhid failed for the session.
RowsFollowCommands ==
  \A i \in db.created \ refused : \A k \in DOMAIN db.rows[i] :
    db.rows[i][k].command \in {NoText, k}

\* remove lets go of a session it has selected (remove.go:37-45) only when its
\* row is deleted, by this process or another, or when a statement of its own
\* has failed: with `meta` changing meanwhile, no session slips through.
RemoveSkipsNone ==
  [][\A p \in Cli : \A i \in Range(cli[p].todo) :
       cli[p].at \in WriteSteps =>
         \/ i \in Range(cli'[p].todo) \/ i \in gone' \cup broken'
         \/ cli'[p].at = "killed"]_adminVars

----------------------------------------------------------------------------
\* What the manual says; the code does otherwise, as README.md of this directory
\* describes.

\* "New name can't be a number" (doc/nhi-rename.1:29): no session is called by the
\* number another begins with (sqlite.c:262), so that this finds the other.
NumbersAreOwn ==
  \A i, j \in Listed(db) : db.name[i] = j => i = j
============================================================================
