---------------------------- MODULE SessionDb ----------------------------
(* The SQLite database (daemon/src/sqlite.c; pkg/remove and pkg/rename of   *)
(* the command line tool): a table per session with one row per command,    *)
(* and the table `meta` with one row per session.  Every operator is one    *)
(* statement in its own transaction.  Each UPDATE of a session changes the  *)
(* row with the largest rowid; on a table that does not exist the statement *)
(* fails, the error is logged and nothing else happens.                     *)
(*                                                                          *)
(* A row's output is the set of texts appended to it, its markers are the   *)
(* nested sessions announced in it; PS1, the exit status and the times are  *)
(* left out but for whether the row has been finished and started.  `meta`  *)
(* maps rowids to indicators; names and finished sessions are kept apart.   *)
EXTENDS SequencesExt

CONSTANTS
  Session,     \* indicators
  NoText       \* the NULL of a command that has not been recorded

NewRow == [command |-> NoText, pwd |-> NoText, output |-> {}, markers |-> {},
           started |-> FALSE, finished |-> FALSE]

EmptyDb == [created |-> {}, rows |-> [i \in Session |-> <<>>],
            meta |-> <<>>, name |-> [i \in Session |-> i], closed |-> {}]

\* The sessions with a row in meta.
Listed(db) == Range(db.meta)

HasRow(db, i) == i \in db.created /\ db.rows[i] # <<>>
LastRow(db, i) == Last(db.rows[i])

\* UPDATE ... WHERE rowid = (SELECT MAX(rowid) ...); row mentions LastRow, which
\* is looked at only if there is one.
UpdateLast(db, i, row) ==
  IF HasRow(db, i)
  THEN [db EXCEPT !.rows[i][Len(db.rows[i])] = row]
  ELSE db

create_table(db, i) == [db EXCEPT !.created = @ \cup {i}]

\* Slip: a table that is missing is created.
create_row_anyway(db, i) ==
  [db EXCEPT !.created = @ \cup {i}, !.rows[i] = Append(@, NewRow)]

create_row(db, i) ==
  IF i \in db.created THEN [db EXCEPT !.rows[i] = Append(@, NewRow)] ELSE db

\* Slip: the text goes to the first row, as with an unqualified rowid.
add_output_first(db, i, text) ==
  IF HasRow(db, i) THEN [db EXCEPT !.rows[i][1].output = @ \cup {text}] ELSE db

add_output(db, i, text) ==
  UpdateLast(db, i, [LastRow(db, i) EXCEPT !.output = @ \cup {text}])

\* The output a nested shell starts with: the marker byte and its indicator.
add_marker(db, i, nested) ==
  UpdateLast(db, i, [LastRow(db, i) EXCEPT !.markers = @ \cup {nested}])

\* add_command, add_exit_status, add_finish_time and add_indicator.
finish_row(db, i, text) ==
  UpdateLast(db, i, [LastRow(db, i) EXCEPT !.command = text, !.finished = TRUE])

\* add_PS1 and add_pwd: the prompt and the directory a row opens with.
add_pwd(db, i, text) ==
  UpdateLast(db, i, [LastRow(db, i) EXCEPT !.pwd = text])

\* Only the first child of a command starts its clock.
add_start_time(db, i) ==
  UpdateLast(db, i, [LastRow(db, i) EXCEPT !.started = TRUE])

\* A table without INTEGER PRIMARY KEY: one more than the largest rowid, so that
\* the rowid of a last row that was deleted is given out again.
NextRowid(meta) == IF DOMAIN meta = {} THEN 1 ELSE Max(DOMAIN meta) + 1

Inserted(meta, i) ==
  [r \in DOMAIN meta \cup {NextRowid(meta)} |->
     IF r = NextRowid(meta) THEN i ELSE meta[r]]

\* A session is named after its indicator.
meta_create_row(db, i) == [db EXCEPT !.meta = Inserted(@, i), !.name[i] = i]

\* Slip: the WHERE clause is lost and every session is closed.
meta_add_finish_time_all(db, i) ==
  [db EXCEPT !.closed = Listed(db)]

meta_add_finish_time(db, i) ==
  IF i \in Listed(db) THEN [db EXCEPT !.closed = @ \cup {i}] ELSE db

\* DROP TABLE and DELETE FROM `meta` of remove, UPDATE `meta` of rename.
drop_table(db, i) == [db EXCEPT !.created = @ \ {i}, !.rows[i] = <<>>]

delete_meta_row(db, i) ==
  [db EXCEPT !.meta = [r \in {k \in DOMAIN @ : @[k] # i} |-> @[r]],
             !.closed = @ \ {i}]

rename_session(db, i, new) ==
  IF i \in Listed(db) THEN [db EXCEPT !.name[i] = new] ELSE db
==========================================================================
