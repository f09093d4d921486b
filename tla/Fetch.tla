------------------------------- MODULE Fetch -------------------------------
(* printRows of pkg/fetch/fetch.go: the output nhid has recorded, a stream  *)
(* of marker bytes and text, is sorted into standard output and standard    *)
(* error, and the sessions of nested shells are fetched recursively, while  *)
(* nhid goes on recording and another process removes sessions.             *)
(*                                                                          *)
(* A text stands for what one write(2) sent, an indicator for its eleven    *)
(* digits.  Texts are taken to contain no marker byte (they are no part of  *)
(* UTF-8).  One fetch without a range is followed from its start.           *)
EXTENDS Integers, SequencesExt

CONSTANTS
  Session,      \* indicators
  MaxWrites,    \* writes recorded
  MaxCommands   \* commands of a session

Out == 255
Err == 254
Nested == 253
Nul == 0

\* Texts, indicators and markers are told apart.
ASSUME BoundAssumption == MaxWrites \in 0 .. 252 /\ MaxCommands \in Nat
ASSUME SessionAssumption ==
  Session \subseteq Nat /\ Session # {} /\ Session \cap (0 .. 255) = {}

VARIABLES
  \* the database
  rows,      \* session -> its rows, one per command
  created,   \* sessions that have a table
  written,   \* texts recorded, numbered in order
  starting,  \* the nested session that has a marker and no table yet, if any
  removed,   \* sessions that were removed
  \* the fetch
  frames,    \* a frame per session being fetched, the innermost first
  printed,   \* what has come out, in order
  result,    \* "idle", "running", "done" or "failed"
  recursive, \* --fetch-child-shells
  fetched    \* history: the rows each session had when it was queried

dbVars == <<rows, created, written, starting, removed>>
fetchVars == <<frames, printed, result, recursive, fetched>>
allVars == <<dbVars, fetchVars>>

\* command: whether there is one, that is not the empty string.
NewRow == [command |-> FALSE, output |-> <<>>]
Root == CHOOSE s \in Session : \A t \in Session : s <= t
None == {}

FetchInit ==
  /\ rows = [s \in Session |-> IF s = Root THEN <<NewRow>> ELSE <<>>]
  /\ created = {Root}
  /\ written = 0 /\ starting = None /\ removed = {}
  /\ frames = <<>> /\ printed = <<>> /\ result = "idle" /\ recursive = FALSE
  /\ fetched = [s \in Session |-> <<>>]

----------------------------------------------------------------------------
\* nhid, and a remove.

\* The row an UPDATE changes is the last.
WithOutput(table, bytes) == [table EXCEPT ![Len(table)].output = @ \o bytes]
Finished(table, command) == [table EXCEPT ![Len(table)].command = command]

AddOutput(s, bytes) == rows' = [rows EXCEPT ![s] = WithOutput(@, bytes)]

\* handle_write: the event starts with its marker.
RecordOutput(s, stream) ==
  /\ s \in created /\ written < MaxWrites
  /\ written' = written + 1
  /\ AddOutput(s, <<stream, written'>>)
  /\ UNCHANGED <<created, starting, removed, fetchVars>>

\* Slip: the indicator is left out of the bytes that are appended.
AnnounceNestedBare(s, nested) ==
  /\ s \in created /\ starting = None
  /\ \A t \in created \cup removed : t < nested
  /\ AddOutput(s, <<Nested>>)
  /\ starting' = {nested}
  /\ UNCHANGED <<created, written, removed, fetchVars>>

\* handle_kill_SIGUSR of a nested shell: its marker, then its table.
AnnounceNested(s, nested) ==
  /\ s \in created /\ starting = None
  /\ \A t \in created \cup removed : t < nested
  /\ AddOutput(s, <<Nested, nested>>)
  /\ starting' = {nested}
  /\ UNCHANGED <<created, written, removed, fetchVars>>

CreateNested ==
  /\ starting # None
  /\ created' = created \cup starting
  /\ rows' = [s \in Session |-> IF s \in starting THEN <<NewRow>> ELSE rows[s]]
  /\ starting' = None
  /\ UNCHANGED <<written, removed, fetchVars>>

\* handle_kill_SIGRTMIN: the row is finished and the next one created.  The shell's
\* history may be empty, and so the command.
FinishRow(s, command) ==
  /\ s \in created /\ Len(rows[s]) <= MaxCommands
  /\ rows' = [rows EXCEPT ![s] = Append(Finished(@, command), NewRow)]
  /\ UNCHANGED <<created, written, starting, removed, fetchVars>>

RemoveSession(s) ==
  /\ s \in created
  /\ created' = created \ {s}
  /\ removed' = removed \cup {s}
  /\ rows' = [rows EXCEPT ![s] = <<>>]
  /\ UNCHANGED <<written, starting, fetchVars>>

\* What is recorded after the fetch is not followed.
Recording ==
  /\ result \in {"idle", "running"}
  /\ \/ \E s \in Session : \/ \E stream \in {Out, Err} : RecordOutput(s, stream)
                           \/ \E nested \in Session : AnnounceNested(s, nested)
                           \/ \E command \in BOOLEAN : FinishRow(s, command)
                           \/ RemoveSession(s)
     \/ CreateNested

----------------------------------------------------------------------------
\* The fetch.  A frame holds the locals of printRows: the rows and the bytes of
\* output not read yet, the two buffers, writeStdout.

Top == Head(frames)
SetTop(frame) == frames' = <<frame>> \o Tail(frames)

Frame(s) ==
  [session |-> s, row |-> 0, rows |-> rows[s], output |-> <<>>,
   stdout |-> <<>>, stderr |-> <<>>, writeStdout |-> FALSE, busy |-> FALSE]

PutOut(entries) == printed' = printed \o entries

Entries(to, texts) == [k \in 1 .. Len(texts) |-> [to |-> to, what |-> <<texts[k]>>]]

\* What comes out when the buffers are emptied, one or the other.
Flushed(frame) ==
  IF frame.stdout # <<>> THEN Entries(Out, frame.stdout)
  ELSE Entries(Err, frame.stderr)

Empty(frame) ==
  IF frame.stdout # <<>> THEN [frame EXCEPT !.stdout = <<>>]
  ELSE [frame EXCEPT !.stderr = <<>>]

\* Fetch: the query of a session, with the snapshot of its rows, on top of the
\* frames there are.  A missing table ends all of them with an error.
Query(s, below) ==
  IF s \in created
  THEN /\ frames' = <<Frame(s)>> \o below
       /\ fetched' = [fetched EXCEPT ![s] = rows[s]]
       /\ result' = "running"
  ELSE frames' = <<>> /\ result' = "failed" /\ UNCHANGED fetched

Begin(s, children) ==
  /\ result = "idle" /\ s \in created
  /\ Query(s, <<>>)
  /\ recursive' = children
  /\ UNCHANGED <<printed, dbVars>>

Active == result = "running"
Reading == Active /\ Top.busy /\ Top.output # <<>>
Byte == Head(Top.output)
Rest == [Top EXCEPT !.output = Tail(@)]

\* Slip: the loop goes round without the next row.
NextRowAgain ==
  /\ Active /\ ~Top.busy /\ Top.rows # <<>>
  /\ Head(Top.rows).command
  /\ SetTop([Top EXCEPT !.rows = Tail(@), !.row = @ + 1, !.busy = TRUE,
                         !.output = Head(Top.rows).output, !.writeStdout = FALSE,
                         !.stdout = <<>>, !.stderr = <<>>])
  /\ PutOut(<<[to |-> Out, what |-> <<Top.session, Top.row + 1>>]>>)
  /\ UNCHANGED <<result, recursive, fetched, dbVars>>

\* rows.Next(): a row without a command, unfinished or with an empty one, is
\* passed over; the prompt and the command of another go to standard output.
NextRow ==
  /\ Active /\ ~Top.busy /\ Top.rows # <<>>
  /\ IF Head(Top.rows).command
     THEN /\ SetTop([Top EXCEPT !.rows = Tail(@), !.row = @ + 1, !.busy = TRUE,
                                !.output = Head(Top.rows).output, !.writeStdout = FALSE,
                                !.stdout = <<>>, !.stderr = <<>>])
          /\ PutOut(<<[to |-> Out, what |-> <<Top.session, Top.row + 1>>]>>)
     ELSE /\ SetTop([Top EXCEPT !.rows = Tail(@), !.row = @ + 1])
          /\ UNCHANGED printed
  /\ UNCHANGED <<result, recursive, fetched, dbVars>>

\* Slip: a marker only empties the buffer of its own stream.
ReadMarkerOfStream ==
  /\ Reading /\ Byte \in {Out, Err}
  /\ IF (Byte = Out) = (Top.stdout # <<>>)
     THEN PutOut(Flushed(Top)) /\ SetTop([Empty(Rest) EXCEPT !.writeStdout = (Byte = Out)])
     ELSE UNCHANGED printed /\ SetTop([Rest EXCEPT !.writeStdout = (Byte = Out)])
  /\ UNCHANGED <<result, recursive, fetched, dbVars>>

\* Slip: a marker of the stream that is written already is passed over.
ReadMarkerOnChange ==
  /\ Reading /\ Byte \in {Out, Err}
  /\ IF Top.writeStdout # (Byte = Out)
     THEN PutOut(Flushed(Top)) /\ SetTop([Empty(Rest) EXCEPT !.writeStdout = (Byte = Out)])
     ELSE UNCHANGED printed /\ SetTop(Rest)
  /\ UNCHANGED <<result, recursive, fetched, dbVars>>

\* 255 or 254.
ReadMarker ==
  /\ Reading /\ Byte \in {Out, Err}
  /\ PutOut(Flushed(Top))
  /\ SetTop([Empty(Rest) EXCEPT !.writeStdout = (Byte = Out)])
  /\ UNCHANGED <<result, recursive, fetched, dbVars>>

\* 253 and the indicator, which is overwritten with zeros and then read as text.
Zeroed == [Rest EXCEPT !.output = <<Nul>> \o Tail(@)]

\* Slip: the indicator is overwritten before it is used.
ReadNestedZeroedFirst ==
  /\ Reading /\ Byte = Nested
  /\ IF recursive THEN Query(Head(Zeroed.output), <<Zeroed>> \o Tail(frames))
     ELSE SetTop(Zeroed) /\ UNCHANGED <<result, fetched>>
  /\ UNCHANGED <<printed, recursive, dbVars>>

ReadNested ==
  /\ Reading /\ Byte = Nested
  /\ IF recursive THEN Query(Head(Rest.output), <<Zeroed>> \o Tail(frames))
     ELSE SetTop(Zeroed) /\ UNCHANGED <<result, fetched>>
  /\ UNCHANGED <<printed, recursive, dbVars>>

ReadText ==
  /\ Reading /\ Byte \notin {Out, Err, Nested}
  /\ SetTop(IF Top.writeStdout THEN [Rest EXCEPT !.stdout = Append(@, Byte)]
            ELSE [Rest EXCEPT !.stderr = Append(@, Byte)])
  /\ UNCHANGED <<printed, result, recursive, fetched, dbVars>>

\* Slip: what the last write has left in the buffers is forgotten.
EndRowUnflushed ==
  /\ Active /\ Top.busy /\ Top.output = <<>>
  /\ SetTop([Top EXCEPT !.busy = FALSE])
  /\ UNCHANGED <<printed, result, recursive, fetched, dbVars>>

EndRow ==
  /\ Active /\ Top.busy /\ Top.output = <<>>
  /\ PutOut(Flushed(Top))
  /\ SetTop([Empty(Top) EXCEPT !.busy = FALSE])
  /\ UNCHANGED <<result, recursive, fetched, dbVars>>

\* The end of the rows: back to the row of the outer session, or the end.
Return ==
  /\ Active /\ ~Top.busy /\ Top.rows = <<>>
  /\ frames' = Tail(frames)
  /\ result' = IF Len(frames) = 1 THEN "done" ELSE "running"
  /\ UNCHANGED <<printed, recursive, fetched, dbVars>>

Fetching == NextRow \/ ReadMarker \/ ReadNested \/ ReadText \/ EndRow \/ Return

FetchNext ==
  \/ Recording
  \/ \E s \in Session, children \in BOOLEAN : Begin(s, children)
  \/ Fetching

FetchSpec == FetchInit /\ [][FetchNext]_allVars
FetchFairSpec == FetchSpec /\ WF_allVars(Fetching)

----------------------------------------------------------------------------
\* The bytes nhid records: an indicator after every marker of a nested session.
Token == {Out, Err, Nested, Nul} \cup 1 .. MaxWrites \cup Session
Outputs == {o \in Seq(Token) :
              \A j \in 1 .. Len(o) : o[j] = Nested => j < Len(o) /\ o[j + 1] \in Session}
Row == [command : BOOLEAN, output : Outputs]

FetchTypeOK ==
  /\ rows \in [Session -> Seq(Row)]
  /\ created \cup starting \cup removed \subseteq Session
  /\ \A s \in created : rows[s] # <<>>
  /\ written \in 0 .. MaxWrites
  /\ frames \in Seq([session : Session, row : Nat, rows : Seq(Row), output : Outputs,
                      stdout : Seq(Token), stderr : Seq(Token),
                      writeStdout : BOOLEAN, busy : BOOLEAN])
  /\ result \in {"idle", "running", "done", "failed"}
  /\ Active <=> frames # <<>>
  /\ recursive \in BOOLEAN

IsText(byte) == byte \in 1 .. MaxWrites

\* The marker a text stands under.
StreamAt(output, j) ==
  output[Max({i \in 1 .. j : output[i] \in {Out, Err}})]

\* What of a table comes out: of each row with a command that, at 0, and its texts.
Places(table) ==
  UNION {{k} \X ({0} \cup {j \in DOMAIN table[k].output : IsText(table[k].output[j])}) :
           k \in {n \in DOMAIN table : table[n].command}}

Earlier(p, q) == p[1] < q[1] \/ (p[1] = q[1] /\ p[2] < q[2])

\* What it comes out as, the sessions nested in it aside.
Entry(s, table, p) ==
  LET output == table[p[1]].output
  IN  IF p[2] = 0 THEN [to |-> Out, what |-> <<s, p[1]>>]
      ELSE [to |-> StreamAt(output, p[2]), what |-> <<output[p[2]]>>]

CameOut(s, p, n) == \E m \in 1 .. n : printed[m] = Entry(s, fetched[s], p)

\* Nested sessions announced in the rows of s that have a command.
NestedIn(s) ==
  UNION {Range(fetched[s][k].output) \cap Session :
           k \in {n \in 1 .. Len(fetched[s]) : fetched[s][n].command}}

\* When a marker comes one buffer has been flushed and the other is empty: the
\* else of fetch.go:222 never leaves text behind or lets it out of order.
OneBufferAtATime ==
  \A k \in 1 .. Len(frames) : frames[k].stdout = <<>> \/ frames[k].stderr = <<>>

\* The commands and texts of a session come out in the order they were recorded,
\* each on its stream, once, and with nothing between them but the zeros of
\* indicators (fetch.go:199-277); in the end all of them have, and with -f those of
\* every nested session too.
PrintsWhatIsRecorded ==
  /\ \A n \in 1 .. Len(printed) :
       \/ printed[n].what = <<Nul>>
       \/ /\ \E s \in Session : \E p \in Places(fetched[s]) :
               printed[n] = Entry(s, fetched[s], p)
          /\ \A m \in 1 .. n - 1 : printed[m] # printed[n]
  /\ \A s \in Session : \A p, q \in Places(fetched[s]) : \A n \in 1 .. Len(printed) :
       Earlier(p, q) /\ printed[n] = Entry(s, fetched[s], q) => CameOut(s, p, n)
  /\ result = "done" =>
       \A s \in Session :
         /\ \A p \in Places(fetched[s]) : CameOut(s, p, Len(printed))
         /\ recursive => \A nested \in NestedIn(s) : fetched[nested] # <<>>

PrintedBefore(k, text) == \E n \in 1 .. k : printed[n].what = <<text>>

\* With -f the content of a nested session comes out where it happened, but for
\* the text of one write, still in a buffer then (fetch.go:245-251).
NestedInPlace ==
  \A s \in Session : \A k \in 1 .. Len(fetched[s]) : \A n \in 1 .. Len(printed) :
    LET output == fetched[s][k].output
    IN  \A j \in 1 .. Len(output) :
          output[j] \in Session /\ printed[n].what = <<output[j], 1>> =>
            \A i \in 1 .. Len(output) : IsText(output[i]) =>
              /\ PrintedBefore(n, output[i]) => i < j
              /\ (\E m \in i .. j : output[m] \in {Out, Err}) =>
                   PrintedBefore(n, output[i])

\* A fetch fails halfway (fetch.go:42-44) only over a nested session that was
\* removed, or whose registration has announced it and not created its table
\* (nhi.c:62-69).
FetchFailureExplained ==
  [][Active /\ result' = "failed" =>
       Head(Rest.output) \in removed \cup starting]_allVars

\* However much is recorded meanwhile, a fetch comes to an end.
FetchEnds == Active ~> ~Active
============================================================================
