---------------------------- MODULE RecordProofs ----------------------------
(* Theorems about what nhid records, for any processes, any tables and ring *)
(* buffer, any number of commands and of times nhid goes away.              *)
EXTENDS Nhi, TracerProofs, RowidTheorems

----------------------------------------------------------------------------
(* nhi implements Tracer: what the scripts, the handlers and the database   *)
(* add never makes a step the kernel half does not have.  Every invariant   *)
(* proved of Tracer holds of nhi as a whole.                                *)

\* A shell counts its prompts up to MaxCommands: a write carries a text of Data.
PromptsBounded ==
  /\ phase \in [ShellPid -> {"unborn", "source", "prompt", "command", "prompter"}]
  /\ prompts \in [ShellPid -> 0 .. MaxCommands]
  /\ \A s \in ShellPid :
       phase[s] \in {"command", "prompter"} => prompts[s] < MaxCommands

LEMMA InitPromptsBounded == NhiInit => PromptsBounded
BY BoundAssumption DEF NhiInit, PromptsBounded

LEMMA ShellStepKeepsPromptsBounded == ShellStep /\ PromptsBounded => PromptsBounded'
<1> SUFFICES ASSUME ShellStep, PromptsBounded PROVE PromptsBounded'
  OBVIOUS
<1> USE BoundAssumption DEF PromptsBounded
<1>1. ASSUME NEW t \in Pid, NEW c \in Pid, Fork(t, c) PROVE PromptsBounded'
  BY <1>1 DEF Fork
<1>2. ASSUME NEW s \in ShellPid, Source(s) PROVE PromptsBounded'
  BY <1>2 DEF Source
<1>3. ASSUME NEW s \in ShellPid, StartCommand(s) PROVE PromptsBounded'
  BY <1>3 DEF StartCommand
<1>4. ASSUME NEW s \in ShellPid, Export(s) PROVE PromptsBounded'
  BY <1>4 DEF Export
<1>5. ASSUME NEW s \in ShellPid, Prompt(s) PROVE PromptsBounded'
  BY <1>5 DEF Prompt
<1>6. ASSUME NEW t \in Pid, Die(t) \/ Write(t) PROVE PromptsBounded'
  BY <1>6 DEF Die, Write, scriptVars
<1> QED
  BY <1>1, <1>2, <1>3, <1>4, <1>5, <1>6 DEF ShellStep

\* What a shell and its processes do is a step of Tracer or leaves it alone.
LEMMA ShellStepsAreTracerSteps == ShellStep /\ PromptsBounded => Next \/ UNCHANGED vars
<1> SUFFICES ASSUME ShellStep, PromptsBounded PROVE Next \/ UNCHANGED vars
  OBVIOUS
<1>1. ASSUME NEW t \in Pid, NEW c \in Pid, Fork(t, c) PROVE Next
  BY <1>1 DEF Fork, Next
<1>2. ASSUME NEW s \in ShellPid, Source(s) \/ Prompt(s)
      PROVE Next \/ UNCHANGED vars
  <2>1. \E sig \in {"SIGUSR", "SIGRTMIN"} : Kill(s, sig)
    BY <1>2 DEF Source, Prompt
  <2> QED
    BY <2>1 DEF Kill, Next
<1>3. ASSUME NEW s \in ShellPid, StartCommand(s) \/ Export(s) PROVE UNCHANGED vars
  BY <1>3 DEF StartCommand, Export
<1>4. ASSUME NEW t \in Pid, Die(t) PROVE Next
  BY <1>4 DEF Die, Next
<1>5. ASSUME NEW t \in Pid, Write(t) PROVE Next
  <2>1. Moment(t) \in Data
    BY DataAssumption, BoundAssumption DEF Moment, PromptsBounded
  <2> QED
    BY <1>5, <2>1 DEF Write, Next
<1> QED
  BY <1>1, <1>2, <1>3, <1>4, <1>5 DEF ShellStep

\* What nhid does is a step of nhid in Tracer or leaves Tracer alone.
LEMMA HandlerStepsAreTracerSteps ==
  HandlerStep \/ Stop \/ Fault \/ Start => NhidStep \/ UNCHANGED vars
<1>1. SIGUSRStep => NhidStep \/ UNCHANGED vars
  BY DEF SIGUSRStep, TakeRegistration, Statement, AddMarker, CreateTable, CreateRow,
         MetaCreateRow, ScanShells, FindEnviron, ReadEnviron, AskPs, GiveUp,
         FillFirstRow, UpdateShells, NhidStep
<1>2. TakeLookup \/ LookUp \/ Snapshot \/ FinishRow => UNCHANGED vars
  BY DEF TakeLookup, LookUp, Snapshot, FinishRow
<1>3. NextRow \/ StartRow \/ FinishSession \/ RecordOutput => NhidStep
  BY DEF NextRow, StartRow, FinishSession, RecordOutput, NhidStep
<1>4. Stop \/ Fault \/ Start => NhidStep
  BY DEF Stop, Fault, GoAway, Start, NhidStep
<1> QED
  BY <1>1, <1>2, <1>3, <1>4 DEF HandlerStep

LEMMA HandlerStepLeavesScripts ==
  HandlerStep \/ Stop \/ Fault \/ Start => UNCHANGED scriptVars
<1>1. SIGUSRStep => UNCHANGED scriptVars
  BY DEF SIGUSRStep, TakeRegistration, Statement, AddMarker, CreateTable, CreateRow,
         MetaCreateRow, ScanShells, FindEnviron, ReadEnviron, AskPs, GiveUp,
         FillFirstRow, UpdateShells
<1>2. TakeLookup \/ LookUp \/ Snapshot \/ FinishRow \/ NextRow \/ StartRow
      \/ FinishSession \/ RecordOutput => UNCHANGED scriptVars
  BY DEF TakeLookup, LookUp, Snapshot, FinishRow, NextRow, StartRow,
         FinishSession, RecordOutput
<1>3. Stop \/ Fault \/ Start => UNCHANGED scriptVars
  BY DEF Stop, Fault, GoAway, Start
<1> QED
  BY <1>1, <1>2, <1>3 DEF HandlerStep

LEMMA PromptsStayBounded == PromptsBounded /\ [NhiNext]_nhiVars => PromptsBounded'
<1> SUFFICES ASSUME PromptsBounded, [NhiNext]_nhiVars PROVE PromptsBounded'
  OBVIOUS
<1>1. CASE ShellStep
  BY <1>1, ShellStepKeepsPromptsBounded
<1>2. CASE HandlerStep \/ Stop \/ Fault \/ Start
  BY <1>2, HandlerStepLeavesScripts DEF PromptsBounded, scriptVars
<1>3. CASE UNCHANGED nhiVars
  BY <1>3 DEF PromptsBounded, nhiVars, scriptVars
<1> QED
  BY <1>1, <1>2, <1>3 DEF NhiNext

LEMMA NhiStepsAreTracerSteps == PromptsBounded /\ [NhiNext]_nhiVars => [Next]_vars
<1> SUFFICES ASSUME PromptsBounded, [NhiNext]_nhiVars PROVE [Next]_vars
  OBVIOUS
<1>1. CASE ShellStep
  BY <1>1, ShellStepsAreTracerSteps
<1>2. CASE HandlerStep \/ Stop \/ Fault \/ Start
  BY <1>2, HandlerStepsAreTracerSteps DEF Next
<1>3. CASE UNCHANGED nhiVars
  BY <1>3 DEF nhiVars
<1> QED
  BY <1>1, <1>2, <1>3 DEF NhiNext

\* The scripts, the handlers of nhi.c taken statement by statement and the
\* database do to the processes and the maps only what Tracer allows.
THEOREM NhiImplementsTracer == NhiSpec => TracerSpec
<1>1. NhiInit => Init
  BY DEF NhiInit
<1> QED
  BY <1>1, InitPromptsBounded, PromptsStayBounded, NhiStepsAreTracerSteps, PTL
     DEF NhiSpec, TracerSpec, Spec

\* So what is proved of the tables in Tracer holds with nhid at work on them: no
\* event for a foreign session, no slot overwritten, no session closed early.
THEOREM NhiKeepsTheTables ==
  NhiSpec => [](NoForeignEvent /\ RegistrationNeverClobbers /\ ClosedSessionsAreOver)
BY NhiImplementsTracer, EventsStayInTheirSession, RegistrationIsSafe,
   ClosingIsTruthful, PTL DEF TracerSpec

----------------------------------------------------------------------------
\* The inductive invariant, first part: types.

Row == [command : Text \cup {NoText}, pwd : 0 .. MaxCommands \cup {-1, NoText},
        output : SUBSET Data, markers : SUBSET Indicator,
        started : BOOLEAN, finished : BOOLEAN]

\* A database is a record with the fields SessionDb gives it; only tables that
\* have been created have rows.
GoodDb(d) ==
  /\ d = [created |-> d.created, rows |-> d.rows, meta |-> d.meta,
          name |-> d.name, closed |-> d.closed]
  /\ d.created \subseteq Indicator
  /\ d.rows \in [Indicator -> Seq(Row)]
  /\ \A i \in Indicator : i \notin d.created => d.rows[i] = <<>>
  /\ Bounded(DOMAIN d.meta)
  /\ Listed(d) \subseteq d.created
  /\ d.closed \subseteq Listed(d)

ScriptOK ==
  /\ exported \in [ShellPid -> Environ]
  /\ environ \in Environ \cup {OwnEnviron}
  /\ nhid \in [step : Steps, slot : 0 .. MaxShells, indicator : Indicator \cup {NoIndicator}]
  /\ restarts \in Nat

\* What nhid is at, and the event it works on.
Registering == {"marker", "table", "row", "meta", "scan", "address", "environ", "ps",
                "fill", "update"}
Answering == {"find", "snapshot", "finish", "next", "start"}
Filled == {"meta", "scan", "address", "environ", "ps", "fill", "update"}

PhaseOK ==
  /\ nhid.step \in {"marker", "table", "row", "meta", "scan"} => reg.phase = "scan"
  /\ nhid.step \in {"address", "environ", "ps"} => reg.phase = "inspect"
  /\ nhid.step \in {"fill", "update"} => reg.phase = "update"
  /\ nhid.step \in {"wait"} \cup Answering => reg = NoRegistration
  /\ ~loaded => nhid = NoHandler /\ ring = <<>> /\ shells = NoShells

HeadOK ==
  /\ nhid.step \in Registering =>
       ring # <<>> /\ IsRegistration(Head(ring)) /\ reg.pid = Head(ring).pid
  /\ nhid.step \in {"snapshot", "finish", "next"} => ring # <<>> /\ IsPrompt(Head(ring))
  /\ nhid.step = "find" => ring # <<>> /\ (IsPrompt(Head(ring)) \/ Head(ring).type = "child")
  /\ nhid.step = "start" => ring # <<>> /\ Head(ring).type = "child"
  /\ nhid.indicator # NoIndicator =>
       nhid.step \in Answering \ {"find"} /\ <<Wanted, nhid.indicator>> \in granted

\* What nhid has done of a registration; and that a session is granted once its
\* table has a row.
TableOK ==
  /\ nhid.step \in {"marker", "table"} => reg.indicator \notin db.created
  /\ nhid.step = "row" => reg.indicator \in db.created /\ db.rows[reg.indicator] = <<>>
  /\ nhid.step \in Filled =>
       /\ reg.indicator \in db.created
       /\ Len(db.rows[reg.indicator]) = 1
       /\ db.rows[reg.indicator][1].output = {}
       /\ db.rows[reg.indicator][1].command = NoText
  /\ nhid.step \in Registering => \A s \in ShellPid : <<s, reg.indicator>> \notin granted
  /\ \A s \in ShellPid, i \in Indicator :
       <<s, i>> \in granted => i \in db.created /\ db.rows[i] # <<>>

\* The row a prompt has finished is the last one until the next is opened.
NextOK ==
  nhid.step = "next" /\ HasRow(db, nhid.indicator) =>
    LastRow(db, nhid.indicator).finished /\ LastRow(db, nhid.indicator).command # NoText

ClosedOK ==
  \A i \in db.closed : \E s \in born \cap ShellPid : <<s, i>> \in granted /\ ~Running(s)

RecordInv ==
  /\ GoodDb(db) /\ ScriptOK
  /\ PhaseOK /\ HeadOK /\ TableOK
  /\ CompleteBeforeNext /\ NextOK
  /\ MarkersResolve /\ ClosedOK

----------------------------------------------------------------------------
(* The statements of SessionDb, field by field and row by row. *)

\* An UPDATE changes the last row of one table and nothing else.
LEMMA UpdateFacts ==
  ASSUME NEW d, GoodDb(d), NEW i, NEW row, HasRow(d, i) => row \in Row,
         NEW e, e = UpdateLast(d, i, row)
  PROVE  /\ GoodDb(e)
         /\ e.created = d.created /\ e.closed = d.closed /\ Listed(e) = Listed(d)
         /\ \A j \in Indicator : Len(e.rows[j]) = Len(d.rows[j])
         /\ \A j \in Indicator : \A k \in 1 .. Len(d.rows[j]) :
              e.rows[j][k] = IF j = i /\ k = Len(d.rows[j]) THEN row ELSE d.rows[j][k]
<1>1. CASE ~HasRow(d, i)
  <2>1. e = d
    BY <1>1 DEF UpdateLast
  <2>2. ASSUME NEW j \in Indicator, NEW k \in 1 .. Len(d.rows[j]), j = i PROVE FALSE
    <3>1. d.rows[j] \in Seq(Row)
      BY DEF GoodDb
    <3>2. d.rows[j] # <<>>
      BY <3>1
    <3>3. j \in d.created
      BY <3>2 DEF GoodDb
    <3> QED
      BY <1>1, <2>2, <3>2, <3>3 DEF HasRow
  <2> QED
    BY <2>1, <2>2
<1>2. CASE HasRow(d, i)
  <2> DEFINE n == Len(d.rows[i])
             line == [d.rows[i] EXCEPT ![n] = row]
             table == [d.rows EXCEPT ![i] = line]
  <2>1. i \in d.created /\ i \in Indicator /\ d.rows[i] # <<>> /\ row \in Row
    BY <1>2 DEF HasRow, GoodDb
  <2>2. d.rows \in [Indicator -> Seq(Row)] /\ d.rows[i] \in Seq(Row)
    BY <2>1 DEF GoodDb
  <2>3. n \in Nat /\ n \in 1 .. n
    BY <2>1, <2>2
  <2>4. /\ line \in Seq(Row) /\ Len(line) = n
        /\ \A k \in 1 .. n : line[k] = IF k = n THEN row ELSE d.rows[i][k]
    BY <2>1, <2>2, <2>3
  <2>5. e = [created |-> d.created, rows |-> table, meta |-> d.meta,
             name |-> d.name, closed |-> d.closed]
    <3>1. e = [d EXCEPT !.rows[i][n] = row]
      BY <1>2 DEF UpdateLast
    <3>2. e = [d EXCEPT !.rows = table]
      BY <3>1
    <3> HIDE DEF table
    <3> QED
      BY <3>2 DEF GoodDb
  <2> HIDE DEF n, line
  <2>6. /\ table \in [Indicator -> Seq(Row)] /\ table[i] = line
        /\ \A j \in Indicator : j # i => table[j] = d.rows[j]
    BY <2>1, <2>2, <2>4
  <2> HIDE DEF table
  <2>7. /\ e.created = d.created /\ e.closed = d.closed /\ e.meta = d.meta
        /\ e.rows = table /\ e.name = d.name
    BY <2>5
  <2>8. GoodDb(e)
    <3>1. Listed(e) = Listed(d)
      BY <2>7 DEF Listed
    <3>2. e = [created |-> e.created, rows |-> e.rows, meta |-> e.meta,
               name |-> e.name, closed |-> e.closed]
      BY <2>5, <2>7
    <3>3. \A j \in Indicator : j \notin e.created => e.rows[j] = <<>>
      BY <2>1, <2>6, <2>7 DEF GoodDb
    <3> QED
      BY <2>6, <2>7, <3>1, <3>2, <3>3 DEF GoodDb
  <2>9. ASSUME NEW j \in Indicator
        PROVE  /\ Len(e.rows[j]) = Len(d.rows[j])
               /\ \A k \in 1 .. Len(d.rows[j]) :
                    e.rows[j][k] = IF j = i /\ k = Len(d.rows[j]) THEN row ELSE d.rows[j][k]
    <3>1. CASE j = i
      BY <3>1, <2>4, <2>6, <2>7 DEF n
    <3>2. CASE j # i
      BY <3>2, <2>6, <2>7
    <3> QED
      BY <3>1, <3>2
  <2> QED
    BY <2>7, <2>8, <2>9 DEF Listed
<1> QED
  BY <1>1, <1>2

LEMMA CreateTableFacts ==
  ASSUME NEW d, GoodDb(d), NEW i \in Indicator, NEW e, e = create_table(d, i)
  PROVE  /\ GoodDb(e)
         /\ e.created = d.created \cup {i} /\ e.closed = d.closed
         /\ Listed(e) = Listed(d) /\ e.rows = d.rows
<1>1. e = [created |-> d.created \cup {i}, rows |-> d.rows, meta |-> d.meta,
           name |-> d.name, closed |-> d.closed]
  BY DEF create_table, GoodDb
<1>2. e.created = d.created \cup {i} /\ e.closed = d.closed /\ e.meta = d.meta
      /\ e.rows = d.rows /\ e.name = d.name
  BY <1>1
<1>3. Listed(e) = Listed(d)
  BY <1>2 DEF Listed
<1> QED
  BY <1>1, <1>2, <1>3 DEF GoodDb

LEMMA NewRowIsRow == NewRow \in Row
BY DEF NewRow, Row

\* INSERT adds one row to one table, if the table is there.
LEMMA CreateRowFacts ==
  ASSUME NEW d, GoodDb(d), NEW i, NEW e, e = create_row(d, i)
  PROVE  /\ GoodDb(e)
         /\ e.created = d.created /\ e.closed = d.closed /\ Listed(e) = Listed(d)
         /\ \A j \in Indicator :
              /\ Len(e.rows[j]) = IF j = i /\ i \in d.created
                                  THEN Len(d.rows[j]) + 1 ELSE Len(d.rows[j])
              /\ \A k \in 1 .. Len(e.rows[j]) :
                   e.rows[j][k] = IF k = Len(d.rows[j]) + 1 THEN NewRow ELSE d.rows[j][k]
<1>0. \A j \in Indicator : d.rows[j] \in Seq(Row) /\ Len(d.rows[j]) \in Nat
  BY DEF GoodDb
<1>1. CASE i \notin d.created
  <2>1. e = d
    BY <1>1 DEF create_row
  <2>2. ASSUME NEW j \in Indicator, NEW k \in 1 .. Len(d.rows[j])
        PROVE  k # Len(d.rows[j]) + 1
    BY <1>0
  <2> QED
    BY <1>1, <2>1, <2>2
<1>2. CASE i \in d.created
  <2> DEFINE line == Append(d.rows[i], NewRow)
             table == [d.rows EXCEPT ![i] = line]
  <2>1. i \in Indicator /\ d.rows \in [Indicator -> Seq(Row)] /\ d.rows[i] \in Seq(Row)
    BY <1>2 DEF GoodDb
  <2>2. /\ line \in Seq(Row) /\ Len(line) = Len(d.rows[i]) + 1
        /\ \A k \in 1 .. Len(line) :
             line[k] = IF k = Len(d.rows[i]) + 1 THEN NewRow ELSE d.rows[i][k]
    BY <2>1, NewRowIsRow
  <2>3. e = [created |-> d.created, rows |-> table, meta |-> d.meta,
             name |-> d.name, closed |-> d.closed]
    <3>1. e = [d EXCEPT !.rows = table]
      BY <1>2 DEF create_row
    <3> HIDE DEF table
    <3> QED
      BY <3>1 DEF GoodDb
  <2> HIDE DEF line
  <2>4. /\ table \in [Indicator -> Seq(Row)] /\ table[i] = line
        /\ \A j \in Indicator : j # i => table[j] = d.rows[j]
    BY <2>1, <2>2
  <2> HIDE DEF table
  <2>5. /\ e.created = d.created /\ e.closed = d.closed /\ e.meta = d.meta
        /\ e.rows = table /\ e.name = d.name
    BY <2>3
  <2>6. GoodDb(e)
    <3>1. Listed(e) = Listed(d)
      BY <2>5 DEF Listed
    <3>2. e = [created |-> e.created, rows |-> e.rows, meta |-> e.meta,
               name |-> e.name, closed |-> e.closed]
      BY <2>3, <2>5
    <3>3. \A j \in Indicator : j \notin e.created => e.rows[j] = <<>>
      BY <1>2, <2>4, <2>5 DEF GoodDb
    <3> QED
      BY <2>4, <2>5, <3>1, <3>2, <3>3 DEF GoodDb
  <2>7. ASSUME NEW j \in Indicator
        PROVE  /\ Len(e.rows[j]) = IF j = i /\ i \in d.created
                                   THEN Len(d.rows[j]) + 1 ELSE Len(d.rows[j])
               /\ \A k \in 1 .. Len(e.rows[j]) :
                    e.rows[j][k] = IF k = Len(d.rows[j]) + 1 THEN NewRow ELSE d.rows[j][k]
    <3>1. CASE j = i
      BY <3>1, <1>2, <2>2, <2>4, <2>5
    <3>2. CASE j # i
      BY <3>2, <1>0, <2>4, <2>5
    <3> QED
      BY <3>1, <3>2
  <2> QED
    BY <2>5, <2>6, <2>7 DEF Listed
<1> QED
  BY <1>1, <1>2

LEMMA MetaCreateRowFacts ==
  ASSUME NEW d, GoodDb(d), NEW i \in d.created, NEW e, e = meta_create_row(d, i)
  PROVE  /\ GoodDb(e)
         /\ e.created = d.created /\ e.closed = d.closed /\ e.rows = d.rows
         /\ Listed(e) = Listed(d) \cup {i}
<1> DEFINE longer == WithRow(d.meta, i)
           names == [d.name EXCEPT ![i] = i]
<1>1. Bounded(DOMAIN longer) /\ Range(longer) = Range(d.meta) \cup {i}
  BY RowAdded DEF GoodDb
<1>2. e = [d EXCEPT !.meta = longer, !.name = names]
  BY DEF meta_create_row, Inserted, WithRow, FreshRowid, NextRowid
<1> HIDE DEF longer, names
<1>3. e = [created |-> d.created, rows |-> d.rows, meta |-> longer, name |-> names,
           closed |-> d.closed]
  BY <1>2 DEF GoodDb
<1>4. /\ e.created = d.created /\ e.closed = d.closed /\ e.rows = d.rows
      /\ e.meta = longer /\ e.name = names
  BY <1>3
<1>5. Listed(e) = Listed(d) \cup {i}
  BY <1>1, <1>4 DEF Listed
<1> QED
  BY <1>1, <1>3, <1>4, <1>5 DEF GoodDb

LEMMA FinishTimeFacts ==
  ASSUME NEW d, GoodDb(d), NEW i, NEW e, e \in {meta_add_finish_time(d, i), d}
  PROVE  /\ GoodDb(e)
         /\ e.created = d.created /\ Listed(e) = Listed(d) /\ e.rows = d.rows
         /\ e.closed \subseteq d.closed \cup {i}
<1>1. CASE e = d \/ i \notin Listed(d)
  BY <1>1 DEF meta_add_finish_time
<1>2. CASE e # d /\ i \in Listed(d)
  <2>1. e = [created |-> d.created, rows |-> d.rows, meta |-> d.meta, name |-> d.name,
             closed |-> d.closed \cup {i}]
    BY <1>2 DEF GoodDb, meta_add_finish_time
  <2>2. /\ e.created = d.created /\ e.closed = d.closed \cup {i} /\ e.meta = d.meta
        /\ e.rows = d.rows /\ e.name = d.name
    BY <2>1
  <2>3. Listed(e) = Listed(d)
    BY <2>2 DEF Listed
  <2> QED
    BY <1>2, <2>1, <2>2, <2>3 DEF GoodDb
<1> QED
  BY <1>1, <1>2

\* The statements of the handlers: which row they change, and what of it.
SameButLast(d, e, i) ==
  /\ GoodDb(e)
  /\ e.created = d.created /\ e.closed = d.closed /\ Listed(e) = Listed(d)
  /\ \A j \in Indicator : Len(e.rows[j]) = Len(d.rows[j])
  /\ \A j \in Indicator : \A k \in 1 .. Len(d.rows[j]) :
       ~ (j = i /\ k = Len(d.rows[j])) => e.rows[j][k] = d.rows[j][k]

LEMMA LastRowIsRow ==
  ASSUME NEW d, GoodDb(d), NEW i, HasRow(d, i)
  PROVE  /\ i \in Indicator /\ Len(d.rows[i]) \in 1 .. Len(d.rows[i])
         /\ LastRow(d, i) = d.rows[i][Len(d.rows[i])] /\ LastRow(d, i) \in Row
<1>1. i \in Indicator /\ d.rows[i] \in Seq(Row) /\ d.rows[i] # <<>>
  BY DEF HasRow, GoodDb
<1>2. Len(d.rows[i]) \in 1 .. Len(d.rows[i])
  BY <1>1
<1> QED
  BY <1>1, <1>2 DEF LastRow, Last

LEMMA UpdateOfLast ==
  ASSUME NEW d, GoodDb(d), NEW i, NEW row, HasRow(d, i) => row \in Row,
         NEW e, e = UpdateLast(d, i, row)
  PROVE  /\ SameButLast(d, e, i)
         /\ \A k \in 1 .. Len(d.rows[i]) : i \in Indicator /\ k = Len(d.rows[i]) =>
              /\ e.rows[i][k] = row /\ d.rows[i][k] = LastRow(d, i)
              /\ LastRow(d, i) \in Row
<1>1. /\ GoodDb(e)
      /\ e.created = d.created /\ e.closed = d.closed /\ Listed(e) = Listed(d)
      /\ \A j \in Indicator : Len(e.rows[j]) = Len(d.rows[j])
      /\ \A j \in Indicator : \A k \in 1 .. Len(d.rows[j]) :
           e.rows[j][k] = IF j = i /\ k = Len(d.rows[j]) THEN row ELSE d.rows[j][k]
  BY UpdateFacts
<1>2. ASSUME NEW k \in 1 .. Len(d.rows[i]), i \in Indicator, k = Len(d.rows[i])
      PROVE  d.rows[i][k] = LastRow(d, i) /\ LastRow(d, i) \in Row
  <2>1. d.rows[i] \in Seq(Row)
    BY <1>2 DEF GoodDb
  <2> QED
    BY <2>1, <1>2 DEF LastRow, Last
<1> QED
  BY <1>1, <1>2 DEF SameButLast

LEMMA FinishRowFacts ==
  ASSUME NEW d, GoodDb(d), NEW i, NEW text \in Text,
         NEW e, e = finish_row(d, i, text)
  PROVE  /\ SameButLast(d, e, i)
         /\ \A k \in 1 .. Len(d.rows[i]) : i \in Indicator /\ k = Len(d.rows[i]) =>
              /\ e.rows[i][k].command = text
              /\ e.rows[i][k].finished
              /\ e.rows[i][k].output = d.rows[i][k].output
              /\ e.rows[i][k].markers = d.rows[i][k].markers
<1> DEFINE row == [LastRow(d, i) EXCEPT !.command = text, !.finished = TRUE]
<1>1. HasRow(d, i) => row \in Row
  BY LastRowIsRow DEF Row
<1>2. e = UpdateLast(d, i, row)
  BY DEF finish_row
<1>3. ASSUME LastRow(d, i) \in Row
      PROVE  /\ row.command = text
             /\ row.finished
             /\ row.output = LastRow(d, i).output
             /\ row.markers = LastRow(d, i).markers
  BY <1>3 DEF Row
<1> HIDE DEF row
<1> QED
  BY <1>1, <1>2, <1>3, UpdateOfLast

LEMMA AddOutputFacts ==
  ASSUME NEW d, GoodDb(d), NEW i, NEW text \in Data,
         NEW e, e = add_output(d, i, text)
  PROVE  /\ SameButLast(d, e, i)
         /\ \A k \in 1 .. Len(d.rows[i]) : i \in Indicator /\ k = Len(d.rows[i]) =>
              /\ e.rows[i][k].output = d.rows[i][k].output \cup {text}
              /\ e.rows[i][k].command = d.rows[i][k].command
              /\ e.rows[i][k].finished = d.rows[i][k].finished
              /\ e.rows[i][k].markers = d.rows[i][k].markers
<1> DEFINE row == [LastRow(d, i) EXCEPT !.output = @ \cup {text}]
<1>1. HasRow(d, i) => row \in Row
  BY LastRowIsRow DEF Row
<1>2. e = UpdateLast(d, i, row)
  BY DEF add_output
<1>3. ASSUME LastRow(d, i) \in Row
      PROVE  /\ row.output = LastRow(d, i).output \cup {text}
             /\ row.command = LastRow(d, i).command
             /\ row.finished = LastRow(d, i).finished
             /\ row.markers = LastRow(d, i).markers
  BY <1>3 DEF Row
<1> HIDE DEF row
<1> QED
  BY <1>1, <1>2, <1>3, UpdateOfLast

\* The marker, the directory and the start of the clock leave what a command
\* did, said and printed alone.
LEMMA AddMarkerFacts ==
  ASSUME NEW d, GoodDb(d), NEW i, NEW nested \in Indicator,
         NEW e, e = add_marker(d, i, nested)
  PROVE  /\ SameButLast(d, e, i)
         /\ \A k \in 1 .. Len(d.rows[i]) : i \in Indicator /\ k = Len(d.rows[i]) =>
              /\ e.rows[i][k].output = d.rows[i][k].output
              /\ e.rows[i][k].command = d.rows[i][k].command
              /\ e.rows[i][k].finished = d.rows[i][k].finished
              /\ e.rows[i][k].markers = d.rows[i][k].markers \cup {nested}
<1> DEFINE row == [LastRow(d, i) EXCEPT !.markers = @ \cup {nested}]
<1>1. HasRow(d, i) => row \in Row
  BY LastRowIsRow DEF Row
<1>2. e = UpdateLast(d, i, row)
  BY DEF add_marker
<1>3. ASSUME LastRow(d, i) \in Row
      PROVE  /\ row.output = LastRow(d, i).output
             /\ row.command = LastRow(d, i).command
             /\ row.finished = LastRow(d, i).finished
             /\ row.markers = LastRow(d, i).markers \cup {nested}
  BY <1>3 DEF Row
<1> HIDE DEF row
<1> QED
  BY <1>1, <1>2, <1>3, UpdateOfLast

LEMMA AddPwdFacts ==
  ASSUME NEW d, GoodDb(d), NEW i, NEW pwd \in 0 .. MaxCommands \cup {-1},
         NEW e, e = add_pwd(d, i, pwd)
  PROVE  /\ SameButLast(d, e, i)
         /\ \A k \in 1 .. Len(d.rows[i]) : i \in Indicator /\ k = Len(d.rows[i]) =>
              /\ e.rows[i][k].output = d.rows[i][k].output
              /\ e.rows[i][k].command = d.rows[i][k].command
              /\ e.rows[i][k].finished = d.rows[i][k].finished
              /\ e.rows[i][k].markers = d.rows[i][k].markers
<1> DEFINE row == [LastRow(d, i) EXCEPT !.pwd = pwd]
<1>1. HasRow(d, i) => row \in Row
  BY LastRowIsRow DEF Row
<1>2. e = UpdateLast(d, i, row)
  BY DEF add_pwd
<1>3. ASSUME LastRow(d, i) \in Row
      PROVE  /\ row.output = LastRow(d, i).output
             /\ row.command = LastRow(d, i).command
             /\ row.finished = LastRow(d, i).finished
             /\ row.markers = LastRow(d, i).markers
  BY <1>3 DEF Row
<1> HIDE DEF row
<1> QED
  BY <1>1, <1>2, <1>3, UpdateOfLast

LEMMA AddStartTimeFacts ==
  ASSUME NEW d, GoodDb(d), NEW i,
         NEW e, e = add_start_time(d, i)
  PROVE  /\ SameButLast(d, e, i)
         /\ \A k \in 1 .. Len(d.rows[i]) : i \in Indicator /\ k = Len(d.rows[i]) =>
              /\ e.rows[i][k].output = d.rows[i][k].output
              /\ e.rows[i][k].command = d.rows[i][k].command
              /\ e.rows[i][k].finished = d.rows[i][k].finished
              /\ e.rows[i][k].markers = d.rows[i][k].markers
<1> DEFINE row == [LastRow(d, i) EXCEPT !.started = TRUE]
<1>1. HasRow(d, i) => row \in Row
  BY LastRowIsRow DEF Row
<1>2. e = UpdateLast(d, i, row)
  BY DEF add_start_time
<1>3. ASSUME LastRow(d, i) \in Row
      PROVE  /\ row.output = LastRow(d, i).output
             /\ row.command = LastRow(d, i).command
             /\ row.finished = LastRow(d, i).finished
             /\ row.markers = LastRow(d, i).markers
  BY <1>3 DEF Row
<1> HIDE DEF row
<1> QED
  BY <1>1, <1>2, <1>3, UpdateOfLast

----------------------------------------------------------------------------
(* What a step of a shell or a process leaves nhid to find. *)

\* The dead stay dead, and what was granted stays granted.
LEMMA ProcessesAge ==
  ASSUME IInv, PromptsBounded, [NhiNext]_nhiVars
  PROVE  /\ granted \subseteq granted' /\ born \subseteq born'
         /\ \A p \in born : ~Running(p) => ~Running(p)'
<1>1. [Next]_vars
  BY NhiStepsAreTracerSteps
<1> USE DEF IInv, TypeOK, Running
<1>2. ASSUME NEW t \in Pid, NEW c \in Pid, NEW leader \in {c, tgid[t]}, Clone(t, c, leader)
      PROVE  /\ granted \subseteq granted' /\ born \subseteq born'
             /\ \A p \in born : ~Running(p) => ~Running(p)'
  BY <1>2 DEF Clone, nhidVars
<1>3. ASSUME NEW s \in ShellPid, NEW sig, KillSomethingInfo(s, sig)
      PROVE  UNCHANGED <<granted, born, tgid>>
  BY <1>3 DEF KillSomethingInfo, nhidVars, procVars
<1>4. ASSUME NEW t \in Pid, DoExit(t)
      PROVE  /\ granted \subseteq granted' /\ born \subseteq born'
             /\ \A p \in born : ~Running(p) => ~Running(p)'
  BY <1>4 DEF DoExit, nhidVars
<1>5. ASSUME NEW t \in Pid, NEW data, KsysWrite(t, data)
      PROVE  UNCHANGED <<granted, born, tgid>>
  BY <1>5 DEF KsysWrite, nhidVars, procVars
<1>6. ASSUME NhidStep
      PROVE  granted \subseteq granted' /\ UNCHANGED <<born, tgid>>
  BY <1>6 DEF NhidStep, StartRegistration, ScanSlot, InspectShell, RegistrationFails,
     Register, Consume, Unload, Load, procVars, nhidVars
<1>7. ASSUME UNCHANGED vars PROVE UNCHANGED <<granted, born, tgid>>
  BY <1>7 DEF vars, procVars, nhidVars
<1> QED
  BY <1>1, <1>2, <1>3, <1>4, <1>5, <1>6, <1>7 DEF Next

\* A program adds at most one event at the end of the ring buffer.
RingGrows ==
  \/ ring' = ring
  \/ loaded /\ \E e \in Event : ring' = Append(ring, e)

LEMMA GrowingKeepsHead ==
  ASSUME ring \in Seq(Event), RingGrows, ring # <<>>
  PROVE  ring' # <<>> /\ Head(ring') = Head(ring)
<1>1. ASSUME NEW e \in Event, ring' = Append(ring, e)
      PROVE  ring' # <<>> /\ Head(ring') = Head(ring)
  <2>1. Len(ring) \in Nat \ {0} /\ Len(ring') = Len(ring) + 1 /\ ring'[1] = ring[1]
    BY <1>1
  <2> QED
    BY <1>1, <2>1
<1> QED
  BY <1>1 DEF RingGrows

\* A step of a shell leaves nhid and the database alone, and while nhid is away
\* the maps too.
Kept ==
  /\ loaded' = loaded /\ reg' = reg /\ granted' = granted
  /\ nhid' = nhid /\ environ' = environ /\ db' = db
  /\ restarts' = restarts /\ stale' = stale
  /\ ~loaded => shells' = shells
  /\ exported' \in [ShellPid -> Environ]

LEMMA ShellStepEffects ==
  ASSUME IInv, PromptsBounded, ScriptOK, ShellStep
  PROVE  Kept /\ RingGrows
<1>1. ring \in Seq(Event) /\ ring' \in Seq(Event)
  <2>1. [Next]_vars
    BY ShellStepsAreTracerSteps
  <2>2. IInv'
    BY <2>1, NextKeepsIInv
  <2> QED
    BY <2>2 DEF IInv, TypeOK
<1>2. ASSUME NEW e, Submit(e), loaded PROVE RingGrows
  <2>1. CASE ring' = Append(ring, e)
    <3>1. ring \in Seq(Event \cup {e}) /\ e \in Event \cup {e}
      BY <1>1
    <3>2. Len(ring') = Len(ring) + 1 /\ ring'[Len(ring) + 1] = e /\ Len(ring) \in Nat
      BY <2>1, <3>1, AppendProperties
    <3>3. e \in Event
      BY <1>1, <3>2
    <3> QED
      BY <1>2, <2>1, <3>3 DEF RingGrows
  <2> QED
    BY <1>2, <2>1 DEF Submit, RingGrows
<1>3. ASSUME NEW t \in Pid, NEW c \in Pid, Fork(t, c) PROVE Kept /\ RingGrows
  <2>1. loaded' = loaded /\ shells' = shells /\ reg' = reg /\ granted' = granted
    BY <1>3 DEF Fork, Clone, nhidVars
  <2>2. UNCHANGED handlerVars /\ restarts' = restarts /\ stale' = stale
    BY <1>3 DEF Fork
  <2>3. exported' \in [ShellPid -> Environ]
    BY <1>3 DEF Fork, ScriptOK
  <2>4. RingGrows
    BY <1>2, <1>3 DEF Fork, Clone, ForkTracepoint, RingGrows
  <2> QED
    BY <2>1, <2>2, <2>3, <2>4 DEF handlerVars, Kept
<1>4. ASSUME NEW s \in ShellPid, Source(s) \/ Prompt(s) PROVE Kept /\ RingGrows
  <2>1. PICK sig \in {"SIGUSR", "SIGRTMIN"} : Kill(s, sig)
    BY <1>4 DEF Source, Prompt
  <2>2. loaded' = loaded /\ shells' = shells /\ reg' = reg /\ granted' = granted
    BY <2>1 DEF Kill, KillSomethingInfo, nhidVars, vars, mapVars
  <2>3. UNCHANGED <<exported, handlerVars>> /\ restarts' = restarts /\ stale' = stale
    BY <1>4 DEF Source, Prompt
  <2>4. RingGrows
    BY <1>2, <2>1 DEF Kill, KillSomethingInfo, RingGrows, vars, mapVars
  <2> QED
    BY <2>2, <2>3, <2>4 DEF handlerVars, ScriptOK, Kept
<1>5. ASSUME NEW s \in ShellPid, StartCommand(s) \/ Export(s) PROVE Kept /\ RingGrows
  <2>1. UNCHANGED <<vars, handlerVars, pastVars>>
    BY <1>5 DEF StartCommand, Export
  <2>2. exported' \in [ShellPid -> Environ]
    <3>1. CASE StartCommand(s)
      BY <3>1 DEF StartCommand, ScriptOK
    <3>2. CASE Export(s)
      <4>1. prompts[s] \in Nat /\ prompts[s] + 1 \in 1 .. MaxCommands
        BY <3>2, BoundAssumption DEF Export, PromptsBounded
      <4>2. [command |-> [shell |-> s, n |-> prompts[s] + 1], pwd |-> prompts[s] + 1]
              \in Environ
        BY <4>1 DEF Environ, Text
      <4> QED
        BY <3>2, <4>2 DEF Export, ScriptOK
    <3> QED
      BY <1>5, <3>1, <3>2
  <2> QED
    BY <2>1, <2>2 DEF vars, mapVars, nhidVars, handlerVars, pastVars, RingGrows, Kept
<1>6. ASSUME NEW t \in Pid, Die(t) PROVE Kept /\ RingGrows
  <2>1. DoExit(t) /\ UNCHANGED <<scriptVars, handlerVars, restarts, stale>>
    BY <1>6 DEF Die
  <2>2. loaded' = loaded /\ reg' = reg /\ granted' = granted
    BY <2>1 DEF DoExit, nhidVars
  <2>3. ~loaded => shells' = shells
    BY <2>1 DEF DoExit, mapVars
  <2>4. RingGrows
    BY <1>2, <2>1 DEF DoExit, ExitNoShells, ExitShell, ExitChild, mapVars, RingGrows
  <2> QED
    BY <2>1, <2>2, <2>3, <2>4 DEF scriptVars, handlerVars, ScriptOK, Kept
<1>7. ASSUME NEW t \in Pid, Write(t) PROVE Kept /\ RingGrows
  <2>1. KsysWrite(t, Moment(t)) /\ UNCHANGED <<scriptVars, handlerVars, restarts, stale>>
    BY <1>7 DEF Write
  <2>2. loaded' = loaded /\ reg' = reg /\ granted' = granted /\ loaded
    BY <2>1 DEF KsysWrite, nhidVars
  <2>3. RingGrows
    BY <1>2, <2>1, <2>2
    DEF KsysWrite, KsysWriteEnter, KsysWriteLeave, KsysWriteText, RingGrows
  <2> QED
    BY <2>1, <2>2, <2>3 DEF scriptVars, handlerVars, ScriptOK, Kept
<1> QED
  BY <1>3, <1>4, <1>5, <1>6, <1>7 DEF ShellStep

----------------------------------------------------------------------------
(* The first part is inductive. *)

LEMMA InitRecordInv == NhiInit => RecordInv
<1> SUFFICES ASSUME NhiInit PROVE RecordInv
  OBVIOUS
<1> USE DEF NhiInit, Init
<1>1. /\ db.created = {} /\ db.closed = {} /\ DOMAIN db.meta = {}
      /\ \A i \in Indicator : db.rows[i] = <<>>
  BY DEF EmptyDb
<1>2. GoodDb(db)
  <2>1. Listed(db) = {}
    BY <1>1 DEF Listed, Range
  <2>2. Bounded({})
    BY DEF Bounded
  <2>3. db.rows \in [Indicator -> Seq(Row)]
    <3>1. <<>> \in Seq(Row)
      OBVIOUS
    <3> QED
      BY <3>1 DEF EmptyDb
  <2>4. db = [created |-> db.created, rows |-> db.rows, meta |-> db.meta,
              name |-> db.name, closed |-> db.closed]
    BY DEF EmptyDb
  <2> QED
    BY <1>1, <2>1, <2>2, <2>3, <2>4 DEF GoodDb
<1>3. ScriptOK
  <2>1. [command |-> NoText, pwd |-> 0] \in Environ
    BY BoundAssumption DEF Environ
  <2>2. 0 \in 0 .. MaxShells
    BY SizeAssumption
  <2> QED
    BY <2>1, <2>2 DEF ScriptOK, NoHandler, Steps
<1>4. PhaseOK /\ HeadOK /\ TableOK
  BY <1>1 DEF PhaseOK, HeadOK, TableOK, NoHandler, Registering, Answering, Filled
<1>5. CompleteBeforeNext /\ NextOK /\ MarkersResolve /\ ClosedOK
  BY <1>1 DEF CompleteBeforeNext, NextOK, MarkersResolve, ClosedOK, NoHandler
<1> QED
  BY <1>2, <1>3, <1>4, <1>5 DEF RecordInv

LEMMA ClosedStaysOK ==
  ASSUME IInv, PromptsBounded, [NhiNext]_nhiVars, ClosedOK, db'.closed = db.closed
  PROVE  ClosedOK'
BY ProcessesAge DEF ClosedOK

LEMMA ShellStepKeepsRecordInv ==
  ASSUME IInv, PromptsBounded, RecordInv, ShellStep
  PROVE  RecordInv'
<1> USE DEF RecordInv
<1>1. Kept /\ RingGrows
  BY ShellStepEffects
<1>2. ring # <<>> => ring' # <<>> /\ Head(ring') = Head(ring)
  BY <1>1, GrowingKeepsHead DEF IInv, TypeOK
<1>3. GoodDb(db)' /\ ScriptOK'
  BY <1>1 DEF Kept, ScriptOK
<1>4. PhaseOK'
  BY <1>1 DEF Kept, RingGrows, PhaseOK
<1>5. HeadOK'
  BY <1>1, <1>2 DEF Kept, HeadOK, Registering, Answering, Wanted, IsPrompt, IsRegistration
<1>6. TableOK'
  BY <1>1 DEF Kept, TableOK
<1>7. CompleteBeforeNext' /\ NextOK' /\ MarkersResolve'
  BY <1>1 DEF Kept, CompleteBeforeNext, NextOK, MarkersResolve
<1>8. ClosedOK'
  BY <1>1, ClosedStaysOK DEF Kept, NhiNext
<1> QED
  BY <1>3, <1>4, <1>5, <1>6, <1>7, <1>8

\* A handler that has not come to its next statement on the database.
LEMMA SameDatabase ==
  ASSUME IInv, PromptsBounded, RecordInv, [NhiNext]_nhiVars, db' = db
  PROVE  GoodDb(db)' /\ CompleteBeforeNext' /\ ClosedOK'
<1> USE DEF RecordInv
<1>1. GoodDb(db)' /\ CompleteBeforeNext'
  BY DEF CompleteBeforeNext
<1>2. ClosedOK'
  BY ClosedStaysOK
<1> QED
  BY <1>1, <1>2

LEMMA TakeRegistrationKeepsRecordInv ==
  ASSUME IInv, PromptsBounded, RecordInv, TakeRegistration
  PROVE  RecordInv'
<1> USE DEF RecordInv
<1>1. /\ loaded /\ nhid.step = "wait" /\ ring # <<>> /\ IsRegistration(Head(ring))
      /\ reg'.phase = "scan" /\ reg'.pid = Head(ring).pid /\ reg'.indicator \in Indicator
      /\ reg'.indicator \notin db.created
      /\ nhid' = [nhid EXCEPT !.step = "marker"]
      /\ loaded' = loaded /\ ring' = ring /\ shells' = shells /\ granted' = granted
      /\ exported' = exported /\ environ' = environ /\ db' = db /\ restarts' = restarts
  BY DEF TakeRegistration, At, Goto, StartRegistration, mapVars, scriptVars, pastVars
<1>2. /\ nhid'.step = "marker" /\ nhid'.indicator = nhid.indicator
      /\ nhid' \in [step : Steps, slot : 0 .. MaxShells, indicator : Indicator \cup {NoIndicator}]
  BY <1>1 DEF ScriptOK, Steps
<1>3. nhid.indicator = NoIndicator
  BY <1>1 DEF HeadOK, Answering
<1>4. GoodDb(db)' /\ CompleteBeforeNext' /\ ClosedOK'
  BY <1>1, SameDatabase DEF NhiNext, HandlerStep, SIGUSRStep
<1>5. ScriptOK'
  BY <1>1, <1>2 DEF ScriptOK
<1>6. PhaseOK'
  BY <1>1, <1>2 DEF PhaseOK, Answering
<1>7. HeadOK'
  BY <1>1, <1>2, <1>3 DEF HeadOK, Registering
<1>8. TableOK'
  BY <1>1, <1>2 DEF TableOK, Filled
<1>9. NextOK'
  BY <1>2 DEF NextOK
<1>10. MarkersResolve'
  <2>1. reg.indicator = NoIndicator
    BY <1>1 DEF PhaseOK, NoRegistration
  <2> SUFFICES ASSUME restarts = 0, NEW i \in Indicator, NEW k \in DOMAIN db.rows[i],
                      NEW nested \in db.rows[i][k].markers
               PROVE  nested \in db.created
    BY <1>1 DEF MarkersResolve
  <2>2. nested \in Indicator
    <3>1. db.rows[i] \in Seq(Row)
      BY DEF GoodDb
    <3>2. db.rows[i][k] \in Row
      BY <3>1
    <3> QED
      BY <3>2 DEF Row
  <2> QED
    BY <2>1, <2>2, IndicatorAssumption DEF MarkersResolve
<1> QED
  BY <1>4, <1>5, <1>6, <1>7, <1>8, <1>9, <1>10

\* The scan of `shells`, /proc, ps and the early returns.
LEMMA InspectingKeepsRecordInv ==
  ASSUME IInv, PromptsBounded, RecordInv,
         ScanShells \/ FindEnviron \/ ReadEnviron \/ AskPs \/ GiveUp
  PROVE  RecordInv'
<1> USE DEF RecordInv
<1>1. /\ nhid.step \in {"scan", "address", "environ", "ps"} /\ loaded /\ loaded' = loaded
      /\ granted' = granted /\ exported' = exported /\ db' = db /\ restarts' = restarts
      /\ shells' = shells
  BY DEF ScanShells, FindEnviron, ReadEnviron, AskPs, GiveUp, At, ScanSlot, InspectShell,
         RegistrationFails, vars, mapVars, nhidVars, scriptVars, pastVars
<1>2. environ' \in Environ \cup {OwnEnviron}
  <2>1. nhid.step = "environ" => reg.pid \in ShellPid
    BY DEF PhaseOK, IInv, RegistrationOK
  <2> QED
    BY <2>1 DEF ScanShells, FindEnviron, ReadEnviron, AskPs, GiveUp, At, CopyEnviron, ScriptOK
<1>3. nhid.indicator = NoIndicator
  BY <1>1 DEF HeadOK, Answering
<1>4. PICK to \in {"scan", "address", "environ", "ps", "fill", "wait"} :
        /\ nhid' = [nhid EXCEPT !.step = to]
        /\ to = "scan" => reg'.phase = "scan"
        /\ to \in {"address", "environ", "ps"} => reg'.phase = "inspect"
        /\ to = "fill" => reg'.phase = "update"
        /\ to = "wait" => reg' = NoRegistration
        /\ to # "wait" => /\ reg'.pid = reg.pid /\ reg'.indicator = reg.indicator
                          /\ ring' = ring
  <2>0. reg \in Registration
    BY DEF IInv, TypeOK
  <2>1. CASE ScanShells
    BY <2>0, <2>1 DEF ScanShells, ScanSlot, Goto, mapVars, Registration
  <2>2. CASE FindEnviron
    BY <1>1, <2>2 DEF FindEnviron, Goto, At, PhaseOK, vars, mapVars, nhidVars
  <2>3. CASE ReadEnviron
    BY <1>1, <2>3 DEF ReadEnviron, Goto, At, PhaseOK, vars, mapVars, nhidVars
  <2>4. CASE AskPs
    BY <2>0, <2>4 DEF AskPs, InspectShell, Goto, mapVars, Registration
  <2>5. CASE GiveUp
    BY <2>5 DEF GiveUp, RegistrationFails, Goto
  <2> QED
    BY <2>1, <2>2, <2>3, <2>4, <2>5
<1>5. /\ nhid'.step = to /\ nhid'.indicator = nhid.indicator
      /\ nhid' \in [step : Steps, slot : 0 .. MaxShells, indicator : Indicator \cup {NoIndicator}]
  BY <1>4 DEF ScriptOK, Steps
<1>6. GoodDb(db)' /\ CompleteBeforeNext' /\ ClosedOK'
  BY <1>1, SameDatabase DEF NhiNext, HandlerStep, SIGUSRStep
<1>7. ScriptOK'
  BY <1>1, <1>2, <1>5 DEF ScriptOK
<1>8. PhaseOK'
  BY <1>1, <1>4, <1>5 DEF PhaseOK, Answering
<1>9. HeadOK'
  BY <1>1, <1>3, <1>4, <1>5 DEF HeadOK, Registering, Answering
<1>10. TableOK'
  BY <1>1, <1>4, <1>5 DEF TableOK, Filled, Registering
<1>11. NextOK'
  BY <1>5 DEF NextOK
<1>12. MarkersResolve'
  BY <1>1, <1>4 DEF MarkersResolve, TableOK, Filled
<1> QED
  BY <1>6, <1>7, <1>8, <1>9, <1>10, <1>11, <1>12

LEMMA UpdateShellsKeepsRecordInv ==
  ASSUME IInv, PromptsBounded, RecordInv, UpdateShells
  PROVE  RecordInv'
<1> USE DEF RecordInv
<1>1. /\ nhid.step = "update" /\ loaded /\ loaded' = loaded
      /\ reg' = NoRegistration /\ nhid' = [nhid EXCEPT !.step = "wait"]
      /\ granted' \in {granted, granted \cup {<<reg.pid, reg.indicator>>}}
      /\ exported' = exported /\ environ' = environ /\ db' = db /\ restarts' = restarts
  BY DEF UpdateShells, At, Goto, Register, scriptVars, pastVars
<1>2. /\ nhid'.step = "wait" /\ nhid'.indicator = nhid.indicator
      /\ nhid' \in [step : Steps, slot : 0 .. MaxShells, indicator : Indicator \cup {NoIndicator}]
  BY <1>1 DEF ScriptOK, Steps
<1>3. nhid.indicator = NoIndicator
  BY <1>1 DEF HeadOK, Answering
<1>4. GoodDb(db)' /\ CompleteBeforeNext' /\ ClosedOK'
  BY <1>1, SameDatabase DEF NhiNext, HandlerStep, SIGUSRStep
<1>5. ScriptOK'
  BY <1>1, <1>2 DEF ScriptOK
<1>6. PhaseOK'
  BY <1>1, <1>2 DEF PhaseOK
<1>7. HeadOK'
  BY <1>2, <1>3 DEF HeadOK, Registering
<1>8. reg.indicator \in db.created /\ db.rows[reg.indicator] # <<>>
  <2>1. reg.indicator \in db.created /\ Len(db.rows[reg.indicator]) = 1
    BY <1>1 DEF TableOK, Filled
  <2>2. db.rows[reg.indicator] \in Seq(Row)
    BY <2>1 DEF GoodDb
  <2> QED
    BY <2>1, <2>2
<1>9. TableOK'
  BY <1>1, <1>2, <1>8 DEF TableOK, Filled, Registering
<1>10. NextOK'
  BY <1>2 DEF NextOK
<1>11. MarkersResolve'
  BY <1>1, <1>8 DEF MarkersResolve
<1> QED
  BY <1>4, <1>5, <1>6, <1>7, <1>9, <1>10, <1>11

\* The database after an UPDATE.
LEMMA SameButLastKeeps ==
  ASSUME GoodDb(db), CompleteBeforeNext, NEW i, SameButLast(db, db', i)
  PROVE  /\ GoodDb(db)' /\ CompleteBeforeNext'
         /\ \A j \in Indicator : db.rows[j] # <<>> => db'.rows[j] # <<>>
         /\ \A j \in Indicator : db.rows[j] \in Seq(Row) /\ db'.rows[j] \in Seq(Row)
         /\ \A j \in Indicator : DOMAIN db.rows[j] = 1 .. Len(db.rows[j])
         /\ \A j \in Indicator : DOMAIN db'.rows[j] = 1 .. Len(db.rows[j])
         /\ \A j \in Indicator : Len(db.rows[j]) \in Nat
<1>1. /\ GoodDb(db)'
      /\ \A j \in Indicator : Len(db'.rows[j]) = Len(db.rows[j])
      /\ \A j \in Indicator : \A k \in 1 .. Len(db.rows[j]) :
           k < Len(db.rows[j]) => db'.rows[j][k] = db.rows[j][k]
  BY DEF SameButLast
<1>2. \A j \in Indicator : db.rows[j] \in Seq(Row) /\ db'.rows[j] \in Seq(Row)
  BY <1>1 DEF GoodDb
<1>3. /\ \A j \in Indicator : DOMAIN db.rows[j] = 1 .. Len(db.rows[j])
      /\ \A j \in Indicator : DOMAIN db'.rows[j] = 1 .. Len(db.rows[j])
      /\ \A j \in Indicator : Len(db.rows[j]) \in Nat
  BY <1>1, <1>2
<1>4. CompleteBeforeNext'
  BY <1>1, <1>3 DEF CompleteBeforeNext
<1>5. \A j \in Indicator : db.rows[j] # <<>> => db'.rows[j] # <<>>
  <2> SUFFICES ASSUME NEW j \in Indicator, db.rows[j] # <<>> PROVE db'.rows[j] # <<>>
    OBVIOUS
  <2>1. Len(db.rows[j]) # 0
    BY <1>2
  <2>2. Len(db'.rows[j]) # 0
    BY <1>1, <2>1
  <2> QED
    BY <1>2, <2>2
<1> QED
  BY <1>1, <1>2, <1>3, <1>4, <1>5

\* A statement of handle_kill_SIGUSR: all but what it does to the database.
LEMMA StatementFrame ==
  ASSUME IInv, PromptsBounded, RecordInv, [NhiNext]_nhiVars,
         NEW from, NEW to,
         <<from, to>> \in {<<"marker", "table">>, <<"table", "row">>, <<"row", "meta">>,
                           <<"meta", "scan">>, <<"fill", "update">>},
         nhid.step = from, nhid' = [nhid EXCEPT !.step = to],
         environ' \in {environ, OwnEnviron}, loaded,
         UNCHANGED <<vars, scriptVars, pastVars>>, db'.closed = db.closed
  PROVE  /\ nhid'.step = to
         /\ reg' = reg /\ ring' = ring /\ granted' = granted /\ restarts' = restarts
         /\ ScriptOK' /\ PhaseOK' /\ HeadOK' /\ NextOK' /\ ClosedOK'
<1> USE DEF RecordInv
<1>1. /\ loaded' = loaded /\ reg' = reg /\ ring' = ring /\ granted' = granted
      /\ exported' = exported /\ restarts' = restarts
  BY DEF vars, mapVars, nhidVars, scriptVars, pastVars
<1>2. /\ nhid'.step = to /\ nhid'.indicator = nhid.indicator
      /\ nhid' \in [step : Steps, slot : 0 .. MaxShells, indicator : Indicator \cup {NoIndicator}]
  BY DEF ScriptOK, Steps
<1>3. nhid.indicator = NoIndicator
  BY DEF HeadOK, Answering
<1>4. ScriptOK'
  BY <1>1, <1>2 DEF ScriptOK
<1>5. PhaseOK'
  BY <1>1, <1>2 DEF PhaseOK, Answering
<1>6. HeadOK'
  BY <1>1, <1>2, <1>3 DEF HeadOK, Registering
<1>7. NextOK'
  BY <1>2 DEF NextOK
<1>8. ClosedOK'
  BY ClosedStaysOK
<1> QED
  BY <1>1, <1>2, <1>4, <1>5, <1>6, <1>7, <1>8

LEMMA AddMarkerKeepsRecordInv ==
  ASSUME IInv, PromptsBounded, RecordInv, AddMarker
  PROVE  RecordInv'
<1> USE DEF RecordInv
<1> DEFINE i == Head(ring).parent
<1>1. /\ nhid.step = "marker" /\ loaded /\ nhid' = [nhid EXCEPT !.step = "table"]
      /\ UNCHANGED <<vars, scriptVars, pastVars>> /\ environ' = environ
      /\ \/ db' = db
         \/ db' = add_marker(db, i, reg.indicator)
  BY DEF AddMarker, Statement, At, Goto
<1> HIDE DEF i
<1>2. reg.indicator \in Indicator
  BY <1>1 DEF IInv, RegistrationOK, PhaseOK
<1>3. /\ SameButLast(db, db', i)
      /\ \A j \in Indicator : \A k \in 1 .. Len(db.rows[j]) :
           db'.rows[j][k].markers \subseteq db.rows[j][k].markers \cup {reg.indicator}
  <2>1. CASE db' = db
    BY <2>1 DEF SameButLast
  <2>2. CASE db' = add_marker(db, i, reg.indicator)
    <3>1. /\ SameButLast(db, db', i)
          /\ \A k \in 1 .. Len(db.rows[i]) : i \in Indicator /\ k = Len(db.rows[i]) =>
               db'.rows[i][k].markers = db.rows[i][k].markers \cup {reg.indicator}
      BY <1>2, <2>2, AddMarkerFacts
    <3> QED
      BY <3>1 DEF SameButLast
  <2> QED
    BY <1>1, <2>1, <2>2
<1>4. db'.closed = db.closed /\ db'.created = db.created
  BY <1>3 DEF SameButLast
<1>5. [NhiNext]_nhiVars
  BY DEF NhiNext, HandlerStep, SIGUSRStep
<1>6. /\ nhid'.step = "table"
      /\ reg' = reg /\ ring' = ring /\ granted' = granted /\ restarts' = restarts
      /\ ScriptOK' /\ PhaseOK' /\ HeadOK' /\ NextOK' /\ ClosedOK'
  BY <1>1, <1>4, <1>5, StatementFrame
<1>7. /\ GoodDb(db)' /\ CompleteBeforeNext'
      /\ \A j \in Indicator : db.rows[j] # <<>> => db'.rows[j] # <<>>
      /\ \A j \in Indicator : DOMAIN db.rows[j] = 1 .. Len(db.rows[j])
      /\ \A j \in Indicator : DOMAIN db'.rows[j] = 1 .. Len(db.rows[j])
  BY <1>3, SameButLastKeeps
<1>8. TableOK'
  BY <1>1, <1>4, <1>6, <1>7 DEF TableOK, Registering, Filled
<1>9. MarkersResolve'
  BY <1>3, <1>4, <1>6, <1>7 DEF MarkersResolve
<1> QED
  BY <1>6, <1>7, <1>8, <1>9

LEMMA CreateTableKeepsRecordInv ==
  ASSUME IInv, PromptsBounded, RecordInv, CreateTable
  PROVE  RecordInv'
<1> USE DEF RecordInv
<1>1. /\ nhid.step = "table" /\ loaded /\ nhid' = [nhid EXCEPT !.step = "row"]
      /\ UNCHANGED <<vars, scriptVars, pastVars>> /\ environ' = environ
      /\ db' = create_table(db, reg.indicator)
  BY DEF CreateTable, Statement, At, Goto
<1>2. reg.indicator \in Indicator
  BY <1>1 DEF IInv, RegistrationOK, PhaseOK
<1>3. /\ GoodDb(db') /\ db'.created = db.created \cup {reg.indicator}
      /\ db'.closed = db.closed /\ db'.rows = db.rows
  BY <1>1, <1>2, CreateTableFacts
<1>4. [NhiNext]_nhiVars
  BY DEF NhiNext, HandlerStep, SIGUSRStep
<1>5. /\ nhid'.step = "row"
      /\ reg' = reg /\ ring' = ring /\ granted' = granted /\ restarts' = restarts
      /\ ScriptOK' /\ PhaseOK' /\ HeadOK' /\ NextOK' /\ ClosedOK'
  BY <1>1, <1>3, <1>4, StatementFrame
<1>6. TableOK'
  BY <1>1, <1>2, <1>3, <1>5 DEF TableOK, Registering, Filled, GoodDb
<1>7. CompleteBeforeNext' /\ MarkersResolve'
  BY <1>3, <1>5 DEF CompleteBeforeNext, MarkersResolve
<1> QED
  BY <1>3, <1>5, <1>6, <1>7

LEMMA MetaCreateRowKeepsRecordInv ==
  ASSUME IInv, PromptsBounded, RecordInv, MetaCreateRow
  PROVE  RecordInv'
<1> USE DEF RecordInv
<1>1. /\ nhid.step = "meta" /\ loaded /\ nhid' = [nhid EXCEPT !.step = "scan"]
      /\ UNCHANGED <<vars, scriptVars, pastVars>> /\ environ' = environ
      /\ db' = meta_create_row(db, reg.indicator)
  BY DEF MetaCreateRow, Statement, At, Goto
<1>2. reg.indicator \in db.created
  BY <1>1 DEF TableOK, Filled
<1>3. /\ GoodDb(db') /\ db'.created = db.created
      /\ db'.closed = db.closed /\ db'.rows = db.rows
  BY <1>1, <1>2, MetaCreateRowFacts
<1>4. [NhiNext]_nhiVars
  BY DEF NhiNext, HandlerStep, SIGUSRStep
<1>5. /\ nhid'.step = "scan"
      /\ reg' = reg /\ ring' = ring /\ granted' = granted /\ restarts' = restarts
      /\ ScriptOK' /\ PhaseOK' /\ HeadOK' /\ NextOK' /\ ClosedOK'
  BY <1>1, <1>3, <1>4, StatementFrame
<1>6. TableOK'
  BY <1>1, <1>3, <1>5 DEF TableOK, Registering, Filled
<1>7. CompleteBeforeNext' /\ MarkersResolve'
  BY <1>3, <1>5 DEF CompleteBeforeNext, MarkersResolve
<1> QED
  BY <1>3, <1>5, <1>6, <1>7

LEMMA CreateRowKeepsRecordInv ==
  ASSUME IInv, PromptsBounded, RecordInv, CreateRow
  PROVE  RecordInv'
<1> USE DEF RecordInv
<1>1. /\ nhid.step = "row" /\ loaded /\ nhid' = [nhid EXCEPT !.step = "meta"]
      /\ UNCHANGED <<vars, scriptVars, pastVars>> /\ environ' = environ
      /\ db' = create_row(db, reg.indicator)
  BY DEF CreateRow, Statement, At, Goto
<1> DEFINE i == reg.indicator
<1>2. i \in Indicator /\ i \in db.created /\ db.rows[i] = <<>>
  BY <1>1 DEF IInv, RegistrationOK, PhaseOK, TableOK
<1>3. /\ GoodDb(db') /\ db'.created = db.created /\ db'.closed = db.closed
      /\ \A j \in Indicator :
           /\ Len(db'.rows[j]) = IF j = i /\ i \in db.created
                                 THEN Len(db.rows[j]) + 1 ELSE Len(db.rows[j])
           /\ \A k \in 1 .. Len(db'.rows[j]) :
                db'.rows[j][k] = IF k = Len(db.rows[j]) + 1 THEN NewRow ELSE db.rows[j][k]
  BY <1>1, CreateRowFacts
<1> HIDE DEF i
<1>4. [NhiNext]_nhiVars
  BY DEF NhiNext, HandlerStep, SIGUSRStep
<1>5. /\ nhid'.step = "meta"
      /\ reg' = reg /\ ring' = ring /\ granted' = granted /\ restarts' = restarts
      /\ ScriptOK' /\ PhaseOK' /\ HeadOK' /\ NextOK' /\ ClosedOK'
  BY <1>1, <1>3, <1>4, StatementFrame
<1>6. \A j \in Indicator :
        /\ db.rows[j] \in Seq(Row) /\ db'.rows[j] \in Seq(Row)
        /\ DOMAIN db.rows[j] = 1 .. Len(db.rows[j])
        /\ DOMAIN db'.rows[j] = 1 .. Len(db'.rows[j])
        /\ Len(db.rows[j]) \in Nat
  BY <1>3 DEF GoodDb
<1>7. /\ Len(db'.rows[i]) = 1 /\ db'.rows[i][1] = NewRow
      /\ \A j \in Indicator : j # i =>
           /\ Len(db'.rows[j]) = Len(db.rows[j])
           /\ \A k \in 1 .. Len(db.rows[j]) : db'.rows[j][k] = db.rows[j][k]
  <2>1. Len(db.rows[i]) = 0
    BY <1>2
  <2>2. Len(db'.rows[i]) = 1
    <3>1. Len(db'.rows[i]) = Len(db.rows[i]) + 1
      BY <1>2, <1>3
    <3> QED
      BY <2>1, <3>1
  <2>4. 1 \in 1 .. Len(db'.rows[i])
    BY <2>2
  <2>5. db'.rows[i][1] = NewRow
    BY <1>2, <1>3, <2>1, <2>4
  <2>3. ASSUME NEW j \in Indicator, j # i
        PROVE  /\ Len(db'.rows[j]) = Len(db.rows[j])
               /\ \A k \in 1 .. Len(db.rows[j]) : db'.rows[j][k] = db.rows[j][k]
    BY <1>3, <1>6, <2>3
  <2> QED
    BY <2>2, <2>3, <2>5
<1>8. \A j \in Indicator : db.rows[j] # <<>> => db'.rows[j] # <<>>
  <2> SUFFICES ASSUME NEW j \in Indicator, db.rows[j] # <<>> PROVE db'.rows[j] # <<>>
    OBVIOUS
  <2>1. Len(db'.rows[j]) # 0
    BY <1>2, <1>6, <1>7
  <2> QED
    BY <1>6, <2>1
<1>9. TableOK'
  BY <1>1, <1>2, <1>3, <1>5, <1>7, <1>8 DEF TableOK, Registering, Filled, NewRow, i
<1>10. CompleteBeforeNext'
  <2> SUFFICES ASSUME NEW j \in Indicator, NEW k \in 1 .. Len(db'.rows[j]),
                      k < Len(db'.rows[j])
               PROVE  db'.rows[j][k].finished /\ db'.rows[j][k].command # NoText
    BY <1>6 DEF CompleteBeforeNext
  <2>1. ASSUME j = i PROVE FALSE
    <3>1. Len(db'.rows[j]) = 1 /\ k \in 1 .. 1
      BY <1>7, <2>1
    <3> QED
      BY <3>1
  <2> QED
    BY <1>6, <1>7, <2>1 DEF CompleteBeforeNext
<1>11. MarkersResolve'
  <2> SUFFICES ASSUME restarts = 0, NEW j \in Indicator, NEW k \in 1 .. Len(db'.rows[j]),
                      NEW nested \in db'.rows[j][k].markers
               PROVE  nested \in db.created \cup {reg.indicator}
    BY <1>3, <1>5, <1>6 DEF MarkersResolve
  <2>1. j # i
    BY <1>7 DEF NewRow
  <2> QED
    BY <1>6, <1>7, <2>1 DEF MarkersResolve
<1> QED
  BY <1>3, <1>5, <1>9, <1>10, <1>11

LEMMA FillFirstRowKeepsRecordInv ==
  ASSUME IInv, PromptsBounded, RecordInv, FillFirstRow
  PROVE  RecordInv'
<1> USE DEF RecordInv
<1>1. /\ nhid.step = "fill" /\ loaded /\ nhid' = [nhid EXCEPT !.step = "update"]
      /\ UNCHANGED <<vars, scriptVars, pastVars>> /\ environ' = OwnEnviron
      /\ db' = add_pwd(db, reg.indicator, environ.pwd)
  BY DEF FillFirstRow, At, Goto
<1> DEFINE i == reg.indicator
<1>2. environ.pwd \in 0 .. MaxCommands \cup {-1}
  BY DEF ScriptOK, Environ, OwnEnviron
<1>3. i \in Indicator /\ Len(db.rows[i]) = 1
  BY <1>1 DEF IInv, RegistrationOK, PhaseOK, TableOK, Filled
<1>4. /\ SameButLast(db, db', i)
      /\ \A k \in 1 .. Len(db.rows[i]) : i \in Indicator /\ k = Len(db.rows[i]) =>
           /\ db'.rows[i][k].output = db.rows[i][k].output
           /\ db'.rows[i][k].command = db.rows[i][k].command
           /\ db'.rows[i][k].markers = db.rows[i][k].markers
  BY <1>1, <1>2, AddPwdFacts
<1>5. db'.closed = db.closed /\ db'.created = db.created
  BY <1>4 DEF SameButLast
<1>6. [NhiNext]_nhiVars
  BY DEF NhiNext, HandlerStep, SIGUSRStep
<1>7. /\ nhid'.step = "update"
      /\ reg' = reg /\ ring' = ring /\ granted' = granted /\ restarts' = restarts
      /\ ScriptOK' /\ PhaseOK' /\ HeadOK' /\ NextOK' /\ ClosedOK'
  BY <1>1, <1>5, <1>6, StatementFrame
<1>8. /\ GoodDb(db)' /\ CompleteBeforeNext'
      /\ \A j \in Indicator : db.rows[j] # <<>> => db'.rows[j] # <<>>
      /\ \A j \in Indicator : DOMAIN db.rows[j] = 1 .. Len(db.rows[j])
      /\ \A j \in Indicator : DOMAIN db'.rows[j] = 1 .. Len(db.rows[j])
  BY <1>4, SameButLastKeeps
<1>9. Len(db'.rows[i]) = 1 /\ db'.rows[i][1].output = {} /\ db'.rows[i][1].command = NoText
  BY <1>1, <1>3, <1>4 DEF TableOK, Filled, SameButLast
<1>10. \A j \in Indicator : \A k \in 1 .. Len(db.rows[j]) :
         db'.rows[j][k].markers = db.rows[j][k].markers
  BY <1>4 DEF SameButLast
<1>11. TableOK'
  BY <1>1, <1>5, <1>7, <1>8, <1>9 DEF TableOK, Registering, Filled
<1>12. MarkersResolve'
  BY <1>5, <1>7, <1>8, <1>10 DEF MarkersResolve
<1> QED
  BY <1>7, <1>8, <1>11, <1>12

----------------------------------------------------------------------------
(* The handlers that look a shell up. *)

LEMMA TakeLookupKeepsRecordInv ==
  ASSUME IInv, PromptsBounded, RecordInv, TakeLookup
  PROVE  RecordInv'
<1> USE DEF RecordInv
<1>1. /\ nhid.step = "wait" /\ loaded
      /\ ring # <<>> /\ (IsPrompt(Head(ring)) \/ Head(ring).type = "child")
      /\ nhid' = [step |-> "find", slot |-> 0, indicator |-> NoIndicator]
      /\ loaded' = loaded /\ reg' = reg /\ ring' = ring /\ granted' = granted
      /\ exported' = exported /\ environ' = environ /\ db' = db /\ restarts' = restarts
  BY DEF TakeLookup, At, vars, mapVars, nhidVars, scriptVars, pastVars
<1>2. GoodDb(db)' /\ CompleteBeforeNext' /\ ClosedOK'
  BY <1>1, SameDatabase DEF NhiNext, HandlerStep
<1>3. ScriptOK'
  BY <1>1, SizeAssumption DEF ScriptOK, Steps
<1>4. PhaseOK' /\ HeadOK'
  BY <1>1 DEF PhaseOK, HeadOK, Registering, Answering, IsPrompt
<1>5. TableOK' /\ NextOK' /\ MarkersResolve'
  BY <1>1 DEF TableOK, Registering, Filled, NextOK, MarkersResolve
<1> QED
  BY <1>2, <1>3, <1>4, <1>5

\* The shell of an event is a shell.
LEMMA WantedIsShell ==
  ASSUME IInv, ring # <<>>, IsPrompt(Head(ring)) \/ Head(ring).type = "child"
  PROVE  Wanted \in ShellPid /\ Wanted # NoPid
<1>1. Head(ring) \in Event /\ EventOK(Head(ring))
  <2>1. ring \in Seq(Event) /\ Head(ring) = ring[1] /\ 1 \in 1 .. Len(ring)
    BY DEF IInv, TypeOK
  <2> QED
    BY <2>1 DEF IInv, RingOK
<1>2. Wanted \in ShellPid
  <2>1. CASE Head(ring).type = "kill"
    BY <1>1, <2>1
    DEF Wanted, Event, KillEvent, ChildEvent, ExitEvent, WriteEvent
  <2>2. CASE Head(ring).type = "child"
    <3>1. Head(ring).child \in Pid
      BY <1>1, <2>2 DEF Event, KillEvent, ChildEvent, ExitEvent, WriteEvent
    <3>2. Head(ring).shell \in kin[Head(ring).child]
      BY <1>1, <2>2 DEF EventOK, NoForeignStart
    <3>3. kin[Head(ring).child] \subseteq ShellPid
      BY <3>1 DEF IInv, TypeOK
    <3> QED
      BY <2>2, <3>2, <3>3 DEF Wanted
  <2> QED
    BY <2>1, <2>2 DEF IsPrompt
<1> QED
  BY <1>2, PidAssumption

LEMMA LookUpKeepsRecordInv ==
  ASSUME IInv, PromptsBounded, RecordInv, LookUp
  PROVE  RecordInv'
<1> USE DEF RecordInv
<1>1. /\ nhid.step = "find" /\ loaded
      /\ loaded' = loaded /\ reg' = reg /\ ring' = ring /\ granted' = granted
      /\ exported' = exported /\ environ' = environ /\ db' = db /\ restarts' = restarts
  BY DEF LookUp, At, vars, mapVars, nhidVars, scriptVars, pastVars
<1>2. ring # <<>> /\ (IsPrompt(Head(ring)) \/ Head(ring).type = "child")
  BY <1>1 DEF HeadOK
<1>3. Wanted \in ShellPid /\ Wanted # NoPid
  BY <1>2, WantedIsShell
<1>4. nhid.slot \in 0 .. MaxShells /\ nhid.indicator = NoIndicator /\ MaxShells \in Nat
  BY <1>1, SizeAssumption DEF ScriptOK, HeadOK, Answering
<1>5. /\ nhid' \in [step : Steps, slot : 0 .. MaxShells, indicator : Indicator \cup {NoIndicator}]
      /\ \/ nhid'.step = "find" /\ nhid'.indicator = NoIndicator
         \/ /\ nhid'.step = AfterLookup
            /\ nhid'.indicator # NoIndicator => <<Wanted, nhid'.indicator>> \in granted
  <2>1. CASE nhid.slot = MaxShells
    BY <1>1, <1>4, <2>1 DEF LookUp, ScriptOK, Steps, AfterLookup
  <2>2. CASE nhid.slot # MaxShells /\ shells[nhid.slot].pid = Wanted
    <3>1. nhid.slot \in 0 .. MaxShells - 1
      BY <1>4, <2>2
    <3>2. <<Wanted, shells[nhid.slot].indicator>> \in granted
      BY <1>3, <2>2, <3>1 DEF IInv, ShellsGranted
    <3>3. shells[nhid.slot].indicator \in Indicator
      BY <3>2 DEF IInv, TypeOK
    <3> QED
      BY <1>1, <2>2, <3>2, <3>3 DEF LookUp, ScriptOK, Steps, AfterLookup
  <2>3. CASE nhid.slot # MaxShells /\ shells[nhid.slot].pid # Wanted
    <3>1. nhid.slot + 1 \in 0 .. MaxShells
      BY <1>4, <2>3
    <3> QED
      BY <1>1, <1>4, <2>3, <3>1 DEF LookUp, ScriptOK, Steps
  <2> QED
    BY <2>1, <2>2, <2>3
<1>6. GoodDb(db)' /\ CompleteBeforeNext' /\ ClosedOK'
  BY <1>1, SameDatabase DEF NhiNext, HandlerStep
<1>7. ScriptOK'
  BY <1>1, <1>5 DEF ScriptOK
<1>8. \/ AfterLookup = "snapshot" /\ IsPrompt(Head(ring))
      \/ AfterLookup = "start" /\ Head(ring).type = "child"
  BY <1>2 DEF AfterLookup, IsPrompt
<1>9. PhaseOK' /\ HeadOK'
  BY <1>1, <1>2, <1>5, <1>8
  DEF PhaseOK, HeadOK, Registering, Answering, Wanted, IsPrompt
<1>10. TableOK' /\ NextOK' /\ MarkersResolve'
  BY <1>1, <1>5, <1>8 DEF TableOK, Registering, Filled, NextOK, MarkersResolve
<1> QED
  BY <1>6, <1>7, <1>9, <1>10

LEMMA SnapshotKeepsRecordInv ==
  ASSUME IInv, PromptsBounded, RecordInv, Snapshot
  PROVE  RecordInv'
<1> USE DEF RecordInv
<1>1. /\ nhid.step = "snapshot" /\ loaded /\ nhid' = [nhid EXCEPT !.step = "finish"]
      /\ loaded' = loaded /\ reg' = reg /\ ring' = ring /\ granted' = granted
      /\ exported' = exported /\ db' = db /\ restarts' = restarts
      /\ environ' = environ \/ environ' = exported[Wanted]
  BY DEF Snapshot, CopyEnviron, Goto, At, vars, mapVars, nhidVars, scriptVars, pastVars
<1>2. ring # <<>> /\ IsPrompt(Head(ring))
  BY <1>1 DEF HeadOK
<1>3. Wanted \in ShellPid
  BY <1>2, WantedIsShell
<1>4. /\ nhid'.step = "finish" /\ nhid'.indicator = nhid.indicator
      /\ nhid' \in [step : Steps, slot : 0 .. MaxShells, indicator : Indicator \cup {NoIndicator}]
  BY <1>1 DEF ScriptOK, Steps
<1>5. GoodDb(db)' /\ CompleteBeforeNext' /\ ClosedOK'
  BY <1>1, SameDatabase DEF NhiNext, HandlerStep
<1>6. ScriptOK'
  BY <1>1, <1>3, <1>4 DEF ScriptOK
<1>7. PhaseOK' /\ HeadOK'
  BY <1>1, <1>2, <1>4 DEF PhaseOK, HeadOK, Registering, Answering, Wanted, IsPrompt
<1>8. TableOK' /\ NextOK' /\ MarkersResolve'
  BY <1>1, <1>4 DEF TableOK, Registering, Filled, NextOK, MarkersResolve
<1> QED
  BY <1>5, <1>6, <1>7, <1>8

LEMMA FinishRowKeepsRecordInv ==
  ASSUME IInv, PromptsBounded, RecordInv, FinishRow
  PROVE  RecordInv'
<1> USE DEF RecordInv
<1> DEFINE i == nhid.indicator
<1>1. /\ nhid.step = "finish" /\ loaded /\ nhid' = [nhid EXCEPT !.step = "next"]
      /\ environ.command # NoText
      /\ loaded' = loaded /\ reg' = reg /\ ring' = ring /\ granted' = granted
      /\ exported' = exported /\ environ' = environ /\ restarts' = restarts
      /\ db' = finish_row(db, i, environ.command)
  BY DEF FinishRow, Goto, At, vars, mapVars, nhidVars, scriptVars, pastVars
<1>2. ring # <<>> /\ IsPrompt(Head(ring))
  BY <1>1 DEF HeadOK
<1>3. /\ nhid'.step = "next" /\ nhid'.indicator = i
      /\ nhid' \in [step : Steps, slot : 0 .. MaxShells, indicator : Indicator \cup {NoIndicator}]
  BY <1>1 DEF ScriptOK, Steps
<1>4. environ.command \in Text
  BY <1>1 DEF ScriptOK, Environ, OwnEnviron
<1>5. /\ SameButLast(db, db', i)
      /\ \A k \in 1 .. Len(db.rows[i]) : i \in Indicator /\ k = Len(db.rows[i]) =>
           /\ db'.rows[i][k].command = environ.command /\ db'.rows[i][k].finished
           /\ db'.rows[i][k].markers = db.rows[i][k].markers
  BY <1>1, <1>4, FinishRowFacts
<1> HIDE DEF i
<1>6. db'.closed = db.closed /\ db'.created = db.created
  BY <1>5 DEF SameButLast
<1>7. /\ GoodDb(db)' /\ CompleteBeforeNext'
      /\ \A j \in Indicator : db.rows[j] # <<>> => db'.rows[j] # <<>>
      /\ \A j \in Indicator : db.rows[j] \in Seq(Row) /\ db'.rows[j] \in Seq(Row)
      /\ \A j \in Indicator : DOMAIN db.rows[j] = 1 .. Len(db.rows[j])
      /\ \A j \in Indicator : DOMAIN db'.rows[j] = 1 .. Len(db.rows[j])
      /\ \A j \in Indicator : Len(db.rows[j]) \in Nat
  BY <1>5, SameButLastKeeps
<1>8. ClosedOK'
  BY <1>6, ClosedStaysOK DEF NhiNext, HandlerStep
<1>9. ScriptOK'
  BY <1>1, <1>3 DEF ScriptOK
<1>10. PhaseOK' /\ HeadOK'
  BY <1>1, <1>2, <1>3 DEF PhaseOK, HeadOK, Registering, Answering, Wanted, IsPrompt, i
<1>11. TableOK'
  BY <1>1, <1>3, <1>6, <1>7 DEF TableOK, Registering, Filled
<1>12. NextOK'
  <2> SUFFICES ASSUME HasRow(db', i)
               PROVE  Last(db'.rows[i]).finished /\ Last(db'.rows[i]).command # NoText
    BY <1>3 DEF NextOK, LastRow, HasRow
  <2>1. i \in Indicator /\ db'.rows[i] # <<>>
    BY <1>7 DEF HasRow, GoodDb
  <2>2. Len(db'.rows[i]) = Len(db.rows[i]) /\ Len(db'.rows[i]) # 0
    BY <1>5, <1>7, <2>1 DEF SameButLast
  <2>3. Len(db.rows[i]) \in 1 .. Len(db.rows[i])
    BY <1>7, <2>1, <2>2
  <2> QED
    BY <1>1, <1>5, <2>1, <2>2, <2>3 DEF Last
<1>13. MarkersResolve'
  <2>1. \A j \in Indicator : \A k \in 1 .. Len(db.rows[j]) :
          db'.rows[j][k].markers = db.rows[j][k].markers
    BY <1>5 DEF SameButLast
  <2> QED
    BY <1>1, <1>6, <1>7, <2>1 DEF MarkersResolve
<1> QED
  BY <1>7, <1>8, <1>9, <1>10, <1>11, <1>12, <1>13

\* create_row and add_pwd: the last row of the session, if it has a table, is
\* the new one.
LEMMA NextRowFacts ==
  ASSUME NEW d, GoodDb(d), NEW i, NEW pwd \in 0 .. MaxCommands \cup {-1},
         NEW e, e = add_pwd(create_row(d, i), i, pwd)
  PROVE  /\ GoodDb(e) /\ e.created = d.created /\ e.closed = d.closed
         /\ \A j \in Indicator : (j = i /\ i \in d.created) \/ Len(e.rows[j]) = Len(d.rows[j])
         /\ i \in d.created => Len(e.rows[i]) = Len(d.rows[i]) + 1
         /\ \A j \in Indicator : \A k \in 1 .. Len(d.rows[j]) :
              /\ e.rows[j][k].output = d.rows[j][k].output
              /\ e.rows[j][k].command = d.rows[j][k].command
              /\ e.rows[j][k].finished = d.rows[j][k].finished
              /\ e.rows[j][k].markers = d.rows[j][k].markers
         /\ i \in d.created =>
              /\ e.rows[i][Len(d.rows[i]) + 1].output = {}
              /\ e.rows[i][Len(d.rows[i]) + 1].command = NoText
              /\ e.rows[i][Len(d.rows[i]) + 1].markers = {}
<1> DEFINE c == create_row(d, i)
<1>1. /\ GoodDb(c)
      /\ c.created = d.created /\ c.closed = d.closed
      /\ \A j \in Indicator :
           /\ Len(c.rows[j]) = IF j = i /\ i \in d.created
                               THEN Len(d.rows[j]) + 1 ELSE Len(d.rows[j])
           /\ \A k \in 1 .. Len(c.rows[j]) :
                c.rows[j][k] = IF k = Len(d.rows[j]) + 1 THEN NewRow ELSE d.rows[j][k]
  BY CreateRowFacts
<1> HIDE DEF c
<1>2. /\ SameButLast(c, e, i)
      /\ \A k \in 1 .. Len(c.rows[i]) : i \in Indicator /\ k = Len(c.rows[i]) =>
           /\ e.rows[i][k].output = c.rows[i][k].output
           /\ e.rows[i][k].command = c.rows[i][k].command
           /\ e.rows[i][k].finished = c.rows[i][k].finished
           /\ e.rows[i][k].markers = c.rows[i][k].markers
  BY <1>1, AddPwdFacts DEF c
<1>3. /\ GoodDb(e) /\ e.created = d.created /\ e.closed = d.closed
      /\ \A j \in Indicator : Len(e.rows[j]) = Len(c.rows[j])
  BY <1>1, <1>2 DEF SameButLast
<1>4. \A j \in Indicator : \A k \in 1 .. Len(c.rows[j]) :
        /\ e.rows[j][k].output = c.rows[j][k].output
        /\ e.rows[j][k].command = c.rows[j][k].command
        /\ e.rows[j][k].finished = c.rows[j][k].finished
        /\ e.rows[j][k].markers = c.rows[j][k].markers
  BY <1>2 DEF SameButLast
<1>5. \A j \in Indicator : Len(d.rows[j]) \in Nat
  <2>1. \A j \in Indicator : d.rows[j] \in Seq(Row)
    BY DEF GoodDb
  <2> QED
    BY <2>1
<1>6. \A j \in Indicator : \A k \in 1 .. Len(d.rows[j]) :
        k \in 1 .. Len(c.rows[j]) /\ c.rows[j][k] = d.rows[j][k]
  <2> SUFFICES ASSUME NEW j \in Indicator, NEW k \in 1 .. Len(d.rows[j])
               PROVE  k \in 1 .. Len(c.rows[j]) /\ c.rows[j][k] = d.rows[j][k]
    OBVIOUS
  <2>1. Len(c.rows[j]) \in {Len(d.rows[j]), Len(d.rows[j]) + 1}
    BY <1>1
  <2>2. k \in 1 .. Len(c.rows[j]) /\ k # Len(d.rows[j]) + 1
    BY <1>5, <2>1
  <2> QED
    BY <1>1, <2>2
<1>7. /\ \A j \in Indicator : (j = i /\ i \in d.created) \/ Len(e.rows[j]) = Len(d.rows[j])
      /\ i \in d.created => Len(e.rows[i]) = Len(d.rows[i]) + 1
  <2>1. d.created \subseteq Indicator
    BY DEF GoodDb
  <2> QED
    BY <1>1, <1>3, <2>1
<1>8. ASSUME i \in d.created, NEW k, k = Len(d.rows[i]) + 1
      PROVE  e.rows[i][k].output = {} /\ e.rows[i][k].command = NoText /\ e.rows[i][k].markers = {}
  <2>1. i \in Indicator
    BY <1>8 DEF GoodDb
  <2>2. Len(c.rows[i]) = Len(d.rows[i]) + 1
    BY <1>1, <1>8, <2>1
  <2>3. k \in 1 .. Len(c.rows[i])
    BY <1>5, <1>8, <2>1, <2>2
  <2>4. c.rows[i][k] = NewRow
    BY <1>1, <1>8, <2>1, <2>3
  <2>5. c.rows[i][k].output = {} /\ c.rows[i][k].command = NoText /\ c.rows[i][k].markers = {}
    BY <2>4 DEF NewRow
  <2> QED
    BY <1>4, <2>1, <2>3, <2>5
<1>9. \A j \in Indicator : \A k \in 1 .. Len(d.rows[j]) :
        /\ e.rows[j][k].output = d.rows[j][k].output
        /\ e.rows[j][k].command = d.rows[j][k].command
        /\ e.rows[j][k].finished = d.rows[j][k].finished
        /\ e.rows[j][k].markers = d.rows[j][k].markers
  BY <1>4, <1>6
<1> QED
  BY <1>3, <1>7, <1>8, <1>9

----------------------------------------------------------------------------
(* The end of a handler: the event is released, nhid waits for the next. *)

\* All but what the handler does to the database.
LEMMA ConsumeFrame ==
  ASSUME IInv, PromptsBounded, RecordInv, [NhiNext]_nhiVars, Consume,
         nhid.step \in {"wait"} \cup Answering,
         nhid' = NoHandler \/ (nhid' = nhid /\ nhid.step = "wait"),
         environ' \in {environ, OwnEnviron}, exported' = exported, restarts' = restarts,
         db'.created = db.created,
         \A j \in Indicator : db.rows[j] # <<>> => db'.rows[j] # <<>>
  PROVE  /\ nhid'.step = "wait" /\ nhid'.indicator = NoIndicator
         /\ reg' = reg /\ granted' = granted
         /\ ScriptOK' /\ PhaseOK' /\ HeadOK' /\ TableOK' /\ NextOK'
<1> USE DEF RecordInv
<1>1. /\ loaded /\ loaded' = loaded /\ reg' = reg /\ granted' = granted
      /\ shells' = shells /\ reg = NoRegistration
  BY DEF Consume, nhidVars, PhaseOK
<1>2. /\ nhid'.step = "wait" /\ nhid'.indicator = NoIndicator
      /\ nhid' \in [step : Steps, slot : 0 .. MaxShells, indicator : Indicator \cup {NoIndicator}]
  BY SizeAssumption DEF NoHandler, HeadOK, Answering, ScriptOK, Steps
<1>3. ScriptOK'
  BY <1>2 DEF ScriptOK
<1>4. PhaseOK' /\ HeadOK'
  BY <1>1, <1>2 DEF PhaseOK, HeadOK, Registering, Answering
<1>5. TableOK' /\ NextOK'
  BY <1>1, <1>2 DEF TableOK, NextOK, Registering, Filled
<1> QED
  BY <1>1, <1>2, <1>3, <1>4, <1>5

LEMMA NextRowKeepsRecordInv ==
  ASSUME IInv, PromptsBounded, RecordInv, NextRow
  PROVE  RecordInv'
<1> USE DEF RecordInv
<1> DEFINE i == nhid.indicator
<1>1. /\ nhid.step = "next" /\ Consume /\ nhid' = NoHandler /\ environ' = OwnEnviron
      /\ exported' = exported /\ restarts' = restarts
      /\ db' = add_pwd(create_row(db, i), i, environ.pwd)
  BY DEF NextRow, At, scriptVars
<1>2. environ.pwd \in 0 .. MaxCommands \cup {-1}
  BY DEF ScriptOK, Environ, OwnEnviron
<1>0. NextOK /\ GoodDb(db)
  OBVIOUS
<1>13. HasRow(db, i) => LastRow(db, i).finished /\ LastRow(db, i).command # NoText
  BY <1>0, <1>1 DEF NextOK
<1> HIDE DEF i
<1>3. /\ GoodDb(db') /\ db'.created = db.created /\ db'.closed = db.closed
      /\ \A j \in Indicator :
           (j = i /\ i \in db.created) \/ Len(db'.rows[j]) = Len(db.rows[j])
      /\ i \in db.created => Len(db'.rows[i]) = Len(db.rows[i]) + 1
      /\ \A j \in Indicator : \A k \in 1 .. Len(db.rows[j]) :
           /\ db'.rows[j][k].command = db.rows[j][k].command
           /\ db'.rows[j][k].finished = db.rows[j][k].finished
           /\ db'.rows[j][k].markers = db.rows[j][k].markers
      /\ i \in db.created => db'.rows[i][Len(db.rows[i]) + 1].markers = {}
  BY <1>0, <1>1, <1>2, NextRowFacts
<1>4. \A j \in Indicator :
        /\ db.rows[j] \in Seq(Row) /\ db'.rows[j] \in Seq(Row)
        /\ DOMAIN db.rows[j] = 1 .. Len(db.rows[j])
        /\ DOMAIN db'.rows[j] = 1 .. Len(db'.rows[j])
        /\ Len(db.rows[j]) \in Nat
  BY <1>0, <1>3 DEF GoodDb
<1>5. \A j \in Indicator : \A k \in 1 .. Len(db'.rows[j]) :
        \/ k \in 1 .. Len(db.rows[j])
        \/ j = i /\ i \in db.created /\ k = Len(db.rows[j]) + 1 /\ k = Len(db'.rows[j])
  <2> SUFFICES ASSUME NEW j \in Indicator, NEW k \in 1 .. Len(db'.rows[j]),
                      k \notin 1 .. Len(db.rows[j])
               PROVE  j = i /\ i \in db.created /\ k = Len(db.rows[j]) + 1 /\ k = Len(db'.rows[j])
    OBVIOUS
  <2>1. Len(db'.rows[j]) # Len(db.rows[j])
    OBVIOUS
  <2>2. j = i /\ i \in db.created /\ Len(db'.rows[j]) = Len(db.rows[j]) + 1
    BY <1>3, <2>1
  <2> QED
    BY <1>4, <2>2
<1>6. \A j \in Indicator : db.rows[j] # <<>> => db'.rows[j] # <<>>
  <2> SUFFICES ASSUME NEW j \in Indicator, db.rows[j] # <<>> PROVE db'.rows[j] # <<>>
    OBVIOUS
  <2>1. Len(db.rows[j]) \in Nat \ {0}
    BY <1>4
  <2>2. Len(db'.rows[j]) \in {Len(db.rows[j]), Len(db.rows[j]) + 1}
    BY <1>3
  <2>3. Len(db'.rows[j]) # 0
    BY <2>1, <2>2
  <2> QED
    BY <1>4, <2>3
<1>7. [NhiNext]_nhiVars
  BY DEF NhiNext, HandlerStep
<1>8. /\ reg' = reg /\ granted' = granted
      /\ ScriptOK' /\ PhaseOK' /\ HeadOK' /\ TableOK' /\ NextOK'
  BY <1>1, <1>3, <1>6, <1>7, ConsumeFrame DEF Answering
<1>9. ClosedOK'
  BY <1>3, <1>7, ClosedStaysOK
<1>10. CompleteBeforeNext'
  <2> SUFFICES ASSUME NEW j \in Indicator, NEW k \in 1 .. Len(db'.rows[j]),
                      k < Len(db'.rows[j])
               PROVE  db'.rows[j][k].finished /\ db'.rows[j][k].command # NoText
    BY <1>4 DEF CompleteBeforeNext
  <2>1. k \in 1 .. Len(db.rows[j])
    BY <1>4, <1>5
  <2>2. db.rows[j][k].finished /\ db.rows[j][k].command # NoText
    <3>1. CASE k < Len(db.rows[j])
      BY <1>4, <2>1, <3>1 DEF CompleteBeforeNext
    <3>2. CASE k = Len(db.rows[j])
      <4>1. j = i
        BY <1>3, <3>2
      <4>2. HasRow(db, i)
        <5>1. db.rows[j] # <<>>
          BY <1>4, <2>1
        <5> QED
          BY <1>0, <4>1, <5>1 DEF HasRow, GoodDb
      <4>3. LastRow(db, i) = db.rows[j][k]
        BY <3>2, <4>1 DEF LastRow, Last
      <4> QED
        BY <1>13, <4>2, <4>3
    <3> QED
      BY <1>4, <2>1, <3>1, <3>2
  <2> QED
    BY <1>3, <2>1, <2>2
<1>11. MarkersResolve'
  <2> SUFFICES ASSUME restarts = 0, NEW j \in Indicator, NEW k \in 1 .. Len(db'.rows[j]),
                      NEW nested \in db'.rows[j][k].markers
               PROVE  nested \in db.created \cup {reg.indicator}
    BY <1>1, <1>3, <1>4, <1>8 DEF MarkersResolve
  <2>1. k \in 1 .. Len(db.rows[j])
    BY <1>3, <1>5
  <2> QED
    BY <1>3, <1>4, <2>1 DEF MarkersResolve
<1> QED
  BY <1>3, <1>8, <1>9, <1>10, <1>11

LEMMA StartRowKeepsRecordInv ==
  ASSUME IInv, PromptsBounded, RecordInv, StartRow
  PROVE  RecordInv'
<1> USE DEF RecordInv
<1> DEFINE i == nhid.indicator
<1>1. /\ nhid.step = "start" /\ Consume /\ nhid' = NoHandler /\ environ' = environ
      /\ exported' = exported /\ restarts' = restarts
      /\ db' = add_start_time(db, i)
  BY DEF StartRow, At, scriptVars, pastVars
<1> HIDE DEF i
<1>2. /\ SameButLast(db, db', i)
      /\ \A k \in 1 .. Len(db.rows[i]) : i \in Indicator /\ k = Len(db.rows[i]) =>
           db'.rows[i][k].markers = db.rows[i][k].markers
  BY <1>1, AddStartTimeFacts
<1>3. db'.closed = db.closed /\ db'.created = db.created
  BY <1>2 DEF SameButLast
<1>4. /\ GoodDb(db)' /\ CompleteBeforeNext'
      /\ \A j \in Indicator : db.rows[j] # <<>> => db'.rows[j] # <<>>
      /\ \A j \in Indicator : DOMAIN db.rows[j] = 1 .. Len(db.rows[j])
      /\ \A j \in Indicator : DOMAIN db'.rows[j] = 1 .. Len(db.rows[j])
  BY <1>2, SameButLastKeeps
<1>5. [NhiNext]_nhiVars
  BY DEF NhiNext, HandlerStep
<1>6. /\ reg' = reg /\ granted' = granted
      /\ ScriptOK' /\ PhaseOK' /\ HeadOK' /\ TableOK' /\ NextOK'
  BY <1>1, <1>3, <1>4, <1>5, ConsumeFrame DEF Answering
<1>7. ClosedOK'
  BY <1>3, <1>5, ClosedStaysOK
<1>8. MarkersResolve'
  <2>1. \A j \in Indicator : \A k \in 1 .. Len(db.rows[j]) :
          db'.rows[j][k].markers = db.rows[j][k].markers
    BY <1>2 DEF SameButLast
  <2> QED
    BY <1>1, <1>3, <1>4, <1>6, <2>1 DEF MarkersResolve
<1> QED
  BY <1>4, <1>6, <1>7, <1>8

LEMMA RecordOutputKeepsRecordInv ==
  ASSUME IInv, PromptsBounded, RecordInv, RecordOutput
  PROVE  RecordInv'
<1> USE DEF RecordInv
<1> DEFINE i == Head(ring).indicator
           text == Head(ring).data
<1>1. /\ nhid.step = "wait" /\ Consume /\ nhid' = nhid /\ environ' = environ
      /\ exported' = exported /\ restarts' = restarts
      /\ ring # <<>> /\ Head(ring).type = "write"
      /\ db' = add_output(db, i, text)
  BY DEF RecordOutput, At, scriptVars, pastVars
<1>9. text \in Data
  <2>1. Head(ring) \in Event
    BY <1>1 DEF IInv, TypeOK
  <2> QED
    BY <1>1, <2>1 DEF Event, KillEvent, ChildEvent, ExitEvent, WriteEvent
<1> HIDE DEF i, text
<1>2. /\ SameButLast(db, db', i)
      /\ \A k \in 1 .. Len(db.rows[i]) : i \in Indicator /\ k = Len(db.rows[i]) =>
           db'.rows[i][k].markers = db.rows[i][k].markers
  BY <1>1, <1>9, AddOutputFacts
<1>3. db'.closed = db.closed /\ db'.created = db.created
  BY <1>2 DEF SameButLast
<1>4. /\ GoodDb(db)' /\ CompleteBeforeNext'
      /\ \A j \in Indicator : db.rows[j] # <<>> => db'.rows[j] # <<>>
      /\ \A j \in Indicator : DOMAIN db.rows[j] = 1 .. Len(db.rows[j])
      /\ \A j \in Indicator : DOMAIN db'.rows[j] = 1 .. Len(db.rows[j])
  BY <1>2, SameButLastKeeps
<1>5. [NhiNext]_nhiVars
  BY DEF NhiNext, HandlerStep
<1>6. /\ reg' = reg /\ granted' = granted
      /\ ScriptOK' /\ PhaseOK' /\ HeadOK' /\ TableOK' /\ NextOK'
  BY <1>1, <1>3, <1>4, <1>5, ConsumeFrame DEF Answering
<1>7. ClosedOK'
  BY <1>3, <1>5, ClosedStaysOK
<1>8. MarkersResolve'
  <2>1. \A j \in Indicator : \A k \in 1 .. Len(db.rows[j]) :
          db'.rows[j][k].markers = db.rows[j][k].markers
    BY <1>2 DEF SameButLast
  <2> QED
    BY <1>1, <1>3, <1>4, <1>6, <2>1 DEF MarkersResolve
<1> QED
  BY <1>4, <1>6, <1>7, <1>8

LEMMA FinishSessionKeepsRecordInv ==
  ASSUME IInv, PromptsBounded, RecordInv, FinishSession
  PROVE  RecordInv'
<1> USE DEF RecordInv
<1> DEFINE i == Head(ring).indicator
<1>1. /\ nhid.step = "wait" /\ Consume /\ nhid' = nhid /\ environ' = environ
      /\ exported' = exported /\ restarts' = restarts
      /\ ring # <<>> /\ Head(ring).type = "exit"
      /\ db' \in {meta_add_finish_time(db, i), db}
  BY DEF FinishSession, At, scriptVars, pastVars
<1>2. \E s \in born \cap ShellPid : <<s, i>> \in granted /\ ~Running(s)
  <2>1. EventOK(Head(ring))
    <3>1. ring \in Seq(Event) /\ Head(ring) = ring[1] /\ 1 \in 1 .. Len(ring)
      BY <1>1 DEF IInv, TypeOK
    <3> QED
      BY <3>1 DEF IInv, RingOK
  <2> QED
    BY <1>1, <2>1 DEF EventOK, IInv, TypeOK
<1> HIDE DEF i
<1>3. /\ GoodDb(db') /\ db'.created = db.created /\ db'.rows = db.rows
      /\ db'.closed \subseteq db.closed \cup {i}
  BY <1>1, FinishTimeFacts
<1>4. [NhiNext]_nhiVars
  BY DEF NhiNext, HandlerStep
<1>5. /\ reg' = reg /\ granted' = granted
      /\ ScriptOK' /\ PhaseOK' /\ HeadOK' /\ TableOK' /\ NextOK'
  BY <1>1, <1>3, <1>4, ConsumeFrame DEF Answering
<1>6. ClosedOK'
  <2>1. /\ granted \subseteq granted' /\ born \subseteq born'
        /\ \A p \in born : ~Running(p) => ~Running(p)'
    BY <1>4, ProcessesAge
  <2> QED
    BY <1>2, <1>3, <2>1 DEF ClosedOK
<1>7. CompleteBeforeNext' /\ MarkersResolve'
  BY <1>1, <1>3, <1>5 DEF CompleteBeforeNext, MarkersResolve
<1> QED
  BY <1>3, <1>5, <1>6, <1>7

\* nhid goes away between any two statements.
LEMMA GoingAwayKeepsRecordInv ==
  ASSUME IInv, PromptsBounded, RecordInv, Stop \/ Fault \/ Start
  PROVE  RecordInv'
<1> USE DEF RecordInv
<1>1. /\ db' = db /\ exported' = exported /\ granted' = granted
      /\ \/ loaded' = FALSE /\ shells' = NoShells /\ ring' = <<>> /\ reg' = NoRegistration
            /\ restarts' = restarts + 1 /\ nhid' = NoHandler /\ environ' = OwnEnviron
         \/ loaded' = TRUE /\ ~loaded /\ ring' = ring /\ reg' = reg /\ restarts' = restarts /\ nhid' = nhid
            /\ environ' = environ
  BY DEF Stop, Fault, Start, GoAway, Unload, Load, scriptVars, handlerVars, pastVars,
         mapVars, nhidVars
<1>2. nhid'.step = "wait" /\ nhid'.indicator = NoIndicator /\ reg' = NoRegistration
      /\ nhid' \in [step : Steps, slot : 0 .. MaxShells, indicator : Indicator \cup {NoIndicator}]
  BY <1>1, SizeAssumption DEF NoHandler, PhaseOK, Steps
<1>3. GoodDb(db)' /\ CompleteBeforeNext' /\ ClosedOK'
  BY <1>1, SameDatabase DEF NhiNext
<1>4. ScriptOK'
  BY <1>1, <1>2 DEF ScriptOK
<1>5. PhaseOK'
  BY <1>1, <1>2 DEF PhaseOK
<1>6. HeadOK' /\ TableOK' /\ NextOK'
  BY <1>1, <1>2 DEF HeadOK, TableOK, NextOK, Registering, Filled
<1>7. MarkersResolve'
  BY <1>1 DEF MarkersResolve, ScriptOK
<1> QED
  BY <1>3, <1>4, <1>5, <1>6, <1>7

LEMMA NextKeepsRecordInv == IInv /\ PromptsBounded /\ RecordInv /\ [NhiNext]_nhiVars => RecordInv'
<1> SUFFICES ASSUME IInv, PromptsBounded, RecordInv, [NhiNext]_nhiVars PROVE RecordInv'
  OBVIOUS
<1>1. CASE ShellStep
  BY <1>1, ShellStepKeepsRecordInv
<1>2. CASE SIGUSRStep
  BY <1>2, TakeRegistrationKeepsRecordInv, AddMarkerKeepsRecordInv, CreateTableKeepsRecordInv,
     CreateRowKeepsRecordInv, MetaCreateRowKeepsRecordInv, InspectingKeepsRecordInv,
     FillFirstRowKeepsRecordInv, UpdateShellsKeepsRecordInv
  DEF SIGUSRStep
<1>3. CASE HandlerStep /\ ~SIGUSRStep
  BY <1>3, TakeLookupKeepsRecordInv, LookUpKeepsRecordInv, SnapshotKeepsRecordInv,
     FinishRowKeepsRecordInv, NextRowKeepsRecordInv, StartRowKeepsRecordInv,
     FinishSessionKeepsRecordInv, RecordOutputKeepsRecordInv
  DEF HandlerStep
<1>4. CASE Stop \/ Fault \/ Start
  BY <1>4, GoingAwayKeepsRecordInv
<1>5. CASE UNCHANGED nhiVars
  <2>1. UNCHANGED <<loaded, reg, ring, shells, granted, nhid, environ, db, exported, restarts>>
    BY <1>5 DEF nhiVars, vars, mapVars, nhidVars, scriptVars, handlerVars, pastVars
  <2>2. GoodDb(db)' /\ CompleteBeforeNext' /\ ClosedOK'
    BY <2>1, SameDatabase
  <2>3. ScriptOK' /\ PhaseOK' /\ HeadOK'
    BY <2>1 DEF RecordInv, ScriptOK, PhaseOK, HeadOK, Wanted, IsPrompt, IsRegistration
  <2>4. TableOK' /\ NextOK' /\ MarkersResolve'
    BY <2>1 DEF RecordInv, TableOK, NextOK, MarkersResolve
  <2> QED
    BY <2>2, <2>3, <2>4 DEF RecordInv
<1> QED
  BY <1>1, <1>2, <1>3, <1>4, <1>5 DEF NhiNext, HandlerStep

LEMMA RecordInvAlways == NhiSpec => [](IInv /\ PromptsBounded /\ RecordInv)
<1>1. NhiInit => IInv /\ PromptsBounded /\ RecordInv
  <2>1. NhiInit => Init
    BY DEF NhiInit
  <2> QED
    BY <2>1, InitIInv, InitPromptsBounded, InitRecordInv
<1>2. (IInv /\ PromptsBounded /\ RecordInv) /\ [NhiNext]_nhiVars
        => (IInv /\ PromptsBounded /\ RecordInv)'
  <2> SUFFICES ASSUME IInv, PromptsBounded, RecordInv, [NhiNext]_nhiVars
               PROVE  IInv' /\ PromptsBounded' /\ RecordInv'
    OBVIOUS
  <2>1. IInv'
    BY NhiStepsAreTracerSteps, NextKeepsIInv
  <2>2. PromptsBounded'
    BY PromptsStayBounded
  <2>3. RecordInv'
    BY NextKeepsRecordInv
  <2> QED
    BY <2>1, <2>2, <2>3
<1> QED
  BY <1>1, <1>2, PTL DEF NhiSpec

----------------------------------------------------------------------------
\* The scripts, the handlers and the database keep their types: rows are in
\* tables that exist, and `meta` has no session without a table.
THEOREM NhiTypeCorrect == NhiSpec => []NhiTypeOK
<1>1. PromptsBounded /\ RecordInv => NhiTypeOK
  BY DEF PromptsBounded, RecordInv, GoodDb, ScriptOK, NhiTypeOK
<1> QED
  BY <1>1, RecordInvAlways, PTL

\* Every row but the last of a session is finished and has a command, wherever
\* nhid was when it went away.
THEOREM RowsAreCompleted == NhiSpec => []CompleteBeforeNext
<1>1. RecordInv => CompleteBeforeNext
  BY DEF RecordInv
<1> QED
  BY <1>1, RecordInvAlways, PTL

\* A session marked finished is that of a shell that has exited.
THEOREM FinishedSessionsAreOver == NhiSpec => []FinishMeansExited
<1>1. RecordInv => FinishMeansExited
  BY DEF RecordInv, ClosedOK, FinishMeansExited
<1> QED
  BY <1>1, RecordInvAlways, PTL

\* Unless nhid went away, a marker in a row announces a session with a table.
THEOREM MarkersAreResolved == NhiSpec => []MarkersResolve
<1>1. RecordInv => MarkersResolve
  BY DEF RecordInv
<1> QED
  BY <1>1, RecordInvAlways, PTL

----------------------------------------------------------------------------
\* The inductive invariant, second part: the order of the ring buffer.

IsPromptOf(event, s) == IsPrompt(event) /\ event.pid = s

\* f numbers the rows of shell s along the events r from place `a` on: f[j] is
\* the row the event at j belongs to, and a prompt opens the next one.
Numbers(r, f, s, a) ==
  /\ f \in [1 .. Len(r) + 1 -> Nat]
  /\ \A j \in a .. Len(r) : f[j + 1] = IF IsPromptOf(r[j], s) THEN f[j] + 1 ELSE f[j]
  /\ \A j \in a .. Len(r) : f[j] <= f[Len(r) + 1]

\* g numbers the events of r and one more, e; g numbers what comes after the first.
NumbersMore(g, r, e, f, s) ==
  /\ g \in [1 .. Len(r) + 2 -> Nat]
  /\ \A j \in 1 .. Len(r) + 1 : g[j] = f[j]
  /\ g[Len(r) + 2] = IF IsPromptOf(e, s) THEN f[Len(r) + 1] + 1 ELSE f[Len(r) + 1]

NumbersRest(g, r, f) ==
  /\ g \in [1 .. Len(r) -> Nat]
  /\ \A j \in 1 .. Len(r) : g[j] = f[j + 1]

Places(r) == 1 .. Len(r)
PlacesAndEnd(r) == 1 .. Len(r) + 1

\* Output queued for session i belongs to the row it will be written to.
Aligned(f, s, i) ==
  \A j \in 1 .. Len(ring) :
    ring[j].type = "write" /\ ring[j].indicator = i => ring[j].data[s] \in {0, f[j]}

Traced(s) == \E j \in 0 .. MaxShells - 1 : shells[j].pid = s

\* A session nhid has granted: the rows of its table, the prompts in the ring
\* buffer and the prompts the shell has sent go together.
SessionAt(s, i) ==
  \E f \in [1 .. Len(ring) + 1 -> Nat] :
    /\ Numbers(ring, f, s, 1)
    /\ f[1] = Len(db.rows[i])
    /\ Aligned(f, s, i)
    /\ f[Len(ring) + 1] <= prompts[s] + 1
    /\ Traced(s) => f[Len(ring) + 1] = prompts[s] + 1

\* A shell whose registration waits at place p of the ring buffer: the prompts
\* behind it are all it has sent.
ArrivalAt(p) ==
  \E f \in [1 .. Len(ring) + 1 -> Nat] :
    /\ Numbers(ring, f, ring[p].pid, p + 1)
    /\ f[p + 1] = 1
    /\ f[Len(ring) + 1] = prompts[ring[p].pid] + 1

SessionsOK == \A s \in ShellPid, i \in Indicator : <<s, i>> \in granted => SessionAt(s, i)

ArrivalsOK == \A p \in 1 .. Len(ring) : IsRegistration(ring[p]) => ArrivalAt(p)

\* Output is sent under indicators that have been granted.
WritesOK ==
  \A j \in 1 .. Len(ring) : ring[j].type = "write" /\ ring[j].indicator # NoIndicator =>
    \E s \in ShellPid : <<s, ring[j].indicator>> \in granted

\* What is recorded belongs where it is recorded.
OutputOK ==
  \A s \in ShellPid, i \in Indicator : <<s, i>> \in granted =>
    \A k \in 1 .. Len(db.rows[i]) : \A text \in db.rows[i][k].output : text[s] \in {0, k}

\* A shell registers once, under an indicator of its own.
Unregistered == {"unborn", "source"}

PhasesOK ==
  /\ \A s \in ShellPid : phase[s] = "unborn" <=> s \notin born
  /\ \A s \in ShellPid : phase[s] \in Unregistered => prompts[s] = 0

GrantedOnce ==
  \A s \in ShellPid, i \in Indicator : <<s, i>> \in granted =>
    /\ phase[s] \notin Unregistered
    /\ \A t \in ShellPid, j \in Indicator : <<t, j>> \in granted => (s = t <=> i = j)

RegisteredOnce ==
  \A p \in 1 .. Len(ring) : IsRegistration(ring[p]) =>
    /\ phase[ring[p].pid] \notin Unregistered
    /\ \A i \in Indicator : <<ring[p].pid, i>> \notin granted
    /\ \A q \in 1 .. Len(ring) :
         IsRegistration(ring[q]) /\ ring[q].pid = ring[p].pid => q = p

GrantsOK == PhasesOK /\ GrantedOnce /\ RegisteredOnce

OrderOK == SessionsOK /\ ArrivalsOK /\ WritesOK /\ OutputOK

AlignInv == GrantsOK /\ (lost \/ OrderOK)

----------------------------------------------------------------------------
(* The second part is inductive: numberings move along with the ring buffer. *)

LEMMA ExtendNumbers ==
  ASSUME NEW r \in Seq(Event), NEW e \in Event, NEW s,
         NEW a \in PlacesAndEnd(r), NEW f, Numbers(r, f, s, a)
  PROVE  \E g : Numbers(Append(r, e), g, s, a) /\ NumbersMore(g, r, e, f, s)
<1> DEFINE n == Len(r)
           last == IF IsPromptOf(e, s) THEN f[n + 1] + 1 ELSE f[n + 1]
           g == [j \in 1 .. n + 2 |-> IF j = n + 2 THEN last ELSE f[j]]
<1>0. PICK q : q = Append(r, e)
  OBVIOUS
<1> USE DEF PlacesAndEnd
<1>1. n \in Nat /\ Len(q) = n + 1 /\ q[n + 1] = e
      /\ \A j \in 1 .. n : q[j] = r[j]
  BY <1>0, AppendProperties
<1>2. /\ f \in [1 .. n + 1 -> Nat]
      /\ \A j \in a .. n : f[j + 1] = IF IsPromptOf(r[j], s) THEN f[j] + 1 ELSE f[j]
      /\ \A j \in a .. n : f[j] <= f[n + 1]
  BY DEF Numbers
<1>3. f[n + 1] \in Nat /\ last \in Nat /\ f[n + 1] <= last
  BY <1>1, <1>2
<1> HIDE DEF last
<1>4. /\ g \in [1 .. Len(q) + 1 -> Nat]
      /\ \A j \in 1 .. n + 1 : g[j] = f[j]
      /\ g[Len(q) + 1] = last
  <2>1. Len(q) + 1 = n + 2
    BY <1>1
  <2>2. \A j \in 1 .. n + 2 : j # n + 2 => j \in 1 .. n + 1
    BY <1>1
  <2>3. \A j \in 1 .. n + 1 : j \in 1 .. n + 2 /\ j # n + 2
    BY <1>1
  <2> QED
    BY <1>1, <1>2, <1>3, <2>1, <2>2, <2>3
<1> HIDE DEF g
<1>7. PICK h \in [1 .. Len(q) + 1 -> Nat] : /\ \A j \in 1 .. n + 1 : h[j] = f[j]
                                              /\ h[Len(q) + 1] = last
  BY <1>4
<1>5. ASSUME NEW j \in a .. n + 1
      PROVE  /\ h[j + 1] = IF IsPromptOf(q[j], s) THEN h[j] + 1 ELSE h[j]
             /\ h[j] <= h[Len(q) + 1]
  <2>1. CASE j = n + 1
    BY <1>1, <1>3, <1>7, <2>1 DEF last
  <2>2. CASE j # n + 1
    <3>1. j \in a .. n /\ j \in 1 .. n + 1 /\ j + 1 \in 1 .. n + 1 /\ j \in 1 .. n
      BY <1>1, <2>2
    <3>2. h[j] = f[j] /\ h[j + 1] = f[j + 1] /\ q[j] = r[j]
      BY <1>1, <1>7, <3>1
    <3>3. f[j] \in Nat /\ f[j] <= f[n + 1]
      BY <1>2, <3>1
    <3> QED
      BY <1>2, <1>3, <1>7, <3>1, <3>2, <3>3
  <2> QED
    BY <2>1, <2>2
<1>6. Numbers(q, h, s, a)
  BY <1>1, <1>5 DEF Numbers, IsPromptOf, IsPrompt
<1>8. NumbersMore(h, r, e, f, s)
  <2>1. Len(q) + 1 = n + 2
    BY <1>1
  <2> QED
    BY <1>7, <2>1 DEF NumbersMore, last
<1> QED
  BY <1>0, <1>6, <1>8

LEMMA ShiftNumbers ==
  ASSUME NEW r \in Seq(Event), r # <<>>, NEW s,
         NEW a \in PlacesAndEnd(r), NEW b \in Places(r), b + 1 >= a,
         NEW f, Numbers(r, f, s, a)
  PROVE  \E g : Numbers(Tail(r), g, s, b) /\ NumbersRest(g, r, f)
<1> DEFINE n == Len(r)
           g == [j \in 1 .. n |-> f[j + 1]]
<1>0. PICK q : q = Tail(r)
  OBVIOUS
<1> USE DEF PlacesAndEnd, Places
<1>1. /\ n \in Nat \ {0} /\ Len(q) = n - 1
      /\ \A j \in 1 .. n - 1 : q[j] = r[j + 1]
  BY <1>0, HeadTailProperties
<1>2. /\ f \in [1 .. n + 1 -> Nat]
      /\ \A j \in a .. n : f[j + 1] = IF IsPromptOf(r[j], s) THEN f[j] + 1 ELSE f[j]
      /\ \A j \in a .. n : f[j] <= f[n + 1]
  BY DEF Numbers
<1>3. g \in [1 .. Len(q) + 1 -> Nat] /\ \A j \in 1 .. n : g[j] = f[j + 1]
  <2>1. Len(q) + 1 = n /\ \A j \in 1 .. n : j + 1 \in 1 .. n + 1
    BY <1>1
  <2> QED
    BY <1>2, <2>1
<1> HIDE DEF g
<1>7. PICK h \in [1 .. Len(q) + 1 -> Nat] : \A j \in 1 .. n : h[j] = f[j + 1]
  BY <1>3
<1>4. ASSUME NEW j \in b .. n - 1
      PROVE  /\ h[j + 1] = IF IsPromptOf(q[j], s) THEN h[j] + 1 ELSE h[j]
             /\ h[j] <= h[Len(q) + 1]
  <2>1. /\ j \in 1 .. n - 1 /\ j \in 1 .. n /\ j + 1 \in 1 .. n /\ j + 1 \in a .. n
        /\ Len(q) + 1 = n /\ n \in 1 .. n
    BY <1>1
  <2>2. /\ h[j] = f[j + 1] /\ h[j + 1] = f[j + 1 + 1] /\ q[j] = r[j + 1]
        /\ h[Len(q) + 1] = f[n + 1]
    BY <1>1, <1>7, <2>1
  <2> QED
    BY <1>2, <2>1, <2>2
<1>5. Numbers(q, h, s, b)
  BY <1>1, <1>4 DEF Numbers, IsPromptOf, IsPrompt
<1>8. NumbersRest(h, r, f)
  <2>1. Len(q) + 1 = n
    BY <1>1
  <2> QED
    BY <1>7, <2>1 DEF NumbersRest
<1> QED
  BY <1>0, <1>5, <1>8

\* A program adds an event: the sessions granted stay in step.
LEMMA SessionExtended ==
  ASSUME ring \in Seq(Event), NEW e \in Event, ring' = Append(ring, e),
         NEW s \in ShellPid, NEW i \in Indicator, SessionAt(s, i),
         prompts[s] \in Nat,
         prompts'[s] = (IF IsPromptOf(e, s) THEN prompts[s] + 1 ELSE prompts[s]),
         Len(db'.rows[i]) = Len(db.rows[i]),
         Traced(s)' => Traced(s),
         e.type = "write" /\ e.indicator = i => Traced(s) /\ e.data[s] \in {0, prompts[s] + 1}
  PROVE  SessionAt(s, i)'
<1> DEFINE n == Len(ring)
<1>1. /\ n \in Nat /\ Len(ring') = n + 1 /\ ring'[n + 1] = e
      /\ \A j \in 1 .. n : ring'[j] = ring[j]
  BY AppendProperties
<1>2. PICK f \in [1 .. n + 1 -> Nat] :
        /\ Numbers(ring, f, s, 1)
        /\ f[1] = Len(db.rows[i])
        /\ Aligned(f, s, i)
        /\ f[n + 1] <= prompts[s] + 1
        /\ Traced(s) => f[n + 1] = prompts[s] + 1
  BY DEF SessionAt
<1>3. 1 \in 1 .. n + 1
  BY <1>1
<1>7. Numbers(ring, f, s, 1) /\ 1 \in PlacesAndEnd(ring)
  BY <1>2, <1>3 DEF PlacesAndEnd
<1>8. PICK g : Numbers(ring', g, s, 1) /\ NumbersMore(g, ring, e, f, s)
  BY <1>7, ExtendNumbers
<1>4. /\ g \in [1 .. Len(ring') + 1 -> Nat]
      /\ \A j \in 1 .. n + 1 : g[j] = f[j]
      /\ g[Len(ring') + 1] = IF IsPromptOf(e, s) THEN f[n + 1] + 1 ELSE f[n + 1]
  <2>1. Len(ring') + 1 = n + 2
    BY <1>1
  <2> QED
    BY <1>8, <2>1 DEF NumbersMore
<1>5. Aligned(g, s, i)'
  <2>1. ASSUME NEW j \in 1 .. Len(ring'), ring'[j].type = "write", ring'[j].indicator = i
        PROVE  ring'[j].data[s] \in {0, g[j]}
    <3>1. CASE j = n + 1
      <4>1. g[j] = f[n + 1]
        BY <1>1, <1>4, <3>1
      <4> QED
        BY <1>1, <1>2, <2>1, <3>1, <4>1
    <3>2. CASE j # n + 1
      <4>1. j \in 1 .. n /\ j \in 1 .. n + 1
        BY <1>1, <3>2
      <4> QED
        BY <1>1, <1>2, <1>4, <2>1, <4>1 DEF Aligned
    <3> QED
      BY <3>1, <3>2
  <2> QED
    BY <2>1 DEF Aligned
<1>6. /\ g[1] = Len(db'.rows[i])
      /\ g[Len(ring') + 1] <= prompts'[s] + 1
      /\ Traced(s)' => g[Len(ring') + 1] = prompts'[s] + 1
  <2>1. g[1] = f[1] /\ f[n + 1] \in Nat
    BY <1>1, <1>3, <1>4, <1>2
  <2>2. CASE IsPromptOf(e, s)
    BY <1>2, <1>4, <2>1, <2>2
  <2>3. CASE ~IsPromptOf(e, s)
    BY <1>2, <1>4, <2>1, <2>3
  <2> QED
    BY <2>2, <2>3
<1> QED
  BY <1>4, <1>5, <1>6, <1>8 DEF SessionAt

\* And so do the registrations that wait.
LEMMA ArrivalExtended ==
  ASSUME ring \in Seq(Event), NEW e \in Event, ring' = Append(ring, e),
         NEW p \in 1 .. Len(ring), ArrivalAt(p), prompts[ring[p].pid] \in Nat,
         prompts'[ring[p].pid] = (IF IsPromptOf(e, ring[p].pid)
                                  THEN prompts[ring[p].pid] + 1 ELSE prompts[ring[p].pid])
  PROVE  ArrivalAt(p)'
<1> DEFINE n == Len(ring)
<1>1. n \in Nat /\ Len(ring') = n + 1 /\ ring'[p] = ring[p]
  BY AppendProperties
<1>2. PICK s : s = ring[p].pid
  OBVIOUS
<1>3. PICK f \in [1 .. n + 1 -> Nat] :
        Numbers(ring, f, s, p + 1) /\ f[p + 1] = 1 /\ f[n + 1] = prompts[s] + 1
  BY <1>2 DEF ArrivalAt
<1>4. p + 1 \in 1 .. n + 1 /\ p + 1 \in PlacesAndEnd(ring)
  BY <1>1 DEF PlacesAndEnd
<1>8. PICK g : Numbers(ring', g, s, p + 1) /\ NumbersMore(g, ring, e, f, s)
  BY <1>3, <1>4, ExtendNumbers
<1>5. /\ g \in [1 .. Len(ring') + 1 -> Nat]
      /\ \A j \in 1 .. n + 1 : g[j] = f[j]
      /\ g[Len(ring') + 1] = IF IsPromptOf(e, s) THEN f[n + 1] + 1 ELSE f[n + 1]
  <2>1. Len(ring') + 1 = n + 2
    BY <1>1
  <2> QED
    BY <1>8, <2>1 DEF NumbersMore
<1>6. g[p + 1] = 1 /\ g[Len(ring') + 1] = prompts'[s] + 1
  BY <1>2, <1>3, <1>4, <1>5
<1>7. ring'[p].pid = s
  BY <1>1, <1>2
<1> QED
  BY <1>5, <1>6, <1>7, <1>8 DEF ArrivalAt

\* A registration that is added has nothing behind it.
LEMMA ArrivalAdded ==
  ASSUME ring \in Seq(Event), NEW e \in Event, ring' = Append(ring, e),
         prompts'[e.pid] = 0, NEW p, p = Len(ring')
  PROVE  ArrivalAt(p)'
<1> DEFINE n == Len(ring)
<1>1. n \in Nat /\ Len(ring') = n + 1 /\ ring'[n + 1] = e
  BY AppendProperties
<1>2. PICK m \in Nat : m = n + 1 /\ m = p
  BY <1>1
<1>3. PICK g \in [1 .. m + 1 -> Nat] : \A j \in 1 .. m + 1 : g[j] = 1
  <2> DEFINE one == [j \in 1 .. m + 1 |-> 1]
  <2>1. one \in [1 .. m + 1 -> Nat] /\ \A j \in 1 .. m + 1 : one[j] = 1
    OBVIOUS
  <2> QED
    BY <2>1
<1>4. Len(ring') = m /\ ring'[m] = e
  BY <1>1, <1>2
<1>5. g[m + 1] = 1 /\ Numbers(ring', g, e.pid, m + 1)
  <2>1. m + 1 \in 1 .. m + 1
    OBVIOUS
  <2>2. \A j \in m + 1 .. m : FALSE
    OBVIOUS
  <2> QED
    BY <1>3, <1>4, <2>1, <2>2 DEF Numbers
<1>6. ArrivalAt(m)'
  BY <1>3, <1>4, <1>5 DEF ArrivalAt
<1> QED
  BY <1>2, <1>6

\* nhid is done with the oldest event: if it was a prompt of the shell the table
\* has one more row.
LEMMA SessionShifted ==
  ASSUME ring \in Seq(Event), ring # <<>>, ring' = Tail(ring),
         NEW s \in ShellPid, NEW i \in Indicator, SessionAt(s, i),
         prompts' = prompts,
         Len(db'.rows[i]) = (IF IsPromptOf(Head(ring), s) THEN Len(db.rows[i]) + 1
                             ELSE Len(db.rows[i])),
         Traced(s)' => Traced(s)
  PROVE  SessionAt(s, i)'
<1> DEFINE n == Len(ring)
<1>1. /\ n \in Nat \ {0} /\ Len(ring') = n - 1 /\ Head(ring) = ring[1]
      /\ \A j \in 1 .. n - 1 : ring'[j] = ring[j + 1]
  BY HeadTailProperties
<1>2. PICK f \in [1 .. n + 1 -> Nat] :
        /\ Numbers(ring, f, s, 1)
        /\ f[1] = Len(db.rows[i])
        /\ Aligned(f, s, i)
        /\ f[n + 1] <= prompts[s] + 1
        /\ Traced(s) => f[n + 1] = prompts[s] + 1
  BY DEF SessionAt
<1>3. 1 \in 1 .. n + 1 /\ 1 \in 1 .. n /\ 1 + 1 >= 1
  BY <1>1
<1>7. Numbers(ring, f, s, 1) /\ 1 \in PlacesAndEnd(ring) /\ 1 \in Places(ring)
  BY <1>2, <1>3 DEF Places, PlacesAndEnd
<1>8. PICK g : Numbers(ring', g, s, 1) /\ NumbersRest(g, ring, f)
  BY <1>3, <1>7, ShiftNumbers
<1>4. g \in [1 .. Len(ring') + 1 -> Nat] /\ \A j \in 1 .. n : g[j] = f[j + 1]
  <2>1. Len(ring') + 1 = n
    BY <1>1
  <2> QED
    BY <1>8, <2>1 DEF NumbersRest
<1>5. Aligned(g, s, i)'
  <2>1. ASSUME NEW j \in 1 .. Len(ring'), ring'[j].type = "write", ring'[j].indicator = i
        PROVE  ring'[j].data[s] \in {0, g[j]}
    <3>1. j \in 1 .. n - 1 /\ j + 1 \in 1 .. n /\ j \in 1 .. n
      BY <1>1
    <3> QED
      BY <1>1, <1>2, <1>4, <2>1, <3>1 DEF Aligned
  <2> QED
    BY <2>1 DEF Aligned
<1>6. /\ g[1] = Len(db'.rows[i])
      /\ g[Len(ring') + 1] <= prompts'[s] + 1
      /\ Traced(s)' => g[Len(ring') + 1] = prompts'[s] + 1
  <2>1. g[1] = f[2] /\ g[n] = f[n + 1] /\ Len(ring') + 1 = n
    BY <1>1, <1>3, <1>4
  <2>2. f[2] = IF IsPromptOf(ring[1], s) THEN f[1] + 1 ELSE f[1]
    BY <1>2, <1>3 DEF Numbers
  <2> QED
    BY <1>1, <1>2, <2>1, <2>2
<1> QED
  BY <1>4, <1>5, <1>6, <1>8 DEF SessionAt

\* The registrations behind it move up.
LEMMA ArrivalShifted ==
  ASSUME ring \in Seq(Event), ring # <<>>, ring' = Tail(ring), prompts' = prompts,
         NEW p \in 1 .. Len(ring'), ArrivalAt(p + 1)
  PROVE  ArrivalAt(p)'
<1> DEFINE n == Len(ring)
<1>1. /\ n \in Nat \ {0} /\ Len(ring') = n - 1 /\ ring'[p] = ring[p + 1]
  BY HeadTailProperties
<1>2. PICK s : s = ring[p + 1].pid
  OBVIOUS
<1>3. PICK f \in [1 .. n + 1 -> Nat] :
        Numbers(ring, f, s, p + 2) /\ f[p + 2] = 1 /\ f[n + 1] = prompts[s] + 1
  <2>1. p + 1 + 1 = p + 2
    BY <1>1
  <2> QED
    BY <1>2, <2>1 DEF ArrivalAt
<1>4. p + 2 \in 1 .. n + 1 /\ p + 1 \in 1 .. n /\ p + 1 + 1 >= p + 2
  BY <1>1
<1>9. p + 2 \in PlacesAndEnd(ring) /\ p + 1 \in Places(ring)
  BY <1>4 DEF Places, PlacesAndEnd
<1>8. PICK g : Numbers(ring', g, s, p + 1) /\ NumbersRest(g, ring, f)
  BY <1>3, <1>4, <1>9, ShiftNumbers
<1>5. g \in [1 .. Len(ring') + 1 -> Nat] /\ \A j \in 1 .. n : g[j] = f[j + 1]
  <2>1. Len(ring') + 1 = n
    BY <1>1
  <2> QED
    BY <1>8, <2>1 DEF NumbersRest
<1>6. g[p + 1] = 1 /\ g[Len(ring') + 1] = prompts'[s] + 1
  <2>1. n \in 1 .. n /\ Len(ring') + 1 = n /\ p + 1 + 1 = p + 2
    BY <1>1
  <2> QED
    BY <1>3, <1>4, <1>5, <2>1
<1>7. ring'[p].pid = s
  BY <1>1, <1>2
<1> QED
  BY <1>5, <1>6, <1>7, <1>8 DEF ArrivalAt

\* The registration nhid is done with: its session has a row and all the prompts
\* of its shell are in the ring buffer.
LEMMA SessionStarted ==
  ASSUME ring \in Seq(Event), ring # <<>>, ring' = Tail(ring), prompts' = prompts,
         ArrivalAt(1), NEW s \in ShellPid, s = Head(ring).pid, prompts[s] \in Nat,
         NEW i \in Indicator, Len(db'.rows[i]) = 1,
         \A j \in 1 .. Len(ring) : ~(ring[j].type = "write" /\ ring[j].indicator = i)
  PROVE  SessionAt(s, i)'
<1> DEFINE n == Len(ring)
<1>1. /\ n \in Nat \ {0} /\ Len(ring') = n - 1 /\ Head(ring) = ring[1]
      /\ \A j \in 1 .. n - 1 : ring'[j] = ring[j + 1]
  BY HeadTailProperties
<1>2. PICK f \in [1 .. n + 1 -> Nat] :
        Numbers(ring, f, s, 2) /\ f[2] = 1 /\ f[n + 1] = prompts[s] + 1
  BY <1>1 DEF ArrivalAt
<1>3. 2 \in 1 .. n + 1 /\ 1 \in 1 .. n /\ 1 + 1 >= 2
  BY <1>1
<1>7. Numbers(ring, f, s, 2) /\ 2 \in PlacesAndEnd(ring) /\ 1 \in Places(ring)
  BY <1>2, <1>3 DEF Places, PlacesAndEnd
<1>8. PICK g : Numbers(ring', g, s, 1) /\ NumbersRest(g, ring, f)
  BY <1>3, <1>7, ShiftNumbers
<1>4. g \in [1 .. Len(ring') + 1 -> Nat] /\ \A j \in 1 .. n : g[j] = f[j + 1]
  <2>1. Len(ring') + 1 = n
    BY <1>1
  <2> QED
    BY <1>8, <2>1 DEF NumbersRest
<1>5. Aligned(g, s, i)'
  <2>1. ASSUME NEW j \in 1 .. Len(ring') PROVE ~(ring'[j].type = "write" /\ ring'[j].indicator = i)
    <3>1. j \in 1 .. n - 1 /\ j + 1 \in 1 .. n
      BY <1>1
    <3> QED
      BY <1>1, <3>1
  <2> QED
    BY <2>1 DEF Aligned
<1>6. g[1] = 1 /\ g[Len(ring') + 1] = prompts'[s] + 1
  <2>1. n \in 1 .. n /\ Len(ring') + 1 = n /\ 1 + 1 = 2
    BY <1>1
  <2> QED
    BY <1>2, <1>3, <1>4, <2>1
<1> QED
  BY <1>4, <1>5, <1>6, <1>8 DEF SessionAt

\* nhid goes away: nothing waits any more.
LEMMA SessionAbandoned ==
  ASSUME ring \in Seq(Event), ring' = <<>>, shells' = NoShells, prompts' = prompts, db' = db,
         NEW s \in ShellPid, NEW i \in Indicator, SessionAt(s, i), prompts[s] \in Nat
  PROVE  SessionAt(s, i)'
<1> DEFINE n == Len(ring)
<1>1. PICK f \in [1 .. n + 1 -> Nat] :
        Numbers(ring, f, s, 1) /\ f[1] = Len(db.rows[i]) /\ f[n + 1] <= prompts[s] + 1
  BY DEF SessionAt
<1>2. n \in Nat /\ Len(ring') = 0
  OBVIOUS
<1>3. f[1] \in Nat /\ f[1] <= f[n + 1]
  <2>1. CASE n = 0
    BY <1>1, <1>2, <2>1
  <2>2. CASE n # 0
    <3>1. 1 \in 1 .. n /\ 1 \in 1 .. n + 1
      BY <1>2, <2>2
    <3> QED
      BY <1>1, <3>1 DEF Numbers
  <2> QED
    BY <2>1, <2>2
<1>4. PICK g \in [1 .. 0 + 1 -> Nat] : g[1] = f[1]
  <2>1. [j \in 1 .. 0 + 1 |-> f[1]] \in [1 .. 0 + 1 -> Nat] /\ 1 \in 1 .. 0 + 1
    BY <1>3
  <2> QED
    BY <2>1
<1>5. Numbers(ring', g, s, 1) /\ Aligned(g, s, i)'
  <2>1. \A j \in 1 .. 0 : FALSE
    OBVIOUS
  <2> QED
    BY <1>2, <1>4, <2>1 DEF Numbers, Aligned
<1>6. ~Traced(s)'
  BY PidAssumption DEF Traced, NoShells, NoShell
<1>7. g[Len(ring') + 1] <= prompts'[s] + 1 /\ g[1] = Len(db'.rows[i])
  <2>1. f[n + 1] \in Nat
    BY <1>1, <1>2
  <2>2. Len(ring') + 1 = 1
    BY <1>2
  <2>3. g[Len(ring') + 1] = f[1]
    BY <1>4, <2>2
  <2> QED
    BY <1>1, <1>3, <1>4, <2>1, <2>3
<1> QED
  BY <1>2, <1>4, <1>5, <1>6, <1>7 DEF SessionAt

----------------------------------------------------------------------------
(* What a step of a shell or a process does to the order of events. *)

\* Output is sent for a traced shell, with the moment of every shell.
OutputSent(e) ==
  e.type = "write" /\ e.indicator # NoIndicator =>
    \E s \in ShellPid : /\ Traced(s) /\ <<s, e.indicator>> \in granted
                        /\ \A u \in ShellPid : e.data[u] \in {0, prompts[u] + 1}

Adds(e) ==
  /\ ring' = Append(ring, e)
  /\ \A s \in ShellPid :
       prompts'[s] = IF IsPromptOf(e, s) THEN prompts[s] + 1 ELSE prompts[s]
  /\ IsRegistration(e) => phase[e.pid] = "source" /\ phase'[e.pid] = "prompt"
  /\ OutputSent(e)

\* While nhid is away, or when the event is lost, a prompt leaves no trace.
Moves ==
  \/ ring' = ring /\ prompts' = prompts
  \/ ring' = ring /\ (~loaded \/ lost')
       /\ \A s \in ShellPid : prompts'[s] \in {prompts[s], prompts[s] + 1}
  \/ \E e \in Event : Adds(e)

\* A shell that has registered does not do so again, and none is found in
\* `shells` that was not there.
Forward ==
  /\ \A s \in ShellPid : phase[s] \notin Unregistered => phase'[s] \notin Unregistered
  /\ \A s \in ShellPid : Traced(s)' => Traced(s)

LEMMA SubmittedEvent ==
  ASSUME ring \in Seq(Event), ring' \in Seq(Event), NEW e, Submit(e)
  PROVE  \/ ring' = ring /\ Len(ring) >= RingCapacity
         \/ ring' = Append(ring, e) /\ e \in Event
<1>1. CASE Len(ring) < RingCapacity
  <2>1. ring' = Append(ring, e)
    BY <1>1 DEF Submit
  <2>2. ring \in Seq(Event \cup {e}) /\ e \in Event \cup {e}
    OBVIOUS
  <2>3. Len(ring') = Len(ring) + 1 /\ ring'[Len(ring) + 1] = e /\ Len(ring) \in Nat
    BY <2>1, <2>2, AppendProperties
  <2>4. e \in Event
    BY <2>3
  <2> QED
    BY <2>1, <2>4
<1>2. CASE ~(Len(ring) < RingCapacity)
  BY <1>2, SizeAssumption DEF Submit
<1> QED
  BY <1>1, <1>2

LEMMA ForkMoves ==
  ASSUME IInv, IInv', PromptsBounded, PhasesOK, NEW t \in Pid, NEW c \in Pid, Fork(t, c)
  PROVE  PhasesOK' /\ Forward /\ Moves
<1>1. /\ c \notin born /\ born' = born \cup {c} /\ prompts' = prompts /\ shells' = shells
      /\ phase' = IF c \in ShellPid THEN [phase EXCEPT ![c] = "source"] ELSE phase
  BY DEF Fork, Clone
<1>2. PhasesOK' /\ \A s \in ShellPid : phase[s] \notin Unregistered => phase'[s] \notin Unregistered
  BY <1>1 DEF PhasesOK, PromptsBounded, Unregistered
<1>3. Forward
  BY <1>1, <1>2 DEF Forward, Traced
<1>4. Moves
  <2>1. \/ ring' = ring
        \/ \E owner : Submit([type |-> "child", shell |-> owner, child |-> c])
    BY DEF Fork, Clone, ForkTracepoint
  <2>2. ASSUME NEW owner, Submit([type |-> "child", shell |-> owner, child |-> c]) PROVE Moves
    <3> DEFINE e == [type |-> "child", shell |-> owner, child |-> c]
    <3>1. e.type = "child"
      OBVIOUS
    <3> HIDE DEF e
    <3>2. \/ ring' = ring
          \/ ring' = Append(ring, e) /\ e \in Event
      BY <2>2, SubmittedEvent DEF IInv, TypeOK, e
    <3>3. Adds(e) \/ ring' = ring
      BY <1>1, <3>1, <3>2 DEF Adds, OutputSent, IsPromptOf, IsPrompt, IsRegistration
    <3> QED
      BY <1>1, <3>2, <3>3 DEF Moves
  <2> QED
    BY <1>1, <2>1, <2>2 DEF Moves
<1> QED
  BY <1>2, <1>3, <1>4

LEMMA SignalMoves ==
  ASSUME IInv, IInv', PromptsBounded, PhasesOK, NEW s \in ShellPid, Source(s) \/ Prompt(s)
  PROVE  PhasesOK' /\ Forward /\ Moves
<1>1. /\ phase' = [phase EXCEPT ![s] = "prompt"] /\ lost' = (lost \/ (loaded /\ Len(ring) = RingCapacity))
  BY DEF Source, Prompt, NoteLoss
<1>2. shells' = shells /\ born' = born
  BY DEF Source, Prompt, Kill, KillSomethingInfo, vars, mapVars, procVars
<1>3. PICK sig \in {"SIGUSR", "SIGRTMIN"} :
        /\ Kill(s, sig)
        /\ sig = "SIGUSR" => phase[s] = "source" /\ prompts' = prompts
        /\ sig = "SIGRTMIN" => /\ phase[s] = "prompter"
                               /\ prompts' = [prompts EXCEPT ![s] = @ + 1]
  BY DEF Source, Prompt
<1>4. /\ prompts'[s] = IF sig = "SIGRTMIN" THEN prompts[s] + 1 ELSE prompts[s]
      /\ \A u \in ShellPid : u # s => prompts'[u] = prompts[u]
      /\ phase'[s] = "prompt" /\ \A u \in ShellPid : u # s => phase'[u] = phase[u]
  BY <1>1, <1>3 DEF PromptsBounded
<1>5. PhasesOK' /\ Forward
  <2>1. s \in born /\ phase[s] # "unborn"
    BY <1>3 DEF PhasesOK
  <2>2. PhasesOK'
    BY <1>2, <1>4, <2>1 DEF PhasesOK, Unregistered
  <2>3. Forward
    BY <1>2, <1>4 DEF Forward, Traced, Unregistered
  <2> QED
    BY <2>2, <2>3
<1>6. Moves
  <2>1. CASE ~loaded
    <3>1. ring' = ring
      BY <1>3, <2>1 DEF Kill, KillSomethingInfo, vars, mapVars
    <3>2. \A u \in ShellPid : prompts'[u] \in {prompts[u], prompts[u] + 1}
      BY <1>4
    <3> QED
      BY <2>1, <3>1, <3>2 DEF Moves
  <2>2. CASE loaded
    <3>1. PICK parent : Submit([type |-> "kill", pid |-> s, sig |-> sig, parent |-> parent])
      BY <1>3, <2>2 DEF Kill, KillSomethingInfo
    <3> DEFINE e == [type |-> "kill", pid |-> s, sig |-> sig, parent |-> parent]
    <3>2. e.type = "kill" /\ e.pid = s /\ e.sig = sig
      OBVIOUS
    <3> HIDE DEF e
    <3>3. \/ ring' = ring /\ Len(ring) >= RingCapacity
          \/ ring' = Append(ring, e) /\ e \in Event
      BY <3>1, SubmittedEvent DEF IInv, TypeOK, e
    <3>4. CASE ring' = ring /\ Len(ring) >= RingCapacity
      <4>1. Len(ring) = RingCapacity
        <5>1. Len(ring) <= RingCapacity /\ Len(ring) \in Nat /\ RingCapacity \in Nat
          BY SizeAssumption DEF IInv, TypeOK
        <5> QED
          BY <3>4, <5>1
      <4>2. lost'
        BY <1>1, <2>2, <4>1
      <4>3. \A u \in ShellPid : prompts'[u] \in {prompts[u], prompts[u] + 1}
        BY <1>4
      <4> QED
        BY <3>4, <4>2, <4>3 DEF Moves
    <3>5. CASE ring' = Append(ring, e) /\ e \in Event
      <4>1. \A u \in ShellPid :
              prompts'[u] = IF IsPromptOf(e, u) THEN prompts[u] + 1 ELSE prompts[u]
        BY <1>4, <3>2 DEF IsPromptOf, IsPrompt
      <4>2. IsRegistration(e) => phase[e.pid] = "source" /\ phase'[e.pid] = "prompt"
        BY <1>3, <1>4, <3>2 DEF IsRegistration
      <4>3. OutputSent(e)
        BY <3>2 DEF OutputSent
      <4> QED
        BY <3>5, <4>1, <4>2, <4>3 DEF Moves, Adds
    <3> QED
      BY <3>3, <3>4, <3>5
  <2> QED
    BY <2>1, <2>2
<1> QED
  BY <1>5, <1>6

LEMMA CommandMoves ==
  ASSUME PromptsBounded, PhasesOK, NEW s \in ShellPid, StartCommand(s) \/ Export(s)
  PROVE  PhasesOK' /\ Forward /\ Moves
<1>1. /\ prompts' = prompts /\ ring' = ring /\ shells' = shells /\ born' = born
  BY DEF StartCommand, Export, vars, mapVars, procVars
<1>2. /\ phase[s] \in {"prompt", "command"} /\ phase'[s] \in {"command", "prompter"}
      /\ \A u \in ShellPid : u # s => phase'[u] = phase[u]
  BY DEF StartCommand, Export, PromptsBounded
<1> QED
  BY <1>1, <1>2 DEF PhasesOK, Forward, Moves, Traced, Unregistered

LEMMA DieMoves ==
  ASSUME IInv, IInv', PhasesOK, NEW t \in Pid, Die(t)
  PROVE  PhasesOK' /\ Forward /\ Moves
<1>1. /\ phase' = phase /\ prompts' = prompts /\ born' = born
  BY DEF Die, scriptVars, DoExit
<1>2. \A s \in ShellPid : Traced(s)' => Traced(s)
  <2>1. CASE shells' = shells
    BY <2>1 DEF Traced
  <2>2. ASSUME NEW p, CanRemove(ShellKeys, p), shells' = SwapOut(shells, ShellKeys, p, NoShell)
        PROVE  \A s \in ShellPid : Traced(s)' => Traced(s)
    <3>1. \A i \in 0 .. MaxShells - 1 :
            shells'[i] \in {NoShell} \cup {shells[j] : j \in 0 .. MaxShells - 1}
      BY <2>2, ShellRemoval DEF IInv
    <3>2. \A s \in ShellPid : s # NoShell.pid
      BY PidAssumption DEF NoShell
    <3> QED
      BY <3>1, <3>2 DEF Traced
  <2>3. shells' = shells \/ (\E p : CanRemove(ShellKeys, p) /\ shells' = SwapOut(shells, ShellKeys, p, NoShell))
    BY DEF Die, DoExit, ExitNoShells, ExitShell, ExitChild, mapVars
  <2> QED
    BY <2>1, <2>2, <2>3
<1>3. Moves
  <2>1. \/ ring' = ring
        \/ \E p, i : Submit([type |-> "exit", pid |-> p, indicator |-> i])
    BY DEF Die, DoExit, ExitNoShells, ExitShell, ExitChild, mapVars
  <2>2. ASSUME NEW p, NEW i, Submit([type |-> "exit", pid |-> p, indicator |-> i]) PROVE Moves
    <3> DEFINE e == [type |-> "exit", pid |-> p, indicator |-> i]
    <3>1. e.type = "exit"
      OBVIOUS
    <3> HIDE DEF e
    <3>2. \/ ring' = ring
          \/ ring' = Append(ring, e) /\ e \in Event
      BY <2>2, SubmittedEvent DEF IInv, TypeOK, e
    <3>3. Adds(e) \/ ring' = ring
      BY <1>1, <3>1, <3>2 DEF Adds, OutputSent, IsPromptOf, IsPrompt, IsRegistration
    <3> QED
      BY <1>1, <3>2, <3>3 DEF Moves
  <2> QED
    BY <1>1, <2>1, <2>2 DEF Moves
<1> QED
  BY <1>1, <1>2, <1>3 DEF PhasesOK, Forward

LEMMA WriteMoves ==
  ASSUME IInv, IInv', PromptsBounded, PhasesOK, NEW t \in Pid, Write(t)
  PROVE  PhasesOK' /\ Forward /\ Moves
<1>1. /\ phase' = phase /\ prompts' = prompts /\ born' = born /\ Running(t)
  BY DEF Write, scriptVars, KsysWrite, procVars
<1>2. PICK owner \in WriteOwners(tgid[t]) : \E slot \in WriteSlots(owner) :
        \/ KsysWriteEnter(slot)
        \/ KsysWriteLeave(t, Moment(t), slot) \/ KsysWriteText(t, Moment(t), slot)
  BY DEF Write, KsysWrite
<1>3. PICK slot \in WriteSlots(owner) :
        \/ KsysWriteEnter(slot)
        \/ KsysWriteLeave(t, Moment(t), slot) \/ KsysWriteText(t, Moment(t), slot)
  BY <1>2
<1>4. slot < MaxShells =>
        /\ slot \in 0 .. MaxShells - 1 /\ slot = FirstHit(ShellKeys, owner)
        /\ Finds(ShellKeys, owner)
  <2>1. slot = MaxShells => ~(slot < MaxShells)
    BY SizeAssumption
  <2> QED
    BY <2>1, FoundShell DEF WriteSlots, IInv
<1>5. \A s \in ShellPid : Traced(s)' => Traced(s)
  <2>1. shells \in [0 .. MaxShells - 1 -> Shell]
    BY DEF IInv, TypeOK
  <2>2. ASSUME NEW omit, NEW i \in 0 .. MaxShells - 1, shells' = [shells EXCEPT ![i].omit = omit]
        PROVE  \A j \in 0 .. MaxShells - 1 : shells'[j].pid = shells[j].pid
    BY <2>1, <2>2 DEF Shell
  <2>3. \A j \in 0 .. MaxShells - 1 : shells'[j].pid = shells[j].pid
    BY <1>3, <1>4, <2>2 DEF KsysWriteEnter, KsysWriteLeave, KsysWriteText
  <2> QED
    BY <2>3 DEF Traced
<1>6. Moves
  <2> DEFINE e == WriteEventOf(t, Moment(t), slot)
  <2>1. CASE ring' = ring
    BY <1>1, <2>1 DEF Moves
  <2>2. CASE Submit(e)
    <3>1. /\ e.type = "write" /\ e.data = Moment(t)
          /\ e.indicator = IF slot < MaxShells THEN shells[slot].indicator ELSE NoIndicator
      BY DEF WriteEventOf
    <3> HIDE DEF e
    <3>2. \/ ring' = ring
          \/ ring' = Append(ring, e) /\ e \in Event
      BY <2>2, SubmittedEvent DEF IInv, TypeOK
    <3>3. OutputSent(e)
      <4> SUFFICES ASSUME e.indicator # NoIndicator
                   PROVE  \E s \in ShellPid :
                            /\ Traced(s) /\ <<s, e.indicator>> \in granted
                            /\ \A u \in ShellPid : e.data[u] \in {0, prompts[u] + 1}
        BY DEF OutputSent
      <4>1. slot < MaxShells /\ e.indicator = shells[slot].indicator
        BY <3>1
      <4>2. /\ owner \in ShellPid /\ <<owner, e.indicator>> \in granted
        BY <1>4, <4>1, FoundShell DEF IInv
      <4>3. Traced(owner)
        <5>1. ShellKeys[slot] = owner /\ slot \in 0 .. MaxShells - 1
          BY <1>4, <4>1, HitSlot, KeysType DEF IInv
        <5> QED
          BY <5>1, KeysType DEF Traced, IInv
      <4>4. \A u \in ShellPid : e.data[u] \in {0, prompts[u] + 1}
        BY <3>1 DEF Moment
      <4> QED
        BY <4>2, <4>3, <4>4
    <3>4. Adds(e) \/ ring' = ring
      BY <1>1, <3>1, <3>2, <3>3 DEF Adds, IsPromptOf, IsPrompt, IsRegistration
    <3> QED
      BY <1>1, <3>2, <3>4 DEF Moves
  <2> QED
    BY <1>3, <2>1, <2>2 DEF KsysWriteEnter, KsysWriteLeave, KsysWriteText
<1> QED
  BY <1>1, <1>5, <1>6 DEF PhasesOK, Forward

LEMMA ShellStepMoves ==
  ASSUME IInv, IInv', PromptsBounded, PhasesOK, ShellStep
  PROVE  PhasesOK' /\ Forward /\ Moves
BY ForkMoves, SignalMoves, CommandMoves, DieMoves, WriteMoves DEF ShellStep

LEMMA PromptsAreNumbers ==
  ASSUME PromptsBounded, NEW s \in ShellPid
  PROVE  prompts[s] \in Nat
BY BoundAssumption DEF PromptsBounded

\* The grants after a step of a shell: the one registration it may add is that of
\* a shell that had none.
LEMMA ShellStepKeepsGrants ==
  ASSUME IInv, PhasesOK, PhasesOK', GrantedOnce, RegisteredOnce, Forward, Moves,
         granted' = granted
  PROVE  GrantedOnce' /\ RegisteredOnce'
<1>1. GrantedOnce'
  BY DEF GrantedOnce, Forward
<1>2. ring \in Seq(Event) /\ \A p \in 1 .. Len(ring) : IsRegistration(ring[p]) => ring[p].pid \in ShellPid
  <2>1. \A p \in 1 .. Len(ring) : ring[p] \in Event
    BY DEF IInv, TypeOK
  <2> QED
    BY <2>1 DEF IInv, TypeOK, IsRegistration, Event, KillEvent, ChildEvent, ExitEvent, WriteEvent
<1>3. ASSUME ring' = ring PROVE RegisteredOnce'
  <2> SUFFICES ASSUME NEW p \in 1 .. Len(ring), IsRegistration(ring[p])
               PROVE  /\ phase'[ring[p].pid] \notin Unregistered
                      /\ \A i \in Indicator : <<ring[p].pid, i>> \notin granted
                      /\ \A q \in 1 .. Len(ring) :
                           IsRegistration(ring[q]) /\ ring[q].pid = ring[p].pid => q = p
    BY <1>3 DEF RegisteredOnce, IsRegistration
  <2> QED
    BY <1>2 DEF RegisteredOnce, Forward
<1>4. ASSUME NEW e \in Event, Adds(e) PROVE RegisteredOnce'
  <2> DEFINE n == Len(ring)
  <2>1. /\ n \in Nat /\ Len(ring') = n + 1 /\ ring'[n + 1] = e
        /\ \A j \in 1 .. n : ring'[j] = ring[j]
    BY <1>2, <1>4, AppendProperties DEF Adds
  <2>2. \A p \in 1 .. Len(ring') : p \in 1 .. n \/ p = n + 1
    BY <2>1
  <2> HIDE DEF n
  <2>3. IsRegistration(e) => e.pid \in ShellPid /\ phase[e.pid] = "source" /\ phase'[e.pid] = "prompt"
    BY <1>4 DEF Adds, IsRegistration, Event, KillEvent, ChildEvent, ExitEvent, WriteEvent
  <2>4. ASSUME IsRegistration(e), NEW p \in 1 .. n, IsRegistration(ring[p]), ring[p].pid = e.pid
        PROVE  FALSE
    BY <2>3, <2>4 DEF RegisteredOnce, Unregistered, n
  <2> SUFFICES ASSUME NEW p \in 1 .. Len(ring'), IsRegistration(ring'[p])
               PROVE  /\ phase'[ring'[p].pid] \notin Unregistered
                      /\ \A i \in Indicator : <<ring'[p].pid, i>> \notin granted
                      /\ \A q \in 1 .. Len(ring') :
                           IsRegistration(ring'[q]) /\ ring'[q].pid = ring'[p].pid => q = p
    BY DEF RegisteredOnce, IsRegistration
  <2>5. CASE p = n + 1
    <3>1. ring'[p] = e
      BY <2>1, <2>5
    <3>2. phase'[e.pid] \notin Unregistered
      BY <2>3, <3>1 DEF Unregistered
    <3>3. \A i \in Indicator : <<e.pid, i>> \notin granted
      BY <2>3, <3>1 DEF GrantedOnce, Unregistered
    <3>4. ASSUME NEW q \in 1 .. Len(ring'), IsRegistration(ring'[q]), ring'[q].pid = e.pid
          PROVE  q = p
      BY <2>1, <2>2, <2>4, <2>5, <3>1, <3>4
    <3> QED
      BY <3>1, <3>2, <3>3, <3>4
  <2>6. CASE p \in 1 .. n
    <3>1. ring'[p] = ring[p]
      BY <2>1, <2>6
    <3>2. /\ phase[ring[p].pid] \notin Unregistered
          /\ \A i \in Indicator : <<ring[p].pid, i>> \notin granted
      BY <2>6, <3>1 DEF RegisteredOnce, n
    <3>3. ring[p].pid \in ShellPid /\ phase'[ring[p].pid] \notin Unregistered
      BY <1>2, <2>6, <3>1, <3>2 DEF Forward, n
    <3>4. ASSUME NEW q \in 1 .. Len(ring'), IsRegistration(ring'[q]), ring'[q].pid = ring[p].pid
          PROVE  q = p
      <4>1. q \in 1 .. n
        BY <2>1, <2>2, <2>4, <2>6, <3>1, <3>4
      <4> QED
        BY <2>1, <2>6, <3>1, <3>4, <4>1 DEF RegisteredOnce, n
    <3> QED
      BY <3>1, <3>2, <3>3, <3>4
  <2> QED
    BY <2>2, <2>5, <2>6
<1> QED
  BY <1>1, <1>3, <1>4 DEF Moves

\* The order after a step of a shell.
LEMMA ShellStepKeepsOrder ==
  ASSUME IInv, PromptsBounded, PromptsBounded', PhaseOK, GrantsOK, PhasesOK', OrderOK, Forward, Moves,
         granted' = granted, db' = db, loaded' = loaded, ~loaded => shells' = shells, ~lost'
  PROVE  OrderOK'
<1>1. ring \in Seq(Event) /\ \A p \in 1 .. Len(ring) : IsRegistration(ring[p]) => ring[p].pid \in ShellPid
  <2>1. \A p \in 1 .. Len(ring) : ring[p] \in Event
    BY DEF IInv, TypeOK
  <2> QED
    BY <2>1 DEF IInv, TypeOK, IsRegistration, Event, KillEvent, ChildEvent, ExitEvent, WriteEvent
<1>2. OutputOK'
  BY DEF OrderOK, OutputOK
<1>3. CASE ring' = ring /\ prompts' = prompts
  <2>1. \A s \in ShellPid, i \in Indicator : SessionAt(s, i) => SessionAt(s, i)'
    BY <1>3 DEF SessionAt, Aligned, Forward
  <2>2. \A p \in 1 .. Len(ring) : ArrivalAt(p) => ArrivalAt(p)'
    BY <1>3 DEF ArrivalAt
  <2> QED
    BY <1>2, <1>3, <2>1, <2>2 DEF OrderOK, SessionsOK, ArrivalsOK, WritesOK, IsRegistration
<1>4. CASE /\ ring' = ring /\ ~loaded
           /\ \A s \in ShellPid : prompts'[s] \in {prompts[s], prompts[s] + 1}
  <2>1. ring = <<>> /\ ring' = <<>> /\ Len(ring) = 0 /\ shells' = NoShells
    BY <1>4 DEF PhaseOK
  <2>2. \A s \in ShellPid : ~Traced(s)'
    BY <2>1, PidAssumption DEF Traced, NoShells, NoShell
  <2>3. ASSUME NEW s \in ShellPid, NEW i \in Indicator, SessionAt(s, i) PROVE SessionAt(s, i)'
    <3>1. PICK f \in [1 .. Len(ring) + 1 -> Nat] :
            /\ Numbers(ring, f, s, 1) /\ f[1] = Len(db.rows[i]) /\ Aligned(f, s, i)
            /\ f[Len(ring) + 1] <= prompts[s] + 1
      BY <2>3 DEF SessionAt
    <3>2. prompts[s] \in Nat /\ prompts'[s] \in Nat /\ prompts[s] <= prompts'[s]
      BY <1>4, PromptsAreNumbers
    <3>3. f[Len(ring) + 1] \in Nat
      BY <2>1, <3>1
    <3>4. f[Len(ring) + 1] <= prompts'[s] + 1
      BY <3>1, <3>2, <3>3
    <3>5. Aligned(f, s, i)'
      BY <1>4, <3>1 DEF Aligned
    <3> QED
      BY <1>4, <2>2, <3>1, <3>4, <3>5 DEF SessionAt
  <2>4. ArrivalsOK' /\ WritesOK'
    BY <2>1 DEF ArrivalsOK, WritesOK
  <2> QED
    BY <1>2, <2>3, <2>4 DEF OrderOK, SessionsOK
<1>5. ASSUME NEW e \in Event, Adds(e) PROVE OrderOK'
  <2> DEFINE n == Len(ring)
  <2>1. /\ ring' = Append(ring, e) /\ n \in Nat /\ Len(ring') = n + 1 /\ ring'[n + 1] = e
        /\ \A j \in 1 .. n : ring'[j] = ring[j]
    BY <1>1, <1>5, AppendProperties DEF Adds
  <2>2. \A p \in 1 .. Len(ring') : p \in 1 .. n \/ p = n + 1
    BY <2>1
  <2>3. ASSUME NEW s \in ShellPid, NEW i \in Indicator, <<s, i>> \in granted
        PROVE  SessionAt(s, i)'
    <3>1. /\ SessionAt(s, i) /\ prompts[s] \in Nat
          /\ prompts'[s] = IF IsPromptOf(e, s) THEN prompts[s] + 1 ELSE prompts[s]
          /\ Traced(s)' => Traced(s)
      BY <1>5, <2>3, PromptsAreNumbers DEF OrderOK, SessionsOK, Adds, Forward
    <3>2. ASSUME e.type = "write", e.indicator = i
          PROVE  Traced(s) /\ e.data[s] \in {0, prompts[s] + 1}
      <4>1. e.indicator # NoIndicator
        BY <3>2, IndicatorAssumption
      <4>2. PICK u \in ShellPid : /\ Traced(u) /\ <<u, e.indicator>> \in granted
                                  /\ \A v \in ShellPid : e.data[v] \in {0, prompts[v] + 1}
        BY <1>5, <3>2, <4>1 DEF Adds, OutputSent
      <4>3. u = s
        BY <2>3, <3>2, <4>2 DEF GrantsOK, GrantedOnce
      <4> QED
        BY <4>2, <4>3
    <3> QED
      BY <1>1, <2>1, <3>1, <3>2, SessionExtended
  <2>4. ASSUME NEW p \in 1 .. Len(ring'), IsRegistration(ring'[p]) PROVE ArrivalAt(p)'
    <3>1. CASE p = n + 1
      <4>1. IsRegistration(e) /\ e.pid \in ShellPid
        BY <2>1, <2>4, <3>1
        DEF IsRegistration, Event, KillEvent, ChildEvent, ExitEvent, WriteEvent
      <4>2. phase[e.pid] = "source" /\ ~IsPromptOf(e, e.pid)
        BY <1>5, <4>1 DEF Adds, IsRegistration, IsPromptOf, IsPrompt
      <4>3. prompts'[e.pid] = 0
        BY <1>5, <4>1, <4>2 DEF Adds, GrantsOK, PhasesOK, Unregistered
      <4> QED
        BY <1>1, <2>1, <3>1, <4>3, ArrivalAdded
    <3>2. CASE p \in 1 .. n
      <4>1. IsRegistration(ring[p]) /\ ring[p].pid \in ShellPid
        BY <1>1, <2>1, <2>4, <3>2
      <4>2. ArrivalAt(p)
        BY <3>2, <4>1 DEF OrderOK, ArrivalsOK
      <4>3. /\ prompts[ring[p].pid] \in Nat
            /\ prompts'[ring[p].pid] = IF IsPromptOf(e, ring[p].pid)
                                       THEN prompts[ring[p].pid] + 1 ELSE prompts[ring[p].pid]
        BY <1>5, <4>1, PromptsAreNumbers DEF Adds
      <4> QED
        BY <1>1, <2>1, <3>2, <4>2, <4>3, ArrivalExtended
    <3> QED
      BY <2>2, <3>1, <3>2
  <2>5. WritesOK'
    <3> SUFFICES ASSUME NEW j \in 1 .. Len(ring'), ring'[j].type = "write",
                        ring'[j].indicator # NoIndicator
                 PROVE  \E s \in ShellPid : <<s, ring'[j].indicator>> \in granted
      BY DEF WritesOK
    <3>1. CASE j = n + 1
      BY <1>5, <2>1, <3>1 DEF Adds, OutputSent
    <3>2. CASE j \in 1 .. n
      BY <2>1, <3>2 DEF OrderOK, WritesOK
    <3> QED
      BY <2>2, <3>1, <3>2
  <2>6. SessionsOK'
    BY <2>3 DEF SessionsOK
  <2>7. ArrivalsOK'
    BY <2>4 DEF ArrivalsOK, IsRegistration
  <2> QED
    BY <1>2, <2>5, <2>6, <2>7 DEF OrderOK
<1> QED
  BY <1>3, <1>4, <1>5 DEF Moves

LEMMA LossIsRemembered == NhiNext /\ lost => lost'
<1> SUFFICES ASSUME NhiNext, lost PROVE lost'
  OBVIOUS
<1>1. CASE ShellStep
  BY <1>1 DEF ShellStep, Fork, Source, StartCommand, Export, Prompt, Die, Write, NoteLoss, pastVars
<1>2. CASE SIGUSRStep
  BY <1>2 DEF SIGUSRStep, TakeRegistration, AddMarker, CreateTable, CreateRow, MetaCreateRow,
     Statement, ScanShells, FindEnviron, ReadEnviron, AskPs, GiveUp, FillFirstRow, UpdateShells,
     pastVars
<1>3. CASE HandlerStep /\ ~SIGUSRStep
  BY <1>3 DEF HandlerStep, TakeLookup, LookUp, Snapshot, FinishRow, NextRow, StartRow,
     FinishSession, RecordOutput, pastVars
<1>4. CASE Stop \/ Fault \/ Start
  BY <1>4 DEF Stop, Fault, Start, GoAway, pastVars
<1> QED
  BY <1>1, <1>2, <1>3, <1>4 DEF NhiNext, HandlerStep

LEMMA ShellStepKeepsAlign ==
  ASSUME IInv, IInv', PromptsBounded, PromptsBounded', RecordInv, AlignInv, ShellStep
  PROVE  AlignInv'
<1>1. Kept
  BY ShellStepEffects DEF RecordInv
<1>2. PhasesOK' /\ Forward /\ Moves
  BY ShellStepMoves DEF AlignInv, GrantsOK
<1>3. GrantsOK'
  BY <1>1, <1>2, ShellStepKeepsGrants DEF AlignInv, GrantsOK, Kept
<1>4. lost => lost'
  BY LossIsRemembered DEF NhiNext
<1>5. ASSUME ~lost' PROVE OrderOK'
  BY <1>1, <1>2, <1>4, <1>5, ShellStepKeepsOrder DEF AlignInv, Kept, RecordInv
<1> QED
  BY <1>3, <1>5 DEF AlignInv

----------------------------------------------------------------------------
(* What a step of nhid does to the order of events. *)

ScriptsRest == born' = born /\ phase' = phase /\ prompts' = prompts

\* A table has as many rows as before, or one more, and the rows it had hold
\* the output they held.
SameOutput(i) ==
  /\ Len(db'.rows[i]) = Len(db.rows[i])
  /\ \A k \in 1 .. Len(db.rows[i]) : db'.rows[i][k].output = db.rows[i][k].output

LEMMA NothingReleased ==
  ASSUME AlignInv, ring' = ring, shells' = shells, granted' = granted, ScriptsRest, lost' = lost,
         \A s \in ShellPid, i \in Indicator : <<s, i>> \in granted => SameOutput(i)
  PROVE  AlignInv'
<1>1. PhasesOK' /\ GrantedOnce' /\ RegisteredOnce'
  BY DEF AlignInv, GrantsOK, PhasesOK, GrantedOnce, RegisteredOnce, ScriptsRest, IsRegistration,
         Unregistered
<1>2. ASSUME OrderOK PROVE OrderOK'
  <2>1. OutputOK'
    BY <1>2 DEF OrderOK, OutputOK, SameOutput
  <2>2. SessionsOK'
    <3> SUFFICES ASSUME NEW s \in ShellPid, NEW i \in Indicator, <<s, i>> \in granted
                 PROVE  SessionAt(s, i)'
      BY DEF SessionsOK
    <3>1. SessionAt(s, i) /\ Len(db'.rows[i]) = Len(db.rows[i])
      BY <1>2 DEF OrderOK, SessionsOK, SameOutput
    <3> QED
      BY <3>1 DEF SessionAt, Aligned, Traced, ScriptsRest
  <2>3. ArrivalsOK' /\ WritesOK'
    BY <1>2 DEF OrderOK, ArrivalsOK, WritesOK, ArrivalAt, IsRegistration, ScriptsRest
  <2> QED
    BY <2>1, <2>2, <2>3 DEF OrderOK
<1> QED
  BY <1>1, <1>2 DEF AlignInv, GrantsOK

LEMMA TailEvents ==
  ASSUME IInv, ring # <<>>, ring' = Tail(ring)
  PROVE  /\ ring \in Seq(Event) /\ Len(ring) \in Nat \ {0} /\ 1 \in 1 .. Len(ring)
         /\ Head(ring) = ring[1] /\ Head(ring) \in Event
         /\ Len(ring') = Len(ring) - 1
         /\ \A j \in 1 .. Len(ring') :
              ring'[j] = ring[j + 1] /\ j + 1 \in 1 .. Len(ring) /\ j + 1 # 1
<1>1. ring \in Seq(Event)
  BY DEF IInv, TypeOK
<1>2. Len(ring) \in Nat \ {0} /\ 1 \in 1 .. Len(ring)
  BY <1>1
<1>3. /\ Len(ring') = Len(ring) - 1
      /\ \A j \in 1 .. Len(ring) - 1 : ring'[j] = ring[j + 1]
  BY <1>1, HeadTailProperties
<1> QED
  BY <1>1, <1>2, <1>3

\* Phases and grants are undisturbed by a step that leaves them and the scripts alone.
LEMMA GrantsFrame ==
  ASSUME GrantsOK, granted' = granted, ScriptsRest
  PROVE  PhasesOK' /\ GrantedOnce'
  BY DEF GrantsOK, PhasesOK, GrantedOnce, ScriptsRest, Unregistered

LEMMA GrantsReleased ==
  ASSUME IInv, GrantsOK, ring # <<>>, ring' = Tail(ring), granted' = granted, ScriptsRest
  PROVE  GrantsOK'
<1>1. PhasesOK' /\ GrantedOnce'
  BY GrantsFrame
<1>2. RegisteredOnce'
  <2> SUFFICES ASSUME NEW p \in 1 .. Len(ring'), IsRegistration(ring'[p])
               PROVE  /\ phase[ring'[p].pid] \notin Unregistered
                      /\ \A i \in Indicator : <<ring'[p].pid, i>> \notin granted
                      /\ \A q \in 1 .. Len(ring') :
                           IsRegistration(ring'[q]) /\ ring'[q].pid = ring'[p].pid => q = p
    BY DEF RegisteredOnce, IsRegistration, ScriptsRest
  <2>1. ring'[p] = ring[p + 1] /\ p + 1 \in 1 .. Len(ring)
    BY TailEvents
  <2>2. /\ phase[ring'[p].pid] \notin Unregistered
        /\ \A i \in Indicator : <<ring'[p].pid, i>> \notin granted
    BY <2>1 DEF GrantsOK, RegisteredOnce
  <2>3. ASSUME NEW q \in 1 .. Len(ring'), IsRegistration(ring'[q]), ring'[q].pid = ring'[p].pid
        PROVE  q = p
    <3>1. ring'[q] = ring[q + 1] /\ q + 1 \in 1 .. Len(ring)
      BY TailEvents
    <3>2. q + 1 = p + 1
      BY <2>1, <2>3, <3>1 DEF GrantsOK, RegisteredOnce
    <3> QED
      BY <3>2
  <2> QED
    BY <2>2, <2>3
<1> QED
  BY <1>1, <1>2 DEF GrantsOK

\* What waits behind the event that is released.
LEMMA OrderReleased ==
  ASSUME IInv, PromptsBounded, GrantsOK, OrderOK, ring # <<>>, ring' = Tail(ring), ScriptsRest,
         granted \subseteq granted',
         \A s \in ShellPid, i \in Indicator : <<s, i>> \in granted =>
           /\ Traced(s)' => Traced(s)
           /\ Len(db'.rows[i]) = IF IsPromptOf(Head(ring), s) THEN Len(db.rows[i]) + 1
                                 ELSE Len(db.rows[i])
  PROVE  /\ \A s \in ShellPid, i \in Indicator : <<s, i>> \in granted => SessionAt(s, i)'
         /\ ArrivalsOK' /\ WritesOK'
<1>1. ring \in Seq(Event)
  BY TailEvents
<1>2. ASSUME NEW s \in ShellPid, NEW i \in Indicator, <<s, i>> \in granted
      PROVE  SessionAt(s, i)'
  <2>1. SessionAt(s, i)
    BY <1>2 DEF OrderOK, SessionsOK
  <2> QED
    BY <1>1, <1>2, <2>1, SessionShifted DEF ScriptsRest
<1>3. ArrivalsOK'
  <2> SUFFICES ASSUME NEW p \in 1 .. Len(ring'), IsRegistration(ring'[p]) PROVE ArrivalAt(p)'
    BY DEF ArrivalsOK, IsRegistration
  <2>1. ArrivalAt(p + 1)
    BY TailEvents DEF OrderOK, ArrivalsOK
  <2> QED
    BY <1>1, <2>1, ArrivalShifted DEF ScriptsRest
<1>4. WritesOK'
  <2> SUFFICES ASSUME NEW j \in 1 .. Len(ring'), ring'[j].type = "write",
                      ring'[j].indicator # NoIndicator
               PROVE  \E s \in ShellPid : <<s, ring'[j].indicator>> \in granted'
    BY DEF WritesOK
  <2> QED
    BY TailEvents DEF OrderOK, WritesOK
<1> QED
  BY <1>2, <1>3, <1>4

\* A handler that is done with an event and leaves the tables as they are.
LEMMA EventReleased ==
  ASSUME IInv, PromptsBounded, AlignInv, ring # <<>>, ring' = Tail(ring), ScriptsRest,
         granted' = granted, shells' = shells, lost => lost', ~IsPrompt(Head(ring)),
         \A s \in ShellPid, i \in Indicator : <<s, i>> \in granted =>
           Len(db'.rows[i]) = Len(db.rows[i]),
         OrderOK => OutputOK'
  PROVE  AlignInv'
<1>1. GrantsOK'
  BY GrantsReleased DEF AlignInv
<1>2. ASSUME OrderOK PROVE OrderOK'
  <2>1. \A s \in ShellPid, i \in Indicator : <<s, i>> \in granted =>
           /\ Traced(s)' => Traced(s)
           /\ Len(db'.rows[i]) = IF IsPromptOf(Head(ring), s) THEN Len(db.rows[i]) + 1
                                 ELSE Len(db.rows[i])
    BY DEF Traced, IsPromptOf
  <2>2. /\ \A s \in ShellPid, i \in Indicator : <<s, i>> \in granted => SessionAt(s, i)'
        /\ ArrivalsOK' /\ WritesOK'
    BY <1>2, <2>1, OrderReleased DEF AlignInv
  <2> QED
    BY <1>2, <2>2 DEF OrderOK, SessionsOK
<1> QED
  BY <1>1, <1>2 DEF AlignInv

\* The statements of handle_kill_SIGUSR work on a table no shell is granted.
LEMMA RegisteringKeepsAlign ==
  ASSUME IInv, RecordInv, AlignInv,
         TakeRegistration \/ AddMarker \/ CreateTable \/ CreateRow \/ MetaCreateRow
         \/ ScanShells \/ FindEnviron \/ ReadEnviron \/ AskPs \/ FillFirstRow
  PROVE  AlignInv'
<1> USE DEF RecordInv
<1>1. /\ ring' = ring /\ shells' = shells /\ granted' = granted /\ ScriptsRest /\ lost' = lost
  BY DEF TakeRegistration, AddMarker, CreateTable, CreateRow, MetaCreateRow, Statement,
     ScanShells, FindEnviron, ReadEnviron, AskPs, FillFirstRow, StartRegistration, ScanSlot,
     InspectShell, ScriptsRest, vars, procVars, mapVars, nhidVars, scriptVars, pastVars
<1>2. SUFFICES \A s \in ShellPid, i \in Indicator : <<s, i>> \in granted => SameOutput(i)
  BY <1>1, NothingReleased
<1>3. ASSUME NEW i, SameButLast(db, db', i),
             \A k \in 1 .. Len(db.rows[i]) : i \in Indicator /\ k = Len(db.rows[i]) =>
               db'.rows[i][k].output = db.rows[i][k].output
      PROVE  \A j \in Indicator : SameOutput(j)
  BY <1>3 DEF SameButLast, SameOutput
<1>4. CASE db'.rows = db.rows
  BY <1>4 DEF SameOutput
<1>5. CASE TakeRegistration \/ ScanShells \/ FindEnviron \/ ReadEnviron \/ AskPs
  BY <1>4, <1>5 DEF TakeRegistration, ScanShells, FindEnviron, ReadEnviron, AskPs
<1>6. CASE AddMarker
  <2>1. /\ nhid.step = "marker"
        /\ db' = db \/ db' = add_marker(db, Head(ring).parent, reg.indicator)
    BY <1>6 DEF AddMarker, Statement, At
  <2>2. reg.indicator \in Indicator
    BY <2>1 DEF IInv, RegistrationOK, PhaseOK
  <2>3. CASE db' = add_marker(db, Head(ring).parent, reg.indicator)
    BY <1>3, <2>2, <2>3, AddMarkerFacts
  <2> QED
    BY <1>4, <2>1, <2>3
<1>7. CASE CreateTable
  <2>1. nhid.step = "table" /\ db' = create_table(db, reg.indicator)
    BY <1>7 DEF CreateTable, Statement, At
  <2>2. reg.indicator \in Indicator
    BY <2>1 DEF IInv, RegistrationOK, PhaseOK
  <2> QED
    BY <1>4, <2>1, <2>2, CreateTableFacts
<1>8. CASE CreateRow
  <2>1. nhid.step = "row" /\ db' = create_row(db, reg.indicator)
    BY <1>8 DEF CreateRow, Statement, At
  <2>2. \A s \in ShellPid : <<s, reg.indicator>> \notin granted
    BY <2>1 DEF TableOK, Registering
  <2> SUFFICES ASSUME NEW i \in Indicator, i # reg.indicator PROVE SameOutput(i)
    BY <2>2
  <2>3. /\ Len(db'.rows[i]) = Len(db.rows[i])
        /\ \A k \in 1 .. Len(db'.rows[i]) :
             db'.rows[i][k] = IF k = Len(db.rows[i]) + 1 THEN NewRow ELSE db.rows[i][k]
    BY <2>1, CreateRowFacts
  <2>4. Len(db.rows[i]) \in Nat
    BY DEF GoodDb
  <2>5. \A k \in 1 .. Len(db.rows[i]) : k # Len(db.rows[i]) + 1
    BY <2>4
  <2> QED
    BY <2>3, <2>5 DEF SameOutput
<1>9. CASE MetaCreateRow
  <2>1. nhid.step = "meta" /\ db' = meta_create_row(db, reg.indicator)
    BY <1>9 DEF MetaCreateRow, Statement, At
  <2>2. reg.indicator \in db.created
    BY <2>1 DEF TableOK, Filled
  <2> QED
    BY <1>4, <2>1, <2>2, MetaCreateRowFacts
<1>10. CASE FillFirstRow
  <2>1. db' = add_pwd(db, reg.indicator, environ.pwd)
    BY <1>10 DEF FillFirstRow
  <2>2. environ.pwd \in 0 .. MaxCommands \cup {-1}
    BY DEF ScriptOK, Environ, OwnEnviron
  <2> QED
    BY <1>3, <2>1, <2>2, AddPwdFacts
<1> QED
  BY <1>5, <1>6, <1>7, <1>8, <1>9, <1>10

LEMMA GiveUpKeepsAlign ==
  ASSUME IInv, PromptsBounded, RecordInv, AlignInv, GiveUp
  PROVE  AlignInv'
<1>1. /\ nhid.step \in {"address", "ps"} /\ ring' = Tail(ring) /\ ScriptsRest
      /\ granted' = granted /\ shells' = shells /\ lost' = lost /\ db' = db
  BY DEF GiveUp, RegistrationFails, At, ScriptsRest, procVars, scriptVars
<1>2. ring # <<>> /\ ~IsPrompt(Head(ring))
  BY <1>1 DEF RecordInv, HeadOK, Registering, IsRegistration, IsPrompt
<1>3. OrderOK => OutputOK'
  BY <1>1 DEF OrderOK, OutputOK
<1> QED
  BY <1>1, <1>2, <1>3, EventReleased

\* A session is granted: it has one row, without output, and what its shell has
\* sent since waits behind the registration.
LEMMA UpdateShellsKeepsAlign ==
  ASSUME IInv, PromptsBounded, RecordInv, AlignInv, UpdateShells
  PROVE  AlignInv'
<1>0. PICK s0, i0 : s0 = reg.pid /\ i0 = reg.indicator
  OBVIOUS
<1>1. /\ nhid.step = "update" /\ ring' = Tail(ring) /\ ScriptsRest /\ lost' = lost /\ db' = db
      /\ \/ shells' = shells /\ granted' = granted
         \/ /\ granted' = granted \cup {<<s0, i0>>}
            /\ \E omit : shells' = [shells EXCEPT ![reg.slot] =
                                      [pid |-> s0, indicator |-> i0, omit |-> omit]]
  BY <1>0 DEF UpdateShells, Register, At, ScriptsRest, procVars, scriptVars, pastVars
<1>2. /\ ring # <<>> /\ IsRegistration(Head(ring)) /\ s0 = Head(ring).pid
      /\ s0 \in ShellPid /\ i0 \in Indicator
      /\ \A s \in ShellPid : <<s, i0>> \notin granted
      /\ Len(db.rows[i0]) = 1 /\ db.rows[i0][1].output = {}
  BY <1>0, <1>1 DEF RecordInv, HeadOK, TableOK, PhaseOK, Registering, Filled, IInv, RegistrationOK
<1>3. ~IsPrompt(Head(ring))
  BY <1>2 DEF IsRegistration, IsPrompt
<1>4. ASSUME shells' = shells, granted' = granted PROVE AlignInv'
  <2>1. OrderOK => OutputOK'
    BY <1>1, <1>4 DEF OrderOK, OutputOK
  <2> QED
    BY <1>1, <1>2, <1>3, <1>4, <2>1, EventReleased
<1>5. ASSUME granted' = granted \cup {<<s0, i0>>}, NEW omit,
             shells' = [shells EXCEPT ![reg.slot] =
                          [pid |-> s0, indicator |-> i0, omit |-> omit]]
      PROVE  AlignInv'
  <2>1. /\ phase[s0] \notin Unregistered /\ \A i \in Indicator : <<s0, i>> \notin granted
        /\ \A q \in 1 .. Len(ring) : IsRegistration(ring[q]) /\ ring[q].pid = s0 => q = 1
    BY <1>1, <1>2, TailEvents DEF AlignInv, GrantsOK, RegisteredOnce
  <2>2. \A s \in ShellPid : s # s0 => (Traced(s)' => Traced(s))
    <3>1. shells \in [0 .. MaxShells - 1 -> Shell]
      BY DEF IInv, TypeOK
    <3>2. \A j \in 0 .. MaxShells - 1 : shells'[j].pid \in {s0, shells[j].pid}
      BY <1>5, <3>1
    <3> QED
      BY <3>2 DEF Traced
  <2>3. PhasesOK'
    BY <1>1 DEF AlignInv, GrantsOK, PhasesOK, ScriptsRest, Unregistered
  <2>4. GrantedOnce'
    <3> SUFFICES ASSUME NEW s \in ShellPid, NEW i \in Indicator, <<s, i>> \in granted'
                 PROVE  /\ phase[s] \notin Unregistered
                        /\ \A t \in ShellPid, j \in Indicator :
                             <<t, j>> \in granted' => (s = t <=> i = j)
      BY <1>1 DEF GrantedOnce, ScriptsRest, Unregistered
    <3>1. CASE <<s, i>> \in granted
      <4>1. phase[s] \notin Unregistered /\ s # s0 /\ i # i0
        BY <1>2, <2>1, <3>1 DEF AlignInv, GrantsOK, GrantedOnce
      <4>2. ASSUME NEW t \in ShellPid, NEW j \in Indicator, <<t, j>> \in granted
            PROVE  s = t <=> i = j
        BY <3>1, <4>2 DEF AlignInv, GrantsOK, GrantedOnce
      <4> QED
        BY <1>5, <4>1, <4>2
    <3>2. CASE s = s0 /\ i = i0
      BY <1>2, <1>5, <2>1, <3>2
    <3> QED
      BY <1>5, <3>1, <3>2
  <2>5. RegisteredOnce'
    <3> SUFFICES ASSUME NEW p \in 1 .. Len(ring'), IsRegistration(ring'[p])
                 PROVE  /\ phase[ring'[p].pid] \notin Unregistered
                        /\ \A i \in Indicator : <<ring'[p].pid, i>> \notin granted'
                        /\ \A q \in 1 .. Len(ring') :
                             IsRegistration(ring'[q]) /\ ring'[q].pid = ring'[p].pid => q = p
      BY <1>1 DEF RegisteredOnce, IsRegistration, ScriptsRest, Unregistered
    <3>1. ring'[p] = ring[p + 1] /\ p + 1 \in 1 .. Len(ring) /\ p + 1 # 1
      BY <1>1, <1>2, TailEvents
    <3>2. ring'[p].pid # s0
      BY <2>1, <3>1
    <3>3. /\ phase[ring'[p].pid] \notin Unregistered
          /\ \A i \in Indicator : <<ring'[p].pid, i>> \notin granted
      BY <3>1 DEF AlignInv, GrantsOK, RegisteredOnce
    <3>4. ASSUME NEW q \in 1 .. Len(ring'), IsRegistration(ring'[q]), ring'[q].pid = ring'[p].pid
          PROVE  q = p
      <4>1. ring'[q] = ring[q + 1] /\ q + 1 \in 1 .. Len(ring)
        BY <1>1, <1>2, TailEvents
      <4>2. q + 1 = p + 1
        BY <3>1, <3>4, <4>1 DEF AlignInv, GrantsOK, RegisteredOnce
      <4> QED
        BY <4>2
    <3> QED
      BY <1>5, <3>2, <3>3, <3>4
  <2>6. ASSUME OrderOK PROVE OrderOK'
    <3>1. \A s \in ShellPid, i \in Indicator : <<s, i>> \in granted =>
            /\ Traced(s)' => Traced(s)
            /\ Len(db'.rows[i]) = IF IsPromptOf(Head(ring), s) THEN Len(db.rows[i]) + 1
                                  ELSE Len(db.rows[i])
      BY <1>1, <1>3, <2>1, <2>2 DEF IsPromptOf
    <3>2. /\ \A s \in ShellPid, i \in Indicator : <<s, i>> \in granted => SessionAt(s, i)'
          /\ ArrivalsOK' /\ WritesOK'
      BY <1>1, <1>2, <1>5, <2>6, <3>1, OrderReleased DEF AlignInv
    <3>3. SessionAt(s0, i0)'
      <4>1. ArrivalAt(1)
        BY <1>1, <1>2, <2>6, TailEvents DEF OrderOK, ArrivalsOK
      <4>2. \A j \in 1 .. Len(ring) : ~(ring[j].type = "write" /\ ring[j].indicator = i0)
        BY <1>2, <2>6, IndicatorAssumption DEF OrderOK, WritesOK
      <4>3. Len(db'.rows[i0]) = 1 /\ prompts[s0] \in Nat /\ ring \in Seq(Event)
        BY <1>1, <1>2, PromptsAreNumbers DEF IInv, TypeOK
      <4> QED
        BY <1>1, <1>2, <4>1, <4>2, <4>3, SessionStarted DEF ScriptsRest
    <3>4. SessionsOK'
      BY <1>5, <3>2, <3>3 DEF SessionsOK
    <3>5. OutputOK'
      BY <1>1, <1>2, <1>5, <2>6 DEF OrderOK, OutputOK
    <3> QED
      BY <3>2, <3>4, <3>5 DEF OrderOK
  <2> QED
    BY <1>1, <2>3, <2>4, <2>5, <2>6 DEF AlignInv, GrantsOK
<1> QED
  BY <1>1, <1>4, <1>5

\* Looking a shell up and finishing a row release nothing.
LEMMA AnsweringKeepsAlign ==
  ASSUME IInv, RecordInv, AlignInv, TakeLookup \/ LookUp \/ Snapshot \/ FinishRow \/ Start
  PROVE  AlignInv'
<1> USE DEF RecordInv
<1>1. /\ ring' = ring /\ shells' = shells /\ granted' = granted /\ ScriptsRest /\ lost' = lost
      /\ db' = db \/ FinishRow
  BY DEF TakeLookup, LookUp, Snapshot, FinishRow, Start, Load, ScriptsRest,
     vars, procVars, mapVars, nhidVars, scriptVars, handlerVars, pastVars
<1>2. SUFFICES \A i \in Indicator : SameOutput(i)
  BY <1>1, NothingReleased
<1>3. CASE db' = db
  BY <1>3 DEF SameOutput
<1>4. CASE FinishRow
  <2>1. /\ db' = finish_row(db, nhid.indicator, environ.command)
        /\ environ.command \in Text
    BY <1>4 DEF FinishRow, ScriptOK, Environ, OwnEnviron
  <2>2. PICK i : i = nhid.indicator
    OBVIOUS
  <2>3. /\ SameButLast(db, db', i)
        /\ \A k \in 1 .. Len(db.rows[i]) : i \in Indicator /\ k = Len(db.rows[i]) =>
             db'.rows[i][k].output = db.rows[i][k].output
    BY <2>1, <2>2, FinishRowFacts
  <2> QED
    BY <2>3 DEF SameButLast, SameOutput
<1> QED
  BY <1>1, <1>3, <1>4

LEMMA StartRowKeepsAlign ==
  ASSUME IInv, PromptsBounded, RecordInv, AlignInv, StartRow
  PROVE  AlignInv'
<1>1. /\ nhid.step = "start" /\ ring # <<>> /\ ring' = Tail(ring) /\ ScriptsRest
      /\ granted' = granted /\ shells' = shells /\ lost' = lost
      /\ db' = add_start_time(db, nhid.indicator)
  BY DEF StartRow, Consume, At, ScriptsRest, procVars, nhidVars, scriptVars, pastVars
<1>2. ~IsPrompt(Head(ring))
  BY <1>1 DEF RecordInv, HeadOK, IsPrompt
<1>3. PICK i : i = nhid.indicator
  OBVIOUS
<1>4. /\ SameButLast(db, db', i)
      /\ \A k \in 1 .. Len(db.rows[i]) : i \in Indicator /\ k = Len(db.rows[i]) =>
           db'.rows[i][k].output = db.rows[i][k].output
  BY <1>1, <1>3, AddStartTimeFacts DEF RecordInv
<1>5. \A j \in Indicator : SameOutput(j)
  BY <1>4 DEF SameButLast, SameOutput
<1>6. OrderOK => OutputOK'
  BY <1>1, <1>5 DEF OrderOK, OutputOK, SameOutput
<1> QED
  BY <1>1, <1>2, <1>5, <1>6, EventReleased DEF SameOutput

LEMMA FinishSessionKeepsAlign ==
  ASSUME IInv, PromptsBounded, RecordInv, AlignInv, FinishSession
  PROVE  AlignInv'
<1>1. /\ ring # <<>> /\ ring' = Tail(ring) /\ ScriptsRest /\ Head(ring).type = "exit"
      /\ granted' = granted /\ shells' = shells /\ lost' = lost
      /\ db' \in {meta_add_finish_time(db, Head(ring).indicator), db}
  BY DEF FinishSession, Consume, ScriptsRest, procVars, nhidVars, scriptVars, pastVars
<1>2. ~IsPrompt(Head(ring))
  BY <1>1 DEF IsPrompt
<1>3. db'.rows = db.rows
  BY <1>1, FinishTimeFacts DEF RecordInv
<1>4. OrderOK => OutputOK'
  BY <1>1, <1>3 DEF OrderOK, OutputOK
<1> QED
  BY <1>1, <1>2, <1>3, <1>4, EventReleased

\* The text belongs to the row it is appended to.
LEMMA RecordOutputKeepsAlign ==
  ASSUME IInv, PromptsBounded, RecordInv, AlignInv, RecordOutput
  PROVE  AlignInv'
<1>1. /\ ring # <<>> /\ ring' = Tail(ring) /\ ScriptsRest /\ Head(ring).type = "write"
      /\ granted' = granted /\ shells' = shells /\ lost' = lost
      /\ db' = add_output(db, Head(ring).indicator, Head(ring).data)
  BY DEF RecordOutput, Consume, ScriptsRest, procVars, nhidVars, scriptVars, pastVars
<1>2. ~IsPrompt(Head(ring))
  BY <1>1 DEF IsPrompt
<1>3. PICK i, text : i = Head(ring).indicator /\ text = Head(ring).data
  OBVIOUS
<1>4. text \in Data
  BY <1>1, <1>3, TailEvents DEF Event, KillEvent, ChildEvent, ExitEvent, WriteEvent
<1>5. /\ SameButLast(db, db', i)
      /\ \A k \in 1 .. Len(db.rows[i]) : i \in Indicator /\ k = Len(db.rows[i]) =>
           db'.rows[i][k].output = db.rows[i][k].output \cup {text}
  BY <1>1, <1>3, <1>4, AddOutputFacts DEF RecordInv
<1>6. \A j \in Indicator :
        /\ Len(db'.rows[j]) = Len(db.rows[j])
        /\ \A k \in 1 .. Len(db.rows[j]) :
             \/ db'.rows[j][k].output = db.rows[j][k].output
             \/ /\ j = i /\ k = Len(db.rows[j])
                /\ db'.rows[j][k].output = db.rows[j][k].output \cup {text}
  BY <1>5 DEF SameButLast
<1>7. ASSUME OrderOK PROVE OutputOK'
  <2> SUFFICES ASSUME NEW s \in ShellPid, NEW j \in Indicator, <<s, j>> \in granted,
                      NEW k \in 1 .. Len(db.rows[j]), NEW t \in db'.rows[j][k].output
               PROVE  t[s] \in {0, k}
    BY <1>1, <1>6 DEF OutputOK
  <2>1. CASE t \in db.rows[j][k].output
    BY <1>7, <2>1 DEF OrderOK, OutputOK
  <2>2. CASE j = i /\ k = Len(db.rows[j]) /\ t = text
    <3>1. PICK f \in [1 .. Len(ring) + 1 -> Nat] :
            f[1] = Len(db.rows[j]) /\ Aligned(f, s, j)
      BY <1>7 DEF OrderOK, SessionsOK, SessionAt
    <3>2. 1 \in 1 .. Len(ring) /\ Head(ring) = ring[1]
      BY <1>1, TailEvents
    <3> QED
      BY <1>1, <1>3, <2>2, <3>1, <3>2 DEF Aligned
  <2> QED
    BY <1>6, <2>1, <2>2
<1> QED
  BY <1>1, <1>2, <1>6, <1>7, EventReleased

\* The prompt that is released opens the row of the next command.
LEMMA NextRowKeepsAlign ==
  ASSUME IInv, PromptsBounded, RecordInv, AlignInv, NextRow
  PROVE  AlignInv'
<1>1. /\ nhid.step = "next" /\ ring # <<>> /\ ring' = Tail(ring) /\ ScriptsRest
      /\ granted' = granted /\ shells' = shells
      /\ lost' = (lost \/ nhid.indicator = NoIndicator)
      /\ db' = add_pwd(create_row(db, nhid.indicator), nhid.indicator, environ.pwd)
  BY DEF NextRow, Consume, At, ScriptsRest, procVars, nhidVars, scriptVars
<1>2. PICK i, s0 : i = nhid.indicator /\ s0 = Head(ring).pid
  OBVIOUS
<1>3. GrantsOK'
  BY <1>1, GrantsReleased DEF AlignInv
<1>4. ASSUME ~lost' PROVE OrderOK'
  <2>1. OrderOK /\ i # NoIndicator
    BY <1>1, <1>2, <1>4 DEF AlignInv
  <2>2. IsPrompt(Head(ring)) /\ <<s0, i>> \in granted /\ s0 \in ShellPid /\ i \in Indicator
        /\ i \in db.created
    <3>1. IsPrompt(Head(ring)) /\ <<Wanted, i>> \in granted
      BY <1>1, <1>2, <2>1 DEF RecordInv, HeadOK
    <3>2. Wanted = s0
      BY <1>2, <3>1 DEF Wanted, IsPrompt
    <3>3. granted \subseteq ShellPid \X Indicator
      BY DEF IInv, TypeOK
    <3> QED
      BY <3>1, <3>2, <3>3 DEF RecordInv, TableOK
  <2>3. environ.pwd \in 0 .. MaxCommands \cup {-1}
    BY DEF RecordInv, ScriptOK, Environ, OwnEnviron
  <2>4. /\ \A j \in Indicator : j # i => Len(db'.rows[j]) = Len(db.rows[j])
        /\ Len(db'.rows[i]) = Len(db.rows[i]) + 1
        /\ \A j \in Indicator : \A k \in 1 .. Len(db.rows[j]) :
             db'.rows[j][k].output = db.rows[j][k].output
        /\ db'.rows[i][Len(db.rows[i]) + 1].output = {}
    <3>1. GoodDb(db) /\ db' = add_pwd(create_row(db, i), i, environ.pwd)
      BY <1>1, <1>2 DEF RecordInv
    <3>2. /\ \A j \in Indicator :
               (j = i /\ i \in db.created) \/ Len(db'.rows[j]) = Len(db.rows[j])
          /\ i \in db.created => Len(db'.rows[i]) = Len(db.rows[i]) + 1
          /\ \A j \in Indicator : \A k \in 1 .. Len(db.rows[j]) :
               db'.rows[j][k].output = db.rows[j][k].output
          /\ i \in db.created => db'.rows[i][Len(db.rows[i]) + 1].output = {}
      <4> DEFINE Grows(d, e) ==
                   /\ \A j \in Indicator :
                        (j = i /\ i \in d.created) \/ Len(e.rows[j]) = Len(d.rows[j])
                   /\ i \in d.created => Len(e.rows[i]) = Len(d.rows[i]) + 1
                   /\ \A j \in Indicator : \A k \in 1 .. Len(d.rows[j]) :
                        e.rows[j][k].output = d.rows[j][k].output
                   /\ i \in d.created => e.rows[i][Len(d.rows[i]) + 1].output = {}
      <4>1. \A d, e : \A pwd \in 0 .. MaxCommands \cup {-1} :
              GoodDb(d) /\ e = add_pwd(create_row(d, i), i, pwd) => Grows(d, e)
        BY NextRowFacts
      <4>2. Grows(db, db')
        <5> HIDE DEF Grows
        <5> QED
          BY <2>3, <3>1, <4>1
      <4> QED
        BY <4>2
    <3> QED
      BY <2>2, <3>2
  <2>5. \A s \in ShellPid, j \in Indicator : <<s, j>> \in granted => (s = s0 <=> j = i)
    BY <2>2 DEF AlignInv, GrantsOK, GrantedOnce
  <2>6. \A s \in ShellPid, j \in Indicator : <<s, j>> \in granted =>
          /\ Traced(s)' => Traced(s)
          /\ Len(db'.rows[j]) = IF IsPromptOf(Head(ring), s) THEN Len(db.rows[j]) + 1
                                ELSE Len(db.rows[j])
    BY <1>1, <1>2, <2>2, <2>4, <2>5 DEF IsPromptOf, Traced
  <2>7. /\ \A s \in ShellPid, j \in Indicator : <<s, j>> \in granted => SessionAt(s, j)'
        /\ ArrivalsOK' /\ WritesOK'
    BY <1>1, <2>1, <2>6, OrderReleased DEF AlignInv
  <2>8. OutputOK'
    <3> SUFFICES ASSUME NEW s \in ShellPid, NEW j \in Indicator, <<s, j>> \in granted,
                        NEW k \in 1 .. Len(db'.rows[j]), NEW t \in db'.rows[j][k].output
                 PROVE  t[s] \in {0, k}
      BY <1>1 DEF OutputOK
    <3>1. CASE k \in 1 .. Len(db.rows[j])
      <4>1. t \in db.rows[j][k].output
        BY <2>4, <3>1
      <4> QED
        BY <2>1, <3>1, <4>1 DEF OrderOK, OutputOK
    <3>2. CASE k \notin 1 .. Len(db.rows[j])
      <4>1. Len(db.rows[j]) \in Nat
        BY DEF RecordInv, GoodDb
      <4>2. j = i
        BY <2>4, <3>2
      <4>3. k = Len(db.rows[i]) + 1
        BY <2>4, <3>2, <4>1, <4>2
      <4> QED
        BY <2>4, <4>2, <4>3
    <3> QED
      BY <3>1, <3>2
  <2> QED
    BY <1>1, <2>7, <2>8 DEF OrderOK, SessionsOK
<1> QED
  BY <1>3, <1>4 DEF AlignInv

LEMMA GoingAwayKeepsAlign ==
  ASSUME IInv, PromptsBounded, RecordInv, AlignInv, Stop \/ Fault
  PROVE  AlignInv'
<1>1. /\ ring' = <<>> /\ shells' = NoShells /\ granted' = granted /\ ScriptsRest
      /\ lost' = lost /\ db' = db
  BY DEF Stop, Fault, GoAway, Unload, ScriptsRest, procVars, scriptVars
<1>2. Len(ring') = 0
  BY <1>1
<1>3. GrantsOK'
  <2>1. PhasesOK' /\ GrantedOnce'
    BY <1>1, GrantsFrame DEF AlignInv
  <2>2. RegisteredOnce'
    BY <1>2 DEF RegisteredOnce
  <2> QED
    BY <2>1, <2>2 DEF GrantsOK
<1>4. ASSUME OrderOK PROVE OrderOK'
  <2>1. \A s \in ShellPid, i \in Indicator : <<s, i>> \in granted => SessionAt(s, i)'
    <3> SUFFICES ASSUME NEW s \in ShellPid, NEW i \in Indicator, <<s, i>> \in granted
                 PROVE  SessionAt(s, i)'
      OBVIOUS
    <3>1. ring \in Seq(Event) /\ prompts[s] \in Nat /\ SessionAt(s, i)
      BY <1>4, PromptsAreNumbers DEF OrderOK, SessionsOK, IInv, TypeOK
    <3> QED
      BY <1>1, <3>1, SessionAbandoned DEF ScriptsRest
  <2>2. ArrivalsOK' /\ WritesOK'
    BY <1>2 DEF ArrivalsOK, WritesOK
  <2>3. OutputOK'
    BY <1>1, <1>4 DEF OrderOK, OutputOK
  <2> QED
    BY <1>1, <2>1, <2>2, <2>3 DEF OrderOK, SessionsOK
<1> QED
  BY <1>1, <1>3, <1>4 DEF AlignInv

LEMMA InitAlignInv == NhiInit => AlignInv
<1> SUFFICES ASSUME NhiInit PROVE AlignInv
  OBVIOUS
<1>1. /\ ring = <<>> /\ granted = {} /\ born = {Root}
      /\ \A s \in ShellPid : phase[s] = "unborn" /\ prompts[s] = 0
  BY DEF NhiInit, Init
<1>2. Len(ring) = 0
  BY <1>1
<1>3. GrantsOK
  BY <1>1, <1>2, PidAssumption DEF GrantsOK, PhasesOK, GrantedOnce, RegisteredOnce, Unregistered
<1>4. OrderOK
  BY <1>1, <1>2 DEF OrderOK, SessionsOK, ArrivalsOK, WritesOK, OutputOK
<1> QED
  BY <1>3, <1>4 DEF AlignInv

LEMMA NextKeepsAlign ==
  ASSUME IInv, IInv', PromptsBounded, PromptsBounded', RecordInv, AlignInv, [NhiNext]_nhiVars
  PROVE  AlignInv'
<1>1. CASE ShellStep
  BY <1>1, ShellStepKeepsAlign
<1>2. CASE SIGUSRStep
  BY <1>2, RegisteringKeepsAlign, GiveUpKeepsAlign, UpdateShellsKeepsAlign DEF SIGUSRStep
<1>3. CASE HandlerStep /\ ~SIGUSRStep
  BY <1>3, AnsweringKeepsAlign, NextRowKeepsAlign, StartRowKeepsAlign, FinishSessionKeepsAlign,
     RecordOutputKeepsAlign
  DEF HandlerStep
<1>4. CASE Stop \/ Fault
  BY <1>4, GoingAwayKeepsAlign
<1>5. CASE Start
  BY <1>5, AnsweringKeepsAlign
<1>6. CASE UNCHANGED nhiVars
  <2>1. /\ ring' = ring /\ shells' = shells /\ granted' = granted /\ ScriptsRest /\ lost' = lost
        /\ db' = db
    BY <1>6 DEF nhiVars, vars, procVars, mapVars, nhidVars, scriptVars, handlerVars, pastVars,
       ScriptsRest
  <2> QED
    BY <2>1, NothingReleased DEF SameOutput
<1> QED
  BY <1>1, <1>2, <1>3, <1>4, <1>5, <1>6 DEF NhiNext, HandlerStep

LEMMA AlignInvAlways == NhiSpec => []AlignInv
<1>1. /\ IInv /\ PromptsBounded /\ RecordInv /\ AlignInv
      /\ (IInv /\ PromptsBounded /\ RecordInv)' /\ [NhiNext]_nhiVars
      => AlignInv'
  BY NextKeepsAlign
<1> QED
  BY <1>1, InitAlignInv, RecordInvAlways, PTL DEF NhiSpec

\* What a process writes is recorded with the command its shell was at, whatever
\* else is at work, as long as no event is lost and no prompt goes unrecorded.
THEOREM OutputGoesToItsCommand == NhiSpec => []OutputUnderItsCommand
<1>1. RecordInv /\ AlignInv => OutputUnderItsCommand
  <2> SUFFICES ASSUME RecordInv, OutputOK,
                      NEW s \in ShellPid, NEW row \in Rows(s),
                      NEW text \in db.rows[row[1]][row[2]].output
               PROVE  text[s] \in {0, row[2]}
    BY DEF AlignInv, OrderOK, OutputUnderItsCommand
  <2>1. row[1] \in Indicator /\ <<s, row[1]>> \in granted /\ row[2] \in DOMAIN db.rows[row[1]]
    BY DEF Rows
  <2>2. db.rows[row[1]] \in Seq(Row)
    BY <2>1 DEF RecordInv, GoodDb
  <2>3. row[2] \in 1 .. Len(db.rows[row[1]])
    BY <2>1, <2>2
  <2> QED
    BY <2>1, <2>3 DEF OutputOK
<1> QED
  BY <1>1, RecordInvAlways, AlignInvAlways, PTL

----------------------------------------------------------------------------
\* The inductive invariant, third part: how old the commands are.

\* A shell that is about to prompt has exported the command it has finished, and
\* no shell names a command of its own it has prompted for before the last.
ExportedOK ==
  \A s \in ShellPid :
    /\ phase[s] = "prompter" => exported[s].command.n = prompts[s] + 1
    /\ exported[s].command # NoText =>
         /\ phase[exported[s].command.shell] # "unborn"
         /\ exported[s].command.shell = s => exported[s].command.n >= prompts[s]

\* A command that may be row k of session i.
MayBe(text, i, k) ==
  \E s \in ShellPid : <<s, i>> \in granted /\ (text.shell = s => text.n >= k)

\* nhid has a copy of a shell's variables only on the way through a handler, and
\* the copy it finishes a row from is as young as the row.
Copied == {"ps", "fill", "finish", "next"}

SnapshotOK ==
  /\ nhid.step \notin Copied => environ = OwnEnviron
  /\ nhid.step = "finish" /\ nhid.indicator # NoIndicator /\ environ.command # NoText =>
       MayBe(environ.command, nhid.indicator, Len(db.rows[nhid.indicator]))

CommandsOK ==
  \A i \in Indicator : \A k \in 1 .. Len(db.rows[i]) :
    db.rows[i][k].command # NoText => MayBe(db.rows[i][k].command, i, k)

AgeOK == SnapshotOK /\ CommandsOK

CommandInv == ExportedOK /\ (lost \/ stale \/ AgeOK)

----------------------------------------------------------------------------
(* The third part is inductive. *)

\* The programs of the shells: a nested shell inherits a command of an older
\* one, and a prompt follows the export of the command it is for.
LEMMA ShellStepKeepsExported ==
  ASSUME PromptsBounded, ScriptOK, PhasesOK, ExportedOK, ShellStep
  PROVE  ExportedOK'
<1>0. \A s \in ShellPid : prompts[s] \in Nat
  BY PromptsAreNumbers
<1>1. ASSUME NEW t \in Pid, NEW c \in Pid, Fork(t, c) PROVE ExportedOK'
  <2>1. /\ c \notin born /\ prompts' = prompts
        /\ phase' = IF c \in ShellPid THEN [phase EXCEPT ![c] = "source"] ELSE phase
        /\ exported' = IF {t, c} \subseteq ShellPid
                       THEN [exported EXCEPT ![c] = exported[t]] ELSE exported
    BY <1>1 DEF Fork, Clone
  <2>2. \A s \in ShellPid : exported[s].command # NoText => exported[s].command.shell \in ShellPid
    BY DEF ScriptOK, Environ, Text
  <2>3. c \in ShellPid => phase[c] = "unborn"
    BY <2>1 DEF PhasesOK
  <2>4. \A s \in ShellPid : /\ s # c => phase'[s] = phase[s]
                            /\ s = c => phase'[s] = "source"
    BY <2>1 DEF PromptsBounded
  <2>5. \A s \in ShellPid : \/ exported'[s] = exported[s]
                            \/ s = c /\ t \in ShellPid /\ exported'[s] = exported[t]
    BY <2>1 DEF ScriptOK
  <2> SUFFICES ASSUME NEW s \in ShellPid
               PROVE  /\ phase'[s] = "prompter" =>
                           exported'[s].command.n = prompts[s] + 1
                      /\ exported'[s].command # NoText =>
                           /\ phase'[exported'[s].command.shell] # "unborn"
                           /\ exported'[s].command.shell = s => exported'[s].command.n >= prompts[s]
    BY <2>1 DEF ExportedOK
  <2>6. CASE exported'[s] = exported[s]
    BY <2>2, <2>3, <2>4, <2>6 DEF ExportedOK
  <2>7. CASE s = c /\ t \in ShellPid /\ exported'[s] = exported[t]
    BY <2>2, <2>3, <2>4, <2>7 DEF ExportedOK
  <2> QED
    BY <2>5, <2>6, <2>7
<1>2. ASSUME NEW s \in ShellPid, Source(s) \/ StartCommand(s) PROVE ExportedOK'
  <2>1. exported' = exported /\ prompts' = prompts
    BY <1>2 DEF Source, StartCommand
  <2>2. \A u \in ShellPid : /\ phase'[u] = "prompter" => phase[u] = "prompter"
                            /\ phase[u] # "unborn" => phase'[u] # "unborn"
    BY <1>2 DEF Source, StartCommand, PromptsBounded
  <2>3. \A u \in ShellPid : exported[u].command # NoText => exported[u].command.shell \in ShellPid
    BY DEF ScriptOK, Environ, Text
  <2> QED
    BY <2>1, <2>2, <2>3 DEF ExportedOK
<1>3. ASSUME NEW s \in ShellPid, Export(s) PROVE ExportedOK'
  <2>1. /\ phase' = [phase EXCEPT ![s] = "prompter"] /\ prompts' = prompts
        /\ exported'[s].command.shell = s /\ exported'[s].command.n = prompts[s] + 1
        /\ \A u \in ShellPid : u # s => exported'[u] = exported[u]
    BY <1>3 DEF Export, ScriptOK
  <2>2. \A u \in ShellPid : /\ u # s => phase'[u] = phase[u]
                            /\ phase[u] # "unborn" => phase'[u] # "unborn"
                            /\ phase'[s] # "unborn"
    BY <2>1 DEF PromptsBounded
  <2>3. \A u \in ShellPid : exported[u].command # NoText => exported[u].command.shell \in ShellPid
    BY DEF ScriptOK, Environ, Text
  <2> QED
    BY <1>0, <2>1, <2>2, <2>3 DEF ExportedOK
<1>4. ASSUME NEW s \in ShellPid, Prompt(s) PROVE ExportedOK'
  <2>1. /\ phase[s] = "prompter" /\ phase'[s] = "prompt" /\ prompts'[s] = prompts[s] + 1
        /\ \A u \in ShellPid : u # s => phase'[u] = phase[u] /\ prompts'[u] = prompts[u]
        /\ exported' = exported
    BY <1>4 DEF Prompt, PromptsBounded
  <2>2. \A u \in ShellPid : exported[u].command # NoText => exported[u].command.shell \in ShellPid
    BY DEF ScriptOK, Environ, Text
  <2> QED
    BY <1>0, <2>1, <2>2 DEF ExportedOK
<1>5. ASSUME NEW t \in Pid, Die(t) \/ Write(t) PROVE ExportedOK'
  BY <1>5 DEF Die, Write, scriptVars, ExportedOK
<1> QED
  BY <1>1, <1>2, <1>3, <1>4, <1>5 DEF ShellStep

\* nhid leaves the shells alone.
LEMMA OtherStepsKeepExported ==
  ASSUME ExportedOK, [NhiNext]_nhiVars, ~ShellStep
  PROVE  ExportedOK'
<1>1. UNCHANGED scriptVars
  <2>1. CASE SIGUSRStep
    BY <2>1 DEF SIGUSRStep, TakeRegistration, AddMarker, CreateTable, CreateRow, MetaCreateRow,
       Statement, ScanShells, FindEnviron, ReadEnviron, AskPs, GiveUp, FillFirstRow, UpdateShells
  <2>2. CASE HandlerStep /\ ~SIGUSRStep
    BY <2>2 DEF HandlerStep, TakeLookup, LookUp, Snapshot, FinishRow, NextRow, StartRow,
       FinishSession, RecordOutput
  <2>3. CASE Stop \/ Fault \/ Start \/ UNCHANGED nhiVars
    BY <2>3 DEF Stop, Fault, Start, GoAway, nhiVars
  <2> QED
    BY <2>1, <2>2, <2>3 DEF NhiNext, HandlerStep
<1> QED
  BY <1>1 DEF scriptVars, ExportedOK

LEMMA StalenessIsRemembered == [NhiNext]_nhiVars /\ (lost \/ stale) => (lost \/ stale)'
<1> SUFFICES ASSUME [NhiNext]_nhiVars, lost \/ stale PROVE lost' \/ stale'
  OBVIOUS
<1>1. ASSUME stale PROVE stale'
  <2>1. CASE ShellStep
    BY <1>1, <2>1 DEF ShellStep, Fork, Source, StartCommand, Export, Prompt, Die, Write, pastVars
  <2>2. CASE SIGUSRStep
    BY <1>1, <2>2
    DEF SIGUSRStep, TakeRegistration, AddMarker, CreateTable, CreateRow, MetaCreateRow,
        Statement, ScanShells, FindEnviron, ReadEnviron, AskPs, GiveUp, FillFirstRow,
        UpdateShells, pastVars
  <2>3. CASE HandlerStep /\ ~SIGUSRStep
    BY <1>1, <2>3 DEF HandlerStep, TakeLookup, LookUp, Snapshot, FinishRow, NextRow, StartRow,
       FinishSession, RecordOutput, pastVars
  <2>4. CASE Stop \/ Fault \/ Start \/ UNCHANGED nhiVars
    BY <1>1, <2>4 DEF Stop, Fault, Start, GoAway, pastVars, nhiVars
  <2> QED
    BY <2>1, <2>2, <2>3, <2>4 DEF NhiNext, HandlerStep
<1>2. ASSUME lost PROVE lost'
  <2>1. CASE NhiNext
    BY <1>2, <2>1, LossIsRemembered
  <2>2. CASE UNCHANGED nhiVars
    BY <1>2, <2>2 DEF nhiVars, pastVars
  <2> QED
    BY <2>1, <2>2
<1> QED
  BY <1>1, <1>2

\* No statement but those that finish a row puts a command into one.
NoNewCommands ==
  \A i \in Indicator : \A k \in 1 .. Len(db'.rows[i]) :
    db'.rows[i][k].command # NoText =>
      k \in 1 .. Len(db.rows[i]) /\ db'.rows[i][k].command = db.rows[i][k].command

LEMMA CommandsKept ==
  ASSUME CommandsOK, NoNewCommands, granted \subseteq granted'
  PROVE  CommandsOK'
BY DEF CommandsOK, NoNewCommands, MayBe

LEMMA CommandOfLastKept ==
  ASSUME NEW i, SameButLast(db, db', i),
         \A k \in 1 .. Len(db.rows[i]) : i \in Indicator /\ k = Len(db.rows[i]) =>
           db'.rows[i][k].command = db.rows[i][k].command
  PROVE  NoNewCommands
BY DEF SameButLast, NoNewCommands

LEMMA StatementsAddNoCommand ==
  ASSUME IInv, RecordInv,
         \/ db' = db
         \/ AddMarker \/ CreateTable \/ CreateRow \/ MetaCreateRow \/ FillFirstRow
         \/ NextRow \/ StartRow \/ FinishSession \/ RecordOutput
  PROVE  NoNewCommands
<1> USE DEF RecordInv
<1>0. GoodDb(db)
  OBVIOUS
<1>1. ASSUME db'.rows = db.rows PROVE NoNewCommands
  BY <1>1 DEF NoNewCommands
<1>2. CASE db' = db
  BY <1>1, <1>2
<1>3. PICK r : r = reg.indicator
  OBVIOUS
<1>4. AddMarker \/ CreateTable \/ CreateRow \/ MetaCreateRow \/ FillFirstRow => r \in Indicator
  BY <1>3 DEF AddMarker, CreateTable, CreateRow, MetaCreateRow, FillFirstRow, Statement, At, PhaseOK,
     IInv, RegistrationOK
<1>5. CASE AddMarker
  <2>1. CASE Head(ring).parent # NoIndicator
    <3>1. PICK i : i = Head(ring).parent
      OBVIOUS
    <3>2. /\ SameButLast(db, db', i)
          /\ \A k \in 1 .. Len(db.rows[i]) : i \in Indicator /\ k = Len(db.rows[i]) =>
               db'.rows[i][k].command = db.rows[i][k].command
      BY <1>3, <1>4, <1>5, <2>1, <3>1, AddMarkerFacts DEF AddMarker, Statement
    <3> QED
      BY <3>2, CommandOfLastKept
  <2>2. CASE Head(ring).parent = NoIndicator
    BY <1>2, <1>5, <2>2 DEF AddMarker, Statement
  <2> QED
    BY <2>1, <2>2
<1>6. CASE CreateTable
  <2>1. db'.rows = db.rows
    BY <1>3, <1>4, <1>6, CreateTableFacts DEF CreateTable, Statement
  <2> QED
    BY <1>1, <2>1
<1>7. CASE MetaCreateRow
  <2>1. r \in db.created
    BY <1>3, <1>7 DEF MetaCreateRow, Statement, At, TableOK, Filled
  <2>2. db'.rows = db.rows
    BY <1>3, <1>7, <2>1, MetaCreateRowFacts DEF MetaCreateRow, Statement
  <2> QED
    BY <1>1, <2>2
<1>8. CASE CreateRow
  <2>1. \A j \in Indicator :
          /\ Len(db'.rows[j]) \in {Len(db.rows[j]), Len(db.rows[j]) + 1}
          /\ \A k \in 1 .. Len(db'.rows[j]) :
               db'.rows[j][k] = IF k = Len(db.rows[j]) + 1 THEN NewRow ELSE db.rows[j][k]
    BY <1>3, <1>8, CreateRowFacts DEF CreateRow, Statement
  <2>2. NewRow.command = NoText /\ \A j \in Indicator : Len(db.rows[j]) \in Nat
    BY DEF NewRow, GoodDb
  <2>3. ASSUME NEW j \in Indicator, NEW k \in 1 .. Len(db'.rows[j])
        PROVE  k \in 1 .. Len(db.rows[j]) \/ k = Len(db.rows[j]) + 1
    BY <2>1, <2>2
  <2> QED
    BY <2>1, <2>2, <2>3 DEF NoNewCommands
<1>9. environ.pwd \in 0 .. MaxCommands \cup {-1}
  BY DEF ScriptOK, Environ, OwnEnviron
<1>10. CASE FillFirstRow
  <2>1. /\ SameButLast(db, db', r)
        /\ \A k \in 1 .. Len(db.rows[r]) : r \in Indicator /\ k = Len(db.rows[r]) =>
             db'.rows[r][k].command = db.rows[r][k].command
    BY <1>3, <1>9, <1>10, AddPwdFacts DEF FillFirstRow
  <2> QED
    BY <2>1, CommandOfLastKept
<1>11. PICK i : i = nhid.indicator
  OBVIOUS
<1>12. CASE NextRow
  <2>1. db' = add_pwd(create_row(db, i), i, environ.pwd)
    BY <1>11, <1>12 DEF NextRow
  <2>2. /\ \A j \in Indicator : (j = i /\ i \in db.created) \/ Len(db'.rows[j]) = Len(db.rows[j])
        /\ i \in db.created => Len(db'.rows[i]) = Len(db.rows[i]) + 1
        /\ \A j \in Indicator : \A k \in 1 .. Len(db.rows[j]) :
             db'.rows[j][k].command = db.rows[j][k].command
        /\ i \in db.created => db'.rows[i][Len(db.rows[i]) + 1].command = NoText
    <3>1. \A d, e : \A pwd \in 0 .. MaxCommands \cup {-1} :
            GoodDb(d) /\ e = add_pwd(create_row(d, i), i, pwd) =>
              /\ \A j \in Indicator :
                   (j = i /\ i \in d.created) \/ Len(e.rows[j]) = Len(d.rows[j])
              /\ i \in d.created => Len(e.rows[i]) = Len(d.rows[i]) + 1
              /\ \A j \in Indicator : \A k \in 1 .. Len(d.rows[j]) :
                   e.rows[j][k].command = d.rows[j][k].command
              /\ i \in d.created => e.rows[i][Len(d.rows[i]) + 1].command = NoText
      BY NextRowFacts
    <3>2. \A e : e = add_pwd(create_row(db, i), i, environ.pwd) =>
            /\ \A j \in Indicator :
                 (j = i /\ i \in db.created) \/ Len(e.rows[j]) = Len(db.rows[j])
            /\ i \in db.created => Len(e.rows[i]) = Len(db.rows[i]) + 1
            /\ \A j \in Indicator : \A k \in 1 .. Len(db.rows[j]) :
                 e.rows[j][k].command = db.rows[j][k].command
            /\ i \in db.created => e.rows[i][Len(db.rows[i]) + 1].command = NoText
      BY <1>0, <1>9, <3>1
    <3> QED
      BY <2>1, <3>2
  <2>3. \A j \in Indicator : Len(db.rows[j]) \in Nat
    BY DEF GoodDb
  <2>4. ASSUME NEW j \in Indicator, NEW k \in 1 .. Len(db'.rows[j])
        PROVE  \/ k \in 1 .. Len(db.rows[j])
               \/ j = i /\ i \in db.created /\ k = Len(db.rows[i]) + 1
    BY <2>2, <2>3
  <2> QED
    BY <2>2, <2>4 DEF NoNewCommands
<1>13. CASE StartRow
  <2>1. /\ SameButLast(db, db', i)
        /\ \A k \in 1 .. Len(db.rows[i]) : i \in Indicator /\ k = Len(db.rows[i]) =>
             db'.rows[i][k].command = db.rows[i][k].command
    BY <1>11, <1>13, AddStartTimeFacts DEF StartRow
  <2> QED
    BY <2>1, CommandOfLastKept
<1>14. CASE FinishSession
  <2>1. db'.rows = db.rows
    BY <1>14, FinishTimeFacts DEF FinishSession
  <2> QED
    BY <1>1, <2>1
<1>15. CASE RecordOutput
  <2>1. PICK o, text : o = Head(ring).indicator /\ text = Head(ring).data
    OBVIOUS
  <2>2. text \in Data
    BY <1>15, <2>1, TailEvents DEF RecordOutput, Consume, Event, KillEvent, ChildEvent, ExitEvent,
       WriteEvent
  <2>3. /\ SameButLast(db, db', o)
        /\ \A k \in 1 .. Len(db.rows[o]) : o \in Indicator /\ k = Len(db.rows[o]) =>
             db'.rows[o][k].command = db.rows[o][k].command
    BY <1>15, <2>1, <2>2, AddOutputFacts DEF RecordOutput
  <2> QED
    BY <2>3, CommandOfLastKept
<1> QED
  BY <1>2, <1>5, <1>6, <1>7, <1>8, <1>10, <1>12, <1>13, <1>14, <1>15

\* The prompt that is handled has been sent after its command was exported, and
\* the rows of the table are no more than the prompts: the copy is young enough.
LEMMA CopyIsYoung ==
  ASSUME IInv, PromptsBounded, RecordInv, AlignInv, ~lost, ExportedOK,
         nhid.step = "snapshot", nhid.indicator # NoIndicator,
         exported[Wanted].command # NoText
  PROVE  MayBe(exported[Wanted].command, nhid.indicator, Len(db.rows[nhid.indicator]))
<1>1. PICK s, i : s = Wanted /\ i = nhid.indicator
  OBVIOUS
<1>2. ring # <<>> /\ IsPrompt(Head(ring)) /\ <<s, i>> \in granted
  BY <1>1 DEF RecordInv, HeadOK
<1>3. s \in ShellPid /\ i \in Indicator
  BY <1>1, <1>2, WantedIsShell DEF IInv, TypeOK
<1>4. PICK f \in [1 .. Len(ring) + 1 -> Nat] :
        /\ Numbers(ring, f, s, 1)
        /\ f[1] = Len(db.rows[i])
        /\ f[Len(ring) + 1] <= prompts[s] + 1
  BY <1>2, <1>3 DEF AlignInv, OrderOK, SessionsOK, SessionAt
<1>0. Head(ring) = ring[1] /\ Len(ring) \in Nat \ {0}
  BY <1>2 DEF IInv, TypeOK
<1>5. IsPromptOf(ring[1], s) /\ 1 \in 1 .. Len(ring)
  BY <1>0, <1>1, <1>2 DEF IsPromptOf, IsPrompt, Wanted
<1>6. f[2] = f[1] + 1 /\ f[2] <= f[Len(ring) + 1]
  <2>1. f[2] = f[1] + 1
    BY <1>4, <1>5 DEF Numbers
  <2>2. CASE Len(ring) = 1
    <3>1. Len(ring) + 1 = 2 /\ f[2] \in Nat
      BY <1>4, <2>2
    <3> QED
      BY <2>1, <3>1
  <2>3. CASE Len(ring) # 1
    <3>1. \A n \in Nat \ {0} : n # 1 => 2 \in 1 .. n
      OBVIOUS
    <3>2. 2 \in 1 .. Len(ring)
      BY <1>0, <2>3, <3>1
    <3> QED
      BY <1>4, <2>1, <3>2 DEF Numbers
  <2> QED
    BY <2>1, <2>2, <2>3
<1>7. Len(db.rows[i]) <= prompts[s]
  <2>1. f[1] \in Nat /\ f[Len(ring) + 1] \in Nat /\ prompts[s] \in Nat
    BY <1>0, <1>3, <1>4, PromptsAreNumbers
  <2> QED
    BY <1>4, <1>6, <2>1
<1>8. exported[s].command.shell = s => exported[s].command.n \in Nat /\ exported[s].command.n >= prompts[s]
  BY <1>1, <1>3, BoundAssumption DEF ExportedOK, RecordInv, ScriptOK, Environ, Text
<1>9. Len(db.rows[i]) \in Nat /\ prompts[s] \in Nat
  BY <1>3, PromptsAreNumbers DEF RecordInv, GoodDb
<1>10. exported[s].command.shell = s => exported[s].command.n >= Len(db.rows[i])
  BY <1>7, <1>8, <1>9
<1> QED
  BY <1>1, <1>2, <1>3, <1>10 DEF MayBe

LEMMA ShellStepKeepsAge ==
  ASSUME IInv, PromptsBounded, ScriptOK, AgeOK, ShellStep
  PROVE  AgeOK'
<1>1. Kept
  BY ShellStepEffects
<1> QED
  BY <1>1 DEF Kept, AgeOK, SnapshotOK, CommandsOK, MayBe

\* A registration puts its copy back, or is the reason `stale` is for.
LEMMA RegisteringKeepsAge ==
  ASSUME IInv, RecordInv, AgeOK, SIGUSRStep, ~stale'
  PROVE  AgeOK'
<1>1. nhid \in [step : Steps, slot : 0 .. MaxShells, indicator : Indicator \cup {NoIndicator}]
  BY DEF RecordInv, ScriptOK
<1>2. nhid'.step # "finish" /\ (nhid'.step \notin Copied => environ' = OwnEnviron)
  <2> USE <1>1 DEF At, Goto, AgeOK, SnapshotOK, Copied
  <2>1. CASE TakeRegistration
    BY <2>1 DEF TakeRegistration
  <2>2. CASE AddMarker \/ CreateTable \/ CreateRow \/ MetaCreateRow
    BY <2>2 DEF AddMarker, CreateTable, CreateRow, MetaCreateRow, Statement
  <2>3. CASE ScanShells \/ FindEnviron \/ UpdateShells
    BY <2>3 DEF ScanShells, FindEnviron, UpdateShells
  <2>4. CASE ReadEnviron \/ AskPs
    BY <2>4 DEF ReadEnviron, AskPs
  <2>5. CASE GiveUp
    BY <2>5 DEF GiveUp
  <2>6. CASE FillFirstRow
    BY <2>6 DEF FillFirstRow
  <2> QED
    BY <2>1, <2>2, <2>3, <2>4, <2>5, <2>6 DEF SIGUSRStep
<1>3. granted \subseteq granted'
  BY DEF SIGUSRStep, TakeRegistration, AddMarker, CreateTable, CreateRow, MetaCreateRow, Statement,
     ScanShells, FindEnviron, ReadEnviron, AskPs, GiveUp, FillFirstRow, UpdateShells,
     StartRegistration, ScanSlot, InspectShell, RegistrationFails, Register, vars, nhidVars
<1>4. NoNewCommands
  <2>1. \/ db' = db
        \/ AddMarker \/ CreateTable \/ CreateRow \/ MetaCreateRow \/ FillFirstRow
    BY DEF SIGUSRStep, TakeRegistration, ScanShells, FindEnviron, ReadEnviron, AskPs, GiveUp,
       UpdateShells
  <2> QED
    BY <2>1, StatementsAddNoCommand
<1> QED
  BY <1>2, <1>3, <1>4, CommandsKept DEF AgeOK, SnapshotOK

LEMMA SnapshotKeepsAge ==
  ASSUME IInv, PromptsBounded, RecordInv, AlignInv, ~lost, ExportedOK, AgeOK, Snapshot
  PROVE  AgeOK'
<1>1. /\ nhid.step = "snapshot" /\ nhid' = [nhid EXCEPT !.step = "finish"]
      /\ db' = db /\ granted' = granted
      /\ IF nhid.indicator = NoIndicator THEN environ' = environ
         ELSE environ' \in {environ, exported[Wanted]}
  BY DEF Snapshot, CopyEnviron, Goto, At, vars, nhidVars
<1>2. nhid'.step = "finish" /\ nhid'.indicator = nhid.indicator
  BY <1>1 DEF RecordInv, ScriptOK
<1>3. environ.command = NoText
  BY <1>1 DEF AgeOK, SnapshotOK, Copied, OwnEnviron
<1>4. SnapshotOK'
  <2> SUFFICES ASSUME nhid.indicator # NoIndicator, environ'.command # NoText
               PROVE  MayBe(environ.command, nhid.indicator, Len(db.rows[nhid.indicator]))'
    BY <1>2 DEF SnapshotOK, Copied
  <2>1. environ' = exported[Wanted]
    BY <1>1, <1>3
  <2>2. MayBe(exported[Wanted].command, nhid.indicator, Len(db.rows[nhid.indicator]))
    BY <1>1, <2>1, CopyIsYoung
  <2> QED
    BY <1>1, <1>2, <2>1, <2>2 DEF MayBe
<1>5. CommandsOK'
  BY <1>1 DEF AgeOK, CommandsOK, MayBe
<1> QED
  BY <1>4, <1>5 DEF AgeOK

LEMMA FinishRowKeepsAge ==
  ASSUME RecordInv, AgeOK, FinishRow
  PROVE  AgeOK'
<1>1. /\ nhid.step = "finish" /\ nhid' = [nhid EXCEPT !.step = "next"]
      /\ environ.command # NoText /\ granted' = granted
      /\ db' = finish_row(db, nhid.indicator, environ.command)
  BY DEF FinishRow, Goto, At, vars, nhidVars
<1>2. PICK i, text : i = nhid.indicator /\ text = environ.command
  OBVIOUS
<1>3. text \in Text
  BY <1>1, <1>2 DEF RecordInv, ScriptOK, Environ, OwnEnviron
<1>4. /\ SameButLast(db, db', i)
      /\ \A k \in 1 .. Len(db.rows[i]) : i \in Indicator /\ k = Len(db.rows[i]) =>
           db'.rows[i][k].command = text
  BY <1>1, <1>2, <1>3, FinishRowFacts DEF RecordInv
<1>5. SnapshotOK'
  <2>1. nhid'.step = "next"
    BY <1>1 DEF RecordInv, ScriptOK
  <2> QED
    BY <2>1 DEF SnapshotOK, Copied
<1>6. i \in Indicator => MayBe(text, i, Len(db.rows[i]))
  BY <1>1, <1>2, IndicatorAssumption DEF AgeOK, SnapshotOK
<1>7. CommandsOK'
  <2> SUFFICES ASSUME NEW j \in Indicator, NEW k \in 1 .. Len(db'.rows[j]),
                      db'.rows[j][k].command # NoText
               PROVE  MayBe(db'.rows[j][k].command, j, k)
    BY <1>1 DEF CommandsOK, MayBe
  <2>1. k \in 1 .. Len(db.rows[j])
    BY <1>4 DEF SameButLast
  <2>2. CASE j = i /\ k = Len(db.rows[j])
    BY <1>4, <1>6, <2>1, <2>2
  <2>3. CASE ~ (j = i /\ k = Len(db.rows[j]))
    BY <1>4, <2>1, <2>3 DEF SameButLast, AgeOK, CommandsOK
  <2> QED
    BY <2>2, <2>3
<1> QED
  BY <1>5, <1>7 DEF AgeOK

\* Looking a shell up leaves nhid with its own environment; the end of a handler
\* and of nhid itself puts it back.
LEMMA OtherStepsKeepAge ==
  ASSUME IInv, RecordInv, AgeOK,
         \/ TakeLookup \/ LookUp \/ NextRow \/ StartRow \/ FinishSession \/ RecordOutput
         \/ Stop \/ Fault \/ Start \/ UNCHANGED nhiVars
  PROVE  AgeOK'
<1>0. UNCHANGED nhiVars => AgeOK'
  BY DEF nhiVars, handlerVars, vars, nhidVars, AgeOK, SnapshotOK, CommandsOK, MayBe
<1> SUFFICES ASSUME ~UNCHANGED nhiVars PROVE AgeOK'
  BY <1>0
<1>1. nhid \in [step : Steps, slot : 0 .. MaxShells, indicator : Indicator \cup {NoIndicator}]
  BY DEF RecordInv, ScriptOK
<1>2. SnapshotOK'
  <2>1. CASE TakeLookup \/ LookUp
    <3>1. environ' = OwnEnviron
      BY <2>1 DEF TakeLookup, LookUp, At, AgeOK, SnapshotOK, Copied
    <3>2. nhid'.step \in {"find", "snapshot", "start"}
      <4>1. CASE TakeLookup
        BY <4>1 DEF TakeLookup
      <4>2. CASE LookUp
        <5>1. AfterLookup \in {"snapshot", "start"} /\ nhid.step = "find"
          BY <4>2 DEF LookUp, At, AfterLookup
        <5>2. nhid'.step \in {AfterLookup, nhid.step}
          BY <1>1, <4>2 DEF LookUp
        <5> QED
          BY <5>1, <5>2
      <4> QED
        BY <2>1, <4>1, <4>2
    <3> QED
      BY <3>1, <3>2 DEF SnapshotOK
  <2>2. CASE NextRow \/ Stop \/ Fault
    BY <2>2 DEF NextRow, Stop, Fault, GoAway, NoHandler, SnapshotOK
  <2>3. CASE StartRow \/ FinishSession \/ RecordOutput
    BY <2>3 DEF StartRow, FinishSession, RecordOutput, At, NoHandler, AgeOK, SnapshotOK, Copied
  <2>4. CASE Start
    BY <2>4 DEF Start, Load, handlerVars, procVars, mapVars, nhidVars, AgeOK, SnapshotOK, MayBe
  <2> QED
    BY <2>1, <2>2, <2>3, <2>4
<1>3. granted' = granted
  BY DEF TakeLookup, LookUp, NextRow, StartRow, FinishSession, RecordOutput, Stop, Fault, Start,
     GoAway, Unload, Load, Consume, vars, nhidVars
<1>4. NoNewCommands
  <2>1. db' = db \/ NextRow \/ StartRow \/ FinishSession \/ RecordOutput
    BY DEF TakeLookup, LookUp, Stop, Fault, Start, GoAway, handlerVars
  <2> QED
    BY <2>1, StatementsAddNoCommand
<1> QED
  BY <1>2, <1>3, <1>4, CommandsKept DEF AgeOK

LEMMA InitCommandInv == NhiInit => CommandInv
<1> SUFFICES ASSUME NhiInit PROVE CommandInv
  OBVIOUS
<1>1. ExportedOK
  BY DEF NhiInit, ExportedOK
<1>2. AgeOK
  BY DEF NhiInit, EmptyDb, NoHandler, AgeOK, SnapshotOK, CommandsOK
<1> QED
  BY <1>1, <1>2 DEF CommandInv

LEMMA NextKeepsCommandInv ==
  ASSUME IInv, PromptsBounded, RecordInv, AlignInv, CommandInv, [NhiNext]_nhiVars
  PROVE  CommandInv'
<1>1. ExportedOK'
  BY ShellStepKeepsExported, OtherStepsKeepExported
  DEF RecordInv, AlignInv, GrantsOK, CommandInv
<1>2. ASSUME ~lost', ~stale' PROVE AgeOK'
  <2>1. ~lost /\ AgeOK /\ ExportedOK
    BY <1>2, StalenessIsRemembered DEF CommandInv
  <2>2. CASE ShellStep
    BY <2>1, <2>2, ShellStepKeepsAge DEF RecordInv
  <2>3. CASE SIGUSRStep
    BY <1>2, <2>1, <2>3, RegisteringKeepsAge
  <2>4. CASE Snapshot
    BY <2>1, <2>4, SnapshotKeepsAge
  <2>5. CASE FinishRow
    BY <2>1, <2>5, FinishRowKeepsAge
  <2>6. ASSUME \/ TakeLookup \/ LookUp \/ NextRow \/ StartRow \/ FinishSession \/ RecordOutput
               \/ Stop \/ Fault \/ Start \/ UNCHANGED nhiVars
        PROVE  AgeOK'
    BY <2>1, <2>6, OtherStepsKeepAge
  <2> QED
    BY <2>2, <2>3, <2>4, <2>5, <2>6 DEF NhiNext, HandlerStep
<1> QED
  BY <1>1, <1>2 DEF CommandInv

LEMMA CommandInvAlways == NhiSpec => []CommandInv
<1>1. /\ IInv /\ PromptsBounded /\ RecordInv /\ AlignInv /\ CommandInv /\ [NhiNext]_nhiVars
      => CommandInv'
  BY NextKeepsCommandInv
<1> QED
  BY <1>1, InitCommandInv, RecordInvAlways, AlignInvAlways, PTL DEF NhiSpec

\* A row never holds a command its shell ran before the one the row is for, as
\* long as no event is lost and no registration leaves its copy behind.
THEOREM CommandsAreNotOlder == NhiSpec => []CommandNeverOlder
<1>1. RecordInv /\ AlignInv /\ CommandInv => CommandNeverOlder
  <2> SUFFICES ASSUME RecordInv, GrantedOnce, CommandsOK,
                      NEW s \in ShellPid, NEW row \in Rows(s),
                      db.rows[row[1]][row[2]].command # NoText,
                      db.rows[row[1]][row[2]].command.shell = s
               PROVE  db.rows[row[1]][row[2]].command.n >= row[2]
    BY DEF AlignInv, GrantsOK, CommandInv, AgeOK, CommandNeverOlder
  <2>1. row[1] \in Indicator /\ <<s, row[1]>> \in granted /\ row[2] \in DOMAIN db.rows[row[1]]
    BY DEF Rows
  <2>2. db.rows[row[1]] \in Seq(Row)
    BY <2>1 DEF RecordInv, GoodDb
  <2>3. row[2] \in 1 .. Len(db.rows[row[1]])
    BY <2>1, <2>2
  <2>4. MayBe(db.rows[row[1]][row[2]].command, row[1], row[2])
    BY <2>1, <2>3 DEF CommandsOK
  <2>5. PICK t \in ShellPid :
          /\ <<t, row[1]>> \in granted
          /\ db.rows[row[1]][row[2]].command.shell = t =>
               db.rows[row[1]][row[2]].command.n >= row[2]
    BY <2>4 DEF MayBe
  <2>6. t = s
    <3>1. PICK i \in Indicator : i = row[1]
      BY <2>1
    <3>2. <<s, i>> \in granted /\ <<t, i>> \in granted
      BY <2>1, <2>5, <3>1
    <3>3. \A u \in ShellPid, j \in Indicator : <<u, j>> \in granted => (s = u <=> i = j)
      BY <3>2 DEF GrantedOnce
    <3> QED
      BY <3>2, <3>3
  <2> QED
    BY <2>5, <2>6
<1> QED
  BY <1>1, RecordInvAlways, AlignInvAlways, CommandInvAlways, PTL
=============================================================================
