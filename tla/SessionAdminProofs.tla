------------------------ MODULE SessionAdminProofs ------------------------
(* Proofs about SessionAdmin, for any number of sessions, of processes of   *)
(* the tool and of commands.                                                *)
EXTENDS SessionAdmin, RowidTheorems, FiniteSetTheorems, SequenceTheorems, TLAPS

----------------------------------------------------------------------------
(* The statements. *)

\* A database is a record with the fields SessionDb gives it.
IsDb(d) == d = [created |-> d.created, rows |-> d.rows, meta |-> d.meta,
                name |-> d.name, closed |-> d.closed]

\* Two databases whose sessions are the same, whatever their rows.
SameSessions(d, e) ==
  d.created = e.created /\ d.meta = e.meta /\ d.name = e.name /\ d.closed = e.closed

LEMMA EmptyDbSessions ==
  /\ IsDb(EmptyDb)
  /\ EmptyDb.created = {} /\ EmptyDb.closed = {}
  /\ DOMAIN EmptyDb.meta = {}
  /\ EmptyDb.name = [i \in Session |-> i]
BY DEF IsDb, EmptyDb

LEMMA CreateTableSessions ==
  ASSUME NEW d, IsDb(d), NEW i
  PROVE  /\ IsDb(create_table(d, i))
         /\ create_table(d, i).created = d.created \cup {i}
         /\ create_table(d, i).meta = d.meta
         /\ create_table(d, i).name = d.name
         /\ create_table(d, i).closed = d.closed
BY DEF IsDb, create_table

LEMMA RowSessions ==
  ASSUME NEW d, IsDb(d), NEW i, NEW text
  PROVE  /\ IsDb(create_row(d, i)) /\ SameSessions(create_row(d, i), d)
         /\ IsDb(finish_row(d, i, text)) /\ SameSessions(finish_row(d, i, text), d)
<1>1. ASSUME NEW rows PROVE IsDb([d EXCEPT !.rows = rows]) /\ SameSessions([d EXCEPT !.rows = rows], d)
  BY DEF IsDb, SameSessions
<1>2. IsDb(create_row(d, i)) /\ SameSessions(create_row(d, i), d)
  BY DEF IsDb, SameSessions, create_row
<1>3. ASSUME NEW row PROVE IsDb(UpdateLast(d, i, row)) /\ SameSessions(UpdateLast(d, i, row), d)
  BY DEF IsDb, SameSessions, UpdateLast
<1> QED
  BY <1>2, <1>3 DEF finish_row

LEMMA FinishTimeSessions ==
  ASSUME NEW d, IsDb(d), NEW i
  PROVE  /\ IsDb(meta_add_finish_time(d, i))
         /\ meta_add_finish_time(d, i).created = d.created
         /\ meta_add_finish_time(d, i).meta = d.meta
         /\ meta_add_finish_time(d, i).name = d.name
         /\ meta_add_finish_time(d, i).closed \subseteq d.closed \cup {i}
BY DEF IsDb, meta_add_finish_time

LEMMA DropTableSessions ==
  ASSUME NEW d, IsDb(d), NEW i
  PROVE  /\ IsDb(drop_table(d, i))
         /\ drop_table(d, i).created = d.created \ {i}
         /\ drop_table(d, i).meta = d.meta
         /\ drop_table(d, i).name = d.name
         /\ drop_table(d, i).closed = d.closed
<1> DEFINE R == [d.rows EXCEPT ![i] = <<>>]
<1>1. drop_table(d, i) = [d EXCEPT !.created = d.created \ {i}, !.rows = R]
  BY DEF drop_table
<1> HIDE DEF R
<1>2. drop_table(d, i) = [created |-> d.created \ {i}, rows |-> R, meta |-> d.meta,
                         name |-> d.name, closed |-> d.closed]
  BY <1>1 DEF IsDb
<1> QED
  BY <1>2 DEF IsDb

LEMMA MetaCreateRowSessions ==
  ASSUME NEW d, IsDb(d), Bounded(DOMAIN d.meta), NEW i
  PROVE  /\ IsDb(meta_create_row(d, i))
         /\ meta_create_row(d, i).created = d.created
         /\ meta_create_row(d, i).closed = d.closed
         /\ meta_create_row(d, i).name = [d.name EXCEPT ![i] = i]
         /\ Bounded(DOMAIN meta_create_row(d, i).meta)
         /\ Listed(meta_create_row(d, i)) = Listed(d) \cup {i}
<1> DEFINE m == WithRow(d.meta, i)
<1>1. Bounded(DOMAIN m) /\ Range(m) = Range(d.meta) \cup {i}
  BY RowAdded
<1>2. /\ IsDb(meta_create_row(d, i))
      /\ meta_create_row(d, i).created = d.created
      /\ meta_create_row(d, i).closed = d.closed
      /\ meta_create_row(d, i).name = [d.name EXCEPT ![i] = i]
      /\ meta_create_row(d, i).meta = m
  <2> DEFINE names == [d.name EXCEPT ![i] = i]
  <2>1. meta_create_row(d, i) = [d EXCEPT !.meta = m, !.name = names]
    BY DEF meta_create_row, Inserted, WithRow, FreshRowid, NextRowid
  <2> HIDE DEF m, names
  <2>2. meta_create_row(d, i) = [created |-> d.created, rows |-> d.rows, meta |-> m,
                                name |-> names, closed |-> d.closed]
    BY <2>1 DEF IsDb
  <2>3. /\ IsDb(meta_create_row(d, i))
        /\ meta_create_row(d, i).name = names
        /\ meta_create_row(d, i).created = d.created
        /\ meta_create_row(d, i).closed = d.closed
        /\ meta_create_row(d, i).meta = m
    BY <2>2 DEF IsDb
  <2> QED
    BY <2>3 DEF names
<1> QED
  BY <1>1, <1>2 DEF Listed

LEMMA DeleteRowSessions ==
  ASSUME NEW d, IsDb(d), Bounded(DOMAIN d.meta), NEW i
  PROVE  /\ IsDb(delete_meta_row(d, i))
         /\ delete_meta_row(d, i).created = d.created
         /\ delete_meta_row(d, i).name = d.name
         /\ delete_meta_row(d, i).closed = d.closed \ {i}
         /\ Bounded(DOMAIN delete_meta_row(d, i).meta)
         /\ Listed(delete_meta_row(d, i)) = Listed(d) \ {i}
<1> DEFINE m == [r \in {k \in DOMAIN d.meta : d.meta[k] # i} |-> d.meta[r]]
<1>1. /\ IsDb(delete_meta_row(d, i))
      /\ delete_meta_row(d, i).created = d.created
      /\ delete_meta_row(d, i).name = d.name
      /\ delete_meta_row(d, i).closed = d.closed \ {i}
      /\ delete_meta_row(d, i).meta = m
  <2>1. delete_meta_row(d, i) = [d EXCEPT !.meta = m, !.closed = d.closed \ {i}]
    BY DEF delete_meta_row
  <2> HIDE DEF m
  <2>2. delete_meta_row(d, i) = [created |-> d.created, rows |-> d.rows, meta |-> m,
                                name |-> d.name, closed |-> d.closed \ {i}]
    BY <2>1 DEF IsDb
  <2> QED
    BY <2>2 DEF IsDb
<1>2. DOMAIN m = {k \in DOMAIN d.meta : d.meta[k] # i}
  OBVIOUS
<1>3. Range(m) = Range(d.meta) \ {i}
  BY <1>2 DEF Range
<1>4. Bounded(DOMAIN m)
  BY <1>2 DEF Bounded
<1> QED
  BY <1>1, <1>3, <1>4 DEF Listed

----------------------------------------------------------------------------
(* The type invariant. *)

Command == [at : CliSteps, session : Session \cup {NoSession},
            new : NewName \cup {NoText}, todo : Seq(Session \cup {NoSession})]

Busy == {"drop", "delete", "log"}

CommandOK(c) ==
  /\ c \in Command
  /\ c.at \in Busy <=> c.todo # <<>>
  /\ c.at \in {"check", "rename"} => c.new \in NewName

GoodDb(d) ==
  /\ IsDb(d)
  /\ d.created \subseteq Session /\ d.closed \subseteq Session
  /\ Bounded(DOMAIN d.meta) /\ Listed(d) \subseteq Session
  /\ d.name \in [Session -> Names]

DbOK == GoodDb(db)

NhidOK ==
  /\ nhid \in [at : NhidSteps, session : Session \cup {NoSession}]
  /\ nhid.at # "wait" => nhid.session \in Session

CliOK ==
  /\ writer \in Cli \cup {NoCli}
  /\ cli \in [Cli -> Command]
  /\ \A p \in Cli : CommandOK(cli[p])

RestOK ==
  /\ live \subseteq begun /\ begun \subseteq Session
  /\ prompts \in [Session -> 0 .. MaxCommands]
  /\ gone \subseteq Session /\ broken \subseteq Session /\ refused \subseteq Session
  /\ clash \subseteq Names

TypeInv == DbOK /\ NhidOK /\ CliOK /\ RestOK

LEMMA TypeInvImpliesTypeOK == TypeInv => AdminTypeOK
BY DEF TypeInv, DbOK, GoodDb, NhidOK, CliOK, RestOK, AdminTypeOK, Bounded, CommandOK, Command, Busy

LEMMA NewCommandOK == \A how \in {"idle", "done", "failed", "missing", "killed"} : CommandOK(Over(how))
<1>1. <<>> \in Seq(Session \cup {NoSession})
  BY EmptySeq
<1> QED
  BY <1>1 DEF CommandOK, Command, Over, NewCommand, CliSteps, Busy

LEMMA InitTypeInv == AdminInit => TypeInv
<1> SUFFICES ASSUME AdminInit PROVE TypeInv
  OBVIOUS
<1>1. DbOK
  <2>1. Listed(EmptyDb) = {}
    BY EmptyDbSessions DEF Listed, Range
  <2>2. Bounded({})
    BY DEF Bounded
  <2> QED
    BY <2>1, <2>2, EmptyDbSessions DEF AdminInit, DbOK, GoodDb, Names
<1>2. NhidOK
  BY DEF AdminInit, NhidOK, Waiting, NhidSteps
<1>3. CliOK
  <2>1. CommandOK(NewCommand)
    <3>1. NewCommand = Over("idle")
      BY DEF NewCommand, Over
    <3> QED
      BY <3>1, NewCommandOK
  <2> QED
    BY <2>1 DEF AdminInit, CliOK, CommandOK
<1>4. RestOK
  BY TextAssumption DEF AdminInit, RestOK
<1> QED
  BY <1>1, <1>2, <1>3, <1>4 DEF TypeInv

\* One process goes on, the others stay where they are.
LEMMA OneCommandOK ==
  ASSUME CliOK, NEW p \in Cli, NEW c, CommandOK(c), cli' = [cli EXCEPT ![p] = c],
         writer' \in Cli \cup {NoCli}
  PROVE  CliOK' /\ cli'[p] = c /\ \A q \in Cli \ {p} : cli'[q] = cli[q]
<1>1. c \in Command
  BY DEF CommandOK
<1>2. cli' \in [Cli -> Command]
  BY <1>1 DEF CliOK
<1>3. cli'[p] = c /\ \A q \in Cli \ {p} : cli'[q] = cli[q]
  BY DEF CliOK
<1>4. \A q \in Cli : CommandOK(cli'[q])
  BY <1>3 DEF CliOK
<1> QED
  BY <1>2, <1>3, <1>4 DEF CliOK

\* Moving on within a list of sessions that is not done.
LEMMA GoOnOK ==
  ASSUME NEW c, CommandOK(c), NEW step \in CliSteps, c.at \in Busy <=> step \in Busy,
         step \in {"check", "rename"} => c.at \in {"check", "rename"}
  PROVE  CommandOK([c EXCEPT !.at = step])
BY DEF CommandOK, Command, CliSteps, Busy

LEMMA TailOK ==
  ASSUME NEW c, CommandOK(c), c.at \in Busy, Len(c.todo) # 1
  PROVE  /\ Tail(c.todo) \in Seq(Session \cup {NoSession}) /\ Tail(c.todo) # <<>>
         /\ Range(Tail(c.todo)) \subseteq Range(c.todo)
<1>1. c.todo \in Seq(Session \cup {NoSession}) /\ c.todo # <<>>
  BY DEF CommandOK, Command
<1>2. /\ Tail(c.todo) \in Seq(Session \cup {NoSession})
      /\ Len(Tail(c.todo)) = Len(c.todo) - 1
      /\ \A i \in 1 .. Len(Tail(c.todo)) : Tail(c.todo)[i] = c.todo[i + 1]
  BY <1>1, HeadTailProperties
<1>3. Len(c.todo) \in Nat /\ Len(c.todo) # 0
  BY <1>1
<1>4. Tail(c.todo) # <<>>
  <2>1. Len(Tail(c.todo)) # 0
    BY <1>2, <1>3
  <2> QED
    BY <2>1, <1>2, EmptySeq
<1>5. Range(Tail(c.todo)) \subseteq Range(c.todo)
  <2>1. Range(Tail(c.todo)) = {Tail(c.todo)[i] : i \in 1 .. Len(Tail(c.todo))}
    BY <1>2, RangeEquality
  <2>2. Range(c.todo) = {c.todo[i] : i \in 1 .. Len(c.todo)}
    BY <1>1, RangeEquality
  <2>3. \A i \in 1 .. Len(Tail(c.todo)) : i + 1 \in 1 .. Len(c.todo)
    BY <1>2, <1>3
  <2> QED
    BY <1>2, <2>1, <2>2, <2>3
<1> QED
  BY <1>2, <1>4, <1>5

LEMMA RestIsOK ==
  ASSUME NEW c, CommandOK(c), c.at = "delete"
  PROVE  CommandOK(Rest(c)) /\ Rest(c).at \in {"drop", "done"}
<1>1. CASE Len(c.todo) = 1
  BY <1>1, NewCommandOK DEF Rest, Over, NewCommand
<1>2. CASE Len(c.todo) # 1
  <2>1. Rest(c) = [c EXCEPT !.todo = Tail(c.todo), !.at = "drop"]
    BY <1>2 DEF Rest
  <2>2. Tail(c.todo) \in Seq(Session \cup {NoSession}) /\ Tail(c.todo) # <<>>
    BY <1>2, TailOK DEF Busy
  <2>3. Rest(c) \in Command /\ Rest(c).at = "drop" /\ Rest(c).todo = Tail(c.todo)
    BY <2>1, <2>2 DEF CommandOK, Command, CliSteps
  <2> QED
    BY <2>2, <2>3 DEF CommandOK, Busy
<1> QED
  BY <1>1, <1>2

\* Every statement leaves a good database behind.
LEMMA GoodStatements ==
  ASSUME NEW d, GoodDb(d), NEW i \in Session, NEW text
  PROVE  /\ GoodDb(create_table(d, i)) /\ GoodDb(create_row(d, i))
         /\ GoodDb(meta_create_row(d, i)) /\ GoodDb(finish_row(d, i, text))
         /\ GoodDb(meta_add_finish_time(d, i)) /\ GoodDb(drop_table(d, i))
         /\ GoodDb(delete_meta_row(d, i))
<1>1. IsDb(d) /\ Bounded(DOMAIN d.meta)
  BY DEF GoodDb
<1>2. GoodDb(create_table(d, i))
  BY <1>1, CreateTableSessions DEF GoodDb, Listed
<1>3. GoodDb(create_row(d, i)) /\ GoodDb(finish_row(d, i, text))
  BY <1>1, RowSessions DEF GoodDb, Listed, SameSessions
<1>4. GoodDb(meta_create_row(d, i))
  <2>1. [d.name EXCEPT ![i] = i] \in [Session -> Names]
    BY DEF GoodDb, Names
  <2>2. /\ IsDb(meta_create_row(d, i))
        /\ meta_create_row(d, i).created = d.created
        /\ meta_create_row(d, i).closed = d.closed
        /\ meta_create_row(d, i).name = [d.name EXCEPT ![i] = i]
        /\ Bounded(DOMAIN meta_create_row(d, i).meta)
        /\ Listed(meta_create_row(d, i)) = Listed(d) \cup {i}
    BY <1>1, MetaCreateRowSessions
  <2>3. d.created \subseteq Session /\ d.closed \subseteq Session /\ Listed(d) \cup {i} \subseteq Session
    BY DEF GoodDb
  <2> HIDE DEF IsDb, Bounded
  <2> QED
    BY <2>1, <2>2, <2>3 DEF GoodDb
<1>5. GoodDb(meta_add_finish_time(d, i))
  BY <1>1, FinishTimeSessions DEF GoodDb, Listed
<1>6. GoodDb(drop_table(d, i))
  BY <1>1, DropTableSessions DEF GoodDb, Listed
<1>7. GoodDb(delete_meta_row(d, i))
  BY <1>1, DeleteRowSessions DEF GoodDb
<1> QED
  BY <1>2, <1>3, <1>4, <1>5, <1>6, <1>7

LEMMA RenameSessions ==
  ASSUME NEW d, GoodDb(d), NEW i, NEW new \in Names
  PROVE  /\ GoodDb(rename_session(d, i, new))
         /\ rename_session(d, i, new).created = d.created
         /\ rename_session(d, i, new).meta = d.meta
         /\ \A j \in Session : rename_session(d, i, new).name[j] =
                              IF j = i /\ j \in Listed(d) THEN new ELSE d.name[j]
<1>1. CASE i \notin Listed(d)
  BY <1>1 DEF rename_session
<1>2. CASE i \in Listed(d)
  <2> DEFINE names == [d.name EXCEPT ![i] = new]
  <2>1. rename_session(d, i, new) = [d EXCEPT !.name = names]
    BY <1>2 DEF rename_session
  <2>2. names \in [Session -> Names] /\ \A j \in Session : names[j] = IF j = i THEN new ELSE d.name[j]
    BY DEF GoodDb
  <2> HIDE DEF names
  <2>3. rename_session(d, i, new) = [created |-> d.created, rows |-> d.rows, meta |-> d.meta,
                                     name |-> names, closed |-> d.closed]
    BY <2>1 DEF IsDb, GoodDb
  <2> QED
    BY <1>2, <2>2, <2>3 DEF IsDb, GoodDb, Listed
<1> QED
  BY <1>1, <1>2

LEMMA NhidStepKeepsTypeInv == TypeInv /\ NhidStep => TypeInv'
<1> SUFFICES ASSUME TypeInv, NhidStep PROVE TypeInv'
  OBVIOUS
<1> USE DEF TypeInv
<1>1. ASSUME NEW i \in Session, Begin(i) PROVE TypeInv'
  BY <1>1 DEF Begin, DbOK, GoodDb, NhidOK, CliOK, RestOK, NhidSteps, Handling, pastVars
<1>2. ASSUME NEW i \in Session, PromptOf(i) PROVE TypeInv'
  <2>1. prompts' \in [Session -> 0 .. MaxCommands]
    <3>1. prompts[i] \in 0 .. MaxCommands /\ prompts[i] < MaxCommands
      BY <1>2 DEF PromptOf, RestOK
    <3>2. prompts[i] + 1 \in 0 .. MaxCommands
      BY <3>1, TextAssumption
    <3> QED
      BY <1>2, <3>2 DEF PromptOf, RestOK
  <2> QED
    BY <1>2, <2>1 DEF PromptOf, DbOK, GoodDb, NhidOK, CliOK, RestOK, NhidSteps, Handling, pastVars
<1>3. ASSUME NEW i \in Session, ExitOf(i) PROVE TypeInv'
  BY <1>3 DEF ExitOf, DbOK, GoodDb, NhidOK, CliOK, RestOK, NhidSteps, Handling, pastVars
<1>4. ASSUME NEW from \in NhidSteps \ {"wait"}, NEW to \in NhidSteps, NEW result,
             Statement(from, result, to), GoodDb(result)
      PROVE  TypeInv'
  <2>1. nhid.session \in Session
    BY <1>4 DEF Statement, Handling, NhidOK
  <2>2. NhidOK'
    BY <1>4, <2>1 DEF Statement, HandleNext, NhidOK, Waiting, NhidSteps
  <2>3. DbOK'
    BY <1>4 DEF Statement, DbOK, GoodDb
  <2>4. CliOK' /\ RestOK'
    BY <1>4, <2>1 DEF Statement, CliOK, RestOK, sessionVars
  <2> QED
    BY <2>2, <2>3, <2>4
<1>5. ASSUME nhid.at # "wait"
      PROVE  /\ GoodDb(create_table(db, nhid.session)) /\ GoodDb(create_row(db, nhid.session))
             /\ GoodDb(meta_create_row(db, nhid.session))
             /\ GoodDb(finish_row(db, nhid.session, prompts[nhid.session]))
             /\ GoodDb(meta_add_finish_time(db, nhid.session))
  BY <1>5, GoodStatements DEF NhidOK, DbOK
<1>6. CASE CreateTable \/ CreateRow \/ MetaCreateRow
  BY <1>4, <1>5, <1>6 DEF CreateTable, CreateRow, MetaCreateRow, NhidSteps, Statement, Handling
<1>7. CASE FinishRow \/ NextRow \/ FinishSession
  BY <1>4, <1>5, <1>7 DEF FinishRow, NextRow, FinishSession, NhidSteps, Statement, Handling
<1>8. CASE NhidStops
  BY <1>8 DEF NhidStops, DbOK, GoodDb, NhidOK, CliOK, RestOK, Waiting, NhidSteps
<1> QED
  BY <1>1, <1>2, <1>3, <1>6, <1>7, <1>8 DEF NhidStep

\* What look-ups and selections find are sessions of meta.
LEMMA FoundIsListed ==
  ASSUME NEW argument
  PROVE  GetSessionIndicator(argument) \in Listed(db) \cup {NoSession}
<1> DEFINE found == IF argument.by = "index" THEN RowAt(db.meta, argument.at)
                    ELSE FirstRow(Named(db.meta, db.name, argument.at))
<1>1. found \subseteq DOMAIN db.meta
  BY DEF RowAt, FirstRow, Named
<1>2. CASE found = {}
  BY <1>2 DEF GetSessionIndicator
<1>3. CASE found # {}
  <2>1. (CHOOSE r \in found : TRUE) \in DOMAIN db.meta
    BY <1>1, <1>3
  <2>2. GetSessionIndicator(argument) = db.meta[CHOOSE r \in found : TRUE]
    BY <1>3 DEF GetSessionIndicator
  <2> QED
    BY <2>1, <2>2 DEF Listed, Range
<1> QED
  BY <1>2, <1>3

LEMMA SelectedRows ==
  ASSUME TypeInv, NEW rows \in SUBSET DOMAIN db.meta, rows # {}, NEW s \in InOrder(rows)
  PROVE  /\ Sessions(s) \in Seq(Session) /\ Sessions(s) # <<>>
         /\ Range(Sessions(s)) \subseteq Listed(db)
         /\ Sessions(Reverse(s)) \in Seq(Session) /\ Sessions(Reverse(s)) # <<>>
         /\ Range(Sessions(Reverse(s))) \subseteq Listed(db)
<1> DEFINE n == Cardinality(rows)
<1>1. Bounded(DOMAIN db.meta) /\ Listed(db) \subseteq Session
  BY DEF TypeInv, DbOK, GoodDb
<1>2. IsFiniteSet(rows)
  <2>1. rows \in SUBSET Nat /\ \E m \in Nat : \A r \in rows : r <= m
    BY <1>1 DEF Bounded
  <2> QED
    BY <2>1, FS_BoundedSetOfNaturals
<1>3. n \in Nat /\ n # 0
  BY <1>2, FS_CardinalityType, FS_EmptySet
<1>4. s \in [1 .. n -> rows] /\ s \in Seq(rows) /\ Len(s) = n
  BY <1>3 DEF InOrder
<1>5. ASSUME NEW t \in [1 .. n -> rows]
      PROVE  Sessions(t) \in Seq(Session) /\ Sessions(t) # <<>> /\ Range(Sessions(t)) \subseteq Listed(db)
  <2>1. Len(t) = n
    BY <1>3, <1>5
  <2>2. \A k \in 1 .. n : db.meta[t[k]] \in Listed(db)
    BY <1>5 DEF Listed, Range
  <2>3. Sessions(t) = [k \in 1 .. n |-> db.meta[t[k]]]
    BY <2>1 DEF Sessions
  <2>4. Sessions(t) \in [1 .. n -> Session] /\ Range(Sessions(t)) \subseteq Listed(db)
    BY <1>1, <2>2, <2>3 DEF Range
  <2>5. Sessions(t) \in Seq(Session) /\ Len(Sessions(t)) = n
    BY <1>3, <2>4, IsASeq
  <2> QED
    BY <1>3, <2>4, <2>5, EmptySeq
<1>6. Reverse(s) \in [1 .. n -> rows]
  <2>1. Reverse(s) = [i \in 1 .. n |-> s[(n - i) + 1]]
    BY <1>4 DEF Reverse
  <2>2. \A i \in 1 .. n : (n - i) + 1 \in 1 .. n
    BY <1>3
  <2> QED
    BY <1>4, <2>1, <2>2
<1> QED
  BY <1>4, <1>5, <1>6

LEMMA CliBeginsKeepsTypeInv ==
  ASSUME TypeInv, NEW p \in Cli, CliBegins(p)
  PROVE  TypeInv'
<1> USE DEF TypeInv
<1>1. cli[p].at = "idle" /\ CommandOK(cli[p]) /\ cli[p].todo = <<>>
  BY DEF CliBegins, LookUp, Rename, Select, Log, InCommand, CliOK, CommandOK, Busy
<1>2. UNCHANGED <<db, writer, nhid, sessionVars, pastVars>>
  BY DEF CliBegins, LookUp, Rename, Select, Log
<1>3. ASSUME NEW c, CommandOK(c), cli' = [cli EXCEPT ![p] = c] PROVE TypeInv'
  <2>1. CliOK'
    BY <1>2, <1>3, OneCommandOK DEF CliOK
  <2> QED
    BY <1>2, <2>1 DEF DbOK, GoodDb, NhidOK, RestOK, sessionVars, pastVars
<1>4. ASSUME NEW todo \in Seq(Session \cup {NoSession}), todo # <<>>, NEW at \in Busy
      PROVE  CommandOK([cli[p] EXCEPT !.todo = todo, !.at = at])
  BY <1>1, <1>4 DEF CommandOK, Command, Busy, CliSteps
<1>5. ASSUME NEW argument, LookUp(p, argument) PROVE TypeInv'
  <2>1. GetSessionIndicator(argument) \in Session \cup {NoSession}
    BY FoundIsListed DEF DbOK, GoodDb
  <2>2. <<GetSessionIndicator(argument)>> \in Seq(Session \cup {NoSession})
        /\ <<GetSessionIndicator(argument)>> # <<>>
    BY <2>1
  <2> QED
    BY <1>3, <1>4, <1>5, <2>2 DEF LookUp, Busy
<1>6. ASSUME NEW argument, NEW new \in NewName, Rename(p, argument, new) PROVE TypeInv'
  <2>1. GetSessionIndicator(argument) \in Session \cup {NoSession}
    BY FoundIsListed DEF DbOK, GoodDb
  <2>2. CommandOK([cli[p] EXCEPT !.at = "check", !.new = new, !.session = GetSessionIndicator(argument)])
    BY <1>1, <2>1 DEF CommandOK, Command, Busy, CliSteps
  <2> QED
    BY <1>3, <1>6, <2>2 DEF Rename
<1>7. ASSUME NEW start, NEW end, Select(p, start, end) PROVE TypeInv'
  <2> DEFINE chosen == FromRange(db.meta, start, end)
  <2>1. CASE chosen = {}
    BY <1>3, <1>7, <2>1, NewCommandOK DEF Select, End
  <2>2. CASE chosen # {}
    <3>1. PICK s \in InOrder(chosen) :
            cli' = [cli EXCEPT ![p].todo = Sessions(s), ![p].at = "drop"]
      BY <1>7, <2>2 DEF Select
    <3>2. chosen \in SUBSET DOMAIN db.meta
      BY DEF FromRange
    <3>3. Sessions(s) \in Seq(Session) /\ Sessions(s) # <<>>
      BY <2>2, <3>2, SelectedRows
    <3>4. Sessions(s) \in Seq(Session \cup {NoSession})
      BY <3>3
    <3> QED
      BY <1>3, <1>4, <3>1, <3>3, <3>4 DEF Busy
  <2> QED
    BY <2>1, <2>2
<1>8. CASE Log(p)
  <2>1. CASE DOMAIN db.meta = {}
    BY <1>3, <1>8, <2>1, NewCommandOK DEF Log, End
  <2>2. CASE DOMAIN db.meta # {}
    <3>1. PICK s \in InOrder(DOMAIN db.meta) :
            cli' = [cli EXCEPT ![p].todo = Sessions(Reverse(s)), ![p].at = "log"]
      BY <1>8, <2>2 DEF Log
    <3>2. Sessions(Reverse(s)) \in Seq(Session) /\ Sessions(Reverse(s)) # <<>>
      BY <2>2, SelectedRows
    <3>3. Sessions(Reverse(s)) \in Seq(Session \cup {NoSession})
      BY <3>2
    <3> QED
      BY <1>3, <1>4, <3>1, <3>2, <3>3 DEF Busy
  <2> QED
    BY <2>1, <2>2
<1> QED
  BY <1>5, <1>6, <1>7, <1>8 DEF CliBegins

\* The first of the sessions a command still has to visit.
LEMMA HeadIsVisited ==
  ASSUME TypeInv, NEW p \in Cli, cli[p].at \in Busy
  PROVE  /\ Head(cli[p].todo) \in Range(cli[p].todo)
         /\ Head(cli[p].todo) \in Session \cup {NoSession}
<1>1. cli[p].todo \in Seq(Session \cup {NoSession}) /\ cli[p].todo # <<>>
  BY DEF TypeInv, CliOK, CommandOK, Command
<1>2. Range(cli[p].todo) = {cli[p].todo[i] : i \in 1 .. Len(cli[p].todo)}
  BY <1>1, RangeEquality
<1>3. 1 \in 1 .. Len(cli[p].todo) /\ Head(cli[p].todo) = cli[p].todo[1]
  BY <1>1, EmptySeq
<1> QED
  BY <1>1, <1>2, <1>3, HeadTailProperties

LEMMA OpenedIsOK ==
  ASSUME NEW c, CommandOK(c), c.at = "log", Head(c.todo) \in Session \cup {NoSession}
  PROVE  CommandOK(Opened(c))
<1> DEFINE h == Head(c.todo)
<1>1. CASE h \notin db.created
  BY <1>1, NewCommandOK DEF Opened, CommandOK, Command, Over, NewCommand, Busy
<1>2. CASE h \in db.created /\ Len(c.todo) = 1
  BY <1>2, NewCommandOK DEF Opened
<1>3. CASE h \in db.created /\ Len(c.todo) # 1
  <2> DEFINE t == Tail(c.todo)
  <2>1. t \in Seq(Session \cup {NoSession}) /\ t # <<>>
    BY <1>3, TailOK DEF Busy
  <2>2. Opened(c) = [c EXCEPT !.todo = t]
    BY <1>3 DEF Opened
  <2> HIDE DEF t
  <2>3. Opened(c) \in Command /\ Opened(c).at = "log" /\ Opened(c).todo = t
    BY <2>1, <2>2 DEF CommandOK, Command
  <2> QED
    BY <2>1, <2>3 DEF CommandOK, Busy
<1> QED
  BY <1>1, <1>2, <1>3

\* remove visits sessions only, never the "0" of a look-up.
RemovesSessions ==
  \A p \in Cli : cli[p].at \in {"drop", "delete"} => Range(cli[p].todo) \subseteq Session

LEMMA CliStepKeepsTypeInv ==
  ASSUME TypeInv, RemovesSessions, NEW p \in Cli, CliStep(p) \/ Kill(p)
  PROVE  TypeInv'
<1> USE DEF TypeInv
<1>1. CommandOK(cli[p]) /\ writer \in Cli \cup {NoCli}
  BY DEF CliOK
<1>2. ASSUME NEW c, CommandOK(c), cli' = [cli EXCEPT ![p] = c], writer' \in Cli \cup {NoCli},
             UNCHANGED <<nhid, sessionVars>>, GoodDb(db)', gone' \subseteq Session,
             broken' \subseteq Session, refused' = refused, clash' \subseteq Names
      PROVE  TypeInv'
  <2>1. CliOK'
    BY <1>2, OneCommandOK
  <2> QED
    BY <1>2, <2>1 DEF DbOK, NhidOK, RestOK, sessionVars
<1>3. UNCHANGED db => GoodDb(db)'
  BY DEF DbOK, GoodDb
<1>4. cli[p].at \in {"drop", "delete"} => Head(cli[p].todo) \in Session
  BY HeadIsVisited DEF Busy, RemovesSessions
<1>5. gone \subseteq Session /\ broken \subseteq Session /\ clash \subseteq Names
  BY DEF RestOK
<1>6. CASE TakeLock(p)
  BY <1>6 DEF TakeLock, DbOK, GoodDb, NhidOK, CliOK, RestOK, sessionVars, pastVars
<1>7. ASSUME NEW how \in {"done", "failed", "missing", "killed"} PROVE CommandOK(Over(how))
  BY NewCommandOK
<1>8. ASSUME InCommand(p, "drop") PROVE CommandOK([cli[p] EXCEPT !.at = "delete"])
  BY <1>1, <1>8, GoOnOK DEF InCommand, CliSteps, Busy
<1>9. ASSUME InCommand(p, "check") PROVE CommandOK([cli[p] EXCEPT !.at = "rename"])
  BY <1>1, <1>9, GoOnOK DEF InCommand, CliSteps, Busy
<1>10. CASE LockTimesOut(p)
  <2>1. UNCHANGED <<db, writer, nhid, sessionVars, gone, refused, clash>>
    BY <1>10 DEF LockTimesOut
  <2>2. CASE InCommand(p, "rename") /\ End(p, "failed") /\ UNCHANGED broken
    BY <1>1, <1>2, <1>3, <1>5, <1>7, <2>1, <2>2 DEF End
  <2>3. CASE /\ InCommand(p, "drop") /\ GoOn(p, "delete")
             /\ broken' = broken \cup {Head(cli[p].todo)}
    <3>1. cli' = [cli EXCEPT ![p] = [cli[p] EXCEPT !.at = "delete"]]
      BY <2>3 DEF GoOn
    <3>2. Head(cli[p].todo) \in Session
      BY <1>4, <2>3 DEF InCommand
    <3> QED
      BY <1>1, <1>2, <1>3, <1>5, <1>8, <2>1, <2>3, <3>1, <3>2
  <2>4. CASE /\ InCommand(p, "delete") /\ cli' = [cli EXCEPT ![p] = Rest(@)]
             /\ broken' = broken \cup {Head(cli[p].todo)}
    <3>1. CommandOK(Rest(cli[p]))
      BY <1>1, <2>4, RestIsOK DEF InCommand
    <3>2. Head(cli[p].todo) \in Session
      BY <1>4, <2>4 DEF InCommand
    <3> QED
      BY <1>1, <1>2, <1>3, <1>5, <2>1, <2>4, <3>1, <3>2
  <2> QED
    BY <1>10, <2>2, <2>3, <2>4 DEF LockTimesOut
<1>11. CASE CheckName(p)
  <2>1. cli[p].new \in Names
    BY <1>1, <1>11, NameAssumption DEF CheckName, InCommand, CommandOK, Names
  <2>2. CASE \E i \in Listed(db) : db.name[i] = cli[p].new
    BY <1>1, <1>2, <1>3, <1>5, <1>7, <1>11, <2>2 DEF CheckName, End
  <2>3. CASE ~ \E i \in Listed(db) : db.name[i] = cli[p].new
    <3>1. cli' = [cli EXCEPT ![p] = [cli[p] EXCEPT !.at = "rename"]]
      BY <1>11, <2>3 DEF CheckName, GoOn
    <3>2. clash' \subseteq Names
      BY <1>5, <1>11, <2>1, <2>3 DEF CheckName
    <3> QED
      BY <1>1, <1>2, <1>3, <1>5, <1>9, <1>11, <3>1, <3>2 DEF CheckName
  <2> QED
    BY <2>2, <2>3
<1>12. CASE RenameSession(p)
  <2>1. GoodDb(rename_session(db, cli[p].session, cli[p].new))
    <3>1. cli[p].new \in Names
      BY <1>1, <1>12, NameAssumption DEF RenameSession, InCommand, CommandOK, Names
    <3> QED
      BY <3>1, RenameSessions DEF DbOK
  <2>2. GoodDb(db)'
    BY <1>12, <2>1 DEF RenameSession, GoodDb
  <2> QED
    BY <1>2, <1>5, <1>7, <1>12, <2>2 DEF RenameSession, End, pastVars
<1>13. CASE DropTable(p)
  <2>1. GoodDb(drop_table(db, Head(cli[p].todo)))
    BY <1>4, <1>13, GoodStatements DEF DropTable, InCommand, DbOK
  <2>2. GoodDb(db)'
    BY <1>13, <2>1 DEF DropTable, GoodDb
  <2>3. cli' = [cli EXCEPT ![p] = [cli[p] EXCEPT !.at = "delete"]]
    BY <1>13 DEF DropTable, GoOn
  <2> QED
    BY <1>2, <1>5, <1>8, <1>13, <2>2, <2>3 DEF DropTable, pastVars
<1>14. CASE NoTableToDrop(p)
  <2>1. cli' = [cli EXCEPT ![p] = [cli[p] EXCEPT !.at = "delete"]]
    BY <1>14 DEF NoTableToDrop, GoOn
  <2> QED
    BY <1>1, <1>2, <1>3, <1>5, <1>8, <1>14, <2>1 DEF NoTableToDrop, pastVars
<1>15. CASE DeleteRow(p)
  <2>1. Head(cli[p].todo) \in Session
    BY <1>4, <1>15 DEF DeleteRow, InCommand
  <2>2. GoodDb(delete_meta_row(db, Head(cli[p].todo)))
    BY <2>1, GoodStatements DEF DbOK
  <2>3. GoodDb(db)'
    BY <1>15, <2>2 DEF DeleteRow, GoodDb
  <2>4. CommandOK(Rest(cli[p]))
    BY <1>1, <1>15, RestIsOK DEF DeleteRow, InCommand
  <2> QED
    BY <1>2, <1>5, <1>15, <2>1, <2>3, <2>4 DEF DeleteRow
<1>16. CASE OpenTable(p)
  <2> DEFINE h == Head(cli[p].todo)
  <2>1. cli[p].at = "log" /\ h \in Session \cup {NoSession}
    BY <1>16, HeadIsVisited DEF OpenTable, InCommand, Busy
  <2>2. cli' = [cli EXCEPT ![p] = Opened(cli[p])]
        /\ UNCHANGED <<db, writer, nhid, sessionVars, pastVars>>
    BY <1>16 DEF OpenTable
  <2>3. CommandOK(Opened(cli[p]))
    BY <1>1, <2>1, OpenedIsOK
  <2> DEFINE c == Opened(cli[p])
  <2> HIDE DEF c
  <2> QED
    BY <1>1, <1>2, <1>3, <1>5, <2>2, <2>3 DEF c, pastVars
<1>17. CASE Kill(p)
  <2>1. broken' \subseteq Session
    BY <1>4, <1>5, <1>17 DEF Kill, InCommand
  <2>2. writer' \in Cli \cup {NoCli}
    BY <1>1, <1>17 DEF Kill
  <2> QED
    BY <1>2, <1>3, <1>5, <1>7, <1>17, <2>1, <2>2 DEF Kill, End
<1> QED
  BY <1>6, <1>10, <1>11, <1>12, <1>13, <1>14, <1>15, <1>16, <1>17 DEF CliStep

----------------------------------------------------------------------------
(* Tables and rows of meta.  What nhid and remove are in the middle of is   *)
(* what keeps the two apart, so the invariant says what that can be: nhid   *)
(* only starts sessions nobody has seen, and remove has dropped what it is  *)
(* about to delete.                                                         *)

Selected(p) == IF cli[p].at \in {"drop", "delete"} THEN Range(cli[p].todo) ELSE {}
Deleting(p, i) == cli[p].at = "delete" /\ Head(cli[p].todo) = i
Starting == nhid.at \in {"table", "row", "meta"}

Known ==
  /\ db.created \cup Listed(db) \cup gone \subseteq begun
  /\ \A p \in Cli : Selected(p) \subseteq begun
  /\ Starting => nhid.session \in begun

NotSeenYet ==
  Starting => /\ nhid.session \notin Listed(db) \cup gone
              /\ \A p \in Cli : nhid.session \notin Selected(p)

HalfRegistered ==
  /\ nhid.at = "table" => nhid.session \notin db.created
  /\ nhid.at \in {"row", "meta"} => nhid.session \in db.created \cup broken

DroppedFirst ==
  \A p \in Cli, i \in Session : Deleting(p, i) => i \notin db.created \/ i \in broken

TableInv ==
  /\ Known /\ NotSeenYet /\ HalfRegistered /\ DroppedFirst
  /\ TablesAndMetaAgree /\ RemovedStaysRemoved

\* What a step of the tool does to the sessions: nothing, ...
QuietStep ==
  /\ UNCHANGED <<nhid, begun, gone, broken>>
  /\ db'.created = db.created /\ Listed(db') = Listed(db)
  /\ \A q \in Cli, i \in Session : Deleting(q, i)' <=> Deleting(q, i)
  /\ \A q \in Cli : Selected(q)' \subseteq Selected(q) \cup Listed(db)

\* ... it drops the table of h, or fails to, ...
DropStep(h) ==
  /\ UNCHANGED <<nhid, begun, gone>>
  /\ broken \subseteq broken' /\ broken' \subseteq broken \cup {h}
  /\ db'.created \subseteq db.created /\ db.created \subseteq db'.created \cup {h}
  /\ h \in db'.created => h \in broken'
  /\ Listed(db') = Listed(db)
  /\ \E p \in Cli : h \in Selected(p) /\ Deleting(p, h)'
  /\ \A q \in Cli, i \in Session : Deleting(q, i) => Deleting(q, i)'
  /\ \A q \in Cli, i \in Session : Deleting(q, i)' => Deleting(q, i) \/ i = h
  /\ \A q \in Cli : Selected(q)' \subseteq Selected(q) \cup Listed(db)

\* ... or it deletes its row, or fails to.
DeleteStep(h) ==
  /\ UNCHANGED <<nhid, begun>>
  /\ broken \subseteq broken' /\ broken' \subseteq broken \cup {h}
  /\ db'.created = db.created
  /\ \/ Listed(db') = Listed(db) \ {h} /\ gone' = gone \cup {h}
     \/ Listed(db') = Listed(db) /\ gone' = gone /\ h \in broken'
  /\ \E p \in Cli : h \in Selected(p) /\ Deleting(p, h)
  /\ \A q \in Cli, i \in Session : Deleting(q, i)' => Deleting(q, i)
  /\ \A q \in Cli, i \in Session : Deleting(q, i) => Deleting(q, i)' \/ i = h
  /\ \A q \in Cli : Selected(q)' \subseteq Selected(q) \cup Listed(db)

LEMMA BetweenIsDeleting ==
  \A i \in Session : BetweenDropAndDelete(i) <=> \E p \in Cli : Deleting(p, i)
BY DEF BetweenDropAndDelete, Deleting, InCommand

LEMMA BetweenIsDeletingNext ==
  \A i \in Session : BetweenDropAndDelete(i)' <=> \E p \in Cli : Deleting(p, i)'
BY DEF BetweenDropAndDelete, Deleting, InCommand

LEMMA QuietStepKeepsTableInv == TableInv /\ QuietStep => TableInv'
<1> SUFFICES ASSUME TableInv, QuietStep PROVE TableInv'
  OBVIOUS
<1>1. Known' /\ NotSeenYet' /\ HalfRegistered'
  BY DEF TableInv, Known, NotSeenYet, HalfRegistered, QuietStep, Starting
<1>2. DroppedFirst'
  BY DEF TableInv, DroppedFirst, QuietStep
<1>3. \A i \in Session : BetweenDropAndDelete(i)' <=> BetweenDropAndDelete(i)
  BY BetweenIsDeleting, BetweenIsDeletingNext DEF QuietStep
<1>4. TablesAndMetaAgree' /\ RemovedStaysRemoved'
  BY <1>3 DEF TableInv, TablesAndMetaAgree, RemovedStaysRemoved, QuietStep, Registering
<1> QED
  BY <1>1, <1>2, <1>4 DEF TableInv

LEMMA DropStepKeepsTableInv ==
  ASSUME TableInv, NEW h \in Session, DropStep(h) PROVE TableInv'
<1>1. h # nhid.session \/ ~Starting
  BY DEF DropStep, TableInv, NotSeenYet
<1>2. Known' /\ NotSeenYet' /\ HalfRegistered'
  BY <1>1 DEF TableInv, Known, NotSeenYet, HalfRegistered, DropStep, Starting
<1>3. DroppedFirst'
  BY DEF TableInv, DroppedFirst, DropStep
<1>4. \A i \in Session : BetweenDropAndDelete(i) => BetweenDropAndDelete(i)'
  BY BetweenIsDeleting, BetweenIsDeletingNext DEF DropStep
<1>5. BetweenDropAndDelete(h)'
  BY BetweenIsDeletingNext DEF DropStep
<1>6. TablesAndMetaAgree'
  BY <1>4, <1>5 DEF TableInv, TablesAndMetaAgree, DropStep, Registering
<1>7. RemovedStaysRemoved'
  BY DEF TableInv, RemovedStaysRemoved, DropStep
<1> QED
  BY <1>2, <1>3, <1>6, <1>7 DEF TableInv

LEMMA DeleteStepKeepsTableInv ==
  ASSUME TableInv, NEW h \in Session, DeleteStep(h) PROVE TableInv'
<1>1. h # nhid.session \/ ~Starting
  BY DEF DeleteStep, TableInv, NotSeenYet
<1>2. h \in begun /\ (h \in db.created => h \in broken)
  BY DEF DeleteStep, TableInv, Known, DroppedFirst
<1>3. Known' /\ NotSeenYet' /\ HalfRegistered'
  BY <1>1, <1>2 DEF TableInv, Known, NotSeenYet, HalfRegistered, DeleteStep, Starting
<1>4. DroppedFirst'
  BY DEF TableInv, DroppedFirst, DeleteStep
<1>5. \A i \in Session : BetweenDropAndDelete(i) => BetweenDropAndDelete(i)' \/ i = h
  BY BetweenIsDeleting, BetweenIsDeletingNext DEF DeleteStep
<1>6. TablesAndMetaAgree'
  BY <1>2, <1>5 DEF TableInv, TablesAndMetaAgree, DeleteStep, Registering
<1>7. RemovedStaysRemoved'
  BY <1>2 DEF TableInv, RemovedStaysRemoved, DeleteStep
<1> QED
  BY <1>3, <1>4, <1>6, <1>7 DEF TableInv

\* One process moves on.
LEMMA OneProcess ==
  ASSUME CliOK, NEW p \in Cli, NEW c, cli' = [cli EXCEPT ![p] = c]
  PROVE  /\ cli'[p] = c /\ \A q \in Cli \ {p} : cli'[q] = cli[q]
         /\ \A q \in Cli \ {p} : Selected(q)' = Selected(q)
         /\ \A q \in Cli \ {p}, i \in Session : Deleting(q, i)' <=> Deleting(q, i)
         /\ Selected(p)' = IF c.at \in {"drop", "delete"} THEN Range(c.todo) ELSE {}
         /\ \A i \in Session : Deleting(p, i)' <=> c.at = "delete" /\ Head(c.todo) = i
<1>1. cli'[p] = c /\ \A q \in Cli \ {p} : cli'[q] = cli[q]
  BY DEF CliOK
<1> QED
  BY <1>1 DEF Selected, Deleting

LEMMA QuietMove ==
  ASSUME CliOK, NEW p \in Cli, NEW c, cli' = [cli EXCEPT ![p] = c],
         cli[p].at # "delete", c.at # "delete",
         c.at = "drop" => Range(c.todo) \subseteq Selected(p) \cup Listed(db),
         UNCHANGED <<nhid, begun, gone, broken>>,
         db'.created = db.created, Listed(db') = Listed(db)
  PROVE  QuietStep
<1>1. \A i \in Session : Deleting(p, i)' <=> Deleting(p, i)
  BY OneProcess DEF Deleting
<1>2. \A q \in Cli, i \in Session : Deleting(q, i)' <=> Deleting(q, i)
  BY <1>1, OneProcess
<1>3. \A q \in Cli : Selected(q)' \subseteq Selected(q) \cup Listed(db)
  BY OneProcess
<1> QED
  BY <1>2, <1>3 DEF QuietStep

LEMMA CommandFields ==
  ASSUME NEW c \in Command, NEW at, NEW todo, NEW new, NEW session
  PROVE  /\ [c EXCEPT !.at = at].at = at /\ [c EXCEPT !.at = at].todo = c.todo
         /\ [c EXCEPT !.todo = todo, !.at = at].at = at
         /\ [c EXCEPT !.todo = todo, !.at = at].todo = todo
         /\ [c EXCEPT !.at = at, !.new = new, !.session = session].at = at
BY DEF Command

LEMMA CliBeginsIsQuiet ==
  ASSUME TypeInv, NEW p \in Cli, CliBegins(p) PROVE QuietStep
<1>1. CliOK /\ cli[p].at = "idle"
  BY DEF TypeInv, CliBegins, LookUp, Rename, Select, Log, InCommand
<1>2. UNCHANGED <<db, nhid, begun, gone, broken>>
  BY DEF CliBegins, LookUp, Rename, Select, Log, sessionVars, pastVars
<1>3. ASSUME NEW c, cli' = [cli EXCEPT ![p] = c], c.at # "delete",
             c.at = "drop" => Range(c.todo) \subseteq Listed(db)
      PROVE  QuietStep
  BY <1>1, <1>2, <1>3, QuietMove
<1>4. cli[p] \in Command
  BY <1>1 DEF CliOK
<1>5. ASSUME NEW argument, LookUp(p, argument) PROVE QuietStep
  <2> DEFINE c == [cli[p] EXCEPT !.todo = <<GetSessionIndicator(argument)>>, !.at = "log"]
  <2>1. c.at = "log"
    BY <1>4, CommandFields
  <2>2. cli' = [cli EXCEPT ![p] = c]
    BY <1>5 DEF LookUp
  <2> HIDE DEF c
  <2> QED
    BY <1>3, <2>1, <2>2
<1>6. ASSUME NEW argument, NEW new, Rename(p, argument, new) PROVE QuietStep
  <2> DEFINE c == [cli[p] EXCEPT !.at = "check", !.new = new,
                                 !.session = GetSessionIndicator(argument)]
  <2>1. c.at = "check"
    BY <1>4, CommandFields
  <2>2. cli' = [cli EXCEPT ![p] = c]
    BY <1>6 DEF Rename
  <2> HIDE DEF c
  <2> QED
    BY <1>3, <2>1, <2>2
<1>7. ASSUME NEW start, NEW end, Select(p, start, end) PROVE QuietStep
  <2> DEFINE chosen == FromRange(db.meta, start, end)
  <2>1. CASE chosen = {}
    BY <1>3, <1>7, <2>1 DEF Select, End, Over, NewCommand
  <2>2. CASE chosen # {}
    <3>1. PICK s \in InOrder(chosen) :
            cli' = [cli EXCEPT ![p].todo = Sessions(s), ![p].at = "drop"]
      BY <1>7, <2>2 DEF Select
    <3>2. chosen \in SUBSET DOMAIN db.meta
      BY DEF FromRange
    <3>3. Range(Sessions(s)) \subseteq Listed(db)
      BY <2>2, <3>2, SelectedRows
    <3> DEFINE c == [cli[p] EXCEPT !.todo = Sessions(s), !.at = "drop"]
    <3>4. c.at = "drop" /\ c.todo = Sessions(s)
      BY <1>4, CommandFields
    <3>5. cli' = [cli EXCEPT ![p] = c]
      BY <3>1
    <3> HIDE DEF c
    <3> QED
      BY <1>3, <3>3, <3>4, <3>5
  <2> QED
    BY <2>1, <2>2
<1>8. CASE Log(p)
  <2>1. CASE DOMAIN db.meta = {}
    BY <1>3, <1>8, <2>1 DEF Log, End, Over, NewCommand
  <2>2. CASE DOMAIN db.meta # {}
    <3>1. PICK s \in InOrder(DOMAIN db.meta) :
            cli' = [cli EXCEPT ![p].todo = Sessions(Reverse(s)), ![p].at = "log"]
      BY <1>8, <2>2 DEF Log
    <3> DEFINE c == [cli[p] EXCEPT !.todo = Sessions(Reverse(s)), !.at = "log"]
    <3>2. c.at = "log"
      BY <1>4, CommandFields
    <3>3. cli' = [cli EXCEPT ![p] = c]
      BY <3>1
    <3> HIDE DEF c
    <3> QED
      BY <1>3, <3>2, <3>3
  <2> QED
    BY <2>1, <2>2
<1> QED
  BY <1>5, <1>6, <1>7, <1>8 DEF CliBegins

LEMMA CliStepIsDropOrDelete ==
  ASSUME TypeInv, RemovesSessions, NEW p \in Cli, CliStep(p) \/ Kill(p)
  PROVE  QuietStep \/ \E h \in Session : DropStep(h) \/ DeleteStep(h)
<1> DEFINE h == Head(cli[p].todo)
<1>1. CliOK /\ CommandOK(cli[p]) /\ cli[p] \in Command /\ IsDb(db) /\ Bounded(DOMAIN db.meta)
  BY DEF TypeInv, CliOK, DbOK, GoodDb
<1>2. cli[p].at \in {"drop", "delete"} => h \in Session /\ h \in Selected(p)
  BY HeadIsVisited DEF Busy, RemovesSessions, Selected
<1>3. ASSUME NEW c, cli' = [cli EXCEPT ![p] = c], UNCHANGED <<nhid, begun, gone, broken>>,
             db'.created = db.created, Listed(db') = Listed(db),
             cli[p].at # "delete", c.at # "delete", c.at # "drop"
      PROVE  QuietStep
  BY <1>1, <1>3, QuietMove
<1>4. ASSUME cli' = [cli EXCEPT ![p] = [cli[p] EXCEPT !.at = "delete"]],
             cli[p].at = "drop", UNCHANGED <<nhid, begun, gone>>,
             Listed(db') = Listed(db),
             \/ db'.created = db.created \ {h} /\ broken' = broken
             \/ db'.created = db.created /\ broken' = broken \cup {h}
             \/ db'.created = db.created /\ broken' = broken /\ h \notin db.created
      PROVE  DropStep(h) /\ h \in Session
  <2> DEFINE c == [cli[p] EXCEPT !.at = "delete"]
  <2>1. c.at = "delete" /\ c.todo = cli[p].todo
    BY <1>1 DEF Command
  <2> HIDE DEF c
  <2>2. cli' = [cli EXCEPT ![p] = c]
    BY <1>4 DEF c
  <2>3. /\ \A q \in Cli \ {p} : Selected(q)' = Selected(q)
        /\ \A q \in Cli \ {p}, i \in Session : Deleting(q, i)' <=> Deleting(q, i)
        /\ Selected(p)' = Range(cli[p].todo)
        /\ \A i \in Session : Deleting(p, i)' <=> h = i
    BY <1>1, <2>1, <2>2, OneProcess
  <2>4. Selected(p)' = Selected(p) /\ \A i \in Session : ~ Deleting(p, i)
    BY <1>4, <2>3 DEF Selected, Deleting
  <2>5. h \in Session /\ h \in Selected(p) /\ Deleting(p, h)'
    BY <1>2, <1>4, <2>3
  <2> HIDE DEF h
  <2>6. \A q \in Cli, i \in Session : Deleting(q, i) => Deleting(q, i)'
    BY <2>3, <2>4
  <2>7. \A q \in Cli, i \in Session : Deleting(q, i)' => Deleting(q, i) \/ i = h
    BY <2>3, <2>4
  <2>8. \A q \in Cli : Selected(q)' \subseteq Selected(q) \cup Listed(db)
    BY <2>3, <2>4
  <2>9. \E q \in Cli : h \in Selected(q) /\ Deleting(q, h)'
    BY <2>5
  <2>10. /\ broken \subseteq broken' /\ broken' \subseteq broken \cup {h}
         /\ db'.created \subseteq db.created /\ db.created \subseteq db'.created \cup {h}
         /\ h \in db'.created => h \in broken'
    BY <1>4
  <2> QED
    BY <1>4, <2>5, <2>6, <2>7, <2>8, <2>9, <2>10 DEF DropStep
<1>5. ASSUME NEW c, cli' = [cli EXCEPT ![p] = c], c.at # "delete",
             cli[p].at = "delete", UNCHANGED <<nhid, begun>>,
             c.at = "drop" => Range(c.todo) \subseteq Selected(p),
             db'.created = db.created,
             \/ Listed(db') = Listed(db) \ {h} /\ gone' = gone \cup {h} /\ broken' = broken
             \/ Listed(db') = Listed(db) /\ gone' = gone /\ broken' = broken \cup {h}
      PROVE  DeleteStep(h) /\ h \in Session
  <2>1. /\ \A q \in Cli \ {p} : Selected(q)' = Selected(q)
        /\ \A q \in Cli \ {p}, i \in Session : Deleting(q, i)' <=> Deleting(q, i)
        /\ Selected(p)' \subseteq Selected(p)
        /\ \A i \in Session : ~ Deleting(p, i)'
        /\ \A i \in Session : Deleting(p, i) <=> i = h
    BY <1>1, <1>5, OneProcess DEF Deleting
  <2> HIDE DEF h
  <2> QED
    BY <1>2, <1>5, <2>1 DEF DeleteStep
<1>20. \A how : Over(how).at = how
  BY DEF Over, NewCommand
<1>6. CASE TakeLock(p)
  BY <1>6 DEF TakeLock, QuietStep, Selected, Deleting, sessionVars, pastVars
<1>7. ASSUME InCommand(p, "delete")
      PROVE  /\ Rest(cli[p]).at # "delete"
             /\ Rest(cli[p]).at = "drop" => Range(Rest(cli[p]).todo) \subseteq Selected(p)
  <2>1. CASE Len(cli[p].todo) = 1
    BY <2>1 DEF Rest, Over, NewCommand
  <2>2. CASE Len(cli[p].todo) # 1
    <3>1. Rest(cli[p]).at = "drop" /\ Rest(cli[p]).todo = Tail(cli[p].todo)
      BY <1>1, <2>2 DEF Rest, Command
    <3>2. Range(Tail(cli[p].todo)) \subseteq Range(cli[p].todo)
      BY <1>1, <1>7, <2>2, TailOK DEF InCommand, Busy
    <3> QED
      BY <1>7, <3>1, <3>2 DEF Selected, InCommand
  <2> QED
    BY <2>1, <2>2
<1>8. CASE LockTimesOut(p)
  <2>1. UNCHANGED <<db, nhid, begun, gone>>
    BY <1>8 DEF LockTimesOut, sessionVars
  <2>2. CASE InCommand(p, "rename") /\ End(p, "failed") /\ UNCHANGED broken
    BY <1>3, <1>20, <2>1, <2>2 DEF InCommand, End
  <2>3. CASE /\ InCommand(p, "drop") /\ GoOn(p, "delete")
             /\ broken' = broken \cup {Head(cli[p].todo)}
    BY <1>4, <2>1, <2>3 DEF InCommand, GoOn
  <2>4. CASE /\ InCommand(p, "delete") /\ cli' = [cli EXCEPT ![p] = Rest(@)]
             /\ broken' = broken \cup {Head(cli[p].todo)}
    BY <1>5, <1>7, <2>1, <2>4 DEF InCommand
  <2> QED
    BY <1>8, <2>2, <2>3, <2>4 DEF LockTimesOut
<1>9. CASE CheckName(p)
  BY <1>1, <1>3, <1>9 DEF CheckName, InCommand, GoOn, End, Over, NewCommand, Command, sessionVars
<1>10. CASE RenameSession(p)
  <2>1. db'.created = db.created /\ Listed(db') = Listed(db)
    <3>1. cli[p].new \in Names
      BY <1>1, <1>10, NameAssumption DEF RenameSession, InCommand, CommandOK, Names
    <3> QED
      BY <1>10, <3>1, RenameSessions DEF RenameSession, TypeInv, DbOK, Listed
  <2> QED
    BY <1>3, <1>10, <1>20, <2>1 DEF RenameSession, InCommand, End, sessionVars, pastVars
<1>11. CASE DropTable(p)
  <2>1. db'.created = db.created \ {h} /\ Listed(db') = Listed(db)
    BY <1>1, <1>11, DropTableSessions DEF DropTable, Listed
  <2> QED
    BY <1>4, <1>11, <2>1 DEF DropTable, InCommand, GoOn, sessionVars, pastVars
<1>12. CASE NoTableToDrop(p)
  BY <1>4, <1>12 DEF NoTableToDrop, InCommand, GoOn, sessionVars, pastVars
<1>13. CASE DeleteRow(p)
  <2>1. db'.created = db.created /\ Listed(db') = Listed(db) \ {h}
    BY <1>1, <1>13, DeleteRowSessions DEF DeleteRow
  <2> QED
    BY <1>5, <1>7, <1>13, <2>1 DEF DeleteRow, InCommand, sessionVars
<1>14. CASE OpenTable(p)
  <2>1. Opened(cli[p]).at \in {"missing", "done", "log"}
    BY <1>1, <1>14 DEF OpenTable, InCommand, Opened, Over, NewCommand, Command
  <2> QED
    BY <1>3, <1>14, <2>1 DEF OpenTable, InCommand, sessionVars, pastVars
<1>15. CASE Kill(p)
  <2>1. CASE cli[p].at = "delete"
    <3>1. cli' = [cli EXCEPT ![p] = Over("killed")] /\ Over("killed").at = "killed"
      BY <1>15, <1>20 DEF Kill, End
    <3>2. UNCHANGED <<nhid, begun>> /\ db' = db /\ gone' = gone /\ broken' = broken \cup {h}
      BY <1>15, <2>1 DEF Kill, InCommand, sessionVars
    <3>3. db'.created = db.created /\ Listed(db') = Listed(db)
      BY <3>2
    <3> DEFINE c == Over("killed")
    <3> HIDE DEF c, h
    <3>4. cli' = [cli EXCEPT ![p] = c] /\ c.at = "killed"
      BY <3>1 DEF c
    <3> QED
      BY <1>5, <2>1, <3>2, <3>3, <3>4
  <2>2. CASE cli[p].at # "delete"
    BY <1>3, <1>15, <1>20, <2>2 DEF Kill, InCommand, End, sessionVars
  <2> QED
    BY <2>1, <2>2
<1> QED
  BY <1>6, <1>8, <1>9, <1>10, <1>11, <1>12, <1>13, <1>14, <1>15 DEF CliStep

\* What nhid does between two sessions or for one it has registered.
LEMMA NhidIdleKeepsTableInv ==
  ASSUME TableInv, UNCHANGED <<cli, gone>>, nhid'.at \notin {"table", "row", "meta"},
         begun' = begun, broken \subseteq broken',
         db'.created = db.created, Listed(db') = Listed(db),
         nhid.at \in {"row", "meta"} => nhid.session \in broken'
  PROVE  TableInv'
<1>1. Known' /\ NotSeenYet' /\ HalfRegistered' /\ DroppedFirst'
  BY DEF TableInv, Known, NotSeenYet, HalfRegistered, DroppedFirst, Starting, Selected, Deleting
<1>2. TablesAndMetaAgree' /\ RemovedStaysRemoved'
  BY DEF TableInv, TablesAndMetaAgree, RemovedStaysRemoved, Registering,
         BetweenDropAndDelete, InCommand
<1> QED
  BY <1>1, <1>2 DEF TableInv

\* The three statements that register a session, one of which may fail.
LEMMA RegisteringKeepsTableInv ==
  ASSUME TypeInv, TableInv, UNCHANGED <<cli, gone, begun>>, Starting,
         broken \subseteq broken', nhid'.session = nhid.session \/ nhid'.at = "wait",
         \/ /\ nhid.at = "table" /\ nhid'.at = "row"
            /\ Listed(db') = Listed(db)
            /\ \/ db'.created = db.created \cup {nhid.session}
               \/ db'.created = db.created /\ nhid.session \in broken'
         \/ /\ nhid.at = "row" /\ nhid'.at = "meta"
            /\ Listed(db') = Listed(db) /\ db'.created = db.created
         \/ /\ nhid.at = "meta" /\ nhid'.at = "wait"
            /\ db'.created = db.created
            /\ \/ Listed(db') = Listed(db) \cup {nhid.session}
               \/ Listed(db') = Listed(db) /\ nhid.session \in broken'
  PROVE  TableInv'
<1> DEFINE s == nhid.session
<1>1. s \in begun /\ s \notin Listed(db) \cup gone /\ \A p \in Cli : s \notin Selected(p)
  BY DEF TableInv, Known, NotSeenYet
<1>2. \A p \in Cli : ~ Deleting(p, s)
  BY <1>1, HeadIsVisited DEF Deleting, Selected, Busy
<1>3. /\ \A p \in Cli : Selected(p)' = Selected(p)
      /\ \A p \in Cli, i \in Session : Deleting(p, i)' <=> Deleting(p, i)
  BY DEF Selected, Deleting
<1>4. Known'
  BY <1>1, <1>3 DEF TableInv, Known, Starting
<1>5. NotSeenYet'
  BY <1>1, <1>3 DEF TableInv, NotSeenYet, Starting
<1>6. HalfRegistered'
  BY DEF TableInv, HalfRegistered
<1>7. DroppedFirst'
  BY <1>2, <1>3 DEF TableInv, DroppedFirst
<1>8. \A i \in Session : BetweenDropAndDelete(i)' <=> BetweenDropAndDelete(i)
  BY DEF BetweenDropAndDelete, InCommand
<1>9. TablesAndMetaAgree'
  BY <1>1, <1>8 DEF TableInv, TablesAndMetaAgree, Registering, HalfRegistered
<1>10. RemovedStaysRemoved'
  BY <1>1 DEF TableInv, RemovedStaysRemoved
<1> QED
  BY <1>4, <1>5, <1>6, <1>7, <1>9, <1>10 DEF TableInv

LEMMA NhidStepKeepsTableInv ==
  ASSUME TypeInv, TableInv, NhidStep PROVE TableInv'
<1> DEFINE s == nhid.session
<1>1. IsDb(db) /\ Bounded(DOMAIN db.meta) /\ begun \subseteq Session /\ gone \subseteq Session
  BY DEF TypeInv, DbOK, GoodDb, RestOK
<1>2. nhid \in [at : NhidSteps, session : Session \cup {NoSession}]
  BY DEF TypeInv, NhidOK
<1>3. ASSUME NEW i \in Session, Begin(i) PROVE TableInv'
  <2>1. i \notin begun
    <3>1. i \in Nat
      BY SessionAssumption
    <3> QED
      BY <1>3, <3>1 DEF Begin
  <2>2. /\ nhid.at = "wait" /\ nhid'.at = "table" /\ nhid'.session = i
        /\ begun' = begun \cup {i} /\ UNCHANGED <<db, cli, gone, broken>>
    BY <1>3 DEF Begin, Handling, pastVars
  <2>3. Known' /\ NotSeenYet' /\ HalfRegistered' /\ DroppedFirst'
    BY <2>1, <2>2 DEF TableInv, Known, NotSeenYet, HalfRegistered, DroppedFirst,
                      Starting, Selected, Deleting
  <2>4. TablesAndMetaAgree' /\ RemovedStaysRemoved'
    BY <2>2 DEF TableInv, TablesAndMetaAgree, RemovedStaysRemoved, Registering,
                BetweenDropAndDelete, InCommand
  <2> QED
    BY <2>3, <2>4 DEF TableInv
<1>4. ASSUME NEW i \in Session, PromptOf(i) \/ ExitOf(i) PROVE TableInv'
  <2>1. /\ nhid.at = "wait" /\ nhid'.at \in {"finish", "close"}
        /\ UNCHANGED <<db, cli, gone, broken, begun>>
    BY <1>4 DEF PromptOf, ExitOf, Handling, pastVars
  <2> QED
    BY <2>1, NhidIdleKeepsTableInv
<1>5. ASSUME NEW from, NEW result, NEW to, Statement(from, result, to)
      PROVE  /\ UNCHANGED <<cli, gone, begun>> /\ broken \subseteq broken'
             /\ nhid.at = from /\ nhid'.at = to
             /\ nhid'.session = nhid.session \/ to = "wait"
             /\ \/ db' = result
                \/ db' = db /\ (from \in {"table", "meta"} => s \in broken')
  BY <1>2, <1>5 DEF Statement, Handling, HandleNext, Waiting, sessionVars
<1>6. CASE CreateTable
  <2>1. /\ create_table(db, s).created = db.created \cup {s}
        /\ Listed(create_table(db, s)) = Listed(db)
    BY <1>1, CreateTableSessions DEF Listed
  <2>2. /\ UNCHANGED <<cli, gone, begun>> /\ broken \subseteq broken'
        /\ nhid.at = "table" /\ nhid'.at = "row" /\ nhid'.session = nhid.session
        /\ \/ db' = create_table(db, s)
           \/ db' = db /\ s \in broken'
    BY <1>5, <1>6 DEF CreateTable
  <2> QED
    BY <2>1, <2>2, RegisteringKeepsTableInv DEF Starting
<1>7. CASE CreateRow
  <2>1. create_row(db, s).created = db.created /\ Listed(create_row(db, s)) = Listed(db)
    BY <1>1, RowSessions DEF SameSessions, Listed
  <2>2. /\ UNCHANGED <<cli, gone, begun>> /\ broken \subseteq broken'
        /\ nhid.at = "row" /\ nhid'.at = "meta" /\ nhid'.session = nhid.session
        /\ db' = create_row(db, s) \/ db' = db
    BY <1>5, <1>7 DEF CreateRow
  <2> QED
    BY <2>1, <2>2, RegisteringKeepsTableInv DEF Starting
<1>8. CASE MetaCreateRow
  <2>1. /\ meta_create_row(db, s).created = db.created
        /\ Listed(meta_create_row(db, s)) = Listed(db) \cup {s}
    BY <1>1, MetaCreateRowSessions
  <2>2. /\ UNCHANGED <<cli, gone, begun>> /\ broken \subseteq broken'
        /\ nhid.at = "meta" /\ nhid'.at = "wait"
        /\ \/ db' = meta_create_row(db, s)
           \/ db' = db /\ s \in broken'
    BY <1>5, <1>8 DEF MetaCreateRow
  <2> QED
    BY <2>1, <2>2, RegisteringKeepsTableInv DEF Starting
<1>9. ASSUME NEW from \in {"finish", "next", "close"}, NEW to \in {"next", "wait"}, NEW result,
             Statement(from, result, to),
             result.created = db.created, Listed(result) = Listed(db)
      PROVE  TableInv'
  <2>1. /\ UNCHANGED <<cli, gone, begun>> /\ broken \subseteq broken'
        /\ nhid.at = from /\ nhid'.at = to /\ (db' = result \/ db' = db)
    BY <1>5, <1>9
  <2> QED
    BY <1>9, <2>1, NhidIdleKeepsTableInv
<1>10. CASE FinishRow
  <2> DEFINE d == finish_row(db, s, prompts[s])
  <2>1. d.created = db.created /\ Listed(d) = Listed(db)
    BY <1>1, RowSessions DEF SameSessions, Listed
  <2>2. Statement("finish", d, "next")
    BY <1>10 DEF FinishRow
  <2> HIDE DEF d
  <2> QED
    BY <1>9, <2>1, <2>2
<1>11. CASE NextRow
  <2> DEFINE d == create_row(db, s)
  <2>1. d.created = db.created /\ Listed(d) = Listed(db)
    BY <1>1, RowSessions DEF SameSessions, Listed
  <2>2. Statement("next", d, "wait")
    BY <1>11 DEF NextRow
  <2> HIDE DEF d
  <2> QED
    BY <1>9, <2>1, <2>2
<1>12. CASE FinishSession
  <2> DEFINE d == meta_add_finish_time(db, s)
  <2>1. d.created = db.created /\ Listed(d) = Listed(db)
    BY <1>1, FinishTimeSessions DEF Listed
  <2>2. Statement("close", d, "wait")
    BY <1>12 DEF FinishSession
  <2> HIDE DEF d
  <2> QED
    BY <1>9, <2>1, <2>2
<1>13. CASE NhidStops
  <2>1. /\ UNCHANGED <<cli, gone, begun, db>> /\ broken \subseteq broken'
        /\ nhid'.at = "wait" /\ (nhid.at \in {"row", "meta"} => s \in broken')
    BY <1>13 DEF NhidStops, Waiting
  <2> QED
    BY <2>1, NhidIdleKeepsTableInv
<1> QED
  BY <1>3, <1>4, <1>6, <1>7, <1>8, <1>10, <1>11, <1>12, <1>13 DEF NhidStep

LEMMA RemovesKnownSessions == TypeInv /\ TableInv => RemovesSessions
BY DEF TypeInv, TableInv, Known, RestOK, RemovesSessions, Selected

LEMMA InitTableInv == AdminInit => TableInv
<1> SUFFICES ASSUME AdminInit PROVE TableInv
  OBVIOUS
<1>1. db.created = {} /\ Listed(db) = {}
  BY EmptyDbSessions DEF AdminInit, Listed, Range
<1>2. nhid.at = "wait" /\ begun = {} /\ gone = {} /\ \A p \in Cli : cli[p].at = "idle"
  BY DEF AdminInit, Waiting, NewCommand
<1> QED
  BY <1>1, <1>2 DEF TableInv, Known, NotSeenYet, HalfRegistered, DroppedFirst, Starting,
     Selected, Deleting, TablesAndMetaAgree, RemovedStaysRemoved

----------------------------------------------------------------------------
(* The theorems. *)

AdminInv == TypeInv /\ TableInv

LEMMA StepKeepsAdminInv == AdminInv /\ [AdminNext]_adminVars => AdminInv'
<1> SUFFICES ASSUME AdminInv, [AdminNext]_adminVars PROVE AdminInv'
  OBVIOUS
<1>1. TypeInv /\ TableInv /\ RemovesSessions
  BY RemovesKnownSessions DEF AdminInv
<1>2. CASE NhidStep
  BY <1>1, <1>2, NhidStepKeepsTypeInv, NhidStepKeepsTableInv DEF AdminInv
<1>3. ASSUME NEW p \in Cli, CliBegins(p) PROVE AdminInv'
  BY <1>1, <1>3, CliBeginsKeepsTypeInv, CliBeginsIsQuiet, QuietStepKeepsTableInv DEF AdminInv
<1>4. ASSUME NEW p \in Cli, CliStep(p) \/ Kill(p) PROVE AdminInv'
  BY <1>1, <1>4, CliStepKeepsTypeInv, CliStepIsDropOrDelete, QuietStepKeepsTableInv,
     DropStepKeepsTableInv, DeleteStepKeepsTableInv DEF AdminInv
<1>5. CASE UNCHANGED adminVars
  <2>1. TypeInv'
    BY <1>1, <1>5 DEF adminVars, sessionVars, pastVars, TypeInv, DbOK, GoodDb, NhidOK, CliOK, RestOK
  <2>2. TableInv'
    BY <1>1, <1>5 DEF adminVars, sessionVars, pastVars, TableInv, Known, NotSeenYet,
       HalfRegistered, DroppedFirst, Starting, Selected, Deleting, TablesAndMetaAgree,
       RemovedStaysRemoved, Registering, BetweenDropAndDelete, InCommand
  <2> QED
    BY <2>1, <2>2 DEF AdminInv
<1> QED
  BY <1>2, <1>3, <1>4, <1>5 DEF AdminNext

LEMMA AdminInvariant == AdminSpec => []AdminInv
<1>1. AdminInit => AdminInv
  BY InitTypeInv, InitTableInv DEF AdminInv
<1> QED
  BY <1>1, StepKeepsAdminInv, PTL DEF AdminSpec

\* Every statement of nhid and every command of the tool leaves the database,
\* the lists of sessions still to visit and the histories well formed.
THEOREM AdminTypeCorrect == AdminSpec => []AdminTypeOK
<1>1. AdminInv => AdminTypeOK
  BY TypeInvImpliesTypeOK DEF AdminInv
<1> QED
  BY <1>1, AdminInvariant, PTL

\* However nhid's registration of sessions (nhi.c:62-72), its failures and stops,
\* and any number of removes (remove.go:38-44) interleave, tables and rows of
\* meta belong together but where the property names the reason.
THEOREM TablesAgree == AdminSpec => []TablesAndMetaAgree
<1>1. AdminInv => TablesAndMetaAgree
  BY DEF AdminInv, TableInv
<1> QED
  BY <1>1, AdminInvariant, PTL

\* What nhid goes on recording of a removed session (sqlite.c:68-83) never
\* brings it back.
THEOREM RemovedStay == AdminSpec => []RemovedStaysRemoved
<1>1. AdminInv => RemovedStaysRemoved
  BY DEF AdminInv, TableInv
<1> QED
  BY <1>1, AdminInvariant, PTL

----------------------------------------------------------------------------
(* The rows of a session.  What nhid has done of a prompt says how many rows *)
(* there are, so the row it finishes is the one of the prompt.              *)

Row == [command : 0 .. MaxCommands \cup {NoText}, pwd : {NoText}, output : {{}}, markers : {{}},
        started : {FALSE}, finished : BOOLEAN]

RowsGood ==
  /\ db.rows \in [Session -> Seq(Row)]
  /\ \A i \in Session : i \notin db.created => db.rows[i] = <<>>

\* A row for each prompt, and one for the next, but when it is not opened yet.
Expected(i) ==
  IF nhid.session = i /\ nhid.at \in {"row", "finish", "next"}
  THEN prompts[i] ELSE prompts[i] + 1

PromptsCounted ==
  /\ \A i \in Session \ begun : prompts[i] = 0
  /\ nhid.at \in {"table", "row"} => prompts[nhid.session] = 0
  /\ nhid.at \notin {"wait", "close"} => nhid.session \in live

Recorded == db.created \ refused

RowsCounted == \A i \in Recorded \cap live : Len(db.rows[i]) = Expected(i)

RowsInOrder ==
  \A i \in Recorded : \A k \in 1 .. Len(db.rows[i]) : db.rows[i][k].command \in {NoText, k}

RowsInv == RowsGood /\ PromptsCounted /\ RowsCounted /\ RowsInOrder

\* The statements, as far as the rows go.
LEMMA SameRows ==
  ASSUME NEW d, IsDb(d), NEW i, NEW new
  PROVE  /\ create_table(d, i).rows = d.rows
         /\ meta_create_row(d, i).rows = d.rows
         /\ meta_add_finish_time(d, i).rows = d.rows
         /\ delete_meta_row(d, i).rows = d.rows
         /\ rename_session(d, i, new).rows = d.rows
<1>1. ASSUME NEW m, NEW n
      PROVE  [d EXCEPT !.meta = m, !.name = n].rows = d.rows
  BY DEF IsDb
<1>2. ASSUME NEW m, NEW n
      PROVE  [d EXCEPT !.meta = m, !.closed = n].rows = d.rows
  BY DEF IsDb
<1>3. ASSUME NEW n
      PROVE  /\ [d EXCEPT !.created = n].rows = d.rows
             /\ [d EXCEPT !.closed = n].rows = d.rows
             /\ [d EXCEPT !.name = n].rows = d.rows
  BY DEF IsDb
<1>4. create_table(d, i).rows = d.rows /\ meta_add_finish_time(d, i).rows = d.rows
  BY <1>3 DEF create_table, meta_add_finish_time
<1>5. meta_create_row(d, i).rows = d.rows
  BY <1>1 DEF meta_create_row
<1>6. delete_meta_row(d, i).rows = d.rows
  BY <1>2 DEF delete_meta_row
<1>7. rename_session(d, i, new).rows = d.rows
  BY <1>3 DEF rename_session
<1> QED
  BY <1>4, <1>5, <1>6, <1>7

LEMMA DropTableRows ==
  ASSUME NEW d, IsDb(d), d.rows \in [Session -> Seq(Row)], NEW i \in Session,
         NEW e, e = drop_table(d, i)
  PROVE  e.rows \in [Session -> Seq(Row)] /\ e.rows[i] = <<>>
         /\ \A j \in Session : j # i => e.rows[j] = d.rows[j]
<1> DEFINE R == [d.rows EXCEPT ![i] = <<>>]
<1>1. <<>> \in Seq(Row)
  OBVIOUS
<1>2. /\ R \in [Session -> Seq(Row)] /\ R[i] = <<>>
      /\ \A j \in Session : j # i => R[j] = d.rows[j]
  BY <1>1
<1>3. e = [d EXCEPT !.created = d.created \ {i}, !.rows = R]
  BY DEF drop_table
<1> HIDE DEF R
<1>4. e.rows = R
  BY <1>3 DEF IsDb
<1> QED
  BY <1>2, <1>4

LEMMA CreateRowRows ==
  ASSUME NEW d, IsDb(d), d.rows \in [Session -> Seq(Row)], NEW i \in d.created \cap Session,
         NEW e, e = create_row(d, i)
  PROVE  /\ e.rows \in [Session -> Seq(Row)]
         /\ Len(e.rows[i]) = Len(d.rows[i]) + 1
         /\ \A k \in 1 .. Len(e.rows[i]) :
              \/ e.rows[i][k].command = NoText
              \/ k \in 1 .. Len(d.rows[i]) /\ e.rows[i][k] = d.rows[i][k]
         /\ \A j \in Session : j # i => e.rows[j] = d.rows[j]
<1> DEFINE line == Append(d.rows[i], NewRow)
           R == [d.rows EXCEPT ![i] = line]
<1>1. NewRow \in Row /\ NewRow.command = NoText
  BY DEF NewRow, Row
<1>2. d.rows[i] \in Seq(Row) /\ Len(d.rows[i]) \in Nat
  OBVIOUS
<1>3. /\ line \in Seq(Row) /\ Len(line) = Len(d.rows[i]) + 1
      /\ \A k \in 1 .. Len(line) :
           \/ line[k] = NewRow
           \/ k \in 1 .. Len(d.rows[i]) /\ line[k] = d.rows[i][k]
  BY <1>1, <1>2
<1>4. e = [d EXCEPT !.rows = R]
  BY DEF create_row
<1> HIDE DEF line
<1>5. /\ R \in [Session -> Seq(Row)] /\ R[i] = line
      /\ \A j \in Session : j # i => R[j] = d.rows[j]
  BY <1>3
<1> HIDE DEF R
<1>6. e.rows = R
  BY <1>4 DEF IsDb
<1> QED
  BY <1>1, <1>3, <1>5, <1>6

LEMMA FinishRowRows ==
  ASSUME NEW d, IsDb(d), d.rows \in [Session -> Seq(Row)], NEW i \in d.created \cap Session,
         NEW text \in 0 .. MaxCommands, NEW e, e = finish_row(d, i, text)
  PROVE  /\ e.rows \in [Session -> Seq(Row)]
         /\ Len(e.rows[i]) = Len(d.rows[i])
         /\ \A k \in 1 .. Len(d.rows[i]) :
              e.rows[i][k].command = IF k = Len(d.rows[i]) THEN text ELSE d.rows[i][k].command
         /\ \A j \in Session : j # i => e.rows[j] = d.rows[j]
<1> DEFINE n == Len(d.rows[i])
           row == [LastRow(d, i) EXCEPT !.command = text, !.finished = TRUE]
           line == [d.rows[i] EXCEPT ![n] = row]
           R == [d.rows EXCEPT ![i] = line]
<1>1. d.rows[i] \in Seq(Row) /\ n \in Nat
  OBVIOUS
<1>2. CASE d.rows[i] = <<>>
  <2>1. e = d /\ n = 0
    BY <1>2 DEF finish_row, UpdateLast, HasRow
  <2> QED
    BY <2>1
<1>3. CASE d.rows[i] # <<>>
  <2>1. n \in 1 .. n
    BY <1>1, <1>3
  <2>2. LastRow(d, i) \in Row
    BY <1>1, <2>1 DEF LastRow, Last
  <2>3. row \in Row /\ row.command = text
    BY <2>2 DEF Row
  <2>4. e = [d EXCEPT !.rows[i][n] = row]
    BY <1>3 DEF finish_row, UpdateLast, HasRow
  <2> HIDE DEF row
  <2>5. /\ line \in Seq(Row) /\ Len(line) = n
        /\ \A k \in 1 .. n : line[k] = IF k = n THEN row ELSE d.rows[i][k]
    BY <1>1, <2>1, <2>3
  <2>6. e = [d EXCEPT !.rows = R]
    BY <2>4
  <2> HIDE DEF n, line
  <2>7. /\ R \in [Session -> Seq(Row)] /\ R[i] = line
        /\ \A j \in Session : j # i => R[j] = d.rows[j]
    BY <2>5
  <2> HIDE DEF R
  <2>8. e.rows = R
    BY <2>6 DEF IsDb
  <2> QED
    BY <2>3, <2>5, <2>7, <2>8 DEF n
<1> QED
  BY <1>2, <1>3

\* A step that leaves the rows, the tables and nhid alone.
LEMMA RowsStay ==
  ASSUME RowsInv, db'.rows = db.rows, db'.created = db.created,
         UNCHANGED <<nhid, sessionVars, refused>>
  PROVE  RowsInv'
BY DEF RowsInv, RowsGood, PromptsCounted, RowsCounted, RowsInOrder, Recorded, Expected, sessionVars

LEMMA CommandsBeginReading ==
  ASSUME NEW p \in Cli, CliBegins(p)
  PROVE  UNCHANGED <<db, nhid, sessionVars, refused>>
<1>1. CASE Log(p)
  BY <1>1 DEF Log, pastVars
<1>2. ASSUME NEW argument, LookUp(p, argument)
      PROVE  UNCHANGED <<db, nhid, sessionVars, refused>>
  BY <1>2 DEF LookUp, pastVars
<1>3. ASSUME NEW argument, NEW new, Rename(p, argument, new)
      PROVE  UNCHANGED <<db, nhid, sessionVars, refused>>
  BY <1>3 DEF Rename, pastVars
<1>4. ASSUME NEW start, NEW end, Select(p, start, end)
      PROVE  UNCHANGED <<db, nhid, sessionVars, refused>>
  BY <1>4 DEF Select, pastVars
<1> QED
  BY <1>1, <1>2, <1>3, <1>4 DEF CliBegins

LEMMA ToolKeepsRowsInv ==
  ASSUME TypeInv, RemovesSessions, RowsInv, NEW p \in Cli,
         CliBegins(p) \/ CliStep(p) \/ Kill(p)
  PROVE  RowsInv'
<1>1. IsDb(db) /\ Bounded(DOMAIN db.meta)
  BY DEF TypeInv, DbOK, GoodDb
<1>2. UNCHANGED <<nhid, sessionVars, refused>>
  <2>1. CASE CliBegins(p)
    BY <2>1, CommandsBeginReading
  <2>2. CASE TakeLock(p) \/ LockTimesOut(p) \/ CheckName(p) \/ RenameSession(p)
    BY <2>2 DEF TakeLock, LockTimesOut, CheckName, RenameSession, pastVars
  <2>3. CASE DropTable(p) \/ NoTableToDrop(p) \/ DeleteRow(p) \/ OpenTable(p) \/ Kill(p)
    BY <2>3 DEF DropTable, NoTableToDrop, DeleteRow, OpenTable, Kill, pastVars
  <2> QED
    BY <2>1, <2>2, <2>3 DEF CliStep
<1>3. CASE db' = db
  BY <1>2, <1>3, RowsStay
<1>4. CASE RenameSession(p) \/ DeleteRow(p)
  <2>1. db'.rows = db.rows /\ db'.created = db.created
    <3>1. CASE RenameSession(p)
      <4>1. cli[p].new \in Names
        BY <3>1, NameAssumption
        DEF RenameSession, InCommand, TypeInv, CliOK, CommandOK, Names
      <4> QED
        BY <1>1, <3>1, <4>1, SameRows, RenameSessions DEF RenameSession, TypeInv, DbOK
    <3>2. CASE DeleteRow(p)
      BY <1>1, <3>2, SameRows, DeleteRowSessions DEF DeleteRow
    <3> QED
      BY <1>4, <3>1, <3>2
  <2> QED
    BY <1>2, <2>1, RowsStay
<1>5. CASE DropTable(p)
  <2>1. PICK h : h = Head(cli[p].todo)
    OBVIOUS
  <2>2. h \in Session
    <3>1. CommandOK(cli[p]) /\ cli[p].at = "drop"
      BY <1>5 DEF DropTable, InCommand, TypeInv, CliOK
    <3> QED
      BY <2>1, <3>1, HeadIsVisited DEF Busy, RemovesSessions
  <2>3. /\ db'.created = db.created \ {h}
        /\ db'.rows \in [Session -> Seq(Row)] /\ db'.rows[h] = <<>>
        /\ \A j \in Session : j # h => db'.rows[j] = db.rows[j]
    BY <1>1, <1>5, <2>1, <2>2, DropTableRows, DropTableSessions DEF DropTable, RowsInv, RowsGood
  <2>4. RowsGood' /\ PromptsCounted'
    BY <1>2, <2>2, <2>3 DEF RowsInv, RowsGood, PromptsCounted, sessionVars
  <2>5. \A i \in Recorded' : i \in Recorded /\ db'.rows[i] = db.rows[i]
    BY <1>2, <2>3 DEF Recorded, TypeInv, DbOK, GoodDb
  <2>6. RowsCounted' /\ RowsInOrder'
    BY <1>2, <2>5 DEF RowsInv, RowsCounted, RowsInOrder, Expected, sessionVars
  <2> QED
    BY <2>4, <2>6 DEF RowsInv
<1>6. db' = db \/ RenameSession(p) \/ DeleteRow(p) \/ DropTable(p)
  <2>1. CASE CliBegins(p)
    BY <2>1, CommandsBeginReading
  <2>2. CASE TakeLock(p) \/ LockTimesOut(p) \/ CheckName(p)
    BY <2>2 DEF TakeLock, LockTimesOut, CheckName
  <2>3. CASE NoTableToDrop(p) \/ OpenTable(p) \/ Kill(p)
    BY <2>3 DEF NoTableToDrop, OpenTable, Kill
  <2> QED
    BY <2>1, <2>2, <2>3 DEF CliStep
<1> QED
  BY <1>3, <1>4, <1>5, <1>6

LEMMA NhidKeepsRowsInv ==
  ASSUME TypeInv, TableInv, RowsInv, NhidStep
  PROVE  RowsInv'
<1>1. /\ IsDb(db) /\ Bounded(DOMAIN db.meta) /\ db.created \subseteq Session
      /\ live \subseteq begun /\ begun \subseteq Session
      /\ NoSession \notin Session
  BY SessionAssumption DEF TypeInv, DbOK, GoodDb, RestOK
<1>2. /\ nhid \in [at : NhidSteps, session : Session \cup {NoSession}]
      /\ nhid.at # "wait" => nhid.session \in Session
      /\ prompts \in [Session -> 0 .. MaxCommands]
      /\ \A i \in Session : prompts[i] \in Nat
  BY TextAssumption DEF TypeInv, NhidOK, RestOK
<1>3. ASSUME NEW i \in Session, Begin(i) PROVE RowsInv'
  <2>1. i \notin begun
    <3>1. i \in Nat
      BY SessionAssumption
    <3> QED
      BY <1>3, <3>1 DEF Begin
  <2>2. i \notin db.created
    BY <2>1 DEF TableInv, Known
  <2>3. /\ nhid.at = "wait" /\ nhid'.at = "table" /\ nhid'.session = i
        /\ begun' = begun \cup {i} /\ live' = live \cup {i}
        /\ UNCHANGED <<db, prompts, refused>>
    BY <1>3 DEF Begin, Handling, pastVars
  <2>4. RowsGood' /\ RowsInOrder'
    BY <2>3 DEF RowsInv, RowsGood, RowsInOrder, Recorded
  <2>5. PromptsCounted'
    BY <2>1, <2>3 DEF RowsInv, PromptsCounted
  <2>6. RowsCounted'
    BY <2>2, <2>3 DEF RowsInv, RowsCounted, Recorded, Expected
  <2> QED
    BY <2>4, <2>5, <2>6 DEF RowsInv
<1>4. ASSUME NEW i \in Session, PromptOf(i) PROVE RowsInv'
  <2>1. /\ nhid.at = "wait" /\ nhid'.at = "finish" /\ nhid'.session = i /\ i \in live
        /\ prompts' = [prompts EXCEPT ![i] = @ + 1]
        /\ UNCHANGED <<db, begun, live, refused>>
    BY <1>4 DEF PromptOf, Handling, pastVars
  <2>2. prompts'[i] = prompts[i] + 1 /\ \A j \in Session : j # i => prompts'[j] = prompts[j]
    BY <1>2, <2>1
  <2>3. RowsGood' /\ RowsInOrder'
    BY <2>1 DEF RowsInv, RowsGood, RowsInOrder, Recorded
  <2>4. PromptsCounted'
    BY <1>1, <2>1, <2>2 DEF RowsInv, PromptsCounted
  <2>5. RowsCounted'
    BY <1>1, <2>1, <2>2 DEF RowsInv, RowsCounted, Recorded, Expected
  <2> QED
    BY <2>3, <2>4, <2>5 DEF RowsInv
<1>5. ASSUME NEW i \in Session, ExitOf(i) PROVE RowsInv'
  <2>1. /\ nhid.at = "wait" /\ nhid'.at = "close" /\ live' \subseteq live
        /\ UNCHANGED <<db, begun, prompts, refused>>
    BY <1>5 DEF ExitOf, Handling, pastVars
  <2> QED
    BY <2>1 DEF RowsInv, RowsGood, RowsInOrder, RowsCounted, PromptsCounted, Recorded, Expected
<1>6. CASE NhidStops
  <2>1. nhid'.at = "wait" /\ live' = {} /\ UNCHANGED <<db, begun, prompts, refused>>
    BY <1>6 DEF NhidStops, Waiting
  <2> QED
    BY <2>1 DEF RowsInv, RowsGood, RowsInOrder, RowsCounted, PromptsCounted, Recorded, Expected
<1>7. PICK s : s = nhid.session
  OBVIOUS
<1>8. ASSUME NEW from \in NhidSteps \ {"wait"}, NEW to \in NhidSteps, NEW result,
             Statement(from, result, to)
      PROVE  /\ nhid.at = from /\ nhid'.at = to /\ s \in Session
             /\ IF to = "wait" THEN nhid'.session = NoSession ELSE nhid'.session = s
             /\ UNCHANGED <<begun, live, prompts>>
             /\ \/ db' = result /\ refused' = refused
                \/ db' = db /\ refused' = refused \cup {s}
  BY <1>2, <1>7, <1>8 DEF Statement, Handling, HandleNext, Waiting, sessionVars
<1>9. ASSUME NEW from \in NhidSteps \ {"wait"}, NEW to \in {"row", "meta", "next", "wait"},
             NEW result, Statement(from, result, to),
             to = "row" => from = "table",
             to # "wait" => s \in live,
             result.rows \in [Session -> Seq(Row)],
             \A j \in Session : j \notin result.created => result.rows[j] = <<>>,
             \A j \in Session : j # s => result.rows[j] = db.rows[j],
             result.created \subseteq db.created \cup {s},
             s \in result.created \ refused =>
               /\ s \in live => Len(result.rows[s]) =
                    IF to \in {"row", "finish", "next"} THEN prompts[s] ELSE prompts[s] + 1
               /\ \A k \in 1 .. Len(result.rows[s]) : result.rows[s][k].command \in {NoText, k}
      PROVE  RowsInv'
  <2>1. /\ nhid.at = from /\ nhid'.at = to /\ s \in Session
        /\ IF to = "wait" THEN nhid'.session = NoSession ELSE nhid'.session = s
        /\ UNCHANGED <<begun, live, prompts>>
        /\ \/ db' = result /\ refused' = refused
           \/ db' = db /\ refused' = refused \cup {s}
    BY <1>8, <1>9 DEF NhidSteps
  <2>6. RowsGood'
    BY <1>9, <2>1 DEF RowsInv, RowsGood
  <2>2. PromptsCounted'
    BY <1>7, <1>9, <2>1 DEF RowsInv, PromptsCounted, NhidSteps
  <2>3. ASSUME NEW j \in Recorded'
        PROVE  \/ j # s /\ j \in Recorded /\ db'.rows[j] = db.rows[j]
               \/ j = s /\ s \in result.created \ refused /\ db' = result
    BY <1>1, <1>9, <2>1, <2>3 DEF Recorded
  <2>4. RowsInOrder'
    BY <1>9, <2>3 DEF RowsInv, RowsInOrder
  <2>5. RowsCounted'
    <3> SUFFICES ASSUME NEW j \in (Recorded \cap live)'
                 PROVE  Len(db'.rows[j]) = Expected(j)'
      BY DEF RowsCounted
    <3>1. CASE j # s /\ j \in Recorded /\ db'.rows[j] = db.rows[j]
      <4>1. j \in Session /\ Expected(j) = prompts[j] + 1 /\ Expected(j)' = prompts[j] + 1
        BY <1>1, <1>7, <2>1, <3>1 DEF Expected, Recorded
      <4> QED
        BY <2>1, <3>1, <4>1 DEF RowsInv, RowsCounted
    <3>2. CASE j = s /\ s \in result.created \ refused /\ db' = result
      <4>1. Expected(s)' = IF to \in {"row", "finish", "next"} THEN prompts[s] ELSE prompts[s] + 1
        BY <2>1 DEF Expected
      <4>2. s \in live
        BY <2>1, <3>2
      <4> QED
        BY <1>9, <3>2, <4>1, <4>2
    <3> QED
      BY <2>3, <3>1, <3>2
  <2> QED
    BY <2>2, <2>4, <2>5, <2>6 DEF RowsInv
<1>10. nhid.at \notin {"wait", "close"} => s \in live /\ s \in Session
  BY <1>2, <1>7 DEF RowsInv, PromptsCounted
<1>11. s \in db.created \ refused =>
         /\ s \in live =>
              Len(db.rows[s]) = IF nhid.at \in {"row", "finish", "next"} THEN prompts[s]
                                ELSE prompts[s] + 1
         /\ \A k \in 1 .. Len(db.rows[s]) : db.rows[s][k].command \in {NoText, k}
  BY <1>7 DEF RowsInv, RowsCounted, RowsInOrder, Recorded, Expected
<1>12. /\ db.rows \in [Session -> Seq(Row)]
       /\ \A j \in Session : j \notin db.created => db.rows[j] = <<>>
  BY DEF RowsInv, RowsGood
<1>13. CASE CreateTable
  <2>1. PICK e : e = create_table(db, s)
    OBVIOUS
  <2>2. Statement("table", e, "row") /\ nhid.at = "table"
    BY <1>7, <1>13, <2>1 DEF CreateTable, Statement, Handling
  <2>3. e.created = db.created \cup {s} /\ e.rows = db.rows
    BY <1>1, <2>1, CreateTableSessions, SameRows
  <2>4. db.rows[s] = <<>> /\ prompts[s] = 0
    BY <1>7, <1>10, <1>12, <2>2 DEF TableInv, HalfRegistered, RowsInv, PromptsCounted
  <2>5. Len(e.rows[s]) = 0
    BY <2>3, <2>4
  <2> QED
    BY <1>9, <1>10, <1>12, <2>2, <2>3, <2>4, <2>5 DEF NhidSteps
\* create_row, wherever nhid opens a row.
<1>14. ASSUME NEW from \in {"row", "next"}, NEW to \in {"meta", "wait"}, NEW e,
              e = create_row(db, s), Statement(from, e, to)
       PROVE  RowsInv'
  <2>1. nhid.at = from
    BY <1>14 DEF Statement, Handling
  <2>2. e.created = db.created
    BY <1>1, <1>14, RowSessions DEF SameSessions
  <2>3. CASE s \notin db.created
    <3>1. e = db
      BY <1>14, <2>3 DEF create_row
    <3> QED
      BY <1>9, <1>10, <1>12, <1>14, <2>1, <2>3, <3>1 DEF NhidSteps
  <2>4. CASE s \in db.created
    <3>1. /\ e.rows \in [Session -> Seq(Row)]
          /\ Len(e.rows[s]) = Len(db.rows[s]) + 1
          /\ \A k \in 1 .. Len(e.rows[s]) :
               \/ e.rows[s][k].command = NoText
               \/ k \in 1 .. Len(db.rows[s]) /\ e.rows[s][k] = db.rows[s][k]
          /\ \A j \in Session : j # s => e.rows[j] = db.rows[j]
      BY <1>1, <1>10, <1>12, <1>14, <2>1, <2>4, CreateRowRows
    <3>2. \A j \in Session : j \notin e.created => e.rows[j] = <<>>
      BY <1>12, <2>2, <2>4, <3>1
    <3>3. s \in e.created \ refused =>
            /\ s \in live => Len(e.rows[s]) = prompts[s] + 1
            /\ \A k \in 1 .. Len(e.rows[s]) : e.rows[s][k].command \in {NoText, k}
      BY <1>11, <1>14, <2>1, <2>2, <3>1
    <3> QED
      BY <1>9, <1>10, <1>14, <2>1, <2>2, <3>1, <3>2, <3>3 DEF NhidSteps
  <2> QED
    BY <2>3, <2>4
<1>15. CASE CreateRow
  BY <1>7, <1>14, <1>15 DEF CreateRow
<1>16. CASE NextRow
  BY <1>7, <1>14, <1>16 DEF NextRow
<1>17. CASE FinishRow
  <2>1. PICK e : e = finish_row(db, s, prompts[s])
    OBVIOUS
  <2>2. Statement("finish", e, "next") /\ nhid.at = "finish"
    BY <1>7, <1>17, <2>1 DEF FinishRow, Statement, Handling
  <2>3. e.created = db.created
    BY <1>1, <2>1, RowSessions DEF SameSessions
  <2>4. CASE s \notin db.created
    <3>1. e = db
      BY <2>1, <2>4 DEF finish_row, UpdateLast, HasRow
    <3> QED
      BY <1>9, <1>10, <1>12, <2>2, <2>4, <3>1 DEF NhidSteps
  <2>5. CASE s \in db.created
    <3>1. prompts[s] \in 0 .. MaxCommands /\ s \in db.created \cap Session
      BY <1>2, <1>10, <2>2, <2>5
    <3>2. /\ e.rows \in [Session -> Seq(Row)]
          /\ Len(e.rows[s]) = Len(db.rows[s])
          /\ \A k \in 1 .. Len(db.rows[s]) :
               e.rows[s][k].command =
                 IF k = Len(db.rows[s]) THEN prompts[s] ELSE db.rows[s][k].command
          /\ \A j \in Session : j # s => e.rows[j] = db.rows[j]
      BY <1>1, <1>12, <2>1, <3>1, FinishRowRows
    <3>3. \A j \in Session : j \notin e.created => e.rows[j] = <<>>
      BY <1>12, <2>3, <2>5, <3>2
    <3>4. s \in e.created \ refused =>
            /\ s \in live => Len(e.rows[s]) = prompts[s]
            /\ \A k \in 1 .. Len(e.rows[s]) : e.rows[s][k].command \in {NoText, k}
      BY <1>10, <1>11, <2>2, <2>3, <3>2
    <3> QED
      BY <1>9, <1>10, <2>2, <2>3, <3>2, <3>3, <3>4 DEF NhidSteps
  <2> QED
    BY <2>4, <2>5
<1>18. ASSUME NEW from \in {"meta", "close"}, NEW e, Statement(from, e, "wait"),
              e.rows = db.rows, e.created = db.created
       PROVE  RowsInv'
  <2>1. nhid.at = from
    BY <1>18 DEF Statement, Handling
  <2> QED
    BY <1>9, <1>11, <1>12, <1>18, <2>1 DEF NhidSteps
<1>19. CASE MetaCreateRow
  <2>1. PICK e : e = meta_create_row(db, s)
    OBVIOUS
  <2>2. e.rows = db.rows /\ e.created = db.created
    BY <1>1, <2>1, SameRows, MetaCreateRowSessions
  <2> QED
    BY <1>7, <1>18, <1>19, <2>1, <2>2 DEF MetaCreateRow
<1>20. CASE FinishSession
  <2>1. PICK e : e = meta_add_finish_time(db, s)
    OBVIOUS
  <2>2. e.rows = db.rows /\ e.created = db.created
    BY <1>1, <2>1, SameRows, FinishTimeSessions
  <2> QED
    BY <1>7, <1>18, <1>20, <2>1, <2>2 DEF FinishSession
<1> QED
  BY <1>3, <1>4, <1>5, <1>6, <1>13, <1>15, <1>16, <1>17, <1>19, <1>20 DEF NhidStep

LEMMA InitRowsInv == AdminInit => RowsInv
<1> SUFFICES ASSUME AdminInit PROVE RowsInv
  OBVIOUS
<1>1. db.created = {} /\ db.rows = [i \in Session |-> <<>>]
  BY DEF AdminInit, EmptyDb
<1>2. RowsGood
  <2>1. <<>> \in Seq(Row)
    OBVIOUS
  <2> QED
    BY <1>1, <2>1 DEF RowsGood
<1> QED
  BY <1>1, <1>2
  DEF AdminInit, Waiting, RowsInv, PromptsCounted, RowsCounted, RowsInOrder, Recorded

LEMMA StepKeepsRowsInv == AdminInv /\ RowsInv /\ [AdminNext]_adminVars => RowsInv'
<1> SUFFICES ASSUME AdminInv, RowsInv, [AdminNext]_adminVars PROVE RowsInv'
  OBVIOUS
<1>1. TypeInv /\ TableInv /\ RemovesSessions
  BY RemovesKnownSessions DEF AdminInv
<1>2. CASE NhidStep
  BY <1>1, <1>2, NhidKeepsRowsInv
<1>3. ASSUME NEW p \in Cli, CliBegins(p) \/ CliStep(p) \/ Kill(p) PROVE RowsInv'
  BY <1>1, <1>3, ToolKeepsRowsInv
<1>4. CASE UNCHANGED adminVars
  BY <1>4, RowsStay DEF adminVars, pastVars
<1> QED
  BY <1>2, <1>3, <1>4 DEF AdminNext

\* Whatever remove and rename do meanwhile, row k of a session holds its k-th
\* command (nhi.c:303-308), unless a statement of nhid was refused.
THEOREM RowsFollow == AdminSpec => []RowsFollowCommands
<1>1. AdminInv /\ RowsInv => RowsFollowCommands
  <2> SUFFICES ASSUME AdminInv, RowsInv, NEW i \in Recorded, NEW k \in DOMAIN db.rows[i]
               PROVE  db.rows[i][k].command \in {NoText, k}
    BY DEF RowsFollowCommands, Recorded
  <2>1. i \in Session
    BY DEF Recorded, AdminInv, TypeInv, DbOK, GoodDb
  <2>2. db.rows[i] \in Seq(Row)
    BY <2>1 DEF RowsInv, RowsGood
  <2> QED
    BY <2>2 DEF RowsInv, RowsInOrder
<1> QED
  BY <1>1, InitRowsInv, StepKeepsRowsInv, AdminInvariant, PTL DEF AdminSpec

----------------------------------------------------------------------------
(* What the commands of the tool leave behind: the names rename gives, the  *)
(* tables log misses, the sessions remove visits.                           *)

LEMMA EndIsOver ==
  ASSUME CliOK, NEW p \in Cli, NEW how, End(p, how)
  PROVE  cli'[p].at = how /\ \A q \in Cli \ {p} : cli'[q] = cli[q]
<1> DEFINE c == Over(how)
<1>1. c.at = how
  BY DEF Over, NewCommand
<1>2. cli' = [cli EXCEPT ![p] = c]
  BY DEF End
<1> HIDE DEF c
<1> QED
  BY <1>1, <1>2, OneProcess

\* Where the first step of a command leads.
BeginsAt(p) ==
  /\ cli'[p].at \in {"check", "drop", "log", "done", "failed"}
  /\ \A q \in Cli \ {p} : cli'[q] = cli[q]
  /\ cli'[p].at = "log" => Range(cli'[p].todo) \subseteq Listed(db) \cup {NoSession}

LEMMA BeginMoves ==
  ASSUME TypeInv, NEW p \in Cli, CliBegins(p)
  PROVE  /\ UNCHANGED <<db, nhid, gone, broken, clash>>
         /\ cli[p].at = "idle" /\ cli[p].todo = <<>>
         /\ BeginsAt(p)
<1>1. CliOK /\ cli[p] \in Command /\ CommandOK(cli[p]) /\ cli[p].at = "idle"
  BY DEF TypeInv, CliOK, CliBegins, LookUp, Rename, Select, Log, InCommand
<1>2. UNCHANGED <<db, nhid, gone, broken, clash>> /\ cli[p].todo = <<>>
  BY <1>1 DEF CliBegins, LookUp, Rename, Select, Log, sessionVars, pastVars, CommandOK, Busy
<1>3. ASSUME NEW c, cli' = [cli EXCEPT ![p] = c],
             c.at \in {"check", "drop", "log", "done", "failed"},
             c.at = "log" => Range(c.todo) \subseteq Listed(db) \cup {NoSession}
      PROVE  BeginsAt(p)
  BY <1>1, <1>3, OneProcess DEF BeginsAt
<1>4. ASSUME NEW todo, NEW at \in {"log", "drop"},
             cli' = [cli EXCEPT ![p].todo = todo, ![p].at = at],
             at = "log" => Range(todo) \subseteq Listed(db) \cup {NoSession}
      PROVE  BeginsAt(p)
  <2> DEFINE c == [cli[p] EXCEPT !.todo = todo, !.at = at]
  <2>1. c.at = at /\ c.todo = todo
    BY <1>1, CommandFields
  <2>2. cli' = [cli EXCEPT ![p] = c]
    BY <1>4
  <2> HIDE DEF c
  <2> QED
    BY <1>3, <1>4, <2>1, <2>2
<1>5. ASSUME NEW how \in {"done", "failed"}, End(p, how) PROVE BeginsAt(p)
  <2>1. Over(how).at = how
    BY DEF Over, NewCommand
  <2> QED
    BY <1>3, <1>5, <2>1 DEF End
<1>6. ASSUME NEW argument, LookUp(p, argument) PROVE BeginsAt(p)
  <2> DEFINE i == GetSessionIndicator(argument)
             todo == <<i>>
  <2>1. i \in Listed(db) \cup {NoSession}
    BY FoundIsListed
  <2>2. cli' = [cli EXCEPT ![p].todo = todo, ![p].at = "log"]
    BY <1>6 DEF LookUp
  <2> HIDE DEF i
  <2>3. Range(todo) = {i}
    BY DEF Range
  <2> HIDE DEF todo
  <2> QED
    BY <1>4, <2>1, <2>2, <2>3
<1>7. ASSUME NEW argument, NEW new, Rename(p, argument, new) PROVE BeginsAt(p)
  <2> DEFINE c == [cli[p] EXCEPT !.at = "check", !.new = new,
                                 !.session = GetSessionIndicator(argument)]
  <2>1. c.at = "check"
    BY <1>1, CommandFields
  <2>2. cli' = [cli EXCEPT ![p] = c]
    BY <1>7 DEF Rename
  <2> HIDE DEF c
  <2> QED
    BY <1>3, <2>1, <2>2
<1>8. ASSUME NEW start, NEW end, Select(p, start, end) PROVE BeginsAt(p)
  <2>1. CASE End(p, "done")
    BY <1>5, <2>1
  <2>2. ASSUME NEW todo, cli' = [cli EXCEPT ![p].todo = todo, ![p].at = "drop"] PROVE BeginsAt(p)
    BY <1>4, <2>2
  <2> QED
    BY <1>8, <2>1, <2>2 DEF Select
<1>9. ASSUME Log(p) PROVE BeginsAt(p)
  <2>1. CASE DOMAIN db.meta = {}
    <3>1. End(p, "done")
      BY <1>9, <2>1 DEF Log
    <3> QED
      BY <1>5, <3>1
  <2>2. CASE DOMAIN db.meta # {}
    <3>1. PICK s \in InOrder(DOMAIN db.meta) :
            cli' = [cli EXCEPT ![p].todo = Sessions(Reverse(s)), ![p].at = "log"]
      BY <1>9, <2>2 DEF Log
    <3> DEFINE todo == Sessions(Reverse(s))
    <3>2. Range(todo) \subseteq Listed(db)
      BY <2>2, SelectedRows
    <3>3. cli' = [cli EXCEPT ![p].todo = todo, ![p].at = "log"]
      BY <3>1
    <3> HIDE DEF todo
    <3> QED
      BY <1>4, <3>2, <3>3
  <2> QED
    BY <2>1, <2>2
<1>10. BeginsAt(p)
  BY <1>6, <1>7, <1>8, <1>9 DEF CliBegins
<1> QED
  BY <1>1, <1>2, <1>10

\* Where every other step of the tool but CheckName, RenameSession and OpenTable
\* leads.
RemovesOn(p) ==
  \/ TakeLock(p) \/ LockTimesOut(p) \/ DropTable(p) \/ NoTableToDrop(p) \/ DeleteRow(p) \/ Kill(p)

LEMMA RemoveMoves ==
  ASSUME TypeInv, NEW p \in Cli, RemovesOn(p)
  PROVE  /\ clash' = clash /\ db'.name = db.name
         /\ Listed(db') \subseteq Listed(db) /\ Listed(db) \subseteq Listed(db') \cup gone'
         /\ gone \subseteq gone' /\ broken \subseteq broken'
         /\ cli' = cli \/ cli'[p].at \in {"drop", "delete", "done", "failed", "killed"}
         /\ \A q \in Cli \ {p} : cli'[q] = cli[q]
<1>1. CliOK /\ CommandOK(cli[p]) /\ cli[p] \in Command /\ IsDb(db) /\ Bounded(DOMAIN db.meta)
  BY DEF TypeInv, CliOK, DbOK, GoodDb
<1> DEFINE Goal == /\ cli'[p].at \in {"drop", "delete", "done", "failed", "killed"}
                   /\ \A q \in Cli \ {p} : cli'[q] = cli[q]
<1>2. ASSUME NEW c, cli' = [cli EXCEPT ![p] = c],
             c.at \in {"drop", "delete", "done", "failed", "killed"}
      PROVE  Goal
  BY <1>1, <1>2, OneProcess
<1>3. ASSUME NEW how \in {"done", "failed", "killed"}, End(p, how) PROVE Goal
  <2>1. Over(how).at = how
    BY DEF Over, NewCommand
  <2> QED
    BY <1>2, <1>3, <2>1 DEF End
<1>4. ASSUME GoOn(p, "delete") PROVE Goal
  <2> DEFINE c == [cli[p] EXCEPT !.at = "delete"]
  <2>1. c.at = "delete"
    BY <1>1, CommandFields
  <2>2. cli' = [cli EXCEPT ![p] = c]
    BY <1>4 DEF GoOn
  <2> HIDE DEF c
  <2> QED
    BY <1>2, <2>1, <2>2
<1>5. ASSUME InCommand(p, "delete"), cli' = [cli EXCEPT ![p] = Rest(@)] PROVE Goal
  BY <1>1, <1>2, <1>5, RestIsOK DEF InCommand
<1> HIDE DEF Goal
<1>6. CASE TakeLock(p)
  BY <1>6 DEF TakeLock, pastVars
<1>7. CASE LockTimesOut(p)
  BY <1>3, <1>4, <1>5, <1>7 DEF LockTimesOut, Goal
<1>8. CASE DropTable(p)
  <2>1. db'.name = db.name /\ Listed(db') = Listed(db)
    BY <1>1, <1>8, DropTableSessions DEF DropTable, Listed
  <2> QED
    BY <1>4, <1>8, <2>1 DEF DropTable, pastVars, Goal
<1>9. CASE NoTableToDrop(p)
  BY <1>4, <1>9 DEF NoTableToDrop, pastVars, Goal
<1>10. CASE DeleteRow(p)
  <2>1. db'.name = db.name /\ Listed(db') = Listed(db) \ {Head(cli[p].todo)}
    BY <1>1, <1>10, DeleteRowSessions DEF DeleteRow
  <2> QED
    BY <1>5, <1>10, <2>1 DEF DeleteRow, Goal
<1>11. CASE Kill(p)
  BY <1>3, <1>11 DEF Kill, Goal
<1> QED
  BY <1>6, <1>7, <1>8, <1>9, <1>10, <1>11 DEF RemovesOn

\* What nhid does to names and to meta.
LEMMA NhidKeepsNames ==
  ASSUME TypeInv, NhidStep
  PROVE  /\ UNCHANGED <<cli, clash, gone>> /\ broken \subseteq broken'
         /\ \/ db'.name = db.name /\ Listed(db') = Listed(db)
            \/ \E i \in Session : /\ db'.name = [db.name EXCEPT ![i] = i]
                                  /\ Listed(db') = Listed(db) \cup {i}
<1>1. IsDb(db) /\ Bounded(DOMAIN db.meta) /\ NhidOK
  BY DEF TypeInv, DbOK, GoodDb
<1>2. ASSUME NEW from, NEW result, NEW to, Statement(from, result, to)
      PROVE  /\ UNCHANGED <<cli, clash, gone>> /\ broken \subseteq broken'
             /\ nhid.at = from /\ (db' = result \/ db' = db)
  BY <1>2 DEF Statement, Handling
<1> DEFINE s == nhid.session
<1>3. ASSUME NEW i \in Session, Begin(i) \/ PromptOf(i) \/ ExitOf(i)
      PROVE  UNCHANGED <<cli, clash, gone, broken, db>>
  BY <1>3 DEF Begin, PromptOf, ExitOf, pastVars
<1>4. CASE NhidStops
  BY <1>4 DEF NhidStops
<1>5. CASE CreateTable
  <2>1. create_table(db, s).name = db.name /\ Listed(create_table(db, s)) = Listed(db)
    BY <1>1, CreateTableSessions DEF Listed
  <2> QED
    BY <1>2, <1>5, <2>1 DEF CreateTable
<1>6. CASE CreateRow \/ NextRow
  <2>1. create_row(db, s).name = db.name /\ Listed(create_row(db, s)) = Listed(db)
    BY <1>1, RowSessions DEF SameSessions, Listed
  <2> QED
    BY <1>2, <1>6, <2>1 DEF CreateRow, NextRow
<1>7. CASE FinishRow
  <2> DEFINE d == finish_row(db, s, prompts[s])
  <2>1. d.name = db.name /\ Listed(d) = Listed(db)
    BY <1>1, RowSessions DEF SameSessions, Listed
  <2>2. Statement("finish", d, "next")
    BY <1>7 DEF FinishRow
  <2> HIDE DEF d
  <2> QED
    BY <1>2, <2>1, <2>2
<1>8. CASE FinishSession
  <2>1. /\ meta_add_finish_time(db, s).name = db.name
        /\ Listed(meta_add_finish_time(db, s)) = Listed(db)
    BY <1>1, FinishTimeSessions DEF Listed
  <2> QED
    BY <1>2, <1>8, <2>1 DEF FinishSession
<1>9. CASE MetaCreateRow
  <2>1. /\ meta_create_row(db, s).name = [db.name EXCEPT ![s] = s]
        /\ Listed(meta_create_row(db, s)) = Listed(db) \cup {s}
    BY <1>1, MetaCreateRowSessions
  <2>2. /\ UNCHANGED <<cli, clash, gone>> /\ broken \subseteq broken'
        /\ nhid.at = "meta" /\ (db' = meta_create_row(db, s) \/ db' = db)
    BY <1>2, <1>9 DEF MetaCreateRow
  <2>3. s \in Session
    BY <1>1, <2>2 DEF NhidOK
  <2> QED
    BY <2>1, <2>2, <2>3
<1> QED
  BY <1>3, <1>4, <1>5, <1>6, <1>7, <1>8, <1>9 DEF NhidStep

----------------------------------------------------------------------------
(* Names. *)

\* A rename that has found its name free is the only one to have found it free,
\* or the name is in clash; and no session has it by then, unless it clashes or
\* is the default of one that has begun since.
FreeName ==
  \A p \in Cli : cli[p].at = "rename" =>
    \/ cli[p].new \in clash
    \/ \A i \in Listed(db) : db.name[i] = cli[p].new => i = cli[p].new

RivalsClash ==
  \A p, q \in Cli : p # q /\ cli[p].at = "rename" /\ cli[q].at = "rename"
                      /\ cli[p].new = cli[q].new => cli[p].new \in clash

NameInv == NamesDistinct /\ FreeName /\ RivalsClash

LEMMA QuietNames ==
  ASSUME NameInv, NEW p \in Cli, clash' = clash, db'.name = db.name,
         Listed(db') \subseteq Listed(db), \A q \in Cli \ {p} : cli'[q] = cli[q],
         cli' = cli \/ cli'[p].at # "rename"
  PROVE  NameInv'
BY DEF NameInv, NamesDistinct, FreeName, RivalsClash

LEMMA CheckNameKeepsNameInv ==
  ASSUME TypeInv, NameInv, NEW p \in Cli, CheckName(p) PROVE NameInv'
<1>1. CliOK /\ cli[p] \in Command /\ cli[p].at = "check" /\ db' = db
  BY DEF TypeInv, CliOK, CheckName, InCommand
<1>2. CASE \E i \in Listed(db) : db.name[i] = cli[p].new
  <2>1. cli' = [cli EXCEPT ![p] = Over("failed")] /\ clash' = clash
    BY <1>2 DEF CheckName, End
  <2>2. Over("failed").at # "rename"
    BY DEF Over, NewCommand
  <2> QED
    BY <1>1, <2>1, <2>2, OneProcess, QuietNames
<1>3. CASE ~ \E i \in Listed(db) : db.name[i] = cli[p].new
  <2> DEFINE c == [cli[p] EXCEPT !.at = "rename"]
  <2>1. c.at = "rename" /\ c.new = cli[p].new
    BY <1>1 DEF Command
  <2>2. /\ cli' = [cli EXCEPT ![p] = c]
        /\ clash' = IF Rivals(p) = {} THEN clash ELSE clash \cup {cli[p].new}
    BY <1>3 DEF CheckName, GoOn
  <2> HIDE DEF c
  <2>3. cli'[p] = c /\ \A q \in Cli \ {p} : cli'[q] = cli[q]
    BY <1>1, <2>2, OneProcess
  <2>4. clash \subseteq clash'
    BY <2>2
  <2>5. NamesDistinct' /\ FreeName'
    BY <1>1, <1>3, <2>1, <2>3, <2>4 DEF NameInv, NamesDistinct, FreeName
  <2>6. \A q \in Cli \ {p} : cli[q].at = "rename" /\ cli[q].new = cli[p].new => cli[p].new \in clash'
    BY <2>2 DEF Rivals, InCommand
  <2>7. RivalsClash'
    BY <2>1, <2>3, <2>4, <2>6 DEF NameInv, RivalsClash
  <2> QED
    BY <2>5, <2>7 DEF NameInv
<1> QED
  BY <1>2, <1>3

LEMMA RenameKeepsNameInv ==
  ASSUME TypeInv, NameInv, NEW p \in Cli, RenameSession(p) PROVE NameInv'
<1> DEFINE new == cli[p].new
           s == cli[p].session
<1>1. CliOK /\ CommandOK(cli[p]) /\ cli[p].at = "rename" /\ GoodDb(db) /\ clash' = clash
  BY DEF TypeInv, DbOK, CliOK, RenameSession, InCommand, pastVars
<1>2. new \in Names
  BY <1>1, NameAssumption DEF CommandOK, Names
<1>3. Listed(db') = Listed(db) /\ Listed(db) \subseteq Session
  BY <1>1, <1>2, RenameSessions DEF RenameSession, Listed, GoodDb
<1>4. \A j \in Listed(db) : db'.name[j] = IF j = s THEN new ELSE db.name[j]
  BY <1>1, <1>2, <1>3, RenameSessions DEF RenameSession
<1>5. cli' = [cli EXCEPT ![p] = Over("done")] /\ Over("done").at = "done"
  BY DEF RenameSession, End, Over, NewCommand
<1>6. cli'[p].at = "done" /\ \A q \in Cli \ {p} : cli'[q] = cli[q]
  BY <1>1, <1>5, OneProcess
<1>7. NamesDistinct'
  <2>1. ASSUME NEW i \in Listed(db), NEW j \in Listed(db), i # j, db'.name[i] = db'.name[j]
        PROVE  db'.name[i] \in clash \cup {i, j}
    <3>1. CASE i = s \/ j = s
      BY <1>1, <1>4, <2>1, <3>1 DEF NameInv, FreeName
    <3>2. CASE i # s /\ j # s
      BY <1>4, <2>1, <3>2 DEF NameInv, NamesDistinct
    <3> QED
      BY <3>1, <3>2
  <2> QED
    BY <1>1, <1>3, <2>1 DEF NamesDistinct
<1>8. FreeName'
  <2>1. ASSUME NEW q \in Cli, cli'[q].at = "rename"
        PROVE  \/ cli'[q].new \in clash
               \/ \A i \in Listed(db) : db'.name[i] = cli'[q].new => i = cli'[q].new
    <3>1. q # p /\ cli'[q] = cli[q]
      BY <1>6, <2>1
    <3>2. CASE cli[q].new = new
      BY <1>1, <2>1, <3>1, <3>2 DEF NameInv, RivalsClash
    <3>3. CASE cli[q].new # new
      BY <1>4, <2>1, <3>1, <3>3 DEF NameInv, FreeName
    <3> QED
      BY <3>2, <3>3
  <2> QED
    BY <1>1, <1>3, <2>1 DEF FreeName
<1>9. RivalsClash'
  BY <1>1, <1>6 DEF NameInv, RivalsClash
<1> QED
  BY <1>7, <1>8, <1>9 DEF NameInv

LEMMA StepKeepsNameInv == TypeInv /\ NameInv /\ [AdminNext]_adminVars => NameInv'
<1> SUFFICES ASSUME TypeInv, NameInv, [AdminNext]_adminVars PROVE NameInv'
  OBVIOUS
<1>1. ASSUME NhidStep PROVE NameInv'
  <2>1. UNCHANGED <<cli, clash>>
    BY <1>1, NhidKeepsNames
  <2>2. CASE db'.name = db.name /\ Listed(db') = Listed(db)
    BY <2>1, <2>2 DEF NameInv, NamesDistinct, FreeName, RivalsClash
  <2>3. ASSUME NEW i \in Session, db'.name = [db.name EXCEPT ![i] = i],
               Listed(db') = Listed(db) \cup {i}
        PROVE  NameInv'
    <3>1. \A j \in Listed(db') : db'.name[j] = IF j = i THEN i ELSE db.name[j]
      BY <2>3 DEF TypeInv, DbOK, GoodDb
    <3> QED
      BY <2>1, <2>3, <3>1 DEF NameInv, NamesDistinct, FreeName, RivalsClash
  <2> QED
    BY <1>1, <2>2, <2>3, NhidKeepsNames
<1>2. ASSUME NEW p \in Cli, CliBegins(p) PROVE NameInv'
  BY <1>2, BeginMoves, QuietNames DEF BeginsAt
<1>3. ASSUME NEW p \in Cli, RemovesOn(p) PROVE NameInv'
  BY <1>3, RemoveMoves, QuietNames
<1>4. ASSUME NEW p \in Cli, OpenTable(p) PROVE NameInv'
  <2> DEFINE c == Opened(cli[p])
  <2>1. CliOK /\ cli[p] \in Command /\ cli[p].at = "log"
    BY <1>4 DEF TypeInv, CliOK, OpenTable, InCommand
  <2>2. c.at # "rename"
    BY <2>1 DEF Opened, Over, NewCommand, Command
  <2>3. cli' = [cli EXCEPT ![p] = c] /\ UNCHANGED <<db, clash>>
    BY <1>4 DEF OpenTable, pastVars
  <2> HIDE DEF c
  <2> QED
    BY <2>1, <2>2, <2>3, OneProcess, QuietNames
<1>5. ASSUME NEW p \in Cli, CliStep(p) \/ Kill(p) PROVE NameInv'
  BY <1>3, <1>4, <1>5, CheckNameKeepsNameInv, RenameKeepsNameInv DEF CliStep, RemovesOn
<1>6. CASE UNCHANGED adminVars
  BY <1>6 DEF adminVars, pastVars, NameInv, NamesDistinct, FreeName, RivalsClash
<1> QED
  BY <1>1, <1>2, <1>5, <1>6 DEF AdminNext

\* checkIfNameIsUsed and the UPDATE are two statements (rename.go:23-29): two
\* sessions still share a name only if two renames overlapped there, or one of the
\* two has had it from its beginning.
THEOREM NamesStayDistinct == AdminSpec => []NamesDistinct
<1>1. AdminInit => NameInv
  <2>1. AdminInit => Listed(db) = {} /\ \A p \in Cli : cli[p].at = "idle"
    BY EmptyDbSessions DEF AdminInit, Listed, Range, NewCommand
  <2> QED
    BY <2>1 DEF NameInv, NamesDistinct, FreeName, RivalsClash
<1>2. AdminInv /\ NameInv /\ [AdminNext]_adminVars => NameInv'
  BY StepKeepsNameInv DEF AdminInv
<1>3. NameInv => NamesDistinct
  BY DEF NameInv
<1> QED
  BY <1>1, <1>2, <1>3, AdminInvariant, PTL DEF AdminSpec

----------------------------------------------------------------------------
(* The tables log and the look-ups open. *)

Visiting(p) == IF cli[p].at = "log" THEN Range(cli[p].todo) ELSE {}

BeingDeleted == {i \in Session : \E q \in Cli : Deleting(q, i)}
Explained == {NoSession} \cup gone \cup broken \cup BeingDeleted

VisitsOK ==
  /\ \A p \in Cli : Visiting(p) \subseteq Listed(db) \cup gone \cup {NoSession}
  /\ \A p \in Cli : cli[p].at = "missing" => cli[p].session \in Explained

\* What a step does to the sessions somebody has to visit.
MetaShrinks ==
  Listed(db) \subseteq Listed(db') \cup gone' /\ gone \subseteq gone' /\ Explained \subseteq Explained'

LEMMA VisitsStep ==
  ASSUME VisitsOK, MetaShrinks, NEW p \in Cli,
         \A q \in Cli \ {p} : cli'[q] = cli[q],
         Visiting(p)' \subseteq Visiting(p) \cup Listed(db) \cup {NoSession},
         cli'[p].at = "missing" => cli'[p].session \in Explained'
  PROVE  VisitsOK'
<1>1. \A q \in Cli \ {p} : Visiting(q)' = Visiting(q)
  BY DEF Visiting
<1>2. \A q \in Cli : Visiting(q)' \subseteq Listed(db') \cup gone' \cup {NoSession}
  BY <1>1 DEF VisitsOK, MetaShrinks
<1>3. \A q \in Cli : cli'[q].at = "missing" => cli'[q].session \in Explained'
  BY DEF VisitsOK, MetaShrinks
<1> QED
  BY <1>2, <1>3 DEF VisitsOK

\* Sessions being deleted have been deleted, or else something is broken.
LEMMA ToolShrinksMeta ==
  ASSUME TypeInv, RemovesSessions, NEW p \in Cli, CliStep(p) \/ Kill(p)
  PROVE  MetaShrinks
<1>1. CASE QuietStep
  BY <1>1 DEF QuietStep, MetaShrinks, Explained, BeingDeleted
<1>2. ASSUME NEW h \in Session, DropStep(h) PROVE MetaShrinks
  BY <1>2 DEF DropStep, MetaShrinks, Explained, BeingDeleted
<1>3. ASSUME NEW h \in Session, DeleteStep(h) PROVE MetaShrinks
  BY <1>3 DEF DeleteStep, MetaShrinks, Explained, BeingDeleted
<1> QED
  BY <1>1, <1>2, <1>3, CliStepIsDropOrDelete

\* A table log does not find is not that of a session just starting: those are
\* not in meta yet.
LEMMA MissingTable ==
  ASSUME TypeInv, TableInv, VisitsOK, NEW i \in Listed(db) \cup gone \cup {NoSession},
         i \notin db.created
  PROVE  i \in Explained
<1>1. CASE i \in gone \cup {NoSession}
  BY <1>1 DEF Explained
<1>2. CASE i \in Listed(db)
  <2>1. i \in Session
    BY <1>2 DEF TypeInv, DbOK, GoodDb
  <2>2. ~ Registering(i)
    BY <1>2 DEF TableInv, NotSeenYet, Registering, Starting
  <2>3. BetweenDropAndDelete(i) \/ i \in broken
    BY <1>2, <2>1, <2>2 DEF TableInv, TablesAndMetaAgree
  <2> QED
    BY <2>1, <2>3, BetweenIsDeleting DEF Explained, BeingDeleted
<1> QED
  BY <1>1, <1>2

LEMMA OpenTableKeepsVisitsOK ==
  ASSUME TypeInv, TableInv, VisitsOK, NEW p \in Cli, OpenTable(p)
  PROVE  VisitsOK'
<1> DEFINE c == Opened(cli[p])
           h == Head(cli[p].todo)
<1>1. CliOK /\ CommandOK(cli[p]) /\ cli[p] \in Command /\ cli[p].at = "log"
  BY DEF TypeInv, CliOK, OpenTable, InCommand
<1>2. cli' = [cli EXCEPT ![p] = c] /\ UNCHANGED <<db, gone, broken>>
  BY DEF OpenTable, pastVars
<1>3. MetaShrinks
  BY ToolShrinksMeta, RemovesKnownSessions DEF CliStep
<1>4. h \in Listed(db) \cup gone \cup {NoSession}
  BY <1>1, HeadIsVisited DEF VisitsOK, Visiting, Busy
<1>5. /\ c.at \in {"log", "missing", "done"}
      /\ c.at = "log" => Range(c.todo) \subseteq Range(cli[p].todo)
      /\ c.at = "missing" => c.session \in Explained
  <2>1. CASE h \notin db.created
    <3>1. c.at = "missing" /\ c.session = h
      BY <2>1 DEF Opened, Over, NewCommand
    <3> QED
      BY <1>4, <2>1, <3>1, MissingTable
  <2>2. CASE h \in db.created /\ Len(cli[p].todo) = 1
    BY <2>2 DEF Opened, Over, NewCommand
  <2>3. CASE h \in db.created /\ Len(cli[p].todo) # 1
    <3>1. c.at = "log" /\ c.todo = Tail(cli[p].todo)
      BY <1>1, <2>3 DEF Opened, Command
    <3>2. Range(Tail(cli[p].todo)) \subseteq Range(cli[p].todo)
      BY <1>1, <2>3, TailOK DEF Busy
    <3> QED
      BY <3>1, <3>2
  <2> QED
    BY <2>1, <2>2, <2>3
<1> HIDE DEF c
<1>6. cli'[p] = c /\ \A q \in Cli \ {p} : cli'[q] = cli[q]
  BY <1>1, <1>2, OneProcess
<1>7. Visiting(p)' \subseteq Visiting(p)
  BY <1>1, <1>5, <1>6 DEF Visiting
<1>8. cli'[p].at = "missing" => cli'[p].session \in Explained'
  BY <1>3, <1>5, <1>6 DEF MetaShrinks
<1> QED
  BY <1>3, <1>6, <1>7, <1>8, VisitsStep

LEMMA StepKeepsVisitsOK ==
  AdminInv /\ VisitsOK /\ [AdminNext]_adminVars => VisitsOK'
<1> SUFFICES ASSUME AdminInv, VisitsOK, [AdminNext]_adminVars PROVE VisitsOK'
  OBVIOUS
<1>1. TypeInv /\ TableInv /\ RemovesSessions /\ CliOK
  BY RemovesKnownSessions DEF AdminInv, TypeInv
<1>2. ASSUME NhidStep PROVE VisitsOK'
  <2>1. UNCHANGED <<cli, gone>> /\ broken \subseteq broken' /\ Listed(db) \subseteq Listed(db')
    BY <1>1, <1>2, NhidKeepsNames
  <2> QED
    BY <2>1 DEF VisitsOK, Visiting, Explained, BeingDeleted, Deleting
<1>3. ASSUME NEW p \in Cli, CliBegins(p) PROVE VisitsOK'
  <2>1. UNCHANGED <<db, gone, broken>> /\ cli[p].at = "idle" /\ BeginsAt(p)
    BY <1>1, <1>3, BeginMoves
  <2>2. \A q \in Cli, i \in Session : Deleting(q, i) => Deleting(q, i)'
    BY <2>1 DEF Deleting, BeginsAt
  <2>3. MetaShrinks
    BY <2>1, <2>2 DEF MetaShrinks, Explained, BeingDeleted
  <2>4. Visiting(p)' \subseteq Visiting(p) \cup Listed(db) \cup {NoSession}
    BY <2>1 DEF BeginsAt, Visiting
  <2> QED
    BY <2>1, <2>3, <2>4, VisitsStep DEF BeginsAt
<1>4. ASSUME NEW p \in Cli, MetaShrinks, \A q \in Cli \ {p} : cli'[q] = cli[q],
             cli' = cli \/ cli'[p].at \notin {"log", "missing"}
      PROVE  VisitsOK'
  <2>1. CASE cli' = cli
    BY <1>4, <2>1 DEF VisitsOK, Visiting, MetaShrinks
  <2>2. CASE cli'[p].at \notin {"log", "missing"}
    BY <1>4, <2>2, VisitsStep DEF Visiting
  <2> QED
    BY <1>4, <2>1, <2>2
<1>5. ASSUME NEW p \in Cli, RemovesOn(p) PROVE VisitsOK'
  <2>1. MetaShrinks
    BY <1>1, <1>5, ToolShrinksMeta DEF RemovesOn, CliStep
  <2> QED
    BY <1>1, <1>4, <1>5, <2>1, RemoveMoves
<1>6. ASSUME NEW p \in Cli, CheckName(p) PROVE VisitsOK'
  <2>1. MetaShrinks
    BY <1>1, <1>6, ToolShrinksMeta DEF CliStep
  <2>2. cli'[p].at \notin {"log", "missing"} /\ \A q \in Cli \ {p} : cli'[q] = cli[q]
    <3>1. CASE End(p, "failed")
      BY <1>1, <3>1, EndIsOver
    <3>2. CASE GoOn(p, "rename")
      <4> DEFINE c == [cli[p] EXCEPT !.at = "rename"]
      <4>1. c.at = "rename"
        BY <1>1 DEF CliOK, Command
      <4>2. cli' = [cli EXCEPT ![p] = c]
        BY <3>2 DEF GoOn
      <4> HIDE DEF c
      <4> QED
        BY <1>1, <4>1, <4>2, OneProcess
    <3> QED
      BY <1>6, <3>1, <3>2 DEF CheckName
  <2> QED
    BY <1>4, <2>1, <2>2
<1>7. ASSUME NEW p \in Cli, RenameSession(p) PROVE VisitsOK'
  <2>1. MetaShrinks
    BY <1>1, <1>7, ToolShrinksMeta DEF CliStep
  <2>2. cli'[p].at = "done" /\ \A q \in Cli \ {p} : cli'[q] = cli[q]
    BY <1>1, <1>7, EndIsOver DEF RenameSession
  <2> QED
    BY <1>4, <2>1, <2>2
<1>8. ASSUME NEW p \in Cli, CliStep(p) \/ Kill(p) PROVE VisitsOK'
  BY <1>1, <1>5, <1>6, <1>7, <1>8, OpenTableKeepsVisitsOK DEF CliStep, RemovesOn
<1>9. CASE UNCHANGED adminVars
  BY <1>9 DEF adminVars, pastVars, VisitsOK, Visiting, Explained, BeingDeleted, Deleting
<1> QED
  BY <1>2, <1>3, <1>8, <1>9 DEF AdminNext

\* log, log-session and fetch read meta and open the tables later (log.go:42,
\* log.go:193-196): a table they miss is that of a session being removed, already
\* removed or left broken, never of one nhid is registering.
THEOREM FailuresExplained == AdminSpec => []FailureExplained
<1>1. AdminInit => VisitsOK
  <2>1. AdminInit => \A p \in Cli : cli[p].at = "idle"
    BY DEF AdminInit, NewCommand
  <2> QED
    BY <2>1 DEF VisitsOK, Visiting
<1>2. AdminInv /\ VisitsOK => FailureExplained
  <2>1. ASSUME NEW i \in BeingDeleted PROVE BetweenDropAndDelete(i)
    BY BetweenIsDeleting DEF BeingDeleted
  <2> QED
    BY <2>1 DEF VisitsOK, Explained, FailureExplained, InCommand
<1> QED
  BY <1>1, <1>2, StepKeepsVisitsOK, AdminInvariant, PTL DEF AdminSpec

----------------------------------------------------------------------------
(* The sessions remove visits. *)

LEMMA RestSkipsNone ==
  ASSUME NEW c, CommandOK(c), c.at = "delete", NEW i \in Range(c.todo)
  PROVE  i = Head(c.todo) \/ i \in Range(Rest(c).todo)
<1>1. c.todo \in Seq(Session \cup {NoSession}) /\ c.todo # <<>> /\ c \in Command
  BY DEF CommandOK, Command, Busy
<1>2. Range(c.todo) = {c.todo[k] : k \in 1 .. Len(c.todo)}
  BY <1>1, RangeEquality
<1>3. PICK k \in 1 .. Len(c.todo) : i = c.todo[k]
  BY <1>2
<1>4. /\ Head(c.todo) = c.todo[1] /\ Tail(c.todo) \in Seq(Session \cup {NoSession})
      /\ Len(Tail(c.todo)) = Len(c.todo) - 1
      /\ \A j \in 1 .. Len(Tail(c.todo)) : Tail(c.todo)[j] = c.todo[j + 1]
  BY <1>1, HeadTailProperties
<1>5. CASE k = 1
  BY <1>3, <1>4, <1>5
<1>6. CASE k # 1
  <2>1. Len(c.todo) \in Nat /\ k \in Int
    BY <1>1, <1>3
  <2>2. Len(c.todo) # 1 /\ k - 1 \in 1 .. Len(Tail(c.todo)) /\ (k - 1) + 1 = k
    BY <1>3, <1>4, <1>6, <2>1
  <2>3. i = Tail(c.todo)[k - 1]
    BY <1>3, <1>4, <2>2
  <2>4. i \in Range(Tail(c.todo))
    BY <1>4, <2>2, <2>3, RangeEquality
  <2>5. Rest(c).todo = Tail(c.todo)
    BY <1>1, <2>2 DEF Rest, Command
  <2> QED
    BY <2>4, <2>5
<1> QED
  BY <1>5, <1>6

SkipsNone(p) ==
  \A i \in Range(cli[p].todo) : cli[p].at \in WriteSteps =>
    i \in Range(cli'[p].todo) \/ i \in gone' \cup broken' \/ cli'[p].at = "killed"

LEMMA RemovesOnSkipsNone ==
  ASSUME TypeInv, NEW p \in Cli, RemovesOn(p), cli[p].at \in WriteSteps
  PROVE  SkipsNone(p)
<1>1. CliOK /\ CommandOK(cli[p]) /\ cli[p] \in Command
  BY DEF TypeInv, CliOK
<1>2. ASSUME GoOn(p, "delete") PROVE SkipsNone(p)
  <2> DEFINE c == [cli[p] EXCEPT !.at = "delete"]
  <2>1. c.todo = cli[p].todo
    BY <1>1, CommandFields
  <2>2. cli' = [cli EXCEPT ![p] = c]
    BY <1>2 DEF GoOn
  <2> HIDE DEF c
  <2> QED
    BY <1>1, <2>1, <2>2, OneProcess DEF SkipsNone
<1>3. ASSUME InCommand(p, "delete"), cli' = [cli EXCEPT ![p] = Rest(@)],
             Head(cli[p].todo) \in gone' \cup broken'
      PROVE  SkipsNone(p)
  <2>1. cli'[p] = Rest(cli[p])
    BY <1>1, <1>3, OneProcess
  <2> QED
    BY <1>1, <1>3, <2>1, RestSkipsNone DEF SkipsNone, InCommand
<1>4. CASE TakeLock(p)
  BY <1>4 DEF TakeLock, SkipsNone
<1>5. CASE LockTimesOut(p)
  <2>1. CASE InCommand(p, "rename")
    <3>1. cli[p].todo = <<>>
      BY <1>1, <2>1 DEF InCommand, CommandOK, Busy
    <3> QED
      BY <3>1 DEF SkipsNone, Range
  <2>2. CASE InCommand(p, "drop")
    BY <1>2, <1>5, <2>2 DEF LockTimesOut, InCommand
  <2>3. CASE InCommand(p, "delete")
    BY <1>3, <1>5, <2>3 DEF LockTimesOut, InCommand
  <2> QED
    BY <2>1, <2>2, <2>3 DEF WriteSteps, InCommand
<1>6. CASE DropTable(p) \/ NoTableToDrop(p)
  BY <1>2, <1>6 DEF DropTable, NoTableToDrop
<1>7. CASE DeleteRow(p)
  BY <1>3, <1>7 DEF DeleteRow
<1>8. CASE Kill(p)
  <2>1. cli'[p].at = "killed"
    BY <1>1, <1>8, EndIsOver DEF Kill
  <2> QED
    BY <2>1 DEF SkipsNone
<1> QED
  BY <1>4, <1>5, <1>6, <1>7, <1>8 DEF RemovesOn

\* However meta changes under a remove (remove.go:37-45), it lets go of a session
\* only when its row is gone or a statement of its own has failed.
THEOREM RemoveVisitsAll == AdminSpec => RemoveSkipsNone
<1>1. AdminInv /\ [AdminNext]_adminVars => \A p \in Cli : SkipsNone(p)
  <2> SUFFICES ASSUME AdminInv, [AdminNext]_adminVars, NEW p \in Cli PROVE SkipsNone(p)
    OBVIOUS
  <2>1. TypeInv /\ CliOK /\ CommandOK(cli[p])
    BY DEF AdminInv, TypeInv, CliOK
  <2>2. ASSUME cli'[p] = cli[p] PROVE SkipsNone(p)
    BY <2>2 DEF SkipsNone
  <2>3. ASSUME cli[p].at \notin WriteSteps PROVE SkipsNone(p)
    BY <2>3 DEF SkipsNone
  <2>4. CASE NhidStep \/ UNCHANGED adminVars
    BY <2>1, <2>2, <2>4, NhidKeepsNames DEF adminVars
  <2>5. ASSUME NEW q \in Cli, CliBegins(q) PROVE SkipsNone(p)
    BY <2>1, <2>2, <2>3, <2>5, BeginMoves DEF BeginsAt, WriteSteps
  <2>6. ASSUME NEW q \in Cli, RemovesOn(q) PROVE SkipsNone(p)
    BY <2>1, <2>2, <2>3, <2>6, RemoveMoves, RemovesOnSkipsNone
  <2>7. ASSUME NEW q \in Cli, CheckName(q) \/ RenameSession(q) \/ OpenTable(q) PROVE SkipsNone(p)
    <3>1. CASE p = q
      <4>1. CASE RenameSession(q)
        <5>1. cli[p].todo = <<>>
          BY <2>1, <3>1, <4>1 DEF RenameSession, InCommand, CommandOK, Busy
        <5> QED
          BY <5>1 DEF SkipsNone, Range
      <4>2. CASE CheckName(q) \/ OpenTable(q)
        BY <2>3, <3>1, <4>2 DEF CheckName, OpenTable, InCommand, WriteSteps
      <4> QED
        BY <2>7, <4>1, <4>2
    <3>2. CASE p # q
      <4>1. cli'[p] = cli[p]
        BY <2>1, <2>7, <3>2 DEF CheckName, RenameSession, OpenTable, End, GoOn, CliOK
      <4> QED
        BY <2>2, <4>1
    <3> QED
      BY <3>1, <3>2
  <2> QED
    BY <2>4, <2>5, <2>6, <2>7 DEF AdminNext, CliStep, RemovesOn
<1>2. (\A p \in Cli : SkipsNone(p)) =>
        [\A p \in Cli : \A i \in Range(cli[p].todo) :
           cli[p].at \in WriteSteps =>
             \/ i \in Range(cli'[p].todo) \/ i \in gone' \cup broken'
             \/ cli'[p].at = "killed"]_adminVars
  BY DEF SkipsNone
<1> QED
  BY <1>1, <1>2, AdminInvariant, PTL DEF AdminSpec, RemoveSkipsNone
============================================================================
