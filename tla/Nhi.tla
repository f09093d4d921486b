-------------------------------- MODULE Nhi --------------------------------
(* nhi as a whole: the kernel half of Tracer, the script each shell runs    *)
(* (shell/nhi.bash, shell/nhi.zsh), the handlers of nhid statement by       *)
(* statement (daemon/src/nhi.c) and the database they write.  Every step is *)
(* a step of Tracer with the rest of the state added, or leaves the         *)
(* variables of Tracer alone.                                               *)
(*                                                                          *)
(* Shells source the script once and run up to MaxCommands commands each;   *)
(* processes have one thread; no two sessions start in the same tenth of a  *)
(* second, the resolution of an indicator.                                  *)
EXTENDS Tracer

CONSTANTS
  NoText,        \* a column that is NULL
  MaxCommands,   \* commands a shell runs
  MaxRestarts    \* times nhid has gone away when it is no longer stopped

INSTANCE SessionDb WITH Session <- Indicator

ASSUME BoundAssumption == MaxCommands \in Nat /\ MaxRestarts \in Nat
\* A text of Tracer says where each shell was in its script: see Moment.
ASSUME DataAssumption == Data = [ShellPid -> 0 .. MaxCommands + 1]

VARIABLES
  \* the shells
  phase,     \* where a shell is in the script
  prompts,   \* SIGRTMINs it has sent, one per finished command
  exported,  \* the exported variables, as anyone reading its memory sees them
  \* nhid
  nhid,      \* the handler that runs, its position and what it has looked up
  environ,   \* __environ: nhid's own environment or the copy of a shell's
  db,
  \* history
  restarts,  \* times nhid went away
  crashed,   \* it went away by a fault of its own
  lost,      \* an event did not fit the ring buffer, or a prompt opened no row
  stale,     \* a registration that failed left a copy of its shell's variables
  refused    \* sessions whose finish time SQLite would not take

scriptVars == <<phase, prompts, exported>>
handlerVars == <<nhid, environ, db>>
pastVars == <<restarts, crashed, lost, stale, refused>>
nhiVars == <<vars, scriptVars, handlerVars, pastVars>>

----------------------------------------------------------------------------
\* Texts and environments.

\* The n-th command of a shell, or the state the n-th command left behind.
Text == [shell : ShellPid, n : 1 .. MaxCommands]

\* What the variables of a shell say: the last command it has exported (NoText
\* until then, unless inherited) and the number of commands that have changed
\* its directory.
Environ == [command : Text \cup {NoText}, pwd : 0 .. MaxCommands]
OwnEnviron == [command |-> NoText, pwd |-> -1]

\* A text written to the terminal is told apart by where the shells of the
\* writer were in their scripts: n for one that has sent n prompts and is
\* in its command n + 1.
Moment(t) == [s \in ShellPid |-> IF s \in kin[t] THEN prompts[s] + 1 ELSE 0]

Steps == {"wait", "marker", "table", "row", "meta", "scan", "address", "environ",
          "ps", "fill", "update", "find", "snapshot", "finish", "next", "start"}
NoHandler == [step |-> "wait", slot |-> 0, indicator |-> NoIndicator]
At(step) == loaded /\ nhid.step = step
Goto(step) == nhid' = [nhid EXCEPT !.step = step]

NhiInit ==
  /\ Init
  /\ phase = [s \in ShellPid |-> "unborn"]
  /\ prompts = [s \in ShellPid |-> 0]
  /\ exported = [s \in ShellPid |-> [command |-> NoText, pwd |-> 0]]
  /\ nhid = NoHandler
  /\ environ = OwnEnviron
  /\ db = EmptyDb
  /\ restarts = 0 /\ crashed = FALSE /\ lost = FALSE /\ stale = FALSE
  /\ refused = {}

\* A program that runs while the ring buffer is full may lose its event.
NoteLoss == lost' = (lost \/ (loaded /\ Len(ring) = RingCapacity))

----------------------------------------------------------------------------
\* The shells and their commands.

\* The root starts shells; a shell that runs a command starts processes and
\* nested shells, in its prompter processes only (does-not-exist-trick and the
\* history pipeline); a command starts processes.  Exported variables are
\* inherited.
Fork(t, c) ==
  /\ Clone(t, c, c)
  /\ t \in ShellPid => phase[t] = "command" \/ (phase[t] = "prompter" /\ c \notin ShellPid)
  /\ t = Root => c \in ShellPid
  /\ c \in ShellPid => t \in ShellPid \cup {Root}
  /\ phase' = IF c \in ShellPid THEN [phase EXCEPT ![c] = "source"] ELSE phase
  /\ exported' = IF {t, c} \subseteq ShellPid
                 THEN [exported EXCEPT ![c] = exported[t]] ELSE exported
  /\ NoteLoss
  /\ UNCHANGED <<prompts, handlerVars, restarts, crashed, stale, refused>>

\* kill(2) on 120120000 fails, and while nhid is up its program sees it.
Kill(s, sig) ==
  \/ KillSomethingInfo(s, sig)
  \/ ~loaded /\ UNCHANGED vars

\* nhi.bash:14, nhi.zsh:9.
Source(s) ==
  /\ Running(s) /\ phase[s] = "source"
  /\ Kill(s, "SIGUSR")
  /\ phase' = [phase EXCEPT ![s] = "prompt"]
  /\ NoteLoss
  /\ UNCHANGED <<prompts, exported, handlerVars, restarts, crashed, stale, refused>>

StartCommand(s) ==
  /\ Running(s) /\ phase[s] = "prompt"
  /\ prompts[s] < MaxCommands
  /\ phase' = [phase EXCEPT ![s] = "command"]
  /\ UNCHANGED <<vars, prompts, exported, handlerVars, pastVars>>

\* Slip: the shell signals first and exports afterwards, with its next prompt.
ExportLate(s) ==
  /\ Running(s) /\ phase[s] = "command"
  /\ phase' = [phase EXCEPT ![s] = "prompter"]
  /\ exported' = IF prompts[s] = 0 THEN exported
                 ELSE [exported EXCEPT ![s] =
                        [command |-> [shell |-> s, n |-> prompts[s]], pwd |-> prompts[s]]]
  /\ UNCHANGED <<vars, prompts, handlerVars, pastVars>>

\* The command is over (its processes may live on).  prompter and precmd export
\* its text and its status; the directory is exported by the shell itself.
Export(s) ==
  /\ Running(s) /\ phase[s] = "command"
  /\ phase' = [phase EXCEPT ![s] = "prompter"]
  /\ exported' = [exported EXCEPT ![s] =
       [command |-> [shell |-> s, n |-> prompts[s] + 1], pwd |-> prompts[s] + 1]]
  /\ UNCHANGED <<vars, prompts, handlerVars, pastVars>>

\* nhi.bash:22, nhi.zsh:16.
Prompt(s) ==
  /\ Running(s) /\ phase[s] = "prompter"
  /\ Kill(s, "SIGRTMIN")
  /\ phase' = [phase EXCEPT ![s] = "prompt"]
  /\ prompts' = [prompts EXCEPT ![s] = @ + 1]
  /\ NoteLoss
  /\ UNCHANGED <<exported, handlerVars, restarts, crashed, stale, refused>>

\* Processes end at any point, shells too (exit, a closed terminal).
Die(t) ==
  /\ DoExit(t)
  /\ NoteLoss
  /\ UNCHANGED <<scriptVars, handlerVars, restarts, crashed, stale, refused>>

Write(t) ==
  /\ KsysWrite(t, Moment(t))
  /\ NoteLoss
  /\ UNCHANGED <<scriptVars, handlerVars, restarts, crashed, stale, refused>>

ShellStep ==
  \/ \E t, c \in Pid : Fork(t, c)
  \/ \E s \in ShellPid : Source(s) \/ StartCommand(s) \/ Export(s) \/ Prompt(s)
  \/ \E t \in Pid : Die(t) \/ Write(t)

----------------------------------------------------------------------------
\* handle_kill_SIGUSR.

\* get_indicator: no session has started in this tenth of a second.
TakeRegistration ==
  /\ At("wait")
  /\ StartRegistration
  /\ reg'.indicator \notin db.created
  /\ Goto("marker")
  /\ UNCHANGED <<scriptVars, environ, db, pastVars>>

\* One step per statement: nhid may be killed between any two of them.
Statement(from, result, to) ==
  /\ At(from)
  /\ db' = result
  /\ Goto(to)
  /\ UNCHANGED <<vars, scriptVars, environ, pastVars>>

AddMarker ==
  Statement("marker",
            IF Head(ring).parent # NoIndicator
            THEN add_marker(db, Head(ring).parent, reg.indicator) ELSE db,
            "table")
\* Slip: a nested session is taken to share the table of its parent.
CreateTableUnlessNested ==
  Statement("table",
            IF Head(ring).parent # NoIndicator THEN db ELSE create_table(db, reg.indicator),
            "row")
CreateTable == Statement("table", create_table(db, reg.indicator), "row")
CreateRow == Statement("row", create_row(db, reg.indicator), "meta")
MetaCreateRow == Statement("meta", meta_create_row(db, reg.indicator), "scan")

ScanShells ==
  /\ At("scan")
  /\ ScanSlot
  /\ Goto(IF reg'.phase = "scan" THEN "scan" ELSE "address")
  /\ UNCHANGED <<scriptVars, environ, db, pastVars>>

\* get_shell_environ_address: /proc/<pid>/maps of a live shell.
FindEnviron ==
  /\ At("address")
  /\ Running(reg.pid)
  /\ Goto("environ")
  /\ UNCHANGED <<vars, scriptVars, environ, db, pastVars>>

\* get_shell_environ: if the shell cannot be read __environ stays what it is.
CopyEnviron(s) ==
  environ' = IF Running(s) THEN exported[s] ELSE environ

ReadEnviron ==
  /\ At("environ")
  /\ CopyEnviron(reg.pid)
  /\ Goto("ps")
  /\ UNCHANGED <<vars, scriptVars, db, pastVars>>

\* Slip: what fgets returns is not looked at.
AskPsUnchecked ==
  /\ At("ps")
  /\ reg' = [reg EXCEPT !.phase = "update"]
  /\ Goto("fill")
  /\ UNCHANGED <<procVars, loaded, mapVars, granted, scriptVars, environ, db, pastVars>>

\* ps names the terminal of a live shell.
AskPs ==
  /\ At("ps")
  /\ InspectShell
  /\ Goto("fill")
  /\ UNCHANGED <<scriptVars, environ, db, pastVars>>

\* Both early returns; neither calls reverse_environ.
GiveUp ==
  /\ At("address") \/ At("ps")
  /\ RegistrationFails
  /\ Goto("wait")
  /\ stale' = (stale \/ environ # OwnEnviron)
  /\ UNCHANGED <<scriptVars, environ, db, restarts, crashed, lost, refused>>

\* add_PS1, add_pwd, reverse_environ.  A shell ps has seen could be read before,
\* so the variables are there.
FillFirstRow ==
  /\ At("fill")
  /\ db' = add_pwd(db, reg.indicator, environ.pwd)
  /\ environ' = OwnEnviron
  /\ Goto("update")
  /\ UNCHANGED <<vars, scriptVars, pastVars>>

UpdateShells ==
  /\ At("update")
  /\ Register
  /\ Goto("wait")
  /\ UNCHANGED <<scriptVars, environ, db, pastVars>>

SIGUSRStep ==
  \/ TakeRegistration \/ AddMarker \/ CreateTable \/ CreateRow \/ MetaCreateRow
  \/ ScanShells \/ FindEnviron \/ ReadEnviron \/ AskPs \/ GiveUp
  \/ FillFirstRow \/ UpdateShells

----------------------------------------------------------------------------
\* handle_kill_SIGRTMIN and handle_child_creation look their shell up first,
\* a system call per slot and over empty slots too.
IsPrompt(event) == event.type = "kill" /\ event.sig = "SIGRTMIN"

Wanted == IF Head(ring).type = "kill" THEN Head(ring).pid ELSE Head(ring).shell

TakeLookup ==
  /\ At("wait") /\ Idle
  /\ ring # <<>>
  /\ IsPrompt(Head(ring)) \/ Head(ring).type = "child"
  /\ nhid' = [step |-> "find", slot |-> 0, indicator |-> NoIndicator]
  /\ UNCHANGED <<vars, scriptVars, environ, db, pastVars>>

AfterLookup == IF Head(ring).type = "kill" THEN "snapshot" ELSE "start"

LookUp ==
  /\ At("find")
  /\ nhid' = IF nhid.slot = MaxShells THEN [nhid EXCEPT !.step = AfterLookup]
             ELSE IF shells[nhid.slot].pid = Wanted
             THEN [nhid EXCEPT !.step = AfterLookup,
                               !.indicator = shells[nhid.slot].indicator]
             ELSE [nhid EXCEPT !.slot = @ + 1]
  /\ UNCHANGED <<vars, scriptVars, environ, db, pastVars>>

\* With no entry the address is 0 and the copy fails, as for a dead shell.
Snapshot ==
  /\ At("snapshot")
  /\ IF nhid.indicator = NoIndicator THEN UNCHANGED environ ELSE CopyEnviron(Wanted)
  /\ Goto("finish")
  /\ UNCHANGED <<vars, scriptVars, db, pastVars>>

\* Slip: the row for the next command is opened before this one is finished.
FinishRowLate ==
  /\ At("finish")
  /\ environ.command # NoText
  /\ db' = finish_row(create_row(db, nhid.indicator), nhid.indicator, environ.command)
  /\ Goto("next")
  /\ UNCHANGED <<vars, scriptVars, environ, pastVars>>

\* add_command, add_exit_status, add_finish_time, add_indicator; strlen(NULL) if
\* no command is exported (see Fault).
FinishRow ==
  /\ At("finish")
  /\ environ.command # NoText
  /\ db' = finish_row(db, nhid.indicator, environ.command)
  /\ Goto("next")
  /\ UNCHANGED <<vars, scriptVars, environ, pastVars>>

\* create_row, add_PS1, add_pwd, reverse_environ.  For a shell LookUp has missed
\* there is no table to open a row in.
NextRow ==
  /\ At("next")
  /\ Consume
  /\ db' = add_pwd(create_row(db, nhid.indicator), nhid.indicator, environ.pwd)
  /\ environ' = OwnEnviron
  /\ nhid' = NoHandler
  /\ lost' = (lost \/ nhid.indicator = NoIndicator)
  /\ UNCHANGED <<scriptVars, restarts, crashed, stale, refused>>

StartRow ==
  /\ At("start")
  /\ Consume
  /\ db' = add_start_time(db, nhid.indicator)
  /\ nhid' = NoHandler
  /\ UNCHANGED <<scriptVars, environ, pastVars>>

\* Slip: the shell is looked up first, as in the handlers above; do_exit has
\* removed its entry.
FinishSessionLookedUp ==
  /\ At("wait") /\ ring # <<>> /\ Head(ring).type = "exit"
  /\ Consume
  /\ db' = IF \E k \in DOMAIN shells : shells[k].indicator = Head(ring).indicator
           THEN meta_add_finish_time(db, Head(ring).indicator) ELSE db
  /\ UNCHANGED <<scriptVars, nhid, environ, pastVars>>

\* handle_shell_exit.  The statement may be refused, as while another process
\* writes the database (nhid does not wait for it): that is logged, and the event
\* is over all the same.
FinishSession ==
  /\ At("wait") /\ ring # <<>> /\ Head(ring).type = "exit"
  /\ Consume
  /\ \/ db' = meta_add_finish_time(db, Head(ring).indicator) /\ UNCHANGED refused
     \/ refused' = refused \cup {Head(ring).indicator} /\ UNCHANGED db
  /\ UNCHANGED <<scriptVars, nhid, environ, restarts, crashed, lost, stale>>

\* handle_write.
RecordOutput ==
  /\ At("wait") /\ ring # <<>> /\ Head(ring).type = "write"
  /\ Consume
  /\ db' = add_output(db, Head(ring).indicator, Head(ring).data)
  /\ UNCHANGED <<scriptVars, nhid, environ, pastVars>>

----------------------------------------------------------------------------
\* nhid goes away, by a signal or by a fault: the strlen of a variable that
\* getenv did not find.
GoAway ==
  /\ Unload
  /\ restarts' = restarts + 1
  /\ nhid' = NoHandler /\ environ' = OwnEnviron
  /\ UNCHANGED <<scriptVars, db, lost, stale, refused>>

Stop == restarts < MaxRestarts /\ GoAway /\ UNCHANGED crashed

\* A fault takes a prompt, so MaxCommands bounds the faults.
Fault ==
  /\ At("finish")
  /\ environ.command = NoText
  /\ GoAway
  /\ crashed' = TRUE

Start ==
  /\ Load
  /\ UNCHANGED <<scriptVars, handlerVars, pastVars>>

\* What nhid does once it is up, and cannot put off for ever.
HandlerStep ==
  \/ SIGUSRStep
  \/ TakeLookup \/ LookUp \/ Snapshot \/ FinishRow \/ NextRow \/ StartRow
  \/ FinishSession \/ RecordOutput

NhiNext == ShellStep \/ HandlerStep \/ Stop \/ Fault \/ Start

NhiSpec == NhiInit /\ [][NhiNext]_nhiVars

\* ring_buffer__poll never waits for more than a second and handlers do not
\* block, and a fault is not put off: nhid is only assumed to go on while it runs.
NhiFairSpec == NhiSpec /\ WF_nhiVars(HandlerStep \/ Fault)

----------------------------------------------------------------------------
\* The state nhid and the scripts keep; `db` holds rows for created tables only.
NhiTypeOK ==
  /\ phase \in [ShellPid -> {"unborn", "source", "prompt", "command", "prompter"}]
  /\ prompts \in [ShellPid -> 0 .. MaxCommands]
  /\ exported \in [ShellPid -> Environ]
  /\ nhid \in [step : Steps, slot : 0 .. MaxShells,
               indicator : Indicator \cup {NoIndicator}]
  /\ environ \in Environ \cup {OwnEnviron}
  /\ db.created \subseteq Indicator
  /\ db.closed \subseteq Listed(db) /\ Listed(db) \subseteq db.created
  /\ \A i \in Indicator : db.rows[i] # <<>> => i \in db.created

\* The row that is number k of the session of shell s.
Rows(s) == {row \in Indicator \X (1 .. MaxCommands + 1) :
              <<s, row[1]>> \in granted /\ row[2] \in DOMAIN db.rows[row[1]]}

\* What a process writes while its shell is between its prompts k - 1 and k is
\* recorded in row k: the order of writes (nhi.bpf.c:419), prompts (nhi.c:308)
\* and of nhid's own work never shifts output to another command.
OutputUnderItsCommand ==
  lost \/ \A s \in ShellPid : \A row \in Rows(s) :
    \A text \in db.rows[row[1]][row[2]].output : text[s] \in {0, row[2]}

\* All rows of a session but the last are finished and have a command
\* (nhi.c:303-308), wherever nhid was when it went away.
CompleteBeforeNext ==
  \A i \in Indicator : \A k \in DOMAIN db.rows[i] :
    k < Len(db.rows[i]) => db.rows[i][k].finished /\ db.rows[i][k].command # NoText

\* Row k never holds a command the shell ran before its k-th: the copy of the
\* environment (nhi.c:301) is taken after the prompt that asked for it, unless a
\* failed registration left its own copy behind (nhi.c:105).
CommandNeverOlder ==
  lost \/ stale \/ \A s \in ShellPid : \A row \in Rows(s) :
    LET command == db.rows[row[1]][row[2]].command
    IN  command # NoText /\ command.shell = s => command.n >= row[2]

\* A session is marked finished (nhi.c:340) only when its shell has exited.
FinishMeansExited ==
  \A i \in db.closed : \E s \in ShellPid : <<s, i>> \in granted /\ ~Running(s)

\* The session a marker announces (nhi.c:62-67) has its table by the time its
\* registration is over, unless nhid went away in between.
MarkersResolve ==
  restarts = 0 =>
    \A i \in Indicator : \A k \in DOMAIN db.rows[i] :
      \A nested \in db.rows[i][k].markers : nested \in db.created \cup {reg.indicator}

\* nhid as modelled here does to the maps what Tracer says it does: what holds
\* of Tracer holds of the whole.
TracerSpec == Spec

\* The exit of a registered shell, once in the ring buffer (nhi.bpf.c:223), gets
\* into `meta` (nhi.c:340), unless nhid goes away first or SQLite refuses the one
\* statement there is for it: an exit is never just passed over.
ExitGetsRecorded ==
  \A i \in Indicator :
    (\E j \in 1 .. Len(ring) : ring[j].type = "exit" /\ ring[j].indicator = i)
      ~> (i \in db.closed \/ i \in refused \/ ~loaded)

----------------------------------------------------------------------------
\* What the README and the code's own error handling say; the code does
\* otherwise in the cases README.md of this directory describes.

\* "nhi keeps records of: command" (README.md:10-11): row k is command k.
RecordedCommandIsExecuted ==
  lost \/ \A s \in ShellPid : \A row \in Rows(s) :
    LET command == db.rows[row[1]][row[2]].command
    IN  command # NoText => command = [shell |-> s, n |-> row[2]]

\* A shell that cannot be read is logged and left alone (nhi.c:209-212): nhid
\* does not fault.
NhidSurvives == ~crashed
=============================================================================
