----------------------------- MODULE Programs -----------------------------
(* The BPF programs of daemon/src/nhi.bpf.c taken apart into the reads and  *)
(* writes of map entries they make.  A CPU runs one program at a time;      *)
(* programs of several CPUs interleave, for nhi.bpf.c takes no lock.  On a  *)
(* single CPU they do what Tracer, where a program is one step, says.       *)
(*                                                                          *)
(* nhid stays up; its system calls need a CPU as the programs do.  Processes *)
(* have one thread, which can be in one program only.                       *)
EXTENDS Tracer

CONSTANT Cpu

ASSUME CpuAssumption == Cpu # {}

VARIABLE cpu    \* the program each CPU runs

programVars == <<vars, cpu>>

----------------------------------------------------------------------------
\* A program is a record of its locals.  `pid` is the process that triggered it and
\* `call` what the traced function was called with.  `i` and `index` are its i and
\* pid_index, `owner` the shell it looks for (parent_shell_pid, parent_pid,
\* shell_pid), `indicator` what it has read of it.
\* `hit` and `maps` are history: the process was found in `children`, and the
\* maps the program started from.
Maps == [shells |-> shells, children |-> children, ring |-> ring]
NotFound == -1

Program(t, place, call) ==
  [at |-> place, pid |-> t, call |-> call, i |-> 0,
   index |-> NotFound, owner |-> NoPid, indicator |-> NoIndicator,
   hit |-> FALSE, maps |-> Maps]
Idling == [at |-> "idle"]

At(k, place) == cpu[k].at = place
Busy == {k \in Cpu : ~At(k, "idle")}
IsCall(k, name) == cpu[k].call.name = name

ProgramsInit == Init /\ cpu = [k \in Cpu |-> Idling]

\* A live process enters the traced function; it does so once at a time.
Enter(k, t, place, call) ==
  /\ At(k, "idle")
  /\ Running(t) /\ \A b \in Busy : cpu[b].pid # t
  /\ cpu' = [cpu EXCEPT ![k] = Program(t, place, call)]
  /\ UNCHANGED vars

Update(k, program) == cpu' = [cpu EXCEPT ![k] = program]
Jump(k, place) == Update(k, [cpu[k] EXCEPT !.at = place])
Loop(k, place) == Update(k, [cpu[k] EXCEPT !.at = place, !.i = 0, !.index = NotFound])
Advance(k, place) == Update(k, [cpu[k] EXCEPT !.at = place, !.i = @ + 1])
Note(k, place) == Update(k, [cpu[k] EXCEPT !.at = place, !.index = cpu[k].i, !.hit = TRUE])
SearchFor(k, owner, place) ==
  Update(k, [cpu[k] EXCEPT !.at = place, !.owner = owner, !.i = 0])

\* Slip: the index stays at the empty slot that ended the scan.
StepBackNot(k, place) == Jump(k, place)
StepBack(k, place) == Update(k, [cpu[k] EXCEPT !.at = place, !.i = @ - 1])

ShellAt(k) == shells[cpu[k].i]
ChildAt(k) == children[cpu[k].i]

----------------------------------------------------------------------------
\* Iterations of the loops.  A scan of a table for a pid goes to `none` at an
\* empty slot, to `hit` at the pid, and to `end` behind the last slot.
ScanShellsFor(k, pid, hit, none, end) ==
  /\ IF cpu[k].i = MaxShells THEN end
     ELSE IF ShellAt(k).pid = NoPid THEN none
     ELSE IF ShellAt(k).pid = pid THEN hit
     ELSE Advance(k, cpu[k].at)
  /\ UNCHANGED vars

ScanChildrenFor(k, pid, hit, none, end) ==
  /\ IF cpu[k].i = MaxChildren THEN end
     ELSE IF ChildAt(k).child = NoPid THEN none
     ELSE IF ChildAt(k).child = pid THEN hit
     ELSE Advance(k, cpu[k].at)
  /\ UNCHANGED vars

\* The two updates of a removal: the last entry is written to the slot noted,
\* and zeroed where it was.
CopyChild(k, place) ==
  /\ children' = [children EXCEPT ![cpu[k].index] = ChildAt(k)]
  /\ Jump(k, place)
  /\ UNCHANGED <<procVars, loaded, shells, ring, nhidVars>>

ZeroChild(k, place) ==
  /\ children' = [children EXCEPT ![cpu[k].i] = NoChild]
  /\ Loop(k, place)
  /\ UNCHANGED <<procVars, loaded, shells, ring, nhidVars>>

\* The fields of an entry are read after its pid has been compared.
ReadOwner(k, place) ==
  /\ SearchFor(k, ChildAt(k).shell, place)
  /\ UNCHANGED vars

ReadIndicator(k, place) ==
  /\ Update(k, [cpu[k] EXCEPT !.at = place, !.indicator = ShellAt(k).indicator])
  /\ UNCHANGED vars

----------------------------------------------------------------------------
\* kill_something_info.
EnterKill(k) ==
  \E s \in ShellPid :
    \/ Enter(k, s, "kill_find", [name |-> "kill", sig |-> "SIGUSR"])
    \/ Enter(k, s, "submit", [name |-> "kill", sig |-> "SIGRTMIN"])

KillStep(k) ==
  \/ /\ At(k, "kill_find")
     /\ ScanChildrenFor(k, cpu[k].pid, Note(k, "kill_owner"),
          IF cpu[k].index = NotFound THEN Loop(k, "kill_parent")
          ELSE StepBack(k, "kill_copy"),
          Loop(k, "kill_parent"))
  \/ /\ At(k, "kill_owner")
     /\ Update(k, [cpu[k] EXCEPT !.at = "kill_find", !.owner = ChildAt(k).shell, !.i = @ + 1])
     /\ UNCHANGED vars
  \/ At(k, "kill_copy") /\ CopyChild(k, "kill_zero")
  \/ At(k, "kill_zero") /\ ZeroChild(k, "kill_parent")
  \/ /\ At(k, "kill_parent")
     /\ ScanShellsFor(k, cpu[k].owner, Jump(k, "kill_indicator"),
          Jump(k, "submit"), Jump(k, "submit"))
  \/ At(k, "kill_indicator") /\ ReadIndicator(k, "submit")

----------------------------------------------------------------------------
\* fork_tracepoint.  The new process does not run before the program is over.
EnterFork(k) ==
  \E t, c \in Pid :
    /\ c \notin born /\ \A b \in Busy : IsCall(b, "fork") => cpu[b].call.child # c
    /\ Enter(k, t, "fork_shells", [name |-> "fork", child |-> c])

\* Behind the last slot of `children` the program falls through with parent_pid
\* as it is, to a scan that only finds a slot if another CPU has freed one.
ForkStep(k) ==
  LET p == cpu[k].pid
  IN
  \/ /\ At(k, "fork_shells")
     /\ ScanShellsFor(k, p, SearchFor(k, p, "fork_free"),
          Loop(k, "fork_children"), Loop(k, "fork_children"))
  \/ /\ At(k, "fork_children")
     /\ ScanChildrenFor(k, p, Jump(k, "fork_owner"), Jump(k, "return"),
          SearchFor(k, p, "fork_free"))
  \/ At(k, "fork_owner") /\ ReadOwner(k, "fork_free")
  \/ /\ At(k, "fork_free")
     /\ ScanChildrenFor(k, NoPid, FALSE, Jump(k, "fork_add"), Jump(k, "return"))
  \/ /\ At(k, "fork_add")
     /\ children' = [children EXCEPT ![cpu[k].i] =
                       [child |-> cpu[k].call.child, shell |-> cpu[k].owner]]
     /\ Jump(k, "submit")
     /\ UNCHANGED <<procVars, loaded, shells, ring, nhidVars>>

----------------------------------------------------------------------------
\* do_exit.
EnterExit(k) == \E t \in Pid \ {Root} : Enter(k, t, "exit_shells", [name |-> "exit"])

ExitStep(k) ==
  LET p == cpu[k].pid
      noted == cpu[k].index # NotFound
  IN
  \/ /\ At(k, "exit_shells")
     /\ ScanShellsFor(k, p, Note(k, "exit_indicator"),
          IF cpu[k].i = 0 THEN Jump(k, "return")
          ELSE IF noted THEN StepBack(k, "exit_copy_shell")
          ELSE Loop(k, "exit_children"),
          Loop(k, "exit_children"))
  \/ /\ At(k, "exit_indicator")
     /\ Update(k, [cpu[k] EXCEPT !.at = "exit_shells", !.indicator = ShellAt(k).indicator, !.i = @ + 1])
     /\ UNCHANGED vars
  \/ /\ At(k, "exit_copy_shell")
     /\ shells' = [shells EXCEPT ![cpu[k].index] = ShellAt(k)]
     /\ Jump(k, "exit_zero_shell")
     /\ UNCHANGED <<procVars, loaded, children, ring, nhidVars>>
  \/ /\ At(k, "exit_zero_shell")
     /\ shells' = [shells EXCEPT ![cpu[k].i] = NoShell]
     /\ Jump(k, "submit")
     /\ UNCHANGED <<procVars, loaded, children, ring, nhidVars>>
  \/ /\ At(k, "exit_children")
     /\ ScanChildrenFor(k, p,
          Update(k, [cpu[k] EXCEPT !.index = cpu[k].i, !.i = @ + 1]),
          IF noted THEN StepBack(k, "exit_copy_child") ELSE Jump(k, "return"),
          Jump(k, "return"))
  \/ At(k, "exit_copy_child") /\ CopyChild(k, "exit_zero_child")
  \/ At(k, "exit_zero_child") /\ ZeroChild(k, "return")

----------------------------------------------------------------------------
\* ksys_write.
EnterWrite(k) ==
  \E t \in Pid, data \in Data :
    Enter(k, t, "write_children", [name |-> "write", data |-> data])

\* The scan of a full table that misses the shell ends one past the last slot.
Slot(k) == cpu[k].i

WriteShells(k) ==
  /\ At(k, "write_shells")
  /\ ScanShellsFor(k, cpu[k].owner, Jump(k, "write_indicator"),
       Jump(k, "return"), Jump(k, "write_text"))

\* omit_write is set in the entry that is in the slot now.
SetOmit(k, omit, place) ==
  /\ Slot(k) < MaxShells
  /\ shells' = [shells EXCEPT ![Slot(k)].omit = omit]
  /\ Jump(k, place)
  /\ UNCHANGED <<procVars, loaded, children, ring, nhidVars>>

WriteStep(k) ==
  \/ /\ At(k, "write_children")
     /\ ScanChildrenFor(k, cpu[k].pid, Note(k, "write_owner"), Jump(k, "return"),
          \E any \in Pid \cup {NoPid} : SearchFor(k, any, "write_shells"))
  \/ At(k, "write_owner") /\ ReadOwner(k, "write_shells")
  \/ WriteShells(k)
  \/ At(k, "write_indicator") /\ ReadIndicator(k, "write_text")
  \* Not the shell's terminal, or an escape sequence and no entry to set.
  \/ At(k, "write_text") /\ Jump(k, "return") /\ UNCHANGED vars
  \/ At(k, "write_text") /\ SetOmit(k, TRUE, "return")
  \/ At(k, "write_text") /\ SetOmit(k, FALSE, "write_omit")
  \/ At(k, "write_text") /\ Jump(k, "write_omit") /\ UNCHANGED vars
  \/ /\ At(k, "write_omit")
     /\ Jump(k, IF Slot(k) < MaxShells /\ ShellAt(k).omit THEN "return" ELSE "submit")
     /\ UNCHANGED vars

----------------------------------------------------------------------------
\* The event a program ends with.
EventOf(program) ==
  LET call == program.call
  IN  CASE call.name = "kill" ->
             [type |-> "kill", pid |-> program.pid, sig |-> call.sig,
              parent |-> program.indicator]
        [] call.name = "fork" ->
             [type |-> "child", shell |-> program.owner, child |-> call.child]
        [] call.name = "exit" ->
             [type |-> "exit", pid |-> program.pid, indicator |-> program.indicator]
        [] call.name = "write" ->
             [type |-> "write", data |-> call.data, writer |-> program.pid,
              tracked |-> program.hit, indicator |-> program.indicator]

SubmitStep(k) ==
  /\ At(k, "submit")
  /\ Submit(EventOf(cpu[k]))
  /\ Jump(k, "return")
  /\ UNCHANGED <<procVars, loaded, shells, children, nhidVars>>

\* The program returns and the function it was attached to takes effect.
Return(k) ==
  /\ At(k, "return")
  /\ \/ /\ IsCall(k, "fork")
        /\ LET call == cpu[k].call
           IN  /\ tgid' = [tgid EXCEPT ![call.child] = call.child]
               /\ born' = born \cup {call.child}
               /\ kin' = [kin EXCEPT ![call.child] =
                            kin[cpu[k].pid] \cup ({call.child} \cap ShellPid)]
     \/ /\ IsCall(k, "exit")
        /\ tgid' = [tgid EXCEPT ![cpu[k].pid] = NoPid]
        /\ UNCHANGED <<born, kin>>
     \/ /\ IsCall(k, "kill") \/ IsCall(k, "write")
        /\ UNCHANGED procVars
  /\ Update(k, Idling)
  /\ UNCHANGED <<loaded, mapVars, nhidVars>>

\* nhid's system calls on the maps.
NhidOn(k) ==
  /\ At(k, "idle")
  /\ \/ StartRegistration \/ ScanSlot \/ InspectShell
     \/ RegistrationFails \/ Register \/ Consume
  /\ UNCHANGED cpu

ProgramsNext ==
  \E k \in Cpu :
    \/ EnterKill(k) \/ EnterFork(k) \/ EnterExit(k) \/ EnterWrite(k)
    \/ KillStep(k) \/ ForkStep(k) \/ ExitStep(k) \/ WriteStep(k)
    \/ SubmitStep(k) \/ Return(k)
    \/ NhidOn(k)

ProgramsSpec == ProgramsInit /\ [][ProgramsNext]_programVars

----------------------------------------------------------------------------
\* The maps keep their types and every index stays inside its table, whatever
\* path a program takes through its loops (nhi.bpf.c:51-421).
ProgramsTypeOK ==
  /\ TypeOK
  /\ \A k \in Busy :
       /\ cpu[k].i \in 0 .. MaxShells \/ cpu[k].i \in 0 .. MaxChildren
       /\ cpu[k].index \in {NotFound} \cup DOMAIN shells \cup DOMAIN children
       /\ cpu[k].owner \in Pid \cup {NoPid}
       /\ cpu[k].indicator \in Indicator \cup {NoIndicator}

\* The maps as they were before the program that runs on a single CPU.
Before == IF Busy = {} THEN Maps ELSE cpu[CHOOSE k \in Busy : TRUE].maps

Atomic == INSTANCE Tracer WITH
  shells <- Before.shells, children <- Before.children, ring <- Before.ring

\* On one CPU the loops of nhi.bpf.c, with their early exits and falls through,
\* do in sum what the sets and the one-step actions of Tracer say.  (This is Spec of
\* Tracer, written with the stutter in front.)
AtomicSpec ==
  Atomic!Init /\ [][UNCHANGED Atomic!vars \/ Atomic!Next]_programVars

\* "find indicator of the shell" (nhi.bpf.c:294): the indicator ksys_write sends
\* output under was given to the shell it looked for.
IndicatorOfItsShell ==
  \A k \in Busy :
    At(k, "submit") /\ IsCall(k, "write") /\ cpu[k].indicator # NoIndicator =>
      <<cpu[k].owner, cpu[k].indicator>> \in granted
=============================================================================
