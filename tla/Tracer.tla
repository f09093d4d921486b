------------------------------ MODULE Tracer ------------------------------
(* The kernel half of nhi: the BPF programs of daemon/src/nhi.bpf.c and     *)
(* the processes that trigger them, with the four things nhid does to the   *)
(* maps (daemon/src/nhi.c): scan for a free slot of `shells`, fill it, take *)
(* an event off the ring buffer, and load or drop the whole BPF object.     *)
(*                                                                          *)
(* Each BPF program is one action: the model is a machine with one CPU.     *)
(* Only nhid's scan, a system call per slot, interleaves with the programs. *)
(* Pids are never reused while the model runs.                              *)
EXTENDS SlotTable, Sequences

CONSTANTS
  Pid,           \* process and thread ids
  ShellPid,      \* the processes that source nhi.bash or nhi.zsh
  Root,          \* the untracked process every other one descends from
  Data,          \* the texts processes write to their terminal
  Indicator,     \* the session ids nhid reads off its clock
  NoIndicator,   \* the zero indicator
  MaxShells,     \* SHELLS_MAX_ENTRIES
  MaxChildren,   \* CHILDREN_MAX_ENTRIES
  RingCapacity   \* events that fit the ring buffer

ASSUME PidAssumption ==
  /\ ShellPid \subseteq Pid
  /\ Root \in Pid \ ShellPid
  /\ NoPid \notin Pid
ASSUME IndicatorAssumption == NoIndicator \notin Indicator
ASSUME SizeAssumption ==
  /\ MaxShells \in Nat \ {0}
  /\ MaxChildren \in Nat \ {0}
  /\ RingCapacity \in Nat \ {0}

VARIABLES
  \* the kernel's processes
  tgid,      \* the process each live thread belongs to
  born,      \* the pids handed out so far
  kin,       \* history: the shells among a process and its ancestors
  \* the BPF object
  loaded,    \* nhid runs and its programs are attached
  shells,    \* map of traced shells
  children,  \* map of traced processes that are not shells
  ring,      \* the ring buffer, oldest event first
  \* nhid
  reg,       \* the registration handle_kill_SIGUSR is working on
  granted    \* history: the <<shell, indicator>> pairs ever registered

procVars == <<tgid, born, kin>>
mapVars == <<shells, children, ring>>
nhidVars == <<reg, granted>>
vars == <<procVars, loaded, mapVars, nhidVars>>

----------------------------------------------------------------------------
\* Entries, events and registrations.

Shell == [pid : Pid \cup {NoPid}, indicator : Indicator \cup {NoIndicator},
          omit : BOOLEAN]
NoShell == [pid |-> NoPid, indicator |-> NoIndicator, omit |-> FALSE]

Child == [child : Pid \cup {NoPid}, shell : Pid \cup {NoPid}]
NoChild == [child |-> NoPid, shell |-> NoPid]

\* `child` of a child event, `pid` of an exit event, `writer` and `tracked`
\* of a write event are history: the program does not send them.
KillEvent == [type : {"kill"}, pid : ShellPid, sig : {"SIGUSR", "SIGRTMIN"},
              parent : Indicator \cup {NoIndicator}]
ChildEvent == [type : {"child"}, shell : Pid \cup {NoPid}, child : Pid]
ExitEvent == [type : {"exit"}, indicator : Indicator \cup {NoIndicator}, pid : Pid]
WriteEvent == [type : {"write"}, indicator : Indicator \cup {NoIndicator},
               data : Data, writer : Pid, tracked : BOOLEAN]
Event == KillEvent \cup ChildEvent \cup ExitEvent \cup WriteEvent

Registration == [phase : {"idle", "scan", "inspect", "update"},
                 pid : Pid \cup {NoPid}, indicator : Indicator \cup {NoIndicator},
                 slot : 0 .. MaxShells]
NoRegistration == [phase |-> "idle", pid |-> NoPid, indicator |-> NoIndicator,
                   slot |-> 0]

ShellKeys == [i \in 0 .. MaxShells - 1 |-> shells[i].pid]
ChildKeys == [i \in 0 .. MaxChildren - 1 |-> children[i].child]

NoShells == [i \in 0 .. MaxShells - 1 |-> NoShell]
NoChildren == [i \in 0 .. MaxChildren - 1 |-> NoChild]

Running(t) == tgid[t] # NoPid

Init ==
  /\ tgid = [p \in Pid |-> IF p = Root THEN Root ELSE NoPid]
  /\ born = {Root}
  /\ kin = [p \in Pid |-> {}]
  /\ loaded = TRUE
  /\ shells = NoShells
  /\ children = NoChildren
  /\ ring = <<>>
  /\ reg = NoRegistration
  /\ granted = {}

----------------------------------------------------------------------------
\* Slip: the result of bpf_ringbuf_reserve is not looked at.
SubmitAlways(event) == ring' = Append(ring, event)

\* bpf_ringbuf_reserve, _submit and _output: an event that does not fit is lost.
Submit(event) ==
  ring' = IF Len(ring) < RingCapacity THEN Append(ring, event) ELSE ring

----------------------------------------------------------------------------
\* fork_tracepoint: the shell the children of process p are accounted to.
ForkOwner(p) ==
  IF Finds(ShellKeys, p) THEN p
  ELSE IF Finds(ChildKeys, p) THEN children[FirstHit(ChildKeys, p)].shell
  ELSE NoPid

\* Slip: a grandchild is accounted to its parent and not to the parent's shell.
ForkTracepointKeepsParent(p, c) ==
  IF loaded /\ ForkOwner(p) # NoPid /\ ~IsFull(ChildKeys)
  THEN /\ children' = [children EXCEPT ![FirstFree(ChildKeys)] =
                         [child |-> c, shell |-> p]]
       /\ Submit([type |-> "child", shell |-> p, child |-> c])
  ELSE UNCHANGED <<children, ring>>

\* The new entry goes to the first free slot; a full table takes none, and
\* sends no event either.
ForkTracepoint(p, c) ==
  IF loaded /\ ForkOwner(p) # NoPid /\ ~IsFull(ChildKeys)
  THEN /\ children' = [children EXCEPT ![FirstFree(ChildKeys)] =
                         [child |-> c, shell |-> ForkOwner(p)]]
       /\ Submit([type |-> "child", shell |-> ForkOwner(p), child |-> c])
  ELSE UNCHANGED <<children, ring>>

\* A thread t creates the process c (leader = c) or a thread c of its own
\* process.  The tracepoint fires for both, with c the new thread id; bash and
\* zsh create no threads.
Clone(t, c, leader) ==
  /\ Running(t)
  /\ c \notin born
  /\ \/ leader = c
     \/ leader = tgid[t] /\ {leader, c} \cap ShellPid = {}
  /\ tgid' = [tgid EXCEPT ![c] = leader]
  /\ born' = born \cup {c}
  /\ kin' = [kin EXCEPT ![c] = kin[tgid[t]] \cup ({c} \cap ShellPid)]
  /\ ForkTracepoint(tgid[t], c)
  /\ UNCHANGED <<loaded, shells, nhidVars>>

----------------------------------------------------------------------------
\* kill_something_info: the indicator of the shell that s was a child of.
ParentIndicator(s) ==
  IF ~Finds(ChildKeys, s) THEN NoIndicator
  ELSE LET parent == children[LastHit(ChildKeys, s)].shell
       IN  IF Finds(ShellKeys, parent)
           THEN shells[FirstHit(ShellKeys, parent)].indicator
           ELSE NoIndicator

\* A shell runs `kill -s sig 120120000`, a builtin: SIGUSR1 or SIGUSR2 where the
\* script is sourced, SIGRTMIN at a prompt.  A shell that registers is no
\* longer a child of the shell it was started from.
KillSomethingInfo(s, sig) ==
  /\ loaded
  /\ s \in ShellPid /\ Running(s)
  /\ children' = IF sig = "SIGUSR" /\ CanRemove(ChildKeys, s)
                 THEN SwapOut(children, ChildKeys, s, NoChild) ELSE children
  /\ Submit([type |-> "kill", pid |-> s, sig |-> sig,
             parent |-> IF sig = "SIGUSR" THEN ParentIndicator(s) ELSE NoIndicator])
  /\ UNCHANGED <<procVars, loaded, shells, nhidVars>>

----------------------------------------------------------------------------
\* do_exit on the thread group p of the thread that exits.  The first test of
\* the loop returns from the program, not from the loop: with shells[0] empty
\* `children` is not searched.
ExitNoShells == shells[0].pid = NoPid /\ UNCHANGED mapVars

\* Slip: the indicator is read from the slot the scan stopped before.
ExitShellReportsLast(p) ==
  /\ CanRemove(ShellKeys, p)
  /\ shells' = SwapOut(shells, ShellKeys, p, NoShell)
  /\ Submit([type |-> "exit", pid |-> p,
             indicator |-> shells[FirstFree(ShellKeys) - 1].indicator])
  /\ UNCHANGED children

ExitShell(p) ==
  /\ CanRemove(ShellKeys, p)
  /\ shells' = SwapOut(shells, ShellKeys, p, NoShell)
  /\ Submit([type |-> "exit", pid |-> p,
             indicator |-> shells[LastHit(ShellKeys, p)].indicator])
  /\ UNCHANGED children

ExitChild(p) ==
  /\ shells[0].pid # NoPid
  /\ ~CanRemove(ShellKeys, p)
  /\ children' = IF CanRemove(ChildKeys, p)
                 THEN SwapOut(children, ChildKeys, p, NoChild) ELSE children
  /\ UNCHANGED <<shells, ring>>

DoExit(t) ==
  /\ Running(t) /\ t # Root
  /\ tgid' = [tgid EXCEPT ![t] = NoPid]
  /\ \/ loaded /\ ExitNoShells
     \/ loaded /\ ExitShell(tgid[t])
     \/ loaded /\ ExitChild(tgid[t])
     \/ ~loaded /\ UNCHANGED mapVars
  /\ UNCHANGED <<born, kin, loaded, nhidVars>>

----------------------------------------------------------------------------
\* ksys_write: the shells the writing process p may be taken for.  When the
\* table is full and p is not in it, the scan ends without a hit and without
\* an empty slot and the program goes on with an uninitialised shell_pid.
WriteOwners(p) ==
  IF Finds(ChildKeys, p) THEN {children[FirstHit(ChildKeys, p)].shell}
  ELSE IF IsFull(ChildKeys) THEN Pid \cup {NoPid}
  ELSE {}

\* The slot of that shell; one past the end when the scan of a full table
\* misses it, in which case the write goes on with the zero indicator.
WriteSlots(owner) ==
  IF Finds(ShellKeys, owner) THEN {FirstHit(ShellKeys, owner)}
  ELSE IF IsFull(ShellKeys) THEN {MaxShells}
  ELSE {}

WriteEventOf(t, data, slot) ==
  [type |-> "write", data |-> data, writer |-> t, tracked |-> Finds(ChildKeys, tgid[t]),
   indicator |-> IF slot < MaxShells THEN shells[slot].indicator ELSE NoIndicator]

\* What the scan of the first 512 bytes for ESC[?1049h and ESC[?1049l comes to:
\* "enter" if an h occurs (the rest of the buffer is not looked at and nothing
\* is sent), "leave" if only l occurs (blanked out, the rest is sent), "text" if
\* neither does.  While the shell is in the alternate screen nothing is sent.
KsysWriteEnter(slot) ==
  /\ slot < MaxShells
  /\ shells' = [shells EXCEPT ![slot].omit = TRUE]
  /\ UNCHANGED ring

KsysWriteLeave(t, data, slot) ==
  /\ slot < MaxShells
  /\ shells' = [shells EXCEPT ![slot].omit = FALSE]
  /\ Submit(WriteEventOf(t, data, slot))

KsysWriteText(t, data, slot) ==
  /\ slot < MaxShells => ~shells[slot].omit
  /\ Submit(WriteEventOf(t, data, slot))
  /\ UNCHANGED shells

\* A thread t wrote data to a terminal with the name the shell's entry holds (or to
\* a file named "tty"); other writes change nothing.
KsysWrite(t, data) ==
  /\ loaded
  /\ Running(t)
  /\ \E owner \in WriteOwners(tgid[t]) : \E slot \in WriteSlots(owner) :
       \/ KsysWriteEnter(slot)
       \/ KsysWriteLeave(t, data, slot)
       \/ KsysWriteText(t, data, slot)
  /\ UNCHANGED <<procVars, loaded, children, nhidVars>>

----------------------------------------------------------------------------
\* nhid.  ring_buffer__poll hands handle_event the oldest event and releases it
\* when the handler has returned: the event a handler works on is Head(ring).
IsRegistration(event) == event.type = "kill" /\ event.sig = "SIGUSR"

Idle == reg.phase = "idle"

\* handle_kill_SIGUSR reads the clock and starts its scan.
StartRegistration ==
  /\ loaded /\ Idle
  /\ ring # <<>> /\ IsRegistration(Head(ring))
  /\ \E indicator \in Indicator :
       reg' = [phase |-> "scan", pid |-> Head(ring).pid,
               indicator |-> indicator, slot |-> 0]
  /\ UNCHANGED <<procVars, loaded, mapVars, granted>>

\* Slip: the index is advanced before the test that ends the loop.
ScanSlotAdvancesFirst ==
  /\ reg.phase = "scan"
  /\ reg' = IF reg.slot < MaxShells /\ shells[reg.slot].pid # NoPid
            THEN [reg EXCEPT !.slot = @ + 1]
            ELSE [reg EXCEPT !.phase = "inspect",
                             !.slot = IF @ < MaxShells THEN @ + 1 ELSE @]
  /\ UNCHANGED <<procVars, loaded, mapVars, granted>>

\* One bpf_map_lookup_elem of the scan for a free slot.
ScanSlot ==
  /\ reg.phase = "scan"
  /\ reg' = IF reg.slot < MaxShells /\ shells[reg.slot].pid # NoPid
            THEN [reg EXCEPT !.slot = @ + 1]
            ELSE [reg EXCEPT !.phase = "inspect"]
  /\ UNCHANGED <<procVars, loaded, mapVars, granted>>

\* /proc/<pid>/maps and ps answer: the shell is still there.
InspectShell ==
  /\ reg.phase = "inspect"
  /\ Running(reg.pid)
  /\ reg' = [reg EXCEPT !.phase = "update"]
  /\ UNCHANGED <<procVars, loaded, mapVars, granted>>

\* objdump, /proc or ps gave nothing: the handler logs it and returns.
RegistrationFails ==
  /\ reg.phase = "inspect"
  /\ reg' = NoRegistration
  /\ ring' = Tail(ring)
  /\ UNCHANGED <<procVars, loaded, shells, children, granted>>

\* bpf_map_update_elem at the slot found earlier; it is refused one past the
\* end.  The handler never assigns omit_write of the entry it writes.
Register ==
  /\ reg.phase = "update"
  /\ IF reg.slot < MaxShells
     THEN /\ \E omit \in BOOLEAN :
               shells' = [shells EXCEPT ![reg.slot] =
                 [pid |-> reg.pid, indicator |-> reg.indicator, omit |-> omit]]
          /\ granted' = granted \cup {<<reg.pid, reg.indicator>>}
     ELSE UNCHANGED <<shells, granted>>
  /\ reg' = NoRegistration
  /\ ring' = Tail(ring)
  /\ UNCHANGED <<procVars, loaded, children>>

\* Every other handler reads the maps at most.
Consume ==
  /\ loaded /\ Idle
  /\ ring # <<>> /\ ~IsRegistration(Head(ring))
  /\ ring' = Tail(ring)
  /\ UNCHANGED <<procVars, loaded, shells, children, nhidVars>>

\* nhid stops or dies at any point: nothing pins the maps, they go with it.
Unload ==
  /\ loaded
  /\ loaded' = FALSE
  /\ shells' = NoShells /\ children' = NoChildren /\ ring' = <<>>
  /\ reg' = NoRegistration
  /\ UNCHANGED <<procVars, granted>>

\* systemd restarts it (Restart=always) and main loads a fresh object.
Load ==
  /\ ~loaded
  /\ loaded' = TRUE
  /\ UNCHANGED <<procVars, mapVars, nhidVars>>

----------------------------------------------------------------------------
NhidStep ==
  \/ StartRegistration \/ ScanSlot \/ InspectShell \/ RegistrationFails
  \/ Register \/ Consume \/ Unload \/ Load

Next ==
  \/ \E t, c \in Pid : \E leader \in {c, tgid[t]} : Clone(t, c, leader)
  \/ \E s \in ShellPid : \E sig \in {"SIGUSR", "SIGRTMIN"} : KillSomethingInfo(s, sig)
  \/ \E t \in Pid : DoExit(t)
  \/ \E t \in Pid, data \in Data : KsysWrite(t, data)
  \/ NhidStep

Spec == Init /\ [][Next]_vars

----------------------------------------------------------------------------
\* Every variable keeps its type: the maps of nhi.bpf.c:11-29, the processes,
\* and the local state of handle_kill_SIGUSR.
TypeOK ==
  /\ tgid \in [Pid -> Pid \cup {NoPid}]
  /\ born \subseteq Pid
  /\ kin \in [Pid -> SUBSET ShellPid]
  /\ loaded \in BOOLEAN
  /\ shells \in [0 .. MaxShells - 1 -> Shell]
  /\ children \in [0 .. MaxChildren - 1 -> Child]
  /\ ring \in Seq(Event) /\ Len(ring) <= RingCapacity
  /\ reg \in Registration
  /\ granted \subseteq ShellPid \X Indicator

\* `children` has no hole and no pid twice, whatever forks, exits and
\* registrations do to it: the scans of nhi.bpf.c:142-158 and 271-289 therefore
\* see every entry, and removing one entry forgets the process.
ChildrenWellFormed == Compact(ChildKeys) /\ Distinct(ChildKeys)

\* p descends from (or is) a shell registered under the indicator.
Within(p, indicator) == \E s \in kin[p] : <<s, indicator>> \in granted

\* Output found through the tables (nhi.bpf.c:269-308) is sent under an
\* indicator given to a shell the writer descends from, never to another session.
NoForeignOutput(e) ==
  e.type = "write" /\ e.tracked /\ e.indicator # NoIndicator =>
    Within(e.writer, e.indicator)

\* A child event (nhi.bpf.c:171-176) starts the clock of a shell the new
\* process descends from.
NoForeignStart(e) == e.type = "child" => e.shell \in kin[e.child]

\* The marker of a nested shell (nhi.bpf.c:90-106) goes to the session of a
\* shell it was started from.
NoForeignMarker(e) ==
  e.type = "kill" /\ e.parent # NoIndicator =>
    \E s \in kin[e.pid] \ {e.pid} : <<s, e.parent>> \in granted

\* Through any interleaving of registrations, exits that move entries, full
\* tables and restarts, no event names a session its process is not part of.
NoForeignEvent ==
  \A i \in 1 .. Len(ring) :
    /\ NoForeignOutput(ring[i])
    /\ NoForeignStart(ring[i])
    /\ NoForeignMarker(ring[i])

\* The slot handle_kill_SIGUSR found (nhi.c:74-82) is still free when it writes
\* it (nhi.c:124), though do_exit moves entries between the two.
RegistrationNeverClobbers ==
  reg.phase \in {"inspect", "update"} /\ reg.slot < MaxShells =>
    shells[reg.slot].pid = NoPid

\* An exit event (nhi.bpf.c:218-223) carries an indicator of the very shell that
\* has exited: no session is closed while its shell runs on.
ClosedSessionsAreOver ==
  \A i \in 1 .. Len(ring) :
    ring[i].type = "exit" =>
      /\ <<ring[i].pid, ring[i].indicator>> \in granted
      /\ ~Running(ring[i].pid)

----------------------------------------------------------------------------
\* What the README says; the code does otherwise in the case README.md of this
\* directory describes.

\* "output of command" (README.md:12): as long as a thread of a traced process
\* runs and nhid is up, the process is traced, unless it registers as a shell.
TracedUntilOver ==
  [][\A p \in Pid \ ShellPid :
       /\ loaded'
       /\ Finds(ChildKeys, p)
       /\ \E t \in Pid : tgid'[t] = p
       => \E i \in DOMAIN children' : children'[i].child = p]_vars
============================================================================
