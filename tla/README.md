# A formal model of nhi

nhi records what is executed in bash and zsh sessions: BPF programs in the kernel watch
processes, a daemon turns what they see into rows of an SQLite database, and a command
line tool queries it. This directory holds TLA+ modules of the recording side and of the
tool's work on the database, the TLC runs that check them and the TLAPS proofs about
them. Paths are relative to the root of the repository; `nhi.c`, `nhi.bpf.c`,
`sqlite.c`, `common.h` and `utils.c` are in `daemon/src/`.

## Inventory

| Component | State | Operations | Talks to |
|---|---|---|---|
| Kernel tracer, `nhi.bpf.c` | maps `shells`, `children`, ring buffer, per-CPU scratch slots | `kill_something_info`, `fork_tracepoint`, `do_exit`, `ksys_write`, `__fdget_pos` | triggered by processes; ring buffer and `shells` shared with nhid |
| nhid, `nhi.c`, `utils.c` | `__environ`, local state of the running handler | `handle_event` and its five handlers, load, exit | reads and writes `shells`, reads shells' memory, writes the database |
| Session database, `sqlite.c` | a table per session, table `meta` | twelve statements | written by nhid and the CLI, read by the CLI |
| Shell scripts, `shell/` | exported variables, `ran_first_time` | sourcing, `prompter`/`precmd` | `kill` on a pid no process has, seen by the tracer |
| CLI, `cmd/`, `pkg/`: ranges | none | the WHERE clauses of `fetch` and `remove` | database |
| CLI: session administration | the list of sessions a command has read | `rename`, `remove`, the look-up of a session | database, its write lock |
| CLI: output decoding | a stack of rows being printed, two buffers | `fetch` | database |
| CLI: log views | the list of sessions | `log`, `log-session` | database, a pager |
| Installation, tests, manual | - | - | `nhid.service` restarts nhid |

Hard behaviours:

- **Holes.** The maps are arrays scanned up to the first empty slot. All rests on
  entries never standing behind a hole. do_exit fills holes by moving the last entry;
  nhid writes a slot it found earlier, with programs running meanwhile.
- **Lag.** Events are handled later than they happen, and what a handler reads (a
  shell's variables, `shells`, `/proc`) is the present, not the past.
- **Failure.** nhid may be killed between any two statements; a restart finds the
  database and the shells but no maps. Handlers return early, and some code goes on
  after a failure that is only logged.
- **Limits.** Full tables, a full ring buffer, identifiers with a resolution of a tenth
  of a second.
- **Concurrency in the kernel.** Programs run on all CPUs at once on shared maps.
- **The CLI** changes the same database in several statements per command, while nhid
  and other processes of the CLI go on. Only single statements are atomic, and nhid sets
  no busy timeout: what it cannot write at once is lost.
- **The stream.** Output is one stream of marker bytes, text and indicators, read back
  by a loop that recurses into nested sessions.

What makes each part correct: `children` has no hole and no duplicate; an event names
only a session its process belongs to; registering never overwrites an entry; a session
is only closed when its shell is over; output is recorded in the row of its command; a
row is complete before the next is opened; a marker leads to a session; what is queued
gets recorded. A session has a table exactly if it has a row in `meta`; a range selects
the slice the manual describes; a fetch prints what was recorded, in order, each text on
its stream.

## Modules

| Module | Models | Of |
|---|---|---|
| `SlotTable` | the scans and the removal the two maps share | `nhi.bpf.c` |
| `Tracer` | the BPF programs as one action each, the processes, and what nhid does to the maps | `nhi.bpf.c`, `nhi.c` |
| `Programs` | the BPF programs taken apart into map accesses, on several CPUs | `nhi.bpf.c` |
| `SessionDb` | each statement as a function on the database | `sqlite.c`, `pkg/remove`, `pkg/rename` |
| `Nhi` | `Tracer` with the scripts, nhid's handlers statement by statement, and the database | `nhi.c`, `shell/` |
| `Selection` | sessions and ranges as the command line names them | `pkg/utils/gets.go` |
| `Ranges` | `fetch` and `remove` with a range, on tables that grow and shrink | `pkg/fetch/fetch.go`, `gets.go` |
| `SessionAdmin` | processes of the tool and nhid on one database | `pkg/rename`, `pkg/remove`, `pkg/log`, `gets.go` |
| `Fetch` | `printRows` on the stream nhid records | `pkg/fetch/fetch.go`, `nhi.c` |
| `MCTracer`, `MCPrograms`, `MCNhi`, `MCAdmin` | instances for TLC | |
| `SlotTableTheorems`, `RowidTheorems` | lemmas on tables and rowids | |
| `TracerProofs`, `ProgramProofs`, `RecordProofs`, `RangeProofs`, `SessionAdminProofs`, `FetchProofs` | proofs | |

How they fit together: `Nhi` extends `Tracer` and instantiates `SessionDb`; `Programs`
extends `Tracer`; `SessionAdmin` and `Ranges` extend `SessionDb` and `Selection`;
`Fetch` stands alone. `Tracer` is the abstraction of two modules: of `Nhi`, where nhid's
order of work is left open and no database exists (`TracerSpec`), and of `Programs` on
one CPU, where a program is a single step (`AtomicSpec`).

**Tracer.** `tgid`, `born` and `kin` are the kernel's processes, `loaded` says that nhid
runs with its programs attached, `shells`, `children` and `ring` are the maps, and `reg`
holds the locals of `handle_kill_SIGUSR` that survive a system call: the pid, the
indicator, and the slot `i`. Clone is the fork or thread creation with
`fork_tracepoint`; KillSomethingInfo the kill of the scripts; DoExit the exit of a
thread, with the three outcomes of `do_exit` as disjuncts (nothing because `shells[0]`
is empty, a shell removed and an event sent, a child removed); KsysWrite a write, with
the uninitialised `shell_pid` of a full table as a free choice and the scan for the
alternate screen by its outcome. ScanSlot is one `bpf_map_lookup_elem`; InspectShell and
RegistrationFails what `/proc` and `ps` answer; Register the update of `shells`. Unload
and Load are the end and the start of nhid: nothing pins the maps. `kin` and `granted`,
and fields of events the program does not send (`child`, `writer`, `tracked`, the `pid`
of an exit), are history variables the properties use; no guard depends on them.

**Programs.** `cpu` holds, per CPU, the program it runs with its locals (`i`,
`pid_index`, the pid and the indicator looked for). Every lookup and every update of a
map is a step, an iteration of a loop is one lookup; the early exits, the falls through
behind a full table and `i--` are steps as in the source. The traced function takes
effect when its program returns. `maps` is what a program started from: with one CPU,
`Tracer` sees those maps until the program is over (`AtomicSpec`). nhid's system calls
need a CPU without a program.

**Nhi** adds to each step of Tracer what happens outside the maps. A shell goes from
`source` to `prompt`, `command`, `prompter` and back. Export is the assignment of the
variables; Prompt the kill that follows. A handler is a sequence of steps (`nhid.step`),
one per statement or system call; the event it works on is the head of the ring buffer,
which `ring_buffer__poll` releases when the handler returns. CopyEnviron copies the
shell's variables as they are at that moment, or leaves `environ` as it was when the
shell is gone. The four statements of FinishRow are taken together, and so are those of
NextRow: no property looks between them. Fault is the `strlen` of a variable `getenv`
did not find. Statements take effect, or change nothing where a table is missing; only
the finish time's may also be refused, because the tool is writing, and `refused` keeps
the sessions that concerns.

**SessionDb.** A row keeps its command, directory, output, nested markers, and whether
it was started and finished. Output is a set of texts. A text says where each shell was
in its script when it was written, which is all the properties tell apart. Updates
change the last row, and change nothing where the table does not exist. `meta` maps
rowids to indicators, because the tool selects by rowid and SQLite gives out the rowid
of a deleted last row again.

**Selection and Ranges.** `FromRange` is the WHERE clause of `remove`, `FetchRows` that
of `fetch`, which has a translation of its own; `Slice` is the manual's word for both.
Ranges lets sessions begin and be removed and commands finish, so that every table with
every pattern of gaps comes up, with and without the row of the command to come.
`MCAdmin` puts Ranges and SessionAdmin, which share no variable, into one instance in
which only one of the two moves, so that their states add up.

**SessionAdmin.** A process of the tool goes through the statements of one command
(`cli[p].at`), with the list it has read (`todo`). `writer` is SQLite's write lock: a
process waits for it up to five seconds and then goes on or fails as its code does,
nhid's statement fails at once. A log is done when it has opened all tables; whether it
found anything to show is not told apart. Processes may be suspended with the lock (another's
LockTimesOut) or killed. nhid is reduced to its statements on sessions that begin, have
prompts and end. `gone`, `broken`, `refused` and `clash` are history.

**Fetch.** A frame is an activation of `printRows`: the rows and bytes not read yet, the
two buffers and `writeStdout`. A step is the next row, one marker with what it flushes,
one text, a nested session's query, the end of a row or of the rows. A row without a
command, because it is unfinished or the shell's history was empty, is passed over with
its output. nhid appends to the
rows and a remove takes sessions away at any point; a query takes a snapshot.

Operators whose comment starts with "Slip" are faulty variants of the definition that
follows; no specification uses them.

## Runs

| Run | Instance | Result |
|---|---|---|
| `tracer` | 2 shells, 1 command, 2 indicators, tables of 3, ring of 1, symmetric | 5 invariants hold |
| `programs` | 1 CPU, 2 shells, 1 command, shells 3, children 2, ring of 1, symmetric | types and AtomicSpec hold |
| `nhi` | 2 shells with a command each, 1 child, shells 2, children 3, ring of 1, 1 stop, symmetric | 4 invariants hold |
| `nhi_session` | 1 shell with 2 commands, 2 children, ring of 2, fair | 3 invariants, TracerSpec and ExitGetsRecorded hold |
| `admin` | SessionAdmin: 2 processes of the tool, 2 sessions with a prompt each, 2 names, symmetric; Ranges: up to 4 sessions, 3 commands, indices -4 to 4 | 9 invariants, RemoveSkipsNone hold |
| `fetch` | 2 sessions, 3 writes, 2 rows, fair | 4 invariants, FetchFailureExplained and FetchEnds hold |
| `tracer_threads` | 1 shell, a process with two threads | TracedUntilOver violated |
| `programs_race` | 2 CPUs, 2 registered shells, 1 command | IndicatorOfItsShell violated |
| `nhi_command` | 1 shell with 2 commands | RecordedCommandIsExecuted violated |
| `nhi_crash` | 1 shell, 1 restart | NhidSurvives violated |
| `fetch_range` | Ranges as in `admin`, 2 exit statuses | FetchKeepsRange violated |
| `rename_number` | 1 process of the tool, 2 sessions | NumbersAreOwn violated |

What the runs show, and why the bounds are enough:

- `tracer`: a removal needs an empty slot, so tables of three are the smallest in which
  it moves an entry. The run moves entries in both, leaves a hole in `shells`, nests a
  shell in another and has a shell die while nhid scans. Larger tables only add
  distance, and the proofs cover every size of tables and ring, and threads.
- `programs`: the loops do what the sets of `Tracer` say. Two shells may both be
  registered under the one indicator, and one of them twice, so that removals move
  entries of `shells` and the table fills up; `children` fills up with two entries,
  where the programs fall through their scans and `ksys_write` goes on with an
  uninitialised pid. An entry of `children` is not moved, for which three processes or a
  larger table would be needed. The proof covers that, and every size of the tables.
- `nhi` has the pairs of sessions that nesting, markers and exits need, and nhid stopped
  at every statement. Its ring holds one event, so what is queued behind another is left
  to `nhi_session`, which has the depth: two prompts in flight, output of a
  process that outlives its command, and lost events. nhid is not stopped there (it may
  still go away by a fault), since a restarted nhid records nothing more of an older
  shell. Properties about alignment exclude behaviours that have lost an event (`lost`),
  because a lost prompt shifts the rows of its session and nothing in the code repairs
  that.
- `admin`: with two processes every pair of commands overlaps at every statement, and
  rename, remove, log and look-up meet nhid in the middle of a registration or a prompt.
  A conflict of three processes is one of two of them. For Ranges, four sessions give
  every pattern of gaps around both ends of a range; indices go beyond the tables on
  both sides.
- `fetch`: a nested session announced before, between and behind texts of both streams,
  recorded in an earlier or the same row, still being registered, or removed at any
  point of the fetch.

Deadlock is checked in the runs of Tracer and Programs, which always have a step. It is
not checked in the others, whose models come to their end: the pids and stops are used
up, the commands of the tool are over, the tables are full, the fetch has printed all.

### Findings

- `tracer_threads`: do_exit fires per thread but removes the thread group, so the first
  thread to end stops the recording of the process.
- `programs_race`: `ksys_write` compares the pid of an entry and reads its indicator in
  the map itself. do_exit on another CPU may move the last entry to that slot in
  between: the output goes to the other shell's session.
- `nhi_command`: nhid reads a row's command after the shell has moved on to the next.
- `nhi_crash`: after a restart every prompt of an older shell makes nhid fault, because
  its variables are not found in nhid's own environment.
- `fetch_range`: an exit status takes the place of the range instead of narrowing it.
- `rename_number`: the manual says a new name can't be a number, the code does not look.
  A session renamed to a number shares it with the session that begins under it later,
  and a look-up finds the first of the two. NamesDistinct therefore excepts, besides two
  renames at the same time, the name one of the two had from its beginning.

Seen while modelling, described in the model but not the subject of a run:

- A removal from a full table does nothing. A shell registered behind a hole, which an
  exit during the registration leaves, is not traced until the hole is filled.
- The exit of the last shell leaves the processes it started in `children`
  (`nhi.bpf.c:199` ends the program before they are looked for).
- Two forks on two CPUs may take the same slot, and removals of two CPUs lose or double
  an entry.
- A shell that exits while it is being registered leaves an entry and a session that is
  never closed; an early return of `handle_kill_SIGUSR` leaves the dead shell's
  variables in `__environ`.
- A row has the directory of the prompt before its command, not that after it.
- While the tool writes, a statement of nhid is refused, logged and not repeated: a row
  is missing or stays open, a session has no row in `meta`.
- `rename` reports success for a session that does not exist.
- A `remove` with an index beyond the table selects nothing where a slice would be cut
  to the table.

## Fairness

`NhiFairSpec` has weak fairness of the handlers' steps together with Fault, and nothing
else. `ring_buffer__poll` returns at least once a second, no handler waits for anything
but system calls and SQLite, and a fault cannot be put off. Shells, commands and
restarts are not fair. ExitGetsRecorded therefore ends in "recorded, or refused, or nhid
went away": an exit that is queued is handled, but its statement is tried once, and fails
if the tool is writing at that moment. It says nothing of an exit whose event was lost.

`FetchFairSpec` has weak fairness of Fetching: the tool is a process that runs on, and
its queries wait for nobody. FetchEnds holds because a query takes a snapshot and a
nested session is younger than the one it is announced in, so that what is recorded
meanwhile cannot keep the recursion going.

`Tracer`, `Programs` and `SessionAdmin` are checked for safety only: a process of the
tool may be suspended for ever, and the code gives no promise about that.

## Proofs

The proofs hold for any sets of processes, shells, data, indicators, sessions and names,
for any positive sizes of the tables and the ring, and any numbers of commands and
restarts (the assumptions of each module).

`SlotTableTheorems` has the lemmas on tables: the first free slot and the first and last
hit exist and are where they should be, a removal takes out one entry and keeps the
others, a removal from and an addition to a table without holes and duplicates leave it
so. `RowidTheorems` has the lemmas on `meta`: the next rowid is a new one, and a row
added or deleted adds or deletes its session and no other.

`TracerProofs` proves TypeOK, ChildrenWellFormed, NoForeignEvent,
RegistrationNeverClobbers and ClosedSessionsAreOver invariant. None but the first is
inductive alone. What an event says rests on the tables, and those on the processes, so
`IInv` adds ProcessesOK (threads share the kin of their process, kin are born before it
is used), ChildrenKin (an entry of `children` names a shell its process descends from,
not itself), ShellsGranted (an entry of `shells` holds the indicator it was registered
under), RingOK (every queued event is true, and stays so because history only grows and
nobody comes back to life) and RegistrationOK (the event nhid works on is still at the
head of the ring). There is one lemma per action or group of like actions, and under it
one step per conjunct the action can disturb. RegistrationNeverClobbers does not rest on
`shells` being free of holes, which it is not: only nhid occupies slots, and an exit
empties one.

`ProgramProofs` is about the programs taken map access by map access. On any number of
CPUs the maps keep their types and no index leaves its table: where a program stands
says which program it is (Serves) and where its locals may be (Fits). The maps change
under a program while it runs, so nothing more is true there. On one CPU `AtomicSpec` is
proved, that is, Programs implements Tracer. Its invariant, `OneCpuInv`, says for each
program and each place how locals and maps have come from the maps the program started
from: a scan has passed slots without a hit and without a hole (Passed), the index
noted is the first hit, the maps are the old ones, or those with the removal half done,
or those Tracer would have (KillAt, ForkAt, ExitAt, WriteAt). At the return of the
program this is the action of Tracer (KillImplements and its like), and every step
before it is a stutter, since `maps` stands for what Tracer sees. nhid's steps are those
of Tracer because the one CPU is idle.

`RecordProofs` first proves `NhiSpec => TracerSpec`, step by step, from the fact that a
shell counts its prompts within bounds (so that what is written is a member of `Data`).
The invariants of Tracer then hold of nhi as a whole (NhiKeepsTheTables). Then come the
invariants of Nhi. The first part, `RecordInv`, gives
NhiTypeOK, CompleteBeforeNext, FinishMeansExited and MarkersResolve: where nhid is in a
handler says which event is at the head of the ring (HeadOK), whether the session it
registers has its table, row and entry in `meta` yet (TableOK), and whether the last row
has just been finished (NextOK), which is what CompleteBeforeNext needs when the next
row is opened.

The second part, `AlignInv`, gives OutputUnderItsCommand. The property speaks of what is
recorded, the danger lies in what is queued: so for every granted session there is a
numbering of the ring buffer (SessionAt) that begins with the number of rows the session
has, goes up by one at each prompt of its shell, gives each queued write the row it
belongs to, and ends with the prompts the shell has sent. A prompt or write that is
submitted extends the numbering, an event that is handled shifts it (NumbersMore,
NumbersRest). A registration that waits in the ring has the numbering of the session it
is going to open (ArrivalsOK), and GrantsOK says that no shell registers twice or under
an indicator of another. All but GrantsOK is under `lost`: a prompt that did not fit the
ring breaks the numbering.

The third part, `CommandInv`, gives CommandNeverOlder. A shell exports a command before
it sends the prompt for it (ExportedOK), so a copy taken for the prompt at the head of
the ring is as young as the prompts its shell has sent, and by the numbering of the
second part those are no fewer than the rows of the table (CopyIsYoung). What is copied
for one handler never reaches another (SnapshotOK), but for the registration that gives
up after its copy, which `stale` remembers.

`RangeProofs` proves what `admin` checks of Ranges, for sessions and times of any number and
tables with any gaps. A row's position is the number of rows before it (Positions): it
grows with the row and takes every value below the number of rows (PositionsGrow,
PositionsAreTaken, by counting). So the row a negative or positive LIMIT/OFFSET finds is
the one at that position (RowAtIsAtPosition), and comparing rows is comparing positions
(SliceOfTable, CutsAtPosition, for any integer as an index). Rows of a session have no
gaps, which makes a row its own position, the row to come included or not.

`SessionAdminProofs` proves the invariants of SessionAdmin.
TablesAndMetaAgree and RemovedStaysRemoved rest on what nhid and remove are in the
middle of (`TableInv`): nhid only starts a session nobody has seen, in `meta` or in what
a process has selected (NotSeenYet), whose table is there unless its statement failed
(HalfRegistered), and what remove deletes from `meta` has lost its table or is broken
(DroppedFirst). NamesDistinct needs that a name that passed the check is used by nobody
but the session called so from its beginning, or is in `clash` (FreeName, RivalsClash);
FailureExplained that what a process still has to visit is listed or gone (VisitsOK).
RemoveSkipsNone follows step by step.

RowsFollowCommands needs a count (`RowsInv`): a session whose statements all took effect
has a row for each prompt nhid has handled and one for the next, which is missing only
while nhid is in the middle of a registration or has finished a row and not opened the
next (Expected). So the row a prompt finishes is the last one, and its number is that of
the prompt; remove takes a table as a whole, and rename leaves rows alone.

`FetchProofs` proves the safety properties of Fetch. The first invariant, `FetchInv`,
gives the ones on the stream and the buffers and FetchFailureExplained: an indicator
follows every marker of a nested session in all that is recorded, queued in a frame or
being read, it is one announced, and only the buffer `writeStdout` names holds text.

The second, `Printing`, gives PrintsWhatIsRecorded and NestedInPlace. Both speak of
places, a row's number with that of a byte, or 0 for the row's command, so that neither
needs a filtered sequence nor induction over one. A frame fits the table it was opened on
(FrameFits): it stands at some byte of some row, its output is the rest of that row, and
its buffer holds the text read last unless a marker came since (BufferFits). So the
places behind it have come out but for at most one that is pending (CameOutOf), and
across all frames that is exactly what was printed (OutIff). Each action lets the
pending place out at a marker or at the end of a row, a command at its start, or nothing
(LetsOut, TopKeeps). A nested session is fetched once: an indicator has one place in all
tables, recorded or fetched (OneRecord), every outer frame waits right behind the one it
asked for (Stack), and every session fetched was asked for by one that has been read
(AskedFor). That is also why its output begins in the middle of that row (InPlaceNext)
and why with -f none of them is left out (NestedAsked). What nhid records meanwhile
enters no table that is fetched (RecordGrows).

Model-checked only: what holds under fairness, ExitGetsRecorded and FetchEnds, which is
beyond the proof system. TracedUntilOver, IndicatorOfItsShell, RecordedCommandIsExecuted,
NhidSurvives, FetchKeepsRange and NumbersAreOwn do not hold; their runs show how.

## Bounds and simplifications

- `Tracer` and `Nhi` are machines with one CPU: each BPF program is atomic, nhid's scans
  interleave with them. `Programs` is what justifies the first, and shows what more CPUs
  do.
- In `Programs` nhid stays up, processes have one thread, and nhid's system calls are
  atomic. `programs_race` starts from a state with two registered shells.
- Pids are not reused; in Nhi an indicator is not given out twice (shells that start
  within a tenth of a second of each other would share a table).
- In Nhi shells source the script once, create no threads, and commands start no shells
  of their own except as a nested shell of the shell that runs them.
- `MaxCommands` bounds the commands of a shell, `MaxRestarts` the stops of nhid,
  `MaxWrites` the texts in Fetch.
- The copy of a shell's environment is atomic. In Nhi no statement but that of the finish
  time is refused by the tool's write lock; SessionAdmin has the refusals of all of them.
  So CompleteBeforeNext, MarkersResolve and the alignment of rows hold of Nhi as long as
  nhid's statements are not refused, and what a refusal leaves is in SessionAdmin
  (`broken`, `refused`).
- The terminal test of `ksys_write`, event sizes and the bytes of the alternate screen
  sequences are abstracted; every outcome is allowed.
- In SessionAdmin an argument below a billion is an index and any other a name, a
  process runs one command, and a `remove` takes a range of indices from -2 to 2 or of
  indicators.
- In Fetch a text stands for the bytes of one write and an indicator for its eleven
  digits; texts contain no marker byte (they are no part of UTF-8). A program's own byte
  253 near the end of its output, for which `fetch.go:251` reaches beyond the slice, is
  therefore not covered. A query and its
  first row are one step. The fetch has no range; regular expression, colour and the
  look of prompt and command are left out.
- Ranges leaves out the filters on directory, command and times, each a conjunct with
  one column, and the parsing of ranges and dates.

## Not modelled

- `log` and `log-session` beyond the tables they open: text and a pager. A few
  divergences seen there are not in the model: without a filter a session with only an
  open row is listed; `log -d` looks at the directory of the open row too; rows stay
  open while the pager runs.
- The scan for the alternate screen, the sizes of events and the file position of
  `__fdget_pos` (`nhi.bpf.c:315-397`): their inputs are bytes of a foreign buffer, the
  kernel's file operations and migrations between CPUs, all of which the model would
  leave free, and with them the outcome.
- A copy of the environment torn by a shell that changes it meanwhile: what it yields
  depends on the shell's allocator.
- The history settings of the scripts and the wrappers that run builtins as processes.
- Installation, tests, the manual and vendored code (SQLite, kong, pkg/errors,
  golang.org/x).
- `daemon/src/vmlinux.h`, 112659 of the 113922 lines of the implementation: the kernel's
  types as generated by bpftool, without any behaviour. The modules cover most of the
  rest.

## What could follow

`SessionLog`, an abstract record of one session that Nhi implements while nothing is
lost, would say in one formula what the invariants say piecewise.
