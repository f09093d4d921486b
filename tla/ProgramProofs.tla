--------------------------- MODULE ProgramProofs ---------------------------
(* The BPF programs, taken apart into accesses to the maps, keep the types   *)
(* of the maps and stay inside the tables on any number of CPUs; on one CPU  *)
(* they implement Tracer, where each is one action.                          *)
EXTENDS Programs, TracerProofs

----------------------------------------------------------------------------
(* Types.  Where a program is tells in which table its index runs.          *)

KillPlaces == {"kill_find", "kill_owner", "kill_copy", "kill_zero", "kill_parent",
               "kill_indicator"}
ForkPlaces == {"fork_shells", "fork_children", "fork_owner", "fork_free", "fork_add"}
ExitPlaces == {"exit_shells", "exit_indicator", "exit_copy_shell", "exit_zero_shell",
               "exit_children", "exit_copy_child", "exit_zero_child"}
WritePlaces == {"write_children", "write_owner", "write_shells", "write_indicator",
                "write_text", "write_omit"}
LastPlaces == {"submit", "return"}
Places == KillPlaces \cup ForkPlaces \cup ExitPlaces \cup WritePlaces \cup LastPlaces

\* Before an entry is looked at the index may be behind the table, then not.
ChildScans == {"kill_find", "fork_children", "fork_free", "exit_children", "write_children"}
ChildReads == {"kill_owner", "kill_copy", "kill_zero", "fork_owner", "fork_add",
               "exit_copy_child", "exit_zero_child", "write_owner"}
ShellScans == {"kill_parent", "fork_shells", "exit_shells", "write_shells",
               "write_text", "write_omit"}
ShellReads == {"kill_indicator", "exit_indicator", "exit_copy_shell",
               "exit_zero_shell", "write_indicator"}

Call == [name : {"kill"}, sig : {"SIGUSR", "SIGRTMIN"}] \cup [name : {"fork"}, child : Pid]
        \cup [name : {"exit"}] \cup [name : {"write"}, data : Data]

MapsRecord == [shells : [0 .. MaxShells - 1 -> Shell],
               children : [0 .. MaxChildren - 1 -> Child], ring : Seq(Event)]

ProgramRecord ==
  [at : Places, pid : Pid, call : Call, i : Nat, index : Nat \cup {NotFound},
   owner : Pid \cup {NoPid}, indicator : Indicator \cup {NoIndicator},
   hit : BOOLEAN, maps : MapsRecord]

InChildren(i) == i \in 0 .. MaxChildren - 1
InShells(i) == i \in 0 .. MaxShells - 1

\* The program a place is in.
Serves(place, name) ==
  /\ place \in KillPlaces => name = "kill"
  /\ place \in ForkPlaces => name = "fork"
  /\ place \in ExitPlaces => name = "exit"
  /\ place \in WritePlaces => name = "write"

\* Where i may be at a place, and index, which notes a slot the scan has behind it.
Fits(place, i, index) ==
  /\ place \in ChildScans => i \in 0 .. MaxChildren
  /\ place \in ChildReads => InChildren(i)
  /\ place \in ShellScans => i \in 0 .. MaxShells
  /\ place \in ShellReads => InShells(i)
  /\ i \in 0 .. MaxShells \/ i \in 0 .. MaxChildren
  /\ index = NotFound \/ InChildren(index) \/ InShells(index)
  /\ place \in {"kill_find", "exit_children", "exit_shells"} =>
       index = NotFound \/ index \in 0 .. i - 1
  /\ place \in {"kill_owner", "exit_indicator"} => index = i
  /\ place \in {"kill_copy", "exit_copy_child"} => InChildren(index)
  /\ place = "exit_copy_shell" => InShells(index)

ProgramOK(c) ==
  /\ c \in ProgramRecord
  /\ c.call.name = "kill" => c.pid \in ShellPid
  /\ Serves(c.at, c.call.name)
  /\ Fits(c.at, c.i, c.index)

CpusOK == \A k \in Cpu : At(k, "idle") \/ ProgramOK(cpu[k])

\* What a registration writes is a shell and an indicator, and its event is still
\* at the head of the ring.
RegistrationTyped ==
  reg.phase # "idle" =>
    reg.pid \in ShellPid /\ reg.indicator \in Indicator /\ ring # <<>>

ProgramInv ==
  /\ TypeOK /\ RegistrationTyped
  /\ DOMAIN cpu = Cpu /\ CpusOK

----------------------------------------------------------------------------
(* The moves of a program within its own record.                           *)

LEMMA AllPlaces ==
  /\ "kill_find" \in Places /\ "kill_owner" \in Places /\ "kill_copy" \in Places
  /\ "kill_zero" \in Places /\ "kill_parent" \in Places /\ "kill_indicator" \in Places
  /\ "fork_shells" \in Places /\ "fork_children" \in Places /\ "fork_owner" \in Places
  /\ "fork_free" \in Places /\ "fork_add" \in Places /\ "exit_shells" \in Places
  /\ "exit_indicator" \in Places /\ "exit_copy_shell" \in Places /\ "exit_zero_shell" \in Places
  /\ "exit_children" \in Places /\ "exit_copy_child" \in Places /\ "exit_zero_child" \in Places
  /\ "write_children" \in Places /\ "write_owner" \in Places /\ "write_shells" \in Places
  /\ "write_indicator" \in Places /\ "write_text" \in Places /\ "write_omit" \in Places
  /\ "submit" \in Places /\ "return" \in Places
  BY DEF Places, KillPlaces, ForkPlaces, ExitPlaces, WritePlaces, LastPlaces

\* The program on CPU k goes on, those on other CPUs do not.
Moves(k) ==
  /\ DOMAIN cpu' = Cpu /\ \A j \in Cpu \ {k} : cpu'[j] = cpu[j]
  /\ cpu'[k] \in ProgramRecord
  /\ cpu'[k].pid = cpu[k].pid /\ cpu'[k].call = cpu[k].call /\ cpu'[k].maps = cpu[k].maps

\* The moves that are written out where they happen.
TakesOwner(k, owner) ==
  Update(k, [cpu[k] EXCEPT !.at = "kill_find", !.owner = owner, !.i = @ + 1])
TakesIndicator(k, indicator) ==
  Update(k, [cpu[k] EXCEPT !.at = "exit_shells", !.indicator = indicator, !.i = @ + 1])
TakesIndex(k) == Update(k, [cpu[k] EXCEPT !.index = cpu[k].i, !.i = @ + 1])
FindsIndicator(k, indicator, place) ==
  Update(k, [cpu[k] EXCEPT !.at = place, !.indicator = indicator])

LEMMA Updated ==
  ASSUME ProgramInv, NEW k \in Cpu, NEW c \in ProgramRecord, Update(k, c),
         c.pid = cpu[k].pid, c.call = cpu[k].call, c.maps = cpu[k].maps
  PROVE  Moves(k) /\ cpu'[k] = c
  BY DEF ProgramInv, Update, Moves

LEMMA RunningProgram ==
  ASSUME ProgramInv, NEW k \in Cpu, ~At(k, "idle")
  PROVE  ProgramOK(cpu[k]) /\ cpu[k] \in ProgramRecord
  BY DEF ProgramInv, CpusOK, ProgramOK

LEMMA Jumped ==
  ASSUME ProgramInv, NEW k \in Cpu, ~At(k, "idle"), NEW place \in Places, Jump(k, place)
  PROVE  /\ Moves(k) /\ cpu'[k].at = place
         /\ cpu'[k].i = cpu[k].i /\ cpu'[k].index = cpu[k].index /\ cpu'[k].owner = cpu[k].owner
         /\ cpu'[k].indicator = cpu[k].indicator /\ cpu'[k].hit = cpu[k].hit
<1>1. PICK c : c = cpu[k]
  OBVIOUS
<1>2. PICK d : d = [c EXCEPT !.at = place]
  OBVIOUS
<1>3. c \in ProgramRecord
  BY <1>1, RunningProgram
<1>5. /\ d \in ProgramRecord /\ d.pid = c.pid /\ d.call = c.call /\ d.maps = c.maps
      /\ d.at = place /\ d.i = c.i /\ d.index = c.index /\ d.owner = c.owner
      /\ d.indicator = c.indicator /\ d.hit = c.hit
  BY <1>2, <1>3 DEF ProgramRecord
<1>6. Update(k, d)
  BY <1>1, <1>2 DEF Jump
<1> QED
  BY <1>1, <1>5, <1>6, Updated

LEMMA Looped ==
  ASSUME ProgramInv, NEW k \in Cpu, ~At(k, "idle"), NEW place \in Places, Loop(k, place)
  PROVE  /\ Moves(k) /\ cpu'[k].at = place
         /\ cpu'[k].i = 0 /\ cpu'[k].index = NotFound /\ cpu'[k].owner = cpu[k].owner
         /\ cpu'[k].indicator = cpu[k].indicator /\ cpu'[k].hit = cpu[k].hit
<1>1. PICK c : c = cpu[k]
  OBVIOUS
<1>2. PICK d : d = [c EXCEPT !.at = place, !.i = 0, !.index = NotFound]
  OBVIOUS
<1>3. c \in ProgramRecord
  BY <1>1, RunningProgram
<1>5. /\ d \in ProgramRecord /\ d.pid = c.pid /\ d.call = c.call /\ d.maps = c.maps
      /\ d.at = place /\ d.i = 0 /\ d.index = NotFound /\ d.owner = c.owner
      /\ d.indicator = c.indicator /\ d.hit = c.hit
  BY <1>2, <1>3 DEF ProgramRecord
<1>6. Update(k, d)
  BY <1>1, <1>2 DEF Loop
<1> QED
  BY <1>1, <1>5, <1>6, Updated

LEMMA Advanced ==
  ASSUME ProgramInv, NEW k \in Cpu, ~At(k, "idle"), NEW place \in Places, Advance(k, place)
  PROVE  /\ Moves(k) /\ cpu'[k].at = place
         /\ cpu'[k].i = cpu[k].i + 1 /\ cpu'[k].index = cpu[k].index /\ cpu'[k].owner = cpu[k].owner
         /\ cpu'[k].indicator = cpu[k].indicator /\ cpu'[k].hit = cpu[k].hit
<1>1. PICK c : c = cpu[k]
  OBVIOUS
<1>2. PICK d : d = [c EXCEPT !.at = place, !.i = @ + 1]
  OBVIOUS
<1>3. c \in ProgramRecord
  BY <1>1, RunningProgram
<1>4. c.i \in Nat /\ c.i + 1 \in Nat
  BY <1>3 DEF ProgramRecord
<1>5. /\ d \in ProgramRecord /\ d.pid = c.pid /\ d.call = c.call /\ d.maps = c.maps
      /\ d.at = place /\ d.i = c.i + 1 /\ d.index = c.index /\ d.owner = c.owner
      /\ d.indicator = c.indicator /\ d.hit = c.hit
  BY <1>2, <1>3, <1>4 DEF ProgramRecord
<1>6. Update(k, d)
  BY <1>1, <1>2 DEF Advance
<1> QED
  BY <1>1, <1>5, <1>6, Updated

LEMMA Marked ==
  ASSUME ProgramInv, NEW k \in Cpu, ~At(k, "idle"), NEW place \in Places, Note(k, place)
  PROVE  /\ Moves(k) /\ cpu'[k].at = place
         /\ cpu'[k].i = cpu[k].i /\ cpu'[k].index = cpu[k].i /\ cpu'[k].owner = cpu[k].owner
         /\ cpu'[k].indicator = cpu[k].indicator /\ cpu'[k].hit = TRUE
<1>1. PICK c : c = cpu[k]
  OBVIOUS
<1>2. PICK d : d = [c EXCEPT !.at = place, !.index = c.i, !.hit = TRUE]
  OBVIOUS
<1>3. c \in ProgramRecord
  BY <1>1, RunningProgram
<1>5. /\ d \in ProgramRecord /\ d.pid = c.pid /\ d.call = c.call /\ d.maps = c.maps
      /\ d.at = place /\ d.i = c.i /\ d.index = c.i /\ d.owner = c.owner
      /\ d.indicator = c.indicator /\ d.hit = TRUE
  BY <1>2, <1>3 DEF ProgramRecord
<1>6. Update(k, d)
  BY <1>1, <1>2 DEF Note
<1> QED
  BY <1>1, <1>5, <1>6, Updated

LEMMA Searching ==
  ASSUME ProgramInv, NEW k \in Cpu, ~At(k, "idle"), NEW place \in Places, NEW owner \in Pid \cup {NoPid},
         SearchFor(k, owner, place)
  PROVE  /\ Moves(k) /\ cpu'[k].at = place
         /\ cpu'[k].i = 0 /\ cpu'[k].index = cpu[k].index /\ cpu'[k].owner = owner
         /\ cpu'[k].indicator = cpu[k].indicator /\ cpu'[k].hit = cpu[k].hit
<1>1. PICK c : c = cpu[k]
  OBVIOUS
<1>2. PICK d : d = [c EXCEPT !.at = place, !.owner = owner, !.i = 0]
  OBVIOUS
<1>3. c \in ProgramRecord
  BY <1>1, RunningProgram
<1>5. /\ d \in ProgramRecord /\ d.pid = c.pid /\ d.call = c.call /\ d.maps = c.maps
      /\ d.at = place /\ d.i = 0 /\ d.index = c.index /\ d.owner = owner
      /\ d.indicator = c.indicator /\ d.hit = c.hit
  BY <1>2, <1>3 DEF ProgramRecord
<1>6. Update(k, d)
  BY <1>1, <1>2 DEF SearchFor
<1> QED
  BY <1>1, <1>5, <1>6, Updated

LEMMA SteppedBack ==
  ASSUME ProgramInv, NEW k \in Cpu, ~At(k, "idle"), NEW place \in Places, StepBack(k, place), cpu[k].i # 0
  PROVE  /\ Moves(k) /\ cpu'[k].at = place
         /\ cpu'[k].i = cpu[k].i - 1 /\ cpu'[k].index = cpu[k].index /\ cpu'[k].owner = cpu[k].owner
         /\ cpu'[k].indicator = cpu[k].indicator /\ cpu'[k].hit = cpu[k].hit
<1>1. PICK c : c = cpu[k]
  OBVIOUS
<1>2. PICK d : d = [c EXCEPT !.at = place, !.i = @ - 1]
  OBVIOUS
<1>3. c \in ProgramRecord
  BY <1>1, RunningProgram
<1>4. c.i \in Nat /\ c.i - 1 \in Nat
  BY <1>1, <1>3 DEF ProgramRecord
<1>5. /\ d \in ProgramRecord /\ d.pid = c.pid /\ d.call = c.call /\ d.maps = c.maps
      /\ d.at = place /\ d.i = c.i - 1 /\ d.index = c.index /\ d.owner = c.owner
      /\ d.indicator = c.indicator /\ d.hit = c.hit
  BY <1>2, <1>3, <1>4 DEF ProgramRecord
<1>6. Update(k, d)
  BY <1>1, <1>2 DEF StepBack
<1> QED
  BY <1>1, <1>5, <1>6, Updated

LEMMA IndicatorRead ==
  ASSUME ProgramInv, NEW k \in Cpu, ~At(k, "idle"), NEW place \in Places, NEW indicator \in Indicator \cup {NoIndicator},
         FindsIndicator(k, indicator, place)
  PROVE  /\ Moves(k) /\ cpu'[k].at = place
         /\ cpu'[k].i = cpu[k].i /\ cpu'[k].index = cpu[k].index /\ cpu'[k].owner = cpu[k].owner
         /\ cpu'[k].indicator = indicator /\ cpu'[k].hit = cpu[k].hit
<1>1. PICK c : c = cpu[k]
  OBVIOUS
<1>2. PICK d : d = [c EXCEPT !.at = place, !.indicator = indicator]
  OBVIOUS
<1>3. c \in ProgramRecord
  BY <1>1, RunningProgram
<1>5. /\ d \in ProgramRecord /\ d.pid = c.pid /\ d.call = c.call /\ d.maps = c.maps
      /\ d.at = place /\ d.i = c.i /\ d.index = c.index /\ d.owner = c.owner
      /\ d.indicator = indicator /\ d.hit = c.hit
  BY <1>2, <1>3 DEF ProgramRecord
<1>6. Update(k, d)
  BY <1>1, <1>2 DEF FindsIndicator
<1> QED
  BY <1>1, <1>5, <1>6, Updated

LEMMA OwnerTaken ==
  ASSUME ProgramInv, NEW k \in Cpu, ~At(k, "idle"), NEW owner \in Pid \cup {NoPid},
         TakesOwner(k, owner)
  PROVE  /\ Moves(k) /\ cpu'[k].at = "kill_find"
         /\ cpu'[k].i = cpu[k].i + 1 /\ cpu'[k].index = cpu[k].index /\ cpu'[k].owner = owner
         /\ cpu'[k].indicator = cpu[k].indicator /\ cpu'[k].hit = cpu[k].hit
<1>1. PICK c : c = cpu[k]
  OBVIOUS
<1>2. PICK d : d = [c EXCEPT !.at = "kill_find", !.owner = owner, !.i = @ + 1]
  OBVIOUS
<1>3. c \in ProgramRecord
  BY <1>1, RunningProgram
<1>4. c.i \in Nat /\ c.i + 1 \in Nat
  BY <1>3 DEF ProgramRecord
<1>5. /\ d \in ProgramRecord /\ d.pid = c.pid /\ d.call = c.call /\ d.maps = c.maps
      /\ d.at = "kill_find" /\ d.i = c.i + 1 /\ d.index = c.index /\ d.owner = owner
      /\ d.indicator = c.indicator /\ d.hit = c.hit
  BY <1>2, <1>3, <1>4, AllPlaces DEF ProgramRecord
<1>6. Update(k, d)
  BY <1>1, <1>2 DEF TakesOwner
<1> QED
  BY <1>1, <1>5, <1>6, Updated

LEMMA IndicatorTaken ==
  ASSUME ProgramInv, NEW k \in Cpu, ~At(k, "idle"), NEW indicator \in Indicator \cup {NoIndicator},
         TakesIndicator(k, indicator)
  PROVE  /\ Moves(k) /\ cpu'[k].at = "exit_shells"
         /\ cpu'[k].i = cpu[k].i + 1 /\ cpu'[k].index = cpu[k].index /\ cpu'[k].owner = cpu[k].owner
         /\ cpu'[k].indicator = indicator /\ cpu'[k].hit = cpu[k].hit
<1>1. PICK c : c = cpu[k]
  OBVIOUS
<1>2. PICK d : d = [c EXCEPT !.at = "exit_shells", !.indicator = indicator, !.i = @ + 1]
  OBVIOUS
<1>3. c \in ProgramRecord
  BY <1>1, RunningProgram
<1>4. c.i \in Nat /\ c.i + 1 \in Nat
  BY <1>3 DEF ProgramRecord
<1>5. /\ d \in ProgramRecord /\ d.pid = c.pid /\ d.call = c.call /\ d.maps = c.maps
      /\ d.at = "exit_shells" /\ d.i = c.i + 1 /\ d.index = c.index /\ d.owner = c.owner
      /\ d.indicator = indicator /\ d.hit = c.hit
  BY <1>2, <1>3, <1>4, AllPlaces DEF ProgramRecord
<1>6. Update(k, d)
  BY <1>1, <1>2 DEF TakesIndicator
<1> QED
  BY <1>1, <1>5, <1>6, Updated

LEMMA IndexTaken ==
  ASSUME ProgramInv, NEW k \in Cpu, ~At(k, "idle"), TakesIndex(k)
  PROVE  /\ Moves(k) /\ cpu'[k].at = cpu[k].at
         /\ cpu'[k].i = cpu[k].i + 1 /\ cpu'[k].index = cpu[k].i /\ cpu'[k].owner = cpu[k].owner
         /\ cpu'[k].indicator = cpu[k].indicator /\ cpu'[k].hit = cpu[k].hit
<1>1. PICK c : c = cpu[k]
  OBVIOUS
<1>2. PICK d : d = [c EXCEPT !.index = c.i, !.i = @ + 1]
  OBVIOUS
<1>3. c \in ProgramRecord
  BY <1>1, RunningProgram
<1>4. c.i \in Nat /\ c.i + 1 \in Nat
  BY <1>3 DEF ProgramRecord
<1>5. /\ d \in ProgramRecord /\ d.pid = c.pid /\ d.call = c.call /\ d.maps = c.maps
      /\ d.at = c.at /\ d.i = c.i + 1 /\ d.index = c.i /\ d.owner = c.owner
      /\ d.indicator = c.indicator /\ d.hit = c.hit
  BY <1>2, <1>3, <1>4 DEF ProgramRecord
<1>6. Update(k, d)
  BY <1>1, <1>2 DEF TakesIndex
<1> QED
  BY <1>1, <1>5, <1>6, Updated

----------------------------------------------------------------------------
(* The types, step by step.                                                *)

\* The maps keep their types, and nhid the event it works on.
KeepsMaps == TypeOK' /\ reg' = reg /\ (ring # <<>> => ring' # <<>>)

LEMMA QuietKeepsMaps ==
  ASSUME ProgramInv, UNCHANGED vars
  PROVE  KeepsMaps
  BY DEF vars, procVars, mapVars, nhidVars, ProgramInv, TypeOK, KeepsMaps

\* A program that gets to a place it fits while the maps keep their types.
LEMMA MoveKeepsProgramInv ==
  ASSUME ProgramInv, KeepsMaps, NEW k \in Cpu, ~At(k, "idle"), Moves(k),
         Serves(cpu'[k].at, cpu[k].call.name),
         Fits(cpu'[k].at, cpu'[k].i, cpu'[k].index)
  PROVE  ProgramInv'
<1>1. ProgramOK(cpu'[k])
  BY RunningProgram DEF ProgramOK, Moves
<1>2. CpusOK'
  BY <1>1 DEF ProgramInv, CpusOK, At, Moves, ProgramOK
<1>3. RegistrationTyped'
  BY DEF ProgramInv, RegistrationTyped, KeepsMaps
<1> QED
  BY <1>2, <1>3 DEF ProgramInv, KeepsMaps, Moves

\* What a place says of the registers of a program.
LEMMA AtPlace ==
  ASSUME ProgramInv, NEW k \in Cpu, ~At(k, "idle")
  PROVE  /\ cpu[k].i \in Nat /\ MaxChildren \in Nat \ {0} /\ MaxShells \in Nat \ {0}
         /\ (cpu[k].index = NotFound \/ cpu[k].index \in Nat) /\ NotFound = -1
         /\ Serves(cpu[k].at, cpu[k].call.name) /\ Fits(cpu[k].at, cpu[k].i, cpu[k].index)
         /\ cpu[k].at \in Places /\ cpu[k].pid \in Pid
         /\ cpu[k].owner \in Pid \cup {NoPid}
         /\ cpu[k].indicator \in Indicator \cup {NoIndicator}
  BY RunningProgram, SizeAssumption DEF ProgramOK, ProgramRecord, NotFound

LEMMA EntryTypes ==
  ASSUME ProgramInv, NEW i \in Int
  PROVE  /\ InShells(i) => /\ shells[i].pid \in Pid \cup {NoPid}
                           /\ shells[i].indicator \in Indicator \cup {NoIndicator}
                           /\ shells[i].omit \in BOOLEAN /\ shells[i] \in Shell
         /\ InChildren(i) => /\ children[i].child \in Pid \cup {NoPid}
                             /\ children[i].shell \in Pid \cup {NoPid}
                             /\ children[i] \in Child
  BY DEF ProgramInv, TypeOK, InShells, InChildren, Shell, Child

LEMMA CopyChildKeepsMaps ==
  ASSUME ProgramInv, NEW k \in Cpu, InChildren(cpu[k].i), InChildren(cpu[k].index),
         NEW place, CopyChild(k, place)
  PROVE  KeepsMaps
<1>1. children[cpu[k].i] \in Child
  BY DEF ProgramInv, TypeOK, InChildren
<1>2. children' \in [0 .. MaxChildren - 1 -> Child]
  BY <1>1 DEF ProgramInv, TypeOK, CopyChild, ChildAt
<1> QED
  BY <1>2 DEF ProgramInv, TypeOK, CopyChild, procVars, nhidVars, KeepsMaps

LEMMA ZeroChildKeepsMaps ==
  ASSUME ProgramInv, NEW k \in Cpu, NEW place, ZeroChild(k, place)
  PROVE  KeepsMaps
<1>1. children' \in [0 .. MaxChildren - 1 -> Child]
  BY EmptyEntries DEF ProgramInv, TypeOK, ZeroChild
<1> QED
  BY <1>1 DEF ProgramInv, TypeOK, ZeroChild, procVars, nhidVars, KeepsMaps

----------------------------------------------------------------------------
(* Each program keeps the types: at every place, every way on.              *)

LEMMA AddChildKeepsMaps ==
  ASSUME ProgramInv, NEW k \in Cpu, At(k, "fork_add"),
         children' = [children EXCEPT ![cpu[k].i] =
                        [child |-> cpu[k].call.child, shell |-> cpu[k].owner]],
         UNCHANGED <<procVars, loaded, shells, ring, nhidVars>>
  PROVE  KeepsMaps
<1>1. ~At(k, "idle") /\ cpu[k].at = "fork_add"
  BY DEF At
<1>2. cpu[k].call \in Call /\ cpu[k].call.name = "fork" /\ cpu[k].owner \in Pid \cup {NoPid}
  BY <1>1, RunningProgram DEF ProgramOK, ProgramRecord, Serves, ForkPlaces
<1>3. cpu[k].call.child \in Pid
  BY <1>2 DEF Call
<1>4. [child |-> cpu[k].call.child, shell |-> cpu[k].owner] \in Child
  BY <1>2, <1>3 DEF Child
<1>5. children' \in [0 .. MaxChildren - 1 -> Child]
  BY <1>4 DEF ProgramInv, TypeOK
<1> QED
  BY <1>5 DEF ProgramInv, TypeOK, procVars, nhidVars, KeepsMaps

LEMMA CopyShellKeepsMaps ==
  ASSUME ProgramInv, NEW k \in Cpu, InShells(cpu[k].i),
         shells' = [shells EXCEPT ![cpu[k].index] = ShellAt(k)],
         UNCHANGED <<procVars, loaded, children, ring, nhidVars>>
  PROVE  KeepsMaps
<1>1. shells[cpu[k].i] \in Shell
  BY DEF ProgramInv, TypeOK, InShells
<1>2. shells' \in [0 .. MaxShells - 1 -> Shell]
  BY <1>1 DEF ProgramInv, TypeOK, ShellAt
<1> QED
  BY <1>2 DEF ProgramInv, TypeOK, procVars, nhidVars, KeepsMaps

LEMMA ZeroShellKeepsMaps ==
  ASSUME ProgramInv, NEW k \in Cpu,
         shells' = [shells EXCEPT ![cpu[k].i] = NoShell],
         UNCHANGED <<procVars, loaded, children, ring, nhidVars>>
  PROVE  KeepsMaps
<1>1. shells' \in [0 .. MaxShells - 1 -> Shell]
  BY EmptyEntries DEF ProgramInv, TypeOK
<1> QED
  BY <1>1 DEF ProgramInv, TypeOK, procVars, nhidVars, KeepsMaps

LEMMA SetOmitKeepsMaps ==
  ASSUME ProgramInv, NEW k \in Cpu, NEW omit \in BOOLEAN, NEW place,
         SetOmit(k, omit, place)
  PROVE  KeepsMaps
<1>1. shells \in [0 .. MaxShells - 1 -> Shell]
  BY DEF ProgramInv, TypeOK
<1>2. \A s \in Shell : [s EXCEPT !.omit = omit] \in Shell
  BY DEF Shell
<1>3. shells' = [shells EXCEPT ![cpu[k].i] = [shells[cpu[k].i] EXCEPT !.omit = omit]]
  BY DEF SetOmit, Slot
<1>4. shells' \in [0 .. MaxShells - 1 -> Shell]
  BY <1>1, <1>2, <1>3
<1> QED
  BY <1>4 DEF ProgramInv, TypeOK, SetOmit, procVars, nhidVars, KeepsMaps

LEMMA KillStepKeepsProgramInv ==
  ASSUME ProgramInv, NEW k \in Cpu, KillStep(k)
  PROVE  ProgramInv'
<1> USE DEF InChildren, InShells
<1>1. ~At(k, "idle") /\ cpu[k].at \in KillPlaces
  BY DEF KillStep, At, KillPlaces
<1>2. /\ cpu[k].i \in Nat /\ MaxChildren \in Nat \ {0} /\ MaxShells \in Nat \ {0}
      /\ (cpu[k].index = NotFound \/ cpu[k].index \in Nat) /\ NotFound = -1
      /\ cpu[k].call.name = "kill" /\ Fits(cpu[k].at, cpu[k].i, cpu[k].index)
      /\ cpu[k].pid \in Pid /\ cpu[k].owner \in Pid \cup {NoPid}
  BY <1>1, AtPlace DEF Serves
<1>3. ASSUME At(k, "kill_find"),
             ScanChildrenFor(k, cpu[k].pid, Note(k, "kill_owner"),
               IF cpu[k].index = NotFound THEN Loop(k, "kill_parent")
               ELSE StepBack(k, "kill_copy"),
               Loop(k, "kill_parent"))
      PROVE  ProgramInv'
  <2>1. KeepsMaps /\ cpu[k].at = "kill_find"
    BY <1>3, QuietKeepsMaps DEF ScanChildrenFor, At
  <2>2. \/ Loop(k, "kill_parent")
        \/ cpu[k].i # MaxChildren /\ Note(k, "kill_owner")
        \/ cpu[k].i # MaxChildren /\ cpu[k].index # NotFound /\ StepBack(k, "kill_copy")
        \/ cpu[k].i # MaxChildren /\ Advance(k, "kill_find")
    BY <1>3, <2>1 DEF ScanChildrenFor
  <2>3. CASE Loop(k, "kill_parent")
    <3>1. Moves(k) /\ cpu'[k].at = "kill_parent" /\ cpu'[k].i = 0 /\ cpu'[k].index = NotFound
      BY <1>1, <1>2, <2>1, <2>3, Looped, AllPlaces
    <3>2. Fits("kill_parent", 0, NotFound) /\ Serves("kill_parent", "kill")
      BY <1>2, <2>1, <2>3 DEF Fits, Serves, ChildScans, ChildReads, ShellScans, ShellReads, KillPlaces,
          ForkPlaces, ExitPlaces, WritePlaces
    <3> QED
      BY <1>1, <1>2, <2>1, <3>1, <3>2, MoveKeepsProgramInv
  <2>4. CASE cpu[k].i # MaxChildren /\ Note(k, "kill_owner")
    <3>1. Moves(k) /\ cpu'[k].at = "kill_owner" /\ cpu'[k].i = cpu[k].i /\ cpu'[k].index = cpu[k].i
      BY <1>1, <1>2, <2>1, <2>4, Marked, AllPlaces
    <3>2. Fits("kill_owner", cpu[k].i, cpu[k].i) /\ Serves("kill_owner", "kill")
      BY <1>2, <2>1, <2>4 DEF Fits, Serves, ChildScans, ChildReads, ShellScans, ShellReads, KillPlaces,
          ForkPlaces, ExitPlaces, WritePlaces
    <3> QED
      BY <1>1, <1>2, <2>1, <3>1, <3>2, MoveKeepsProgramInv
  <2>5. CASE cpu[k].i # MaxChildren /\ cpu[k].index # NotFound /\ StepBack(k,
               "kill_copy")
    <3>1. Moves(k) /\ cpu'[k].at = "kill_copy" /\ cpu'[k].i = cpu[k].i - 1 /\ cpu'[k].index = cpu[k].index
      BY <1>1, <1>2, <2>1, <2>5, SteppedBack, AllPlaces DEF Fits
    <3>2. Fits("kill_copy", cpu[k].i - 1, cpu[k].index) /\ Serves("kill_copy", "kill")
      BY <1>2, <2>1, <2>5 DEF Fits, Serves, ChildScans, ChildReads, ShellScans, ShellReads, KillPlaces,
          ForkPlaces, ExitPlaces, WritePlaces
    <3> QED
      BY <1>1, <1>2, <2>1, <3>1, <3>2, MoveKeepsProgramInv
  <2>6. CASE cpu[k].i # MaxChildren /\ Advance(k, "kill_find")
    <3>1. Moves(k) /\ cpu'[k].at = "kill_find" /\ cpu'[k].i = cpu[k].i + 1 /\ cpu'[k].index = cpu[k].index
      BY <1>1, <1>2, <2>1, <2>6, Advanced, AllPlaces
    <3>2. Fits("kill_find", cpu[k].i + 1, cpu[k].index) /\ Serves("kill_find", "kill")
      BY <1>2, <2>1, <2>6 DEF Fits, Serves, ChildScans, ChildReads, ShellScans, ShellReads, KillPlaces,
          ForkPlaces, ExitPlaces, WritePlaces
    <3> QED
      BY <1>1, <1>2, <2>1, <3>1, <3>2, MoveKeepsProgramInv
  <2> QED
    BY <2>2, <2>3, <2>4, <2>5, <2>6
<1>4. ASSUME At(k, "kill_owner"), UNCHANGED vars,
             Update(k, [cpu[k] EXCEPT !.at = "kill_find", !.owner = ChildAt(k).shell, !.i = @ + 1])
      PROVE  ProgramInv'
  <2>1. KeepsMaps /\ cpu[k].at = "kill_owner"
    BY <1>4, QuietKeepsMaps DEF At
  <2>2. TakesOwner(k, ChildAt(k).shell) /\ ChildAt(k).shell \in Pid \cup {NoPid}
    BY <1>2, <2>1, <1>4, EntryTypes DEF TakesOwner, ChildAt, Fits, ChildReads
  <2>3. Moves(k) /\ cpu'[k].at = "kill_find" /\ cpu'[k].i = cpu[k].i + 1 /\ cpu'[k].index = cpu[k].index
    BY <1>1, <1>2, <2>1, <1>4, OwnerTaken, AllPlaces, <2>2
  <2>4. Fits("kill_find", cpu[k].i + 1, cpu[k].index) /\ Serves("kill_find", "kill")
    BY <1>2, <2>1, <1>4 DEF Fits, Serves, ChildScans, ChildReads, ShellScans, ShellReads, KillPlaces,
        ForkPlaces, ExitPlaces, WritePlaces
  <2> QED
    BY <1>1, <1>2, <2>1, <2>3, <2>4, MoveKeepsProgramInv
<1>5. ASSUME At(k, "kill_copy"), CopyChild(k, "kill_zero")
      PROVE  ProgramInv'
  <2>1. KeepsMaps /\ cpu[k].at = "kill_copy"
    BY <1>5, AtPlace, <1>1, CopyChildKeepsMaps DEF At, Fits, ChildReads
  <2>3. Moves(k) /\ cpu'[k].at = "kill_zero" /\ cpu'[k].i = cpu[k].i /\ cpu'[k].index = cpu[k].index
    BY <1>1, <1>2, <2>1, <1>5, Jumped, AllPlaces DEF CopyChild
  <2>4. Fits("kill_zero", cpu[k].i, cpu[k].index) /\ Serves("kill_zero", "kill")
    BY <1>2, <2>1, <1>5 DEF Fits, Serves, ChildScans, ChildReads, ShellScans, ShellReads, KillPlaces,
        ForkPlaces, ExitPlaces, WritePlaces
  <2> QED
    BY <1>1, <1>2, <2>1, <2>3, <2>4, MoveKeepsProgramInv
<1>6. ASSUME At(k, "kill_zero"), ZeroChild(k, "kill_parent")
      PROVE  ProgramInv'
  <2>1. KeepsMaps /\ cpu[k].at = "kill_zero"
    BY <1>6, ZeroChildKeepsMaps DEF At
  <2>3. Moves(k) /\ cpu'[k].at = "kill_parent" /\ cpu'[k].i = 0 /\ cpu'[k].index = NotFound
    BY <1>1, <1>2, <2>1, <1>6, Looped, AllPlaces DEF ZeroChild
  <2>4. Fits("kill_parent", 0, NotFound) /\ Serves("kill_parent", "kill")
    BY <1>2, <2>1, <1>6 DEF Fits, Serves, ChildScans, ChildReads, ShellScans, ShellReads, KillPlaces,
        ForkPlaces, ExitPlaces, WritePlaces
  <2> QED
    BY <1>1, <1>2, <2>1, <2>3, <2>4, MoveKeepsProgramInv
<1>7. ASSUME At(k, "kill_parent"),
             ScanShellsFor(k, cpu[k].owner, Jump(k, "kill_indicator"),
               Jump(k, "submit"), Jump(k, "submit"))
      PROVE  ProgramInv'
  <2>1. KeepsMaps /\ cpu[k].at = "kill_parent"
    BY <1>7, QuietKeepsMaps DEF ScanShellsFor, At
  <2>2. \/ Jump(k, "submit")
        \/ cpu[k].i # MaxShells /\ Jump(k, "kill_indicator")
        \/ cpu[k].i # MaxShells /\ Advance(k, "kill_parent")
    BY <1>7, <2>1 DEF ScanShellsFor
  <2>3. CASE Jump(k, "submit")
    <3>1. Moves(k) /\ cpu'[k].at = "submit" /\ cpu'[k].i = cpu[k].i /\ cpu'[k].index = cpu[k].index
      BY <1>1, <1>2, <2>1, <2>3, Jumped, AllPlaces
    <3>2. Fits("submit", cpu[k].i, cpu[k].index) /\ Serves("submit", "kill")
      BY <1>2, <2>1, <2>3 DEF Fits, Serves, ChildScans, ChildReads, ShellScans, ShellReads, KillPlaces,
          ForkPlaces, ExitPlaces, WritePlaces
    <3> QED
      BY <1>1, <1>2, <2>1, <3>1, <3>2, MoveKeepsProgramInv
  <2>4. CASE cpu[k].i # MaxShells /\ Jump(k, "kill_indicator")
    <3>1. Moves(k) /\ cpu'[k].at = "kill_indicator" /\ cpu'[k].i = cpu[k].i /\ cpu'[k].index = cpu[k].index
      BY <1>1, <1>2, <2>1, <2>4, Jumped, AllPlaces
    <3>2. Fits("kill_indicator", cpu[k].i, cpu[k].index) /\ Serves("kill_indicator", "kill")
      BY <1>2, <2>1, <2>4 DEF Fits, Serves, ChildScans, ChildReads, ShellScans, ShellReads, KillPlaces,
          ForkPlaces, ExitPlaces, WritePlaces
    <3> QED
      BY <1>1, <1>2, <2>1, <3>1, <3>2, MoveKeepsProgramInv
  <2>5. CASE cpu[k].i # MaxShells /\ Advance(k, "kill_parent")
    <3>1. Moves(k) /\ cpu'[k].at = "kill_parent" /\ cpu'[k].i = cpu[k].i + 1 /\ cpu'[k].index = cpu[k].index
      BY <1>1, <1>2, <2>1, <2>5, Advanced, AllPlaces
    <3>2. Fits("kill_parent", cpu[k].i + 1, cpu[k].index) /\ Serves("kill_parent", "kill")
      BY <1>2, <2>1, <2>5 DEF Fits, Serves, ChildScans, ChildReads, ShellScans, ShellReads, KillPlaces,
          ForkPlaces, ExitPlaces, WritePlaces
    <3> QED
      BY <1>1, <1>2, <2>1, <3>1, <3>2, MoveKeepsProgramInv
  <2> QED
    BY <2>2, <2>3, <2>4, <2>5
<1>8. ASSUME At(k, "kill_indicator"), ReadIndicator(k, "submit")
      PROVE  ProgramInv'
  <2>1. KeepsMaps /\ cpu[k].at = "kill_indicator"
    BY <1>8, QuietKeepsMaps DEF At, ReadIndicator
  <2>2. FindsIndicator(k, ShellAt(k).indicator, "submit") /\ ShellAt(k).indicator \in Indicator \cup {NoIndicator}
    BY <1>2, <2>1, <1>8, EntryTypes DEF FindsIndicator, ReadIndicator, ShellAt, Fits, ShellReads
  <2>3. Moves(k) /\ cpu'[k].at = "submit" /\ cpu'[k].i = cpu[k].i /\ cpu'[k].index = cpu[k].index
    BY <1>1, <1>2, <2>1, <1>8, IndicatorRead, AllPlaces, <2>2
  <2>4. Fits("submit", cpu[k].i, cpu[k].index) /\ Serves("submit", "kill")
    BY <1>2, <2>1, <1>8 DEF Fits, Serves, ChildScans, ChildReads, ShellScans, ShellReads, KillPlaces,
        ForkPlaces, ExitPlaces, WritePlaces
  <2> QED
    BY <1>1, <1>2, <2>1, <2>3, <2>4, MoveKeepsProgramInv
<1> QED
  BY <1>3, <1>4, <1>5, <1>6, <1>7, <1>8 DEF KillStep

LEMMA ForkStepKeepsProgramInv ==
  ASSUME ProgramInv, NEW k \in Cpu, ForkStep(k)
  PROVE  ProgramInv'
<1> USE DEF InChildren, InShells
<1>1. ~At(k, "idle") /\ cpu[k].at \in ForkPlaces
  BY DEF ForkStep, At, ForkPlaces
<1>2. /\ cpu[k].i \in Nat /\ MaxChildren \in Nat \ {0} /\ MaxShells \in Nat \ {0}
      /\ (cpu[k].index = NotFound \/ cpu[k].index \in Nat) /\ NotFound = -1
      /\ cpu[k].call.name = "fork" /\ Fits(cpu[k].at, cpu[k].i, cpu[k].index)
      /\ cpu[k].pid \in Pid /\ cpu[k].owner \in Pid \cup {NoPid}
  BY <1>1, AtPlace DEF Serves
<1>3. ASSUME At(k, "fork_shells"),
             ScanShellsFor(k, cpu[k].pid, SearchFor(k, cpu[k].pid, "fork_free"),
               Loop(k, "fork_children"), Loop(k, "fork_children"))
      PROVE  ProgramInv'
  <2>1. KeepsMaps /\ cpu[k].at = "fork_shells"
    BY <1>3, QuietKeepsMaps DEF ScanShellsFor, At
  <2>2. \/ Loop(k, "fork_children")
        \/ cpu[k].i # MaxShells /\ SearchFor(k, cpu[k].pid, "fork_free")
        \/ cpu[k].i # MaxShells /\ Advance(k, "fork_shells")
    BY <1>3, <2>1 DEF ScanShellsFor
  <2>3. CASE Loop(k, "fork_children")
    <3>1. Moves(k) /\ cpu'[k].at = "fork_children" /\ cpu'[k].i = 0 /\ cpu'[k].index = NotFound
      BY <1>1, <1>2, <2>1, <2>3, Looped, AllPlaces
    <3>2. Fits("fork_children", 0, NotFound) /\ Serves("fork_children", "fork")
      BY <1>2, <2>1, <2>3 DEF Fits, Serves, ChildScans, ChildReads, ShellScans, ShellReads, KillPlaces,
          ForkPlaces, ExitPlaces, WritePlaces
    <3> QED
      BY <1>1, <1>2, <2>1, <3>1, <3>2, MoveKeepsProgramInv
  <2>4. CASE cpu[k].i # MaxShells /\ SearchFor(k, cpu[k].pid, "fork_free")
    <3>1. Moves(k) /\ cpu'[k].at = "fork_free" /\ cpu'[k].i = 0 /\ cpu'[k].index = cpu[k].index
      BY <1>1, <1>2, <2>1, <2>4, Searching, AllPlaces
    <3>2. Fits("fork_free", 0, cpu[k].index) /\ Serves("fork_free", "fork")
      BY <1>2, <2>1, <2>4 DEF Fits, Serves, ChildScans, ChildReads, ShellScans, ShellReads, KillPlaces,
          ForkPlaces, ExitPlaces, WritePlaces
    <3> QED
      BY <1>1, <1>2, <2>1, <3>1, <3>2, MoveKeepsProgramInv
  <2>5. CASE cpu[k].i # MaxShells /\ Advance(k, "fork_shells")
    <3>1. Moves(k) /\ cpu'[k].at = "fork_shells" /\ cpu'[k].i = cpu[k].i + 1 /\ cpu'[k].index = cpu[k].index
      BY <1>1, <1>2, <2>1, <2>5, Advanced, AllPlaces
    <3>2. Fits("fork_shells", cpu[k].i + 1, cpu[k].index) /\ Serves("fork_shells", "fork")
      BY <1>2, <2>1, <2>5 DEF Fits, Serves, ChildScans, ChildReads, ShellScans, ShellReads, KillPlaces,
          ForkPlaces, ExitPlaces, WritePlaces
    <3> QED
      BY <1>1, <1>2, <2>1, <3>1, <3>2, MoveKeepsProgramInv
  <2> QED
    BY <2>2, <2>3, <2>4, <2>5
<1>4. ASSUME At(k, "fork_children"),
             ScanChildrenFor(k, cpu[k].pid, Jump(k, "fork_owner"), Jump(k, "return"),
               SearchFor(k, cpu[k].pid, "fork_free"))
      PROVE  ProgramInv'
  <2>1. KeepsMaps /\ cpu[k].at = "fork_children"
    BY <1>4, QuietKeepsMaps DEF ScanChildrenFor, At
  <2>2. \/ SearchFor(k, cpu[k].pid, "fork_free")
        \/ cpu[k].i # MaxChildren /\ Jump(k, "fork_owner")
        \/ cpu[k].i # MaxChildren /\ Jump(k, "return")
        \/ cpu[k].i # MaxChildren /\ Advance(k, "fork_children")
    BY <1>4, <2>1 DEF ScanChildrenFor
  <2>3. CASE SearchFor(k, cpu[k].pid, "fork_free")
    <3>1. Moves(k) /\ cpu'[k].at = "fork_free" /\ cpu'[k].i = 0 /\ cpu'[k].index = cpu[k].index
      BY <1>1, <1>2, <2>1, <2>3, Searching, AllPlaces
    <3>2. Fits("fork_free", 0, cpu[k].index) /\ Serves("fork_free", "fork")
      BY <1>2, <2>1, <2>3 DEF Fits, Serves, ChildScans, ChildReads, ShellScans, ShellReads, KillPlaces,
          ForkPlaces, ExitPlaces, WritePlaces
    <3> QED
      BY <1>1, <1>2, <2>1, <3>1, <3>2, MoveKeepsProgramInv
  <2>4. CASE cpu[k].i # MaxChildren /\ Jump(k, "fork_owner")
    <3>1. Moves(k) /\ cpu'[k].at = "fork_owner" /\ cpu'[k].i = cpu[k].i /\ cpu'[k].index = cpu[k].index
      BY <1>1, <1>2, <2>1, <2>4, Jumped, AllPlaces
    <3>2. Fits("fork_owner", cpu[k].i, cpu[k].index) /\ Serves("fork_owner", "fork")
      BY <1>2, <2>1, <2>4 DEF Fits, Serves, ChildScans, ChildReads, ShellScans, ShellReads, KillPlaces,
          ForkPlaces, ExitPlaces, WritePlaces
    <3> QED
      BY <1>1, <1>2, <2>1, <3>1, <3>2, MoveKeepsProgramInv
  <2>5. CASE cpu[k].i # MaxChildren /\ Jump(k, "return")
    <3>1. Moves(k) /\ cpu'[k].at = "return" /\ cpu'[k].i = cpu[k].i /\ cpu'[k].index = cpu[k].index
      BY <1>1, <1>2, <2>1, <2>5, Jumped, AllPlaces
    <3>2. Fits("return", cpu[k].i, cpu[k].index) /\ Serves("return", "fork")
      BY <1>2, <2>1, <2>5 DEF Fits, Serves, ChildScans, ChildReads, ShellScans, ShellReads, KillPlaces,
          ForkPlaces, ExitPlaces, WritePlaces
    <3> QED
      BY <1>1, <1>2, <2>1, <3>1, <3>2, MoveKeepsProgramInv
  <2>6. CASE cpu[k].i # MaxChildren /\ Advance(k, "fork_children")
    <3>1. Moves(k) /\ cpu'[k].at = "fork_children" /\ cpu'[k].i = cpu[k].i + 1 /\ cpu'[k].index = cpu[k].index
      BY <1>1, <1>2, <2>1, <2>6, Advanced, AllPlaces
    <3>2. Fits("fork_children", cpu[k].i + 1, cpu[k].index) /\ Serves("fork_children", "fork")
      BY <1>2, <2>1, <2>6 DEF Fits, Serves, ChildScans, ChildReads, ShellScans, ShellReads, KillPlaces,
          ForkPlaces, ExitPlaces, WritePlaces
    <3> QED
      BY <1>1, <1>2, <2>1, <3>1, <3>2, MoveKeepsProgramInv
  <2> QED
    BY <2>2, <2>3, <2>4, <2>5, <2>6
<1>5. ASSUME At(k, "fork_owner"), ReadOwner(k, "fork_free")
      PROVE  ProgramInv'
  <2>1. KeepsMaps /\ cpu[k].at = "fork_owner"
    BY <1>5, QuietKeepsMaps DEF At, ReadOwner
  <2>2. SearchFor(k, ChildAt(k).shell, "fork_free") /\ ChildAt(k).shell \in Pid \cup {NoPid}
    BY <1>2, <2>1, <1>5, EntryTypes DEF ReadOwner, ChildAt, Fits, ChildReads
  <2>3. Moves(k) /\ cpu'[k].at = "fork_free" /\ cpu'[k].i = 0 /\ cpu'[k].index = cpu[k].index
    BY <1>1, <1>2, <2>1, <1>5, Searching, AllPlaces, <2>2
  <2>4. Fits("fork_free", 0, cpu[k].index) /\ Serves("fork_free", "fork")
    BY <1>2, <2>1, <1>5 DEF Fits, Serves, ChildScans, ChildReads, ShellScans, ShellReads, KillPlaces,
        ForkPlaces, ExitPlaces, WritePlaces
  <2> QED
    BY <1>1, <1>2, <2>1, <2>3, <2>4, MoveKeepsProgramInv
<1>6. ASSUME At(k, "fork_free"),
             ScanChildrenFor(k, NoPid, FALSE, Jump(k, "fork_add"), Jump(k, "return"))
      PROVE  ProgramInv'
  <2>1. KeepsMaps /\ cpu[k].at = "fork_free"
    BY <1>6, QuietKeepsMaps DEF ScanChildrenFor, At
  <2>2. \/ cpu[k].i # MaxChildren /\ Jump(k, "fork_add")
        \/ Jump(k, "return")
        \/ cpu[k].i # MaxChildren /\ Advance(k, "fork_free")
    BY <1>6, <2>1 DEF ScanChildrenFor
  <2>3. CASE cpu[k].i # MaxChildren /\ Jump(k, "fork_add")
    <3>1. Moves(k) /\ cpu'[k].at = "fork_add" /\ cpu'[k].i = cpu[k].i /\ cpu'[k].index = cpu[k].index
      BY <1>1, <1>2, <2>1, <2>3, Jumped, AllPlaces
    <3>2. Fits("fork_add", cpu[k].i, cpu[k].index) /\ Serves("fork_add", "fork")
      BY <1>2, <2>1, <2>3 DEF Fits, Serves, ChildScans, ChildReads, ShellScans, ShellReads, KillPlaces,
          ForkPlaces, ExitPlaces, WritePlaces
    <3> QED
      BY <1>1, <1>2, <2>1, <3>1, <3>2, MoveKeepsProgramInv
  <2>4. CASE Jump(k, "return")
    <3>1. Moves(k) /\ cpu'[k].at = "return" /\ cpu'[k].i = cpu[k].i /\ cpu'[k].index = cpu[k].index
      BY <1>1, <1>2, <2>1, <2>4, Jumped, AllPlaces
    <3>2. Fits("return", cpu[k].i, cpu[k].index) /\ Serves("return", "fork")
      BY <1>2, <2>1, <2>4 DEF Fits, Serves, ChildScans, ChildReads, ShellScans, ShellReads, KillPlaces,
          ForkPlaces, ExitPlaces, WritePlaces
    <3> QED
      BY <1>1, <1>2, <2>1, <3>1, <3>2, MoveKeepsProgramInv
  <2>5. CASE cpu[k].i # MaxChildren /\ Advance(k, "fork_free")
    <3>1. Moves(k) /\ cpu'[k].at = "fork_free" /\ cpu'[k].i = cpu[k].i + 1 /\ cpu'[k].index = cpu[k].index
      BY <1>1, <1>2, <2>1, <2>5, Advanced, AllPlaces
    <3>2. Fits("fork_free", cpu[k].i + 1, cpu[k].index) /\ Serves("fork_free", "fork")
      BY <1>2, <2>1, <2>5 DEF Fits, Serves, ChildScans, ChildReads, ShellScans, ShellReads, KillPlaces,
          ForkPlaces, ExitPlaces, WritePlaces
    <3> QED
      BY <1>1, <1>2, <2>1, <3>1, <3>2, MoveKeepsProgramInv
  <2> QED
    BY <2>2, <2>3, <2>4, <2>5
<1>7. ASSUME At(k, "fork_add"), Jump(k, "submit"),
             children' = [children EXCEPT ![cpu[k].i] =
                            [child |-> cpu[k].call.child, shell |-> cpu[k].owner]],
             UNCHANGED <<procVars, loaded, shells, ring, nhidVars>>
      PROVE  ProgramInv'
  <2>1. KeepsMaps /\ cpu[k].at = "fork_add"
    BY <1>7, <1>1, AddChildKeepsMaps DEF At
  <2>3. Moves(k) /\ cpu'[k].at = "submit" /\ cpu'[k].i = cpu[k].i /\ cpu'[k].index = cpu[k].index
    BY <1>1, <1>2, <2>1, <1>7, Jumped, AllPlaces
  <2>4. Fits("submit", cpu[k].i, cpu[k].index) /\ Serves("submit", "fork")
    BY <1>2, <2>1, <1>7 DEF Fits, Serves, ChildScans, ChildReads, ShellScans, ShellReads, KillPlaces,
        ForkPlaces, ExitPlaces, WritePlaces
  <2> QED
    BY <1>1, <1>2, <2>1, <2>3, <2>4, MoveKeepsProgramInv
<1> QED
  BY <1>3, <1>4, <1>5, <1>6, <1>7 DEF ForkStep

LEMMA ExitStepKeepsProgramInv ==
  ASSUME ProgramInv, NEW k \in Cpu, ExitStep(k)
  PROVE  ProgramInv'
<1> USE DEF InChildren, InShells
<1>1. ~At(k, "idle") /\ cpu[k].at \in ExitPlaces
  BY DEF ExitStep, At, ExitPlaces
<1>2. /\ cpu[k].i \in Nat /\ MaxChildren \in Nat \ {0} /\ MaxShells \in Nat \ {0}
      /\ (cpu[k].index = NotFound \/ cpu[k].index \in Nat) /\ NotFound = -1
      /\ cpu[k].call.name = "exit" /\ Fits(cpu[k].at, cpu[k].i, cpu[k].index)
      /\ cpu[k].pid \in Pid /\ cpu[k].owner \in Pid \cup {NoPid}
  BY <1>1, AtPlace DEF Serves
<1>3. ASSUME At(k, "exit_shells"),
             ScanShellsFor(k, cpu[k].pid, Note(k, "exit_indicator"),
               IF cpu[k].i = 0 THEN Jump(k, "return")
               ELSE IF cpu[k].index # NotFound THEN StepBack(k, "exit_copy_shell")
               ELSE Loop(k, "exit_children"),
               Loop(k, "exit_children"))
      PROVE  ProgramInv'
  <2>1. KeepsMaps /\ cpu[k].at = "exit_shells"
    BY <1>3, QuietKeepsMaps DEF ScanShellsFor, At
  <2>2. \/ Loop(k, "exit_children")
        \/ cpu[k].i # MaxShells /\ Jump(k, "return")
        \/ cpu[k].i # MaxShells /\ Note(k, "exit_indicator")
        \/ cpu[k].i # MaxShells /\ cpu[k].i # 0 /\ cpu[k].index # NotFound /\ StepBack(k,
           "exit_copy_shell")
        \/ cpu[k].i # MaxShells /\ Advance(k, "exit_shells")
    BY <1>3, <2>1 DEF ScanShellsFor
  <2>3. CASE Loop(k, "exit_children")
    <3>1. Moves(k) /\ cpu'[k].at = "exit_children" /\ cpu'[k].i = 0 /\ cpu'[k].index = NotFound
      BY <1>1, <1>2, <2>1, <2>3, Looped, AllPlaces
    <3>2. Fits("exit_children", 0, NotFound) /\ Serves("exit_children", "exit")
      BY <1>2, <2>1, <2>3 DEF Fits, Serves, ChildScans, ChildReads, ShellScans, ShellReads, KillPlaces,
          ForkPlaces, ExitPlaces, WritePlaces
    <3> QED
      BY <1>1, <1>2, <2>1, <3>1, <3>2, MoveKeepsProgramInv
  <2>4. CASE cpu[k].i # MaxShells /\ Jump(k, "return")
    <3>1. Moves(k) /\ cpu'[k].at = "return" /\ cpu'[k].i = cpu[k].i /\ cpu'[k].index = cpu[k].index
      BY <1>1, <1>2, <2>1, <2>4, Jumped, AllPlaces
    <3>2. Fits("return", cpu[k].i, cpu[k].index) /\ Serves("return", "exit")
      BY <1>2, <2>1, <2>4 DEF Fits, Serves, ChildScans, ChildReads, ShellScans, ShellReads, KillPlaces,
          ForkPlaces, ExitPlaces, WritePlaces
    <3> QED
      BY <1>1, <1>2, <2>1, <3>1, <3>2, MoveKeepsProgramInv
  <2>5. CASE cpu[k].i # MaxShells /\ Note(k, "exit_indicator")
    <3>1. Moves(k) /\ cpu'[k].at = "exit_indicator" /\ cpu'[k].i = cpu[k].i /\ cpu'[k].index = cpu[k].i
      BY <1>1, <1>2, <2>1, <2>5, Marked, AllPlaces
    <3>2. Fits("exit_indicator", cpu[k].i, cpu[k].i) /\ Serves("exit_indicator", "exit")
      BY <1>2, <2>1, <2>5 DEF Fits, Serves, ChildScans, ChildReads, ShellScans, ShellReads, KillPlaces,
          ForkPlaces, ExitPlaces, WritePlaces
    <3> QED
      BY <1>1, <1>2, <2>1, <3>1, <3>2, MoveKeepsProgramInv
  <2>6. CASE cpu[k].i # MaxShells /\ cpu[k].i # 0 /\ cpu[k].index # NotFound /\
               StepBack(k, "exit_copy_shell")
    <3>1. Moves(k) /\ cpu'[k].at = "exit_copy_shell" /\ cpu'[k].i = cpu[k].i - 1 /\ cpu'[k].index = cpu[k].index
      BY <1>1, <1>2, <2>1, <2>6, SteppedBack, AllPlaces
    <3>2. Fits("exit_copy_shell", cpu[k].i - 1, cpu[k].index) /\ Serves("exit_copy_shell", "exit")
      BY <1>2, <2>1, <2>6 DEF Fits, Serves, ChildScans, ChildReads, ShellScans, ShellReads, KillPlaces,
          ForkPlaces, ExitPlaces, WritePlaces
    <3> QED
      BY <1>1, <1>2, <2>1, <3>1, <3>2, MoveKeepsProgramInv
  <2>7. CASE cpu[k].i # MaxShells /\ Advance(k, "exit_shells")
    <3>1. Moves(k) /\ cpu'[k].at = "exit_shells" /\ cpu'[k].i = cpu[k].i + 1 /\ cpu'[k].index = cpu[k].index
      BY <1>1, <1>2, <2>1, <2>7, Advanced, AllPlaces
    <3>2. Fits("exit_shells", cpu[k].i + 1, cpu[k].index) /\ Serves("exit_shells", "exit")
      BY <1>2, <2>1, <2>7 DEF Fits, Serves, ChildScans, ChildReads, ShellScans, ShellReads, KillPlaces,
          ForkPlaces, ExitPlaces, WritePlaces
    <3> QED
      BY <1>1, <1>2, <2>1, <3>1, <3>2, MoveKeepsProgramInv
  <2> QED
    BY <2>2, <2>3, <2>4, <2>5, <2>6, <2>7
<1>4. ASSUME At(k, "exit_indicator"), UNCHANGED vars,
             Update(k, [cpu[k] EXCEPT !.at = "exit_shells",
                                      !.indicator = ShellAt(k).indicator, !.i = @ + 1])
      PROVE  ProgramInv'
  <2>1. KeepsMaps /\ cpu[k].at = "exit_indicator"
    BY <1>4, QuietKeepsMaps DEF At
  <2>2. TakesIndicator(k, ShellAt(k).indicator) /\ ShellAt(k).indicator \in Indicator \cup {NoIndicator}
    BY <1>2, <2>1, <1>4, EntryTypes DEF TakesIndicator, ShellAt, Fits, ShellReads
  <2>3. Moves(k) /\ cpu'[k].at = "exit_shells" /\ cpu'[k].i = cpu[k].i + 1 /\ cpu'[k].index = cpu[k].index
    BY <1>1, <1>2, <2>1, <1>4, IndicatorTaken, AllPlaces, <2>2
  <2>4. Fits("exit_shells", cpu[k].i + 1, cpu[k].index) /\ Serves("exit_shells", "exit")
    BY <1>2, <2>1, <1>4 DEF Fits, Serves, ChildScans, ChildReads, ShellScans, ShellReads, KillPlaces,
        ForkPlaces, ExitPlaces, WritePlaces
  <2> QED
    BY <1>1, <1>2, <2>1, <2>3, <2>4, MoveKeepsProgramInv
<1>5. ASSUME At(k, "exit_copy_shell"), Jump(k, "exit_zero_shell"),
             shells' = [shells EXCEPT ![cpu[k].index] = ShellAt(k)],
             UNCHANGED <<procVars, loaded, children, ring, nhidVars>>
      PROVE  ProgramInv'
  <2>1. KeepsMaps /\ cpu[k].at = "exit_copy_shell"
    BY <1>5, <1>2, CopyShellKeepsMaps DEF At, Fits, ShellReads
  <2>3. Moves(k) /\ cpu'[k].at = "exit_zero_shell" /\ cpu'[k].i = cpu[k].i /\ cpu'[k].index = cpu[k].index
    BY <1>1, <1>2, <2>1, <1>5, Jumped, AllPlaces
  <2>4. Fits("exit_zero_shell", cpu[k].i, cpu[k].index) /\ Serves("exit_zero_shell", "exit")
    BY <1>2, <2>1, <1>5 DEF Fits, Serves, ChildScans, ChildReads, ShellScans, ShellReads, KillPlaces,
        ForkPlaces, ExitPlaces, WritePlaces
  <2> QED
    BY <1>1, <1>2, <2>1, <2>3, <2>4, MoveKeepsProgramInv
<1>6. ASSUME At(k, "exit_zero_shell"), Jump(k, "submit"),
             shells' = [shells EXCEPT ![cpu[k].i] = NoShell],
             UNCHANGED <<procVars, loaded, children, ring, nhidVars>>
      PROVE  ProgramInv'
  <2>1. KeepsMaps /\ cpu[k].at = "exit_zero_shell"
    BY <1>6, <1>2, ZeroShellKeepsMaps DEF At
  <2>3. Moves(k) /\ cpu'[k].at = "submit" /\ cpu'[k].i = cpu[k].i /\ cpu'[k].index = cpu[k].index
    BY <1>1, <1>2, <2>1, <1>6, Jumped, AllPlaces
  <2>4. Fits("submit", cpu[k].i, cpu[k].index) /\ Serves("submit", "exit")
    BY <1>2, <2>1, <1>6 DEF Fits, Serves, ChildScans, ChildReads, ShellScans, ShellReads, KillPlaces,
        ForkPlaces, ExitPlaces, WritePlaces
  <2> QED
    BY <1>1, <1>2, <2>1, <2>3, <2>4, MoveKeepsProgramInv
<1>7. ASSUME At(k, "exit_children"),
             ScanChildrenFor(k, cpu[k].pid,
               Update(k, [cpu[k] EXCEPT !.index = cpu[k].i, !.i = @ + 1]),
               IF cpu[k].index # NotFound THEN StepBack(k, "exit_copy_child")
               ELSE Jump(k, "return"),
               Jump(k, "return"))
      PROVE  ProgramInv'
  <2>1. KeepsMaps /\ cpu[k].at = "exit_children"
    BY <1>7, QuietKeepsMaps DEF ScanChildrenFor, At
  <2>2. \/ Jump(k, "return")
        \/ cpu[k].i # MaxChildren /\ TakesIndex(k)
        \/ cpu[k].i # MaxChildren /\ cpu[k].index # NotFound /\ StepBack(k,
           "exit_copy_child")
        \/ cpu[k].i # MaxChildren /\ Advance(k, "exit_children")
    BY <1>7, <2>1 DEF ScanChildrenFor, TakesIndex
  <2>3. CASE Jump(k, "return")
    <3>1. Moves(k) /\ cpu'[k].at = "return" /\ cpu'[k].i = cpu[k].i /\ cpu'[k].index = cpu[k].index
      BY <1>1, <1>2, <2>1, <2>3, Jumped, AllPlaces
    <3>2. Fits("return", cpu[k].i, cpu[k].index) /\ Serves("return", "exit")
      BY <1>2, <2>1, <2>3 DEF Fits, Serves, ChildScans, ChildReads, ShellScans, ShellReads, KillPlaces,
          ForkPlaces, ExitPlaces, WritePlaces
    <3> QED
      BY <1>1, <1>2, <2>1, <3>1, <3>2, MoveKeepsProgramInv
  <2>4. CASE cpu[k].i # MaxChildren /\ TakesIndex(k)
    <3>1. Moves(k) /\ cpu'[k].at = "exit_children" /\ cpu'[k].i = cpu[k].i + 1 /\ cpu'[k].index = cpu[k].i
      BY <1>1, <1>2, <2>1, <2>4, IndexTaken, AllPlaces
    <3>2. Fits("exit_children", cpu[k].i + 1, cpu[k].i) /\ Serves("exit_children", "exit")
      BY <1>2, <2>1, <2>4 DEF Fits, Serves, ChildScans, ChildReads, ShellScans, ShellReads, KillPlaces,
          ForkPlaces, ExitPlaces, WritePlaces
    <3> QED
      BY <1>1, <1>2, <2>1, <3>1, <3>2, MoveKeepsProgramInv
  <2>5. CASE cpu[k].i # MaxChildren /\ cpu[k].index # NotFound /\ StepBack(k,
               "exit_copy_child")
    <3>1. Moves(k) /\ cpu'[k].at = "exit_copy_child" /\ cpu'[k].i = cpu[k].i - 1 /\ cpu'[k].index = cpu[k].index
      BY <1>1, <1>2, <2>1, <2>5, SteppedBack, AllPlaces DEF Fits
    <3>2. Fits("exit_copy_child", cpu[k].i - 1, cpu[k].index) /\ Serves("exit_copy_child", "exit")
      BY <1>2, <2>1, <2>5 DEF Fits, Serves, ChildScans, ChildReads, ShellScans, ShellReads, KillPlaces,
          ForkPlaces, ExitPlaces, WritePlaces
    <3> QED
      BY <1>1, <1>2, <2>1, <3>1, <3>2, MoveKeepsProgramInv
  <2>6. CASE cpu[k].i # MaxChildren /\ Advance(k, "exit_children")
    <3>1. Moves(k) /\ cpu'[k].at = "exit_children" /\ cpu'[k].i = cpu[k].i + 1 /\ cpu'[k].index = cpu[k].index
      BY <1>1, <1>2, <2>1, <2>6, Advanced, AllPlaces
    <3>2. Fits("exit_children", cpu[k].i + 1, cpu[k].index) /\ Serves("exit_children", "exit")
      BY <1>2, <2>1, <2>6 DEF Fits, Serves, ChildScans, ChildReads, ShellScans, ShellReads, KillPlaces,
          ForkPlaces, ExitPlaces, WritePlaces
    <3> QED
      BY <1>1, <1>2, <2>1, <3>1, <3>2, MoveKeepsProgramInv
  <2> QED
    BY <2>2, <2>3, <2>4, <2>5, <2>6
<1>8. ASSUME At(k, "exit_copy_child"), CopyChild(k, "exit_zero_child")
      PROVE  ProgramInv'
  <2>1. KeepsMaps /\ cpu[k].at = "exit_copy_child"
    BY <1>8, AtPlace, <1>1, CopyChildKeepsMaps DEF At, Fits, ChildReads
  <2>3. Moves(k) /\ cpu'[k].at = "exit_zero_child" /\ cpu'[k].i = cpu[k].i /\ cpu'[k].index = cpu[k].index
    BY <1>1, <1>2, <2>1, <1>8, Jumped, AllPlaces DEF CopyChild
  <2>4. Fits("exit_zero_child", cpu[k].i, cpu[k].index) /\ Serves("exit_zero_child", "exit")
    BY <1>2, <2>1, <1>8 DEF Fits, Serves, ChildScans, ChildReads, ShellScans, ShellReads, KillPlaces,
        ForkPlaces, ExitPlaces, WritePlaces
  <2> QED
    BY <1>1, <1>2, <2>1, <2>3, <2>4, MoveKeepsProgramInv
<1>9. ASSUME At(k, "exit_zero_child"), ZeroChild(k, "return")
      PROVE  ProgramInv'
  <2>1. KeepsMaps /\ cpu[k].at = "exit_zero_child"
    BY <1>9, ZeroChildKeepsMaps DEF At
  <2>3. Moves(k) /\ cpu'[k].at = "return" /\ cpu'[k].i = 0 /\ cpu'[k].index = NotFound
    BY <1>1, <1>2, <2>1, <1>9, Looped, AllPlaces DEF ZeroChild
  <2>4. Fits("return", 0, NotFound) /\ Serves("return", "exit")
    BY <1>2, <2>1, <1>9 DEF Fits, Serves, ChildScans, ChildReads, ShellScans, ShellReads, KillPlaces,
        ForkPlaces, ExitPlaces, WritePlaces
  <2> QED
    BY <1>1, <1>2, <2>1, <2>3, <2>4, MoveKeepsProgramInv
<1> QED
  BY <1>3, <1>4, <1>5, <1>6, <1>7, <1>8, <1>9 DEF ExitStep

LEMMA WriteStepKeepsProgramInv ==
  ASSUME ProgramInv, NEW k \in Cpu, WriteStep(k)
  PROVE  ProgramInv'
<1> USE DEF InChildren, InShells
<1>1. ~At(k, "idle") /\ cpu[k].at \in WritePlaces
  BY DEF WriteStep, At, WritePlaces, WriteShells
<1>2. /\ cpu[k].i \in Nat /\ MaxChildren \in Nat \ {0} /\ MaxShells \in Nat \ {0}
      /\ (cpu[k].index = NotFound \/ cpu[k].index \in Nat) /\ NotFound = -1
      /\ cpu[k].call.name = "write" /\ Fits(cpu[k].at, cpu[k].i, cpu[k].index)
      /\ cpu[k].pid \in Pid /\ cpu[k].owner \in Pid \cup {NoPid}
  BY <1>1, AtPlace DEF Serves
<1>3. ASSUME At(k, "write_children"),
             ScanChildrenFor(k, cpu[k].pid, Note(k, "write_owner"), Jump(k, "return"),
               \E any \in Pid \cup {NoPid} : SearchFor(k, any, "write_shells"))
      PROVE  ProgramInv'
  <2>1. KeepsMaps /\ cpu[k].at = "write_children"
    BY <1>3, QuietKeepsMaps DEF ScanChildrenFor, At
  <2>2. \/ \E any \in Pid \cup {NoPid} : SearchFor(k, any, "write_shells")
        \/ cpu[k].i # MaxChildren /\ Note(k, "write_owner")
        \/ cpu[k].i # MaxChildren /\ Jump(k, "return")
        \/ cpu[k].i # MaxChildren /\ Advance(k, "write_children")
    BY <1>3, <2>1 DEF ScanChildrenFor
  <2>3. CASE \E any \in Pid \cup {NoPid} : SearchFor(k, any, "write_shells")
    <3>1. Moves(k) /\ cpu'[k].at = "write_shells" /\ cpu'[k].i = 0 /\ cpu'[k].index = cpu[k].index
      BY <1>1, <1>2, <2>1, <2>3, Searching, AllPlaces
    <3>2. Fits("write_shells", 0, cpu[k].index) /\ Serves("write_shells", "write")
      BY <1>2, <2>1, <2>3 DEF Fits, Serves, ChildScans, ChildReads, ShellScans, ShellReads, KillPlaces,
          ForkPlaces, ExitPlaces, WritePlaces
    <3> QED
      BY <1>1, <1>2, <2>1, <3>1, <3>2, MoveKeepsProgramInv
  <2>4. CASE cpu[k].i # MaxChildren /\ Note(k, "write_owner")
    <3>1. Moves(k) /\ cpu'[k].at = "write_owner" /\ cpu'[k].i = cpu[k].i /\ cpu'[k].index = cpu[k].i
      BY <1>1, <1>2, <2>1, <2>4, Marked, AllPlaces
    <3>2. Fits("write_owner", cpu[k].i, cpu[k].i) /\ Serves("write_owner", "write")
      BY <1>2, <2>1, <2>4 DEF Fits, Serves, ChildScans, ChildReads, ShellScans, ShellReads, KillPlaces,
          ForkPlaces, ExitPlaces, WritePlaces
    <3> QED
      BY <1>1, <1>2, <2>1, <3>1, <3>2, MoveKeepsProgramInv
  <2>5. CASE cpu[k].i # MaxChildren /\ Jump(k, "return")
    <3>1. Moves(k) /\ cpu'[k].at = "return" /\ cpu'[k].i = cpu[k].i /\ cpu'[k].index = cpu[k].index
      BY <1>1, <1>2, <2>1, <2>5, Jumped, AllPlaces
    <3>2. Fits("return", cpu[k].i, cpu[k].index) /\ Serves("return", "write")
      BY <1>2, <2>1, <2>5 DEF Fits, Serves, ChildScans, ChildReads, ShellScans, ShellReads, KillPlaces,
          ForkPlaces, ExitPlaces, WritePlaces
    <3> QED
      BY <1>1, <1>2, <2>1, <3>1, <3>2, MoveKeepsProgramInv
  <2>6. CASE cpu[k].i # MaxChildren /\ Advance(k, "write_children")
    <3>1. Moves(k) /\ cpu'[k].at = "write_children" /\ cpu'[k].i = cpu[k].i + 1 /\ cpu'[k].index = cpu[k].index
      BY <1>1, <1>2, <2>1, <2>6, Advanced, AllPlaces
    <3>2. Fits("write_children", cpu[k].i + 1, cpu[k].index) /\ Serves("write_children", "write")
      BY <1>2, <2>1, <2>6 DEF Fits, Serves, ChildScans, ChildReads, ShellScans, ShellReads, KillPlaces,
          ForkPlaces, ExitPlaces, WritePlaces
    <3> QED
      BY <1>1, <1>2, <2>1, <3>1, <3>2, MoveKeepsProgramInv
  <2> QED
    BY <2>2, <2>3, <2>4, <2>5, <2>6
<1>4. ASSUME At(k, "write_owner"), ReadOwner(k, "write_shells")
      PROVE  ProgramInv'
  <2>1. KeepsMaps /\ cpu[k].at = "write_owner"
    BY <1>4, QuietKeepsMaps DEF At, ReadOwner
  <2>2. SearchFor(k, ChildAt(k).shell, "write_shells") /\ ChildAt(k).shell \in Pid \cup {NoPid}
    BY <1>2, <2>1, <1>4, EntryTypes DEF ReadOwner, ChildAt, Fits, ChildReads
  <2>3. Moves(k) /\ cpu'[k].at = "write_shells" /\ cpu'[k].i = 0 /\ cpu'[k].index = cpu[k].index
    BY <1>1, <1>2, <2>1, <1>4, Searching, AllPlaces, <2>2
  <2>4. Fits("write_shells", 0, cpu[k].index) /\ Serves("write_shells", "write")
    BY <1>2, <2>1, <1>4 DEF Fits, Serves, ChildScans, ChildReads, ShellScans, ShellReads, KillPlaces,
        ForkPlaces, ExitPlaces, WritePlaces
  <2> QED
    BY <1>1, <1>2, <2>1, <2>3, <2>4, MoveKeepsProgramInv
<1>5. ASSUME WriteShells(k)
      PROVE  ProgramInv'
  <2>1. KeepsMaps /\ cpu[k].at = "write_shells"
    BY <1>5, QuietKeepsMaps DEF ScanShellsFor, At, WriteShells
  <2>2. \/ cpu[k].i # MaxShells /\ Jump(k, "write_indicator")
        \/ cpu[k].i # MaxShells /\ Jump(k, "return")
        \/ Jump(k, "write_text")
        \/ cpu[k].i # MaxShells /\ Advance(k, "write_shells")
    BY <1>5, <2>1 DEF ScanShellsFor, WriteShells
  <2>3. CASE cpu[k].i # MaxShells /\ Jump(k, "write_indicator")
    <3>1. Moves(k) /\ cpu'[k].at = "write_indicator" /\ cpu'[k].i = cpu[k].i /\ cpu'[k].index = cpu[k].index
      BY <1>1, <1>2, <2>1, <2>3, Jumped, AllPlaces
    <3>2. Fits("write_indicator", cpu[k].i, cpu[k].index) /\ Serves("write_indicator", "write")
      BY <1>2, <2>1, <2>3 DEF Fits, Serves, ChildScans, ChildReads, ShellScans, ShellReads, KillPlaces,
          ForkPlaces, ExitPlaces, WritePlaces
    <3> QED
      BY <1>1, <1>2, <2>1, <3>1, <3>2, MoveKeepsProgramInv
  <2>4. CASE cpu[k].i # MaxShells /\ Jump(k, "return")
    <3>1. Moves(k) /\ cpu'[k].at = "return" /\ cpu'[k].i = cpu[k].i /\ cpu'[k].index = cpu[k].index
      BY <1>1, <1>2, <2>1, <2>4, Jumped, AllPlaces
    <3>2. Fits("return", cpu[k].i, cpu[k].index) /\ Serves("return", "write")
      BY <1>2, <2>1, <2>4 DEF Fits, Serves, ChildScans, ChildReads, ShellScans, ShellReads, KillPlaces,
          ForkPlaces, ExitPlaces, WritePlaces
    <3> QED
      BY <1>1, <1>2, <2>1, <3>1, <3>2, MoveKeepsProgramInv
  <2>5. CASE Jump(k, "write_text")
    <3>1. Moves(k) /\ cpu'[k].at = "write_text" /\ cpu'[k].i = cpu[k].i /\ cpu'[k].index = cpu[k].index
      BY <1>1, <1>2, <2>1, <2>5, Jumped, AllPlaces
    <3>2. Fits("write_text", cpu[k].i, cpu[k].index) /\ Serves("write_text", "write")
      BY <1>2, <2>1, <2>5 DEF Fits, Serves, ChildScans, ChildReads, ShellScans, ShellReads, KillPlaces,
          ForkPlaces, ExitPlaces, WritePlaces
    <3> QED
      BY <1>1, <1>2, <2>1, <3>1, <3>2, MoveKeepsProgramInv
  <2>6. CASE cpu[k].i # MaxShells /\ Advance(k, "write_shells")
    <3>1. Moves(k) /\ cpu'[k].at = "write_shells" /\ cpu'[k].i = cpu[k].i + 1 /\ cpu'[k].index = cpu[k].index
      BY <1>1, <1>2, <2>1, <2>6, Advanced, AllPlaces
    <3>2. Fits("write_shells", cpu[k].i + 1, cpu[k].index) /\ Serves("write_shells", "write")
      BY <1>2, <2>1, <2>6 DEF Fits, Serves, ChildScans, ChildReads, ShellScans, ShellReads, KillPlaces,
          ForkPlaces, ExitPlaces, WritePlaces
    <3> QED
      BY <1>1, <1>2, <2>1, <3>1, <3>2, MoveKeepsProgramInv
  <2> QED
    BY <2>2, <2>3, <2>4, <2>5, <2>6
<1>6. ASSUME At(k, "write_indicator"), ReadIndicator(k, "write_text")
      PROVE  ProgramInv'
  <2>1. KeepsMaps /\ cpu[k].at = "write_indicator"
    BY <1>6, QuietKeepsMaps DEF At, ReadIndicator
  <2>2. FindsIndicator(k, ShellAt(k).indicator, "write_text") /\ ShellAt(k).indicator \in Indicator \cup {NoIndicator}
    BY <1>2, <2>1, <1>6, EntryTypes DEF FindsIndicator, ReadIndicator, ShellAt, Fits, ShellReads
  <2>3. Moves(k) /\ cpu'[k].at = "write_text" /\ cpu'[k].i = cpu[k].i /\ cpu'[k].index = cpu[k].index
    BY <1>1, <1>2, <2>1, <1>6, IndicatorRead, AllPlaces, <2>2
  <2>4. Fits("write_text", cpu[k].i, cpu[k].index) /\ Serves("write_text", "write")
    BY <1>2, <2>1, <1>6 DEF Fits, Serves, ChildScans, ChildReads, ShellScans, ShellReads, KillPlaces,
        ForkPlaces, ExitPlaces, WritePlaces
  <2> QED
    BY <1>1, <1>2, <2>1, <2>3, <2>4, MoveKeepsProgramInv
<1>7. ASSUME At(k, "write_text"), Jump(k, "return"), UNCHANGED vars
      PROVE  ProgramInv'
  <2>1. KeepsMaps /\ cpu[k].at = "write_text"
    BY <1>7, QuietKeepsMaps DEF At
  <2>3. Moves(k) /\ cpu'[k].at = "return" /\ cpu'[k].i = cpu[k].i /\ cpu'[k].index = cpu[k].index
    BY <1>1, <1>2, <2>1, <1>7, Jumped, AllPlaces
  <2>4. Fits("return", cpu[k].i, cpu[k].index) /\ Serves("return", "write")
    BY <1>2, <2>1, <1>7 DEF Fits, Serves, ChildScans, ChildReads, ShellScans, ShellReads, KillPlaces,
        ForkPlaces, ExitPlaces, WritePlaces
  <2> QED
    BY <1>1, <1>2, <2>1, <2>3, <2>4, MoveKeepsProgramInv
<1>8. ASSUME At(k, "write_text"), SetOmit(k, TRUE, "return")
      PROVE  ProgramInv'
  <2>1. KeepsMaps /\ cpu[k].at = "write_text"
    BY <1>8, AtPlace, <1>1, SetOmitKeepsMaps DEF At, Fits, ShellScans
  <2>3. Moves(k) /\ cpu'[k].at = "return" /\ cpu'[k].i = cpu[k].i /\ cpu'[k].index = cpu[k].index
    BY <1>1, <1>2, <2>1, <1>8, Jumped, AllPlaces DEF SetOmit
  <2>4. Fits("return", cpu[k].i, cpu[k].index) /\ Serves("return", "write")
    BY <1>2, <2>1, <1>8 DEF Fits, Serves, ChildScans, ChildReads, ShellScans, ShellReads, KillPlaces,
        ForkPlaces, ExitPlaces, WritePlaces
  <2> QED
    BY <1>1, <1>2, <2>1, <2>3, <2>4, MoveKeepsProgramInv
<1>9. ASSUME At(k, "write_text"), SetOmit(k, FALSE, "write_omit")
      PROVE  ProgramInv'
  <2>1. KeepsMaps /\ cpu[k].at = "write_text"
    BY <1>9, AtPlace, <1>1, SetOmitKeepsMaps DEF At, Fits, ShellScans
  <2>3. Moves(k) /\ cpu'[k].at = "write_omit" /\ cpu'[k].i = cpu[k].i /\ cpu'[k].index = cpu[k].index
    BY <1>1, <1>2, <2>1, <1>9, Jumped, AllPlaces DEF SetOmit
  <2>4. Fits("write_omit", cpu[k].i, cpu[k].index) /\ Serves("write_omit", "write")
    BY <1>2, <2>1, <1>9 DEF Fits, Serves, ChildScans, ChildReads, ShellScans, ShellReads, KillPlaces,
        ForkPlaces, ExitPlaces, WritePlaces
  <2> QED
    BY <1>1, <1>2, <2>1, <2>3, <2>4, MoveKeepsProgramInv
<1>10. ASSUME At(k, "write_text"), Jump(k, "write_omit"), UNCHANGED vars
      PROVE  ProgramInv'
  <2>1. KeepsMaps /\ cpu[k].at = "write_text"
    BY <1>10, QuietKeepsMaps DEF At
  <2>3. Moves(k) /\ cpu'[k].at = "write_omit" /\ cpu'[k].i = cpu[k].i /\ cpu'[k].index = cpu[k].index
    BY <1>1, <1>2, <2>1, <1>10, Jumped, AllPlaces
  <2>4. Fits("write_omit", cpu[k].i, cpu[k].index) /\ Serves("write_omit", "write")
    BY <1>2, <2>1, <1>10 DEF Fits, Serves, ChildScans, ChildReads, ShellScans, ShellReads, KillPlaces,
        ForkPlaces, ExitPlaces, WritePlaces
  <2> QED
    BY <1>1, <1>2, <2>1, <2>3, <2>4, MoveKeepsProgramInv
<1>11. ASSUME At(k, "write_omit"), UNCHANGED vars,
             Jump(k, IF Slot(k) < MaxShells /\ ShellAt(k).omit THEN "return" ELSE "submit")
      PROVE  ProgramInv'
  <2>1. KeepsMaps /\ cpu[k].at = "write_omit"
    BY <1>11, QuietKeepsMaps DEF At
  <2>2. \/ Jump(k, "return")
        \/ Jump(k, "submit")
    BY <1>11, <2>1 DEF ScanChildrenFor
  <2>3. CASE Jump(k, "return")
    <3>1. Moves(k) /\ cpu'[k].at = "return" /\ cpu'[k].i = cpu[k].i /\ cpu'[k].index = cpu[k].index
      BY <1>1, <1>2, <2>1, <2>3, Jumped, AllPlaces
    <3>2. Fits("return", cpu[k].i, cpu[k].index) /\ Serves("return", "write")
      BY <1>2, <2>1, <2>3 DEF Fits, Serves, ChildScans, ChildReads, ShellScans, ShellReads, KillPlaces,
          ForkPlaces, ExitPlaces, WritePlaces
    <3> QED
      BY <1>1, <1>2, <2>1, <3>1, <3>2, MoveKeepsProgramInv
  <2>4. CASE Jump(k, "submit")
    <3>1. Moves(k) /\ cpu'[k].at = "submit" /\ cpu'[k].i = cpu[k].i /\ cpu'[k].index = cpu[k].index
      BY <1>1, <1>2, <2>1, <2>4, Jumped, AllPlaces
    <3>2. Fits("submit", cpu[k].i, cpu[k].index) /\ Serves("submit", "write")
      BY <1>2, <2>1, <2>4 DEF Fits, Serves, ChildScans, ChildReads, ShellScans, ShellReads, KillPlaces,
          ForkPlaces, ExitPlaces, WritePlaces
    <3> QED
      BY <1>1, <1>2, <2>1, <3>1, <3>2, MoveKeepsProgramInv
  <2> QED
    BY <2>2, <2>3, <2>4
<1> QED
  BY <1>3, <1>4, <1>5, <1>6, <1>7, <1>8, <1>9, <1>10, <1>11 DEF WriteStep

----------------------------------------------------------------------------
(* The beginning and the end of a program, and nhid.                       *)

LEMMA EnterKeepsProgramInv ==
  ASSUME ProgramInv, NEW k \in Cpu, NEW t \in Pid, NEW place \in Places, NEW call \in Call,
         Enter(k, t, place, call),
         call.name = "kill" => t \in ShellPid,
         Serves(place, call.name), Fits(place, 0, NotFound)
  PROVE  /\ ProgramInv' /\ cpu' = [cpu EXCEPT ![k] = Program(t, place, call)]
         /\ cpu'[k] = Program(t, place, call) /\ ProgramOK(cpu'[k])
<1>1. Maps \in MapsRecord
  BY DEF ProgramInv, TypeOK, Maps, MapsRecord
<1>2. PICK c : c = Program(t, place, call)
  OBVIOUS
<1>3. c \in ProgramRecord /\ c.pid = t /\ c.call = call /\ c.at = place /\ c.i = 0
      /\ c.index = NotFound
  BY <1>1, <1>2 DEF Program, ProgramRecord
<1>4. ProgramOK(c)
  BY <1>3 DEF ProgramOK
<1>5. cpu' = [cpu EXCEPT ![k] = c] /\ UNCHANGED vars
  BY <1>2 DEF Enter
<1>6. cpu'[k] = c /\ DOMAIN cpu' = Cpu /\ \A j \in Cpu \ {k} : cpu'[j] = cpu[j]
  BY <1>5 DEF ProgramInv
<1>7. CpusOK'
  BY <1>4, <1>6 DEF ProgramInv, CpusOK, At
<1>8. KeepsMaps
  BY <1>5, QuietKeepsMaps
<1>9. RegistrationTyped'
  BY <1>8 DEF ProgramInv, RegistrationTyped, KeepsMaps
<1> QED
  BY <1>2, <1>4, <1>5, <1>6, <1>7, <1>8, <1>9 DEF ProgramInv, KeepsMaps

\* What the four calls are.
LEMMA Calls ==
  /\ [name |-> "kill", sig |-> "SIGUSR"] \in Call
  /\ [name |-> "kill", sig |-> "SIGRTMIN"] \in Call
  /\ \A c \in Pid : [name |-> "fork", child |-> c] \in Call
  /\ [name |-> "exit"] \in Call
  /\ \A data \in Data : [name |-> "write", data |-> data] \in Call
  BY DEF Call

\* Every program starts where it may be.
LEMMA FirstPlaces ==
  /\ Serves("kill_find", "kill") /\ Fits("kill_find", 0, NotFound)
  /\ Serves("submit", "kill") /\ Fits("submit", 0, NotFound)
  /\ Serves("fork_shells", "fork") /\ Fits("fork_shells", 0, NotFound)
  /\ Serves("exit_shells", "exit") /\ Fits("exit_shells", 0, NotFound)
  /\ Serves("write_children", "write") /\ Fits("write_children", 0, NotFound)
<1>1. 0 \in 0 .. MaxChildren /\ 0 \in 0 .. MaxShells
  BY SizeAssumption
<1> QED
  BY <1>1 DEF Fits, Serves, ChildScans, ChildReads, ShellScans, ShellReads, KillPlaces,
              ForkPlaces, ExitPlaces, WritePlaces

LEMMA EntersKeepProgramInv ==
  ASSUME ProgramInv, NEW k \in Cpu, EnterKill(k) \/ EnterFork(k) \/ EnterExit(k) \/ EnterWrite(k)
  PROVE  ProgramInv'
<1>1. ASSUME NEW s \in ShellPid, NEW sig \in {"SIGUSR", "SIGRTMIN"},
             NEW place \in {"kill_find", "submit"},
             Enter(k, s, place, [name |-> "kill", sig |-> sig])
      PROVE  ProgramInv'
  <2>1. /\ s \in Pid /\ place \in Places /\ Serves(place, "kill") /\ Fits(place, 0, NotFound)
        /\ [name |-> "kill", sig |-> sig] \in Call /\ [name |-> "kill", sig |-> sig].name = "kill"
    BY PidAssumption, AllPlaces, Calls, FirstPlaces
  <2> QED
    BY <1>1, <2>1, EnterKeepsProgramInv
<1>2. ASSUME NEW t \in Pid, NEW c \in Pid,
             Enter(k, t, "fork_shells", [name |-> "fork", child |-> c])
      PROVE  ProgramInv'
  <2>1. /\ "fork_shells" \in Places /\ Serves("fork_shells", "fork")
        /\ Fits("fork_shells", 0, NotFound)
        /\ [name |-> "fork", child |-> c] \in Call
        /\ [name |-> "fork", child |-> c].name = "fork" /\ "fork" # "kill"
    BY AllPlaces, Calls, FirstPlaces
  <2> QED
    BY <1>2, <2>1, EnterKeepsProgramInv
<1>3. ASSUME NEW t \in Pid, Enter(k, t, "exit_shells", [name |-> "exit"])
      PROVE  ProgramInv'
  <2>1. /\ "exit_shells" \in Places /\ Serves("exit_shells", "exit")
        /\ Fits("exit_shells", 0, NotFound)
        /\ [name |-> "exit"] \in Call /\ [name |-> "exit"].name = "exit" /\ "exit" # "kill"
    BY AllPlaces, Calls, FirstPlaces
  <2> QED
    BY <1>3, <2>1, EnterKeepsProgramInv
<1>4. ASSUME NEW t \in Pid, NEW data \in Data,
             Enter(k, t, "write_children", [name |-> "write", data |-> data])
      PROVE  ProgramInv'
  <2>1. /\ "write_children" \in Places /\ Serves("write_children", "write")
        /\ Fits("write_children", 0, NotFound)
        /\ [name |-> "write", data |-> data] \in Call
        /\ [name |-> "write", data |-> data].name = "write" /\ "write" # "kill"
    BY AllPlaces, Calls, FirstPlaces
  <2> QED
    BY <1>4, <2>1, EnterKeepsProgramInv
<1> QED
  BY <1>1, <1>2, <1>3, <1>4 DEF EnterKill, EnterFork, EnterExit, EnterWrite

LEMMA EventIsTyped ==
  ASSUME NEW c, ProgramOK(c)
  PROVE  EventOf(c) \in Event
<1>1. /\ c.call \in Call /\ c.pid \in Pid /\ c.owner \in Pid \cup {NoPid} /\ c.hit \in BOOLEAN
      /\ c.indicator \in Indicator \cup {NoIndicator}
      /\ c.call.name = "kill" => c.pid \in ShellPid
  BY DEF ProgramOK, ProgramRecord
<1>2. CASE c.call.name = "kill"
  <2>1. c.call.sig \in {"SIGUSR", "SIGRTMIN"} /\ c.pid \in ShellPid
    BY <1>1, <1>2 DEF Call
  <2>2. EventOf(c) = [type |-> "kill", pid |-> c.pid, sig |-> c.call.sig, parent |-> c.indicator]
    BY <1>2 DEF EventOf
  <2> QED
    BY <1>1, <2>1, <2>2 DEF Event, KillEvent
<1>3. CASE c.call.name = "fork"
  <2>1. c.call.child \in Pid
    BY <1>1, <1>3 DEF Call
  <2>2. EventOf(c) = [type |-> "child", shell |-> c.owner, child |-> c.call.child]
    BY <1>3 DEF EventOf
  <2> QED
    BY <1>1, <2>1, <2>2 DEF Event, ChildEvent
<1>4. CASE c.call.name = "exit"
  <2>2. EventOf(c) = [type |-> "exit", pid |-> c.pid, indicator |-> c.indicator]
    BY <1>4 DEF EventOf
  <2> QED
    BY <1>1, <2>2 DEF Event, ExitEvent
<1>5. CASE c.call.name = "write"
  <2>1. c.call.data \in Data
    BY <1>1, <1>5 DEF Call
  <2>2. EventOf(c) = [type |-> "write", data |-> c.call.data, writer |-> c.pid,
                      tracked |-> c.hit, indicator |-> c.indicator]
    BY <1>5 DEF EventOf
  <2> QED
    BY <1>1, <2>1, <2>2 DEF Event, WriteEvent
<1> QED
  BY <1>1, <1>2, <1>3, <1>4, <1>5 DEF Call

LEMMA SubmitKeepsProgramInv ==
  ASSUME ProgramInv, NEW k \in Cpu, SubmitStep(k)
  PROVE  ProgramInv'
<1>1. ~At(k, "idle") /\ Jump(k, "return")
  BY DEF SubmitStep, At
<1>2. EventOf(cpu[k]) \in Event
  BY <1>1, RunningProgram, EventIsTyped
<1>3. ring' \in Seq(Event) /\ Len(ring') <= RingCapacity /\ (ring # <<>> => ring' # <<>>)
  BY <1>2, SubmitKeepsRing DEF ProgramInv, SubmitStep
<1>4. KeepsMaps
  BY <1>3 DEF ProgramInv, TypeOK, KeepsMaps, SubmitStep, procVars, nhidVars
<1>5. Moves(k) /\ cpu'[k].at = "return" /\ cpu'[k].i = cpu[k].i /\ cpu'[k].index = cpu[k].index
  BY <1>1, Jumped, AllPlaces
<1>6. Fits("return", cpu[k].i, cpu[k].index) /\ Serves("return", cpu[k].call.name)
  BY <1>1, AtPlace DEF Fits, Serves, ChildScans, ChildReads, ShellScans, ShellReads,
     KillPlaces, ForkPlaces, ExitPlaces, WritePlaces
<1> QED
  BY <1>1, <1>4, <1>5, <1>6, MoveKeepsProgramInv

LEMMA ReturnKeepsProgramInv ==
  ASSUME ProgramInv, NEW k \in Cpu, Return(k)
  PROVE  ProgramInv'
<1>1. ~At(k, "idle")
  BY DEF Return, At
<1>2. ProgramOK(cpu[k])
  BY <1>1, RunningProgram
<1>3. TypeOK' /\ UNCHANGED <<mapVars, nhidVars>>
  <2>1. CASE IsCall(k, "fork")
    <3>1. cpu[k].call.child \in Pid /\ cpu[k].pid \in Pid
      BY <1>2, <2>1 DEF ProgramOK, ProgramRecord, Call, IsCall
    <3>2. tgid' \in [Pid -> Pid \cup {NoPid}] /\ born' \subseteq Pid
      BY <2>1, <3>1 DEF Return, ProgramInv, TypeOK, IsCall, procVars
    <3>3. kin' \in [Pid -> SUBSET ShellPid]
      BY <2>1, <3>1 DEF Return, ProgramInv, TypeOK, IsCall, procVars
    <3> QED
      BY <3>2, <3>3 DEF Return, ProgramInv, TypeOK, mapVars, nhidVars
  <2>2. CASE ~IsCall(k, "fork")
    <3>1. cpu[k].pid \in Pid
      BY <1>2 DEF ProgramOK, ProgramRecord
    <3>2. tgid' \in [Pid -> Pid \cup {NoPid}] /\ UNCHANGED <<born, kin>>
      BY <2>2, <3>1 DEF Return, ProgramInv, TypeOK, procVars
    <3> QED
      BY <3>2 DEF Return, ProgramInv, TypeOK, mapVars, nhidVars
  <2> QED
    BY <2>1, <2>2
<1>4. cpu' = [cpu EXCEPT ![k] = Idling]
  BY DEF Return, Update
<1>5. DOMAIN cpu' = Cpu /\ CpusOK'
  BY <1>4 DEF ProgramInv, CpusOK, At, Idling
<1>6. RegistrationTyped'
  BY <1>3 DEF ProgramInv, RegistrationTyped, mapVars, nhidVars
<1> QED
  BY <1>3, <1>5, <1>6 DEF ProgramInv

LEMMA NhidKeepsProgramInv ==
  ASSUME ProgramInv, NEW k \in Cpu, NhidOn(k)
  PROVE  ProgramInv'
<1>1. UNCHANGED cpu
  BY DEF NhidOn
<1>2. DOMAIN cpu' = Cpu /\ CpusOK'
  BY <1>1 DEF ProgramInv, CpusOK, At
<1>3. TypeOK' /\ RegistrationTyped'
  <2>1. CASE StartRegistration
    <3>1. ring \in Seq(Event) /\ ring # <<>> /\ IsRegistration(Head(ring))
      BY <2>1 DEF ProgramInv, TypeOK, StartRegistration
    <3>2. Head(ring) \in Event /\ Head(ring).type = "kill"
      BY <3>1, HeadTailProperties DEF IsRegistration
    <3>3. Head(ring).pid \in ShellPid
      BY <3>2 DEF Event, KillEvent, ChildEvent, ExitEvent, WriteEvent
    <3>4. PICK indicator \in Indicator :
            reg' = [phase |-> "scan", pid |-> Head(ring).pid,
                    indicator |-> indicator, slot |-> 0]
      BY <2>1 DEF StartRegistration
    <3>5. reg' \in Registration /\ reg'.pid \in ShellPid /\ reg'.indicator \in Indicator
      BY <3>3, <3>4, PidAssumption, SizeAssumption DEF Registration
    <3> QED
      BY <2>1, <3>1, <3>5
         DEF ProgramInv, TypeOK, RegistrationTyped, StartRegistration, procVars, mapVars
  <2>2. CASE ScanSlot
    <3>1. reg \in Registration /\ reg.phase = "scan" /\ MaxShells \in Nat
      BY <2>2, SizeAssumption DEF ScanSlot, ProgramInv, TypeOK
    <3>2. reg' \in Registration /\ reg'.pid = reg.pid /\ reg'.indicator = reg.indicator
      <4>1. CASE reg.slot < MaxShells /\ shells[reg.slot].pid # NoPid
        <5>1. reg.slot \in 0 .. MaxShells /\ reg.slot + 1 \in 0 .. MaxShells
          BY <3>1, <4>1 DEF Registration
        <5>2. reg' = [reg EXCEPT !.slot = reg.slot + 1]
          BY <2>2, <4>1 DEF ScanSlot
        <5> QED
          BY <3>1, <5>1, <5>2 DEF Registration
      <4>2. CASE ~(reg.slot < MaxShells /\ shells[reg.slot].pid # NoPid)
        <5>1. reg' = [reg EXCEPT !.phase = "inspect"]
          BY <2>2, <4>2 DEF ScanSlot
        <5> QED
          BY <3>1, <5>1 DEF Registration
      <4> QED
        BY <4>1, <4>2
    <3> QED
      BY <2>2, <3>1, <3>2
         DEF ProgramInv, TypeOK, RegistrationTyped, ScanSlot, procVars, mapVars
  <2>3. CASE InspectShell
    <3>1. reg \in Registration /\ reg.phase = "inspect" /\ reg' = [reg EXCEPT !.phase = "update"]
      BY <2>3 DEF InspectShell, ProgramInv, TypeOK
    <3>2. reg' \in Registration /\ reg'.pid = reg.pid /\ reg'.indicator = reg.indicator
      BY <3>1 DEF Registration
    <3> QED
      BY <2>3, <3>1, <3>2
         DEF ProgramInv, TypeOK, RegistrationTyped, InspectShell, procVars, mapVars
  <2>4. CASE RegistrationFails \/ Register
    <3>1. ring # <<>> /\ ring' = Tail(ring) /\ reg' = NoRegistration
          /\ reg.pid \in ShellPid /\ reg.indicator \in Indicator
      BY <2>4 DEF RegistrationFails, Register, ProgramInv, RegistrationTyped
    <3>2. ring' \in Seq(Event) /\ Len(ring') <= RingCapacity
      BY <3>1, ReleaseKeepsRing DEF ProgramInv
    <3>3. reg' \in Registration /\ RegistrationTyped'
      BY <3>1, EmptyEntries DEF RegistrationTyped, NoRegistration
    <3>4. shells' \in [0 .. MaxShells - 1 -> Shell] /\ granted' \subseteq ShellPid \X Indicator
      <4>1. \A omit \in BOOLEAN :
              [pid |-> reg.pid, indicator |-> reg.indicator, omit |-> omit] \in Shell
        BY <3>1, PidAssumption DEF Shell
      <4>2. shells \in [0 .. MaxShells - 1 -> Shell] /\ granted \subseteq ShellPid \X Indicator
        BY DEF ProgramInv, TypeOK
      <4>3. CASE UNCHANGED <<shells, granted>>
        BY <4>2, <4>3
      <4>4. CASE ~UNCHANGED <<shells, granted>>
        <5>1. PICK omit \in BOOLEAN :
                shells' = [shells EXCEPT ![reg.slot] =
                  [pid |-> reg.pid, indicator |-> reg.indicator, omit |-> omit]]
          BY <2>4, <4>4 DEF RegistrationFails, Register
        <5>2. granted' = granted \cup {<<reg.pid, reg.indicator>>}
          BY <2>4, <4>4 DEF RegistrationFails, Register
        <5>3. shells' \in [0 .. MaxShells - 1 -> Shell]
          BY <4>1, <4>2, <5>1
        <5> QED
          BY <3>1, <4>2, <5>2, <5>3
      <4> QED
        BY <4>3, <4>4
    <3>5. UNCHANGED <<procVars, loaded, children>>
      BY <2>4 DEF RegistrationFails, Register
    <3> QED
      BY <3>2, <3>3, <3>4, <3>5 DEF ProgramInv, TypeOK, procVars
  <2>5. CASE Consume
    <3>1. ring # <<>> /\ ring' = Tail(ring) /\ reg' = reg /\ reg.phase = "idle"
      BY <2>5 DEF Consume, Idle, nhidVars
    <3>2. ring' \in Seq(Event) /\ Len(ring') <= RingCapacity
      BY <3>1, ReleaseKeepsRing DEF ProgramInv
    <3> QED
      BY <2>5, <3>1, <3>2
         DEF ProgramInv, TypeOK, RegistrationTyped, Consume, procVars, nhidVars
  <2> QED
    BY <2>1, <2>2, <2>3, <2>4, <2>5 DEF NhidOn
<1> QED
  BY <1>2, <1>3 DEF ProgramInv

LEMMA InitProgramInv == ProgramsInit => ProgramInv
<1> SUFFICES ASSUME ProgramsInit PROVE ProgramInv
  OBVIOUS
<1>1. TypeOK
  BY InitIInv DEF ProgramsInit, IInv
<1>2. RegistrationTyped
  BY DEF ProgramsInit, Init, RegistrationTyped, NoRegistration
<1>3. DOMAIN cpu = Cpu /\ CpusOK
  BY DEF ProgramsInit, CpusOK, At, Idling
<1> QED
  BY <1>1, <1>2, <1>3 DEF ProgramInv

LEMMA StepKeepsProgramInv ==
  ASSUME ProgramInv, [ProgramsNext]_programVars
  PROVE  ProgramInv'
<1>1. CASE UNCHANGED programVars
  <2>1. KeepsMaps /\ cpu' = cpu
    BY <1>1, QuietKeepsMaps DEF programVars
  <2> QED
    BY <2>1 DEF ProgramInv, CpusOK, At, KeepsMaps, RegistrationTyped
<1>2. ASSUME NEW k \in Cpu,
             \/ EnterKill(k) \/ EnterFork(k) \/ EnterExit(k) \/ EnterWrite(k)
             \/ KillStep(k) \/ ForkStep(k) \/ ExitStep(k) \/ WriteStep(k)
             \/ SubmitStep(k) \/ Return(k) \/ NhidOn(k)
      PROVE  ProgramInv'
  BY <1>2, EntersKeepProgramInv, KillStepKeepsProgramInv, ForkStepKeepsProgramInv,
     ExitStepKeepsProgramInv, WriteStepKeepsProgramInv, SubmitKeepsProgramInv,
     ReturnKeepsProgramInv, NhidKeepsProgramInv
<1> QED
  BY <1>1, <1>2 DEF ProgramsNext

LEMMA ProgramInvTypes == ProgramInv => ProgramsTypeOK
<1> SUFFICES ASSUME ProgramInv PROVE ProgramsTypeOK
  OBVIOUS
<1>1. ASSUME NEW k \in Busy
      PROVE  /\ cpu[k].i \in 0 .. MaxShells \/ cpu[k].i \in 0 .. MaxChildren
             /\ cpu[k].index \in {NotFound} \cup DOMAIN shells \cup DOMAIN children
             /\ cpu[k].owner \in Pid \cup {NoPid}
             /\ cpu[k].indicator \in Indicator \cup {NoIndicator}
  <2>1. k \in Cpu /\ ~At(k, "idle")
    BY DEF Busy
  <2>2. DOMAIN shells = 0 .. MaxShells - 1 /\ DOMAIN children = 0 .. MaxChildren - 1
    BY DEF ProgramInv, TypeOK
  <2> QED
    BY <2>1, <2>2, AtPlace DEF Fits, InShells, InChildren
<1> QED
  BY <1>1 DEF ProgramInv, ProgramsTypeOK

\* On any number of CPUs, whatever the loops of nhi.bpf.c meet, the maps keep their
\* types and no index leaves its table.
THEOREM ProgramsTypeCorrect == ProgramsSpec => []ProgramsTypeOK
<1>1. ProgramsSpec => []ProgramInv
  BY InitProgramInv, StepKeepsProgramInv, PTL DEF ProgramsSpec
<1> QED
  BY <1>1, ProgramInvTypes, PTL

----------------------------------------------------------------------------
(* One CPU.  The columns of the tables a program started from.              *)

ShellsOf(m) == [i \in 0 .. MaxShells - 1 |-> m.shells[i].pid]
ChildrenOf(m) == [i \in 0 .. MaxChildren - 1 |-> m.children[i].child]

\* A scan that has come to i has met no empty slot, not met p, or noted the last p
\* it has met.
Passed(keys, i) == \A j \in DOMAIN keys : j < i => keys[j] # NoPid
Missed(keys, p, i) == Passed(keys, i) /\ \A j \in DOMAIN keys : j < i => keys[j] # p
Noted(keys, p, i, index) ==
  /\ Passed(keys, i)
  /\ index # NotFound => index \in DOMAIN keys /\ index < i /\ keys[index] = p
  /\ \A j \in DOMAIN keys : index < j /\ j < i => keys[j] # p

\* What Tracer says a program finds in the maps m and does to them.
OwnerIn(m, p) ==
  IF Finds(ChildrenOf(m), p) THEN m.children[LastHit(ChildrenOf(m), p)].shell ELSE NoPid
IndicatorIn(m, owner) ==
  IF Finds(ShellsOf(m), owner) THEN m.shells[FirstHit(ShellsOf(m), owner)].indicator
  ELSE NoIndicator
Unlinked(m, p) ==
  IF CanRemove(ChildrenOf(m), p) THEN SwapOut(m.children, ChildrenOf(m), p, NoChild)
  ELSE m.children
ForkOwnerIn(m, p) ==
  IF Finds(ShellsOf(m), p) THEN p
  ELSE IF Finds(ChildrenOf(m), p) THEN m.children[FirstHit(ChildrenOf(m), p)].shell
  ELSE NoPid
WriteOwnersIn(m, p) ==
  IF Finds(ChildrenOf(m), p) THEN {m.children[FirstHit(ChildrenOf(m), p)].shell}
  ELSE IF IsFull(ChildrenOf(m)) THEN Pid \cup {NoPid}
  ELSE {}
WriteSlotsIn(m, owner) ==
  IF Finds(ShellsOf(m), owner) THEN {FirstHit(ShellsOf(m), owner)}
  ELSE IF IsFull(ShellsOf(m)) THEN {MaxShells}
  ELSE {}

Sent(m, e) == IF Len(m.ring) < RingCapacity THEN Append(m.ring, e) ELSE m.ring

----------------------------------------------------------------------------
\* How far a program has come, place by place.

ChildToRemove(c) ==
  LET keys == ChildrenOf(c.maps)
  IN  /\ CanRemove(keys, c.pid)
      /\ c.i = FirstFree(keys) - 1
      /\ c.index = LastHit(keys, c.pid)

ChildCopied(c) ==
  [c.maps.children EXCEPT ![LastHit(ChildrenOf(c.maps), c.pid)] =
                             c.maps.children[FirstFree(ChildrenOf(c.maps)) - 1]]

KillDone(c) ==
  LET m == c.maps
      registers == c.call.sig = "SIGUSR"
  IN  /\ children = IF registers THEN Unlinked(m, c.pid) ELSE m.children
      /\ c.indicator = IF registers THEN IndicatorIn(m, OwnerIn(m, c.pid)) ELSE NoIndicator

KillAt(c) ==
  LET m == c.maps
      keys == ChildrenOf(m)
  IN
  /\ shells = m.shells
  /\ ring = IF c.at = "return" THEN Sent(m, EventOf(c)) ELSE m.ring
  /\ c.at \in KillPlaces => c.call.sig = "SIGUSR" /\ c.indicator = NoIndicator
  /\ c.at = "kill_find" =>
       /\ children = m.children
       /\ Noted(keys, c.pid, c.i, c.index)
       /\ c.owner = IF c.index = NotFound THEN NoPid ELSE m.children[c.index].shell
  /\ c.at = "kill_owner" =>
       children = m.children /\ Passed(keys, c.i) /\ keys[c.i] = c.pid /\ c.index = c.i
  /\ c.at = "kill_copy" =>
       children = m.children /\ ChildToRemove(c) /\ c.owner = OwnerIn(m, c.pid)
  /\ c.at = "kill_zero" =>
       children = ChildCopied(c) /\ ChildToRemove(c) /\ c.owner = OwnerIn(m, c.pid)
  /\ c.at \in {"kill_parent", "kill_indicator"} =>
       children = Unlinked(m, c.pid) /\ c.owner = OwnerIn(m, c.pid)
  /\ c.at = "kill_parent" => Missed(ShellsOf(m), c.owner, c.i)
  /\ c.at = "kill_indicator" =>
       Finds(ShellsOf(m), c.owner) /\ c.i = FirstHit(ShellsOf(m), c.owner)
  /\ c.at \in LastPlaces => KillDone(c)

ForkDone(c) ==
  LET m == c.maps
  IN  /\ ~IsFull(ChildrenOf(m)) /\ c.owner = ForkOwnerIn(m, c.pid) /\ c.owner # NoPid
      /\ children = [m.children EXCEPT ![FirstFree(ChildrenOf(m))] =
                                          [child |-> c.call.child, shell |-> c.owner]]

ForkAt(c) ==
  LET m == c.maps
      keys == ChildrenOf(m)
      p == c.pid
  IN
  /\ shells = m.shells
  /\ c.call.child \notin born
  /\ c.at # "return" => ring = m.ring
  /\ c.at \in ForkPlaces => children = m.children
  /\ c.at = "fork_shells" => Missed(ShellsOf(m), p, c.i)
  /\ c.at \in {"fork_children", "fork_owner"} => ~Finds(ShellsOf(m), p)
  /\ c.at = "fork_children" => Missed(keys, p, c.i)
  /\ c.at = "fork_owner" => Finds(keys, p) /\ c.i = FirstHit(keys, p)
  /\ c.at = "fork_free" => Passed(keys, c.i)
  /\ c.at = "fork_add" => ~IsFull(keys) /\ c.i = FirstFree(keys)
  /\ c.at \in {"fork_free", "fork_add"} =>
       IsFull(keys) \/ (c.owner = ForkOwnerIn(m, p) /\ c.owner # NoPid)
  /\ c.at = "submit" => ForkDone(c)
  /\ c.at = "return" =>
       \/ ForkDone(c) /\ ring = Sent(m, EventOf(c))
       \/ /\ ForkOwnerIn(m, p) = NoPid \/ IsFull(keys)
          /\ children = m.children /\ ring = m.ring

ShellToRemove(c) ==
  LET keys == ShellsOf(c.maps)
  IN  /\ CanRemove(keys, c.pid)
      /\ c.indicator = c.maps.shells[LastHit(keys, c.pid)].indicator

ShellCopied(c) ==
  [c.maps.shells EXCEPT ![LastHit(ShellsOf(c.maps), c.pid)] =
                           c.maps.shells[FirstFree(ShellsOf(c.maps)) - 1]]

ShellRemoved(c) ==
  /\ ShellToRemove(c)
  /\ shells = SwapOut(c.maps.shells, ShellsOf(c.maps), c.pid, NoShell)

NotAShell(c) ==
  c.maps.shells[0].pid # NoPid /\ ~CanRemove(ShellsOf(c.maps), c.pid)

ExitAt(c) ==
  LET m == c.maps
      keys == ShellsOf(m)
      p == c.pid
  IN
  /\ c.pid # Root
  /\ c.at # "return" => ring = m.ring
  /\ c.at \notin {"exit_zero_child", "return"} => children = m.children
  /\ c.at \notin {"exit_zero_shell", "submit", "return"} => shells = m.shells
  /\ c.at = "exit_shells" =>
       /\ Noted(keys, p, c.i, c.index)
       /\ c.index # NotFound => c.indicator = m.shells[c.index].indicator
  /\ c.at = "exit_indicator" =>
       Passed(keys, c.i) /\ keys[c.i] = p /\ c.index = c.i
  /\ c.at \in {"exit_copy_shell", "exit_zero_shell"} =>
       ShellToRemove(c) /\ c.i = FirstFree(keys) - 1 /\ c.index = LastHit(keys, p)
  /\ c.at = "exit_zero_shell" => shells = ShellCopied(c)
  /\ c.at = "submit" => ShellRemoved(c)
  /\ c.at \in {"exit_children", "exit_copy_child", "exit_zero_child"} => NotAShell(c)
  /\ c.at = "exit_children" => Noted(ChildrenOf(m), p, c.i, c.index)
  /\ c.at \in {"exit_copy_child", "exit_zero_child"} => ChildToRemove(c)
  /\ c.at = "exit_zero_child" => children = ChildCopied(c)
  /\ c.at = "return" =>
       \/ m.shells[0].pid = NoPid /\ Maps = m
       \/ ShellRemoved(c) /\ ring = Sent(m, EventOf(c)) /\ children = m.children
       \/ /\ NotAShell(c)
          /\ shells = m.shells /\ children = Unlinked(m, p) /\ ring = m.ring

WriteFound(c) ==
  LET m == c.maps
  IN  /\ c.owner \in WriteOwnersIn(m, c.pid)
      /\ c.hit <=> Finds(ChildrenOf(m), c.pid)

WriteReady(c) ==
  LET m == c.maps
  IN  /\ WriteFound(c)
      /\ c.i \in WriteSlotsIn(m, c.owner)
      /\ c.indicator = IF c.i < MaxShells THEN m.shells[c.i].indicator ELSE NoIndicator

Omitting(c, omit) ==
  c.i < MaxShells /\ shells = [c.maps.shells EXCEPT ![c.i].omit = omit]

WriteAccepted(c) ==
  /\ WriteReady(c)
  /\ \/ Omitting(c, FALSE)
     \/ shells = c.maps.shells /\ (c.i < MaxShells => ~shells[c.i].omit)

WriteAt(c) ==
  LET m == c.maps
      p == c.pid
  IN
  /\ children = m.children
  /\ c.at # "return" => ring = m.ring
  /\ c.at \notin {"write_omit", "submit", "return"} => shells = m.shells
  /\ c.at \in {"write_children", "write_owner", "write_shells", "write_indicator"} =>
       c.indicator = NoIndicator
  /\ c.at = "write_children" => Missed(ChildrenOf(m), p, c.i) /\ ~c.hit
  /\ c.at = "write_owner" =>
       Finds(ChildrenOf(m), p) /\ c.i = FirstHit(ChildrenOf(m), p) /\ c.hit
  /\ c.at \in {"write_shells", "write_indicator"} => WriteFound(c)
  /\ c.at = "write_shells" => Missed(ShellsOf(m), c.owner, c.i)
  /\ c.at = "write_indicator" =>
       Finds(ShellsOf(m), c.owner) /\ c.i = FirstHit(ShellsOf(m), c.owner)
  /\ c.at \in {"write_text", "write_omit"} => WriteReady(c)
  /\ c.at = "write_omit" => shells = m.shells \/ Omitting(c, FALSE)
  /\ c.at = "submit" => WriteAccepted(c)
  /\ c.at = "return" =>
       \/ shells = m.shells /\ ring = m.ring
       \/ WriteReady(c) /\ Omitting(c, TRUE) /\ ring = m.ring
       \/ WriteAccepted(c) /\ ring = Sent(m, EventOf(c))

ProgressOK(c) ==
  /\ c.call.name = "kill" => KillAt(c)
  /\ c.call.name = "fork" => ForkAt(c)
  /\ c.call.name = "exit" => ExitAt(c)
  /\ c.call.name = "write" => WriteAt(c)

\* A traced process belongs to a shell: the zero pid of a full table that is fallen
\* through never gets into an entry.
Owned(table) ==
  \A i \in 0 .. MaxChildren - 1 : table[i].child # NoPid => table[i].shell # NoPid

OneCpuInv(k) ==
  /\ ProgramInv
  /\ loaded = TRUE
  /\ \A t \in Pid : tgid[t] \in {t, NoPid}
  /\ Owned(children)
  /\ ~At(k, "idle") =>
       Running(cpu[k].pid) /\ Owned(cpu[k].maps.children) /\ ProgressOK(cpu[k])

----------------------------------------------------------------------------
(* What a scan knows: of the column of pids `keys`, at slot i.             *)

LEMMA ScanStarts ==
  ASSUME NEW n \in Nat, NEW keys, DOMAIN keys = 0 .. n - 1, NEW p
  PROVE  Passed(keys, 0) /\ Missed(keys, p, 0) /\ Noted(keys, p, 0, NotFound)
  BY DEF Passed, Missed, Noted

LEMMA ScanGoesOn ==
  ASSUME NEW n \in Nat, NEW keys, DOMAIN keys = 0 .. n - 1, NEW p,
         NEW i \in 0 .. n - 1, keys[i] # NoPid, Passed(keys, i)
  PROVE  /\ Passed(keys, i + 1)
         /\ Missed(keys, p, i) /\ keys[i] # p => Missed(keys, p, i + 1)
         /\ keys[i] = p => Noted(keys, p, i + 1, i)
<1>1. \A j \in DOMAIN keys : j < i + 1 <=> j < i \/ j = i
  OBVIOUS
<1> QED
  BY <1>1 DEF Passed, Missed, Noted, NotFound

LEMMA NoteStays ==
  ASSUME NEW n \in Nat, NEW keys, DOMAIN keys = 0 .. n - 1, NEW p,
         NEW i \in 0 .. n - 1, keys[i] # NoPid, keys[i] # p,
         NEW index \in Int, Noted(keys, p, i, index)
  PROVE  Noted(keys, p, i + 1, index)
<1>1. \A j \in DOMAIN keys : j < i + 1 <=> j < i \/ j = i
  OBVIOUS
<1> QED
  BY <1>1 DEF Passed, Noted, NotFound

LEMMA SlotsPassed ==
  ASSUME NEW n \in Nat, NEW keys, DOMAIN keys = 0 .. n - 1,
         NEW i \in 0 .. n, Passed(keys, i)
  PROVE  /\ \A j \in 0 .. n - 1 : j < i => j \in Scanned(keys)
         /\ i = n => IsFull(keys)
         /\ i < n /\ keys[i] = NoPid =>
              ~IsFull(keys) /\ FirstFree(keys) = i /\ Scanned(keys) = 0 .. i - 1
<1>1. \A f \in FreeSlots(keys) : f \in 0 .. n - 1 /\ i <= f
  BY DEF Passed, FreeSlots
<1>2. ASSUME NEW j \in 0 .. n - 1, j < i PROVE j \in Scanned(keys)
  BY <1>1, <1>2 DEF Scanned
<1>3. ASSUME i = n PROVE IsFull(keys)
  BY <1>1, <1>3 DEF IsFull
<1>4. ASSUME i < n, keys[i] = NoPid
      PROVE  ~IsFull(keys) /\ FirstFree(keys) = i /\ Scanned(keys) = 0 .. i - 1
  <2>1. i \in FreeSlots(keys) /\ FreeSlots(keys) \in SUBSET Nat
    BY <1>4 DEF FreeSlots
  <2>2. ~IsFull(keys)
    BY <2>1 DEF IsFull
  <2>3. FirstFree(keys) \in FreeSlots(keys) /\ FirstFree(keys) <= i
    BY <2>1, MinOfSlots DEF FirstFree
  <2>4. FirstFree(keys) = i
    BY <1>1, <2>3
  <2> QED
    BY <2>2, <2>4, FirstFreeSlot
<1> QED
  BY <1>2, <1>3, <1>4

\* The scan has met p for the first time.
LEMMA ScanHits ==
  ASSUME NEW n \in Nat, NEW keys, DOMAIN keys = 0 .. n - 1, NEW p, p # NoPid,
         NEW i \in 0 .. n - 1, keys[i] = p, Missed(keys, p, i)
  PROVE  Finds(keys, p) /\ FirstHit(keys, p) = i
<1>1. \A f \in FreeSlots(keys) : f \in 0 .. n - 1 /\ i < f
  <2>1. \A f \in FreeSlots(keys) : f \in 0 .. n - 1 /\ ~(f < i) /\ f # i
    BY DEF Missed, Passed, FreeSlots
  <2> QED
    BY <2>1
<1>2. i \in Hits(keys, p) /\ Hits(keys, p) \in SUBSET Nat
  BY <1>1 DEF Hits, Scanned
<1>3. FirstHit(keys, p) \in Hits(keys, p) /\ FirstHit(keys, p) <= i
  BY <1>2, MinOfSlots DEF FirstHit
<1>4. FirstHit(keys, p) \in 0 .. n - 1 /\ keys[FirstHit(keys, p)] = p
  BY <1>3 DEF Hits, Scanned
<1>5. ~(FirstHit(keys, p) < i)
  BY <1>4 DEF Missed
<1> QED
  BY <1>2, <1>3, <1>4, <1>5 DEF Finds

\* The scan has come to an empty slot or the end of the table.
ScanIsOver(keys, n, i) == Passed(keys, i) /\ (i = n \/ (i < n /\ keys[i] = NoPid))

LEMMA ScanSaw ==
  ASSUME NEW n \in Nat, NEW keys, DOMAIN keys = 0 .. n - 1,
         NEW i \in 0 .. n, ScanIsOver(keys, n, i)
  PROVE  /\ Scanned(keys) = {j \in 0 .. n - 1 : j < i}
         /\ i = n <=> IsFull(keys)
         /\ i < n => FirstFree(keys) = i
<1>1. CASE i = n
  <2>1. IsFull(keys) /\ \A j \in 0 .. n - 1 : j < i => j \in Scanned(keys)
    BY <1>1, SlotsPassed DEF ScanIsOver
  <2>2. Scanned(keys) \subseteq 0 .. n - 1
    BY DEF Scanned
  <2> QED
    BY <1>1, <2>1, <2>2
<1>2. CASE i < n /\ keys[i] = NoPid
  <2>1. ~IsFull(keys) /\ FirstFree(keys) = i /\ Scanned(keys) = 0 .. i - 1
    BY <1>2, SlotsPassed DEF ScanIsOver
  <2> QED
    BY <1>2, <2>1
<1> QED
  BY <1>1, <1>2 DEF ScanIsOver

LEMMA ScanMisses ==
  ASSUME NEW n \in Nat, NEW keys, DOMAIN keys = 0 .. n - 1, NEW p,
         NEW i \in 0 .. n, ScanIsOver(keys, n, i), Missed(keys, p, i)
  PROVE  ~Finds(keys, p)
  BY ScanSaw DEF Finds, Hits, Missed

\* The scan that notes hits on its way: what it has noted is the last hit.
LEMMA ScanNoted ==
  ASSUME NEW n \in Nat, NEW keys, DOMAIN keys = 0 .. n - 1, NEW p,
         NEW i \in 0 .. n, ScanIsOver(keys, n, i),
         NEW index \in Int, Noted(keys, p, i, index)
  PROVE  /\ Finds(keys, p) <=> index # NotFound
         /\ index # NotFound => LastHit(keys, p) = index /\ index \in 0 .. n - 1
         /\ CanRemove(keys, p) <=> index # NotFound /\ i < n
<1>1. Hits(keys, p) = {j \in 0 .. n - 1 : j < i /\ keys[j] = p}
  BY ScanSaw DEF Hits
<1>2. CASE index = NotFound
  <2>1. \A j \in 0 .. n - 1 : j < i => keys[j] # p
    BY <1>2 DEF Noted, NotFound
  <2> QED
    BY <1>1, <1>2, <2>1 DEF Finds, CanRemove
<1>3. CASE index # NotFound
  <2>1. index \in Hits(keys, p) /\ index \in 0 .. n - 1
    BY <1>1, <1>3 DEF Noted
  <2>2. Hits(keys, p) \in SUBSET (0 .. n - 1) /\ Finds(keys, p)
    BY <1>1, <2>1 DEF Finds
  <2>3. LastHit(keys, p) \in Hits(keys, p) /\ index <= LastHit(keys, p)
    BY <2>1, <2>2, MaxOfSlots DEF LastHit
  <2>4. LastHit(keys, p) \in 0 .. n - 1 /\ LastHit(keys, p) < i /\ keys[LastHit(keys, p)] = p
    BY <1>1, <2>3
  <2>5. LastHit(keys, p) = index
    BY <2>1, <2>3, <2>4 DEF Noted
  <2>6. i < n <=> ~IsFull(keys)
    BY ScanSaw
  <2> QED
    BY <1>3, <2>1, <2>2, <2>5, <2>6 DEF CanRemove
<1> QED
  BY <1>2, <1>3

\* The columns of the maps a program started from.
LEMMA ColumnsOf ==
  ASSUME NEW m \in MapsRecord
  PROVE  /\ DOMAIN ShellsOf(m) = 0 .. MaxShells - 1
         /\ DOMAIN ChildrenOf(m) = 0 .. MaxChildren - 1
         /\ \A i \in 0 .. MaxShells - 1 :
              ShellsOf(m)[i] = m.shells[i].pid /\ m.shells[i] \in Shell
         /\ \A i \in 0 .. MaxChildren - 1 :
              ChildrenOf(m)[i] = m.children[i].child /\ m.children[i] \in Child
         /\ DOMAIN m.shells = 0 .. MaxShells - 1 /\ DOMAIN m.children = 0 .. MaxChildren - 1
  BY DEF MapsRecord, ShellsOf, ChildrenOf

----------------------------------------------------------------------------
(* One CPU: every step of a program keeps what is known of its progress.   *)

LEMMA OnTheCpu ==
  ASSUME NEW k \in Cpu, OneCpuInv(k), ~At(k, "idle")
  PROVE  /\ ProgramInv /\ ProgressOK(cpu[k])
         /\ cpu[k].maps \in MapsRecord /\ cpu[k].call \in Call
         /\ cpu[k].pid \in Pid /\ cpu[k].pid # NoPid
         /\ cpu[k].i \in Nat /\ cpu[k].index \in Int
         /\ cpu[k].owner \in Pid \cup {NoPid}
         /\ MaxChildren \in Nat \ {0} /\ MaxShells \in Nat \ {0}
         /\ Fits(cpu[k].at, cpu[k].i, cpu[k].index) /\ Serves(cpu[k].at, cpu[k].call.name)
  BY AtPlace, RunningProgram, PidAssumption DEF OneCpuInv, ProgramOK, ProgramRecord, NotFound

LEMMA KillStepProgress ==
  ASSUME NEW k \in Cpu, OneCpuInv(k), KillStep(k)
  PROVE  Moves(k) /\ KillAt(cpu[k])'
<1>1. ~At(k, "idle") /\ cpu[k].at \in KillPlaces
  BY DEF KillStep, At, KillPlaces
<1>2. /\ ProgramInv /\ cpu[k].maps \in MapsRecord /\ cpu[k].pid \in Pid /\ cpu[k].pid # NoPid
      /\ cpu[k].i \in Nat /\ cpu[k].index \in Int
      /\ cpu[k].owner \in Pid \cup {NoPid}
      /\ MaxChildren \in Nat /\ MaxShells \in Nat /\ 0 < MaxChildren /\ 0 < MaxShells
      /\ Fits(cpu[k].at, cpu[k].i, cpu[k].index)
      /\ cpu[k].call.name = "kill" /\ KillAt(cpu[k])
  BY <1>1, OnTheCpu DEF Serves, ProgressOK
<1> DEFINE m == cpu[k].maps
           p == cpu[k].pid
           i == cpu[k].i
           index == cpu[k].index
           owner == cpu[k].owner
           shellKeys == ShellsOf(cpu[k].maps)
           childKeys == ChildrenOf(cpu[k].maps)
<1>3. /\ DOMAIN childKeys = 0 .. MaxChildren - 1 /\ DOMAIN shellKeys = 0 .. MaxShells - 1
      /\ \A j \in 0 .. MaxShells - 1 : shellKeys[j] = m.shells[j].pid
      /\ \A j \in 0 .. MaxChildren - 1 : childKeys[j] = m.children[j].child
      /\ DOMAIN m.shells = 0 .. MaxShells - 1 /\ DOMAIN m.children = 0 .. MaxChildren - 1
  BY <1>2, ColumnsOf
<1>4. ASSUME At(k, "kill_find"),
             ScanChildrenFor(k, cpu[k].pid, Note(k, "kill_owner"),
               IF cpu[k].index = NotFound THEN Loop(k, "kill_parent")
               ELSE StepBack(k, "kill_copy"),
               Loop(k, "kill_parent"))
      PROVE  Moves(k) /\ KillAt(cpu[k])'
  <2>1. cpu[k].at = "kill_find" /\ shells' = shells /\ children' = children /\ ring' = ring /\ born' = born
    BY <1>4 DEF At, vars, procVars, mapVars, ScanChildrenFor
  <2>2. /\ i \in 0 .. MaxChildren /\ children = m.children
        /\ Passed(childKeys, i) /\ Noted(childKeys, p, i, index)
        /\ owner = IF index = NotFound THEN NoPid ELSE m.children[index].shell
        /\ shells = m.shells /\ ring = m.ring
        /\ cpu[k].call.sig = "SIGUSR" /\ cpu[k].indicator = NoIndicator
    BY <1>2, <2>1 DEF Fits, ChildScans, ChildReads, ShellScans, ShellReads, KillAt,
                      KillPlaces, LastPlaces, Noted
  <2>3. \/ i = MaxChildren /\ Loop(k, "kill_parent")
        \/ i < MaxChildren /\ childKeys[i] = NoPid /\ index = NotFound /\
           Loop(k, "kill_parent")
        \/ i < MaxChildren /\ childKeys[i] = NoPid /\ index # NotFound /\
           StepBack(k, "kill_copy")
        \/ i < MaxChildren /\ childKeys[i] = p /\ Note(k, "kill_owner")
        \/ i < MaxChildren /\ childKeys[i] # NoPid /\ childKeys[i] # p /\
           Advance(k, "kill_find")
    BY <1>2, <1>3, <1>4, <2>1, <2>2 DEF ScanChildrenFor, ChildAt
  <2>4. CASE i = MaxChildren /\ Loop(k, "kill_parent")
    <3>1. /\ Moves(k) /\ cpu'[k].at = "kill_parent" /\ cpu'[k].i = 0 /\ cpu'[k].index = NotFound
         /\ cpu'[k].owner = cpu[k].owner /\ cpu'[k].indicator = cpu[k].indicator /\ cpu'[k].hit = cpu[k].hit
      BY <1>1, <1>2, <2>4, Looped, AllPlaces
    <3>2. /\ ScanIsOver(childKeys, MaxChildren, i) /\ i \in 0 .. MaxChildren /\ MaxChildren \in Nat /\ index \in Int
       /\ DOMAIN childKeys = 0 .. MaxChildren - 1 /\ Noted(childKeys, p, i, index)
      BY <1>2, <1>3, <2>2, <2>4 DEF ScanIsOver
    <3>3. /\ Finds(childKeys, p) <=> index # NotFound
          /\ index # NotFound => LastHit(childKeys, p) = index
          /\ CanRemove(childKeys, p) <=> index # NotFound /\ i < MaxChildren
      BY <3>2, ScanNoted
    <3>4. children = Unlinked(m, p) /\ owner = OwnerIn(m, p)
      BY <2>2, <2>4, <3>1, <3>2, <3>3 DEF Unlinked, OwnerIn
    <3>5. Missed(shellKeys, owner, 0)
      BY <1>2, <1>3, ScanStarts
    <3> QED
      BY <2>1, <2>2, <2>4, <3>1, <3>2, <3>3, <3>4, <3>5
         DEF KillAt, KillPlaces, LastPlaces, Moves
  <2>5. CASE i < MaxChildren /\ childKeys[i] = NoPid /\ index = NotFound /\
             Loop(k, "kill_parent")
    <3>1. /\ Moves(k) /\ cpu'[k].at = "kill_parent" /\ cpu'[k].i = 0 /\ cpu'[k].index = NotFound
         /\ cpu'[k].owner = cpu[k].owner /\ cpu'[k].indicator = cpu[k].indicator /\ cpu'[k].hit = cpu[k].hit
      BY <1>1, <1>2, <2>5, Looped, AllPlaces
    <3>2. /\ ScanIsOver(childKeys, MaxChildren, i) /\ i \in 0 .. MaxChildren /\ MaxChildren \in Nat /\ index \in Int
       /\ DOMAIN childKeys = 0 .. MaxChildren - 1 /\ Noted(childKeys, p, i, index)
      BY <1>2, <1>3, <2>2, <2>5 DEF ScanIsOver
    <3>3. /\ Finds(childKeys, p) <=> index # NotFound
          /\ index # NotFound => LastHit(childKeys, p) = index
          /\ CanRemove(childKeys, p) <=> index # NotFound /\ i < MaxChildren
      BY <3>2, ScanNoted
    <3>4. children = Unlinked(m, p) /\ owner = OwnerIn(m, p)
      BY <2>2, <2>5, <3>1, <3>2, <3>3 DEF Unlinked, OwnerIn
    <3>5. Missed(shellKeys, owner, 0)
      BY <1>2, <1>3, ScanStarts
    <3> QED
      BY <2>1, <2>2, <2>5, <3>1, <3>2, <3>3, <3>4, <3>5
         DEF KillAt, KillPlaces, LastPlaces, Moves
  <2>6. CASE i < MaxChildren /\ childKeys[i] = NoPid /\ index # NotFound /\
             StepBack(k, "kill_copy")
    <3>1. i # 0
      BY <1>2, <1>3, <2>2, <2>6 DEF Noted
    <3>2. /\ Moves(k) /\ cpu'[k].at = "kill_copy" /\ cpu'[k].i = cpu[k].i - 1 /\ cpu'[k].index = cpu[k].index
         /\ cpu'[k].owner = cpu[k].owner /\ cpu'[k].indicator = cpu[k].indicator /\ cpu'[k].hit = cpu[k].hit
      BY <1>1, <1>2, <2>6, <3>1, SteppedBack, AllPlaces
    <3>3. /\ ScanIsOver(childKeys, MaxChildren, i) /\ i \in 0 .. MaxChildren /\ MaxChildren \in Nat /\ index \in Int
       /\ DOMAIN childKeys = 0 .. MaxChildren - 1 /\ Noted(childKeys, p, i, index)
      BY <1>2, <1>3, <2>2, <2>6 DEF ScanIsOver
    <3>4. /\ Finds(childKeys, p) <=> index # NotFound
          /\ index # NotFound => LastHit(childKeys, p) = index
          /\ CanRemove(childKeys, p) <=> index # NotFound /\ i < MaxChildren
      BY <3>3, ScanNoted
    <3>5. (i = MaxChildren <=> IsFull(childKeys)) /\ (i < MaxChildren => FirstFree(childKeys) = i)
      BY <1>2, <1>3, <3>2, <3>1, <3>3, <3>4, ScanSaw
    <3>6. owner = OwnerIn(m, p)
      BY <2>2, <2>6, <3>2, <3>1, <3>3, <3>4, <3>5 DEF OwnerIn
    <3> QED
      BY <2>1, <2>2, <2>6, <3>2, <3>1, <3>3, <3>4, <3>5, <3>6
         DEF KillAt, KillPlaces, LastPlaces, Moves, ChildToRemove
  <2>7. CASE i < MaxChildren /\ childKeys[i] = p /\ Note(k, "kill_owner")
    <3>1. /\ Moves(k) /\ cpu'[k].at = "kill_owner" /\ cpu'[k].i = cpu[k].i /\ cpu'[k].index = cpu[k].i
         /\ cpu'[k].owner = cpu[k].owner /\ cpu'[k].indicator = cpu[k].indicator /\ cpu'[k].hit = TRUE
      BY <1>1, <1>2, <2>7, Marked, AllPlaces
    <3> QED
      BY <2>1, <2>2, <2>7, <3>1
         DEF KillAt, KillPlaces, LastPlaces, Moves
  <2>8. CASE i < MaxChildren /\ childKeys[i] # NoPid /\ childKeys[i] # p /\
             Advance(k, "kill_find")
    <3>1. /\ Moves(k) /\ cpu'[k].at = "kill_find" /\ cpu'[k].i = cpu[k].i + 1 /\ cpu'[k].index = cpu[k].index
         /\ cpu'[k].owner = cpu[k].owner /\ cpu'[k].indicator = cpu[k].indicator /\ cpu'[k].hit = cpu[k].hit
      BY <1>1, <1>2, <2>8, Advanced, AllPlaces
    <3>2. i \in 0 .. MaxChildren - 1
      BY <1>2, <2>2, <2>8
    <3>3. i + 1 \in Nat /\ Noted(childKeys, p, i + 1, index)
      BY <1>2, <1>3, <2>2, <2>8, <3>1, <3>2, NoteStays
    <3> QED
      BY <2>1, <2>2, <2>8, <3>1, <3>2, <3>3
         DEF KillAt, KillPlaces, LastPlaces, Moves
  <2> QED
    BY <2>3, <2>4, <2>5, <2>6, <2>7, <2>8
<1>5. ASSUME At(k, "kill_owner"), UNCHANGED vars,
             Update(k, [cpu[k] EXCEPT !.at = "kill_find", !.owner = ChildAt(k).shell, !.i = @ + 1])
      PROVE  Moves(k) /\ KillAt(cpu[k])'
  <2>1. cpu[k].at = "kill_owner" /\ shells' = shells /\ children' = children /\ ring' = ring /\ born' = born
    BY <1>5 DEF At, vars, procVars, mapVars
  <2>2. /\ i \in 0 .. MaxChildren - 1 /\ children = m.children
        /\ Passed(childKeys, i) /\ childKeys[i] = p /\ index = i
        /\ shells = m.shells /\ ring = m.ring
        /\ cpu[k].call.sig = "SIGUSR" /\ cpu[k].indicator = NoIndicator
    BY <1>2, <2>1 DEF Fits, ChildScans, ChildReads, ShellScans, ShellReads, KillAt,
                      KillPlaces, LastPlaces, InChildren
  <2>3. TakesOwner(k, m.children[i].shell) /\ m.children[i].shell \in Pid \cup {NoPid}
    BY <1>2, <1>5, <2>2, EntryTypes DEF TakesOwner, ChildAt, InChildren
  <2>4. /\ Moves(k) /\ cpu'[k].at = "kill_find" /\ cpu'[k].i = cpu[k].i + 1 /\ cpu'[k].index = cpu[k].index
       /\ cpu'[k].owner = m.children[i].shell /\ cpu'[k].indicator = cpu[k].indicator /\ cpu'[k].hit = cpu[k].hit
    BY <1>1, <1>2, <1>5, <2>3, OwnerTaken, AllPlaces
  <2>5. Noted(childKeys, p, i + 1, i) /\ i # NotFound
    BY <1>2, <1>3, <2>2, ScanGoesOn DEF NotFound
  <2> QED
    BY <2>1, <2>2, <1>5, <2>4, <2>3, <2>5
       DEF KillAt, KillPlaces, LastPlaces, Moves
<1>6. ASSUME At(k, "kill_copy"), CopyChild(k, "kill_zero")
      PROVE  Moves(k) /\ KillAt(cpu[k])'
  <2>1. cpu[k].at = "kill_copy" /\ shells' = shells /\ ring' = ring /\ born' = born
    BY <1>6 DEF At, vars, procVars, mapVars, CopyChild
  <2>2. /\ children = m.children /\ ChildToRemove(cpu[k]) /\ owner = OwnerIn(m, p)
        /\ shells = m.shells /\ ring = m.ring
        /\ cpu[k].call.sig = "SIGUSR" /\ cpu[k].indicator = NoIndicator
    BY <1>2, <2>1 DEF Fits, ChildScans, ChildReads, ShellScans, ShellReads, KillAt,
                      KillPlaces, LastPlaces
  <2>3. /\ Moves(k) /\ cpu'[k].at = "kill_zero" /\ cpu'[k].i = cpu[k].i /\ cpu'[k].index = cpu[k].index
       /\ cpu'[k].owner = cpu[k].owner /\ cpu'[k].indicator = cpu[k].indicator /\ cpu'[k].hit = cpu[k].hit
    BY <1>1, <1>2, <1>6, Jumped, AllPlaces DEF CopyChild
  <2>4. children' = ChildCopied(cpu[k])
    BY <2>2, <1>6 DEF CopyChild, ChildAt, ChildToRemove, ChildCopied
  <2> QED
    BY <2>1, <2>2, <1>6, <2>3, <2>4
       DEF KillAt, KillPlaces, LastPlaces, Moves, ChildToRemove, ChildCopied
<1>7. ASSUME At(k, "kill_zero"), ZeroChild(k, "kill_parent")
      PROVE  Moves(k) /\ KillAt(cpu[k])'
  <2>1. cpu[k].at = "kill_zero" /\ shells' = shells /\ ring' = ring /\ born' = born
    BY <1>7 DEF At, vars, procVars, mapVars, ZeroChild
  <2>2. /\ children = ChildCopied(cpu[k]) /\ ChildToRemove(cpu[k]) /\ owner = OwnerIn(m, p)
        /\ shells = m.shells /\ ring = m.ring
        /\ cpu[k].call.sig = "SIGUSR" /\ cpu[k].indicator = NoIndicator
    BY <1>2, <2>1 DEF Fits, ChildScans, ChildReads, ShellScans, ShellReads, KillAt,
                      KillPlaces, LastPlaces
  <2>3. /\ Moves(k) /\ cpu'[k].at = "kill_parent" /\ cpu'[k].i = 0 /\ cpu'[k].index = NotFound
       /\ cpu'[k].owner = cpu[k].owner /\ cpu'[k].indicator = cpu[k].indicator /\ cpu'[k].hit = cpu[k].hit
    BY <1>1, <1>2, <1>7, Looped, AllPlaces DEF ZeroChild
  <2>4. children' = Unlinked(m, p)
    BY <2>2, <1>7 DEF ZeroChild, ChildToRemove, ChildCopied, Unlinked, SwapOut
  <2>5. Missed(shellKeys, owner, 0)
    BY <1>2, <1>3, ScanStarts
  <2> QED
    BY <2>1, <2>2, <1>7, <2>3, <2>4, <2>5
       DEF KillAt, KillPlaces, LastPlaces, Moves
<1>8. ASSUME At(k, "kill_parent"),
             ScanShellsFor(k, cpu[k].owner, Jump(k, "kill_indicator"),
               Jump(k, "submit"), Jump(k, "submit"))
      PROVE  Moves(k) /\ KillAt(cpu[k])'
  <2>1. cpu[k].at = "kill_parent" /\ shells' = shells /\ children' = children /\ ring' = ring /\ born' = born
    BY <1>8 DEF At, vars, procVars, mapVars, ScanShellsFor
  <2>2. /\ i \in 0 .. MaxShells /\ children = Unlinked(m, p) /\ owner = OwnerIn(m, p)
        /\ Passed(shellKeys, i) /\ Missed(shellKeys, owner, i)
        /\ shells = m.shells /\ ring = m.ring
        /\ cpu[k].call.sig = "SIGUSR" /\ cpu[k].indicator = NoIndicator
    BY <1>2, <2>1 DEF Fits, ChildScans, ChildReads, ShellScans, ShellReads, KillAt,
                      KillPlaces, LastPlaces, Missed
  <2>3. \/ (i = MaxShells \/ (i < MaxShells /\ shellKeys[i] = NoPid)) /\ Jump(k, "submit")
        \/ i < MaxShells /\ shellKeys[i] = owner /\ owner # NoPid /\
           Jump(k, "kill_indicator")
        \/ i < MaxShells /\ shellKeys[i] # NoPid /\ shellKeys[i] # owner /\
           Advance(k, "kill_parent")
    BY <1>2, <1>3, <1>8, <2>1, <2>2 DEF ScanShellsFor, ShellAt
  <2>4. CASE (i = MaxShells \/ (i < MaxShells /\ shellKeys[i] = NoPid)) /\
             Jump(k, "submit")
    <3>1. /\ Moves(k) /\ cpu'[k].at = "submit" /\ cpu'[k].i = cpu[k].i /\ cpu'[k].index = cpu[k].index
         /\ cpu'[k].owner = cpu[k].owner /\ cpu'[k].indicator = cpu[k].indicator /\ cpu'[k].hit = cpu[k].hit
      BY <1>1, <1>2, <2>4, Jumped, AllPlaces
    <3>2. ScanIsOver(shellKeys, MaxShells, i) /\ i \in 0 .. MaxShells
      BY <2>2, <2>4 DEF ScanIsOver, Missed, Noted
    <3>3. ~Finds(shellKeys, owner)
      BY <1>2, <1>3, <2>2, <3>1, <3>2, ScanMisses
    <3> QED
      BY <2>1, <2>2, <2>4, <3>1, <3>2, <3>3
         DEF KillAt, KillPlaces, LastPlaces, Moves, KillDone, IndicatorIn
  <2>5. CASE i < MaxShells /\ shellKeys[i] = owner /\ owner # NoPid /\
             Jump(k, "kill_indicator")
    <3>1. /\ Moves(k) /\ cpu'[k].at = "kill_indicator" /\ cpu'[k].i = cpu[k].i /\ cpu'[k].index = cpu[k].index
         /\ cpu'[k].owner = cpu[k].owner /\ cpu'[k].indicator = cpu[k].indicator /\ cpu'[k].hit = cpu[k].hit
      BY <1>1, <1>2, <2>5, Jumped, AllPlaces
    <3>2. i \in 0 .. MaxShells - 1 /\ Finds(shellKeys, owner) /\ FirstHit(shellKeys, owner) = i
      BY <1>2, <1>3, <2>2, <2>5, ScanHits
    <3> QED
      BY <2>1, <2>2, <2>5, <3>1, <3>2
         DEF KillAt, KillPlaces, LastPlaces, Moves
  <2>6. CASE i < MaxShells /\ shellKeys[i] # NoPid /\ shellKeys[i] # owner /\
             Advance(k, "kill_parent")
    <3>1. /\ Moves(k) /\ cpu'[k].at = "kill_parent" /\ cpu'[k].i = cpu[k].i + 1 /\ cpu'[k].index = cpu[k].index
         /\ cpu'[k].owner = cpu[k].owner /\ cpu'[k].indicator = cpu[k].indicator /\ cpu'[k].hit = cpu[k].hit
      BY <1>1, <1>2, <2>6, Advanced, AllPlaces
    <3>2. i \in 0 .. MaxShells - 1
      BY <1>2, <2>2, <2>6
    <3>3. i + 1 \in Nat /\ Missed(shellKeys, owner, i + 1)
      BY <1>2, <1>3, <2>2, <2>6, <3>1, <3>2, ScanGoesOn
    <3> QED
      BY <2>1, <2>2, <2>6, <3>1, <3>2, <3>3
         DEF KillAt, KillPlaces, LastPlaces, Moves
  <2> QED
    BY <2>3, <2>4, <2>5, <2>6
<1>9. ASSUME At(k, "kill_indicator"), ReadIndicator(k, "submit")
      PROVE  Moves(k) /\ KillAt(cpu[k])'
  <2>1. cpu[k].at = "kill_indicator" /\ shells' = shells /\ children' = children /\ ring' = ring /\ born' = born
    BY <1>9 DEF At, vars, procVars, mapVars, ReadIndicator
  <2>2. /\ i \in 0 .. MaxShells - 1 /\ children = Unlinked(m, p) /\ owner = OwnerIn(m, p)
        /\ Finds(shellKeys, owner) /\ i = FirstHit(shellKeys, owner)
        /\ shells = m.shells /\ ring = m.ring
        /\ cpu[k].call.sig = "SIGUSR" /\ cpu[k].indicator = NoIndicator
    BY <1>2, <2>1 DEF Fits, ChildScans, ChildReads, ShellScans, ShellReads, KillAt,
                      KillPlaces, LastPlaces, InShells
  <2>3. FindsIndicator(k, m.shells[i].indicator, "submit") /\ m.shells[i].indicator \in Indicator \cup {NoIndicator}
    BY <1>2, <1>9, <2>2, EntryTypes DEF FindsIndicator, ReadIndicator, ShellAt, InShells
  <2>4. /\ Moves(k) /\ cpu'[k].at = "submit" /\ cpu'[k].i = cpu[k].i /\ cpu'[k].index = cpu[k].index
       /\ cpu'[k].owner = cpu[k].owner /\ cpu'[k].indicator = m.shells[i].indicator /\ cpu'[k].hit = cpu[k].hit
    BY <1>1, <1>2, <1>9, <2>3, IndicatorRead, AllPlaces
  <2> QED
    BY <2>1, <2>2, <1>9, <2>4, <2>3
       DEF KillAt, KillPlaces, LastPlaces, Moves, KillDone, IndicatorIn
<1> QED
  BY <1>4, <1>5, <1>6, <1>7, <1>8, <1>9 DEF KillStep

LEMMA ForkStepProgress ==
  ASSUME NEW k \in Cpu, OneCpuInv(k), ForkStep(k)
  PROVE  Moves(k) /\ ForkAt(cpu[k])'
<1>1. ~At(k, "idle") /\ cpu[k].at \in ForkPlaces
  BY DEF ForkStep, At, ForkPlaces
<1>2. /\ ProgramInv /\ cpu[k].maps \in MapsRecord /\ cpu[k].pid \in Pid /\ cpu[k].pid # NoPid
      /\ cpu[k].i \in Nat /\ cpu[k].index \in Int
      /\ cpu[k].owner \in Pid \cup {NoPid}
      /\ MaxChildren \in Nat /\ MaxShells \in Nat /\ 0 < MaxChildren /\ 0 < MaxShells
      /\ Fits(cpu[k].at, cpu[k].i, cpu[k].index)
      /\ cpu[k].call.name = "fork" /\ ForkAt(cpu[k])
  BY <1>1, OnTheCpu DEF Serves, ProgressOK
<1> DEFINE m == cpu[k].maps
           p == cpu[k].pid
           i == cpu[k].i
           index == cpu[k].index
           owner == cpu[k].owner
           shellKeys == ShellsOf(cpu[k].maps)
           childKeys == ChildrenOf(cpu[k].maps)
<1>3. /\ DOMAIN childKeys = 0 .. MaxChildren - 1 /\ DOMAIN shellKeys = 0 .. MaxShells - 1
      /\ \A j \in 0 .. MaxShells - 1 : shellKeys[j] = m.shells[j].pid
      /\ \A j \in 0 .. MaxChildren - 1 : childKeys[j] = m.children[j].child
      /\ DOMAIN m.shells = 0 .. MaxShells - 1 /\ DOMAIN m.children = 0 .. MaxChildren - 1
  BY <1>2, ColumnsOf
<1>4. ASSUME At(k, "fork_shells"),
             ScanShellsFor(k, cpu[k].pid, SearchFor(k, cpu[k].pid, "fork_free"),
               Loop(k, "fork_children"), Loop(k, "fork_children"))
      PROVE  Moves(k) /\ ForkAt(cpu[k])'
  <2>1. cpu[k].at = "fork_shells" /\ shells' = shells /\ children' = children /\ ring' = ring /\ born' = born
    BY <1>4 DEF At, vars, procVars, mapVars, ScanShellsFor
  <2>2. /\ i \in 0 .. MaxShells /\ Passed(shellKeys, i) /\ Missed(shellKeys, p, i)
        /\ shells = m.shells /\ children = m.children /\ ring = m.ring
        /\ cpu[k].call.child \notin born
    BY <1>2, <2>1 DEF Fits, ChildScans, ChildReads, ShellScans, ShellReads, ForkAt,
                      ForkPlaces, LastPlaces, Missed
  <2>3. \/ (i = MaxShells \/ (i < MaxShells /\ shellKeys[i] = NoPid)) /\
           Loop(k, "fork_children")
        \/ i < MaxShells /\ shellKeys[i] = p /\ SearchFor(k, p, "fork_free")
        \/ i < MaxShells /\ shellKeys[i] # NoPid /\ shellKeys[i] # p /\
           Advance(k, "fork_shells")
    BY <1>2, <1>3, <1>4, <2>1, <2>2 DEF ScanShellsFor, ShellAt
  <2>4. CASE (i = MaxShells \/ (i < MaxShells /\ shellKeys[i] = NoPid)) /\
             Loop(k, "fork_children")
    <3>1. /\ Moves(k) /\ cpu'[k].at = "fork_children" /\ cpu'[k].i = 0 /\ cpu'[k].index = NotFound
         /\ cpu'[k].owner = cpu[k].owner /\ cpu'[k].indicator = cpu[k].indicator /\ cpu'[k].hit = cpu[k].hit
      BY <1>1, <1>2, <2>4, Looped, AllPlaces
    <3>2. ScanIsOver(shellKeys, MaxShells, i) /\ i \in 0 .. MaxShells
      BY <2>2, <2>4 DEF ScanIsOver, Missed, Noted
    <3>3. ~Finds(shellKeys, p)
      BY <1>2, <1>3, <2>2, <3>1, <3>2, ScanMisses
    <3>4. Missed(childKeys, p, 0)
      BY <1>2, <1>3, ScanStarts
    <3> QED
      BY <2>1, <2>2, <2>4, <3>1, <3>2, <3>3, <3>4
         DEF ForkAt, ForkPlaces, LastPlaces, Moves
  <2>5. CASE i < MaxShells /\ shellKeys[i] = p /\ SearchFor(k, p, "fork_free")
    <3>1. /\ Moves(k) /\ cpu'[k].at = "fork_free" /\ cpu'[k].i = 0 /\ cpu'[k].index = cpu[k].index
         /\ cpu'[k].owner = cpu[k].pid /\ cpu'[k].indicator = cpu[k].indicator /\ cpu'[k].hit = cpu[k].hit
      BY <1>1, <1>2, <2>5, Searching, AllPlaces
    <3>2. i \in 0 .. MaxShells - 1 /\ Finds(shellKeys, p) /\ FirstHit(shellKeys, p) = i
      BY <1>2, <1>3, <2>2, <2>5, ScanHits
    <3>3. ForkOwnerIn(m, p) = p
      BY <3>2 DEF ForkOwnerIn
    <3>4. Passed(childKeys, 0)
      BY <1>2, <1>3, ScanStarts
    <3> QED
      BY <1>2, <2>1, <2>2, <2>5, <3>1, <3>2, <3>3, <3>4
         DEF ForkAt, ForkPlaces, LastPlaces, Moves
  <2>6. CASE i < MaxShells /\ shellKeys[i] # NoPid /\ shellKeys[i] # p /\
             Advance(k, "fork_shells")
    <3>1. /\ Moves(k) /\ cpu'[k].at = "fork_shells" /\ cpu'[k].i = cpu[k].i + 1 /\ cpu'[k].index = cpu[k].index
         /\ cpu'[k].owner = cpu[k].owner /\ cpu'[k].indicator = cpu[k].indicator /\ cpu'[k].hit = cpu[k].hit
      BY <1>1, <1>2, <2>6, Advanced, AllPlaces
    <3>2. i \in 0 .. MaxShells - 1
      BY <1>2, <2>2, <2>6
    <3>3. i + 1 \in Nat /\ Missed(shellKeys, p, i + 1)
      BY <1>2, <1>3, <2>2, <2>6, <3>1, <3>2, ScanGoesOn
    <3> QED
      BY <2>1, <2>2, <2>6, <3>1, <3>2, <3>3
         DEF ForkAt, ForkPlaces, LastPlaces, Moves
  <2> QED
    BY <2>3, <2>4, <2>5, <2>6
<1>5. ASSUME At(k, "fork_children"),
             ScanChildrenFor(k, cpu[k].pid, Jump(k, "fork_owner"), Jump(k, "return"),
               SearchFor(k, cpu[k].pid, "fork_free"))
      PROVE  Moves(k) /\ ForkAt(cpu[k])'
  <2>1. cpu[k].at = "fork_children" /\ shells' = shells /\ children' = children /\ ring' = ring /\ born' = born
    BY <1>5 DEF At, vars, procVars, mapVars, ScanChildrenFor
  <2>2. /\ i \in 0 .. MaxChildren /\ Passed(childKeys, i) /\ Missed(childKeys, p, i)
        /\ ~Finds(shellKeys, p)
        /\ shells = m.shells /\ children = m.children /\ ring = m.ring
        /\ cpu[k].call.child \notin born
    BY <1>2, <2>1 DEF Fits, ChildScans, ChildReads, ShellScans, ShellReads, ForkAt,
                      ForkPlaces, LastPlaces, Missed
  <2>3. \/ i = MaxChildren /\ SearchFor(k, p, "fork_free")
        \/ i < MaxChildren /\ childKeys[i] = p /\ Jump(k, "fork_owner")
        \/ i < MaxChildren /\ childKeys[i] = NoPid /\ Jump(k, "return")
        \/ i < MaxChildren /\ childKeys[i] # NoPid /\ childKeys[i] # p /\
           Advance(k, "fork_children")
    BY <1>2, <1>3, <1>5, <2>1, <2>2 DEF ScanChildrenFor, ChildAt
  <2>4. CASE i = MaxChildren /\ SearchFor(k, p, "fork_free")
    <3>1. /\ Moves(k) /\ cpu'[k].at = "fork_free" /\ cpu'[k].i = 0 /\ cpu'[k].index = cpu[k].index
         /\ cpu'[k].owner = cpu[k].pid /\ cpu'[k].indicator = cpu[k].indicator /\ cpu'[k].hit = cpu[k].hit
      BY <1>1, <1>2, <2>4, Searching, AllPlaces
    <3>2. ScanIsOver(childKeys, MaxChildren, i) /\ i \in 0 .. MaxChildren
      BY <2>2, <2>4 DEF ScanIsOver, Missed, Noted
    <3>3. (i = MaxChildren <=> IsFull(childKeys)) /\ (i < MaxChildren => FirstFree(childKeys) = i)
      BY <1>2, <1>3, <3>1, <3>2, ScanSaw
    <3>4. Passed(childKeys, 0)
      BY <1>2, <1>3, ScanStarts
    <3> QED
      BY <2>1, <2>2, <2>4, <3>1, <3>2, <3>3, <3>4
         DEF ForkAt, ForkPlaces, LastPlaces, Moves
  <2>5. CASE i < MaxChildren /\ childKeys[i] = p /\ Jump(k, "fork_owner")
    <3>1. /\ Moves(k) /\ cpu'[k].at = "fork_owner" /\ cpu'[k].i = cpu[k].i /\ cpu'[k].index = cpu[k].index
         /\ cpu'[k].owner = cpu[k].owner /\ cpu'[k].indicator = cpu[k].indicator /\ cpu'[k].hit = cpu[k].hit
      BY <1>1, <1>2, <2>5, Jumped, AllPlaces
    <3>2. i \in 0 .. MaxChildren - 1 /\ Finds(childKeys, p) /\ FirstHit(childKeys, p) = i
      BY <1>2, <1>3, <2>2, <2>5, ScanHits
    <3> QED
      BY <2>1, <2>2, <2>5, <3>1, <3>2
         DEF ForkAt, ForkPlaces, LastPlaces, Moves
  <2>6. CASE i < MaxChildren /\ childKeys[i] = NoPid /\ Jump(k, "return")
    <3>1. /\ Moves(k) /\ cpu'[k].at = "return" /\ cpu'[k].i = cpu[k].i /\ cpu'[k].index = cpu[k].index
         /\ cpu'[k].owner = cpu[k].owner /\ cpu'[k].indicator = cpu[k].indicator /\ cpu'[k].hit = cpu[k].hit
      BY <1>1, <1>2, <2>6, Jumped, AllPlaces
    <3>2. ScanIsOver(childKeys, MaxChildren, i) /\ i \in 0 .. MaxChildren
      BY <2>2, <2>6 DEF ScanIsOver, Missed, Noted
    <3>3. ~Finds(childKeys, p)
      BY <1>2, <1>3, <2>2, <3>1, <3>2, ScanMisses
    <3>4. ForkOwnerIn(m, p) = NoPid
      BY <2>2, <3>3 DEF ForkOwnerIn
    <3> QED
      BY <2>1, <2>2, <2>6, <3>1, <3>2, <3>3, <3>4
         DEF ForkAt, ForkPlaces, LastPlaces, Moves
  <2>7. CASE i < MaxChildren /\ childKeys[i] # NoPid /\ childKeys[i] # p /\
             Advance(k, "fork_children")
    <3>1. /\ Moves(k) /\ cpu'[k].at = "fork_children" /\ cpu'[k].i = cpu[k].i + 1 /\ cpu'[k].index = cpu[k].index
         /\ cpu'[k].owner = cpu[k].owner /\ cpu'[k].indicator = cpu[k].indicator /\ cpu'[k].hit = cpu[k].hit
      BY <1>1, <1>2, <2>7, Advanced, AllPlaces
    <3>2. i \in 0 .. MaxChildren - 1
      BY <1>2, <2>2, <2>7
    <3>3. i + 1 \in Nat /\ Missed(childKeys, p, i + 1)
      BY <1>2, <1>3, <2>2, <2>7, <3>1, <3>2, ScanGoesOn
    <3> QED
      BY <2>1, <2>2, <2>7, <3>1, <3>2, <3>3
         DEF ForkAt, ForkPlaces, LastPlaces, Moves
  <2> QED
    BY <2>3, <2>4, <2>5, <2>6, <2>7
<1>6. ASSUME At(k, "fork_owner"), ReadOwner(k, "fork_free")
      PROVE  Moves(k) /\ ForkAt(cpu[k])'
  <2>1. cpu[k].at = "fork_owner" /\ shells' = shells /\ children' = children /\ ring' = ring /\ born' = born
    BY <1>6 DEF At, vars, procVars, mapVars, ReadOwner
  <2>2. /\ i \in 0 .. MaxChildren - 1 /\ Finds(childKeys, p) /\ i = FirstHit(childKeys, p)
        /\ ~Finds(shellKeys, p)
        /\ shells = m.shells /\ children = m.children /\ ring = m.ring
        /\ cpu[k].call.child \notin born
    BY <1>2, <2>1 DEF Fits, ChildScans, ChildReads, ShellScans, ShellReads, ForkAt,
                      ForkPlaces, LastPlaces, InChildren
  <2>3. SearchFor(k, m.children[i].shell, "fork_free") /\ m.children[i].shell \in Pid \cup {NoPid}
    BY <1>2, <1>6, <2>2, EntryTypes DEF ReadOwner, ChildAt, InChildren
  <2>4. /\ Moves(k) /\ cpu'[k].at = "fork_free" /\ cpu'[k].i = 0 /\ cpu'[k].index = cpu[k].index
       /\ cpu'[k].owner = m.children[i].shell /\ cpu'[k].indicator = cpu[k].indicator /\ cpu'[k].hit = cpu[k].hit
    BY <1>1, <1>2, <1>6, <2>3, Searching, AllPlaces
  <2>5. childKeys[i] = p
    BY <1>2, <1>3, <2>2, HitSlot
  <2>6. m.children[i].shell # NoPid
    BY <1>2, <1>3, <2>2, <2>5, OnTheCpu, <1>1 DEF OneCpuInv, Owned
  <2>7. ForkOwnerIn(m, p) = m.children[i].shell
    BY <2>2 DEF ForkOwnerIn
  <2>8. Passed(childKeys, 0)
    BY <1>2, <1>3, ScanStarts
  <2> QED
    BY <2>1, <2>2, <1>6, <2>4, <2>3, <2>5, <2>6, <2>7, <2>8
       DEF ForkAt, ForkPlaces, LastPlaces, Moves
<1>7. ASSUME At(k, "fork_free"),
             ScanChildrenFor(k, NoPid, FALSE, Jump(k, "fork_add"), Jump(k, "return"))
      PROVE  Moves(k) /\ ForkAt(cpu[k])'
  <2>1. cpu[k].at = "fork_free" /\ shells' = shells /\ children' = children /\ ring' = ring /\ born' = born
    BY <1>7 DEF At, vars, procVars, mapVars, ScanChildrenFor
  <2>2. /\ i \in 0 .. MaxChildren /\ Passed(childKeys, i)
        /\ IsFull(childKeys) \/ (owner = ForkOwnerIn(m, p) /\ owner # NoPid)
        /\ shells = m.shells /\ children = m.children /\ ring = m.ring
        /\ cpu[k].call.child \notin born
    BY <1>2, <2>1 DEF Fits, ChildScans, ChildReads, ShellScans, ShellReads, ForkAt,
                      ForkPlaces, LastPlaces
  <2>3. \/ i < MaxChildren /\ childKeys[i] = NoPid /\ Jump(k, "fork_add")
        \/ i = MaxChildren /\ Jump(k, "return")
        \/ i < MaxChildren /\ childKeys[i] # NoPid /\ Advance(k, "fork_free")
    BY <1>2, <1>3, <1>7, <2>1, <2>2 DEF ScanChildrenFor, ChildAt
  <2>4. CASE i < MaxChildren /\ childKeys[i] = NoPid /\ Jump(k, "fork_add")
    <3>1. /\ Moves(k) /\ cpu'[k].at = "fork_add" /\ cpu'[k].i = cpu[k].i /\ cpu'[k].index = cpu[k].index
         /\ cpu'[k].owner = cpu[k].owner /\ cpu'[k].indicator = cpu[k].indicator /\ cpu'[k].hit = cpu[k].hit
      BY <1>1, <1>2, <2>4, Jumped, AllPlaces
    <3>2. ScanIsOver(childKeys, MaxChildren, i) /\ i \in 0 .. MaxChildren
      BY <2>2, <2>4 DEF ScanIsOver, Missed, Noted
    <3>3. (i = MaxChildren <=> IsFull(childKeys)) /\ (i < MaxChildren => FirstFree(childKeys) = i)
      BY <1>2, <1>3, <3>1, <3>2, ScanSaw
    <3> QED
      BY <2>1, <2>2, <2>4, <3>1, <3>2, <3>3
         DEF ForkAt, ForkPlaces, LastPlaces, Moves
  <2>5. CASE i = MaxChildren /\ Jump(k, "return")
    <3>1. /\ Moves(k) /\ cpu'[k].at = "return" /\ cpu'[k].i = cpu[k].i /\ cpu'[k].index = cpu[k].index
         /\ cpu'[k].owner = cpu[k].owner /\ cpu'[k].indicator = cpu[k].indicator /\ cpu'[k].hit = cpu[k].hit
      BY <1>1, <1>2, <2>5, Jumped, AllPlaces
    <3>2. ScanIsOver(childKeys, MaxChildren, i) /\ i \in 0 .. MaxChildren
      BY <2>2, <2>5 DEF ScanIsOver, Missed, Noted
    <3>3. (i = MaxChildren <=> IsFull(childKeys)) /\ (i < MaxChildren => FirstFree(childKeys) = i)
      BY <1>2, <1>3, <3>1, <3>2, ScanSaw
    <3> QED
      BY <2>1, <2>2, <2>5, <3>1, <3>2, <3>3
         DEF ForkAt, ForkPlaces, LastPlaces, Moves
  <2>6. CASE i < MaxChildren /\ childKeys[i] # NoPid /\ Advance(k, "fork_free")
    <3>1. /\ Moves(k) /\ cpu'[k].at = "fork_free" /\ cpu'[k].i = cpu[k].i + 1 /\ cpu'[k].index = cpu[k].index
         /\ cpu'[k].owner = cpu[k].owner /\ cpu'[k].indicator = cpu[k].indicator /\ cpu'[k].hit = cpu[k].hit
      BY <1>1, <1>2, <2>6, Advanced, AllPlaces
    <3>2. i + 1 \in Nat /\ Passed(childKeys, i + 1)
      BY <1>2, <1>3, <2>2, <2>6 DEF Passed
    <3> QED
      BY <2>1, <2>2, <2>6, <3>1, <3>2
         DEF ForkAt, ForkPlaces, LastPlaces, Moves
  <2> QED
    BY <2>3, <2>4, <2>5, <2>6
<1>8. ASSUME At(k, "fork_add"), Jump(k, "submit"),
             children' = [children EXCEPT ![cpu[k].i] =
                            [child |-> cpu[k].call.child, shell |-> cpu[k].owner]],
             UNCHANGED <<procVars, loaded, shells, ring, nhidVars>>
      PROVE  Moves(k) /\ ForkAt(cpu[k])'
  <2>1. cpu[k].at = "fork_add" /\ shells' = shells /\ ring' = ring /\ born' = born
    BY <1>8 DEF At, vars, procVars, mapVars
  <2>2. /\ ~IsFull(childKeys) /\ i = FirstFree(childKeys)
        /\ owner = ForkOwnerIn(m, p) /\ owner # NoPid
        /\ shells = m.shells /\ children = m.children /\ ring = m.ring
        /\ cpu[k].call.child \notin born
    BY <1>2, <2>1 DEF Fits, ChildScans, ChildReads, ShellScans, ShellReads, ForkAt,
                      ForkPlaces, LastPlaces
  <2>3. /\ Moves(k) /\ cpu'[k].at = "submit" /\ cpu'[k].i = cpu[k].i /\ cpu'[k].index = cpu[k].index
       /\ cpu'[k].owner = cpu[k].owner /\ cpu'[k].indicator = cpu[k].indicator /\ cpu'[k].hit = cpu[k].hit
    BY <1>1, <1>2, <1>8, Jumped, AllPlaces
  <2> QED
    BY <2>1, <2>2, <1>8, <2>3
       DEF ForkAt, ForkPlaces, LastPlaces, Moves, ForkDone
<1> QED
  BY <1>4, <1>5, <1>6, <1>7, <1>8 DEF ForkStep

LEMMA ExitStepProgress ==
  ASSUME NEW k \in Cpu, OneCpuInv(k), ExitStep(k)
  PROVE  Moves(k) /\ ExitAt(cpu[k])'
<1>1. ~At(k, "idle") /\ cpu[k].at \in ExitPlaces
  BY DEF ExitStep, At, ExitPlaces
<1>2. /\ ProgramInv /\ cpu[k].maps \in MapsRecord /\ cpu[k].pid \in Pid /\ cpu[k].pid # NoPid
      /\ cpu[k].i \in Nat /\ cpu[k].index \in Int
      /\ cpu[k].owner \in Pid \cup {NoPid}
      /\ MaxChildren \in Nat /\ MaxShells \in Nat /\ 0 < MaxChildren /\ 0 < MaxShells
      /\ Fits(cpu[k].at, cpu[k].i, cpu[k].index)
      /\ cpu[k].call.name = "exit" /\ ExitAt(cpu[k])
  BY <1>1, OnTheCpu DEF Serves, ProgressOK
<1> DEFINE m == cpu[k].maps
           p == cpu[k].pid
           i == cpu[k].i
           index == cpu[k].index
           owner == cpu[k].owner
           shellKeys == ShellsOf(cpu[k].maps)
           childKeys == ChildrenOf(cpu[k].maps)
<1>3. /\ DOMAIN childKeys = 0 .. MaxChildren - 1 /\ DOMAIN shellKeys = 0 .. MaxShells - 1
      /\ \A j \in 0 .. MaxShells - 1 : shellKeys[j] = m.shells[j].pid
      /\ \A j \in 0 .. MaxChildren - 1 : childKeys[j] = m.children[j].child
      /\ DOMAIN m.shells = 0 .. MaxShells - 1 /\ DOMAIN m.children = 0 .. MaxChildren - 1
  BY <1>2, ColumnsOf
<1>4. ASSUME At(k, "exit_shells"),
             ScanShellsFor(k, cpu[k].pid, Note(k, "exit_indicator"),
               IF cpu[k].i = 0 THEN Jump(k, "return")
               ELSE IF cpu[k].index # NotFound THEN StepBack(k, "exit_copy_shell")
               ELSE Loop(k, "exit_children"),
               Loop(k, "exit_children"))
      PROVE  Moves(k) /\ ExitAt(cpu[k])'
  <2>1. cpu[k].at = "exit_shells" /\ shells' = shells /\ children' = children /\ ring' = ring /\ born' = born
    BY <1>4 DEF At, vars, procVars, mapVars, ScanShellsFor
  <2>2. /\ i \in 0 .. MaxShells /\ Passed(shellKeys, i) /\ Noted(shellKeys, p, i, index)
        /\ index # NotFound => cpu[k].indicator = m.shells[index].indicator
        /\ shells = m.shells /\ children = m.children
        /\ cpu[k].pid # Root /\ ring = m.ring
    BY <1>2, <2>1 DEF Fits, ChildScans, ChildReads, ShellScans, ShellReads, ExitAt,
                      ExitPlaces, LastPlaces, Noted
  <2>3. \/ i = MaxShells /\ Loop(k, "exit_children")
        \/ i < MaxShells /\ shellKeys[i] = NoPid /\ i # 0 /\ index = NotFound /\
           Loop(k, "exit_children")
        \/ i < MaxShells /\ shellKeys[i] = NoPid /\ i = 0 /\ Jump(k, "return")
        \/ i < MaxShells /\ shellKeys[i] = NoPid /\ i # 0 /\ index # NotFound /\
           StepBack(k, "exit_copy_shell")
        \/ i < MaxShells /\ shellKeys[i] = p /\ Note(k, "exit_indicator")
        \/ i < MaxShells /\ shellKeys[i] # NoPid /\ shellKeys[i] # p /\
           Advance(k, "exit_shells")
    BY <1>2, <1>3, <1>4, <2>1, <2>2 DEF ScanShellsFor, ShellAt
  <2>4. CASE i = MaxShells /\ Loop(k, "exit_children")
    <3>1. /\ Moves(k) /\ cpu'[k].at = "exit_children" /\ cpu'[k].i = 0 /\ cpu'[k].index = NotFound
         /\ cpu'[k].owner = cpu[k].owner /\ cpu'[k].indicator = cpu[k].indicator /\ cpu'[k].hit = cpu[k].hit
      BY <1>1, <1>2, <2>4, Looped, AllPlaces
    <3>2. /\ ScanIsOver(shellKeys, MaxShells, i) /\ i \in 0 .. MaxShells /\ MaxShells \in Nat /\ index \in Int
       /\ DOMAIN shellKeys = 0 .. MaxShells - 1 /\ Noted(shellKeys, p, i, index)
      BY <1>2, <1>3, <2>2, <2>4 DEF ScanIsOver
    <3>3. /\ Finds(shellKeys, p) <=> index # NotFound
          /\ index # NotFound => LastHit(shellKeys, p) = index
          /\ CanRemove(shellKeys, p) <=> index # NotFound /\ i < MaxShells
      BY <3>2, ScanNoted
    <3>4. m.shells[0].pid # NoPid
      BY <1>2, <1>3, <2>2, <2>4 DEF Passed
    <3>5. Noted(childKeys, p, 0, NotFound)
      BY <1>2, <1>3, ScanStarts
    <3> QED
      BY <2>1, <2>2, <2>4, <3>1, <3>2, <3>3, <3>4, <3>5
         DEF ExitAt, ExitPlaces, LastPlaces, Moves, NotAShell
  <2>5. CASE i < MaxShells /\ shellKeys[i] = NoPid /\ i # 0 /\ index = NotFound /\
             Loop(k, "exit_children")
    <3>1. /\ Moves(k) /\ cpu'[k].at = "exit_children" /\ cpu'[k].i = 0 /\ cpu'[k].index = NotFound
         /\ cpu'[k].owner = cpu[k].owner /\ cpu'[k].indicator = cpu[k].indicator /\ cpu'[k].hit = cpu[k].hit
      BY <1>1, <1>2, <2>5, Looped, AllPlaces
    <3>2. /\ ScanIsOver(shellKeys, MaxShells, i) /\ i \in 0 .. MaxShells /\ MaxShells \in Nat /\ index \in Int
       /\ DOMAIN shellKeys = 0 .. MaxShells - 1 /\ Noted(shellKeys, p, i, index)
      BY <1>2, <1>3, <2>2, <2>5 DEF ScanIsOver
    <3>3. /\ Finds(shellKeys, p) <=> index # NotFound
          /\ index # NotFound => LastHit(shellKeys, p) = index
          /\ CanRemove(shellKeys, p) <=> index # NotFound /\ i < MaxShells
      BY <3>2, ScanNoted
    <3>4. m.shells[0].pid # NoPid
      BY <1>2, <1>3, <2>2, <2>5 DEF Passed
    <3>5. Noted(childKeys, p, 0, NotFound)
      BY <1>2, <1>3, ScanStarts
    <3> QED
      BY <2>1, <2>2, <2>5, <3>1, <3>2, <3>3, <3>4, <3>5
         DEF ExitAt, ExitPlaces, LastPlaces, Moves, NotAShell
  <2>6. CASE i < MaxShells /\ shellKeys[i] = NoPid /\ i = 0 /\ Jump(k, "return")
    <3>1. /\ Moves(k) /\ cpu'[k].at = "return" /\ cpu'[k].i = cpu[k].i /\ cpu'[k].index = cpu[k].index
         /\ cpu'[k].owner = cpu[k].owner /\ cpu'[k].indicator = cpu[k].indicator /\ cpu'[k].hit = cpu[k].hit
      BY <1>1, <1>2, <2>6, Jumped, AllPlaces
    <3>2. m.shells[0].pid = NoPid
      BY <1>2, <1>3, <2>6
    <3>3. Maps' = m
      BY <1>2, <2>1, <2>2 DEF Maps, MapsRecord
    <3> QED
      BY <2>1, <2>2, <2>6, <3>1, <3>2, <3>3
         DEF ExitAt, ExitPlaces, LastPlaces, Moves
  <2>7. CASE i < MaxShells /\ shellKeys[i] = NoPid /\ i # 0 /\ index # NotFound /\
             StepBack(k, "exit_copy_shell")
    <3>1. /\ Moves(k) /\ cpu'[k].at = "exit_copy_shell" /\ cpu'[k].i = cpu[k].i - 1 /\ cpu'[k].index = cpu[k].index
         /\ cpu'[k].owner = cpu[k].owner /\ cpu'[k].indicator = cpu[k].indicator /\ cpu'[k].hit = cpu[k].hit
      BY <1>1, <1>2, <2>7, SteppedBack, AllPlaces
    <3>2. /\ ScanIsOver(shellKeys, MaxShells, i) /\ i \in 0 .. MaxShells /\ MaxShells \in Nat /\ index \in Int
       /\ DOMAIN shellKeys = 0 .. MaxShells - 1 /\ Noted(shellKeys, p, i, index)
      BY <1>2, <1>3, <2>2, <2>7 DEF ScanIsOver
    <3>3. /\ Finds(shellKeys, p) <=> index # NotFound
          /\ index # NotFound => LastHit(shellKeys, p) = index
          /\ CanRemove(shellKeys, p) <=> index # NotFound /\ i < MaxShells
      BY <3>2, ScanNoted
    <3>4. (i = MaxShells <=> IsFull(shellKeys)) /\ (i < MaxShells => FirstFree(shellKeys) = i)
      BY <1>2, <1>3, <3>1, <3>2, <3>3, ScanSaw
    <3> QED
      BY <2>1, <2>2, <2>7, <3>1, <3>2, <3>3, <3>4
         DEF ExitAt, ExitPlaces, LastPlaces, Moves, ShellToRemove
  <2>8. CASE i < MaxShells /\ shellKeys[i] = p /\ Note(k, "exit_indicator")
    <3>1. /\ Moves(k) /\ cpu'[k].at = "exit_indicator" /\ cpu'[k].i = cpu[k].i /\ cpu'[k].index = cpu[k].i
         /\ cpu'[k].owner = cpu[k].owner /\ cpu'[k].indicator = cpu[k].indicator /\ cpu'[k].hit = TRUE
      BY <1>1, <1>2, <2>8, Marked, AllPlaces
    <3> QED
      BY <2>1, <2>2, <2>8, <3>1
         DEF ExitAt, ExitPlaces, LastPlaces, Moves
  <2>9. CASE i < MaxShells /\ shellKeys[i] # NoPid /\ shellKeys[i] # p /\
             Advance(k, "exit_shells")
    <3>1. /\ Moves(k) /\ cpu'[k].at = "exit_shells" /\ cpu'[k].i = cpu[k].i + 1 /\ cpu'[k].index = cpu[k].index
         /\ cpu'[k].owner = cpu[k].owner /\ cpu'[k].indicator = cpu[k].indicator /\ cpu'[k].hit = cpu[k].hit
      BY <1>1, <1>2, <2>9, Advanced, AllPlaces
    <3>2. i \in 0 .. MaxShells - 1
      BY <1>2, <2>2, <2>9
    <3>3. i + 1 \in Nat /\ Noted(shellKeys, p, i + 1, index)
      BY <1>2, <1>3, <2>2, <2>9, <3>1, <3>2, NoteStays
    <3> QED
      BY <2>1, <2>2, <2>9, <3>1, <3>2, <3>3
         DEF ExitAt, ExitPlaces, LastPlaces, Moves
  <2> QED
    BY <2>3, <2>4, <2>5, <2>6, <2>7, <2>8, <2>9
<1>5. ASSUME At(k, "exit_indicator"), UNCHANGED vars,
             Update(k, [cpu[k] EXCEPT !.at = "exit_shells",
                                      !.indicator = ShellAt(k).indicator, !.i = @ + 1])
      PROVE  Moves(k) /\ ExitAt(cpu[k])'
  <2>1. cpu[k].at = "exit_indicator" /\ shells' = shells /\ children' = children /\ ring' = ring /\ born' = born
    BY <1>5 DEF At, vars, procVars, mapVars
  <2>2. /\ i \in 0 .. MaxShells - 1 /\ Passed(shellKeys, i) /\ shellKeys[i] = p /\ index = i
        /\ shells = m.shells /\ children = m.children
        /\ cpu[k].pid # Root /\ ring = m.ring
    BY <1>2, <2>1 DEF Fits, ChildScans, ChildReads, ShellScans, ShellReads, ExitAt,
                      ExitPlaces, LastPlaces, InShells
  <2>3. TakesIndicator(k, m.shells[i].indicator) /\ m.shells[i].indicator \in Indicator \cup {NoIndicator}
    BY <1>2, <1>5, <2>2, EntryTypes DEF TakesIndicator, ShellAt, InShells
  <2>4. /\ Moves(k) /\ cpu'[k].at = "exit_shells" /\ cpu'[k].i = cpu[k].i + 1 /\ cpu'[k].index = cpu[k].index
       /\ cpu'[k].owner = cpu[k].owner /\ cpu'[k].indicator = m.shells[i].indicator /\ cpu'[k].hit = cpu[k].hit
    BY <1>1, <1>2, <1>5, <2>3, IndicatorTaken, AllPlaces
  <2>5. Noted(shellKeys, p, i + 1, i)
    BY <1>2, <1>3, <2>2, ScanGoesOn
  <2> QED
    BY <2>1, <2>2, <1>5, <2>4, <2>3, <2>5
       DEF ExitAt, ExitPlaces, LastPlaces, Moves
<1>6. ASSUME At(k, "exit_copy_shell"), Jump(k, "exit_zero_shell"),
             shells' = [shells EXCEPT ![cpu[k].index] = ShellAt(k)],
             UNCHANGED <<procVars, loaded, children, ring, nhidVars>>
      PROVE  Moves(k) /\ ExitAt(cpu[k])'
  <2>1. cpu[k].at = "exit_copy_shell" /\ children' = children /\ ring' = ring /\ born' = born
    BY <1>6 DEF At, vars, procVars, mapVars
  <2>2. /\ ShellToRemove(cpu[k]) /\ i = FirstFree(shellKeys) - 1 /\ index = LastHit(shellKeys, p)
        /\ shells = m.shells /\ children = m.children
        /\ cpu[k].pid # Root /\ ring = m.ring
    BY <1>2, <2>1 DEF Fits, ChildScans, ChildReads, ShellScans, ShellReads, ExitAt,
                      ExitPlaces, LastPlaces
  <2>3. /\ Moves(k) /\ cpu'[k].at = "exit_zero_shell" /\ cpu'[k].i = cpu[k].i /\ cpu'[k].index = cpu[k].index
       /\ cpu'[k].owner = cpu[k].owner /\ cpu'[k].indicator = cpu[k].indicator /\ cpu'[k].hit = cpu[k].hit
    BY <1>1, <1>2, <1>6, Jumped, AllPlaces
  <2>4. shells' = ShellCopied(cpu[k])
    BY <2>2, <1>6 DEF ShellAt, ShellCopied
  <2> QED
    BY <2>1, <2>2, <1>6, <2>3, <2>4
       DEF ExitAt, ExitPlaces, LastPlaces, Moves, ShellToRemove, ShellCopied
<1>7. ASSUME At(k, "exit_zero_shell"), Jump(k, "submit"),
             shells' = [shells EXCEPT ![cpu[k].i] = NoShell],
             UNCHANGED <<procVars, loaded, children, ring, nhidVars>>
      PROVE  Moves(k) /\ ExitAt(cpu[k])'
  <2>1. cpu[k].at = "exit_zero_shell" /\ children' = children /\ ring' = ring /\ born' = born
    BY <1>7 DEF At, vars, procVars, mapVars
  <2>2. /\ ShellToRemove(cpu[k]) /\ i = FirstFree(shellKeys) - 1 /\ index = LastHit(shellKeys, p)
        /\ shells = ShellCopied(cpu[k]) /\ children = m.children
        /\ cpu[k].pid # Root /\ ring = m.ring
    BY <1>2, <2>1 DEF Fits, ChildScans, ChildReads, ShellScans, ShellReads, ExitAt,
                      ExitPlaces, LastPlaces
  <2>3. /\ Moves(k) /\ cpu'[k].at = "submit" /\ cpu'[k].i = cpu[k].i /\ cpu'[k].index = cpu[k].index
       /\ cpu'[k].owner = cpu[k].owner /\ cpu'[k].indicator = cpu[k].indicator /\ cpu'[k].hit = cpu[k].hit
    BY <1>1, <1>2, <1>7, Jumped, AllPlaces
  <2>4. shells' = SwapOut(m.shells, shellKeys, p, NoShell)
    BY <2>2, <1>7 DEF ShellCopied, SwapOut
  <2> QED
    BY <2>1, <2>2, <1>7, <2>3, <2>4
       DEF ExitAt, ExitPlaces, LastPlaces, Moves, ShellToRemove, ShellRemoved
<1>8. ASSUME At(k, "exit_children"),
             ScanChildrenFor(k, cpu[k].pid,
               Update(k, [cpu[k] EXCEPT !.index = cpu[k].i, !.i = @ + 1]),
               IF cpu[k].index # NotFound THEN StepBack(k, "exit_copy_child")
               ELSE Jump(k, "return"),
               Jump(k, "return"))
      PROVE  Moves(k) /\ ExitAt(cpu[k])'
  <2>1. cpu[k].at = "exit_children" /\ shells' = shells /\ children' = children /\ ring' = ring /\ born' = born
    BY <1>8 DEF At, vars, procVars, mapVars, ScanChildrenFor
  <2>2. /\ i \in 0 .. MaxChildren /\ Passed(childKeys, i) /\ Noted(childKeys, p, i, index)
        /\ shells = m.shells /\ children = m.children
        /\ NotAShell(cpu[k])
        /\ cpu[k].pid # Root /\ ring = m.ring
    BY <1>2, <2>1 DEF Fits, ChildScans, ChildReads, ShellScans, ShellReads, ExitAt,
                      ExitPlaces, LastPlaces, Noted
  <2>3. \/ (i = MaxChildren \/ (i < MaxChildren /\ childKeys[i] = NoPid /\ index =
           NotFound)) /\ Jump(k, "return")
        \/ i < MaxChildren /\ childKeys[i] = NoPid /\ index # NotFound /\
           StepBack(k, "exit_copy_child")
        \/ i < MaxChildren /\ childKeys[i] = p /\ TakesIndex(k)
        \/ i < MaxChildren /\ childKeys[i] # NoPid /\ childKeys[i] # p /\
           Advance(k, "exit_children")
    BY <1>2, <1>3, <1>8, <2>1, <2>2 DEF ScanChildrenFor, ChildAt, TakesIndex
  <2>4. CASE (i = MaxChildren \/ (i < MaxChildren /\ childKeys[i] = NoPid /\ index =
             NotFound)) /\ Jump(k, "return")
    <3>1. /\ Moves(k) /\ cpu'[k].at = "return" /\ cpu'[k].i = cpu[k].i /\ cpu'[k].index = cpu[k].index
         /\ cpu'[k].owner = cpu[k].owner /\ cpu'[k].indicator = cpu[k].indicator /\ cpu'[k].hit = cpu[k].hit
      BY <1>1, <1>2, <2>4, Jumped, AllPlaces
    <3>2. /\ ScanIsOver(childKeys, MaxChildren, i) /\ i \in 0 .. MaxChildren /\ MaxChildren \in Nat /\ index \in Int
       /\ DOMAIN childKeys = 0 .. MaxChildren - 1 /\ Noted(childKeys, p, i, index)
      BY <1>2, <1>3, <2>2, <2>4 DEF ScanIsOver
    <3>3. /\ Finds(childKeys, p) <=> index # NotFound
          /\ index # NotFound => LastHit(childKeys, p) = index
          /\ CanRemove(childKeys, p) <=> index # NotFound /\ i < MaxChildren
      BY <3>2, ScanNoted
    <3>4. children = Unlinked(m, p)
      BY <2>2, <2>4, <3>1, <3>2, <3>3 DEF Unlinked
    <3> QED
      BY <2>1, <2>2, <2>4, <3>1, <3>2, <3>3, <3>4
         DEF ExitAt, ExitPlaces, LastPlaces, Moves, NotAShell
  <2>5. CASE i < MaxChildren /\ childKeys[i] = NoPid /\ index # NotFound /\
             StepBack(k, "exit_copy_child")
    <3>1. i # 0
      BY <1>2, <1>3, <2>2, <2>5 DEF Noted
    <3>2. /\ Moves(k) /\ cpu'[k].at = "exit_copy_child" /\ cpu'[k].i = cpu[k].i - 1 /\ cpu'[k].index = cpu[k].index
         /\ cpu'[k].owner = cpu[k].owner /\ cpu'[k].indicator = cpu[k].indicator /\ cpu'[k].hit = cpu[k].hit
      BY <1>1, <1>2, <2>5, <3>1, SteppedBack, AllPlaces
    <3>3. /\ ScanIsOver(childKeys, MaxChildren, i) /\ i \in 0 .. MaxChildren /\ MaxChildren \in Nat /\ index \in Int
       /\ DOMAIN childKeys = 0 .. MaxChildren - 1 /\ Noted(childKeys, p, i, index)
      BY <1>2, <1>3, <2>2, <2>5 DEF ScanIsOver
    <3>4. /\ Finds(childKeys, p) <=> index # NotFound
          /\ index # NotFound => LastHit(childKeys, p) = index
          /\ CanRemove(childKeys, p) <=> index # NotFound /\ i < MaxChildren
      BY <3>3, ScanNoted
    <3>5. (i = MaxChildren <=> IsFull(childKeys)) /\ (i < MaxChildren => FirstFree(childKeys) = i)
      BY <1>2, <1>3, <3>2, <3>1, <3>3, <3>4, ScanSaw
    <3> QED
      BY <2>1, <2>2, <2>5, <3>2, <3>1, <3>3, <3>4, <3>5
         DEF ExitAt, ExitPlaces, LastPlaces, Moves, ChildToRemove, NotAShell
  <2>6. CASE i < MaxChildren /\ childKeys[i] = p /\ TakesIndex(k)
    <3>1. /\ Moves(k) /\ cpu'[k].at = "exit_children" /\ cpu'[k].i = cpu[k].i + 1 /\ cpu'[k].index = cpu[k].i
         /\ cpu'[k].owner = cpu[k].owner /\ cpu'[k].indicator = cpu[k].indicator /\ cpu'[k].hit = cpu[k].hit
      BY <1>1, <1>2, <2>1, <2>6, IndexTaken, AllPlaces
    <3>2. i \in 0 .. MaxChildren - 1
      BY <1>2, <2>2, <2>6
    <3>3. Noted(childKeys, p, i + 1, i)
      BY <1>2, <1>3, <2>2, <2>6, <3>2, ScanGoesOn
    <3> QED
      BY <2>1, <2>2, <2>6, <3>1, <3>2, <3>3
         DEF ExitAt, ExitPlaces, LastPlaces, Moves, NotAShell
  <2>7. CASE i < MaxChildren /\ childKeys[i] # NoPid /\ childKeys[i] # p /\
             Advance(k, "exit_children")
    <3>1. /\ Moves(k) /\ cpu'[k].at = "exit_children" /\ cpu'[k].i = cpu[k].i + 1 /\ cpu'[k].index = cpu[k].index
         /\ cpu'[k].owner = cpu[k].owner /\ cpu'[k].indicator = cpu[k].indicator /\ cpu'[k].hit = cpu[k].hit
      BY <1>1, <1>2, <2>7, Advanced, AllPlaces
    <3>2. i \in 0 .. MaxChildren - 1
      BY <1>2, <2>2, <2>7
    <3>3. i + 1 \in Nat /\ Noted(childKeys, p, i + 1, index)
      BY <1>2, <1>3, <2>2, <2>7, <3>1, <3>2, NoteStays
    <3> QED
      BY <2>1, <2>2, <2>7, <3>1, <3>2, <3>3
         DEF ExitAt, ExitPlaces, LastPlaces, Moves, NotAShell
  <2> QED
    BY <2>3, <2>4, <2>5, <2>6, <2>7
<1>9. ASSUME At(k, "exit_copy_child"), CopyChild(k, "exit_zero_child")
      PROVE  Moves(k) /\ ExitAt(cpu[k])'
  <2>1. cpu[k].at = "exit_copy_child" /\ shells' = shells /\ ring' = ring /\ born' = born
    BY <1>9 DEF At, vars, procVars, mapVars, CopyChild
  <2>2. /\ ChildToRemove(cpu[k]) /\ NotAShell(cpu[k])
        /\ shells = m.shells /\ children = m.children
        /\ cpu[k].pid # Root /\ ring = m.ring
    BY <1>2, <2>1 DEF Fits, ChildScans, ChildReads, ShellScans, ShellReads, ExitAt,
                      ExitPlaces, LastPlaces
  <2>3. /\ Moves(k) /\ cpu'[k].at = "exit_zero_child" /\ cpu'[k].i = cpu[k].i /\ cpu'[k].index = cpu[k].index
       /\ cpu'[k].owner = cpu[k].owner /\ cpu'[k].indicator = cpu[k].indicator /\ cpu'[k].hit = cpu[k].hit
    BY <1>1, <1>2, <1>9, Jumped, AllPlaces DEF CopyChild
  <2>4. children' = ChildCopied(cpu[k])
    BY <2>2, <1>9 DEF CopyChild, ChildAt, ChildToRemove, ChildCopied
  <2> QED
    BY <2>1, <2>2, <1>9, <2>3, <2>4
       DEF ExitAt, ExitPlaces, LastPlaces, Moves, ChildToRemove, ChildCopied, NotAShell
<1>10. ASSUME At(k, "exit_zero_child"), ZeroChild(k, "return")
      PROVE  Moves(k) /\ ExitAt(cpu[k])'
  <2>1. cpu[k].at = "exit_zero_child" /\ shells' = shells /\ ring' = ring /\ born' = born
    BY <1>10 DEF At, vars, procVars, mapVars, ZeroChild
  <2>2. /\ ChildToRemove(cpu[k]) /\ NotAShell(cpu[k])
        /\ children = ChildCopied(cpu[k]) /\ shells = m.shells
        /\ cpu[k].pid # Root /\ ring = m.ring
    BY <1>2, <2>1 DEF Fits, ChildScans, ChildReads, ShellScans, ShellReads, ExitAt,
                      ExitPlaces, LastPlaces
  <2>3. /\ Moves(k) /\ cpu'[k].at = "return" /\ cpu'[k].i = 0 /\ cpu'[k].index = NotFound
       /\ cpu'[k].owner = cpu[k].owner /\ cpu'[k].indicator = cpu[k].indicator /\ cpu'[k].hit = cpu[k].hit
    BY <1>1, <1>2, <1>10, Looped, AllPlaces DEF ZeroChild
  <2>4. children' = Unlinked(m, p)
    BY <2>2, <1>10 DEF ZeroChild, ChildToRemove, ChildCopied, Unlinked, SwapOut
  <2> QED
    BY <2>1, <2>2, <1>10, <2>3, <2>4
       DEF ExitAt, ExitPlaces, LastPlaces, Moves, NotAShell
<1> QED
  BY <1>4, <1>5, <1>6, <1>7, <1>8, <1>9, <1>10 DEF ExitStep

LEMMA WriteStepProgress ==
  ASSUME NEW k \in Cpu, OneCpuInv(k), WriteStep(k)
  PROVE  Moves(k) /\ WriteAt(cpu[k])'
<1>1. ~At(k, "idle") /\ cpu[k].at \in WritePlaces
  BY DEF WriteStep, At, WritePlaces, WriteShells
<1>2. /\ ProgramInv /\ cpu[k].maps \in MapsRecord /\ cpu[k].pid \in Pid /\ cpu[k].pid # NoPid
      /\ cpu[k].i \in Nat /\ cpu[k].index \in Int
      /\ cpu[k].owner \in Pid \cup {NoPid}
      /\ MaxChildren \in Nat /\ MaxShells \in Nat /\ 0 < MaxChildren /\ 0 < MaxShells
      /\ Fits(cpu[k].at, cpu[k].i, cpu[k].index)
      /\ cpu[k].call.name = "write" /\ WriteAt(cpu[k])
  BY <1>1, OnTheCpu DEF Serves, ProgressOK
<1> DEFINE m == cpu[k].maps
           p == cpu[k].pid
           i == cpu[k].i
           index == cpu[k].index
           owner == cpu[k].owner
           shellKeys == ShellsOf(cpu[k].maps)
           childKeys == ChildrenOf(cpu[k].maps)
<1>3. /\ DOMAIN childKeys = 0 .. MaxChildren - 1 /\ DOMAIN shellKeys = 0 .. MaxShells - 1
      /\ \A j \in 0 .. MaxShells - 1 : shellKeys[j] = m.shells[j].pid
      /\ \A j \in 0 .. MaxChildren - 1 : childKeys[j] = m.children[j].child
      /\ DOMAIN m.shells = 0 .. MaxShells - 1 /\ DOMAIN m.children = 0 .. MaxChildren - 1
  BY <1>2, ColumnsOf
<1>4. ASSUME At(k, "write_children"),
             ScanChildrenFor(k, cpu[k].pid, Note(k, "write_owner"), Jump(k, "return"),
               \E any \in Pid \cup {NoPid} : SearchFor(k, any, "write_shells"))
      PROVE  Moves(k) /\ WriteAt(cpu[k])'
  <2>1. cpu[k].at = "write_children" /\ shells' = shells /\ children' = children /\ ring' = ring /\ born' = born
    BY <1>4 DEF At, vars, procVars, mapVars, ScanChildrenFor
  <2>2. /\ i \in 0 .. MaxChildren /\ Passed(childKeys, i) /\ Missed(childKeys, p, i)
        /\ ~cpu[k].hit /\ shells = m.shells /\ cpu[k].indicator = NoIndicator
        /\ children = m.children /\ ring = m.ring
    BY <1>2, <2>1 DEF Fits, ChildScans, ChildReads, ShellScans, ShellReads, WriteAt,
                      WritePlaces, LastPlaces, Missed
  <2>3. \/ i = MaxChildren /\ \E any \in Pid \cup {NoPid} : SearchFor(k, any,
           "write_shells")
        \/ i < MaxChildren /\ childKeys[i] = p /\ Note(k, "write_owner")
        \/ i < MaxChildren /\ childKeys[i] = NoPid /\ Jump(k, "return")
        \/ i < MaxChildren /\ childKeys[i] # NoPid /\ childKeys[i] # p /\
           Advance(k, "write_children")
    BY <1>2, <1>3, <1>4, <2>1, <2>2 DEF ScanChildrenFor, ChildAt
  <2>4. CASE i = MaxChildren /\ \E any \in Pid \cup {NoPid} : SearchFor(k, any,
             "write_shells")
    <3>1. PICK any \in Pid \cup {NoPid} : SearchFor(k, any, "write_shells")
      BY <2>4
    <3>2. /\ Moves(k) /\ cpu'[k].at = "write_shells" /\ cpu'[k].i = 0 /\ cpu'[k].index = cpu[k].index
         /\ cpu'[k].owner = any /\ cpu'[k].indicator = cpu[k].indicator /\ cpu'[k].hit = cpu[k].hit
      BY <1>1, <1>2, <2>4, <3>1, Searching, AllPlaces
    <3>3. ScanIsOver(childKeys, MaxChildren, i) /\ i \in 0 .. MaxChildren
      BY <2>2, <2>4 DEF ScanIsOver, Missed, Noted
    <3>4. ~Finds(childKeys, p)
      BY <1>2, <1>3, <2>2, <3>2, <3>1, <3>3, ScanMisses
    <3>5. (i = MaxChildren <=> IsFull(childKeys)) /\ (i < MaxChildren => FirstFree(childKeys) = i)
      BY <1>2, <1>3, <3>2, <3>1, <3>3, <3>4, ScanSaw
    <3>6. any \in WriteOwnersIn(m, p)
      BY <2>4, <3>2, <3>1, <3>3, <3>4, <3>5 DEF WriteOwnersIn
    <3>7. Missed(shellKeys, any, 0)
      BY <1>2, <1>3, ScanStarts
    <3> QED
      BY <2>1, <2>2, <2>4, <3>2, <3>1, <3>3, <3>4, <3>5, <3>6, <3>7
         DEF WriteAt, WritePlaces, LastPlaces, Moves, WriteFound
  <2>5. CASE i < MaxChildren /\ childKeys[i] = p /\ Note(k, "write_owner")
    <3>1. /\ Moves(k) /\ cpu'[k].at = "write_owner" /\ cpu'[k].i = cpu[k].i /\ cpu'[k].index = cpu[k].i
         /\ cpu'[k].owner = cpu[k].owner /\ cpu'[k].indicator = cpu[k].indicator /\ cpu'[k].hit = TRUE
      BY <1>1, <1>2, <2>5, Marked, AllPlaces
    <3>2. i \in 0 .. MaxChildren - 1 /\ Finds(childKeys, p) /\ FirstHit(childKeys, p) = i
      BY <1>2, <1>3, <2>2, <2>5, ScanHits
    <3> QED
      BY <2>1, <2>2, <2>5, <3>1, <3>2
         DEF WriteAt, WritePlaces, LastPlaces, Moves
  <2>6. CASE i < MaxChildren /\ childKeys[i] = NoPid /\ Jump(k, "return")
    <3>1. /\ Moves(k) /\ cpu'[k].at = "return" /\ cpu'[k].i = cpu[k].i /\ cpu'[k].index = cpu[k].index
         /\ cpu'[k].owner = cpu[k].owner /\ cpu'[k].indicator = cpu[k].indicator /\ cpu'[k].hit = cpu[k].hit
      BY <1>1, <1>2, <2>6, Jumped, AllPlaces
    <3> QED
      BY <2>1, <2>2, <2>6, <3>1
         DEF WriteAt, WritePlaces, LastPlaces, Moves
  <2>7. CASE i < MaxChildren /\ childKeys[i] # NoPid /\ childKeys[i] # p /\
             Advance(k, "write_children")
    <3>1. /\ Moves(k) /\ cpu'[k].at = "write_children" /\ cpu'[k].i = cpu[k].i + 1 /\ cpu'[k].index = cpu[k].index
         /\ cpu'[k].owner = cpu[k].owner /\ cpu'[k].indicator = cpu[k].indicator /\ cpu'[k].hit = cpu[k].hit
      BY <1>1, <1>2, <2>7, Advanced, AllPlaces
    <3>2. i \in 0 .. MaxChildren - 1
      BY <1>2, <2>2, <2>7
    <3>3. i + 1 \in Nat /\ Missed(childKeys, p, i + 1)
      BY <1>2, <1>3, <2>2, <2>7, <3>1, <3>2, ScanGoesOn
    <3> QED
      BY <2>1, <2>2, <2>7, <3>1, <3>2, <3>3
         DEF WriteAt, WritePlaces, LastPlaces, Moves
  <2> QED
    BY <2>3, <2>4, <2>5, <2>6, <2>7
<1>5. ASSUME At(k, "write_owner"), ReadOwner(k, "write_shells")
      PROVE  Moves(k) /\ WriteAt(cpu[k])'
  <2>1. cpu[k].at = "write_owner" /\ shells' = shells /\ children' = children /\ ring' = ring /\ born' = born
    BY <1>5 DEF At, vars, procVars, mapVars, ReadOwner
  <2>2. /\ i \in 0 .. MaxChildren - 1 /\ Finds(childKeys, p) /\ i = FirstHit(childKeys, p)
        /\ cpu[k].hit /\ shells = m.shells /\ cpu[k].indicator = NoIndicator
        /\ children = m.children /\ ring = m.ring
    BY <1>2, <2>1 DEF Fits, ChildScans, ChildReads, ShellScans, ShellReads, WriteAt,
                      WritePlaces, LastPlaces, InChildren
  <2>3. SearchFor(k, m.children[i].shell, "write_shells") /\ m.children[i].shell \in Pid \cup {NoPid}
    BY <1>2, <1>5, <2>2, EntryTypes DEF ReadOwner, ChildAt, InChildren
  <2>4. /\ Moves(k) /\ cpu'[k].at = "write_shells" /\ cpu'[k].i = 0 /\ cpu'[k].index = cpu[k].index
       /\ cpu'[k].owner = m.children[i].shell /\ cpu'[k].indicator = cpu[k].indicator /\ cpu'[k].hit = cpu[k].hit
    BY <1>1, <1>2, <1>5, <2>3, Searching, AllPlaces
  <2>5. m.children[i].shell \in WriteOwnersIn(m, p)
    BY <2>2 DEF WriteOwnersIn
  <2>6. Missed(shellKeys, m.children[i].shell, 0)
    BY <1>2, <1>3, ScanStarts
  <2> QED
    BY <2>1, <2>2, <1>5, <2>4, <2>3, <2>5, <2>6
       DEF WriteAt, WritePlaces, LastPlaces, Moves, WriteFound
<1>6. ASSUME WriteShells(k)
      PROVE  Moves(k) /\ WriteAt(cpu[k])'
  <2>1. cpu[k].at = "write_shells" /\ shells' = shells /\ children' = children /\ ring' = ring /\ born' = born
    BY <1>6 DEF At, vars, procVars, mapVars, ScanShellsFor, WriteShells
  <2>2. /\ i \in 0 .. MaxShells /\ Passed(shellKeys, i) /\ Missed(shellKeys, owner, i)
        /\ WriteFound(cpu[k]) /\ shells = m.shells /\ cpu[k].indicator = NoIndicator
        /\ children = m.children /\ ring = m.ring
    BY <1>2, <2>1 DEF Fits, ChildScans, ChildReads, ShellScans, ShellReads, WriteAt,
                      WritePlaces, LastPlaces, Missed
  <2>3. \/ i < MaxShells /\ shellKeys[i] = owner /\ owner # NoPid /\
           Jump(k, "write_indicator")
        \/ i < MaxShells /\ shellKeys[i] = NoPid /\ Jump(k, "return")
        \/ i = MaxShells /\ Jump(k, "write_text")
        \/ i < MaxShells /\ shellKeys[i] # NoPid /\ shellKeys[i] # owner /\
           Advance(k, "write_shells")
    BY <1>2, <1>3, <1>6, <2>1, <2>2 DEF ScanShellsFor, ShellAt, WriteShells
  <2>4. CASE i < MaxShells /\ shellKeys[i] = owner /\ owner # NoPid /\
             Jump(k, "write_indicator")
    <3>1. /\ Moves(k) /\ cpu'[k].at = "write_indicator" /\ cpu'[k].i = cpu[k].i /\ cpu'[k].index = cpu[k].index
         /\ cpu'[k].owner = cpu[k].owner /\ cpu'[k].indicator = cpu[k].indicator /\ cpu'[k].hit = cpu[k].hit
      BY <1>1, <1>2, <2>4, Jumped, AllPlaces
    <3>2. i \in 0 .. MaxShells - 1 /\ Finds(shellKeys, owner) /\ FirstHit(shellKeys, owner) = i
      BY <1>2, <1>3, <2>2, <2>4, ScanHits
    <3> QED
      BY <2>1, <2>2, <2>4, <3>1, <3>2
         DEF WriteAt, WritePlaces, LastPlaces, Moves, WriteFound
  <2>5. CASE i < MaxShells /\ shellKeys[i] = NoPid /\ Jump(k, "return")
    <3>1. /\ Moves(k) /\ cpu'[k].at = "return" /\ cpu'[k].i = cpu[k].i /\ cpu'[k].index = cpu[k].index
         /\ cpu'[k].owner = cpu[k].owner /\ cpu'[k].indicator = cpu[k].indicator /\ cpu'[k].hit = cpu[k].hit
      BY <1>1, <1>2, <2>5, Jumped, AllPlaces
    <3> QED
      BY <2>1, <2>2, <2>5, <3>1
         DEF WriteAt, WritePlaces, LastPlaces, Moves
  <2>6. CASE i = MaxShells /\ Jump(k, "write_text")
    <3>1. /\ Moves(k) /\ cpu'[k].at = "write_text" /\ cpu'[k].i = cpu[k].i /\ cpu'[k].index = cpu[k].index
         /\ cpu'[k].owner = cpu[k].owner /\ cpu'[k].indicator = cpu[k].indicator /\ cpu'[k].hit = cpu[k].hit
      BY <1>1, <1>2, <2>6, Jumped, AllPlaces
    <3>2. ScanIsOver(shellKeys, MaxShells, i) /\ i \in 0 .. MaxShells
      BY <2>2, <2>6 DEF ScanIsOver, Missed, Noted
    <3>3. ~Finds(shellKeys, owner)
      BY <1>2, <1>3, <2>2, <3>1, <3>2, ScanMisses
    <3>4. (i = MaxShells <=> IsFull(shellKeys)) /\ (i < MaxShells => FirstFree(shellKeys) = i)
      BY <1>2, <1>3, <3>1, <3>2, <3>3, ScanSaw
    <3>5. i \in WriteSlotsIn(m, owner) /\ ~(i < MaxShells)
      BY <1>2, <2>6, <3>1, <3>2, <3>3, <3>4 DEF WriteSlotsIn
    <3> QED
      BY <2>1, <2>2, <2>6, <3>1, <3>2, <3>3, <3>4, <3>5
         DEF WriteAt, WritePlaces, LastPlaces, Moves, WriteFound, WriteReady
  <2>7. CASE i < MaxShells /\ shellKeys[i] # NoPid /\ shellKeys[i] # owner /\
             Advance(k, "write_shells")
    <3>1. /\ Moves(k) /\ cpu'[k].at = "write_shells" /\ cpu'[k].i = cpu[k].i + 1 /\ cpu'[k].index = cpu[k].index
         /\ cpu'[k].owner = cpu[k].owner /\ cpu'[k].indicator = cpu[k].indicator /\ cpu'[k].hit = cpu[k].hit
      BY <1>1, <1>2, <2>7, Advanced, AllPlaces
    <3>2. i \in 0 .. MaxShells - 1
      BY <1>2, <2>2, <2>7
    <3>3. i + 1 \in Nat /\ Missed(shellKeys, owner, i + 1)
      BY <1>2, <1>3, <2>2, <2>7, <3>1, <3>2, ScanGoesOn
    <3> QED
      BY <2>1, <2>2, <2>7, <3>1, <3>2, <3>3
         DEF WriteAt, WritePlaces, LastPlaces, Moves, WriteFound
  <2> QED
    BY <2>3, <2>4, <2>5, <2>6, <2>7
<1>7. ASSUME At(k, "write_indicator"), ReadIndicator(k, "write_text")
      PROVE  Moves(k) /\ WriteAt(cpu[k])'
  <2>1. cpu[k].at = "write_indicator" /\ shells' = shells /\ children' = children /\ ring' = ring /\ born' = born
    BY <1>7 DEF At, vars, procVars, mapVars, ReadIndicator
  <2>2. /\ i \in 0 .. MaxShells - 1 /\ Finds(shellKeys, owner) /\ i = FirstHit(shellKeys, owner)
        /\ WriteFound(cpu[k]) /\ shells = m.shells
        /\ children = m.children /\ ring = m.ring
    BY <1>2, <2>1 DEF Fits, ChildScans, ChildReads, ShellScans, ShellReads, WriteAt,
                      WritePlaces, LastPlaces, InShells
  <2>3. FindsIndicator(k, m.shells[i].indicator, "write_text") /\ m.shells[i].indicator \in Indicator \cup {NoIndicator}
    BY <1>2, <1>7, <2>2, EntryTypes DEF FindsIndicator, ReadIndicator, ShellAt, InShells
  <2>4. /\ Moves(k) /\ cpu'[k].at = "write_text" /\ cpu'[k].i = cpu[k].i /\ cpu'[k].index = cpu[k].index
       /\ cpu'[k].owner = cpu[k].owner /\ cpu'[k].indicator = m.shells[i].indicator /\ cpu'[k].hit = cpu[k].hit
    BY <1>1, <1>2, <1>7, <2>3, IndicatorRead, AllPlaces
  <2>5. i \in WriteSlotsIn(m, owner) /\ i < MaxShells
    BY <1>2, <2>2 DEF WriteSlotsIn
  <2> QED
    BY <2>1, <2>2, <1>7, <2>4, <2>3, <2>5
       DEF WriteAt, WritePlaces, LastPlaces, Moves, WriteFound, WriteReady
<1>8. ASSUME At(k, "write_text"), Jump(k, "return"), UNCHANGED vars
      PROVE  Moves(k) /\ WriteAt(cpu[k])'
  <2>1. cpu[k].at = "write_text" /\ shells' = shells /\ children' = children /\ ring' = ring /\ born' = born
    BY <1>8 DEF At, vars, procVars, mapVars
  <2>2. /\ WriteReady(cpu[k]) /\ shells = m.shells
        /\ children = m.children /\ ring = m.ring
    BY <1>2, <2>1 DEF Fits, ChildScans, ChildReads, ShellScans, ShellReads, WriteAt,
                      WritePlaces, LastPlaces
  <2>3. /\ Moves(k) /\ cpu'[k].at = "return" /\ cpu'[k].i = cpu[k].i /\ cpu'[k].index = cpu[k].index
       /\ cpu'[k].owner = cpu[k].owner /\ cpu'[k].indicator = cpu[k].indicator /\ cpu'[k].hit = cpu[k].hit
    BY <1>1, <1>2, <1>8, Jumped, AllPlaces
  <2> QED
    BY <2>1, <2>2, <1>8, <2>3
       DEF WriteAt, WritePlaces, LastPlaces, Moves
<1>9. ASSUME At(k, "write_text"), SetOmit(k, TRUE, "return")
      PROVE  Moves(k) /\ WriteAt(cpu[k])'
  <2>1. cpu[k].at = "write_text" /\ children' = children /\ ring' = ring /\ born' = born
    BY <1>9 DEF At, vars, procVars, mapVars, SetOmit
  <2>2. /\ WriteReady(cpu[k]) /\ shells = m.shells
        /\ children = m.children /\ ring = m.ring
    BY <1>2, <2>1 DEF Fits, ChildScans, ChildReads, ShellScans, ShellReads, WriteAt,
                      WritePlaces, LastPlaces
  <2>3. /\ Moves(k) /\ cpu'[k].at = "return" /\ cpu'[k].i = cpu[k].i /\ cpu'[k].index = cpu[k].index
       /\ cpu'[k].owner = cpu[k].owner /\ cpu'[k].indicator = cpu[k].indicator /\ cpu'[k].hit = cpu[k].hit
    BY <1>1, <1>2, <1>9, Jumped, AllPlaces DEF SetOmit
  <2>4. i < MaxShells /\ shells' = [m.shells EXCEPT ![i].omit = TRUE]
    BY <2>2, <1>9 DEF SetOmit, Slot
  <2> QED
    BY <2>1, <2>2, <1>9, <2>3, <2>4
       DEF WriteAt, WritePlaces, LastPlaces, Moves, WriteFound, WriteReady, Omitting
<1>10. ASSUME At(k, "write_text"), SetOmit(k, FALSE, "write_omit")
      PROVE  Moves(k) /\ WriteAt(cpu[k])'
  <2>1. cpu[k].at = "write_text" /\ children' = children /\ ring' = ring /\ born' = born
    BY <1>10 DEF At, vars, procVars, mapVars, SetOmit
  <2>2. /\ WriteReady(cpu[k]) /\ shells = m.shells
        /\ children = m.children /\ ring = m.ring
    BY <1>2, <2>1 DEF Fits, ChildScans, ChildReads, ShellScans, ShellReads, WriteAt,
                      WritePlaces, LastPlaces
  <2>3. /\ Moves(k) /\ cpu'[k].at = "write_omit" /\ cpu'[k].i = cpu[k].i /\ cpu'[k].index = cpu[k].index
       /\ cpu'[k].owner = cpu[k].owner /\ cpu'[k].indicator = cpu[k].indicator /\ cpu'[k].hit = cpu[k].hit
    BY <1>1, <1>2, <1>10, Jumped, AllPlaces DEF SetOmit
  <2>4. i < MaxShells /\ shells' = [m.shells EXCEPT ![i].omit = FALSE]
    BY <2>2, <1>10 DEF SetOmit, Slot
  <2> QED
    BY <2>1, <2>2, <1>10, <2>3, <2>4
       DEF WriteAt, WritePlaces, LastPlaces, Moves, WriteFound, WriteReady, Omitting
<1>11. ASSUME At(k, "write_text"), Jump(k, "write_omit"), UNCHANGED vars
      PROVE  Moves(k) /\ WriteAt(cpu[k])'
  <2>1. cpu[k].at = "write_text" /\ shells' = shells /\ children' = children /\ ring' = ring /\ born' = born
    BY <1>11 DEF At, vars, procVars, mapVars
  <2>2. /\ WriteReady(cpu[k]) /\ shells = m.shells
        /\ children = m.children /\ ring = m.ring
    BY <1>2, <2>1 DEF Fits, ChildScans, ChildReads, ShellScans, ShellReads, WriteAt,
                      WritePlaces, LastPlaces
  <2>3. /\ Moves(k) /\ cpu'[k].at = "write_omit" /\ cpu'[k].i = cpu[k].i /\ cpu'[k].index = cpu[k].index
       /\ cpu'[k].owner = cpu[k].owner /\ cpu'[k].indicator = cpu[k].indicator /\ cpu'[k].hit = cpu[k].hit
    BY <1>1, <1>2, <1>11, Jumped, AllPlaces
  <2> QED
    BY <2>1, <2>2, <1>11, <2>3
       DEF WriteAt, WritePlaces, LastPlaces, Moves, WriteFound, WriteReady
<1>12. ASSUME At(k, "write_omit"), UNCHANGED vars,
             Jump(k, IF Slot(k) < MaxShells /\ ShellAt(k).omit THEN "return" ELSE "submit")
      PROVE  Moves(k) /\ WriteAt(cpu[k])'
  <2>1. cpu[k].at = "write_omit" /\ shells' = shells /\ children' = children /\ ring' = ring /\ born' = born
    BY <1>12 DEF At, vars, procVars, mapVars
  <2>2. /\ WriteReady(cpu[k])
        /\ shells = m.shells \/ Omitting(cpu[k], FALSE)
        /\ i \in 0 .. MaxShells
        /\ children = m.children /\ ring = m.ring
    BY <1>2, <2>1 DEF Fits, ChildScans, ChildReads, ShellScans, ShellReads, WriteAt,
                      WritePlaces, LastPlaces
  <2>3. \/ i < MaxShells /\ shells[i].omit /\ Jump(k, "return")
        \/ ~(i < MaxShells /\ shells[i].omit) /\ Jump(k, "submit")
    BY <1>2, <1>3, <1>12, <2>1, <2>2 DEF Slot, ShellAt
  <2>4. CASE i < MaxShells /\ shells[i].omit /\ Jump(k, "return")
    <3>1. /\ Moves(k) /\ cpu'[k].at = "return" /\ cpu'[k].i = cpu[k].i /\ cpu'[k].index = cpu[k].index
         /\ cpu'[k].owner = cpu[k].owner /\ cpu'[k].indicator = cpu[k].indicator /\ cpu'[k].hit = cpu[k].hit
      BY <1>1, <1>2, <2>4, Jumped, AllPlaces
    <3>2. i \in 0 .. MaxShells - 1 /\ m.shells[i] \in Shell
      BY <1>2, <2>2, <2>4, ColumnsOf
    <3>3. shells = m.shells
      BY <1>2, <1>3, <2>2, <2>4, <3>2 DEF Omitting, Shell
    <3> QED
      BY <2>1, <2>2, <2>4, <3>1, <3>2, <3>3
         DEF WriteAt, WritePlaces, LastPlaces, Moves
  <2>5. CASE ~(i < MaxShells /\ shells[i].omit) /\ Jump(k, "submit")
    <3>1. /\ Moves(k) /\ cpu'[k].at = "submit" /\ cpu'[k].i = cpu[k].i /\ cpu'[k].index = cpu[k].index
         /\ cpu'[k].owner = cpu[k].owner /\ cpu'[k].indicator = cpu[k].indicator /\ cpu'[k].hit = cpu[k].hit
      BY <1>1, <1>2, <2>5, Jumped, AllPlaces
    <3> QED
      BY <2>1, <2>2, <2>5, <3>1
         DEF WriteAt, WritePlaces, LastPlaces, Moves, WriteFound, WriteReady, WriteAccepted, Omitting
  <2> QED
    BY <2>3, <2>4, <2>5
<1> QED
  BY <1>4, <1>5, <1>6, <1>7, <1>8, <1>9, <1>10, <1>11, <1>12 DEF WriteStep

----------------------------------------------------------------------------
(* One CPU: Tracer on the maps as they were before the program.            *)

\* The tables are scanned and changed by the same operators.
LEMMA SameScans ==
  ASSUME NEW keys, NEW p
  PROVE  /\ Atomic!Finds(keys, p) <=> Finds(keys, p)
         /\ Atomic!IsFull(keys) <=> IsFull(keys)
         /\ Atomic!CanRemove(keys, p) <=> CanRemove(keys, p)
         /\ Atomic!FirstFree(keys) = FirstFree(keys)
         /\ Atomic!FirstHit(keys, p) = FirstHit(keys, p)
         /\ Atomic!LastHit(keys, p) = LastHit(keys, p)
<1>1. Atomic!FreeSlots(keys) = FreeSlots(keys) /\ Atomic!Hits(keys, p) = Hits(keys, p)
  BY DEF Atomic!FreeSlots, FreeSlots, Atomic!Hits, Hits, Atomic!Scanned, Scanned
<1> QED
  BY <1>1 DEF Atomic!Finds, Finds, Atomic!IsFull, IsFull, Atomic!CanRemove, CanRemove,
     Atomic!FirstFree, FirstFree, Atomic!FirstHit, FirstHit, Atomic!LastHit, LastHit,
     Atomic!Min, Min, Atomic!Max, Max

LEMMA SameRemoval ==
  ASSUME NEW table, NEW keys, NEW p, NEW empty
  PROVE  Atomic!SwapOut(table, keys, p, empty) = SwapOut(table, keys, p, empty)
  BY SameScans DEF Atomic!SwapOut, SwapOut

LEMMA SameEntries == Atomic!NoChild = NoChild /\ Atomic!NoShell = NoShell
  BY DEF Atomic!NoChild, NoChild, Atomic!NoShell, NoShell

LEMMA BeforeIs ==
  ASSUME NEW k, Cpu = {k}
  PROVE  /\ At(k, "idle") => Before = Maps
         /\ ~At(k, "idle") => Before = cpu[k].maps
<1>1. CASE At(k, "idle")
  BY <1>1 DEF Before, Busy
<1>2. CASE ~At(k, "idle")
  <2>1. Busy = {k}
    BY <1>2 DEF Busy
  <2>2. (CHOOSE j \in Busy : TRUE) = k
    BY <2>1
  <2> QED
    BY <1>2, <2>1, <2>2 DEF Before
<1> QED
  BY <1>1, <1>2

LEMMA BeforeAfter ==
  ASSUME NEW k, Cpu = {k}
  PROVE  /\ At(k, "idle")' => Before' = Maps'
         /\ ~At(k, "idle")' => Before' = cpu'[k].maps
<1>1. CASE At(k, "idle")'
  BY <1>1 DEF Before, Busy
<1>2. CASE ~At(k, "idle")'
  <2>1. Busy' = {k}
    BY <1>2 DEF Busy
  <2>2. (CHOOSE j \in Busy' : TRUE) = k
    BY <2>1
  <2> QED
    BY <1>2, <2>1, <2>2 DEF Before
<1> QED
  BY <1>1, <1>2

----------------------------------------------------------------------------
(* One CPU: the invariant.                                                 *)

\* A program's own steps touch neither processes nor nhid.
LEMMA StepFrame ==
  ASSUME NEW k \in Cpu, KillStep(k) \/ ForkStep(k) \/ ExitStep(k) \/ WriteStep(k) \/ SubmitStep(k)
  PROVE  UNCHANGED <<procVars, loaded, nhidVars>>
<1>1. CASE KillStep(k)
  BY <1>1 DEF KillStep, ScanChildrenFor, ScanShellsFor, CopyChild, ZeroChild, ReadIndicator, vars
<1>2. CASE ForkStep(k)
  BY <1>2 DEF ForkStep, ScanChildrenFor, ScanShellsFor, ReadOwner, vars
<1>3. CASE ExitStep(k)
  BY <1>3 DEF ExitStep, ScanChildrenFor, ScanShellsFor, CopyChild, ZeroChild, vars
<1>4. CASE WriteStep(k)
  BY <1>4 DEF WriteStep, WriteShells, SetOmit, ScanChildrenFor, ScanShellsFor, ReadOwner,
              ReadIndicator, vars
<1>5. CASE SubmitStep(k)
  BY <1>5 DEF SubmitStep
<1> QED
  BY <1>1, <1>2, <1>3, <1>4, <1>5

LEMMA SubmitProgress ==
  ASSUME NEW k \in Cpu, OneCpuInv(k), SubmitStep(k)
  PROVE  Moves(k) /\ ProgressOK(cpu[k])'
<1>1. ~At(k, "idle") /\ cpu[k].at = "submit" /\ Jump(k, "return")
  BY DEF SubmitStep, At
<1>2. ProgramInv /\ ProgressOK(cpu[k]) /\ cpu[k].maps \in MapsRecord /\ cpu[k].call \in Call
  BY <1>1, OnTheCpu
<1>3. /\ Moves(k) /\ cpu'[k].at = "return" /\ cpu'[k].i = cpu[k].i
      /\ cpu'[k].owner = cpu[k].owner /\ cpu'[k].indicator = cpu[k].indicator
      /\ cpu'[k].hit = cpu[k].hit /\ cpu'[k].pid = cpu[k].pid
      /\ cpu'[k].call = cpu[k].call /\ cpu'[k].maps = cpu[k].maps
  BY <1>1, <1>2, Jumped, AllPlaces DEF Moves
<1>4. EventOf(cpu'[k]) = EventOf(cpu[k])
  BY <1>3 DEF EventOf
<1>5. shells' = shells /\ children' = children /\ born' = born
      /\ (ring = cpu[k].maps.ring => ring' = Sent(cpu[k].maps, EventOf(cpu'[k])))
  BY <1>4 DEF SubmitStep, Submit, Sent, procVars
<1>6. CASE cpu[k].call.name = "kill"
  <2>1. KillAt(cpu[k])
    BY <1>2, <1>6 DEF ProgressOK
  <2>2. KillAt(cpu[k])'
    BY <1>1, <1>3, <1>5, <2>1 DEF KillAt, KillPlaces, LastPlaces, KillDone
  <2> QED
    BY <1>3, <1>6, <2>2 DEF ProgressOK
<1>7. CASE cpu[k].call.name = "fork"
  <2>1. ForkAt(cpu[k])
    BY <1>2, <1>7 DEF ProgressOK
  <2>2. ForkAt(cpu[k])'
    BY <1>1, <1>3, <1>5, <2>1 DEF ForkAt, ForkPlaces, LastPlaces, ForkDone
  <2> QED
    BY <1>3, <1>7, <2>2 DEF ProgressOK
<1>8. CASE cpu[k].call.name = "exit"
  <2>1. ExitAt(cpu[k])
    BY <1>2, <1>8 DEF ProgressOK
  <2>2. ExitAt(cpu[k])'
    BY <1>1, <1>3, <1>5, <2>1 DEF ExitAt, ExitPlaces, LastPlaces, ShellRemoved, ShellToRemove
  <2> QED
    BY <1>3, <1>8, <2>2 DEF ProgressOK
<1>9. CASE cpu[k].call.name = "write"
  <2>1. WriteAt(cpu[k])
    BY <1>2, <1>9 DEF ProgressOK
  <2>2. WriteAt(cpu[k])'
    BY <1>1, <1>3, <1>5, <2>1
       DEF WriteAt, WritePlaces, LastPlaces, WriteAccepted, WriteReady, WriteFound, Omitting
  <2> QED
    BY <1>3, <1>9, <2>2 DEF ProgressOK
<1> QED
  BY <1>2, <1>6, <1>7, <1>8, <1>9 DEF Call

\* A program goes on with what it was called with, and knows how far it has come.
LEMMA StepGoesOn ==
  ASSUME NEW k \in Cpu, OneCpuInv(k),
         KillStep(k) \/ ForkStep(k) \/ ExitStep(k) \/ WriteStep(k) \/ SubmitStep(k)
  PROVE  ~At(k, "idle") /\ ~At(k, "idle")' /\ Moves(k) /\ ProgressOK(cpu[k])'
<1>1. ~At(k, "idle")
  BY DEF KillStep, ForkStep, ExitStep, WriteStep, WriteShells, SubmitStep, At
<1>2. Moves(k) /\ ProgressOK(cpu[k])'
  <2>1. CASE KillStep(k)
    <3>1. cpu[k].call.name = "kill"
      BY <1>1, <2>1, OnTheCpu DEF Serves, KillStep, At, KillPlaces
    <3> QED
      BY <2>1, <3>1, KillStepProgress DEF ProgressOK, Moves
  <2>2. CASE ForkStep(k)
    <3>1. cpu[k].call.name = "fork"
      BY <1>1, <2>2, OnTheCpu DEF Serves, ForkStep, At, ForkPlaces
    <3> QED
      BY <2>2, <3>1, ForkStepProgress DEF ProgressOK, Moves
  <2>3. CASE ExitStep(k)
    <3>1. cpu[k].call.name = "exit"
      BY <1>1, <2>3, OnTheCpu DEF Serves, ExitStep, At, ExitPlaces
    <3> QED
      BY <2>3, <3>1, ExitStepProgress DEF ProgressOK, Moves
  <2>4. CASE WriteStep(k)
    <3>1. cpu[k].call.name = "write"
      BY <1>1, <2>4, OnTheCpu DEF Serves, WriteStep, WriteShells, At, WritePlaces
    <3> QED
      BY <2>4, <3>1, WriteStepProgress DEF ProgressOK, Moves
  <2> QED
    BY <2>1, <2>2, <2>3, <2>4, SubmitProgress
<1>3. cpu'[k].at \in Places
  BY <1>2 DEF Moves, ProgramRecord
<1>4. ~At(k, "idle")'
  BY <1>3 DEF At, Places, KillPlaces, ForkPlaces, ExitPlaces, WritePlaces, LastPlaces
<1> QED
  BY <1>1, <1>2, <1>4

\* Only the entry of a new process makes a shell of none up.
LEMMA OwnedStays ==
  ASSUME NEW k \in Cpu, OneCpuInv(k),
         KillStep(k) \/ ForkStep(k) \/ ExitStep(k) \/ WriteStep(k) \/ SubmitStep(k)
  PROVE  Owned(children)'
<1> DEFINE Copied == \E a, b \in 0 .. MaxChildren - 1 :
                       children' = [children EXCEPT ![a] = children[b]]
           Zeroed == \E a \in 0 .. MaxChildren - 1 : children' = [children EXCEPT ![a] = NoChild]
           Added == \E a \in 0 .. MaxChildren - 1 : \E c, owner \in Pid :
                      children' = [children EXCEPT ![a] = [child |-> c, shell |-> owner]]
<1>0. /\ ProgramInv /\ Owned(children) /\ children \in [0 .. MaxChildren - 1 -> Child]
      /\ ~At(k, "idle") => Fits(cpu[k].at, cpu[k].i, cpu[k].index)
  BY OnTheCpu DEF OneCpuInv, ProgramInv, TypeOK
<1>1. children' = children \/ Copied \/ Zeroed \/ Added
  <2>1. ASSUME NEW place, At(k, "kill_copy") \/ At(k, "exit_copy_child"), CopyChild(k, place)
        PROVE  Copied
    <3>1. cpu[k].i \in 0 .. MaxChildren - 1 /\ cpu[k].index \in 0 .. MaxChildren - 1
      BY <1>0, <2>1 DEF At, Fits, ChildReads, InChildren
    <3> QED
      BY <2>1, <3>1 DEF CopyChild, ChildAt
  <2>2. ASSUME NEW place, At(k, "kill_zero") \/ At(k, "exit_zero_child"), ZeroChild(k, place)
        PROVE  Zeroed
    <3>1. cpu[k].i \in 0 .. MaxChildren - 1
      BY <1>0, <2>2 DEF At, Fits, ChildReads, InChildren
    <3> QED
      BY <2>2, <3>1 DEF ZeroChild
  <2>3. CASE KillStep(k)
    BY <2>1, <2>2, <2>3 DEF KillStep, ScanChildrenFor, ScanShellsFor, ReadIndicator, vars, mapVars
  <2>4. CASE ExitStep(k)
    BY <2>1, <2>2, <2>4 DEF ExitStep, ScanChildrenFor, ScanShellsFor, vars, mapVars
  <2>5. CASE WriteStep(k) \/ SubmitStep(k)
    BY <2>5 DEF WriteStep, WriteShells, SetOmit, SubmitStep, ScanChildrenFor, ScanShellsFor,
                ReadOwner, ReadIndicator, vars, mapVars
  <2>6. CASE ForkStep(k)
    <3>1. ASSUME At(k, "fork_add"),
                 children' = [children EXCEPT ![cpu[k].i] =
                                [child |-> cpu[k].call.child, shell |-> cpu[k].owner]]
          PROVE  Added
      <4>1. ~At(k, "idle") /\ cpu[k].at = "fork_add"
        BY <3>1 DEF At
      <4>2. /\ cpu[k].call \in Call /\ cpu[k].call.name = "fork"
            /\ cpu[k].owner \in Pid \cup {NoPid} /\ ForkAt(cpu[k])
        BY <4>1, OnTheCpu DEF Serves, ForkPlaces, ProgressOK
      <4>3. cpu[k].call.child \in Pid /\ cpu[k].owner \in Pid
        BY <4>1, <4>2 DEF Call, ForkAt
      <4>4. cpu[k].i \in 0 .. MaxChildren - 1
        BY <1>0, <4>1 DEF Fits, ChildReads, InChildren
      <4> QED
        BY <3>1, <4>3, <4>4
    <3> QED
      BY <2>6, <3>1 DEF ForkStep, ScanChildrenFor, ScanShellsFor, ReadOwner, vars, mapVars
  <2> QED
    BY <2>3, <2>4, <2>5, <2>6
<1>2. CASE children' = children
  BY <1>0, <1>2 DEF Owned
<1>3. CASE Copied
  BY <1>0, <1>3 DEF Owned
<1>4. CASE Zeroed
  BY <1>0, <1>4 DEF Owned, NoChild
<1>5. CASE Added
  BY <1>0, <1>5, PidAssumption DEF Owned
<1> QED
  BY <1>1, <1>2, <1>3, <1>4, <1>5

\* A program that starts knows that the maps are what it started from.
LEMMA EnterProgress ==
  ASSUME NEW k \in Cpu, OneCpuInv(k),
         EnterKill(k) \/ EnterFork(k) \/ EnterExit(k) \/ EnterWrite(k)
  PROVE  /\ At(k, "idle") /\ ~At(k, "idle")' /\ UNCHANGED vars
         /\ cpu'[k].maps = Maps /\ Running(cpu'[k].pid) /\ ProgressOK(cpu[k])'
<1>1. PICK t \in Pid, place \in Places, call \in Call :
        /\ Enter(k, t, place, call)
        /\ \/ call.name = "kill" /\ call.sig = "SIGUSR" /\ place = "kill_find"
           \/ call.name = "kill" /\ call.sig = "SIGRTMIN" /\ place = "submit"
           \/ call.name = "fork" /\ call.child \notin born /\ place = "fork_shells"
           \/ call.name = "exit" /\ t # Root /\ place = "exit_shells"
           \/ call.name = "write" /\ place = "write_children"
  <2>1. CASE EnterKill(k)
    <3>1. PICK s \in ShellPid :
            \/ Enter(k, s, "kill_find", [name |-> "kill", sig |-> "SIGUSR"])
            \/ Enter(k, s, "submit", [name |-> "kill", sig |-> "SIGRTMIN"])
      BY <2>1 DEF EnterKill
    <3>2. s \in Pid
      BY PidAssumption
    <3> QED
      BY <3>1, <3>2, Calls, AllPlaces
  <2>2. CASE EnterFork(k)
    <3>1. PICK t \in Pid, c \in Pid :
            c \notin born /\ Enter(k, t, "fork_shells", [name |-> "fork", child |-> c])
      BY <2>2 DEF EnterFork
    <3>2. [name |-> "fork", child |-> c] \in Call
      BY Calls
    <3> QED
      BY <3>1, <3>2, AllPlaces
  <2>3. CASE EnterExit(k)
    <3>1. PICK t \in Pid \ {Root} : Enter(k, t, "exit_shells", [name |-> "exit"])
      BY <2>3 DEF EnterExit
    <3> QED
      BY <3>1, Calls, AllPlaces
  <2>4. CASE EnterWrite(k)
    <3>1. PICK t \in Pid, data \in Data :
            Enter(k, t, "write_children", [name |-> "write", data |-> data])
      BY <2>4 DEF EnterWrite
    <3>2. [name |-> "write", data |-> data] \in Call
      BY Calls
    <3> QED
      BY <3>1, <3>2, AllPlaces
  <2> QED
    BY <2>1, <2>2, <2>3, <2>4
<1>2. At(k, "idle") /\ UNCHANGED vars /\ Running(t) /\ DOMAIN cpu = Cpu
      /\ cpu' = [cpu EXCEPT ![k] = Program(t, place, call)]
  BY <1>1 DEF Enter, OneCpuInv, ProgramInv
<1>3. /\ cpu'[k].at = place /\ cpu'[k].pid = t /\ cpu'[k].call = call /\ cpu'[k].i = 0
      /\ cpu'[k].index = NotFound /\ cpu'[k].owner = NoPid
      /\ cpu'[k].indicator = NoIndicator /\ cpu'[k].hit = FALSE /\ cpu'[k].maps = Maps
  BY <1>2 DEF Program
<1>4. /\ shells' = shells /\ children' = children /\ ring' = ring /\ born' = born
      /\ tgid' = tgid /\ Maps \in MapsRecord
      /\ Maps.shells = shells /\ Maps.children = children /\ Maps.ring = ring
  BY <1>2 DEF vars, procVars, mapVars, OneCpuInv, ProgramInv, TypeOK, Maps, MapsRecord
<1>5. /\ \A p : Missed(ShellsOf(Maps), p, 0) /\ Noted(ShellsOf(Maps), p, 0, NotFound)
      /\ \A p : Missed(ChildrenOf(Maps), p, 0) /\ Noted(ChildrenOf(Maps), p, 0, NotFound)
  <2>1. /\ DOMAIN ShellsOf(Maps) = 0 .. MaxShells - 1 /\ MaxShells \in Nat
        /\ DOMAIN ChildrenOf(Maps) = 0 .. MaxChildren - 1 /\ MaxChildren \in Nat
    BY <1>4, ColumnsOf, SizeAssumption
  <2> QED
    BY <2>1, ScanStarts
<1>6. ~At(k, "idle")'
  BY <1>1, <1>3 DEF At
<1>7. Running(cpu'[k].pid)
  BY <1>2, <1>3 DEF Running
<1>8. CASE call.name = "kill"
  <2>1. KillAt(cpu[k])'
    BY <1>1, <1>3, <1>4, <1>5, <1>8 DEF KillAt, KillPlaces, LastPlaces, KillDone
  <2> QED
    BY <1>2, <1>3, <1>6, <1>7, <1>8, <2>1 DEF ProgressOK
<1>9. CASE call.name = "fork"
  <2>1. ForkAt(cpu[k])'
    BY <1>1, <1>3, <1>4, <1>5, <1>9 DEF ForkAt, ForkPlaces, LastPlaces
  <2> QED
    BY <1>2, <1>3, <1>6, <1>7, <1>9, <2>1 DEF ProgressOK
<1>10. CASE call.name = "exit"
  <2>1. ExitAt(cpu[k])'
    BY <1>1, <1>3, <1>4, <1>5, <1>10 DEF ExitAt, ExitPlaces, LastPlaces
  <2> QED
    BY <1>2, <1>3, <1>6, <1>7, <1>10, <2>1 DEF ProgressOK
<1>11. CASE call.name = "write"
  <2>1. WriteAt(cpu[k])'
    BY <1>1, <1>3, <1>4, <1>5, <1>11 DEF WriteAt, WritePlaces, LastPlaces
  <2> QED
    BY <1>2, <1>3, <1>6, <1>7, <1>11, <2>1 DEF ProgressOK
<1> QED
  BY <1>1, <1>8, <1>9, <1>10, <1>11

LEMMA InitOneCpu ==
  ASSUME ProgramsInit, NEW k \in Cpu
  PROVE  OneCpuInv(k)
<1>1. ProgramInv /\ At(k, "idle") /\ loaded = TRUE
  BY InitProgramInv DEF ProgramsInit, Init, At, Idling
<1>2. \A t \in Pid : tgid[t] \in {t, NoPid}
  BY DEF ProgramsInit, Init
<1>3. Owned(children)
  BY DEF ProgramsInit, Init, Owned, NoChildren, NoChild
<1> QED
  BY <1>1, <1>2, <1>3 DEF OneCpuInv

LEMMA StepKeepsOneCpuInv ==
  ASSUME NEW k, Cpu = {k}, OneCpuInv(k), [ProgramsNext]_programVars
  PROVE  OneCpuInv(k)'
<1>0. ProgramInv' /\ k \in Cpu
  BY StepKeepsProgramInv DEF OneCpuInv
<1>1. CASE KillStep(k) \/ ForkStep(k) \/ ExitStep(k) \/ WriteStep(k) \/ SubmitStep(k)
  <2>1. ~At(k, "idle") /\ Moves(k) /\ ProgressOK(cpu[k])' /\ Owned(children)'
    BY <1>0, <1>1, StepGoesOn, OwnedStays
  <2>2. tgid' = tgid /\ loaded' = loaded
    BY <1>0, <1>1, StepFrame DEF procVars
  <2>3. cpu'[k].pid = cpu[k].pid /\ cpu'[k].maps = cpu[k].maps
    BY <2>1 DEF Moves
  <2> QED
    BY <1>0, <2>1, <2>2, <2>3 DEF OneCpuInv, Running, Owned
<1>2. CASE EnterKill(k) \/ EnterFork(k) \/ EnterExit(k) \/ EnterWrite(k)
  <2>1. /\ UNCHANGED vars /\ cpu'[k].maps = Maps /\ Running(cpu'[k].pid)
        /\ ProgressOK(cpu[k])'
    BY <1>0, <1>2, EnterProgress
  <2>2. tgid' = tgid /\ loaded' = loaded /\ children' = children /\ cpu'[k].maps.children = children
    BY <2>1 DEF vars, procVars, mapVars, Maps
  <2> QED
    BY <1>0, <2>1, <2>2 DEF OneCpuInv, Running, Owned
<1>3. CASE Return(k)
  <2>1. At(k, "idle")' /\ loaded' = loaded /\ children' = children
    BY <1>0, <1>3 DEF Return, Update, At, Idling, mapVars, OneCpuInv, ProgramInv
  <2>2. \A t \in Pid : tgid'[t] \in {t, NoPid}
    <3>1. ~At(k, "idle") /\ tgid \in [Pid -> Pid \cup {NoPid}]
      BY <1>3 DEF Return, At, OneCpuInv, ProgramInv, TypeOK
    <3> QED
      BY <1>3, <3>1 DEF Return, OneCpuInv, procVars
  <2> QED
    BY <1>0, <2>1, <2>2 DEF OneCpuInv, Owned
<1>4. CASE NhidOn(k)
  <2>1. At(k, "idle") /\ cpu' = cpu
    BY <1>4 DEF NhidOn
  <2>2. tgid' = tgid /\ loaded' = loaded /\ children' = children
    BY <1>4 DEF NhidOn, StartRegistration, ScanSlot, InspectShell, RegistrationFails, Register,
                Consume, procVars, mapVars
  <2> QED
    BY <1>0, <2>1, <2>2 DEF OneCpuInv, Owned, At
<1>5. CASE UNCHANGED programVars
  <2>1. /\ cpu' = cpu /\ tgid' = tgid /\ loaded' = loaded /\ children' = children
        /\ shells' = shells /\ ring' = ring /\ born' = born
    BY <1>5 DEF programVars, vars, procVars, mapVars
  <2>2. ProgressOK(cpu[k])' <=> ProgressOK(cpu[k])
    BY <2>1 DEF ProgressOK, KillAt, KillDone, ChildToRemove, ForkAt, ForkDone, ExitAt, ShellRemoved,
       Maps, WriteAt, WriteAccepted, Omitting
  <2> QED
    BY <1>0, <2>1, <2>2 DEF OneCpuInv, Owned, At, Running
<1> QED
  BY <1>1, <1>2, <1>3, <1>4, <1>5 DEF ProgramsNext

----------------------------------------------------------------------------
(* One CPU: each step is a step of Tracer or a stutter.  A program's step  *)
(* in Tracer is taken when it returns.                                     *)

LEMMA SameColumns ==
  ASSUME NEW m, Before = m
  PROVE  Atomic!ShellKeys = ShellsOf(m) /\ Atomic!ChildKeys = ChildrenOf(m)
  BY DEF Atomic!ShellKeys, Atomic!ChildKeys, ShellsOf, ChildrenOf

\* Submitting at the end of a program is submitting to the ring it started from.
LEMMA SentIsSubmitted ==
  ASSUME NEW m, NEW e, Before = m, Before' = Maps', ring' = Sent(m, e)
  PROVE  Atomic!Submit(e)
<1>1. Before'.ring = ring'
  BY DEF Maps
<1>2. Before.ring = m.ring
  OBVIOUS
<1> QED
  BY <1>1, <1>2 DEF Atomic!Submit, Sent

LEMMA StepStutters ==
  ASSUME NEW k, Cpu = {k}, OneCpuInv(k),
         KillStep(k) \/ ForkStep(k) \/ ExitStep(k) \/ WriteStep(k) \/ SubmitStep(k)
  PROVE  UNCHANGED Atomic!vars
<1>1. k \in Cpu
  OBVIOUS
<1>2. ~At(k, "idle") /\ ~At(k, "idle")' /\ Moves(k)
  BY <1>1, StepGoesOn
<1>3. Before = cpu[k].maps /\ Before' = cpu'[k].maps
  BY <1>2, BeforeIs, BeforeAfter
<1>4. Before' = Before
  BY <1>2, <1>3 DEF Moves
<1>5. UNCHANGED <<procVars, loaded, nhidVars>>
  BY <1>1, StepFrame
<1>6. UNCHANGED <<Before.shells, Before.children, Before.ring>>
  BY <1>4
<1> QED
  BY <1>5, <1>6 DEF Atomic!vars, Atomic!procVars, Atomic!mapVars, Atomic!nhidVars, procVars, nhidVars

LEMMA EnterStutters ==
  ASSUME NEW k, Cpu = {k}, OneCpuInv(k),
         EnterKill(k) \/ EnterFork(k) \/ EnterExit(k) \/ EnterWrite(k)
  PROVE  UNCHANGED Atomic!vars
<1>1. At(k, "idle") /\ ~At(k, "idle")' /\ UNCHANGED vars /\ cpu'[k].maps = Maps
  BY EnterProgress
<1>2. Before = Maps /\ Before' = Maps
  BY <1>1, BeforeIs, BeforeAfter
<1>3. UNCHANGED <<Before.shells, Before.children, Before.ring>>
  BY <1>2
<1> QED
  BY <1>1, <1>3 DEF Atomic!vars, Atomic!procVars, Atomic!mapVars, Atomic!nhidVars,
     vars, procVars, nhidVars

\* What nhid does while no program runs is done to the maps themselves.
LEMMA NhidImplements ==
  ASSUME NEW k, Cpu = {k}, NhidOn(k)
  PROVE  Atomic!Next
<1>1. At(k, "idle") /\ At(k, "idle")'
  BY DEF NhidOn, At
<1>2. Before = Maps /\ Before' = Maps'
  BY <1>1, BeforeIs, BeforeAfter
<1>3. /\ Before.shells = shells /\ Before.children = children /\ Before.ring = ring
      /\ Before'.shells = shells' /\ Before'.children = children' /\ Before'.ring = ring'
  BY <1>2 DEF Maps
<1>4. CASE StartRegistration
  <2>1. Atomic!StartRegistration
    BY <1>3, <1>4 DEF StartRegistration, Atomic!StartRegistration, Idle, Atomic!Idle,
       IsRegistration, Atomic!IsRegistration, Atomic!procVars, Atomic!mapVars, procVars, mapVars
  <2> QED
    BY <2>1 DEF Atomic!Next, Atomic!NhidStep
<1>5. CASE ScanSlot
  <2>1. Atomic!ScanSlot
    BY <1>3, <1>5 DEF ScanSlot, Atomic!ScanSlot, Atomic!procVars, Atomic!mapVars, procVars, mapVars
  <2> QED
    BY <2>1 DEF Atomic!Next, Atomic!NhidStep
<1>6. CASE InspectShell
  <2>1. Atomic!InspectShell
    BY <1>3, <1>6 DEF InspectShell, Atomic!InspectShell, Running, Atomic!Running,
       Atomic!procVars, Atomic!mapVars, procVars, mapVars
  <2> QED
    BY <2>1 DEF Atomic!Next, Atomic!NhidStep
<1>7. CASE RegistrationFails
  <2>1. Atomic!RegistrationFails
    BY <1>3, <1>7 DEF RegistrationFails, Atomic!RegistrationFails, NoRegistration,
       Atomic!NoRegistration, Atomic!procVars, procVars
  <2> QED
    BY <2>1 DEF Atomic!Next, Atomic!NhidStep
<1>8. CASE Register
  <2>1. Atomic!Register
    BY <1>3, <1>8 DEF Register, Atomic!Register, NoRegistration, Atomic!NoRegistration,
       Atomic!procVars, procVars
  <2> QED
    BY <2>1 DEF Atomic!Next, Atomic!NhidStep
<1>9. CASE Consume
  <2>1. Atomic!Consume
    BY <1>3, <1>9 DEF Consume, Atomic!Consume, Idle, Atomic!Idle,
       IsRegistration, Atomic!IsRegistration, Atomic!procVars, procVars,
       Atomic!nhidVars, nhidVars
  <2> QED
    BY <2>1 DEF Atomic!Next, Atomic!NhidStep
<1> QED
  BY <1>4, <1>5, <1>6, <1>7, <1>8, <1>9 DEF NhidOn

\* What a returning program leaves behind.
LEMMA Returning ==
  ASSUME NEW k, Cpu = {k}, OneCpuInv(k), Return(k)
  PROVE  /\ cpu[k].at = "return" /\ ProgressOK(cpu[k]) /\ ProgramOK(cpu[k])
         /\ cpu[k] \in ProgramRecord /\ cpu[k].pid \in Pid
         /\ Running(cpu[k].pid) /\ tgid[cpu[k].pid] = cpu[k].pid /\ loaded = TRUE
         /\ Before = cpu[k].maps /\ Before' = Maps'
         /\ Before'.shells = shells /\ Before'.children = children /\ Before'.ring = ring
         /\ shells' = shells /\ children' = children /\ ring' = ring
         /\ UNCHANGED <<loaded, reg, granted>>
<1>1. k \in Cpu /\ ~At(k, "idle") /\ cpu[k].at = "return"
  BY DEF Return, At
<1>2. /\ ProgressOK(cpu[k]) /\ ProgramOK(cpu[k]) /\ cpu[k] \in ProgramRecord
      /\ cpu[k].pid \in Pid
  BY <1>1, OnTheCpu, RunningProgram DEF ProgramRecord
<1>3. Running(cpu[k].pid) /\ tgid[cpu[k].pid] = cpu[k].pid /\ loaded = TRUE
  BY <1>1, <1>2 DEF OneCpuInv, Running
<1>4. At(k, "idle")'
  BY <1>1 DEF Return, Update, At, Idling, OneCpuInv, ProgramInv
<1>5. Before = cpu[k].maps /\ Before' = Maps'
  BY <1>1, <1>4, BeforeIs, BeforeAfter
<1>6. shells' = shells /\ children' = children /\ ring' = ring /\ UNCHANGED <<loaded, reg, granted>>
  BY DEF Return, mapVars, nhidVars
<1> QED
  BY <1>1, <1>2, <1>3, <1>5, <1>6 DEF Maps

LEMMA KillImplements ==
  ASSUME NEW k, Cpu = {k}, OneCpuInv(k), Return(k), IsCall(k, "kill")
  PROVE  Atomic!Next
<1> DEFINE m == cpu[k].maps
           s == cpu[k].pid
           sig == cpu[k].call.sig
<1>1. /\ Before = m /\ Before' = Maps' /\ Before'.shells = shells /\ Before'.children = children
      /\ ring' = ring /\ loaded = TRUE /\ Running(s) /\ UNCHANGED <<loaded, reg, granted>>
      /\ cpu[k].at = "return"
  BY Returning
<1>2. KillAt(cpu[k]) /\ s \in ShellPid /\ sig \in {"SIGUSR", "SIGRTMIN"}
  BY Returning DEF ProgressOK, ProgramOK, ProgramRecord, Call, IsCall
<1>3. /\ shells = m.shells /\ ring = Sent(m, EventOf(cpu[k]))
      /\ children = IF sig = "SIGUSR" THEN Unlinked(m, s) ELSE m.children
      /\ cpu[k].indicator = IF sig = "SIGUSR" THEN IndicatorIn(m, OwnerIn(m, s)) ELSE NoIndicator
  BY <1>1, <1>2 DEF KillAt, KillDone, LastPlaces
<1>4. EventOf(cpu[k]) = [type |-> "kill", pid |-> s, sig |-> sig, parent |-> cpu[k].indicator]
  BY DEF EventOf, IsCall
<1>5. Atomic!ShellKeys = ShellsOf(m) /\ Atomic!ChildKeys = ChildrenOf(m)
  BY <1>1, SameColumns
<1>6. Unlinked(m, s) = IF Atomic!CanRemove(Atomic!ChildKeys, s)
                       THEN Atomic!SwapOut(Before.children, Atomic!ChildKeys, s, Atomic!NoChild)
                       ELSE Before.children
  BY <1>1, <1>5, SameScans, SameRemoval, SameEntries DEF Unlinked
<1>7. Atomic!ParentIndicator(s) = IndicatorIn(m, OwnerIn(m, s))
  <2>1. ~Finds(ShellsOf(m), NoPid)
    <3>1. \A i \in Hits(ShellsOf(m), NoPid) : i \in FreeSlots(ShellsOf(m)) /\ i < i
      BY DEF Hits, Scanned, FreeSlots
    <3>2. Hits(ShellsOf(m), NoPid) \subseteq Int
      BY SizeAssumption DEF Hits, Scanned, ShellsOf
    <3> QED
      BY <3>1, <3>2 DEF Finds
  <2>2. /\ Atomic!Finds(Atomic!ChildKeys, s) <=> Finds(ChildrenOf(m), s)
        /\ Atomic!LastHit(Atomic!ChildKeys, s) = LastHit(ChildrenOf(m), s)
    BY <1>5, SameScans
  <2>3. ASSUME NEW parent
        PROVE  /\ Atomic!Finds(Atomic!ShellKeys, parent) <=> Finds(ShellsOf(m), parent)
               /\ Atomic!FirstHit(Atomic!ShellKeys, parent) = FirstHit(ShellsOf(m), parent)
    BY <1>5, SameScans
  <2>4. CASE Finds(ChildrenOf(m), s)
    BY <1>1, <2>2, <2>3, <2>4 DEF Atomic!ParentIndicator, IndicatorIn, OwnerIn
  <2>5. CASE ~Finds(ChildrenOf(m), s)
    BY <2>1, <2>2, <2>5 DEF Atomic!ParentIndicator, IndicatorIn, OwnerIn
  <2> QED
    BY <2>4, <2>5
<1>8. Atomic!Submit(EventOf(cpu[k]))
  BY <1>1, <1>3, SentIsSubmitted
<1>9. UNCHANGED <<tgid, born, kin>>
  BY DEF Return, IsCall, procVars
<1>10. Atomic!KillSomethingInfo(s, sig)
  BY <1>1, <1>2, <1>3, <1>4, <1>6, <1>7, <1>8, <1>9
     DEF Atomic!KillSomethingInfo, Atomic!Running, Running, Atomic!procVars, Atomic!nhidVars
<1> QED
  BY <1>2, <1>10 DEF Atomic!Next

LEMMA ForkImplements ==
  ASSUME NEW k, Cpu = {k}, OneCpuInv(k), Return(k), IsCall(k, "fork")
  PROVE  Atomic!Next
<1> DEFINE m == cpu[k].maps
           p == cpu[k].pid
           c == cpu[k].call.child
           keys == ChildrenOf(cpu[k].maps)
<1>1. /\ Before = m /\ Before' = Maps' /\ Before'.shells = shells /\ Before'.children = children
      /\ Before'.ring = ring /\ p \in Pid /\ tgid[p] = p
      /\ ring' = ring /\ loaded = TRUE /\ Running(p) /\ UNCHANGED <<loaded, reg, granted>>
      /\ cpu[k].at = "return"
  BY Returning
<1>2. ForkAt(cpu[k]) /\ c \in Pid
  BY Returning DEF ProgressOK, ProgramRecord, Call, IsCall
<1>3. shells = m.shells /\ c \notin born
  BY <1>2 DEF ForkAt
<1>4. \/ /\ ~IsFull(keys) /\ ForkOwnerIn(m, p) # NoPid
         /\ children = [m.children EXCEPT ![FirstFree(keys)] =
                                             [child |-> c, shell |-> ForkOwnerIn(m, p)]]
         /\ ring = Sent(m, [type |-> "child", shell |-> ForkOwnerIn(m, p), child |-> c])
      \/ /\ ForkOwnerIn(m, p) = NoPid \/ IsFull(keys)
         /\ children = m.children /\ ring = m.ring
  <2>1. EventOf(cpu[k]) = [type |-> "child", shell |-> cpu[k].owner, child |-> c]
    BY DEF EventOf, IsCall
  <2> QED
    BY <1>1, <1>2, <2>1 DEF ForkAt, ForkDone
<1>5. Atomic!ShellKeys = ShellsOf(m) /\ Atomic!ChildKeys = keys
  BY <1>1, SameColumns
<1>6. Atomic!ForkOwner(p) = ForkOwnerIn(m, p)
  BY <1>1, <1>5, SameScans DEF Atomic!ForkOwner, ForkOwnerIn
<1>7. (Atomic!IsFull(keys) <=> IsFull(keys)) /\ Atomic!FirstFree(keys) = FirstFree(keys)
  BY SameScans
<1>8. Atomic!ForkTracepoint(p, c)
  <2>1. CASE /\ ~IsFull(keys) /\ ForkOwnerIn(m, p) # NoPid
             /\ children = [m.children EXCEPT ![FirstFree(keys)] =
                                             [child |-> c, shell |-> ForkOwnerIn(m, p)]]
             /\ ring = Sent(m, [type |-> "child", shell |-> ForkOwnerIn(m, p), child |-> c])
    <3>1. Atomic!Submit([type |-> "child", shell |-> ForkOwnerIn(m, p), child |-> c])
      BY <1>1, <2>1, SentIsSubmitted
    <3> QED
      BY <1>1, <1>5, <1>6, <1>7, <2>1, <3>1 DEF Atomic!ForkTracepoint
  <2>2. CASE /\ ForkOwnerIn(m, p) = NoPid \/ IsFull(keys)
             /\ children = m.children /\ ring = m.ring
    BY <1>1, <1>5, <1>6, <1>7, <2>2 DEF Atomic!ForkTracepoint
  <2> QED
    BY <1>4, <2>1, <2>2
<1>9. /\ tgid' = [tgid EXCEPT ![c] = c] /\ born' = born \cup {c}
      /\ kin' = [kin EXCEPT ![c] = kin[p] \cup ({c} \cap ShellPid)]
  BY DEF Return, IsCall
<1>10. Atomic!Clone(p, c, c)
  BY <1>1, <1>2, <1>3, <1>8, <1>9 DEF Atomic!Clone, Atomic!Running, Running, Atomic!nhidVars
<1> QED
  BY <1>1, <1>2, <1>10 DEF Atomic!Next

LEMMA ExitImplements ==
  ASSUME NEW k, Cpu = {k}, OneCpuInv(k), Return(k), IsCall(k, "exit")
  PROVE  Atomic!Next
<1> DEFINE m == cpu[k].maps
           p == cpu[k].pid
<1>1. /\ Before = m /\ Before' = Maps' /\ Before'.shells = shells /\ Before'.children = children
      /\ Before'.ring = ring /\ p \in Pid /\ tgid[p] = p
      /\ ring' = ring /\ loaded = TRUE /\ Running(p) /\ UNCHANGED <<loaded, reg, granted>>
      /\ cpu[k].at = "return"
  BY Returning
<1>2. ExitAt(cpu[k])
  BY Returning DEF ProgressOK, IsCall
<1>3. p # Root
  BY <1>2 DEF ExitAt
<1>4. \/ m.shells[0].pid = NoPid /\ Maps = m
      \/ ShellRemoved(cpu[k]) /\ ring = Sent(m, EventOf(cpu[k])) /\ children = m.children
      \/ /\ NotAShell(cpu[k])
         /\ shells = m.shells /\ children = Unlinked(m, p) /\ ring = m.ring
  BY <1>1, <1>2 DEF ExitAt
<1>5. Atomic!ShellKeys = ShellsOf(m) /\ Atomic!ChildKeys = ChildrenOf(m)
  BY <1>1, SameColumns
<1>6. Atomic!ExitNoShells \/ Atomic!ExitShell(p) \/ Atomic!ExitChild(p)
  <2>1. CASE m.shells[0].pid = NoPid /\ Maps = m
    <3>1. Before'.shells = Before.shells /\ Before'.children = Before.children /\ Before'.ring = Before.ring
      BY <1>1, <2>1 DEF Maps
    <3> QED
      BY <1>1, <2>1, <3>1 DEF Atomic!ExitNoShells, Atomic!mapVars
  <2>2. CASE ShellRemoved(cpu[k]) /\ ring = Sent(m, EventOf(cpu[k])) /\ children = m.children
    <3>1. /\ CanRemove(ShellsOf(m), p)
          /\ cpu[k].indicator = m.shells[LastHit(ShellsOf(m), p)].indicator
          /\ shells = SwapOut(m.shells, ShellsOf(m), p, NoShell)
      BY <2>2 DEF ShellRemoved, ShellToRemove
    <3>2. EventOf(cpu[k]) = [type |-> "exit", pid |-> p, indicator |-> cpu[k].indicator]
      BY DEF EventOf, IsCall
    <3>3. Atomic!Submit(EventOf(cpu[k]))
      BY <1>1, <2>2, SentIsSubmitted
    <3>4. Before'.shells = Atomic!SwapOut(Before.shells, Atomic!ShellKeys, p, Atomic!NoShell)
      BY <1>1, <1>5, <3>1, SameRemoval, SameEntries
    <3>5. Atomic!CanRemove(Atomic!ShellKeys, p)
          /\ Atomic!LastHit(Atomic!ShellKeys, p) = LastHit(ShellsOf(m), p)
      BY <1>5, <3>1, SameScans
    <3>6. Atomic!Submit([type |-> "exit", pid |-> p,
            indicator |-> Before.shells[Atomic!LastHit(Atomic!ShellKeys, p)].indicator])
      BY <1>1, <3>1, <3>2, <3>3, <3>5
    <3>7. Before'.children = Before.children
      BY <1>1, <2>2
    <3> QED
      BY <3>4, <3>5, <3>6, <3>7 DEF Atomic!ExitShell
  <2>3. CASE /\ NotAShell(cpu[k])
             /\ shells = m.shells /\ children = Unlinked(m, p) /\ ring = m.ring
    <3>1. Before.shells[0].pid # NoPid /\ ~Atomic!CanRemove(Atomic!ShellKeys, p)
      BY <1>1, <1>5, <2>3, SameScans DEF NotAShell
    <3>2. Unlinked(m, p) = IF Atomic!CanRemove(Atomic!ChildKeys, p)
                       THEN Atomic!SwapOut(Before.children, Atomic!ChildKeys, p, Atomic!NoChild)
                       ELSE Before.children
      BY <1>1, <1>5, SameScans, SameRemoval, SameEntries DEF Unlinked
    <3> QED
      BY <1>1, <2>3, <3>1, <3>2 DEF Atomic!ExitChild
  <2> QED
    BY <1>4, <2>1, <2>2, <2>3
<1>7. tgid' = [tgid EXCEPT ![p] = NoPid] /\ UNCHANGED <<born, kin>>
  BY DEF Return, IsCall
<1>8. Atomic!DoExit(p)
  BY <1>1, <1>3, <1>6, <1>7 DEF Atomic!DoExit, Atomic!Running, Running, Atomic!nhidVars
<1> QED
  BY <1>1, <1>8 DEF Atomic!Next

LEMMA WriteImplements ==
  ASSUME NEW k, Cpu = {k}, OneCpuInv(k), Return(k), IsCall(k, "write")
  PROVE  UNCHANGED Atomic!vars \/ Atomic!Next
<1> DEFINE m == cpu[k].maps
           p == cpu[k].pid
           data == cpu[k].call.data
           owner == cpu[k].owner
           slot == cpu[k].i
<1>1. /\ Before = m /\ Before' = Maps' /\ Before'.shells = shells /\ Before'.children = children
      /\ Before'.ring = ring /\ p \in Pid /\ tgid[p] = p
      /\ ring' = ring /\ loaded = TRUE /\ Running(p) /\ UNCHANGED <<loaded, reg, granted>>
      /\ cpu[k].at = "return"
  BY Returning
<1>2. WriteAt(cpu[k]) /\ data \in Data /\ cpu[k].hit \in BOOLEAN
  BY Returning DEF ProgressOK, ProgramRecord, Call, IsCall
<1>3. /\ children = m.children
      /\ \/ shells = m.shells /\ ring = m.ring
         \/ WriteReady(cpu[k]) /\ Omitting(cpu[k], TRUE) /\ ring = m.ring
         \/ WriteAccepted(cpu[k]) /\ ring = Sent(m, EventOf(cpu[k]))
  BY <1>1, <1>2 DEF WriteAt
<1>4. UNCHANGED <<tgid, born, kin>>
  BY DEF Return, IsCall, procVars
<1>5. CASE shells = m.shells /\ ring = m.ring
  <2>1. Before'.shells = Before.shells /\ Before'.children = Before.children /\ Before'.ring = Before.ring
    BY <1>1, <1>3, <1>5
  <2> QED
    BY <1>1, <1>4, <2>1 DEF Atomic!vars, Atomic!procVars, Atomic!mapVars, Atomic!nhidVars
<1>6. ASSUME WriteReady(cpu[k]),
             \/ Omitting(cpu[k], TRUE) /\ ring = m.ring
             \/ WriteAccepted(cpu[k]) /\ ring = Sent(m, EventOf(cpu[k]))
      PROVE  Atomic!Next
  <2>1. Atomic!ShellKeys = ShellsOf(m) /\ Atomic!ChildKeys = ChildrenOf(m)
    BY <1>1, SameColumns
  <2>2. Atomic!WriteOwners(tgid[p]) = WriteOwnersIn(m, p)
    BY <1>1, <2>1, SameScans DEF Atomic!WriteOwners, WriteOwnersIn
  <2>3. Atomic!WriteSlots(owner) = WriteSlotsIn(m, owner)
    BY <1>1, <2>1, SameScans DEF Atomic!WriteSlots, WriteSlotsIn
  <2>4. /\ owner \in WriteOwnersIn(m, p) /\ slot \in WriteSlotsIn(m, owner)
        /\ cpu[k].indicator = IF slot < MaxShells THEN m.shells[slot].indicator ELSE NoIndicator
        /\ cpu[k].hit <=> Finds(ChildrenOf(m), p)
    BY <1>6 DEF WriteReady, WriteFound
  <2>5. EventOf(cpu[k]) = [type |-> "write", data |-> data, writer |-> p,
                           tracked |-> cpu[k].hit, indicator |-> cpu[k].indicator]
    BY DEF EventOf, IsCall
  <2>6. Atomic!Finds(ChildrenOf(m), p) \in BOOLEAN
        /\ (Atomic!Finds(ChildrenOf(m), p) <=> Finds(ChildrenOf(m), p))
    BY SameScans DEF Atomic!Finds
  <2>7. cpu[k].hit = Atomic!Finds(Atomic!ChildKeys, tgid[p])
    BY <1>1, <1>2, <2>1, <2>4, <2>6
  <2>8. EventOf(cpu[k]) = Atomic!WriteEventOf(p, data, slot)
    BY <1>1, <2>4, <2>5, <2>7 DEF Atomic!WriteEventOf
  <2>9. \/ Atomic!KsysWriteEnter(slot)
        \/ Atomic!KsysWriteLeave(p, data, slot)
        \/ Atomic!KsysWriteText(p, data, slot)
    <3>1. CASE Omitting(cpu[k], TRUE) /\ ring = m.ring
      BY <1>1, <3>1 DEF Omitting, Atomic!KsysWriteEnter
    <3>2. CASE WriteAccepted(cpu[k]) /\ ring = Sent(m, EventOf(cpu[k]))
      <4>1. Atomic!Submit(Atomic!WriteEventOf(p, data, slot))
        BY <1>1, <2>8, <3>2, SentIsSubmitted
      <4>2. CASE Omitting(cpu[k], FALSE)
        BY <1>1, <4>1, <4>2 DEF Omitting, Atomic!KsysWriteLeave
      <4>3. CASE shells = m.shells /\ (slot < MaxShells => ~shells[slot].omit)
        BY <1>1, <4>1, <4>3 DEF Atomic!KsysWriteText
      <4> QED
        BY <3>2, <4>2, <4>3 DEF WriteAccepted
    <3> QED
      BY <1>6, <3>1, <3>2
  <2>10. Before'.children = Before.children
    BY <1>1, <1>3
  <2>11. Atomic!KsysWrite(p, data)
    BY <1>1, <1>4, <2>2, <2>3, <2>4, <2>9, <2>10
       DEF Atomic!KsysWrite, Atomic!Running, Running, Atomic!procVars, Atomic!nhidVars
  <2> QED
    BY <1>1, <1>2, <2>11 DEF Atomic!Next
<1> QED
  BY <1>3, <1>5, <1>6 DEF WriteAccepted

LEMMA ReturnImplements ==
  ASSUME NEW k, Cpu = {k}, OneCpuInv(k), Return(k)
  PROVE  UNCHANGED Atomic!vars \/ Atomic!Next
<1>1. IsCall(k, "kill") \/ IsCall(k, "fork") \/ IsCall(k, "exit") \/ IsCall(k, "write")
  BY DEF Return
<1> QED
  BY <1>1, KillImplements, ForkImplements, ExitImplements, WriteImplements

LEMMA InitImplements ==
  ASSUME NEW k, Cpu = {k}, ProgramsInit
  PROVE  Atomic!Init
<1>1. At(k, "idle")
  BY DEF ProgramsInit, At, Idling
<1>2. Before = Maps
  BY <1>1, BeforeIs
<1> QED
  BY <1>2 DEF ProgramsInit, Init, Atomic!Init, Maps, NoShells, Atomic!NoShells, NoShell,
     Atomic!NoShell, NoChildren, Atomic!NoChildren, NoChild, Atomic!NoChild,
     NoRegistration, Atomic!NoRegistration

LEMMA StepImplements ==
  ASSUME NEW k, Cpu = {k}, OneCpuInv(k), [ProgramsNext]_programVars
  PROVE  [UNCHANGED Atomic!vars \/ Atomic!Next]_programVars
<1>1. CASE UNCHANGED programVars
  BY <1>1
<1>2. CASE ProgramsNext
  <2>1. \/ KillStep(k) \/ ForkStep(k) \/ ExitStep(k) \/ WriteStep(k) \/ SubmitStep(k)
        \/ EnterKill(k) \/ EnterFork(k) \/ EnterExit(k) \/ EnterWrite(k)
        \/ Return(k) \/ NhidOn(k)
    BY <1>2 DEF ProgramsNext
  <2> QED
    BY <2>1, StepStutters, EnterStutters, ReturnImplements, NhidImplements
<1> QED
  BY <1>1, <1>2

\* On one CPU nhi.bpf.c does what Tracer says: each program, with its loops, early
\* returns and falls through behind a full table, has in sum the effect on the
\* maps that Tracer's action for it has, and nhid's system calls between the
\* programs have theirs (nhi.bpf.c:51-421).
THEOREM ProgramsImplementTracer ==
  ASSUME NEW k, Cpu = {k}
  PROVE  ProgramsSpec => AtomicSpec
<1>1. ProgramsInit => OneCpuInv(k)
  BY InitOneCpu
<1>2. OneCpuInv(k) /\ [ProgramsNext]_programVars => OneCpuInv(k)'
  BY StepKeepsOneCpuInv
<1>3. ProgramsInit => Atomic!Init
  BY InitImplements
<1>4. OneCpuInv(k) /\ [ProgramsNext]_programVars => [UNCHANGED Atomic!vars \/ Atomic!Next]_programVars
  BY StepImplements
<1> QED
  BY <1>1, <1>2, <1>3, <1>4, PTL DEF ProgramsSpec, AtomicSpec
============================================================================
