---------------------------- MODULE MCPrograms ----------------------------
(* Instances of Programs for TLC. *)
EXTENDS Programs, TLC

CONSTANTS root, s1, s2, c1, i1, i2, d, cpu0, cpu1

\* Exchanging the shells, the indicators or the CPUs changes nothing.
ProgramsSymmetry ==
  Permutations(ShellPid) \cup Permutations(Indicator) \cup Permutations(Cpu)

\* A state of Programs to look on from: two shells are registered, and the first
\* runs a command.
TwoShells ==
  /\ tgid = [p \in Pid |-> p]
  /\ born = Pid
  /\ kin = [p \in Pid |-> CASE p \in {s1, c1} -> {s1} [] p = s2 -> {s2} [] OTHER -> {}]
  /\ loaded = TRUE
  /\ shells = [NoShells EXCEPT ![0] = [pid |-> s1, indicator |-> i1, omit |-> FALSE],
                               ![1] = [pid |-> s2, indicator |-> i2, omit |-> FALSE]]
  /\ children = [NoChildren EXCEPT ![0] = [child |-> c1, shell |-> s1]]
  /\ ring = <<>>
  /\ reg = NoRegistration
  /\ granted = {<<s1, i1>>, <<s2, i2>>}
  /\ cpu = [k \in Cpu |-> Idling]

TwoShellsSpec == TwoShells /\ [][ProgramsNext]_programVars
===========================================================================
