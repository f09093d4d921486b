------------------------------- MODULE MCNhi -------------------------------
(* Instances of Nhi for TLC. *)
EXTENDS Nhi, TLC

CONSTANTS root, s1, s2, c1, c2, i1, i2

\* Every text of the model: see Moment.
Texts == [ShellPid -> 0 .. MaxCommands + 1]

NhiSymmetry ==
  Permutations(ShellPid) \cup Permutations(Pid \ (ShellPid \cup {Root}))
    \cup Permutations(Indicator)
============================================================================
