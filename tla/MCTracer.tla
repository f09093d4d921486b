----------------------------- MODULE MCTracer -----------------------------
(* Instances of Tracer for TLC. *)
EXTENDS Tracer, TLC

CONSTANTS root, s1, s2, c1, c2, i1, i2, d

\* Exchanging the shells, the commands or the indicators changes nothing.
Symmetry ==
  Permutations(ShellPid) \cup Permutations(Pid \ (ShellPid \cup {Root}))
    \cup Permutations(Indicator)
===========================================================================
