------------------------------ MODULE MCAdmin ------------------------------
(* Instances of SessionAdmin and Ranges for TLC.                            *)
EXTENDS SessionAdmin, Ranges

CONSTANTS p1, p2, work

\* Exchanging the processes of the tool changes nothing.
AdminSymmetry == Permutations(Cli)

\* The two share no variable, and are gone through one at a time: each goes on
\* from the initial state of the other, so that their states add up.
ToolInit == AdminInit /\ RangesInit

ToolNext ==
  \/ RangesInit /\ AdminNext /\ UNCHANGED rangeVars
  \/ AdminInit /\ RangesNext /\ UNCHANGED adminVars

ToolSpec == ToolInit /\ [][ToolNext]_<<adminVars, rangeVars>>
============================================================================
