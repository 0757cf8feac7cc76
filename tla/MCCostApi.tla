-------------------------------- MODULE MCCostApi --------------------------------
(* Finite instances of CostApi for TLC.                                        *)
EXTENDS CostApi, TLC

CONSTANTS i1, t1, t2

\* An id that routing treats like any other, and the one it does not.
MCIds == {i1, "health"}

MCStamps == 0 .. MaxClock

\* A row that the next create for its cluster takes over.
MCInherited == {i1 :> [target |-> t1, status |-> "DELETED", createdAt |-> 1]}

\* What the run looks at.  Two kinds of complaints, which do arise, are left out:
\* no guard depends on them.
MCView == <<rows, owed, clock, lookup, reading, walk, known,
            complaints \ {"hidden", "refused"}>>

Symmetry == Permutations(Workers)
================================================================================
