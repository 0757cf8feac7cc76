----------------------------- MODULE MCCostProvider -----------------------------
(* Finite instances of CostProvider for TLC: symmetric sets of model values.   *)
EXTENDS CostProviderRefines, TLC

\* No action tells two ids, two clusters, two UUIDs or two workers apart.
Symmetry == Permutations(Workers) \cup Permutations(Ids)
              \cup Permutations(Targets) \cup Permutations(SourceIds)
              \cup Permutations(ModelIds)
================================================================================
