------------------------- MODULE MCStreamProcessor -------------------------
(* Instances of StreamProcessor for TLC. *)
EXTENDS StreamProcessor, TLC

CONSTANTS r1, r2, p1, p2

\* Runners and partitions are interchangeable.
Symmetric == Permutations(Runner) \cup Permutations(Partition)

============================================================================
