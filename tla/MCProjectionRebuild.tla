------------------------- MODULE MCProjectionRebuild -------------------------
(* Instances of ProjectionRebuild for TLC. *)
EXTENDS ProjectionRebuild

CONSTANTS a1, a2, w1, live, g1, m1, m2

\* Both attempts rebuild the same generation.
SameTarget == [a \in Attempt |-> g1]

\* A variant for a name that is used again (with "reuse" in Fault): the second
\* attempt rebuilds the initial generation.
LiveTarget == [a \in Attempt |-> IF a = a1 THEN g1 ELSE live]

\* m1 is written, then m2, then m1 is removed.
Events == <<[member |-> m1, removes |-> FALSE],
            [member |-> m2, removes |-> FALSE],
            [member |-> m1, removes |-> TRUE]>>

\* Attempts of one generation are interchangeable.
Attempts == Permutations(Attempt)

=============================================================================
