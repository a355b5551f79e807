--------------------------- MODULE MCPublicStream ---------------------------
(* Instances of PublicStream for TLC. *)
EXTENDS PublicStream

CONSTANTS p1, p2, s1, s2, proj, sub, c1, c2

\* The projection reads by the global floor, the subscription by its context.
MCFilterOf == [r \in Consumer |-> IF r = sub THEN c1 ELSE Global]
GlobalFilterOf == [r \in Consumer |-> Global]
=============================================================================
