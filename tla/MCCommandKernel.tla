--------------------------- MODULE MCCommandKernel ---------------------------
(* Instances of CommandKernel for TLC. *)
EXTENDS CommandKernel, TLC

CONSTANTS w1, w2, c1, c2, c3, k1, k2, x1, x2, b1, b2

\* Crossed participants: two serial commands, each of which patches the
\* other's target.
CrossedTargets == (c1 :> k1 @@ c2 :> k2)
CrossedParticipants == (c1 :> k2 @@ c2 :> k1)
CrossedContexts == (c1 :> x1 @@ c2 :> x2)
CrossedBindings == (c1 :> b1 @@ c2 :> b2)
CrossedRoutes == (c1 :> None @@ c2 :> None)

\* One target: c1 is serial, c2 concurrent; c3 creates k2 through another
\* binding, or k1 when k2 is missing.
SharedTargets == (c1 :> k1 @@ c2 :> k1 @@ c3 :> k2)
SharedParticipants == (c1 :> None @@ c2 :> None @@ c3 :> None)
SharedContexts == (c1 :> x1 @@ c2 :> x2 @@ c3 :> x1)
SharedBindings == (c1 :> b1 @@ c2 :> b2 @@ c3 :> b2)
SharedRoutes == (c1 :> None @@ c2 :> None @@ c3 :> k1)

=============================================================================
