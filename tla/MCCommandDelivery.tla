-------------------------- MODULE MCCommandDelivery --------------------------
(* Instances of CommandDelivery for TLC. *)
EXTENDS CommandDelivery, TLC

CONSTANTS r1, r2, c1

\* One command, submitted twice.
OneCommand == (r1 :> c1 @@ r2 :> c1)

=============================================================================
