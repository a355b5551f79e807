---------------------------- MODULE MCSignalStore ----------------------------
(***************************************************************************)
(* SignalStore for TLC: the run of a signal whose subject is granted       *)
(* access, two action requests that race each other and the expiry, and    *)
(* two relays.                                                             *)
(***************************************************************************)
EXTENDS SignalStore
=============================================================================
