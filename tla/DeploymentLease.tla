--------------------------- MODULE DeploymentLease ---------------------------
(***************************************************************************)
(* The lease file that is to keep deployments of one Stack apart:          *)
(* packages/deployment-alchemy/src/lease.ts and deployment-lease.ts.       *)
(*                                                                         *)
(* A process is one call of withDeploymentLease; the lease it writes is    *)
(* told from others by its token.  A read, a rename and a remove of the    *)
(* file are one step each.  All processes deploy the same identity.  The   *)
(* acquisition timeout may pass whenever the loop is entered again.        *)
(***************************************************************************)
CONSTANTS
    Process,
    None,
    Fault     \* the faults that happen in this instance

\* crash: a process dies; stall: a process does not get to its heartbeat
\* before its lease expires
Faults == {"crash", "stall"}

VARIABLES
    pc,        \* where each process is
    file,      \* whose lease is at the path of the lease file
    complete,  \* whether the lease of each process has been written
    expired,   \* whether its expiresAt has passed
    beat,      \* whether a heartbeat of it has checked the file
    lost       \* its heartbeatFailure

vars == <<pc, file, complete, expired, beat, lost>>

Init ==
    /\ pc = [p \in Process |-> "open"]
    /\ file = None
    /\ complete = [p \in Process |-> FALSE]
    /\ expired = [p \in Process |-> FALSE]
    /\ beat = [p \in Process |-> FALSE]
    /\ lost = [p \in Process |-> FALSE]

Goto(p, l) == pc' = [pc EXCEPT ![p] = l]

Deploying(p) == pc[p] = "deploying"

-----------------------------------------------------------------------------
(* Acquisition *)

\* The loop goes on until its timeout.
Retry(p) == Goto(p, "open") \/ Goto(p, "failed")

\* open(path, "wx"), which creates an empty file or fails with EEXIST.
Create(p) ==
    /\ pc[p] = "open"
    /\ \/ file = None /\ file' = p /\ Goto(p, "created")
       \/ file # None /\ Goto(p, "exists") /\ UNCHANGED file
    /\ UNCHANGED <<complete, expired, beat, lost>>

\* The lease is written to the open file, wherever that is by now, and the
\* operation starts.
Write(p) ==
    /\ pc[p] = "created"
    /\ complete' = [complete EXCEPT ![p] = TRUE]
    /\ Goto(p, "deploying")
    /\ UNCHANGED <<file, expired, beat, lost>>

\* readLease: an empty file does not parse and ends the acquisition; a live
\* lease is waited for; an expired one is to be retired, and so is none.
Read(p) ==
    /\ pc[p] = "exists"
    /\ \/ file # None /\ ~complete[file] /\ Goto(p, "failed")
       \/ file # None /\ complete[file] /\ ~expired[file] /\ Retry(p)
       \/ file # None /\ complete[file] /\ expired[file] /\ Goto(p, "retire")
       \/ file = None /\ Goto(p, "retire")
    /\ UNCHANGED <<file, complete, expired, beat, lost>>

\* retireExpiredLease renames what is at the path.
Retire(p) ==
    /\ pc[p] = "retire"
    /\ file' = None
    /\ Retry(p)
    /\ UNCHANGED <<complete, expired, beat, lost>>

-----------------------------------------------------------------------------
(* The lease handle and runWithHeartbeat *)

Owned(p) == file = p /\ complete[p]

\* A heartbeat reads the file and, in a later step, replaces it.  One that is
\* under way when the operation ends is not waited for.
Heartbeat(p) ==
    /\ Deploying(p)
    /\ ~beat[p]
    /\ \/ Owned(p) /\ beat' = [beat EXCEPT ![p] = TRUE] /\ UNCHANGED lost
       \/ ~Owned(p) /\ lost' = [lost EXCEPT ![p] = TRUE] /\ UNCHANGED beat
    /\ UNCHANGED <<pc, file, complete, expired>>

Renew(p) ==
    /\ beat[p]
    /\ pc[p] # "crashed"
    /\ file' = p
    /\ expired' = [expired EXCEPT ![p] = FALSE]
    /\ beat' = [beat EXCEPT ![p] = FALSE]
    /\ UNCHANGED <<pc, complete, lost>>

\* The operation ends; a lost lease is noticed now.
Finish(p) ==
    /\ Deploying(p)
    /\ Goto(p, "finished")
    /\ UNCHANGED <<file, complete, expired, beat, lost>>

\* release: the owner is checked and, in a later step, the file removed.
Release(p) ==
    /\ pc[p] = "finished"
    /\ \/ Owned(p) /\ Goto(p, "release")
       \/ ~Owned(p) /\ Goto(p, "failed")
    /\ UNCHANGED <<file, complete, expired, beat, lost>>

Remove(p) ==
    /\ pc[p] = "release"
    /\ file' = None
    /\ Goto(p, IF lost[p] THEN "failed" ELSE "done")
    /\ UNCHANGED <<complete, expired, beat, lost>>

-----------------------------------------------------------------------------
Crash(p) ==
    /\ "crash" \in Fault
    /\ pc[p] \notin {"done", "failed", "crashed"}
    /\ Goto(p, "crashed")
    /\ UNCHANGED <<file, complete, expired, beat, lost>>

\* expiresAt passes: of a crashed process, or of one that stalls.
Expire(p) ==
    /\ complete[p] /\ ~expired[p]
    /\ pc[p] = "crashed" \/ "stall" \in Fault
    /\ expired' = [expired EXCEPT ![p] = TRUE]
    /\ UNCHANGED <<pc, file, complete, beat, lost>>

Next ==
    \E p \in Process :
       \/ Create(p) \/ Write(p) \/ Read(p) \/ Retire(p)
       \/ Heartbeat(p) \/ Renew(p) \/ Finish(p) \/ Release(p) \/ Remove(p)
       \/ Crash(p) \/ Expire(p)

Spec == Init /\ [][Next]_vars

-----------------------------------------------------------------------------
(* Properties *)

\* goal.md of the repository asks for "one writer/lease per Stack": no two
\* processes run their deployment operation at once.
OneWriter ==
    \A p, q \in Process : Deploying(p) /\ Deploying(q) => p = q

=============================================================================
