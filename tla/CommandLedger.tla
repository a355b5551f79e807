---------------------------- MODULE CommandLedger ----------------------------
(***************************************************************************)
(* What the durable command kernel promises, without transactions: a       *)
(* ledger that commands enter one at a time.  CommandKernel implements it. *)
(***************************************************************************)
EXTENDS Naturals, FiniteSets

CONSTANTS Command, Key, None, Missing, Seeded

Revision == (Command \X {"initial", "final", "participant"}) \cup {Seeded}
RowState == Revision \cup {Missing}

VARIABLES
    rows,      \* the revision of each model row
    results,   \* the durable result of each command
    changes,   \* the change feed
    frontier   \* the last position of the change feed

ledger == <<rows, results, changes, frontier>>

Init ==
    /\ rows \in [Key -> {Missing, Seeded}]
    /\ results = [c \in Command |-> None]
    /\ changes = {}
    /\ frontier = 0

\* Entry of one command: D holds its changes, at most one for each row, each
\* from the row's current version and at one of the next free positions.
Entry(c, D) ==
    /\ \A d \in D : /\ d.command = c
                    /\ d.before = rows[d.key]
                    /\ d.position \in (frontier + 1)..(frontier + Cardinality(D))
    /\ \A d, e \in D : d # e => d.key # e.key /\ d.position # e.position
    /\ rows' = [k \in Key |-> IF \E d \in D : d.key = k
                              THEN (CHOOSE d \in D : d.key = k).after
                              ELSE rows[k]]
    /\ changes' = changes \cup D
    /\ frontier' = frontier + Cardinality(D)

\* A result is written once.
Settle(c, result) ==
    /\ results[c] = None
    /\ results' = [results EXCEPT ![c] = result]

\* A command that completes changes at least its target, to the version its
\* result reports.
Complete(c, D, result) ==
    /\ Settle(c, result)
    /\ result.kind = "completed"
    /\ Entry(c, D)
    /\ \E d \in D : d.key = result.key /\ d.after = result.after

\* A rejected or failed command leaves nothing but its result.
Refuse(c, result) ==
    /\ Settle(c, result)
    /\ result.kind \in {"rejected", "failed"}
    /\ UNCHANGED <<rows, changes, frontier>>

Next ==
    \E c \in Command : \E result \in {results'[c]} \ {None} :
        Complete(c, changes' \ changes, result) \/ Refuse(c, result)

Spec == Init /\ [][Next]_ledger

=============================================================================
