---------------------------- MODULE CommandKernel ----------------------------
(***************************************************************************)
(* The durable command kernel, executePostgresModelCommand and             *)
(* recordPostgresModelCommandTerminalFailure of                            *)
(* packages/applik8s/src/model-command-postgres-runtime.ts, with the       *)
(* PostgreSQL locks it relies on.                                          *)
(*                                                                         *)
(* A command is identified by its scope.  Any worker may be executing it,  *)
(* several at a time and again after it finished: delivery is at least     *)
(* once.  An attempt is one READ COMMITTED transaction.  Each action below *)
(* is one statement that can block or read shared rows, with the local     *)
(* computation around it; a statement that has to wait is an action that   *)
(* is not enabled.  The rows a transaction wrote are in staged and become  *)
(* visible when it commits.                                                *)
(*                                                                         *)
(* Models have the native-relational shape with a revision column, so      *)
(* every command carries a context digest: recordGenericModelChange        *)
(* refuses one that does not.  The events a command emits are the subject  *)
(* of PublicStream; operations nested in a handler are not modelled.       *)
(***************************************************************************)
EXTENDS Naturals, FiniteSets

CONSTANTS
    Worker,        \* connections that execute commands
    Command,       \* command scopes
    Key,           \* model rows, by model and identity
    Context,       \* trusted-context digests
    Binding,       \* command bindings
    None,          \* no key, participant, result, revision or command
    Missing,       \* the row does not exist
    Seeded,        \* the revision of a row written before the run
    Unwritten,     \* the transaction has not written the row
    TargetOf,      \* message.targetKey
    BindingOf,     \* execution.bindingId
    ContextOf,     \* message.context.digest
    RouteOf,       \* execution.missingRoute, or None
    ParticipantOf, \* a row of another model the handler may patch, or None
    Serial,        \* commands with ordering 'serial'
    Initializing,  \* commands whose binding has initialize
    Creating,      \* commands with operation 'create'
    Protected,     \* commands that carry an authorization receipt
    Declaring,     \* commands that declare an error the handler may raise
    MaxAttempts    \* retry.maxAttempts

Revision == (Command \X {"initial", "final", "participant"}) \cup {Seeded}
RowState == Revision \cup {Missing}

Outcome == [kind : {"completed", "rejected", "failed"}, key : Key,
            after : RowState \cup {None}]

Change == [command : Command, key : Key, before : RowState, after : RowState,
           position : Nat]

ASSUME CommandAssumption ==
    /\ TargetOf \in [Command -> Key]
    /\ BindingOf \in [Command -> Binding]
    /\ ContextOf \in [Command -> Context]
    /\ RouteOf \in [Command -> Key \cup {None}]
    /\ ParticipantOf \in [Command -> Key \cup {None}]
    /\ \A c \in Command : /\ RouteOf[c] # TargetOf[c]
                          /\ ParticipantOf[c] \notin {TargetOf[c], RouteOf[c]} \ {None}
    /\ \A S \in {Serial, Initializing, Creating, Protected, Declaring} :
            S \subseteq Command
    /\ MaxAttempts \in Nat \ {0}

ASSUME ValueAssumption ==
    /\ None \notin Worker \cup Command \cup Key \cup Outcome \cup RowState
    /\ Missing \notin Revision
    /\ Unwritten \notin RowState

\* The lockable resources: the transaction-scoped advisory locks, the row locks
\* and the single row of applik8s_model_change_commit_frontier.  AuthorityLock
\* stands for the locks on the application's catalog and authority, which are
\* always taken in this order and together.
ScopeLock(c) == <<"scope", c>>
ContextLock(x) == <<"context", x>>
TargetLock(b, k) == <<"target", <<b, k>>>>
RowLock(k) == <<"row", k>>
FrontierLock == <<"frontier", None>>
AuthorityLock == <<"authority", None>>

Resource ==
    {ScopeLock(c) : c \in Command} \cup {ContextLock(x) : x \in Context}
        \cup {TargetLock(b, k) : b \in Binding, k \in Key}
        \cup {RowLock(k) : k \in Key} \cup {FrontierLock, AuthorityLock}

Step == {"idle", "scope", "context", "check", "target", "read", "decide",
         "initialize", "handler", "participant", "participantChange",
         "patched", "authorize", "write", "change", "commit"}

VARIABLES
    \* committed tables
    rows,        \* the model tables: the revision of each row
    results,     \* applik8s_command_results, joined with the inbox
    changes,     \* applik8s_model_changes
    frontier,    \* applik8s_model_change_commit_frontier.position
    \* a worker's transaction
    step, cmd, attempt,
    held,        \* the locks it holds
    key,         \* effectiveTargetKey
    read,        \* rows as the transaction read them, None when it did not
    initialized, \* initializedTarget
    deleting,    \* deleteTarget
    staged,      \* its uncommitted row versions
    recorded,    \* its uncommitted change records
    outcome,     \* its uncommitted result
    \* clients
    submitted,   \* commands that a client has submitted
    expected,    \* message.expectedRevision, None when absent
    answers      \* history: the results returned to callers

tables == <<rows, results, changes, frontier>>
local == <<key, read, initialized, deleting, staged, recorded, outcome>>
clients == <<submitted, expected, answers>>
vars == <<rows, results, changes, frontier, step, cmd, attempt, held, key,
          read, initialized, deleting, staged, recorded, outcome, submitted,
          expected, answers>>

NothingStaged == [k \in Key |-> Unwritten]
NothingRead == [k \in Key |-> None]

Init ==
    /\ rows \in [Key -> {Missing, Seeded}]
    /\ results = [c \in Command |-> None]
    /\ changes = {}
    /\ frontier = 0
    /\ step = [w \in Worker |-> "idle"]
    /\ cmd = [w \in Worker |-> None]
    /\ attempt = [w \in Worker |-> 0]
    /\ held = [w \in Worker |-> {}]
    /\ key = [w \in Worker |-> None]
    /\ read = [w \in Worker |-> NothingRead]
    /\ initialized = [w \in Worker |-> FALSE]
    /\ deleting = [w \in Worker |-> FALSE]
    /\ staged = [w \in Worker |-> NothingStaged]
    /\ recorded = [w \in Worker |-> {}]
    /\ outcome = [w \in Worker |-> None]
    /\ submitted = {}
    /\ expected = [c \in Command |-> None]
    /\ answers = [c \in Command |-> {}]

-----------------------------------------------------------------------------
(* Locks and row visibility *)

Free(w, r) == \A v \in Worker \ {w} : r \notin held[v]

Take(w, r) ==
    /\ Free(w, r)
    /\ held' = [held EXCEPT ![w] = @ \cup {r}]

\* READ COMMITTED: a statement sees the transaction's own writes and what was
\* committed when the statement began.
Visible(w, k) == IF staged[w][k] = Unwritten THEN rows[k] ELSE staged[w][k]

\* The target as the transaction read or inserted it: `before` in the code.
Before(w) == read[w][key[w]]

\* A committed row whose deletion another transaction has not yet committed.
BeingDeleted(w, k) == \E v \in Worker \ {w} : staged[v][k] = Missing

\* What is held when SAVEPOINT applik8s_command_handler is set, and therefore
\* what is left after ROLLBACK TO SAVEPOINT.
SavepointLocks(c) == {ScopeLock(c), ContextLock(ContextOf[c])}

\* The lock that the next statement of w waits for, if it can wait.
Wanted(w) ==
    LET c == cmd[w]
        k == key[w]
    IN  CASE step[w] = "scope" -> {ScopeLock(c)}
          [] step[w] = "context" -> {ContextLock(ContextOf[c])}
          [] step[w] = "target" -> {TargetLock(BindingOf[c], k)}
          [] step[w] = "read" /\ c \in Serial /\ Visible(w, k) # Missing -> {RowLock(k)}
          [] step[w] = "initialize" /\ (rows[k] = Missing \/ BeingDeleted(w, k))
                -> {RowLock(k)}
          [] step[w] = "participant" /\ Visible(w, ParticipantOf[c]) # Missing
                -> {RowLock(ParticipantOf[c])}
          [] step[w] = "authorize" /\ c \in Protected -> {AuthorityLock}
          [] step[w] = "write" /\ Visible(w, k) = Before(w) -> {RowLock(k)}
          [] step[w] \in {"participantChange", "change"} -> {FrontierLock}
          [] OTHER -> {}

\* A cycle of the waits-for graph: everyone in S waits for a member of S and
\* is waited for by one.
InDeadlock(w) ==
    \E S \in SUBSET Worker :
        /\ w \in S
        /\ \A u \in S : \E v \in S \ {u} : Wanted(u) \cap held[v] # {}
        /\ \A u \in S : \E v \in S \ {u} : Wanted(v) \cap held[u] # {}

-----------------------------------------------------------------------------
(* Transactions *)

Goto(w, s) == step' = [step EXCEPT ![w] = s]

\* A transaction of w begins, or w has none: no locks, nothing staged.
Restart(w, s, c, n) ==
    /\ Goto(w, s)
    /\ cmd' = [cmd EXCEPT ![w] = c]
    /\ attempt' = [attempt EXCEPT ![w] = n]
    /\ held' = [held EXCEPT ![w] = {}]
    /\ key' = [key EXCEPT ![w] = IF c = None THEN None ELSE TargetOf[c]]
    /\ read' = [read EXCEPT ![w] = NothingRead]
    /\ initialized' = [initialized EXCEPT ![w] = FALSE]
    /\ deleting' = [deleting EXCEPT ![w] = FALSE]
    /\ staged' = [staged EXCEPT ![w] = NothingStaged]
    /\ recorded' = [recorded EXCEPT ![w] = {}]
    /\ outcome' = [outcome EXCEPT ![w] = None]

Leave(w) == Restart(w, "idle", None, 0)

\* Mutant of RetryOrLeave: no maxAttempts.
RetryAlways(w) ==
    Restart(w, "scope", cmd[w], attempt[w] + 1)

\* Mutant of RetryOrLeave: the operation runs again inside the transaction that
\* failed, so its locks are still there.
RetryWithoutRollback(w) ==
    /\ Goto(w, "scope")
    /\ UNCHANGED <<cmd, attempt, held, local>>

\* retryPostgresCommandTransaction for a retryable error: the transaction has
\* rolled back and runs again from its beginning, a bounded number of times.
RetryOrLeave(w) ==
    \/ attempt[w] < MaxAttempts /\ Restart(w, "scope", cmd[w], attempt[w] + 1)
    \/ attempt[w] >= MaxAttempts /\ Leave(w)

\* A client submits a command, with the revision it read of the target or
\* without one.
Submit(c) ==
    /\ c \notin submitted
    /\ submitted' = submitted \cup {c}
    /\ \E revision \in {None, rows[TargetOf[c]]} \ {Missing} :
            expected' = [expected EXCEPT ![c] = revision]
    /\ UNCHANGED <<tables, step, cmd, attempt, held, local, answers>>

\* A delivery, the first or a duplicate, reaches an idle worker.
Begin(w, c) ==
    /\ step[w] = "idle"
    /\ c \in submitted
    /\ Restart(w, "scope", c, 1)
    /\ UNCHANGED <<tables, clients>>

LockScope(w) ==
    /\ step[w] = "scope"
    /\ Take(w, ScopeLock(cmd[w]))
    /\ Goto(w, "context")
    /\ UNCHANGED <<tables, clients, cmd, attempt, local>>

LockContext(w) ==
    /\ step[w] = "context"
    /\ Take(w, ContextLock(ContextOf[cmd[w]]))
    /\ Goto(w, "check")
    /\ UNCHANGED <<tables, clients, cmd, attempt, local>>

\* The recorded result of a live row is returned together with the row as it
\* is now, so there has to be one.
Replayable(w) ==
    LET result == results[cmd[w]]
    IN  result.kind = "completed" /\ result.after # Missing
            => Visible(w, result.key) # Missing

Replay(w) ==
    /\ step[w] = "check"
    /\ results[cmd[w]] # None
    /\ Replayable(w)
    /\ answers' = [answers EXCEPT ![cmd[w]] = @ \cup {results[cmd[w]]}]
    /\ Leave(w)
    /\ UNCHANGED <<tables, submitted, expected>>

\* applik8s-command-result-state-missing, which is not retryable: the caller
\* gets an error in place of the recorded result.
ReplayFails(w) ==
    /\ step[w] = "check"
    /\ results[cmd[w]] # None
    /\ ~Replayable(w)
    /\ Leave(w)
    /\ UNCHANGED <<tables, submitted, expected, answers>>

TargetStep(c) == IF c \in Serial THEN "target" ELSE "read"

Execute(w) ==
    /\ step[w] = "check"
    /\ results[cmd[w]] = None
    /\ Goto(w, TargetStep(cmd[w]))
    /\ UNCHANGED <<tables, clients, cmd, attempt, held, local>>

LockTarget(w) ==
    /\ step[w] = "target"
    /\ Take(w, TargetLock(BindingOf[cmd[w]], key[w]))
    /\ Goto(w, "read")
    /\ UNCHANGED <<tables, clients, cmd, attempt, local>>

\* SELECT, FOR UPDATE when serial.  FOR UPDATE waits for the holder of a
\* visible row; it locks nothing when there is no visible row, an uncommitted
\* INSERT of another transaction included.
LockedModelObject(w, k, lock) ==
    IF lock /\ Visible(w, k) # Missing THEN Take(w, RowLock(k))
    ELSE UNCHANGED held

ReadTarget(w) ==
    /\ step[w] = "read"
    /\ LockedModelObject(w, key[w], cmd[w] \in Serial)
    /\ read' = [read EXCEPT ![w][key[w]] = Visible(w, key[w])]
    /\ IF /\ Visible(w, key[w]) = Missing
          /\ key[w] = TargetOf[cmd[w]]
          /\ RouteOf[cmd[w]] # None
       THEN key' = [key EXCEPT ![w] = RouteOf[cmd[w]]] /\ Goto(w, TargetStep(cmd[w]))
       ELSE UNCHANGED key /\ Goto(w, "decide")
    /\ UNCHANGED <<tables, clients, cmd, attempt, initialized, deleting, staged,
                   recorded, outcome>>

\* Mutant of RejectedBeforehand: the revision is compared only when the row
\* exists at the key the client named.
RejectedUnlessRouted(w) ==
    LET c == cmd[w]
    IN  \/ Before(w) # Missing /\ c \in Creating
        \/ expected[c] # None /\ key[w] = TargetOf[c] /\ Before(w) \notin {expected[c], Missing}
        \/ Before(w) = Missing /\ c \notin Initializing

\* targetExists, revisionConflict and targetMissing.
RejectedBeforehand(w) ==
    LET c == cmd[w]
    IN  \/ Before(w) # Missing /\ c \in Creating
        \/ expected[c] # None /\ Before(w) # expected[c]
        \/ Before(w) = Missing /\ c \notin Initializing

Rejection(w) == [kind |-> "rejected", key |-> key[w], after |-> None]

RejectBeforehand(w) ==
    /\ step[w] = "decide"
    /\ RejectedBeforehand(w)
    /\ outcome' = [outcome EXCEPT ![w] = Rejection(w)]
    /\ Goto(w, "commit")
    /\ UNCHANGED <<tables, clients, cmd, attempt, held, key, read, initialized,
                   deleting, staged, recorded>>

Accept(w) ==
    /\ step[w] = "decide"
    /\ ~RejectedBeforehand(w)
    /\ Goto(w, IF Before(w) = Missing THEN "initialize" ELSE "handler")
    /\ UNCHANGED <<tables, clients, cmd, attempt, held, local>>

\* INSERT of the initial row, which waits for another uncommitted INSERT or
\* DELETE of the same key.
InsertInitial(w) ==
    /\ step[w] = "initialize"
    /\ rows[key[w]] = Missing
    /\ Take(w, RowLock(key[w]))
    /\ staged' = [staged EXCEPT ![w][key[w]] = <<cmd[w], "initial">>]
    /\ read' = [read EXCEPT ![w][key[w]] = <<cmd[w], "initial">>]
    /\ initialized' = [initialized EXCEPT ![w] = TRUE]
    /\ Goto(w, "handler")
    /\ UNCHANGED <<tables, clients, cmd, attempt, key, deleting, recorded, outcome>>

\* The key was committed meanwhile: a unique violation when serial, which is
\* not retried, and no row inserted when concurrent, which is.
InsertConflict(w) ==
    /\ step[w] = "initialize"
    /\ rows[key[w]] # Missing
    /\ ~BeingDeleted(w, key[w])
    /\ IF cmd[w] \in Serial THEN Leave(w) ELSE RetryOrLeave(w)
    /\ UNCHANGED <<tables, clients>>

-----------------------------------------------------------------------------
(* The handler *)

\* context.models.X.patch: the participant's row is locked, written and its
\* change recorded before the handler goes on.
CallParticipant(w) ==
    /\ step[w] = "handler"
    /\ ParticipantOf[cmd[w]] # None
    /\ Goto(w, "participant")
    /\ UNCHANGED <<tables, clients, cmd, attempt, held, local>>

PatchParticipant(w) ==
    LET k == ParticipantOf[cmd[w]]
    IN  /\ step[w] = "participant"
        /\ Visible(w, k) # Missing
        /\ Take(w, RowLock(k))
        /\ read' = [read EXCEPT ![w][k] = Visible(w, k)]
        /\ staged' = [staged EXCEPT ![w][k] = <<cmd[w], "participant">>]
        /\ Goto(w, "participantChange")
        /\ UNCHANGED <<tables, clients, cmd, attempt, key, initialized,
                       deleting, recorded, outcome>>

\* applik8s-command-participant-missing.
ParticipantMissing(w) ==
    /\ step[w] = "participant"
    /\ Visible(w, ParticipantOf[cmd[w]]) = Missing
    /\ Leave(w)
    /\ UNCHANGED <<tables, clients>>

\* recordGenericModelChange: the frontier row is updated, so locked until the
\* transaction ends, and the change takes the position after it.
RecordChange(w, k, was, is) ==
    /\ Take(w, FrontierLock)
    /\ recorded' = [recorded EXCEPT ![w] = @ \cup
            {[command |-> cmd[w], key |-> k, before |-> was, after |-> is,
              position |-> frontier + Cardinality(@) + 1]}]

ParticipantChange(w) ==
    LET k == ParticipantOf[cmd[w]]
    IN  /\ step[w] = "participantChange"
        /\ RecordChange(w, k, read[w][k], staged[w][k])
        /\ Goto(w, "patched")
        /\ UNCHANGED <<tables, clients, cmd, attempt, key, read, initialized,
                       deleting, staged, outcome>>

HandlerReturns(w) ==
    /\ step[w] \in {"handler", "patched"}
    /\ \E delete \in BOOLEAN : deleting' = [deleting EXCEPT ![w] = delete]
    /\ Goto(w, "authorize")
    /\ UNCHANGED <<tables, clients, cmd, attempt, held, key, read, initialized,
                   staged, recorded, outcome>>

\* Mutant of RollbackAndReject: the rejection is recorded on top of what the
\* handler wrote.
RejectWithoutRollback(w) ==
    /\ outcome' = [outcome EXCEPT ![w] = Rejection(w)]
    /\ Goto(w, "commit")
    /\ UNCHANGED <<tables, clients, cmd, attempt, held, key, read, initialized,
                   deleting, staged, recorded>>

\* ROLLBACK TO SAVEPOINT, which undoes what the handler wrote and releases what
\* it locked, then the durable rejection.
RollbackAndReject(w) ==
    /\ held' = [held EXCEPT ![w] = SavepointLocks(cmd[w])]
    /\ staged' = [staged EXCEPT ![w] = NothingStaged]
    /\ recorded' = [recorded EXCEPT ![w] = {}]
    /\ outcome' = [outcome EXCEPT ![w] = Rejection(w)]
    /\ Goto(w, "commit")
    /\ UNCHANGED <<tables, clients, cmd, attempt, key, read, initialized, deleting>>

HandlerRejects(w) ==
    /\ step[w] \in {"handler", "patched"}
    /\ cmd[w] \in Declaring
    /\ RollbackAndReject(w)

\* Any other error of the handler ends the transaction and is not retried here.
HandlerThrows(w) ==
    /\ step[w] \in {"handler", "patched"}
    /\ Leave(w)
    /\ UNCHANGED <<tables, clients>>

\* revalidateAuthorization of a protected command: the receipt is checked under
\* the catalog and authority locks, which are held to the end of the
\* transaction or, after a denial, to the savepoint.
AuthorizationDenied(w) ==
    /\ step[w] = "authorize"
    /\ cmd[w] \in Protected
    /\ Free(w, AuthorityLock)
    /\ RollbackAndReject(w)

Authorized(w) ==
    /\ step[w] = "authorize"
    /\ IF cmd[w] \in Protected THEN Take(w, AuthorityLock) ELSE UNCHANGED held
    /\ Goto(w, "write")
    /\ UNCHANGED <<tables, clients, cmd, attempt, local>>

-----------------------------------------------------------------------------
(* Writing and committing *)

After(w) == IF deleting[w] THEN Missing ELSE <<cmd[w], "final">>

\* Mutant of WriteTarget: no revision in the WHERE clause of a concurrent command.
WriteTargetUnguarded(w) ==
    /\ step[w] = "write"
    /\ Take(w, RowLock(key[w]))
    /\ staged' = [staged EXCEPT ![w][key[w]] = After(w)]
    /\ Goto(w, "change")
    /\ UNCHANGED <<tables, clients, cmd, attempt, key, read, initialized,
                   deleting, recorded, outcome>>

\* UPDATE or DELETE of the target.  Only a concurrent command has the revision
\* it read in the WHERE clause; a serial one has held the row since it read it.
WriteTarget(w) ==
    /\ step[w] = "write"
    /\ cmd[w] \in Serial \/ Visible(w, key[w]) = Before(w)
    /\ Take(w, RowLock(key[w]))
    /\ staged' = [staged EXCEPT ![w][key[w]] = After(w)]
    /\ Goto(w, "change")
    /\ UNCHANGED <<tables, clients, cmd, attempt, key, read, initialized,
                   deleting, recorded, outcome>>

\* No row matched: concurrentCommandModification.
WriteConflict(w) ==
    /\ step[w] = "write"
    /\ cmd[w] \notin Serial
    /\ Visible(w, key[w]) # Before(w)
    /\ RetryOrLeave(w)
    /\ UNCHANGED <<tables, clients>>

\* The change record and the result.
RecordResult(w) ==
    /\ step[w] = "change"
    /\ RecordChange(w, key[w], IF initialized[w] THEN Missing ELSE Before(w), After(w))
    /\ outcome' = [outcome EXCEPT ![w] =
            [kind |-> "completed", key |-> key[w], after |-> After(w)]]
    /\ Goto(w, "commit")
    /\ UNCHANGED <<tables, clients, cmd, attempt, key, read, initialized,
                   deleting, staged>>

Commit(w) ==
    /\ step[w] = "commit"
    /\ rows' = [k \in Key |-> Visible(w, k)]
    /\ results' = [results EXCEPT ![cmd[w]] = outcome[w]]
    /\ changes' = changes \cup recorded[w]
    /\ frontier' = frontier + Cardinality(recorded[w])
    /\ answers' = [answers EXCEPT ![cmd[w]] = @ \cup {outcome[w]}]
    /\ Leave(w)
    /\ UNCHANGED <<submitted, expected>>

\* PostgreSQL ends a transaction of a waits-for cycle with 40P01.
DeadlockVictim(w) ==
    /\ InDeadlock(w)
    /\ RetryOrLeave(w)
    /\ UNCHANGED <<tables, clients>>

\* The process or its connection dies: PostgreSQL rolls back.
Crash(w) ==
    /\ step[w] # "idle"
    /\ Leave(w)
    /\ UNCHANGED <<tables, clients>>

\* Mutant of TerminalFailure: an existing result is overwritten.
TerminalFailureOverwrites(c) ==
    /\ c \in submitted
    /\ \A w \in Worker : ScopeLock(c) \notin held[w]
    /\ results' = [results EXCEPT ![c] =
            [kind |-> "failed", key |-> TargetOf[c], after |-> None]]
    /\ UNCHANGED <<rows, changes, frontier, step, cmd, attempt, held, local, clients>>

\* recordPostgresModelCommandTerminalFailure: when the deliveries of a command
\* are used up, one transaction under the scope lock.
TerminalFailure(c) ==
    /\ c \in submitted
    /\ \A w \in Worker : ScopeLock(c) \notin held[w]
    /\ results[c] = None
    /\ results' = [results EXCEPT ![c] =
            [kind |-> "failed", key |-> TargetOf[c], after |-> None]]
    /\ UNCHANGED <<rows, changes, frontier, step, cmd, attempt, held, local, clients>>

-----------------------------------------------------------------------------
Statement(w) ==
    \/ LockScope(w) \/ LockContext(w) \/ Replay(w) \/ ReplayFails(w) \/ Execute(w)
    \/ LockTarget(w) \/ ReadTarget(w) \/ RejectBeforehand(w) \/ Accept(w)
    \/ InsertInitial(w) \/ InsertConflict(w)
    \/ CallParticipant(w) \/ PatchParticipant(w) \/ ParticipantMissing(w)
    \/ ParticipantChange(w)
    \/ HandlerReturns(w) \/ HandlerRejects(w) \/ HandlerThrows(w)
    \/ Authorized(w) \/ AuthorizationDenied(w)
    \/ WriteTarget(w) \/ WriteConflict(w) \/ RecordResult(w) \/ Commit(w)

Next ==
    \/ \E c \in Command : Submit(c) \/ TerminalFailure(c)
    \/ \E w \in Worker, c \in Command : Begin(w, c)
    \/ \E w \in Worker : Statement(w) \/ DeadlockVictim(w) \/ Crash(w)

Spec == Init /\ [][Next]_vars

\* A statement that can run runs, PostgreSQL grants locks in arrival order and
\* its deadlock detector runs.
Fairness ==
    \A w \in Worker : SF_vars(Statement(w)) /\ WF_vars(DeadlockVictim(w))

FairSpec == Spec /\ Fairness

-----------------------------------------------------------------------------
(* Properties *)

\* Every variable ranges over the values the tables and a transaction can hold.
TypeOK ==
    /\ rows \in [Key -> RowState]
    /\ results \in [Command -> Outcome \cup {None}]
    /\ changes \in SUBSET Change
    /\ frontier \in Nat
    /\ step \in [Worker -> Step]
    /\ cmd \in [Worker -> Command \cup {None}]
    /\ attempt \in [Worker -> 0..MaxAttempts]
    /\ held \in [Worker -> SUBSET Resource]
    /\ key \in [Worker -> Key \cup {None}]
    /\ read \in [Worker -> [Key -> RowState \cup {None}]]
    /\ initialized \in [Worker -> BOOLEAN]
    /\ deleting \in [Worker -> BOOLEAN]
    /\ staged \in [Worker -> [Key -> RowState \cup {Unwritten}]]
    /\ recorded \in [Worker -> SUBSET Change]
    /\ outcome \in [Worker -> Outcome \cup {None}]
    /\ submitted \in SUBSET Command
    /\ expected \in [Command -> Revision \cup {None}]
    /\ answers \in [Command -> SUBSET Outcome]

\* The promise of the kernel: commands take effect one at a time, each at most
\* once and whole, on the rows as they are at that moment; a rejected or failed
\* command changes nothing; a result is never replaced; change positions are
\* handed out in commit order without a gap.
Ledger == INSTANCE CommandLedger WITH
    rows <- rows, results <- results, changes <- changes, frontier <- frontier

\* The kernel implements CommandLedger although its transactions interleave,
\* wait, deadlock, retry and crash.
ImplementsLedger == Ledger!Spec

\* Every delivery of a command that is answered gets the same answer, the
\* recorded one, whichever worker executed it and whatever terminal failure or
\* retry ran beside it.
StableAnswer ==
    \A c \in Command : \A a \in answers[c] : a = results[c]

\* A command submitted with an expected revision only ever replaces that very
\* version of its row, however long it waited between the check and the write.
RevisionGuard ==
    \A d \in changes :
        (/\ expected[d.command] # None
         /\ d.key # ParticipantOf[d.command]) => d.before = expected[d.command]

\* No attempt waits for ever: locks held by others, deadlocks and lost races
\* all end in a commit, a bounded number of retries or an error.
TransactionsEnd ==
    \A w \in Worker : step[w] # "idle" ~> step[w] = "idle"

=============================================================================
