------------------------- MODULE CommandKernelProofs -------------------------
(***************************************************************************)
(* Proofs about CommandKernel for any workers, commands, rows, contexts,   *)
(* bindings and retry bound.                                               *)
(***************************************************************************)
EXTENDS CommandKernel, FiniteSetTheorems, TLAPS

-----------------------------------------------------------------------------
(* The inductive invariant *)

\* Change records of a transaction are few enough to be counted.
FiniteRecords == \A w \in Worker : IsFiniteSet(recorded[w])

\* The steps after the checks of RejectedBeforehand have passed.
Accepted == {"handler", "participant", "participantChange", "patched",
             "authorize", "write", "change"}

\* A busy worker has a submitted command, and it has the key of its target or
\* of the route; what it read and wrote is there when it is recorded.
Attempt ==
    \A w \in Worker :
        /\ step[w] # "idle" => /\ cmd[w] \in submitted
                               /\ key[w] \in Key
                               /\ key[w] # ParticipantOf[cmd[w]]
        /\ step[w] \in Accepted \cup {"decide", "initialize"} => Before(w) \in RowState
        /\ step[w] \in {"participant", "participantChange"}
                => ParticipantOf[cmd[w]] \in Key
        /\ step[w] = "participantChange" =>
                /\ read[w][ParticipantOf[cmd[w]]] \in RowState
                /\ staged[w][ParticipantOf[cmd[w]]] \in RowState
        /\ step[w] = "commit" => outcome[w] # None

TInv == TypeOK /\ FiniteRecords /\ Attempt

\* No lock has two holders; the scope and the context stay locked to the end.
Locks ==
    /\ \A v, w \in Worker : v # w => held[v] \cap held[w] = {}
    /\ \A w \in Worker : 
            /\ step[w] \notin {"idle", "scope"} => ScopeLock(cmd[w]) \in held[w]
            /\ step[w] \notin {"idle", "scope", "context"}
                    => ContextLock(ContextOf[cmd[w]]) \in held[w]

\* Past the check there is no result yet.
Unsettled ==
    \A w \in Worker :
        step[w] \notin {"idle", "scope", "context", "check"} => results[cmd[w]] = None

\* What passed the revision check is what was read, and stays so until it is
\* recorded as the version that was replaced.
Guarded ==
    \A w \in Worker :
        /\ step[w] \notin Accepted \cup {"commit"} => ~initialized[w]
        /\ step[w] # "idle" =>
             /\ expected[cmd[w]] # None =>
                  /\ step[w] # "initialize"
                  /\ step[w] \in Accepted => ~initialized[w] /\ Before(w) = expected[cmd[w]]
             /\ \A d \in recorded[w] :
                  /\ d.command = cmd[w]
                  /\ expected[cmd[w]] # None /\ d.key # ParticipantOf[cmd[w]]
                        => d.before = expected[cmd[w]]

\* Every recorded change is of a submitted command.
ChangesSubmitted == \A d \in changes : d.command \in submitted

SInv == TInv /\ Locks /\ Unsettled /\ StableAnswer
GInv == TInv /\ Guarded /\ RevisionGuard /\ ChangesSubmitted

-----------------------------------------------------------------------------
(* Types *)

\* Every lock a statement takes is one of the lockable resources.
LEMMA LocksAreResources ==
    /\ \A c \in Command : ScopeLock(c) \in Resource
    /\ \A x \in Context : ContextLock(x) \in Resource
    /\ \A b \in Binding, k \in Key : TargetLock(b, k) \in Resource
    /\ \A k \in Key : RowLock(k) \in Resource
    /\ FrontierLock \in Resource
BY DEF Resource

LEMMA AuthorityIsResource == AuthorityLock \in Resource
BY DEF Resource

\* The revisions a command writes, and the seeded one, are revisions.
LEMMA RevisionsOfCommands ==
    /\ \A c \in Command : <<c, "initial">> \in Revision
    /\ \A c \in Command : <<c, "final">> \in Revision
    /\ \A c \in Command : <<c, "participant">> \in Revision
    /\ Seeded \in Revision
BY DEF Revision

\* The initial states are typed.
LEMMA InitTInv == Init => TInv
<1>. SUFFICES ASSUME Init PROVE TInv
  OBVIOUS
<1>. USE RevisionsOfCommands, CommandAssumption, ValueAssumption DEF Init,
         NothingStaged, NothingRead, Step, RowState
<1>1. TypeOK
  BY DEF TypeOK
<1>2. FiniteRecords
  BY FS_EmptySet DEF FiniteRecords
<1>3. Attempt
  BY DEF Attempt, Accepted
<1>. QED
  BY <1>1, <1>2, <1>3 DEF TInv

\* RecordChange adds one typed record at the position after those recorded.
LEMMA RecordChangeTypes ==
    ASSUME TInv, NEW w \in Worker, NEW k \in Key, NEW was \in RowState,
           NEW is \in RowState, cmd[w] \in Command, RecordChange(w, k, was, is)
    PROVE  /\ recorded' \in [Worker -> SUBSET Change]
           /\ \A v \in Worker : IsFiniteSet(recorded'[v])
           /\ held' \in [Worker -> SUBSET Resource]
<1>1. Cardinality(recorded[w]) \in Nat
  BY FS_CardinalityType DEF TInv, FiniteRecords
<1>2. [command |-> cmd[w], key |-> k, before |-> was, after |-> is,
       position |-> frontier + Cardinality(recorded[w]) + 1] \in Change
  BY <1>1 DEF TInv, TypeOK, Change
<1>3. recorded' \in [Worker -> SUBSET Change]
  BY <1>2 DEF RecordChange, TInv, TypeOK
<1>4. \A v \in Worker : IsFiniteSet(recorded'[v])
  BY FS_AddElement DEF RecordChange, TInv, TypeOK, FiniteRecords
<1>5. held' \in [Worker -> SUBSET Resource]
  BY LocksAreResources DEF RecordChange, Take, TInv, TypeOK
<1>. QED
  BY <1>3, <1>4, <1>5

\* Beginning a transaction, or having none, leaves every variable typed.
LEMMA RestartTInv ==
    ASSUME TInv, NEW w \in Worker, NEW s \in {"idle", "scope"},
           NEW c \in Command \cup {None}, NEW n \in 0..MaxAttempts,
           s = "scope" => c \in submitted,
           Restart(w, s, c, n), UNCHANGED <<tables, clients>>
    PROVE  TInv'
<1>. USE CommandAssumption, ValueAssumption DEF TInv
<1>1. TypeOK'
  BY DEF TypeOK, Restart, Goto, NothingRead, NothingStaged, Step, RowState,
     tables, clients
<1>2. FiniteRecords'
  BY FS_EmptySet DEF FiniteRecords, TypeOK, Restart
<1>3. Attempt'
  BY DEF Attempt, TypeOK, Accepted, Before, Restart, Goto, clients
<1>. QED
  BY <1>1, <1>2, <1>3

\* So does retryPostgresCommandTransaction.
LEMMA RetryTInv ==
    ASSUME TInv, NEW w \in Worker, step[w] # "idle", RetryOrLeave(w),
           UNCHANGED <<tables, clients>>
    PROVE  TInv'
<1>1. CASE attempt[w] < MaxAttempts /\ Restart(w, "scope", cmd[w], attempt[w] + 1)
  <2>1. attempt[w] + 1 \in 0..MaxAttempts
    BY <1>1, CommandAssumption DEF TInv, TypeOK
  <2>. QED
    BY <1>1, <2>1, RestartTInv DEF TInv, Attempt, TypeOK
<1>2. CASE Leave(w)
  BY <1>2, RestartTInv, CommandAssumption DEF Leave
<1>. QED
  BY <1>1, <1>2 DEF RetryOrLeave

\* Only a transaction waits.
LEMMA WaitingIsBusy ==
    ASSUME NEW w \in Worker, InDeadlock(w)
    PROVE  step[w] # "idle"
BY DEF InDeadlock, Wanted

\* Every step keeps every variable typed.
LEMMA NextTInv == TInv /\ [Next]_vars => TInv'
<1>. SUFFICES ASSUME TInv, [Next]_vars PROVE TInv'
  OBVIOUS
<1>. USE LocksAreResources, RevisionsOfCommands, CommandAssumption,
         ValueAssumption, FS_EmptySet DEF TInv, TypeOK, FiniteRecords, Attempt,
         tables, local, clients, NothingStaged, NothingRead, Step, RowState,
         Accepted, Before
<1>1. ASSUME NEW c \in Command, Submit(c) PROVE TInv'
  BY <1>1 DEF Submit
<1>2. ASSUME NEW c \in Command, TerminalFailure(c) PROVE TInv'
  BY <1>2 DEF TerminalFailure, Outcome
<1>3. ASSUME NEW w \in Worker, NEW c \in Command, Begin(w, c) PROVE TInv'
  BY <1>3 DEF Begin, Restart, Goto
<1>4. ASSUME NEW w \in Worker, LockScope(w) PROVE TInv'
  BY <1>4 DEF LockScope, Take, Goto
<1>5. ASSUME NEW w \in Worker, LockContext(w) PROVE TInv'
  BY <1>5 DEF LockContext, Take, Goto
<1>6. ASSUME NEW w \in Worker, Replay(w) PROVE TInv'
  BY <1>6 DEF Replay, Leave, Restart, Goto
<1>7. ASSUME NEW w \in Worker, ReplayFails(w) PROVE TInv'
  BY <1>7 DEF ReplayFails, Leave, Restart, Goto
<1>8. ASSUME NEW w \in Worker, Execute(w) PROVE TInv'
  BY <1>8 DEF Execute, Goto, TargetStep
<1>9. ASSUME NEW w \in Worker, LockTarget(w) PROVE TInv'
  BY <1>9 DEF LockTarget, Take, Goto
<1>10. ASSUME NEW w \in Worker, ReadTarget(w) PROVE TInv'
  <2>1. Visible(w, key[w]) \in RowState
    BY <1>10 DEF ReadTarget, Visible
  <2>2. held' \in [Worker -> SUBSET Resource]
    BY <1>10 DEF ReadTarget, LockedModelObject, Take
  <2>3. TypeOK'
    <3>1. read' \in [Worker -> [Key -> RowState \cup {None}]]
      BY <1>10, <2>1 DEF ReadTarget
    <3>2. PICK k \in Key, s \in Step : /\ key' = [key EXCEPT ![w] = k]
                                      /\ step' = [step EXCEPT ![w] = s]
      <4>1. key[w] \in Key /\ key = [key EXCEPT ![w] = key[w]]
        BY <1>10 DEF ReadTarget
      <4>2. CASE UNCHANGED key /\ Goto(w, "decide")
        BY <4>1, <4>2 DEF Goto
      <4>3. CASE /\ RouteOf[cmd[w]] \in Key
                 /\ key' = [key EXCEPT ![w] = RouteOf[cmd[w]]]
                 /\ Goto(w, TargetStep(cmd[w]))
        BY <4>3 DEF Goto, TargetStep
      <4>. QED
        BY <1>10, <4>2, <4>3 DEF ReadTarget
    <3>. QED
      BY <1>10, <2>2, <3>1, <3>2 DEF ReadTarget
  <2>4. FiniteRecords'
    BY <1>10 DEF ReadTarget
  <2>5. Attempt'
    BY <1>10, <2>1 DEF ReadTarget, Goto, TargetStep
  <2>. QED
    BY <2>3, <2>4, <2>5
<1>11. ASSUME NEW w \in Worker, RejectBeforehand(w) PROVE TInv'
  BY <1>11 DEF RejectBeforehand, Rejection, Goto, Outcome
<1>12. ASSUME NEW w \in Worker, Accept(w) PROVE TInv'
  BY <1>12 DEF Accept, Goto
<1>13. ASSUME NEW w \in Worker, InsertInitial(w) PROVE TInv'
  BY <1>13 DEF InsertInitial, Take, Goto
<1>14. ASSUME NEW w \in Worker, InsertConflict(w) PROVE TInv'
  <2>1. CASE Leave(w)
    BY <1>14, <2>1, RestartTInv DEF InsertConflict, Leave
  <2>2. CASE RetryOrLeave(w)
    BY <1>14, <2>2, RetryTInv DEF InsertConflict
  <2>. QED
    BY <1>14, <2>1, <2>2 DEF InsertConflict
<1>15. ASSUME NEW w \in Worker, CallParticipant(w) PROVE TInv'
  BY <1>15 DEF CallParticipant, Goto
<1>16. ASSUME NEW w \in Worker, PatchParticipant(w) PROVE TInv'
  BY <1>16 DEF PatchParticipant, Take, Goto, Visible
<1>17. ASSUME NEW w \in Worker, ParticipantMissing(w) PROVE TInv'
  BY <1>17 DEF ParticipantMissing, Leave, Restart, Goto
<1>18. ASSUME NEW w \in Worker, ParticipantChange(w) PROVE TInv'
  <2>1. /\ recorded' \in [Worker -> SUBSET Change]
        /\ \A v \in Worker : IsFiniteSet(recorded'[v])
        /\ held' \in [Worker -> SUBSET Resource]
    BY <1>18, RecordChangeTypes DEF ParticipantChange
  <2>2. TypeOK'
    BY <1>18, <2>1 DEF ParticipantChange, Goto
  <2>3. Attempt'
    BY <1>18 DEF ParticipantChange, Goto
  <2>. QED
    BY <2>1, <2>2, <2>3
<1>19. ASSUME NEW w \in Worker, HandlerReturns(w) PROVE TInv'
  BY <1>19 DEF HandlerReturns, Goto
<1>20. ASSUME NEW w \in Worker, HandlerRejects(w) PROVE TInv'
  BY <1>20 DEF HandlerRejects, RollbackAndReject, SavepointLocks, Rejection,
     Goto, Outcome
<1>21. ASSUME NEW w \in Worker, HandlerThrows(w) PROVE TInv'
  BY <1>21 DEF HandlerThrows, Leave, Restart, Goto
<1>22. ASSUME NEW w \in Worker, Authorized(w) PROVE TInv'
  <2>1. held' \in [Worker -> SUBSET Resource]
    <3>1. CASE held' = [held EXCEPT ![w] = @ \cup {AuthorityLock}]
      BY <3>1, AuthorityIsResource
    <3>2. CASE UNCHANGED held
      BY <3>2
    <3>. QED
      BY <1>22, <3>1, <3>2 DEF Authorized, Take
  <2>2. TypeOK'
    BY <1>22, <2>1 DEF Authorized, Goto
  <2>3. FiniteRecords'
    BY <1>22 DEF Authorized
  <2>4. Attempt'
    BY <1>22 DEF Authorized, Goto
  <2>. QED
    BY <2>2, <2>3, <2>4
<1>23. ASSUME NEW w \in Worker, AuthorizationDenied(w) PROVE TInv'
  BY <1>23 DEF AuthorizationDenied, RollbackAndReject, SavepointLocks,
     Rejection, Goto, Outcome
<1>24. ASSUME NEW w \in Worker, WriteTarget(w) PROVE TInv'
  BY <1>24 DEF WriteTarget, Take, Goto, After
<1>25. ASSUME NEW w \in Worker, WriteConflict(w) PROVE TInv'
  BY <1>25, RetryTInv DEF WriteConflict
<1>26. ASSUME NEW w \in Worker, RecordResult(w) PROVE TInv'
  <2>1. After(w) \in RowState
    BY <1>26 DEF RecordResult, After
  <2>2. /\ recorded' \in [Worker -> SUBSET Change]
        /\ \A v \in Worker : IsFiniteSet(recorded'[v])
        /\ held' \in [Worker -> SUBSET Resource]
    <3>1. PICK was \in RowState : RecordChange(w, key[w], was, After(w))
      BY <1>26 DEF RecordResult
    <3>. QED
      BY <1>26, <2>1, <3>1, RecordChangeTypes DEF RecordResult
  <2>3. [kind |-> "completed", key |-> key[w], after |-> After(w)] \in Outcome
    BY <1>26, <2>1 DEF RecordResult, Outcome
  <2>4. TypeOK'
    BY <1>26, <2>2, <2>3 DEF RecordResult, Goto
  <2>5. Attempt'
    BY <1>26, <2>3 DEF RecordResult, Goto
  <2>. QED
    BY <2>2, <2>4, <2>5
<1>27. ASSUME NEW w \in Worker, Commit(w) PROVE TInv'
  <2>1. Cardinality(recorded[w]) \in Nat
    BY FS_CardinalityType
  <2>2. rows' \in [Key -> RowState]
    BY <1>27 DEF Commit, Visible
  <2>3. /\ results' \in [Command -> Outcome \cup {None}]
        /\ answers' \in [Command -> SUBSET Outcome]
    BY <1>27 DEF Commit
  <2>4. frontier' \in Nat
    BY <1>27, <2>1 DEF Commit
  <2>5. TypeOK'
    BY <1>27, <2>2, <2>3, <2>4 DEF Commit, Leave, Restart, Goto
  <2>6. FiniteRecords'
    BY <1>27 DEF Commit, Leave, Restart
  <2>7. Attempt'
    BY <1>27 DEF Commit, Leave, Restart, Goto
  <2>. QED
    BY <2>5, <2>6, <2>7
<1>28. ASSUME NEW w \in Worker, DeadlockVictim(w) PROVE TInv'
  BY <1>28, RetryTInv, WaitingIsBusy DEF DeadlockVictim
<1>29. ASSUME NEW w \in Worker, Crash(w) PROVE TInv'
  BY <1>29 DEF Crash, Leave, Restart, Goto
<1>30. CASE UNCHANGED vars
  BY <1>30 DEF vars
<1>. QED
  BY <1>1, <1>2, <1>3, <1>4, <1>5, <1>6, <1>7, <1>8, <1>9, <1>10, <1>11,
     <1>12, <1>13, <1>14, <1>15, <1>16, <1>17, <1>18, <1>19, <1>20, <1>21,
     <1>22, <1>23, <1>24, <1>25, <1>26, <1>27, <1>28, <1>29, <1>30 DEF Next,
     Statement

\* Types: every behaviour of the kernel keeps every variable in its type, for
\* any number of workers, commands and rows.
THEOREM TypeCorrect == Spec => []TypeOK
<1>1. TInv => TypeOK
  BY DEF TInv
<1>. QED
  BY <1>1, InitTInv, NextTInv, PTL DEF Spec

-----------------------------------------------------------------------------
(* One answer for a command *)

\* A rollback gives up locks and no result.
LEMMA RestartSInv ==
    ASSUME SInv, NEW w \in Worker, NEW s \in {"idle", "scope"}, NEW c, NEW n,
           Restart(w, s, c, n), UNCHANGED results, UNCHANGED answers
    PROVE  Locks' /\ Unsettled' /\ StableAnswer'
BY DEF SInv, TInv, TypeOK, Locks, Unsettled, StableAnswer, Restart, Goto

\* Nor does a retry disturb what StableAnswer rests on.
LEMMA RetrySInv ==
    ASSUME SInv, NEW w \in Worker, RetryOrLeave(w), UNCHANGED <<tables, clients>>
    PROVE  Locks' /\ Unsettled' /\ StableAnswer'
BY RestartSInv DEF RetryOrLeave, Leave, tables, clients

\* Taking a free lock: it gets one holder, and nothing is given up.
LEMMA TakeLocks ==
    ASSUME SInv, NEW w \in Worker, NEW r, Take(w, r)
    PROVE  /\ \A u, v \in Worker : u # v => held'[u] \cap held'[v] = {}
           /\ \A v \in Worker : held[v] \subseteq held'[v]
           /\ r \in held'[w]
BY DEF SInv, TInv, TypeOK, Locks, Take, Free

\* Every step keeps the locks exclusive and the answers stable.
LEMMA NextSInv == SInv /\ [Next]_vars => SInv'
<1>. SUFFICES ASSUME SInv, [Next]_vars PROVE Locks' /\ Unsettled' /\ StableAnswer'
  BY NextTInv DEF SInv
<1>. USE ValueAssumption DEF SInv, TInv, TypeOK, Locks, Unsettled, StableAnswer,
         tables, local, clients, Step
<1>1. ASSUME NEW c \in Command, Submit(c)
      PROVE  Locks' /\ Unsettled' /\ StableAnswer'
  BY <1>1 DEF Submit
<1>2. ASSUME NEW c \in Command, TerminalFailure(c)
      PROVE  Locks' /\ Unsettled' /\ StableAnswer'
  BY <1>2 DEF TerminalFailure
<1>3. ASSUME NEW w \in Worker, NEW c \in Command, Begin(w, c)
      PROVE  Locks' /\ Unsettled' /\ StableAnswer'
  BY <1>3 DEF Begin, Restart, Goto
<1>4. ASSUME NEW w \in Worker, LockScope(w)
      PROVE  Locks' /\ Unsettled' /\ StableAnswer'
  <2>1. /\ \A u, v \in Worker : u # v => held'[u] \cap held'[v] = {}
        /\ \A v \in Worker : held[v] \subseteq held'[v]
        /\ ScopeLock(cmd[w]) \in held'[w]
    BY <1>4, TakeLocks DEF LockScope
  <2>. QED
    BY <1>4, <2>1 DEF LockScope, Goto
<1>5. ASSUME NEW w \in Worker, LockContext(w)
      PROVE  Locks' /\ Unsettled' /\ StableAnswer'
  <2>1. /\ \A u, v \in Worker : u # v => held'[u] \cap held'[v] = {}
        /\ \A v \in Worker : held[v] \subseteq held'[v]
        /\ ContextLock(ContextOf[cmd[w]]) \in held'[w]
    BY <1>5, TakeLocks DEF LockContext
  <2>. QED
    BY <1>5, <2>1 DEF LockContext, Goto
<1>6. ASSUME NEW w \in Worker, Replay(w)
      PROVE  Locks' /\ Unsettled' /\ StableAnswer'
  BY <1>6 DEF Replay, Leave, Restart, Goto
<1>7. ASSUME NEW w \in Worker, ReplayFails(w)
      PROVE  Locks' /\ Unsettled' /\ StableAnswer'
  BY <1>7, RestartSInv DEF ReplayFails, Leave
<1>8. ASSUME NEW w \in Worker, Execute(w)
      PROVE  Locks' /\ Unsettled' /\ StableAnswer'
  BY <1>8 DEF Execute, Goto, TargetStep
<1>9. ASSUME NEW w \in Worker, LockTarget(w)
      PROVE  Locks' /\ Unsettled' /\ StableAnswer'
  <2>1. /\ \A u, v \in Worker : u # v => held'[u] \cap held'[v] = {}
        /\ \A v \in Worker : held[v] \subseteq held'[v]
    BY <1>9, TakeLocks DEF LockTarget
  <2>. QED
    BY <1>9, <2>1 DEF LockTarget, Goto
<1>10. ASSUME NEW w \in Worker, ReadTarget(w)
       PROVE  Locks' /\ Unsettled' /\ StableAnswer'
  <2>1. /\ \A u, v \in Worker : u # v => held'[u] \cap held'[v] = {}
        /\ \A v \in Worker : held[v] \subseteq held'[v]
    BY <1>10, TakeLocks DEF ReadTarget, LockedModelObject
  <2>2. PICK s \in {"target", "read", "decide"} : step' = [step EXCEPT ![w] = s]
    BY <1>10 DEF ReadTarget, Goto, TargetStep
  <2>. QED
    BY <1>10, <2>1, <2>2 DEF ReadTarget
<1>11. ASSUME NEW w \in Worker, RejectBeforehand(w)
       PROVE  Locks' /\ Unsettled' /\ StableAnswer'
  BY <1>11 DEF RejectBeforehand, Rejection, Goto
<1>12. ASSUME NEW w \in Worker, Accept(w)
       PROVE  Locks' /\ Unsettled' /\ StableAnswer'
  BY <1>12 DEF Accept, Goto
<1>13. ASSUME NEW w \in Worker, InsertInitial(w)
       PROVE  Locks' /\ Unsettled' /\ StableAnswer'
  <2>1. /\ \A u, v \in Worker : u # v => held'[u] \cap held'[v] = {}
        /\ \A v \in Worker : held[v] \subseteq held'[v]
    BY <1>13, TakeLocks DEF InsertInitial
  <2>. QED
    BY <1>13, <2>1 DEF InsertInitial, Goto
<1>14. ASSUME NEW w \in Worker, InsertConflict(w)
       PROVE  Locks' /\ Unsettled' /\ StableAnswer'
  BY <1>14, RestartSInv, RetrySInv DEF InsertConflict, Leave
<1>15. ASSUME NEW w \in Worker, CallParticipant(w)
       PROVE  Locks' /\ Unsettled' /\ StableAnswer'
  BY <1>15 DEF CallParticipant, Goto
<1>16. ASSUME NEW w \in Worker, PatchParticipant(w)
       PROVE  Locks' /\ Unsettled' /\ StableAnswer'
  <2>1. /\ \A u, v \in Worker : u # v => held'[u] \cap held'[v] = {}
        /\ \A v \in Worker : held[v] \subseteq held'[v]
    BY <1>16, TakeLocks DEF PatchParticipant
  <2>. QED
    BY <1>16, <2>1 DEF PatchParticipant, Goto
<1>17. ASSUME NEW w \in Worker, ParticipantMissing(w)
       PROVE  Locks' /\ Unsettled' /\ StableAnswer'
  BY <1>17, RestartSInv DEF ParticipantMissing, Leave
<1>18. ASSUME NEW w \in Worker, ParticipantChange(w)
       PROVE  Locks' /\ Unsettled' /\ StableAnswer'
  <2>1. /\ \A u, v \in Worker : u # v => held'[u] \cap held'[v] = {}
        /\ \A v \in Worker : held[v] \subseteq held'[v]
    BY <1>18, TakeLocks DEF ParticipantChange, RecordChange
  <2>. QED
    BY <1>18, <2>1 DEF ParticipantChange, Goto
<1>19. ASSUME NEW w \in Worker, HandlerReturns(w)
       PROVE  Locks' /\ Unsettled' /\ StableAnswer'
  BY <1>19 DEF HandlerReturns, Goto
<1>20. ASSUME NEW w \in Worker, HandlerRejects(w)
       PROVE  Locks' /\ Unsettled' /\ StableAnswer'
  BY <1>20 DEF HandlerRejects, RollbackAndReject, SavepointLocks, Rejection,
     Goto
<1>21. ASSUME NEW w \in Worker, HandlerThrows(w)
       PROVE  Locks' /\ Unsettled' /\ StableAnswer'
  BY <1>21, RestartSInv DEF HandlerThrows, Leave
<1>22. ASSUME NEW w \in Worker, Authorized(w)
       PROVE  Locks' /\ Unsettled' /\ StableAnswer'
  <2>1. /\ \A u, v \in Worker : u # v => held'[u] \cap held'[v] = {}
        /\ \A v \in Worker : held[v] \subseteq held'[v]
    BY <1>22, TakeLocks DEF Authorized
  <2>. QED
    BY <1>22, <2>1 DEF Authorized, Goto
<1>23. ASSUME NEW w \in Worker, AuthorizationDenied(w)
       PROVE  Locks' /\ Unsettled' /\ StableAnswer'
  BY <1>23 DEF AuthorizationDenied, RollbackAndReject, SavepointLocks,
     Rejection, Goto
<1>24. ASSUME NEW w \in Worker, WriteTarget(w)
       PROVE  Locks' /\ Unsettled' /\ StableAnswer'
  <2>1. /\ \A u, v \in Worker : u # v => held'[u] \cap held'[v] = {}
        /\ \A v \in Worker : held[v] \subseteq held'[v]
    BY <1>24, TakeLocks DEF WriteTarget
  <2>. QED
    BY <1>24, <2>1 DEF WriteTarget, Goto
<1>25. ASSUME NEW w \in Worker, WriteConflict(w)
       PROVE  Locks' /\ Unsettled' /\ StableAnswer'
  BY <1>25, RetrySInv DEF WriteConflict
<1>26. ASSUME NEW w \in Worker, RecordResult(w)
       PROVE  Locks' /\ Unsettled' /\ StableAnswer'
  <2>1. /\ \A u, v \in Worker : u # v => held'[u] \cap held'[v] = {}
        /\ \A v \in Worker : held[v] \subseteq held'[v]
    BY <1>26, TakeLocks DEF RecordResult, RecordChange
  <2>. QED
    BY <1>26, <2>1 DEF RecordResult, Goto
<1>27. ASSUME NEW w \in Worker, Commit(w)
       PROVE  Locks' /\ Unsettled' /\ StableAnswer'
  <2>1. Locks'
    BY <1>27 DEF Commit, Leave, Restart, Goto
  <2>2. cmd[w] \in Command /\ results[cmd[w]] = None
    BY <1>27 DEF Commit, Attempt
  <2>3. StableAnswer'
    <3>1. answers[cmd[w]] = {}
      <4>1. answers[cmd[w]] \subseteq Outcome
        BY <2>2
      <4>2. \A a \in answers[cmd[w]] : a = None
        BY <2>2
      <4>. QED
        BY <4>1, <4>2
    <3>. QED
      BY <1>27, <2>2, <3>1 DEF Commit
  <2>4. Unsettled'
    <3>. SUFFICES ASSUME NEW v \in Worker,
                         step'[v] \notin {"idle", "scope", "context", "check"}
                  PROVE  results'[cmd'[v]] = None
      BY DEF Unsettled
    <3>1. v # w /\ step'[v] = step[v] /\ cmd'[v] = cmd[v]
      BY <1>27 DEF Commit, Leave, Restart, Goto
    <3>2. ScopeLock(cmd[v]) \in held[v] /\ ScopeLock(cmd[w]) \in held[w]
      BY <1>27, <3>1 DEF Commit
    <3>3. cmd[v] # cmd[w]
      BY <3>1, <3>2
    <3>. QED
      BY <1>27, <2>2, <3>1, <3>3 DEF Commit
  <2>. QED
    BY <2>1, <2>3, <2>4
<1>28. ASSUME NEW w \in Worker, DeadlockVictim(w)
       PROVE  Locks' /\ Unsettled' /\ StableAnswer'
  BY <1>28, RetrySInv DEF DeadlockVictim
<1>29. ASSUME NEW w \in Worker, Crash(w)
       PROVE  Locks' /\ Unsettled' /\ StableAnswer'
  BY <1>29, RestartSInv DEF Crash, Leave
<1>30. CASE UNCHANGED vars
  BY <1>30 DEF vars
<1>. QED
  BY <1>1, <1>2, <1>3, <1>4, <1>5, <1>6, <1>7, <1>8, <1>9, <1>10, <1>11,
     <1>12, <1>13, <1>14, <1>15, <1>16, <1>17, <1>18, <1>19, <1>20, <1>21,
     <1>22, <1>23, <1>24, <1>25, <1>26, <1>27, <1>28, <1>29, <1>30 DEF Next,
     Statement

\* StableAnswer: whichever worker answers, whatever retries, duplicates and
\* terminal failures ran beside it, it is the recorded result.
THEOREM StableAnswerHolds == Spec => []StableAnswer
<1>1. Init => SInv
  BY InitTInv DEF Init, SInv, Locks, Unsettled, StableAnswer
<1>2. SInv => StableAnswer
  BY DEF SInv
<1>. QED
  BY <1>1, <1>2, NextSInv, PTL DEF Spec

-----------------------------------------------------------------------------
(* The revision guard *)

\* A rollback forgets the checked revision with what it recorded.
LEMMA RestartGInv ==
    ASSUME GInv, NEW w \in Worker, NEW s \in {"idle", "scope"}, NEW c, NEW n,
           Restart(w, s, c, n), UNCHANGED changes, UNCHANGED submitted,
           UNCHANGED expected
    PROVE  Guarded' /\ RevisionGuard' /\ ChangesSubmitted'
BY DEF GInv, TInv, TypeOK, Guarded, RevisionGuard, ChangesSubmitted, Accepted,
   Before, Restart, Goto

\* And so does a retry.
LEMMA RetryGInv ==
    ASSUME GInv, NEW w \in Worker, RetryOrLeave(w), UNCHANGED <<tables, clients>>
    PROVE  Guarded' /\ RevisionGuard' /\ ChangesSubmitted'
BY RestartGInv DEF RetryOrLeave, Leave, tables, clients

\* Every step keeps the checked revision to the version replaced.
LEMMA NextGInv == GInv /\ [Next]_vars => GInv'
<1>. SUFFICES ASSUME GInv, [Next]_vars
              PROVE  Guarded' /\ RevisionGuard' /\ ChangesSubmitted'
  BY NextTInv DEF GInv
<1>. USE ValueAssumption DEF GInv, TInv, TypeOK, Attempt, Guarded, RevisionGuard,
         ChangesSubmitted, Accepted, Before, tables, local, clients, Step
<1>1. ASSUME NEW c \in Command, Submit(c)
      PROVE  Guarded' /\ RevisionGuard' /\ ChangesSubmitted'
  BY <1>1 DEF Submit
<1>2. ASSUME NEW c \in Command, TerminalFailure(c)
      PROVE  Guarded' /\ RevisionGuard' /\ ChangesSubmitted'
  BY <1>2 DEF TerminalFailure
<1>3. ASSUME NEW w \in Worker, NEW c \in Command, Begin(w, c)
      PROVE  Guarded' /\ RevisionGuard' /\ ChangesSubmitted'
  BY <1>3 DEF Begin, Restart, Goto
<1>4. ASSUME NEW w \in Worker, LockScope(w)
      PROVE  Guarded' /\ RevisionGuard' /\ ChangesSubmitted'
  BY <1>4 DEF LockScope, Take, Goto
<1>5. ASSUME NEW w \in Worker, LockContext(w)
      PROVE  Guarded' /\ RevisionGuard' /\ ChangesSubmitted'
  BY <1>5 DEF LockContext, Take, Goto
<1>6. ASSUME NEW w \in Worker, Replay(w)
      PROVE  Guarded' /\ RevisionGuard' /\ ChangesSubmitted'
  BY <1>6, RestartGInv DEF Replay, Leave
<1>7. ASSUME NEW w \in Worker, ReplayFails(w)
      PROVE  Guarded' /\ RevisionGuard' /\ ChangesSubmitted'
  BY <1>7, RestartGInv DEF ReplayFails, Leave
<1>8. ASSUME NEW w \in Worker, Execute(w)
      PROVE  Guarded' /\ RevisionGuard' /\ ChangesSubmitted'
  BY <1>8 DEF Execute, Goto, TargetStep
<1>9. ASSUME NEW w \in Worker, LockTarget(w)
      PROVE  Guarded' /\ RevisionGuard' /\ ChangesSubmitted'
  BY <1>9 DEF LockTarget, Take, Goto
<1>10. ASSUME NEW w \in Worker, ReadTarget(w)
       PROVE  Guarded' /\ RevisionGuard' /\ ChangesSubmitted'
  BY <1>10 DEF ReadTarget, LockedModelObject, Take, Goto, TargetStep,
     Visible
<1>11. ASSUME NEW w \in Worker, RejectBeforehand(w)
       PROVE  Guarded' /\ RevisionGuard' /\ ChangesSubmitted'
  BY <1>11 DEF RejectBeforehand, Rejection, Goto
<1>12. ASSUME NEW w \in Worker, Accept(w)
       PROVE  Guarded' /\ RevisionGuard' /\ ChangesSubmitted'
  BY <1>12 DEF Accept, Goto, RejectedBeforehand
<1>13. ASSUME NEW w \in Worker, InsertInitial(w)
       PROVE  Guarded' /\ RevisionGuard' /\ ChangesSubmitted'
  BY <1>13 DEF InsertInitial, Take, Goto
<1>14. ASSUME NEW w \in Worker, InsertConflict(w)
       PROVE  Guarded' /\ RevisionGuard' /\ ChangesSubmitted'
  BY <1>14, RestartGInv, RetryGInv DEF InsertConflict, Leave
<1>15. ASSUME NEW w \in Worker, CallParticipant(w)
       PROVE  Guarded' /\ RevisionGuard' /\ ChangesSubmitted'
  BY <1>15 DEF CallParticipant, Goto
<1>16. ASSUME NEW w \in Worker, PatchParticipant(w)
       PROVE  Guarded' /\ RevisionGuard' /\ ChangesSubmitted'
  BY <1>16 DEF PatchParticipant, Take, Goto, Visible
<1>17. ASSUME NEW w \in Worker, ParticipantMissing(w)
       PROVE  Guarded' /\ RevisionGuard' /\ ChangesSubmitted'
  BY <1>17, RestartGInv DEF ParticipantMissing, Leave
<1>18. ASSUME NEW w \in Worker, ParticipantChange(w)
       PROVE  Guarded' /\ RevisionGuard' /\ ChangesSubmitted'
  BY <1>18 DEF ParticipantChange, RecordChange, Take, Goto
<1>19. ASSUME NEW w \in Worker, HandlerReturns(w)
       PROVE  Guarded' /\ RevisionGuard' /\ ChangesSubmitted'
  BY <1>19 DEF HandlerReturns, Goto
<1>20. ASSUME NEW w \in Worker, HandlerRejects(w)
       PROVE  Guarded' /\ RevisionGuard' /\ ChangesSubmitted'
  BY <1>20 DEF HandlerRejects, RollbackAndReject, SavepointLocks, Rejection,
     Goto
<1>21. ASSUME NEW w \in Worker, HandlerThrows(w)
       PROVE  Guarded' /\ RevisionGuard' /\ ChangesSubmitted'
  BY <1>21, RestartGInv DEF HandlerThrows, Leave
<1>22. ASSUME NEW w \in Worker, Authorized(w)
       PROVE  Guarded' /\ RevisionGuard' /\ ChangesSubmitted'
  BY <1>22 DEF Authorized, Goto
<1>23. ASSUME NEW w \in Worker, AuthorizationDenied(w)
       PROVE  Guarded' /\ RevisionGuard' /\ ChangesSubmitted'
  BY <1>23 DEF AuthorizationDenied, RollbackAndReject, SavepointLocks,
     Rejection, Goto
<1>24. ASSUME NEW w \in Worker, WriteTarget(w)
       PROVE  Guarded' /\ RevisionGuard' /\ ChangesSubmitted'
  BY <1>24 DEF WriteTarget, Take, Goto, After
<1>25. ASSUME NEW w \in Worker, WriteConflict(w)
       PROVE  Guarded' /\ RevisionGuard' /\ ChangesSubmitted'
  BY <1>25, RetryGInv DEF WriteConflict
<1>26. ASSUME NEW w \in Worker, RecordResult(w)
       PROVE  Guarded' /\ RevisionGuard' /\ ChangesSubmitted'
  BY <1>26 DEF RecordResult, RecordChange, Take, Goto, After, Before
<1>27. ASSUME NEW w \in Worker, Commit(w)
       PROVE  Guarded' /\ RevisionGuard' /\ ChangesSubmitted'
  <2>1. Guarded'
    BY <1>27 DEF Commit, Leave, Restart, Goto
  <2>2. /\ changes' = changes \cup recorded[w]
        /\ UNCHANGED <<submitted, expected>>
        /\ step[w] # "idle"
    BY <1>27 DEF Commit
  <2>3. \A d \in recorded[w] : d.command = cmd[w] /\ cmd[w] \in submitted
    BY <2>2
  <2>4. ChangesSubmitted'
    BY <2>2, <2>3
  <2>5. RevisionGuard'
    <3>. SUFFICES ASSUME NEW d \in changes \cup recorded[w],
                         expected[d.command] # None,
                         d.key # ParticipantOf[d.command]
                  PROVE  d.before = expected[d.command]
      BY <2>2 DEF RevisionGuard
    <3>1. CASE d \in changes
      BY <3>1
    <3>2. CASE d \in recorded[w]
      <4>1. d.command = cmd[w]
        BY <2>3, <3>2
      <4>2. expected[cmd[w]] # None /\ d.key # ParticipantOf[cmd[w]]
        BY <4>1
      <4>3. d.before = expected[cmd[w]]
        BY <2>2, <3>2, <4>2 DEF Guarded
      <4>. QED
        BY <4>1, <4>3
    <3>. QED
      BY <3>1, <3>2
  <2>. QED
    BY <2>1, <2>4, <2>5
<1>28. ASSUME NEW w \in Worker, DeadlockVictim(w)
       PROVE  Guarded' /\ RevisionGuard' /\ ChangesSubmitted'
  BY <1>28, RetryGInv DEF DeadlockVictim
<1>29. ASSUME NEW w \in Worker, Crash(w)
       PROVE  Guarded' /\ RevisionGuard' /\ ChangesSubmitted'
  BY <1>29, RestartGInv DEF Crash, Leave
<1>30. CASE UNCHANGED vars
  BY <1>30 DEF vars
<1>. QED
  BY <1>1, <1>2, <1>3, <1>4, <1>5, <1>6, <1>7, <1>8, <1>9, <1>10, <1>11,
     <1>12, <1>13, <1>14, <1>15, <1>16, <1>17, <1>18, <1>19, <1>20, <1>21,
     <1>22, <1>23, <1>24, <1>25, <1>26, <1>27, <1>28, <1>29, <1>30 DEF Next,
     Statement

\* RevisionGuard: the version a command replaces is the one its client
\* expected, however many commands and workers run.
THEOREM RevisionGuardHolds == Spec => []RevisionGuard
<1>1. Init => GInv
  BY InitTInv DEF Init, GInv, Guarded, RevisionGuard, ChangesSubmitted
<1>2. GInv => RevisionGuard
  BY DEF GInv
<1>. QED
  BY <1>1, <1>2, NextGInv, PTL DEF Spec

=============================================================================
