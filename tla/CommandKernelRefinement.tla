----------------------- MODULE CommandKernelRefinement -----------------------
(***************************************************************************)
(* CommandKernel implements CommandLedger, for any workers, commands,      *)
(* rows, contexts, bindings and retry bound: whatever transactions         *)
(* interleave, wait, deadlock, retry and crash, what they commit is a      *)
(* ledger that commands enter one at a time.                               *)
(***************************************************************************)
EXTENDS CommandKernelProofs

-----------------------------------------------------------------------------
(* The inductive invariant *)

\* The committed version that the change of the target replaces.
Was(w) == IF initialized[w] THEN Missing ELSE Before(w)

\* A row that a transaction wrote is locked by it.
WrittenLocked(w) ==
    \A k \in Key : staged[w][k] # Unwritten => RowLock(k) \in held[w]

\* The target: a serial command has locked it since it read it, one that
\* inserted it since then, and a concurrent one since it wrote it; while it is
\* locked the committed version is the one that was read.
TargetVersion(w) ==
    /\ step[w] \notin Accepted \cup {"commit"} =>
            staged[w] = NothingStaged /\ recorded[w] = {}
    /\ step[w] = "decide" /\ cmd[w] \in Serial /\ Before(w) # Missing =>
            RowLock(key[w]) \in held[w] /\ rows[key[w]] = Before(w)
    /\ step[w] \in Accepted =>
         /\ cmd[w] \in Serial \/ initialized[w] \/ step[w] = "change" =>
                RowLock(key[w]) \in held[w] /\ rows[key[w]] = Was(w)
         /\ staged[w][key[w]] = IF step[w] = "change" THEN After(w)
                                ELSE IF initialized[w] THEN Before(w)
                                ELSE Unwritten

\* The participant: what a transaction wrote is recorded, except for the
\* target, which comes last, and the participant, which comes next.
ParticipantVersion(w) ==
    /\ step[w] \in {"handler", "participant", "participantChange"} => recorded[w] = {}
    /\ step[w] = "participantChange" =>
            read[w][ParticipantOf[cmd[w]]] = rows[ParticipantOf[cmd[w]]]
    /\ step[w] \in Accepted => \A d \in recorded[w] : d.key # key[w]
    /\ \A k \in Key : staged[w][k] # Unwritten =>
         \/ \E d \in recorded[w] : d.key = k
         \/ step[w] \in Accepted /\ k = key[w]
         \/ step[w] = "participantChange" /\ k = ParticipantOf[cmd[w]]

\* A record is of the row as it is committed and as the transaction leaves it,
\* and its position is one of those after the frontier, which is locked.
Records(w) ==
    /\ recorded[w] # {} => FrontierLock \in held[w]
    /\ \A d \in recorded[w] :
         /\ d.command = cmd[w]
         /\ d.before = rows[d.key]
         /\ d.after = staged[w][d.key]
         /\ d.position \in (frontier + 1)..(frontier + Cardinality(recorded[w]))
    /\ \A d, e \in recorded[w] : d # e => d.key # e.key /\ d.position # e.position

\* The result about to be committed reports the change of the target, or there
\* is no change.
OutcomeFaithful(w) ==
    step[w] = "commit" =>
        \/ /\ outcome[w].kind = "completed"
           /\ \E d \in recorded[w] : d.key = outcome[w].key /\ d.after = outcome[w].after
        \/ outcome[w].kind = "rejected" /\ recorded[w] = {}

\* What a transaction would commit is an entry of the ledger as it is now.
Sound(w) == /\ WrittenLocked(w) /\ TargetVersion(w) /\ ParticipantVersion(w)
            /\ Records(w) /\ OutcomeFaithful(w)

\* The feed ends at the frontier.
FeedEnds == \A d \in changes : d.position <= frontier

LInv == SInv /\ GInv /\ FeedEnds /\ \A w \in Worker : Sound(w)

-----------------------------------------------------------------------------
(* Steps that commit nothing *)

\* The transactions of the other workers are left alone.
OthersUnchanged(w) ==
    \A v \in Worker \ {w} :
        UNCHANGED <<step[v], cmd[v], held[v], key[v], read[v], initialized[v],
                    deleting[v], staged[v], recorded[v], outcome[v]>>

\* A step that leaves the tables and the other transactions alone can only
\* make its own transaction unsound.
LEMMA OthersSound ==
    ASSUME LInv, NEW w \in Worker, UNCHANGED tables, OthersUnchanged(w), Sound(w)'
    PROVE  FeedEnds' /\ \A v \in Worker : Sound(v)'
<1>1. FeedEnds'
  BY DEF LInv, FeedEnds, tables
<1>2. ASSUME NEW v \in Worker \ {w} PROVE Sound(v)'
  BY <1>2 DEF OthersUnchanged, LInv, Sound, WrittenLocked, TargetVersion,
     ParticipantVersion, Records, OutcomeFaithful, Was, Before, After, tables
<1>. QED
  BY <1>1, <1>2

\* So is one that has staged and recorded nothing and decided nothing.
LEMMA NothingSound ==
    ASSUME NEW w \in Worker, staged'[w] = NothingStaged, recorded'[w] = {},
           step'[w] \notin Accepted \cup {"decide", "commit"}
    PROVE  Sound(w)'
BY DEF Sound, WrittenLocked, TargetVersion, ParticipantVersion, Records,
   OutcomeFaithful, NothingStaged, Accepted

\* A rollback stages and records nothing.
LEMMA RestartSound ==
    ASSUME LInv, NEW w \in Worker, NEW s \in {"idle", "scope"}, NEW c, NEW n,
           Restart(w, s, c, n), UNCHANGED tables
    PROVE  FeedEnds' /\ \A v \in Worker : Sound(v)'
<1>. USE DEF LInv, GInv, TInv, TypeOK
<1>1. OthersUnchanged(w)
  BY DEF OthersUnchanged, Restart, Goto
<1>2. step'[w] = s /\ staged'[w] = NothingStaged /\ recorded'[w] = {}
  BY DEF Restart, Goto
<1>3. Sound(w)'
  BY <1>2, NothingSound DEF Accepted
<1>. QED
  BY <1>1, <1>3, OthersSound

\* So does a retry.
LEMMA RetrySound ==
    ASSUME LInv, NEW w \in Worker, RetryOrLeave(w), UNCHANGED tables
    PROVE  FeedEnds' /\ \A v \in Worker : Sound(v)'
BY RestartSound DEF RetryOrLeave, Leave

\* A record of a row that has none yet is faithful and takes a new position.
LEMMA RecordSound ==
    ASSUME NEW w \in Worker, NEW k \in Key, frontier \in Nat,
           recorded \in [Worker -> SUBSET Change], held \in [Worker -> SUBSET Resource],
           IsFiniteSet(recorded[w]), Records(w),
           \A d \in recorded[w] : d.key # k,
           RecordChange(w, k, rows[k], staged[w][k]),
           UNCHANGED <<rows, frontier, cmd[w], staged[w]>>
    PROVE  /\ Records(w)'
           /\ \E d \in recorded'[w] :
                /\ recorded'[w] = recorded[w] \cup {d}
                /\ d.key = k
                /\ d.after = staged[w][k]
<1>. DEFINE n == Cardinality(recorded[w])
            r == [command |-> cmd[w], key |-> k, before |-> rows[k],
                  after |-> staged[w][k], position |-> frontier + n + 1]
<1>1. recorded'[w] = recorded[w] \cup {r} /\ FrontierLock \in held'[w]
  BY DEF RecordChange, Take
<1>2. r \notin recorded[w] /\ r.key = k /\ r.after = staged[w][k]
  OBVIOUS
<1>3. n \in Nat /\ Cardinality(recorded'[w]) = n + 1
  BY <1>1, <1>2, FS_CardinalityType, FS_AddElement
<1>4. \A d \in recorded[w] :
        /\ d.command = cmd[w] /\ d.before = rows[d.key] /\ d.after = staged[w][d.key]
        /\ d.position \in (frontier + 1)..(frontier + n)
  BY DEF Records
<1>5. /\ r.command = cmd[w] /\ r.before = rows[r.key] /\ r.after = staged[w][r.key]
      /\ r.position = frontier + n + 1
  OBVIOUS
<1>. HIDE DEF n, r
<1>6. \A d \in recorded[w] : d # r => d.key # r.key /\ d.position # r.position
  BY <1>2, <1>3, <1>4, <1>5
<1>7. \A d, e \in recorded'[w] : d # e => d.key # e.key /\ d.position # e.position
  BY <1>1, <1>6 DEF Records
<1>8. \A d \in recorded'[w] :
        /\ d.command = cmd'[w] /\ d.before = rows'[d.key] /\ d.after = staged'[w][d.key]
        /\ d.position \in (frontier' + 1)..(frontier' + Cardinality(recorded'[w]))
  BY <1>1, <1>3, <1>4, <1>5
<1>9. Records(w)'
  BY <1>1, <1>7, <1>8 DEF Records
<1>. QED
  BY <1>1, <1>2, <1>9

\* Every statement but COMMIT keeps each transaction sound.
LEMMA StatementSound ==
    ASSUME LInv, NEW w \in Worker, Statement(w), ~Commit(w)
    PROVE  FeedEnds' /\ \A v \in Worker : Sound(v)'
<1>. USE CommandAssumption, ValueAssumption, RevisionsOfCommands
         DEF tables, local, clients, RowState
<1>a. Sound(w)
  BY DEF LInv
<1>b. /\ rows \in [Key -> RowState]
      /\ staged[w] \in [Key -> RowState \cup {Unwritten}]
      /\ read[w] \in [Key -> RowState \cup {None}]
      /\ recorded[w] \subseteq Change
      /\ step[w] # "idle" => /\ cmd[w] \in Command /\ key[w] \in Key
                             /\ key[w] # ParticipantOf[cmd[w]]
      /\ step[w] \in Accepted => Before(w) \in RowState
      /\ step[w] \in {"participant", "participantChange"}
            => ParticipantOf[cmd[w]] \in Key
      /\ step[w] \notin Accepted \cup {"commit"} => ~initialized[w]
  BY DEF LInv, GInv, TInv, TypeOK, Attempt, Guarded
<1>1. CASE LockScope(w)
  <2>1. OthersUnchanged(w)
    BY <1>1 DEF OthersUnchanged, LockScope, Take, Goto, LInv, GInv, TInv,
       TypeOK
  <2>2. /\ step'[w] = "context"
        /\ held[w] \subseteq held'[w]
        /\ UNCHANGED <<cmd[w], key[w], read[w], initialized[w],
                       deleting[w], staged[w], recorded[w],
                       outcome[w]>>
    BY <1>1, <1>b DEF LockScope, Take, Goto, LInv, GInv, TInv, TypeOK
  <2>3. Sound(w)'
    BY <1>1, <2>2, <1>a, NothingSound DEF LockScope, Accepted, Sound,
       TargetVersion
  <2>. QED
    BY <1>1, <2>1, <2>3, OthersSound DEF LockScope
<1>2. CASE LockContext(w)
  <2>1. OthersUnchanged(w)
    BY <1>2 DEF OthersUnchanged, LockContext, Take, Goto, LInv, GInv, TInv,
       TypeOK
  <2>2. /\ step'[w] = "check"
        /\ held[w] \subseteq held'[w]
        /\ UNCHANGED <<cmd[w], key[w], read[w], initialized[w],
                       deleting[w], staged[w], recorded[w],
                       outcome[w]>>
    BY <1>2, <1>b DEF LockContext, Take, Goto, LInv, GInv, TInv, TypeOK
  <2>3. Sound(w)'
    BY <1>2, <2>2, <1>a, NothingSound DEF LockContext, Accepted, Sound,
       TargetVersion
  <2>. QED
    BY <1>2, <2>1, <2>3, OthersSound DEF LockContext
<1>3. CASE Execute(w)
  <2>1. OthersUnchanged(w)
    BY <1>3 DEF OthersUnchanged, Execute, Goto, TargetStep, LInv, GInv, TInv,
       TypeOK
  <2>2. /\ step'[w] \in {"target", "read"}
        /\ UNCHANGED <<cmd[w], held[w], key[w], read[w], initialized[w],
                       deleting[w], staged[w], recorded[w],
                       outcome[w]>>
    BY <1>3, <1>b DEF Execute, Goto, TargetStep, LInv, GInv, TInv, TypeOK
  <2>3. Sound(w)'
    BY <1>3, <2>2, <1>a, NothingSound DEF Execute, Accepted, Sound,
       TargetVersion
  <2>. QED
    BY <1>3, <2>1, <2>3, OthersSound DEF Execute
<1>4. CASE LockTarget(w)
  <2>1. OthersUnchanged(w)
    BY <1>4 DEF OthersUnchanged, LockTarget, Take, Goto, LInv, GInv, TInv,
       TypeOK
  <2>2. /\ step'[w] = "read"
        /\ held[w] \subseteq held'[w]
        /\ UNCHANGED <<cmd[w], key[w], read[w], initialized[w],
                       deleting[w], staged[w], recorded[w],
                       outcome[w]>>
    BY <1>4, <1>b DEF LockTarget, Take, Goto, LInv, GInv, TInv, TypeOK
  <2>3. Sound(w)'
    BY <1>4, <2>2, <1>a, NothingSound DEF LockTarget, Accepted, Sound,
       TargetVersion
  <2>. QED
    BY <1>4, <2>1, <2>3, OthersSound DEF LockTarget
<1>5. CASE RejectBeforehand(w)
  <2>1. OthersUnchanged(w)
    BY <1>5 DEF OthersUnchanged, RejectBeforehand, Goto, Rejection, LInv, GInv,
       TInv, TypeOK
  <2>2. /\ step'[w] = "commit"
        /\ outcome'[w].kind = "rejected"
        /\ UNCHANGED <<cmd[w], held[w], key[w], read[w], initialized[w],
                       deleting[w], staged[w], recorded[w]>>
    BY <1>5, <1>b DEF RejectBeforehand, Goto, Rejection, LInv, GInv, TInv,
       TypeOK
  <2>3. Sound(w)'
    BY <1>5, <2>2, <1>a, <1>b DEF RejectBeforehand, Sound, WrittenLocked,
       TargetVersion, ParticipantVersion, Records, OutcomeFaithful, Was,
       Before, After, Accepted, NothingStaged
  <2>. QED
    BY <1>5, <2>1, <2>3, OthersSound DEF RejectBeforehand
<1>6. CASE Accept(w)
  <2>1. OthersUnchanged(w)
    BY <1>6 DEF OthersUnchanged, Accept, Goto, LInv, GInv, TInv, TypeOK
  <2>2. /\ step'[w] = IF Before(w) = Missing THEN "initialize" ELSE "handler"
        /\ UNCHANGED <<cmd[w], held[w], key[w], read[w], initialized[w],
                       deleting[w], staged[w], recorded[w],
                       outcome[w]>>
    BY <1>6, <1>b DEF Accept, Goto, LInv, GInv, TInv, TypeOK
  <2>3. Sound(w)'
    BY <1>6, <2>2, <1>a, <1>b DEF Accept, Sound, WrittenLocked, TargetVersion,
       ParticipantVersion, Records, OutcomeFaithful, Was, Before, After,
       Accepted, NothingStaged
  <2>. QED
    BY <1>6, <2>1, <2>3, OthersSound DEF Accept
<1>7. CASE InsertInitial(w)
  <2>1. OthersUnchanged(w)
    BY <1>7 DEF OthersUnchanged, InsertInitial, Take, Goto, LInv, GInv, TInv,
       TypeOK
  <2>2. /\ step'[w] = "handler"
        /\ held'[w] = held[w] \cup {RowLock(key[w])}
        /\ staged'[w] = [staged[w] EXCEPT ![key[w]] = <<cmd[w], "initial">>]
        /\ read'[w] = [read[w] EXCEPT ![key[w]] = <<cmd[w], "initial">>]
        /\ initialized'[w] = TRUE
        /\ UNCHANGED <<cmd[w], key[w], deleting[w], recorded[w],
                       outcome[w]>>
    BY <1>7, <1>b DEF InsertInitial, Take, Goto, LInv, GInv, TInv, TypeOK
  <2>3. Sound(w)'
    BY <1>7, <2>2, <1>a, <1>b DEF InsertInitial, Sound, WrittenLocked,
       TargetVersion, ParticipantVersion, Records, OutcomeFaithful, Was,
       Before, After, Accepted, NothingStaged
  <2>. QED
    BY <1>7, <2>1, <2>3, OthersSound DEF InsertInitial
<1>8. CASE CallParticipant(w)
  <2>1. OthersUnchanged(w)
    BY <1>8 DEF OthersUnchanged, CallParticipant, Goto, LInv, GInv, TInv,
       TypeOK
  <2>2. /\ step'[w] = "participant"
        /\ UNCHANGED <<cmd[w], held[w], key[w], read[w], initialized[w],
                       deleting[w], staged[w], recorded[w],
                       outcome[w]>>
    BY <1>8, <1>b DEF CallParticipant, Goto, LInv, GInv, TInv, TypeOK
  <2>3. Sound(w)'
    BY <1>8, <2>2, <1>a, <1>b DEF CallParticipant, Sound, WrittenLocked,
       TargetVersion, ParticipantVersion, Records, OutcomeFaithful, Was,
       Before, After, Accepted, NothingStaged
  <2>. QED
    BY <1>8, <2>1, <2>3, OthersSound DEF CallParticipant
<1>9. CASE PatchParticipant(w)
  <2>1. OthersUnchanged(w)
    BY <1>9 DEF OthersUnchanged, PatchParticipant, Take, Goto, LInv, GInv,
       TInv, TypeOK
  <2>2. /\ step'[w] = "participantChange"
        /\ held'[w] = held[w] \cup {RowLock(ParticipantOf[cmd[w]])}
        /\ staged'[w] = [staged[w] EXCEPT ![ParticipantOf[cmd[w]]] =
                                            <<cmd[w], "participant">>]
        /\ read'[w] = [read[w] EXCEPT ![ParticipantOf[cmd[w]]] =
                                            Visible(w, ParticipantOf[cmd[w]])]
        /\ UNCHANGED <<cmd[w], key[w], initialized[w], deleting[w],
                       recorded[w], outcome[w]>>
    BY <1>9, <1>b DEF PatchParticipant, Take, Goto, LInv, GInv, TInv, TypeOK
  <2>3. WrittenLocked(w)'
    BY <1>9, <2>2, <1>a, <1>b DEF PatchParticipant, Sound, WrittenLocked
  <2>4. TargetVersion(w)'
    BY <1>9, <2>2, <1>a, <1>b DEF PatchParticipant, Sound, TargetVersion, Was,
       Before, After, Accepted
  <2>5. ParticipantVersion(w)'
    BY <1>9, <2>2, <1>a, <1>b DEF PatchParticipant, Sound, TargetVersion,
       ParticipantVersion, Visible, Accepted
  <2>6. Records(w)'
    BY <1>9, <2>2, <1>a, <1>b DEF PatchParticipant, Sound, ParticipantVersion,
       Records
  <2>7. OutcomeFaithful(w)'
    BY <1>9, <2>2, <1>a, <1>b DEF OutcomeFaithful
  <2>8. Sound(w)'
    BY <2>3, <2>4, <2>5, <2>6, <2>7 DEF Sound
  <2>. QED
    BY <1>9, <2>1, <2>8, OthersSound DEF PatchParticipant
<1>10. CASE HandlerReturns(w)
  <2>1. OthersUnchanged(w)
    BY <1>10 DEF OthersUnchanged, HandlerReturns, Goto, LInv, GInv, TInv,
       TypeOK
  <2>2. /\ step'[w] = "authorize"
        /\ deleting'[w] \in BOOLEAN
        /\ UNCHANGED <<cmd[w], held[w], key[w], read[w], initialized[w],
                       staged[w], recorded[w], outcome[w]>>
    BY <1>10, <1>b DEF HandlerReturns, Goto, LInv, GInv, TInv, TypeOK
  <2>3. Sound(w)'
    BY <1>10, <2>2, <1>a, <1>b DEF HandlerReturns, Sound, WrittenLocked,
       TargetVersion, ParticipantVersion, Records, OutcomeFaithful, Was,
       Before, After, Accepted, NothingStaged
  <2>. QED
    BY <1>10, <2>1, <2>3, OthersSound DEF HandlerReturns
<1>11. CASE HandlerRejects(w)
  <2>1. OthersUnchanged(w)
    BY <1>11 DEF OthersUnchanged, HandlerRejects, RollbackAndReject, Rejection,
       Goto, LInv, GInv, TInv, TypeOK
  <2>2. /\ step'[w] = "commit"
        /\ staged'[w] = NothingStaged
        /\ recorded'[w] = {}
        /\ outcome'[w].kind = "rejected"
        /\ UNCHANGED <<cmd[w], key[w], read[w], initialized[w],
                       deleting[w]>>
    BY <1>11, <1>b DEF HandlerRejects, RollbackAndReject, Rejection, Goto,
       LInv, GInv, TInv, TypeOK
  <2>3. Sound(w)'
    BY <1>11, <2>2, <1>a, <1>b DEF HandlerRejects, Sound, WrittenLocked,
       TargetVersion, ParticipantVersion, Records, OutcomeFaithful, Was,
       Before, After, Accepted, NothingStaged
  <2>. QED
    BY <1>11, <2>1, <2>3, OthersSound DEF HandlerRejects, RollbackAndReject
<1>12. CASE AuthorizationDenied(w)
  <2>1. OthersUnchanged(w)
    BY <1>12 DEF OthersUnchanged, AuthorizationDenied, RollbackAndReject,
       Rejection, Goto, LInv, GInv, TInv, TypeOK
  <2>2. /\ step'[w] = "commit"
        /\ staged'[w] = NothingStaged
        /\ recorded'[w] = {}
        /\ outcome'[w].kind = "rejected"
        /\ UNCHANGED <<cmd[w], key[w], read[w], initialized[w],
                       deleting[w]>>
    BY <1>12, <1>b DEF AuthorizationDenied, RollbackAndReject, Rejection, Goto,
       LInv, GInv, TInv, TypeOK
  <2>3. Sound(w)'
    BY <1>12, <2>2, <1>a, <1>b DEF AuthorizationDenied, Sound, WrittenLocked,
       TargetVersion, ParticipantVersion, Records, OutcomeFaithful, Was,
       Before, After, Accepted, NothingStaged
  <2>. QED
    BY <1>12, <2>1, <2>3, OthersSound DEF AuthorizationDenied,
       RollbackAndReject
<1>13. CASE Authorized(w)
  <2>1. OthersUnchanged(w)
    BY <1>13 DEF OthersUnchanged, Authorized, Take, Goto, LInv, GInv, TInv,
       TypeOK
  <2>2. /\ step'[w] = "write"
        /\ held[w] \subseteq held'[w]
        /\ UNCHANGED <<cmd[w], key[w], read[w], initialized[w],
                       deleting[w], staged[w], recorded[w],
                       outcome[w]>>
    BY <1>13, <1>b DEF Authorized, Take, Goto, LInv, GInv, TInv, TypeOK
  <2>3. Sound(w)'
    BY <1>13, <2>2, <1>a, <1>b DEF Authorized, Sound, WrittenLocked,
       TargetVersion, ParticipantVersion, Records, OutcomeFaithful, Was,
       Before, After, Accepted, NothingStaged
  <2>. QED
    BY <1>13, <2>1, <2>3, OthersSound DEF Authorized
<1>14. CASE WriteTarget(w)
  <2>1. OthersUnchanged(w)
    BY <1>14 DEF OthersUnchanged, WriteTarget, Take, Goto, LInv, GInv, TInv,
       TypeOK
  <2>2. /\ step'[w] = "change"
        /\ held'[w] = held[w] \cup {RowLock(key[w])}
        /\ staged'[w] = [staged[w] EXCEPT ![key[w]] = After(w)]
        /\ UNCHANGED <<cmd[w], key[w], read[w], initialized[w],
                       deleting[w], recorded[w], outcome[w]>>
    BY <1>14, <1>b DEF WriteTarget, Take, Goto, LInv, GInv, TInv, TypeOK
  <2>3. WrittenLocked(w)'
    BY <1>14, <2>2, <1>a, <1>b DEF WriteTarget, Sound, WrittenLocked
  <2>4. TargetVersion(w)'
    BY <1>14, <2>2, <1>a, <1>b DEF WriteTarget, Sound, TargetVersion, Was,
       Before, After, Accepted, Visible
  <2>5. ParticipantVersion(w)'
    BY <1>14, <2>2, <1>a, <1>b DEF WriteTarget, Sound, TargetVersion,
       ParticipantVersion, Accepted
  <2>6. Records(w)'
    BY <1>14, <2>2, <1>a, <1>b DEF WriteTarget, Sound, ParticipantVersion,
       Records, Accepted
  <2>7. OutcomeFaithful(w)'
    BY <1>14, <2>2, <1>a, <1>b DEF OutcomeFaithful
  <2>8. Sound(w)'
    BY <2>3, <2>4, <2>5, <2>6, <2>7 DEF Sound
  <2>. QED
    BY <1>14, <2>1, <2>8, OthersSound DEF WriteTarget
<1>15. CASE ParticipantChange(w)
  <2>1. OthersUnchanged(w)
    BY <1>15 DEF OthersUnchanged, ParticipantChange, RecordChange, Take, Goto,
       LInv, GInv, TInv, TypeOK
  <2>2. /\ step'[w] = "patched"
        /\ held[w] \subseteq held'[w]
        /\ UNCHANGED <<cmd[w], key[w], read[w], initialized[w],
                       deleting[w], staged[w], outcome[w]>>
    BY <1>15, <1>b DEF ParticipantChange, RecordChange, Take, Goto, LInv, GInv,
       TInv, TypeOK
  <2>3. /\ Records(w)'
        /\ \E d \in recorded'[w] : /\ recorded'[w] = recorded[w] \cup {d}
                                   /\ d.key = ParticipantOf[cmd[w]]
                                   /\ d.after = staged[w][ParticipantOf[cmd[w]]]
    <3>1. RecordChange(w, ParticipantOf[cmd[w]], rows[ParticipantOf[cmd[w]]],
                       staged[w][ParticipantOf[cmd[w]]])
      BY <1>15, <1>a, <1>b DEF ParticipantChange, Sound, TargetVersion,
         ParticipantVersion, Records, Was, Before, After, Accepted
    <3>2. \A d \in recorded[w] : d.key # ParticipantOf[cmd[w]]
      BY <1>15, <1>a DEF ParticipantChange, Sound, ParticipantVersion, Accepted
    <3>. QED
      BY <1>15, <2>2, <3>1, <3>2, <1>a, <1>b, RecordSound DEF
         ParticipantChange, Sound, LInv, GInv, TInv, TypeOK, FiniteRecords
  <2>4. WrittenLocked(w)'
    BY <1>15, <2>2, <1>a, <1>b DEF Sound, WrittenLocked
  <2>5. TargetVersion(w)'
    BY <1>15, <2>2, <1>a, <1>b DEF ParticipantChange, Sound, TargetVersion,
       Was, Before, After, Accepted
  <2>6. ParticipantVersion(w)'
    BY <1>15, <2>2, <1>a, <1>b, <2>3 DEF ParticipantChange, Sound,
       ParticipantVersion, Accepted
  <2>7. OutcomeFaithful(w)'
    BY <1>15, <2>2, <1>a, <1>b, <2>3 DEF ParticipantChange, Sound,
       TargetVersion, OutcomeFaithful, Accepted
  <2>8. Sound(w)'
    BY <2>3, <2>4, <2>5, <2>6, <2>7 DEF Sound
  <2>. QED
    BY <1>15, <2>1, <2>8, OthersSound DEF ParticipantChange
<1>16. CASE RecordResult(w)
  <2>1. OthersUnchanged(w)
    BY <1>16 DEF OthersUnchanged, RecordResult, RecordChange, Take, Goto, LInv,
       GInv, TInv, TypeOK
  <2>2. /\ step'[w] = "commit"
        /\ held[w] \subseteq held'[w]
        /\ outcome'[w] = [kind |-> "completed", key |-> key[w], after |-> After(w)]
        /\ UNCHANGED <<cmd[w], key[w], read[w], initialized[w],
                       deleting[w], staged[w]>>
    BY <1>16, <1>b DEF RecordResult, RecordChange, Take, Goto, LInv, GInv,
       TInv, TypeOK
  <2>3. /\ Records(w)'
        /\ \E d \in recorded'[w] : /\ recorded'[w] = recorded[w] \cup {d}
                                   /\ d.key = key[w]
                                   /\ d.after = staged[w][key[w]]
    <3>1. RecordChange(w, key[w], rows[key[w]], staged[w][key[w]])
      BY <1>16, <1>a, <1>b DEF RecordResult, Sound, TargetVersion,
         ParticipantVersion, Records, Was, Before, After, Accepted
    <3>2. \A d \in recorded[w] : d.key # key[w]
      BY <1>16, <1>a DEF RecordResult, Sound, ParticipantVersion, Accepted
    <3>. QED
      BY <1>16, <2>2, <3>1, <3>2, <1>a, <1>b, RecordSound DEF RecordResult,
         Sound, LInv, GInv, TInv, TypeOK, FiniteRecords
  <2>4. WrittenLocked(w)'
    BY <1>16, <2>2, <1>a, <1>b DEF Sound, WrittenLocked
  <2>5. TargetVersion(w)'
    BY <1>16, <2>2, <1>a, <1>b DEF RecordResult, Sound, TargetVersion, Was,
       Before, After, Accepted
  <2>6. ParticipantVersion(w)'
    BY <1>16, <2>2, <1>a, <1>b, <2>3 DEF RecordResult, Sound,
       ParticipantVersion, Accepted
  <2>7. OutcomeFaithful(w)'
    BY <1>16, <2>2, <1>a, <1>b, <2>3 DEF RecordResult, Sound, TargetVersion,
       OutcomeFaithful, Accepted
  <2>8. Sound(w)'
    BY <2>3, <2>4, <2>5, <2>6, <2>7 DEF Sound
  <2>. QED
    BY <1>16, <2>1, <2>8, OthersSound DEF RecordResult
<1>17. CASE ReadTarget(w)
  <2>1. OthersUnchanged(w)
    BY <1>17 DEF OthersUnchanged, ReadTarget, LockedModelObject, Take, Goto,
       LInv, GInv, TInv, TypeOK
  <2>2. /\ staged'[w] = NothingStaged /\ recorded'[w] = {}
        /\ Visible(w, key[w]) = rows[key[w]]
    BY <1>17, <1>a, <1>b DEF ReadTarget, Sound, TargetVersion, Accepted,
       Visible, NothingStaged
  <2>3. CASE step'[w] \in {"target", "read"}
    BY <1>17, <2>1, <2>2, <2>3, NothingSound, OthersSound DEF ReadTarget,
       Accepted
  <2>4. CASE step'[w] = "decide" /\ key'[w] = key[w]
    <3>1. Before(w)' = rows[key[w]] /\ UNCHANGED rows /\ UNCHANGED cmd
      BY <1>17, <1>b, <2>2, <2>4 DEF ReadTarget, Before, LInv, GInv, TInv,
         TypeOK
    <3>2. cmd[w] \in Serial /\ rows[key[w]] # Missing => RowLock(key[w]) \in held'[w]
      BY <1>17, <2>2 DEF ReadTarget, LockedModelObject, Take, LInv, GInv, TInv,
         TypeOK
    <3>3. TargetVersion(w)'
      BY <2>2, <2>4, <3>1, <3>2 DEF TargetVersion, Accepted
    <3>4. Sound(w)'
      BY <2>2, <2>4, <3>3 DEF Sound, WrittenLocked, ParticipantVersion,
         Records, OutcomeFaithful, NothingStaged, Accepted
    <3>. QED
      BY <1>17, <2>1, <3>4, OthersSound DEF ReadTarget
  <2>. QED
    BY <1>17, <1>b, <2>3, <2>4 DEF ReadTarget, Goto, TargetStep, LInv, GInv,
       TInv, TypeOK
<1>18. CASE Replay(w)
  BY <1>18, RestartSound DEF Replay, Leave
<1>19. CASE ReplayFails(w)
  BY <1>19, RestartSound DEF ReplayFails, Leave
<1>20. CASE InsertConflict(w)
  BY <1>20, RestartSound, RetrySound DEF InsertConflict, Leave
<1>21. CASE ParticipantMissing(w)
  BY <1>21, RestartSound DEF ParticipantMissing, Leave
<1>22. CASE HandlerThrows(w)
  BY <1>22, RestartSound DEF HandlerThrows, Leave
<1>23. CASE WriteConflict(w)
  BY <1>23, RetrySound DEF WriteConflict
<1>. QED
  BY <1>1, <1>2, <1>3, <1>4, <1>5, <1>6, <1>7, <1>8, <1>9, <1>10, <1>11,
     <1>12, <1>13, <1>14, <1>15, <1>16, <1>17, <1>18, <1>19, <1>20, <1>21,
     <1>22, <1>23 DEF Statement

-----------------------------------------------------------------------------
(* COMMIT *)

\* A recorded change is of a row that the transaction wrote.
LEMMA RecordedWritten ==
    ASSUME LInv, NEW w \in Worker, NEW d \in recorded[w]
    PROVE  /\ d.key \in Key
           /\ staged[w][d.key] = d.after
           /\ staged[w][d.key] # Unwritten
<1>1. d.key \in Key /\ d.after \in RowState
  BY DEF LInv, GInv, TInv, TypeOK, Change
<1>2. d.after = staged[w][d.key]
  BY DEF LInv, Sound, Records
<1>. QED
  BY <1>1, <1>2, ValueAssumption

\* No other transaction has written a row that this one has locked, and none
\* has recorded a change while this one has.
LEMMA CommitExclusive ==
    ASSUME LInv, NEW w \in Worker, NEW v \in Worker, v # w
    PROVE  /\ \A k \in Key : RowLock(k) \in held[v] => staged[w][k] = Unwritten
           /\ recorded[v] # {} => recorded[w] = {}
BY DEF LInv, SInv, Locks, Sound, WrittenLocked, Records

\* The records of a transaction are new to the feed.
LEMMA RecordsNew ==
    ASSUME LInv, NEW w \in Worker
    PROVE  changes \cap recorded[w] = {}
<1>. SUFFICES ASSUME NEW d \in changes, d \in recorded[w] PROVE FALSE
  OBVIOUS
<1>1. d.position <= frontier /\ d.position \in Nat /\ frontier \in Nat
  BY DEF LInv, FeedEnds, GInv, TInv, TypeOK, Change
<1>2. d.position \in (frontier + 1)..(frontier + Cardinality(recorded[w]))
  BY DEF LInv, Sound, Records
<1>3. Cardinality(recorded[w]) \in Nat
  BY FS_CardinalityType DEF LInv, GInv, TInv, FiniteRecords
<1>. QED
  BY <1>1, <1>2, <1>3

\* A commit keeps every other transaction sound: the rows that they rely on and
\* the frontier, if they rely on it, are locked.
LEMMA CommitSound ==
    ASSUME LInv, NEW w \in Worker, Commit(w)
    PROVE  FeedEnds' /\ \A v \in Worker : Sound(v)'
<1>. USE DEF LInv, GInv, TInv, TypeOK
<1>1. Cardinality(recorded[w]) \in Nat
  BY FS_CardinalityType DEF FiniteRecords
<1>2. FeedEnds'
  <2>1. /\ changes' = changes \cup recorded[w]
        /\ frontier' = frontier + Cardinality(recorded[w])
    BY DEF Commit
  <2>2. \A d \in changes : d.position <= frontier /\ d.position \in Nat
    BY DEF FeedEnds, Change
  <2>3. \A d \in recorded[w] : d.position <= frontier + Cardinality(recorded[w])
    BY <1>1 DEF Sound, Records
  <2>. QED
    BY <1>1, <2>1, <2>2, <2>3 DEF FeedEnds
<1>3. Sound(w)'
  <2>1. step'[w] = "idle" /\ staged'[w] = NothingStaged /\ recorded'[w] = {}
    BY DEF Commit, Leave, Restart, Goto
  <2>. QED
    BY <2>1, NothingSound DEF Accepted
<1>4. ASSUME NEW v \in Worker \ {w} PROVE Sound(v)'
  <2>1. UNCHANGED <<step[v], cmd[v], held[v], key[v], read[v], initialized[v],
                    deleting[v], staged[v], recorded[v], outcome[v]>>
    BY DEF Commit, Leave, Restart, Goto
  <2>2. \A k \in Key : RowLock(k) \in held[v] => rows'[k] = rows[k]
    BY CommitExclusive DEF Commit, Visible
  <2>3. recorded[v] # {} => frontier' = frontier
    <3>1. recorded[v] # {} => recorded[w] = {}
      BY CommitExclusive
    <3>2. recorded[w] = {} => Cardinality(recorded[w]) = 0
      BY FS_EmptySet
    <3>. QED
      BY <3>1, <3>2 DEF Commit
  <2>4. Sound(v)
    OBVIOUS
  <2>5. WrittenLocked(v)'
    BY <2>1, <2>4 DEF Sound, WrittenLocked
  <2>6. TargetVersion(v)'
    BY <2>1, <2>2, <2>4 DEF Sound, TargetVersion, Was, Before, After, Accepted,
       Attempt
  <2>7. ParticipantVersion(v)'
    BY <2>1, <2>2, <2>4, ValueAssumption DEF Sound, WrittenLocked,
       ParticipantVersion, Accepted, Attempt
  <2>8. Records(v)'
    <3>1. \A d \in recorded[v] : d.key \in Key
      BY RecordedWritten
    <3>2. \A d \in recorded[v] : RowLock(d.key) \in held[v]
      BY <2>4, RecordedWritten DEF Sound, WrittenLocked
    <3>. QED
      BY <2>1, <2>2, <2>3, <2>4, <3>1, <3>2 DEF Sound, Records
  <2>9. OutcomeFaithful(v)'
    BY <2>1, <2>4 DEF Sound, OutcomeFaithful
  <2>. QED
    BY <2>5, <2>6, <2>7, <2>8, <2>9 DEF Sound
<1>. QED
  BY <1>2, <1>3, <1>4

\* Every step keeps what each transaction would commit an entry of the ledger.
LEMMA NextLInv == LInv /\ [Next]_vars => LInv'
<1>. SUFFICES ASSUME LInv, [Next]_vars
              PROVE  FeedEnds' /\ \A v \in Worker : Sound(v)'
  BY NextSInv, NextGInv DEF LInv
<1>1. CASE UNCHANGED <<tables, step, cmd, held, local>>
  BY <1>1 DEF LInv, FeedEnds, Sound, WrittenLocked, TargetVersion,
     ParticipantVersion, Records, OutcomeFaithful, Was, Before, After, tables,
     local, Accepted, NothingStaged
<1>2. ASSUME NEW c \in Command, Submit(c)
      PROVE  FeedEnds' /\ \A v \in Worker : Sound(v)'
  BY <1>1, <1>2 DEF Submit
<1>3. ASSUME NEW c \in Command, TerminalFailure(c)
      PROVE  FeedEnds' /\ \A v \in Worker : Sound(v)'
  BY <1>3 DEF TerminalFailure, LInv, FeedEnds, Sound, WrittenLocked,
     TargetVersion, ParticipantVersion, Records, OutcomeFaithful, Was, Before,
     After, local, Accepted, NothingStaged
<1>4. ASSUME NEW w \in Worker, NEW c \in Command, Begin(w, c)
      PROVE  FeedEnds' /\ \A v \in Worker : Sound(v)'
  BY <1>4, RestartSound DEF Begin
<1>5. ASSUME NEW w \in Worker, Statement(w)
      PROVE  FeedEnds' /\ \A v \in Worker : Sound(v)'
  BY <1>5, StatementSound, CommitSound
<1>6. ASSUME NEW w \in Worker, DeadlockVictim(w)
      PROVE  FeedEnds' /\ \A v \in Worker : Sound(v)'
  BY <1>6, RetrySound DEF DeadlockVictim
<1>7. ASSUME NEW w \in Worker, Crash(w)
      PROVE  FeedEnds' /\ \A v \in Worker : Sound(v)'
  BY <1>7, RestartSound DEF Crash, Leave
<1>8. CASE UNCHANGED vars
  BY <1>1, <1>8 DEF vars, tables, local
<1>. QED
  BY <1>2, <1>3, <1>4, <1>5, <1>6, <1>7, <1>8 DEF Next

-----------------------------------------------------------------------------
(* The refinement *)

\* What a commit does to the rows is what the entry of its records does.
LEMMA CommitRows ==
    ASSUME LInv, NEW w \in Worker, step[w] = "commit", NEW k \in Key
    PROVE  Visible(w, k) = IF \E d \in recorded[w] : d.key = k
                           THEN (CHOOSE d \in recorded[w] : d.key = k).after
                           ELSE rows[k]
<1>1. CASE \E d \in recorded[w] : d.key = k
  <2>. DEFINE e == CHOOSE d \in recorded[w] : d.key = k
  <2>1. e \in recorded[w] /\ e.key = k
    BY <1>1
  <2>2. staged[w][k] = e.after /\ staged[w][k] # Unwritten
    BY <2>1, RecordedWritten
  <2>. QED
    BY <1>1, <2>2 DEF Visible
<1>2. CASE ~ \E d \in recorded[w] : d.key = k
  <2>1. staged[w][k] = Unwritten
    BY <1>2 DEF LInv, Sound, ParticipantVersion, Accepted
  <2>. QED
    BY <1>2, <2>1 DEF Visible
<1>. QED
  BY <1>1, <1>2

\* The ledger counts as the kernel does.
LEMMA LedgerCounts == \A S : Ledger!Cardinality(S) = Cardinality(S)
BY Zenon DEF Ledger!Cardinality, Cardinality

\* The commit of a command is its entry in the ledger, or its refusal.
LEMMA CommitEnters ==
    ASSUME LInv, NEW w \in Worker, Commit(w)
    PROVE  Ledger!Next
<1>. DEFINE c == cmd[w]
            D == recorded[w]
<1>1. c \in Command /\ results[c] = None /\ outcome[w] # None
  BY ValueAssumption DEF Commit, LInv, SInv, GInv, TInv, TypeOK, Attempt,
     Unsettled
<1>2. /\ results' = [results EXCEPT ![c] = outcome[w]]
      /\ results'[c] = outcome[w]
  BY <1>1 DEF Commit, LInv, GInv, TInv, TypeOK
<1>3. changes' = changes \cup D /\ changes' \ changes = D
  BY RecordsNew DEF Commit
<1>4. frontier' = frontier + Cardinality(D)
  BY DEF Commit
<1>5. rows' = [k \in Key |-> IF \E d \in D : d.key = k
                             THEN (CHOOSE d \in D : d.key = k).after
                             ELSE rows[k]]
  BY CommitRows DEF Commit
<1>6. Ledger!Settle(c, outcome[w])
  BY <1>1, <1>2 DEF Ledger!Settle
<1>7. CASE /\ outcome[w].kind = "completed"
           /\ \E d \in D : d.key = outcome[w].key /\ d.after = outcome[w].after
  <2>1. /\ \A d \in D : /\ d.command = c
                        /\ d.before = rows[d.key]
                        /\ d.position \in (frontier + 1)..(frontier + Cardinality(D))
        /\ \A d, e \in D : d # e => d.key # e.key /\ d.position # e.position
    BY DEF LInv, Sound, Records
  <2>2. Ledger!Entry(c, D)
    BY <1>3, <1>4, <1>5, <2>1, LedgerCounts DEF Ledger!Entry
  <2>3. Ledger!Complete(c, changes' \ changes, outcome[w])
    BY <1>3, <1>6, <1>7, <2>2 DEF Ledger!Complete
  <2>. QED
    BY <1>1, <1>2, <2>3 DEF Ledger!Next
<1>8. CASE outcome[w].kind = "rejected" /\ D = {}
  <2>1. changes' = changes
    BY <1>3, <1>8
  <2>2. frontier' = frontier
    BY <1>4, <1>8, FS_EmptySet DEF LInv, GInv, TInv, TypeOK
  <2>3. rows' = rows
    BY <1>5, <1>8 DEF LInv, GInv, TInv, TypeOK
  <2>4. Ledger!Refuse(c, outcome[w])
    BY <1>6, <1>8, <2>1, <2>2, <2>3 DEF Ledger!Refuse
  <2>. QED
    BY <1>1, <1>2, <2>4 DEF Ledger!Next
<1>9. Sound(w) /\ step[w] = "commit"
  BY DEF LInv, Commit
<1>. QED
  BY <1>7, <1>8, <1>9 DEF Sound, OutcomeFaithful

\* So is a terminal failure, a refusal.
LEMMA FailureEnters ==
    ASSUME LInv, NEW c \in Command, TerminalFailure(c)
    PROVE  Ledger!Next
<1>. DEFINE f == [kind |-> "failed", key |-> TargetOf[c], after |-> None]
<1>1. f \in Outcome
  BY CommandAssumption DEF Outcome
<1>2. f # None
  BY <1>1, ValueAssumption
<1>3. results[c] = None /\ results' = [results EXCEPT ![c] = f] /\ results'[c] = f
  BY DEF TerminalFailure, LInv, GInv, TInv, TypeOK
<1>4. Ledger!Refuse(c, f)
  BY <1>3 DEF TerminalFailure, Ledger!Refuse, Ledger!Settle
<1>. QED
  BY <1>2, <1>3, <1>4 DEF Ledger!Next

\* Every other step leaves the ledger alone.
LEMMA StepEnters == LInv /\ [Next]_vars => [Ledger!Next]_(Ledger!ledger)
<1>. SUFFICES ASSUME LInv, [Next]_vars
              PROVE  Ledger!Next \/ UNCHANGED tables
  BY DEF Ledger!ledger, tables
<1>1. ASSUME NEW c \in Command, Submit(c) \/ TerminalFailure(c)
      PROVE  Ledger!Next \/ UNCHANGED tables
  BY <1>1, FailureEnters DEF Submit
<1>2. ASSUME NEW w \in Worker, NEW c \in Command, Begin(w, c)
      PROVE  UNCHANGED tables
  BY <1>2 DEF Begin
<1>3. ASSUME NEW w \in Worker, Statement(w)
      PROVE  Ledger!Next \/ UNCHANGED tables
  <2>1. CASE Commit(w)
    BY <2>1, CommitEnters
  <2>2. CASE ~Commit(w)
    BY <1>3, <2>2 DEF Statement, LockScope, LockContext, Replay, ReplayFails,
       Execute, LockTarget, ReadTarget, RejectBeforehand, Accept,
       InsertInitial, InsertConflict, CallParticipant, PatchParticipant,
       ParticipantMissing, ParticipantChange, HandlerReturns, HandlerRejects,
       HandlerThrows, Authorized, AuthorizationDenied, RollbackAndReject,
       WriteTarget, WriteConflict, RecordResult
  <2>. QED
    BY <2>1, <2>2
<1>4. ASSUME NEW w \in Worker, DeadlockVictim(w) \/ Crash(w)
      PROVE  UNCHANGED tables
  BY <1>4 DEF DeadlockVictim, Crash
<1>5. CASE UNCHANGED vars
  BY <1>5 DEF vars, tables
<1>. QED
  BY <1>1, <1>2, <1>3, <1>4, <1>5 DEF Next

\* ImplementsLedger: what executePostgresModelCommand and
\* recordPostgresModelCommandTerminalFailure commit, in whatever order their
\* statements interleave, wait, deadlock, retry and crash, is a ledger that
\* commands enter one at a time, each at most once and whole.
THEOREM KernelImplementsLedger == Spec => ImplementsLedger
<1>1. Init => LInv
  <2>1. Init => SInv
    BY InitTInv DEF Init, SInv, Locks, Unsettled, StableAnswer
  <2>2. Init => GInv
    BY InitTInv DEF Init, GInv, Guarded, RevisionGuard, ChangesSubmitted
  <2>3. Init => FeedEnds /\ \A w \in Worker : Sound(w)
    BY DEF Init, FeedEnds, Sound, WrittenLocked, TargetVersion,
       ParticipantVersion, Records, OutcomeFaithful, NothingStaged, Accepted
  <2>. QED
    BY <2>1, <2>2, <2>3 DEF LInv
<1>2. Init => Ledger!Init
  BY DEF Init, Ledger!Init
<1>3. Spec => []LInv
  BY <1>1, NextLInv, PTL DEF Spec
<1>. QED
  BY <1>2, <1>3, StepEnters, PTL DEF Spec, ImplementsLedger, Ledger!Spec

=============================================================================
