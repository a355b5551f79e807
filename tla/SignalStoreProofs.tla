-------------------------- MODULE SignalStoreProofs --------------------------
(***************************************************************************)
(* Proofs about SignalStore, for any number of signals, callers and        *)
(* relays.  What makes the decision unique is not inductive by itself: a   *)
(* request that has passed the checks of resolve writes some steps later,  *)
(* and it is the row lock it holds meanwhile (LockInv) that keeps the      *)
(* signal pending until then.  EventInv carries the decision to the runs:  *)
(* a terminal event, and a run it has woken, have a decided signal.        *)
(***************************************************************************)
EXTENDS SignalStore, TLAPS

\* A transaction that has checked its signal holds the signal's row, and the
\* signal is as the transaction found it.
CallerLock(c) ==
    /\ step[c] # "idle" =>
          request[c] \in Requests /\ signals[request[c].signal] # "absent"
    /\ step[c] \in {"locked", "authorized"} =>
          /\ row[request[c].signal] = c
          /\ signals[request[c].signal] = "pending"

IssueLock(s) ==
    run[s] \in {"inserted", "authorized"} => row[s] = s /\ signals[s] = "absent"

LockInv == (\A c \in Caller : CallerLock(c)) /\ (\A s \in Signal : IssueLock(s))

\* Events announce decisions; a relay has pushed what it counts as sent.
EventInv ==
    /\ \A s \in events : Terminal(s)
    /\ \A s \in Signal : run[s] = "woken" => Terminal(s)
    /\ \A r \in Relay : \A f \in sent[r] : f.kind # "issued" => f.signal \in events
    /\ \A r \in Relay : relay[r] # "publishing" => sent[r] = {}

IInv ==
    /\ TypeOK
    /\ OneDecision
    /\ AnswersAgree
    /\ ResumesWithDecision
    /\ AcknowledgedReached
    /\ LockInv
    /\ EventInv

-----------------------------------------------------------------------------
\* Only the three commits write the store's rows.
LEMMA Writers ==
    ASSUME [Next]_vars
    PROVE  \/ UNCHANGED storeVars
           \/ \E s \in Signal : CommitIssue(s)
           \/ \E c \in Caller : CommitResolve(c)
           \/ \E r \in Relay : CommitDue(r)
  BY DEF Next, RunStep, CallerStep, RelayStep, vars, Emit, AuthorizeIssue, Wake, Decide,
         Replay, RunFails, Pass, Ask, ResolveReplay, ResolveLock, AuthorizeAction, Deny, Abort,
         SelectDue, FinalizeDue, ReadOutbox, Publish, Acknowledge, Stop, RelayFails

\* What a decided signal says is not written again, and facts stay.
LEMMA Final ==
    ASSUME IInv, [Next]_vars
    PROVE  /\ \A s \in Signal : Terminal(s) => signals'[s] = signals[s]
           /\ facts \subseteq facts'
  <1>1. CASE UNCHANGED storeVars
    BY <1>1 DEF storeVars
  <1>2. ASSUME NEW s \in Signal, CommitIssue(s)
        PROVE  /\ \A t \in Signal : Terminal(t) => signals'[t] = signals[t]
               /\ facts \subseteq facts'
    BY <1>2 DEF CommitIssue, IInv, TypeOK, LockInv, IssueLock, Terminal, Open
  <1>3. ASSUME NEW c \in Caller, CommitResolve(c)
        PROVE  /\ \A t \in Signal : Terminal(t) => signals'[t] = signals[t]
               /\ facts \subseteq facts'
    BY <1>3 DEF CommitResolve, IInv, TypeOK, LockInv, CallerLock, Terminal, Open, Requests
  <1>4. ASSUME NEW r \in Relay, CommitDue(r)
        PROVE  /\ \A t \in Signal : Terminal(t) => signals'[t] = signals[t]
               /\ facts \subseteq facts'
    BY <1>4 DEF CommitDue, IInv, TypeOK, Expiring, Terminal, Open
  <1>. QED
    BY <1>1, <1>2, <1>3, <1>4, Writers

-----------------------------------------------------------------------------
LEMMA TypeStep ==
    ASSUME IInv, [Next]_vars
    PROVE  TypeOK'
  <1>. USE SignalAssumption DEF TypeOK, Requests, Holder, Kind, Open, vars, storeVars,
           lockVars, runVars, callerVars, relayVars
  <1>0. TypeOK
    BY DEF IInv
  <1>q. \A c \in Caller : step[c] # "idle" => request[c] \in Requests
    BY DEF IInv, LockInv, CallerLock
  <1>u. CASE UNCHANGED vars
    BY <1>0, <1>u
  <1>1. ASSUME NEW s \in Signal, Emit(s) PROVE TypeOK'
    BY <1>0, <1>1 DEF Emit
  <1>2. ASSUME NEW s \in Signal, AuthorizeIssue(s) PROVE TypeOK'
    BY <1>0, <1>2 DEF AuthorizeIssue, EnterAuthority
  <1>3. ASSUME NEW s \in Signal, CommitIssue(s) PROVE TypeOK'
    BY <1>0, <1>3 DEF CommitIssue, Release, Unlocked, Fact
  <1>4. ASSUME NEW s \in Signal, Wake(s) PROVE TypeOK'
    BY <1>0, <1>4 DEF Wake
  <1>5. ASSUME NEW s \in Signal, Decide(s) PROVE TypeOK'
    BY <1>0, <1>5 DEF Decide
  <1>6. ASSUME NEW s \in Signal, Replay(s) PROVE TypeOK'
    BY <1>0, <1>6 DEF Replay, Release, Unlocked, Fault
  <1>7. ASSUME NEW s \in Signal, Pass(s) PROVE TypeOK'
    BY <1>0, <1>7 DEF Pass
  <1>8. ASSUME NEW c \in Caller, Ask(c) PROVE TypeOK'
    BY <1>0, <1>8 DEF Ask
  <1>9. ASSUME NEW c \in Caller, ResolveReplay(c) PROVE TypeOK'
    BY <1>0, <1>9, <1>q DEF ResolveReplay, Return, Answer, Told
  <1>10. ASSUME NEW c \in Caller, ResolveLock(c) PROVE TypeOK'
    BY <1>0, <1>10, <1>q DEF ResolveLock
  <1>11. ASSUME NEW c \in Caller, AuthorizeAction(c) PROVE TypeOK'
    BY <1>0, <1>11, <1>q DEF AuthorizeAction, EnterAuthority
  <1>12. ASSUME NEW c \in Caller, Deny(c) PROVE TypeOK'
    BY <1>0, <1>12 DEF Deny, Return, Release, Unlocked
  <1>13. ASSUME NEW c \in Caller, CommitResolve(c) PROVE TypeOK'
    BY <1>0, <1>13, <1>q DEF CommitResolve, Return, Answer, Release, Unlocked, Revoked, Fact
  <1>14. ASSUME NEW c \in Caller, Abort(c) PROVE TypeOK'
    BY <1>0, <1>14 DEF Abort, Return, Release, Unlocked, Fault
  <1>15. ASSUME NEW r \in Relay, SelectDue(r) PROVE TypeOK'
    BY <1>0, <1>15 DEF SelectDue, Batches, Selectable
  <1>16. ASSUME NEW r \in Relay, FinalizeDue(r) PROVE TypeOK'
    BY <1>0, <1>16 DEF FinalizeDue, EnterAuthority
  <1>17. ASSUME NEW r \in Relay, CommitDue(r) PROVE TypeOK'
    BY <1>0, <1>17 DEF CommitDue, Release, Unlocked, Revoked, Expiring, Fact
  <1>18. ASSUME NEW r \in Relay, ReadOutbox(r) PROVE TypeOK'
    BY <1>0, <1>18 DEF ReadOutbox, Batches, IInv, EventInv
  <1>19. ASSUME NEW r \in Relay, Publish(r) PROVE TypeOK'
    BY <1>0, <1>19 DEF Publish
  <1>20. ASSUME NEW r \in Relay, Acknowledge(r) PROVE TypeOK'
    BY <1>0, <1>20 DEF Acknowledge, NextRound
  <1>21. ASSUME NEW r \in Relay, Stop(r) PROVE TypeOK'
    BY <1>0, <1>21 DEF Stop, NextRound, Fault
  <1>22. ASSUME NEW r \in Relay, RelayFails(r) PROVE TypeOK'
    BY <1>0, <1>22 DEF RelayFails, NextRound, Release, Unlocked, Fault
  <1>23. ASSUME NEW s \in Signal, RunFails(s) PROVE TypeOK'
    BY <1>0, <1>23 DEF RunFails, Release, Unlocked, Fault
  <1>. QED
    BY <1>u, <1>1, <1>2, <1>3, <1>4, <1>5, <1>6, <1>7, <1>8, <1>9, <1>10, <1>11,
       <1>12, <1>13, <1>14, <1>15, <1>16, <1>17, <1>18, <1>19, <1>20, <1>21, <1>22,
       <1>23 DEF Next, RunStep, CallerStep, RelayStep

-----------------------------------------------------------------------------
\* The rows of the store agree after every step.
LEMMA StoreStep ==
    ASSUME IInv, [Next]_vars
    PROVE  OneDecision'
  <1>. USE SignalAssumption
  <1>0. TypeOK /\ OneDecision /\ LockInv
    BY DEF IInv
  <1>1. CASE UNCHANGED storeVars
    BY <1>0, <1>1 DEF storeVars, OneDecision, StoredAs, Terminal
  <1>2. ASSUME NEW s \in Signal, CommitIssue(s), NEW t \in Signal
        PROVE  StoredAs(t)'
    <2>1. signals[s] = "absent" /\ StoredAs(t)
      BY <1>0, <1>2 DEF CommitIssue, LockInv, IssueLock, OneDecision
    <2>2. CASE t = s
      BY <1>0, <1>2, <2>1, <2>2
         DEF CommitIssue, StoredAs, Terminal, Fact, Open, TypeOK, Requests
    <2>3. CASE t # s
      BY <1>0, <1>2, <2>1, <2>3 DEF CommitIssue, StoredAs, Terminal, Fact, Open, TypeOK
    <2>. QED
      BY <2>2, <2>3
  <1>3. ASSUME NEW c \in Caller, CommitResolve(c), NEW t \in Signal
        PROVE  StoredAs(t)'
    <2>. DEFINE q == request[c]
    <2>1. q \in Requests /\ signals[q.signal] = "pending" /\ StoredAs(t) /\ StoredAs(q.signal)
      BY <1>0, <1>3 DEF CommitResolve, LockInv, CallerLock, OneDecision, Requests
    <2>2. \A x \in resolutions : x.signal # q.signal
      BY <1>0, <2>1 DEF StoredAs, TypeOK, Requests, Open
    <2>3. CASE t = q.signal
      BY <1>0, <1>3, <2>1, <2>2, <2>3
         DEF CommitResolve, StoredAs, Terminal, Fact, Open, Revoked, TypeOK, Requests
    <2>4. CASE t # q.signal
      BY <1>0, <1>3, <2>1, <2>4
         DEF CommitResolve, StoredAs, Terminal, Fact, Open, Revoked, TypeOK, Requests
    <2>. QED
      BY <2>3, <2>4
  <1>4. ASSUME NEW r \in Relay, CommitDue(r), NEW t \in Signal
        PROVE  StoredAs(t)'
    <2>1. StoredAs(t)
      BY <1>0 DEF OneDecision
    <2>2. CASE t \in Expiring(r)
      BY <1>0, <1>4, <2>1, <2>2
         DEF CommitDue, StoredAs, Terminal, Fact, Open, Revoked, Expiring, TypeOK, Requests
    <2>3. CASE t \notin Expiring(r)
      <3>1. \A k \in Kind : Fact(t, k) \in facts' <=> Fact(t, k) \in facts
        BY <1>4, <2>3 DEF CommitDue, Fact
      <3>2. signals'[t] = signals[t] /\ grants'[t] = grants[t] /\ resolutions' = resolutions
        BY <1>4, <2>3 DEF CommitDue, Revoked
      <3>. QED
        BY <2>1, <3>1, <3>2 DEF StoredAs, Terminal, Kind
    <2>. QED
      BY <2>2, <2>3
  <1>. QED
    BY <1>1, <1>2, <1>3, <1>4, Writers DEF OneDecision

-----------------------------------------------------------------------------
\* The decision a caller was told of stands, and the answer with it.
LEMMA AnswerStep ==
    ASSUME IInv, [Next]_vars
    PROVE  AnswersAgree'
  <1>. USE SignalAssumption
  <1>0. TypeOK /\ OneDecision /\ AnswersAgree /\ LockInv
    BY DEF IInv
  <1>1. \A a \in answers : Terminal(a.request.signal)'
    BY <1>0, Final DEF AnswersAgree, Terminal, TypeOK, Requests
  <1>2. CASE UNCHANGED <<answers, resolutions>>
    BY <1>0, <1>1, <1>2 DEF AnswersAgree
  <1>3. ASSUME NEW c \in Caller, CommitResolve(c)
        PROVE  AnswersAgree'
    <2>. DEFINE q == request[c]
    <2>1. q \in Requests /\ signals[q.signal] = "pending"
      BY <1>0, <1>3 DEF CommitResolve, LockInv, CallerLock
    <2>2. ASSUME NEW a \in answers, a.request = q
          PROVE  FALSE
      <3>1. Terminal(q.signal)
        BY <1>0, <2>2 DEF AnswersAgree
      <3>. QED
        BY <2>1, <3>1 DEF Terminal, Open
    <2>3. signals'[q.signal] \notin Open
      BY <1>0, <1>3, <2>1 DEF CommitResolve, Terminal, TypeOK, Requests, Open
    <2>. QED
      BY <1>0, <1>1, <1>3, <2>1, <2>2, <2>3 DEF CommitResolve, Answer, AnswersAgree, Terminal
  <1>4. ASSUME NEW c \in Caller, ResolveReplay(c)
        PROVE  AnswersAgree'
    <2>. DEFINE q == request[c]
    <2>1. q \in Requests /\ StoredAs(q.signal)
      BY <1>0, <1>4 DEF ResolveReplay, LockInv, CallerLock, OneDecision, Requests
    <2>2. Terminal(q.signal)
      BY <1>0, <1>4, <2>1 DEF ResolveReplay, Recorded, StoredAs, TypeOK, Requests, Terminal, Open
    <2>3. Told(q) = "resolved" <=> q \in resolutions
      <3>1. ASSUME NEW x \in Recorded(q), x.action = q.action
            PROVE  x = q
        BY <1>0, <2>1, <3>1 DEF Recorded, TypeOK, Requests
      <3>2. q \in resolutions => q \in Recorded(q) /\ signals[q.signal] = q.action
        BY <2>1 DEF StoredAs, Recorded
      <3>. QED
        BY <3>1, <3>2 DEF Told, Recorded
    <2>. QED
      BY <1>0, <1>1, <1>4, <2>2, <2>3
         DEF ResolveReplay, Answer, AnswersAgree, storeVars, Terminal
  <1>5. \/ UNCHANGED <<answers, resolutions>>
        \/ \E c \in Caller : CommitResolve(c) \/ ResolveReplay(c)
    BY DEF Next, RunStep, CallerStep, RelayStep, vars, storeVars, callerVars, Emit,
           AuthorizeIssue, CommitIssue, Wake, Decide, Replay, RunFails, Pass, Ask, ResolveLock,
           AuthorizeAction, Deny, Abort, SelectDue, FinalizeDue, CommitDue, ReadOutbox,
           Publish, Acknowledge, Stop, RelayFails
  <1>. QED
    BY <1>2, <1>3, <1>4, <1>5

-----------------------------------------------------------------------------
\* A step leaves the locks of the other transactions alone, and a signal
\* locked by one of them.
LEMMA LockStep ==
    ASSUME IInv, [Next]_vars
    PROVE  LockInv'
  <1>. USE SignalAssumption DEF LockInv, CallerLock, IssueLock, Holder, Requests, vars,
           storeVars, lockVars, runVars, callerVars, relayVars
  <1>0. TypeOK /\ LockInv
    BY DEF IInv
  <1>u. CASE UNCHANGED vars
    BY <1>0, <1>u
  <1>1. ASSUME NEW s \in Signal, Emit(s) PROVE LockInv'
    BY <1>0, <1>1 DEF Emit, TypeOK
  <1>2. ASSUME NEW s \in Signal, AuthorizeIssue(s) PROVE LockInv'
    BY <1>0, <1>2 DEF AuthorizeIssue, EnterAuthority, TypeOK
  <1>3. ASSUME NEW s \in Signal, CommitIssue(s) PROVE LockInv'
    BY <1>0, <1>3 DEF CommitIssue, Release, Unlocked, TypeOK
  <1>4. ASSUME NEW s \in Signal, Wake(s) PROVE LockInv'
    BY <1>0, <1>4 DEF Wake, TypeOK
  <1>5. ASSUME NEW s \in Signal, Decide(s) PROVE LockInv'
    BY <1>0, <1>5 DEF Decide, TypeOK
  <1>6. ASSUME NEW s \in Signal, Replay(s) PROVE LockInv'
    BY <1>0, <1>6 DEF Replay, Release, Unlocked, TypeOK
  <1>7. ASSUME NEW s \in Signal, Pass(s) PROVE LockInv'
    BY <1>0, <1>7 DEF Pass, TypeOK
  <1>8. ASSUME NEW c \in Caller, Ask(c) PROVE LockInv'
    BY <1>0, <1>8 DEF Ask, TypeOK
  <1>9. ASSUME NEW c \in Caller, ResolveReplay(c) PROVE LockInv'
    BY <1>0, <1>9 DEF ResolveReplay, Return, TypeOK
  <1>10. ASSUME NEW c \in Caller, ResolveLock(c) PROVE LockInv'
    BY <1>0, <1>10 DEF ResolveLock, Terminal, Open, TypeOK
  <1>11. ASSUME NEW c \in Caller, AuthorizeAction(c) PROVE LockInv'
    BY <1>0, <1>11 DEF AuthorizeAction, EnterAuthority, TypeOK
  <1>12. ASSUME NEW c \in Caller, Deny(c) PROVE LockInv'
    BY <1>0, <1>12 DEF Deny, Return, Release, Unlocked, TypeOK
  <1>13. ASSUME NEW c \in Caller, CommitResolve(c) PROVE LockInv'
    BY <1>0, <1>13 DEF CommitResolve, Return, Release, Unlocked, TypeOK, Open
  <1>14. ASSUME NEW c \in Caller, Abort(c) PROVE LockInv'
    BY <1>0, <1>14 DEF Abort, Return, Release, Unlocked, TypeOK
  <1>15. ASSUME NEW r \in Relay, SelectDue(r) PROVE LockInv'
    BY <1>0, <1>15 DEF SelectDue, Batches, Selectable, TypeOK
  <1>16. ASSUME NEW r \in Relay, FinalizeDue(r) PROVE LockInv'
    BY <1>0, <1>16 DEF FinalizeDue, EnterAuthority, TypeOK
  <1>17. ASSUME NEW r \in Relay, CommitDue(r) PROVE LockInv'
    BY <1>0, <1>17 DEF CommitDue, Release, Unlocked, Expiring, TypeOK
  <1>18. ASSUME NEW r \in Relay, ReadOutbox(r) PROVE LockInv'
    BY <1>0, <1>18 DEF ReadOutbox, TypeOK
  <1>19. ASSUME NEW r \in Relay, Publish(r) PROVE LockInv'
    BY <1>0, <1>19 DEF Publish, TypeOK
  <1>20. ASSUME NEW r \in Relay, Acknowledge(r) PROVE LockInv'
    BY <1>0, <1>20 DEF Acknowledge, NextRound, TypeOK
  <1>21. ASSUME NEW r \in Relay, Stop(r) PROVE LockInv'
    BY <1>0, <1>21 DEF Stop, NextRound, TypeOK
  <1>22. ASSUME NEW r \in Relay, RelayFails(r) PROVE LockInv'
    BY <1>0, <1>22 DEF RelayFails, NextRound, Release, Unlocked, TypeOK
  <1>23. ASSUME NEW s \in Signal, RunFails(s) PROVE LockInv'
    BY <1>0, <1>23 DEF RunFails, Release, Unlocked, TypeOK
  <1>. QED
    BY <1>u, <1>1, <1>2, <1>3, <1>4, <1>5, <1>6, <1>7, <1>8, <1>9, <1>10, <1>11,
       <1>12, <1>13, <1>14, <1>15, <1>16, <1>17, <1>18, <1>19, <1>20, <1>21, <1>22,
       <1>23 DEF Next, RunStep, CallerStep, RelayStep

-----------------------------------------------------------------------------
\* What runs and relays have learned stays true.
LEMMA EventStep ==
    ASSUME IInv, [Next]_vars
    PROVE  EventInv' /\ ResumesWithDecision' /\ AcknowledgedReached'
  <1>. USE SignalAssumption DEF EventInv, ResumesWithDecision, AcknowledgedReached
  <1>0. TypeOK /\ OneDecision /\ EventInv /\ ResumesWithDecision /\ AcknowledgedReached
    BY DEF IInv
  <1>1. \A s \in Signal : Terminal(s) => Terminal(s)' /\ signals'[s] = signals[s]
    BY Final DEF Terminal
  <1>2. ASSUME NEW f \in facts, f.kind # "issued"
        PROVE  Terminal(f.signal)
    <2>1. f = Fact(f.signal, "expired") \/ f = Fact(f.signal, "resolved")
      BY <1>0, <1>2 DEF TypeOK, Kind, Fact
    <2>2. StoredAs(f.signal)
      BY <1>0, <1>2 DEF TypeOK, OneDecision
    <2>. QED
      BY <2>1, <2>2 DEF StoredAs, Terminal, Open
  <1>3. CASE UNCHANGED <<runVars, relayVars>>
    BY <1>0, <1>1, <1>3 DEF TypeOK, runVars, relayVars
  <1>4. ASSUME NEW s \in Signal,
               \/ Emit(s) \/ AuthorizeIssue(s) \/ CommitIssue(s) \/ Wake(s)
               \/ Replay(s) \/ RunFails(s)
        PROVE  EventInv' /\ ResumesWithDecision' /\ AcknowledgedReached'
    BY <1>0, <1>1, <1>4
       DEF TypeOK, relayVars, Emit, AuthorizeIssue, CommitIssue, Wake, Replay, RunFails
  <1>5. ASSUME NEW s \in Signal, Decide(s)
        PROVE  EventInv' /\ ResumesWithDecision' /\ AcknowledgedReached'
    BY <1>0, <1>1, <1>5 DEF TypeOK, relayVars, Decide
  <1>6. ASSUME NEW r \in Relay,
               SelectDue(r) \/ FinalizeDue(r) \/ CommitDue(r) \/ ReadOutbox(r)
        PROVE  EventInv' /\ ResumesWithDecision' /\ AcknowledgedReached'
    BY <1>0, <1>1, <1>6
       DEF TypeOK, runVars, SelectDue, FinalizeDue, CommitDue, ReadOutbox
  <1>7. ASSUME NEW r \in Relay, Publish(r)
        PROVE  EventInv' /\ ResumesWithDecision' /\ AcknowledgedReached'
    <2>1. PICK f \in batch[r] \ sent[r] :
              /\ events' = IF f.kind = "issued" THEN events ELSE events \cup {f.signal}
              /\ sent' = [sent EXCEPT ![r] = @ \cup {f}]
      BY <1>7 DEF Publish
    <2>2. f \in facts
      BY <1>0, <2>1 DEF TypeOK
    <2>. QED
      BY <1>0, <1>1, <1>2, <1>7, <2>1, <2>2 DEF TypeOK, runVars, Publish
  <1>8. ASSUME NEW r \in Relay, Acknowledge(r) \/ Stop(r) \/ RelayFails(r)
        PROVE  EventInv' /\ ResumesWithDecision' /\ AcknowledgedReached'
    BY <1>0, <1>1, <1>8 DEF TypeOK, runVars, Acknowledge, Stop, RelayFails, NextRound
  <1>9. ASSUME NEW c \in Caller, CallerStep(c) \/ Ask(c) \/ Abort(c)
        PROVE  UNCHANGED <<runVars, relayVars>>
    BY <1>9 DEF CallerStep, Ask, ResolveReplay, ResolveLock, AuthorizeAction, Deny,
                CommitResolve, Abort
  <1>10. ASSUME NEW s \in Signal, Pass(s)
         PROVE  UNCHANGED <<runVars, relayVars>>
    BY <1>10 DEF Pass
  <1>11. CASE UNCHANGED vars
    BY <1>3, <1>11 DEF vars
  <1>. QED
    BY <1>3, <1>4, <1>5, <1>6, <1>7, <1>8, <1>9, <1>10, <1>11
       DEF Next, RunStep, RelayStep

-----------------------------------------------------------------------------
LEMMA Initial == Init => IInv
  BY SignalAssumption
     DEF Init, IInv, TypeOK, OneDecision, StoredAs, AnswersAgree, ResumesWithDecision,
         AcknowledgedReached, LockInv, CallerLock, IssueLock, EventInv, Terminal, Open,
         Holder, Fact

THEOREM Invariance == Spec => []IInv
  <1>1. IInv /\ [Next]_vars => IInv'
    BY TypeStep, StoreStep, AnswerStep, LockStep, EventStep DEF IInv
  <1>. QED
    BY Initial, <1>1, PTL DEF Spec

\* Type correctness of the store, the runs, the requests and the relays.
THEOREM TypeCorrect == Spec => []TypeOK
  BY Invariance, PTL DEF IInv

\* OneDecision: the rows of applik8s_signals, applik8s_signal_resolutions, the
\* outbox and the grants agree about every signal.
THEOREM StoreAgrees == Spec => []OneDecision
  BY Invariance, PTL DEF IInv

\* AnswersAgree: resolve tells exactly the winner and its exact replays.
THEOREM CallersAgree == Spec => []AnswersAgree
  BY Invariance, PTL DEF IInv

\* ResumesWithDecision: "resumed without a canonical terminal state" is not
\* reached, and replays of a run see one outcome.
THEOREM RunsAgree == Spec => []ResumesWithDecision
  BY Invariance, PTL DEF IInv

\* AcknowledgedReached: the relay never acknowledges what it has not pushed.
THEOREM NothingLost == Spec => []AcknowledgedReached
  BY Invariance, PTL DEF IInv

\* DecisionFinal: no step changes the terminal state of a signal.
THEOREM NeverRevised == Spec => DecisionFinal
  <1>1. IInv /\ [Next]_vars =>
            [\A s \in Signal : Terminal(s) => signals'[s] = signals[s]]_vars
    BY Final
  <1>. QED
    BY Invariance, <1>1, PTL DEF Spec, DecisionFinal

=============================================================================
