----------------------------- MODULE SignalStore -----------------------------
(***************************************************************************)
(* One-shot workflow signals: a workflow run issues a signal, people or    *)
(* processors act on it, or it expires, and the run resumes with what was  *)
(* decided.  packages/applik8s/src/signal-runtime.ts (the PostgreSQL       *)
(* store, the outbox relay, emit and the decision), signal-gateway.ts (the *)
(* action requests), and the bindings the compiler generates around them   *)
(* (packages/compiler/src/application-workflows/source.ts): exact-instance *)
(* grants of the operation authority, written in the store's transaction,  *)
(* and Hatchet's durable wait for the terminal event.                      *)
(*                                                                         *)
(* A signal is one occurrence: its id is a function of the workflow        *)
(* invocation and the call, so a replayed run issues the same signal.  A   *)
(* transaction is the steps between taking a row lock and its commit; what *)
(* it writes is seen at the commit.  Inputs, targets and receipts are left *)
(* out: a request is its action and idempotency key.                       *)
(***************************************************************************)
EXTENDS Naturals, FiniteSets

CONSTANTS
    Signal,       \* signal occurrences, each with the run that issues it
    Action,       \* the declared actions
    Key,          \* idempotency keys
    Caller,       \* requests in flight at the gateways and processors
    Relay,        \* outbox relays, one per workflow worker
    Free,         \* no holder, no request
    BatchSize,    \* batchSize of the relay
    MaxRequests,  \* bound on the action requests
    MaxFaults     \* bound on crashes and failed calls

Open == {"absent", "pending"}
Kind == {"issued", "resolved", "expired"}
Holder == Signal \cup Caller \cup Relay

ASSUME SignalAssumption ==
    /\ Action \cap (Open \cup {"expired"}) = {}
    /\ Signal \cap Caller = {} /\ Signal \cap Relay = {} /\ Caller \cap Relay = {}
    /\ Free \notin Holder /\ Free \notin [signal : Signal, action : Action, key : Key]
    /\ BatchSize \in Nat \ {0}
    /\ MaxRequests \in Nat /\ MaxFaults \in Nat

VARIABLES
    signals,      \* applik8s_signals: absent, pending, expired or the action
    resolutions,  \* applik8s_signal_resolutions
    facts,        \* applik8s_signal_outbox
    published,    \* its rows with published_at
    grants,       \* the exact-instance grants
    row,          \* who holds the row lock of each signal
    authority,    \* who holds the advisory lock of the authority
    run,          \* where each workflow run is
    outcomes,     \* what the decisions of a run and its replays returned
    step, request,\* where each caller is, and what it asks for
    answers,      \* what the callers were answered
    relay,        \* where each relay is in its loop
    batch, sent,  \* the facts it read and those of them it has published
    events,       \* the terminal events pushed to Hatchet
    due,          \* the signals whose expires_at has passed
    asked, faults

storeVars == <<signals, resolutions, facts, grants>>
lockVars == <<row, authority>>
runVars == <<run, outcomes>>
callerVars == <<step, request, answers, asked>>
relayVars == <<relay, batch, sent, published, events>>
vars == <<storeVars, lockVars, runVars, callerVars, relayVars, due, faults>>

Requests == [signal : Signal, action : Action, key : Key]
Fact(s, kind) == [signal |-> s, kind |-> kind]

Init ==
    /\ signals = [s \in Signal |-> "absent"]
    /\ resolutions = {} /\ facts = {} /\ published = {}
    /\ grants = [s \in Signal |-> "none"]
    /\ row = [s \in Signal |-> Free]
    /\ authority = Free
    /\ run = [s \in Signal |-> "start"]
    /\ outcomes = [s \in Signal |-> {}]
    /\ step = [c \in Caller |-> "idle"]
    /\ request = [c \in Caller |-> Free]
    /\ answers = {}
    /\ relay = [r \in Relay |-> "idle"]
    /\ batch = [r \in Relay |-> {}] /\ sent = [r \in Relay |-> {}]
    /\ events = {} /\ due = {}
    /\ asked = 0 /\ faults = 0

-----------------------------------------------------------------------------
(* Transactions *)

Terminal(s) == signals[s] \notin Open

\* Every transaction takes its row locks first and the authority's lock last.
EnterAuthority(h) == authority = Free /\ authority' = h

Unlocked(h) == [s \in Signal |-> IF row[s] = h THEN Free ELSE row[s]]

\* The end of a transaction, committed or rolled back.
Release(h) ==
    /\ row' = Unlocked(h)
    /\ authority' = IF authority = h THEN Free ELSE authority

\* The finalizer of a terminal transition: the signal's grants are revoked.
Revoked(S) ==
    [s \in Signal |-> IF s \in S /\ grants[s] = "active" THEN "revoked" ELSE grants[s]]

Fault ==
    /\ faults < MaxFaults
    /\ faults' = faults + 1

-----------------------------------------------------------------------------
(* The workflow run *)

\* emit and issue: the insert, which waits for another transaction that holds
\* the occurrence key, and is a replay when the row is there.
Emit(s) ==
    /\ run[s] = "start"
    /\ row[s] = Free
    /\ \/ /\ signals[s] = "absent"
          /\ row' = [row EXCEPT ![s] = s]
          /\ run' = [run EXCEPT ![s] = "inserted"]
       \/ /\ signals[s] # "absent"
          /\ run' = [run EXCEPT ![s] = "waiting"]
          /\ UNCHANGED row
    /\ UNCHANGED <<storeVars, authority, outcomes, callerVars, relayVars, due, faults>>

AuthorizeIssue(s) ==
    /\ run[s] = "inserted"
    /\ EnterAuthority(s)
    /\ run' = [run EXCEPT ![s] = "authorized"]
    /\ UNCHANGED <<storeVars, row, outcomes, callerVars, relayVars, due, faults>>

\* The pending row, its grants (with grantAccessTo; none with authorize), the
\* issuance event and the fact in one commit.
CommitIssue(s) ==
    /\ run[s] = "authorized"
    /\ signals' = [signals EXCEPT ![s] = "pending"]
    /\ \E g \in {"none", "active"} : grants' = [grants EXCEPT ![s] = g]
    /\ facts' = facts \cup {Fact(s, "issued")}
    /\ Release(s)
    /\ run' = [run EXCEPT ![s] = "waiting"]
    /\ UNCHANGED <<resolutions, outcomes, callerVars, relayVars, due, faults>>

\* waitForEvent returns: the event may have been pushed before the wait.
Wake(s) ==
    /\ run[s] = "waiting"
    /\ s \in events
    /\ run' = [run EXCEPT ![s] = "woken"]
    /\ UNCHANGED <<storeVars, lockVars, outcomes, callerVars, relayVars, due, faults>>

\* decision(): the canonical state is read again.
Decide(s) ==
    /\ run[s] = "woken"
    /\ outcomes' = [outcomes EXCEPT ![s] = @ \cup {signals[s]}]
    /\ run' = [run EXCEPT ![s] = "decided"]
    /\ UNCHANGED <<storeVars, lockVars, callerVars, relayVars, due, faults>>

\* The worker dies, or the engine evicts the run while it waits: the run is
\* replayed from its beginning.
Replay(s) ==
    /\ Fault
    /\ run[s] \notin {"start", "failed"}
    /\ run' = [run EXCEPT ![s] = "start"]
    /\ Release(s)
    /\ UNCHANGED <<storeVars, outcomes, callerVars, relayVars, due>>

\* A call of the run throws: the durable task declares no retries, so the
\* failure is recorded and thrown again, and ends the run.
RunFails(s) ==
    /\ Fault
    /\ run[s] \in {"start", "inserted", "authorized", "waiting", "woken"}
    /\ run' = [run EXCEPT ![s] = "failed"]
    /\ Release(s)
    /\ UNCHANGED <<storeVars, outcomes, callerVars, relayVars, due>>

-----------------------------------------------------------------------------
(* Action requests *)

Ask(c) ==
    /\ step[c] = "idle"
    /\ asked < MaxRequests
    /\ \E q \in Requests :
          /\ signals[q.signal] # "absent"
          /\ request' = [request EXCEPT ![c] = q]
    /\ asked' = asked + 1
    /\ step' = [step EXCEPT ![c] = "asked"]
    /\ UNCHANGED <<storeVars, lockVars, runVars, answers, relayVars, due, faults>>

\* The resolution recorded under the request's idempotency key.
Recorded(q) == {x \in resolutions : x.signal = q.signal /\ x.key = q.key}

\* Mutant of Told: the action under the key is not compared.
ToldByKey(q) == IF Recorded(q) # {} THEN "resolved" ELSE "alreadyResolved"

\* signalActionResult, and the replay it is given by resolve.
Told(q) ==
    IF signals[q.signal] = q.action /\ \E x \in Recorded(q) : x.action = q.action
    THEN "resolved" ELSE "alreadyResolved"

Return(c) ==
    /\ step' = [step EXCEPT ![c] = "idle"]
    /\ request' = [request EXCEPT ![c] = Free]

Answer(q, told) == answers' = answers \cup {[request |-> q, told |-> told]}

\* resolve, on a signal that is decided.
ResolveReplay(c) ==
    LET q == request[c] IN
    /\ step[c] = "asked"
    /\ row[q.signal] = Free
    /\ Recorded(q) # {} \/ Terminal(q.signal)
    /\ Answer(q, Told(q))
    /\ Return(c)
    /\ UNCHANGED <<storeVars, lockVars, runVars, asked, relayVars, due, faults>>

\* Mutant of ResolveLock: the row is read without FOR UPDATE.
ResolveUnlocked(c) ==
    LET q == request[c] IN
    /\ step[c] = "asked"
    /\ Recorded(q) = {} /\ ~Terminal(q.signal)
    /\ step' = [step EXCEPT ![c] = "locked"]
    /\ UNCHANGED <<storeVars, lockVars, runVars, request, answers, asked, relayVars,
                   due, faults>>

\* resolve, on a pending signal: SELECT ... FOR UPDATE.
ResolveLock(c) ==
    LET q == request[c] IN
    /\ step[c] = "asked"
    /\ row[q.signal] = Free
    /\ Recorded(q) = {} /\ ~Terminal(q.signal)
    /\ row' = [row EXCEPT ![q.signal] = c]
    /\ step' = [step EXCEPT ![c] = "locked"]
    /\ UNCHANGED <<storeVars, authority, runVars, request, answers, asked, relayVars,
                   due, faults>>

\* A grant ends with the signal; a role's authority does not, and is narrowed
\* by the signal's selectors.
MayAct(s) == grants[s] = "none" \/ (grants[s] = "active" /\ s \notin due)

AuthorizeAction(c) ==
    /\ step[c] = "locked"
    /\ EnterAuthority(c)
    /\ MayAct(request[c].signal)
    /\ step' = [step EXCEPT ![c] = "authorized"]
    /\ UNCHANGED <<storeVars, row, runVars, request, answers, asked, relayVars, due, faults>>

\* A denied request is rolled back.
Deny(c) ==
    /\ step[c] = "locked"
    /\ authority = Free
    /\ Return(c)
    /\ Release(c)
    /\ UNCHANGED <<storeVars, runVars, answers, asked, relayVars, due, faults>>

CommitResolve(c) ==
    LET q == request[c] IN
    /\ step[c] = "authorized"
    /\ grants' = Revoked({q.signal})
    /\ resolutions' = resolutions \cup {q}
    /\ signals' = [signals EXCEPT ![q.signal] = q.action]
    /\ facts' = facts \cup {Fact(q.signal, "resolved")}
    /\ Release(c)
    /\ Answer(q, "resolved")
    /\ Return(c)
    /\ UNCHANGED <<runVars, asked, relayVars, due, faults>>

\* The caller's process dies or its transaction fails.
Abort(c) ==
    /\ Fault
    /\ step[c] \in {"locked", "authorized"}
    /\ Return(c)
    /\ Release(c)
    /\ UNCHANGED <<storeVars, runVars, answers, asked, relayVars, due>>

-----------------------------------------------------------------------------
(* The relay *)

Least(m, n) == IF m < n THEN m ELSE n

\* LIMIT: as many of the candidates as the batch holds.
Batches(S) ==
    {T \in SUBSET S : Cardinality(T) = Least(BatchSize, Cardinality(S))}

\* Mutant of Selectable: the rows are taken whoever holds them.
SelectableAnyway == {s \in due : signals[s] = "pending"}

\* expireDue: SELECT ... FOR UPDATE SKIP LOCKED.
Selectable == {s \in due : signals[s] = "pending" /\ row[s] = Free}

SelectDue(r) ==
    /\ relay[r] = "idle"
    /\ \E S \in Batches(Selectable) :
          /\ row' = [s \in Signal |-> IF s \in S THEN r ELSE row[s]]
          /\ relay' = [relay EXCEPT ![r] = IF S = {} THEN "reading" ELSE "selected"]
    /\ UNCHANGED <<storeVars, authority, runVars, callerVars, batch, sent, published,
                   events, due, faults>>

FinalizeDue(r) ==
    /\ relay[r] = "selected"
    /\ EnterAuthority(r)
    /\ relay' = [relay EXCEPT ![r] = "finalized"]
    /\ UNCHANGED <<storeVars, row, runVars, callerVars, batch, sent, published, events,
                   due, faults>>

\* The selected signals that are still pending when they are read again.
Expiring(r) == {s \in Signal : row[s] = r /\ signals[s] = "pending"}

\* Mutant of CommitDue: the expiry is not announced.
CommitDueSilently(r) ==
    /\ relay[r] = "finalized"
    /\ grants' = Revoked(Expiring(r))
    /\ signals' = [s \in Signal |-> IF s \in Expiring(r) THEN "expired" ELSE signals[s]]
    /\ Release(r)
    /\ relay' = [relay EXCEPT ![r] = "reading"]
    /\ UNCHANGED <<resolutions, facts, runVars, callerVars, batch, sent, published,
                   events, due, faults>>

CommitDue(r) ==
    /\ relay[r] = "finalized"
    /\ grants' = Revoked(Expiring(r))
    /\ signals' = [s \in Signal |-> IF s \in Expiring(r) THEN "expired" ELSE signals[s]]
    /\ facts' = facts \cup {Fact(s, "expired") : s \in Expiring(r)}
    /\ Release(r)
    /\ relay' = [relay EXCEPT ![r] = "reading"]
    /\ UNCHANGED <<resolutions, runVars, callerVars, batch, sent, published, events,
                   due, faults>>

\* pendingOutbox
ReadOutbox(r) ==
    /\ relay[r] = "reading"
    /\ \E F \in Batches(facts \ published) : batch' = [batch EXCEPT ![r] = F]
    /\ relay' = [relay EXCEPT ![r] = "publishing"]
    /\ UNCHANGED <<storeVars, lockVars, runVars, callerVars, sent, published, events, due,
                   faults>>

\* Mutant of Publish: the issuance is pushed like a terminal fact.
PublishAll(r) ==
    /\ relay[r] = "publishing"
    /\ \E f \in batch[r] \ sent[r] :
          /\ events' = events \cup {f.signal}
          /\ sent' = [sent EXCEPT ![r] = @ \cup {f}]
    /\ UNCHANGED <<storeVars, lockVars, runVars, callerVars, relay, batch, published,
                   due, faults>>

\* publish: only terminal facts become events of the workflow engine.
Publish(r) ==
    /\ relay[r] = "publishing"
    /\ \E f \in batch[r] \ sent[r] :
          /\ events' = IF f.kind = "issued" THEN events ELSE events \cup {f.signal}
          /\ sent' = [sent EXCEPT ![r] = @ \cup {f}]
    /\ UNCHANGED <<storeVars, lockVars, runVars, callerVars, relay, batch, published,
                   due, faults>>

\* Mutant of NextRound: the acknowledged ids survive the round.
NextRoundKeeping(r) ==
    /\ relay' = [relay EXCEPT ![r] = "idle"]
    /\ batch' = [batch EXCEPT ![r] = {}]
    /\ UNCHANGED sent

NextRound(r) ==
    /\ relay' = [relay EXCEPT ![r] = "idle"]
    /\ batch' = [batch EXCEPT ![r] = {}]
    /\ sent' = [sent EXCEPT ![r] = {}]

\* Mutant of Acknowledge: the batch is acknowledged before it is published.
AcknowledgeFirst(r) ==
    /\ relay[r] = "publishing"
    /\ published' = published \cup batch[r]
    /\ NextRound(r)
    /\ UNCHANGED <<storeVars, lockVars, runVars, callerVars, events, due, faults>>

\* acknowledgeOutbox, once every fact of the batch is published.
Acknowledge(r) ==
    /\ relay[r] = "publishing"
    /\ batch[r] \subseteq sent[r]
    /\ published' = published \cup sent[r]
    /\ NextRound(r)
    /\ UNCHANGED <<storeVars, lockVars, runVars, callerVars, events, due, faults>>

\* The worker is stopped between two facts: what is published is acknowledged.
Stop(r) ==
    /\ Fault
    /\ relay[r] = "publishing"
    /\ published' = published \cup sent[r]
    /\ NextRound(r)
    /\ UNCHANGED <<storeVars, lockVars, runVars, callerVars, events, due>>

\* An error in the round, or the death of the worker: nothing of the round is
\* acknowledged and the next one starts over.
RelayFails(r) ==
    /\ Fault
    /\ relay[r] # "idle"
    /\ NextRound(r)
    /\ Release(r)
    /\ UNCHANGED <<storeVars, runVars, callerVars, published, events, due>>

-----------------------------------------------------------------------------
\* expires_at passes.
Pass(s) ==
    /\ signals[s] # "absent"
    /\ s \notin due
    /\ due' = due \cup {s}
    /\ UNCHANGED <<storeVars, lockVars, runVars, callerVars, relayVars, faults>>

RunStep(s) ==
    Emit(s) \/ AuthorizeIssue(s) \/ CommitIssue(s) \/ Wake(s) \/ Decide(s)

CallerStep(c) ==
    \/ ResolveReplay(c) \/ ResolveLock(c) \/ AuthorizeAction(c) \/ Deny(c)
    \/ CommitResolve(c)

RelayStep(r) ==
    \/ SelectDue(r) \/ FinalizeDue(r) \/ CommitDue(r) \/ ReadOutbox(r) \/ Publish(r)
    \/ Acknowledge(r)

Next ==
    \/ \E s \in Signal : RunStep(s) \/ Replay(s) \/ RunFails(s) \/ Pass(s)
    \/ \E c \in Caller : CallerStep(c) \/ Ask(c) \/ Abort(c)
    \/ \E r \in Relay : RelayStep(r) \/ RelayFails(r) \/ Stop(r)

Spec == Init /\ [][Next]_vars

\* Runs, requests and relays go on while they can; time passes.  Hatchet
\* assigns the durable run of a dead worker to another one, the relay is a
\* loop, PostgreSQL ends the transaction of a lost connection.
Fairness ==
    /\ \A s \in Signal : WF_vars(RunStep(s)) /\ WF_vars(Pass(s))
    /\ \A c \in Caller : WF_vars(CallerStep(c))
    /\ \A r \in Relay : WF_vars(RelayStep(r))

FairSpec == Spec /\ Fairness

-----------------------------------------------------------------------------
(* Properties *)

TypeOK ==
    /\ signals \in [Signal -> Open \cup {"expired"} \cup Action]
    /\ resolutions \subseteq Requests
    /\ facts \subseteq [signal : Signal, kind : Kind]
    /\ published \subseteq facts
    /\ grants \in [Signal -> {"none", "active", "revoked"}]
    /\ row \in [Signal -> Holder \cup {Free}]
    /\ authority \in Holder \cup {Free}
    /\ run \in [Signal -> {"start", "inserted", "authorized", "waiting", "woken", "decided",
                        "failed"}]
    /\ outcomes \in [Signal -> SUBSET (Open \cup {"expired"} \cup Action)]
    /\ step \in [Caller -> {"idle", "asked", "locked", "authorized"}]
    /\ request \in [Caller -> Requests \cup {Free}]
    /\ answers \subseteq [request : Requests, told : {"resolved", "alreadyResolved"}]
    /\ relay \in [Relay -> {"idle", "selected", "finalized", "reading", "publishing"}]
    /\ batch \in [Relay -> SUBSET facts]
    /\ sent \in [Relay -> SUBSET facts]
    /\ \A r \in Relay : sent[r] \subseteq batch[r]
    /\ events \subseteq Signal
    /\ due \subseteq Signal
    /\ asked \in 0..MaxRequests /\ faults \in 0..MaxFaults

\* The rows of the store tell one story of a signal: while it is pending no
\* resolution is recorded, its only fact is the issuance and its grants are
\* active; once it is decided there is the one resolution that won or none,
\* the one terminal fact of that kind, and no active grant.
StoredAs(s) ==
    /\ Fact(s, "issued") \in facts <=> signals[s] # "absent"
    /\ Fact(s, "expired") \in facts <=> signals[s] = "expired"
    /\ Fact(s, "resolved") \in facts <=> signals[s] \in Action
    /\ signals[s] \in Action => \E x \in resolutions : x.signal = s
    /\ \A x, y \in resolutions :
          x.signal = s /\ y.signal = s => x = y /\ x.action = signals[s]
    /\ grants[s] = "active" => signals[s] = "pending"
    /\ grants[s] = "revoked" => Terminal(s)

OneDecision == \A s \in Signal : StoredAs(s)

\* A decision never changes: of the actions and expiries that race for a
\* pending signal one wins.
DecisionFinal ==
    [][\A s \in Signal : Terminal(s) => signals'[s] = signals[s]]_vars

\* A caller is told "resolved" exactly when its action and key won, however
\* often and through whichever transaction it asks; everybody else is told
\* "alreadyResolved", and nobody is told either before there is a decision.
AnswersAgree ==
    \A a \in answers :
       /\ Terminal(a.request.signal)
       /\ a.told = "resolved" <=> a.request \in resolutions

\* A run resumes with the canonical decision and every replay of it with the
\* same one: the terminal event never runs ahead of the decision it announces.
ResumesWithDecision ==
    \A s \in Signal : outcomes[s] # {} => Terminal(s) /\ outcomes[s] = {signals[s]}

\* A terminal fact that is acknowledged, and will not be published again, has
\* reached the workflow engine.
AcknowledgedReached ==
    \A f \in published : f.kind # "issued" => f.signal \in events

\* Every run that waits for its signal is decided in the end, whatever workers,
\* relays and callers die, unless a call of its own fails and ends it.
RunsDecide ==
    \A s \in Signal : run[s] = "waiting" ~> run[s] \in {"decided", "failed"}

=============================================================================
