# applik8s: a TLA+ verification project

applik8s compiles a typed application (models, commands, streams, signals,
operators) into a Kubernetes deployment. Its correctness rests on a runtime that
spreads one logical operation over PostgreSQL transactions, a JetStream stream,
worker processes that may die at any point, and clients that retry. This project
models that runtime in TLA+, checks the models with TLC on small instances, and
proves the central safety properties with TLAPS for every instance. Section 5 says
how much of the repository that is.

`PROJECT.json` is the index: components, runs, mutants, the map from definitions
to source lines, findings, hazards and theorems. Source paths below are relative
to `packages/applik8s/src` unless they start with `packages/` or `crates/`.

## 1. Inventory

### 1.1 The path of a command

    client --HTTP--> command gateway --publish--> JetStream --deliver--> processor
                       |      |                                     |
                  authority  admission                         command kernel
                  (pin)      row                               (PostgreSQL)
                                                                    |
                           results, model rows, change feed, outbox, public streams
                                                                    |
              outbox relay -> JetStream      stream consumers: projections,
                                             processors, subscriptions

| Component | State | Operations | Hard behaviours |
|---|---|---|---|
| Command gateway (`command-gateway.ts`) | admission rows, the catalog pin it asked for | authorize, admit, publish, compensate, read result | three stores written one after the other; a publish error that may mean "stored"; two submissions of one command |
| Command processor (`packages/runtime-nats/src/command-processor.ts`) | deliveries of a message, none of its own | bind, revalidate, execute, dead-letter, record failure, release, ack / nak / term | redelivery while a handler is at work; the last delivery; a write failing between two steps |
| Command kernel (`model-command-postgres-runtime.ts`) | inbox, results, model rows, change feed with a commit frontier, outboxes | execute a command, replay a duplicate, reject, record a terminal failure | READ COMMITTED interleavings, advisory and row locks, savepoints, deadlocks, retries, duplicates |
| Operation authority and catalog (`packages/operations/src`) | catalog revisions, references (pins), grants, receipts | authorize, revalidate, release, activate, drain, retire, prune | a revision that goes while its commands are in flight |
| Command data retention (`postgres-outbox-runtime.ts`) | the same tables | cleanup after the audit window | pins without an owner |
| Outbox relay (`postgres-outbox-runtime.ts`) | `published_at` of outbox rows | select, publish, mark | dying between publish and mark; a bad row at the head |
| Public event streams (`stream-runtime-postgres.ts`, `application-stream-commit.ts`) | event rows with identity sequences, retention floors | emit, read, enforce retention | sequences are allocated before they are visible; retention racing readers |
| Stream consumers (`projection-runtime-clickhouse.ts`, `stream-subscription-gateway.ts`, `projection-snapshot-postgres-runtime.ts`) | a cursor each | read, apply, checkpoint, report a gap, resubscribe, rebuild | crash between apply and checkpoint; watermarks taken beside open transactions |
| Stream processors (`stream-processor-runtime.ts`) | checkpoint, frozen batch group, dead letters | freeze, run, mark, complete | overlapping runners of one processor; a group completed by the other runner; lanes that outlive their invocation |
| Signals (`signal-runtime.ts`, `signal-gateway.ts`) | signals, resolutions, outbox, grants | issue, act, expire, relay, resume the run | actions racing expiry; a relay dying between publish and acknowledge; replayed runs; appends to a public stream without its commit lock |
| Projection rebuild (`projection-rebuild-runtime.ts`, `projection-runtime-valkey.ts`) | generations with rows and high waters, the active one and its checkpoint, an attempt lease, manifests | capture, reset, scan, load, catch up, publish, abandon, retire; worker writes | crash in the middle, a stalled attempt, cut-over racing the live worker |
| Deployment lease (`packages/deployment-alchemy/src/lease.ts`) | a lease file | acquire, heartbeat, release, retire | check-then-act on a file; lost heartbeats |
| Task and workflow runtime | executions in Hatchet | admit, run, observe | delegated durable execution |
| Client stores (`packages/client/src`) | optimistic commands, cursors | submit, poll, reconnect | late answers, resets |
| Operator host (`crates/`) | leadership, reconcile queue | reconcile, patch, lead | leadership lost during a reconcile |
| Query gateway, search, application packages, compiler, providers | mostly queries, generated code, adapters | | little control of their own |

What makes the modelled parts correct:

- kernel: each command takes effect at most once and whole; every answer is the
  recorded one; a revision check still holds at the write; the change feed is in
  commit order without gaps; no transaction waits for ever;
- delivery: one receipt per command wherever it is stored; every published
  command gets a result; the references tell of every command in flight; no pin
  stays for ever;
- streams: a cursor never passes an event that becomes visible later; a gap is
  reported only for what retention removed; events arrive, and old ones leave;
- processors: the checkpoint covers settled events only and never goes back; a
  partition is handled in order; an event keeps the batch it was frozen in;
- signals: a signal is decided once, everybody is told that decision, and the run
  that waits for it resumes;
- rebuild: readers see one projection that follows the stream, whatever is rebuilt
  behind it;
- deployment lease: one deployment of a Stack at a time.

### 1.2 How the parts interact

The gateway and the processor share the admission row and the message: the
kernel refuses a message whose receipt is not the admitted one. The catalog pin
is written by the authority on behalf of the gateway, released by the processor
after the result or by the gateway after a failed publish, and removed by
cleanup with the admission row. The kernel writes public stream rows in the same
transaction as the model rows; consumers only ever see the table. Signals write
to the same table from other transactions.

The module families are cut at those interfaces. In `CommandDelivery`
executing a command is one step; `CommandKernel` shows why that is sound (its
refinement of `CommandLedger` is exactly "one atomic step per command"). In
`PublicStream` a command transaction is reduced to lock, emits and
commit or abort. `StreamProcessor` and `ProjectionRebuild` take from `PublicStream`
what its properties establish: events become visible in sequence order, and a read
gets a consistent floor and page. `SignalStore` leaves the issuance event to
`PublicStream`.

## 2. Modules

| Module | Role |
|---|---|
| `PublicStream` | one stream contract: writers, retention, consumers |
| `MCPublicStream` | TLC instances |
| `PublicStreamProofs` | theorems about `PublicStream` |
| `CommandLedger` | abstract specification of the kernel: a ledger of commands |
| `CommandKernel` | the kernel, statement by statement |
| `MCCommandKernel` | TLC instances |
| `CommandKernelProofs` | theorems about `CommandKernel` |
| `CommandKernelRefinement` | `CommandKernel` implements `CommandLedger` |
| `CommandDelivery` | gateway, stream, processor, catalog, cleanup |
| `MCCommandDelivery` | TLC instances |
| `CommandDeliveryProofs` | theorems about `CommandDelivery` |
| `StreamProcessor` | the per-event and the batch processor and their store |
| `MCStreamProcessor`, `StreamProcessorProofs` | TLC instance, theorems |
| `SignalStore` | signals: issuance, actions, expiry, relay, waiting runs |
| `MCSignalStore`, `SignalStoreProofs` | TLC instance, theorems |
| `OnlineProjection` | abstract specification of a projection: one view that follows a stream |
| `ProjectionRebuild` | the Valkey store, rebuild attempts and the projection worker |
| `MCProjectionRebuild` | TLC instances |
| `ProjectionRebuildProofs` | theorems about `ProjectionRebuild` |
| `ProjectionRebuildRefinement` | `ProjectionRebuild` implements `OnlineProjection` |
| `DeploymentLease`, `MCDeploymentLease` | the lease file of a deployment, TLC instance |

### 2.1 PublicStream

`applik8s_public_stream_events.sequence` is an identity column. `EmitEvent` takes
a number at the INSERT, `Commit` makes the rows visible, `Abort` loses the
numbers. `holder` and `sharing` are the advisory lock that
`applicationPublicStreamCommitScope` names: exclusive for the kernel and for
retention, shared for a read. `BeginRead` selects the floor, `ReadPage` and
`ReadEmptyPage` the rows, so retention may be tried between them.
`EnforceRetention` is the whole transaction: the batch of oldest expired rows by
`recorded_at`, the deletion, the global floor and the floor of each context.
`recorded_at` is the admission time of the command and is not monotone in the
sequence. A batch with a row whose context digest is NULL fails as a whole on the
NOT NULL key of the floor table, which the guard `d.digest # NoContext` says.

A projection applies a page (`ApplyPage`) and then checkpoints (`AdvanceCursor`),
may die in between (`CrashConsumer`), and may be rebuilt from a snapshot
(`RebuildFromSnapshot`), which takes no lock. A subscription that is told of a gap
starts again at 0 (`Resubscribe`). `committed`, `seen` and `start` are history
variables.

A contract is an event that commands emit or a signal definition (`contract`, chosen
in `Init`), and so has either commands or signals as writers. `IssueSignal` appends to the same table without the commit lock. What serializes it
is another one: the generated issuer authorizes inside its transaction, before the
INSERT, and thereby holds the catalog and authority locks of the application until it
commits, so no two issuances are open at once. `recorded_at` is `issuedAt`, taken
before the transaction. The order of a signal stream therefore rests on a lock that
its own code does not mention: an issuer without an authorizer, which
`createPostgresApplicationSignalStore` allows, would lose it: with a guard on the
issuer's own pending rows only, TLC refutes `NoSkippedEvent`.

### 2.2 CommandKernel and CommandLedger

One action of `CommandKernel` is one SQL statement of
`executePostgresModelCommand` that can block or read shared rows, with the local
computation around it. `held` is the lock table of PostgreSQL: a statement that
must wait is not enabled, and `Wanted` and `InDeadlock` describe the waits-for
graph that `DeadlockVictim` breaks. `staged`, `recorded` and `outcome` are the
writes of an open transaction. The order is that of the code: scope lock, context
lock, inbox check (`Replay`, `ReplayFails` or `Execute`), target lock for a
serial command, read of the target with its optional route, early rejections,
initial insert, handler with an optional patch of another model's row,
authorization, guarded write, change record, result, commit. The authorization of a
protected command takes the catalog and authority locks of the application, in this
order, and keeps them to the end of the transaction; `AuthorityLock` stands for both.
They come after the rows of the participants and, when a participant was written,
after the change frontier, but before the frontier of a command without participant,
so two commands can wait for each other over them as well. A declared
rejection rolls back to the savepoint and commits its result
(`RollbackAndReject`). `RetryOrLeave` is `retryPostgresCommandTransaction`.
`TerminalFailure` is the whole transaction of
`recordPostgresModelCommandTerminalFailure`.

Revisions are symbolic: the command that wrote a version and the phase in which it
did. That is all the properties tell apart. Locks, visibility, deadlock detection
and rollback are PostgreSQL's and marked external in the map.

`CommandLedger` knows no transactions: a command enters a ledger once, with a set
of changes each made to the current version of its row, at the next positions of
the feed, or is refused and changes nothing. `ImplementsLedger` is `Ledger!Spec`
with the identity mapping on the four tables.

### 2.3 CommandDelivery

A request goes through `Authorize` (receipt and pin in one transaction of the
authority), `Admit`, `Publish` and, after a publish error, `Compensate`. A message
is stored once per command id (`Store`, the dedupe of JetStream), delivered at
most `MaxDeliver` times and becomes deliverable again after `ackWait`
(`AckWaitExpires`), whether or not its handler is still at work. A handler goes
through the branches of `handleJetStreamCommandMessage`. `Settle` is the
insert-if-absent of a terminal result. The constant `Fault` says which faults an
instance has:

| Fault | Meaning |
|---|---|
| `ackLost` | the broker stores the message and the publisher sees an error |
| `gateway` | the gateway stops between two of its steps |
| `handler` | a handler stops, or a write of it throws, before the last delivery |
| `lastHandler` | the same in the last delivery |
| `unbound` | a processor has no binding for the contract and terminates the message |

The catalog is the revision the commands were authorized under. Its transitions are
as many steps as the code has transactions and statements. The successor's `prepare`
prunes the pins of commands that have a result (`Prune`, a transaction of its own, by
any replica), then `activate` reads the references under the catalog's lock
(`ReadReferences`; an incompatible successor is refused while there are any) and puts
the predecessor to draining (`PutDraining`). `retire` reads them again
(`ReadForRetirement`) and puts it to retired (`PutRetired`). While such a transaction
is open (`CatalogLocked`) releases and the pre-commit check of a command wait, because
they take the catalog's lock; `Authorize` does not, because it writes the pin under
the authority's lock. So a pin may commit between the read and the put.
`ReferencesCoverCommands` says what the read is good for: at that moment no command
admitted under the revision is in flight. What is authorized after it is not covered.
Such a command is denied when its revision has been retired (`Revalidate`), and
handled under the draining revision otherwise: it fails closed, but it is accepted and
then refused. Three things limit this in the repository as it is: `retire` has no
caller in production code; an incompatible activation, too, only puts its predecessor
to draining; and gateways go on authorizing against a draining revision
(`packages/operations/src/authority.ts:1072`), although
`docs/rfp-v07-operation-authority.md:638` says that one should "admit new operations
only against the active revision".

`RelayOutbox` publishes the events of a completed command; `Cleanup` keeps the inbox
row, and with it the admission, of a command whose event is not published.
`AuditWindowPassed` assumes that the audit window (days) is longer than all deliveries
of a command (minutes).

### 2.4 StreamProcessor

A runner is one invocation of `runApplicationStreamProcessor` (mode `event`) or
`runApplicationStreamBatchProcessor` (mode `batch`). `Start` reads the checkpoint;
`Look` resumes a frozen group; `ReadEvents` and `ReadBatch` take a page, the latter
cut by `partitionOrderedBatches` (`Fits`, `GroupEndsAt`); `Freeze` and `Insert` are
the two statements of `freezeBatchGroup`, between which another runner may insert;
`Handle`, `Pause` and `DeadLetter` are the outcomes of a handler after its retries;
`Mark`, `Advance` and `Complete` write the store. `MarkFails` and `StoreFails` are
database errors, before or after the effect of the statement: in a lane the first
throws out of `Promise.all`, outside the lanes the second ends the invocation.
`Produce` is the INSERT of a command transaction as consumers see it, at its commit.
`lanes` counts the lanes of
`concurrentMap` that are left: when one throws, `Promise.all` rejects at once and the
others go on (`orphan`) while the loop of the worker calls the processor again.
`handled` is a history variable: the sets of events that a handler completed, one
per idempotency key. Mode, failure policy and number of replicas are chosen in
`Init`.

### 2.5 SignalStore

`Emit`, `AuthorizeIssue` and `CommitIssue` are the transaction of `issue`;
`ResolveReplay`, or `ResolveLock`, `AuthorizeAction` (or `Deny`) and `CommitResolve`
that of `resolve`; `SelectDue`, `FinalizeDue` and `CommitDue` that of `expireDue`.
`row` and `authority` are the row locks and the advisory lock of the authority, both
held to the end of the transaction. `ReadOutbox`, `Publish` and `Acknowledge` are the
rest of a relay's round. A run waits for the terminal event (`Wake`; the event may be
older than the wait) and reads the canonical state (`Decide`). The death of its worker
makes the workflow engine run it again (`Replay`). A call of the run that throws ends
it (`RunFails`): the compiled durable task declares no retries, and its catch records
the failure and throws again (`packages/compiler/src/application-workflows/source.ts`,
169-197). `RelayFails`, `Stop` and `Abort` are deaths and aborts.

### 2.6 ProjectionRebuild and OnlineProjection

A Lua script of the Valkey store is one step, two commands are two steps. An attempt
goes through `Capture`, `Recover` (the manifest of an earlier attempt), `Begin`,
`Reset`, `ResetRows`, `ResetMeta`, `ScanPage` or `ScanSnapshot`, `Load`, the writes
(`Renew`, `CheckEvent`, `ApplyEvent`, `AdvanceEvent`), `PutManifest`, rounds of
`CatchUp`, `Publish`, `Raced` and `Verify`; `Fail` is the finally block. The worker
writes to the generation it saw as active and then commits the event only if that
one still is (`WorkerCommit`). Rows hold the sequence of the event they show; the
segments of a snapshot are what the stream had done when it was taken. A missing
high water is 0; the one script that tells the two apart, the publication of a
generation that has none, is reached only with the fault `overlap` and a checkpoint
of 0.

Retirement goes command by command: the comparison with the active generation
(`StartRetirement`), the deletes of rows and metadata (`RetireRows`, `RetireMeta`), the
GET of the rebuilding generation (`RetireCheck`) with the DEL of the rebuilding and
attempt keys (`RetireRelease`), and the artifacts (`RetireEvidence`);
`RetirementFails` is a throw or a death at any of them. One retirement is under way at
a time. An attempt may rebuild any generation that is not active, which is all
that `beginGeneration` asks. Two uses of names that the code accepts and its
documentation advises against are faults of an instance:

| Fault | Meaning |
|---|---|
| `error`, `crash` | what an attempt or a retirement awaits throws; its process dies |
| `stall` | an attempt, or a command it has sent, stalls past its lease |
| `worker`, `trim` | a projection worker dies; retention removes the oldest events |
| `reuse` | the initial generation or one that was retired is rebuilt under its old name |
| `overlap` | a generation is retired while an attempt rebuilds it |

`OnlineProjection` has no generations: a view changes arbitrarily as long as every
member shows its state at the watermark or after a later event, and the watermark
never goes back. `ImplementsOnline` is its specification with the rows of the active
generation as the view and the checkpoint as the watermark.

### 2.7 DeploymentLease

Every file operation of `lease.ts` is a step: exclusive creation, write, read,
rename of a lease to retire, and the check and the write of heartbeat and release.

## 3. Runs

Every property of a passing run has a mutant: a plausible bug in the definition named
in `PROJECT.json`, under which TLC finds the property violated with the same
configuration. The last column counts distinct states; every run ends within four
minutes.

| Run | Checks | Instance | States |
|---|---|---|---|
| `stream_order` | `TypeOK`, `NoSkippedEvent`, `GapIsReal` | 2 writers of events of two contexts and of none, or 2 signal issuers, a projection, a context-filtered subscription, 3 sequences, batches of 1, pages of 1 or 2 | 2.1 M |
| `stream_live` | `EventuallyApplied`, `ExpiredRowsLeave` | 2 writers whose events have a context, recorded in any order, or a signal issuer, a projection, 3 sequences, pages of 1 | 9 k |
| `retention_unscoped` | violation of `ExpiredRowsLeave` | the same with one writer and a row without context | |
| `kernel_crossed` | `ImplementsLedger`, `TransactionsEnd` | 2 protected serial commands that patch each other's target, 2 workers | 106 k |
| `kernel_shared` | `TypeOK`, `StableAnswer`, `RevisionGuard`, `ImplementsLedger` | 3 commands on one row: serial, concurrent, routed from a missing target | 1.13 M |
| `delivery_receipts` | `TypeOK`, `ReceiptAgrees` | one command submitted twice, all faults | 797 k |
| `delivery_live` | `EventuallySettled`, `PinDischarged`, `ReferencesCoverCommands` | one command submitted twice, handlers that stop, catalog transitions | 81 k |
| `processor` | `TypeOK`, `NothingSkipped`, `PartitionOrder`, `OneManifest`, `CheckpointForward` | 2 runners, 2 partitions, 3 events, both modes and policies, one fault | 3.3 M |
| `signals` | `TypeOK`, `OneDecision`, `AnswersAgree`, `ResumesWithDecision`, `AcknowledgedReached`, `DecisionFinal`, `RunsDecide` | a signal, 2 actions, 2 keys, 2 callers, 2 requests, 2 relays, one fault | 675 k |
| `rebuild` | `TypeOK`, `ActiveHasEvidence`, `RetiresInactive`, `ImplementsOnline` | 2 attempts of one generation, its retirement, a worker, 3 events, retention, crashes, both sources | 2.5 M |
| `rebuild_stalled` | violation of `ActiveCovers` | an attempt that stalls past its lease | |
| `lease` | violation of `OneWriter` | 3 deployments, no faults | |

Why the bounds are enough:

- three sequences let one consumer pass two events while a third is open or
  trimmed; the orders that matter (allocate a, allocate b, commit b, read, commit
  a) need two writers and two numbers. `MaxTime = 1` with `MaxAge = 0` gives rows
  that are expired and rows that are not, `MaxMessages = 2` the other bound.
  Two writers in `stream_live` contend for the exclusive lock with each other, the
  readers and retention, and record their events in either order. Two issuances are
  enough for one of them to commit behind the other;
- two workers are every pair of interleaved transactions; two attempts reach the
  retry and its limit; both commands of `kernel_crossed` are protected, so that they
  meet at the authority locks too; two rows and two bindings reach every lock conflict,
  including the one between different bindings of one row that the target lock
  does not cover;
- two submissions race for one receipt; two handlers hold two deliveries of one
  message; `MaxDeliver` 2 or 3 has a first, a repeated and a last delivery (the
  deployed value is 5). `delivery_live` leaves out the faults under which its
  liveness really fails (`lastHandler`, `gateway`, `ackLost`; see Findings);
- three events of two partitions make a page with a failing and a waiting event of
  one partition beside another partition, and a second page or group after it; two
  runners are a stale and a current one, or an orphan and its successor; one fault
  is a crash, a failed write or a trimmed event at every possible place. Runners and
  partitions are symmetric, and the only temporal property is an action property;
- two callers with two keys and two actions are a retry, a reuse of a key and a
  competitor; two relays compete for due rows and facts; one fault is a death at any
  step of any process. Three requests and two signals were checked as well and take
  longer than a run should;
- the three events write a member, write another and remove the first, so that a
  stale row, a lost row and a row that comes back differ. Two attempts are a failed
  one and its retry; attempts are symmetric. One generation beside the initial one
  is rebuilt, or retired after a failed attempt; chains of generations, and the
  retirement of one that has been active, are left to the theorems, which hold for any
  targets and any retirable generations.

Deadlock is checked in the stream and kernel runs. The other systems may really stop,
when every command is settled, every event handled or every attempt over, so their
runs say `CHECK_DEADLOCK FALSE`.

### Fairness

- `PublicStream`: open transactions end (weak). Reads and retention are strongly
  fair: PostgreSQL queues lock requests, so a loop that keeps asking is served. A
  consumer does not die in front of the same page for ever (strong). Nothing is
  assumed of writers, of the clock, of rebuilds or of resubscription.
- `CommandKernel`: statements are strongly fair, because locks are granted in
  arrival order, and the deadlock detector runs (weak). Nothing is assumed of
  deliveries and crashes.
- `CommandDelivery`: requests and handlers that have not died go on, the broker
  redelivers, `ackWait`, the relay and the cleanup job run (weak, delivery strong). An
  open catalog transaction ends (weak), and a release that waits for its lock is
  served (strong: PostgreSQL queues the waiters). Nothing else is assumed of catalog
  transitions.
- `SignalStore`: runs, requests and relays go on while they can, and time passes
  (all weak): the engine gives the durable run of a dead worker to another one, the
  relay is an endless loop, and PostgreSQL ends the transaction of a lost connection. A
  run with a failed call is not run again, so `RunsDecide` is that a waiting run
  decides or has failed. Nothing is
  assumed of callers asking, so that a signal nobody acts on must expire. Faults and
  requests are bounded, so that nobody locks a due row for ever.
- `StreamProcessor`, `ProjectionRebuild` and `DeploymentLease` have no liveness
  property: a paused processor is meant to stop, a rebuild may fail for good, and an
  acquisition may time out.

### Findings

The three violation runs are disagreements between the code and what its own
comments or documents say; `PROJECT.json` quotes the lines.

1. `retention_unscoped`: the row of a command without trusted context has a NULL
   context digest, which the floor table refuses. Every retention batch that selects it
   fails as a whole, and the same oldest rows are selected the next time: nothing
   expires any more.
2. `rebuild_stalled`: the write that follows a renewal of the attempt's lease is not
   fenced. An attempt that stalls between the two writes into the generation that its
   successor has reset, and the stale row or the deletion is served after publication.
3. `lease`: an acquirer whose exclusive creation failed, and who then finds no file,
   renames whatever is there by then, which may be the fresh lease of a third process:
   two deployments run at once, without any crash or expiry. TLC stops at this
   counterexample; the check-then-act of heartbeat and release is in the model and not
   in a run of its own.

Without the faults `stall`, `reuse` and `overlap`, `ActiveCovers` is part of what the
passing run `rebuild` and the theorems establish.

More behaviours the models show that are not runs of their own:

- `beginGeneration` refuses only the generation that is active now. When the initial
  generation, or a retired one, is rebuilt under its old name, a worker that picked
  that name before the cut-over writes a late row into the candidate. The row survives
  the reset, and publication brings back what had been removed, without any stall: with
  `Fault = {"reuse"}`, `TargetOf <- LiveTarget` and no symmetry in
  `MCProjectionRebuild.cfg` TLC refutes `ActiveCovers`. `docs/workflows.md:217` says
  that "The generation id is an immutable recovery identity"; nothing keeps a caller to
  it;
- retirement compares the active generation once and then deletes in several commands.
  A generation that is rebuilt meanwhile and published in between loses rows, high
  water and manifest while it is active: with `Fault = {"overlap"}` TLC refutes
  `RetiresInactive`;
- a duplicate of a completed command gets an error when another command has deleted
  the row, although its result is recorded (`ReplayFails`;
  `docs/native-models-and-live-queries.md:100` says that "Duplicate delivery returns
  the recorded result");
- a publish error whose message was stored makes the gateway release the pin of a
  command in flight: with `Fault = {"ackLost"}` in `CommandDeliveryLive.cfg` TLC
  refutes `ReferencesCoverCommands`;
- a processor that stops in the last delivery leaves a command without a result for
  ever: with `Fault = {"lastHandler"}` TLC refutes `EventuallySettled`;
- a pin whose admission was never written (the gateway stops in between) is
  removed by no job: with `Fault = {"gateway"}` TLC refutes `PinDischarged`;
- a command authorized between the read of the references and the put of the catalog
  is accepted and, once its revision is retired, denied (section 2.3);
- a failed read after the wait ends a run whose signal is decided, and nothing
  resumes it (`RunFails`);
- a snapshot taken right after retention has removed the newest rows has a watermark
  below the floor, and the rebuilt projection is behind retention at its first read;
  a manifest that falls behind the floor makes every retry of its generation fail;
- a crashed rebuild leaves the key that names its generation, which has no expiry:
  no other generation can be rebuilt until that one is retried or retired;
- `reset` of the Valkey store always throws, because it resets the active generation
  and `resetGeneration` refuses that;
- with two or more replicas of a batch processor a runner with a stale checkpoint
  freezes events that another one has completed, under another batch identity, so
  that the handler sees them under a second idempotency key
  (`docs/rfp-v07-function-native-execution.md:1910-1912`: "Every retry observes the
  same manifest"). `OneManifest` is stated for one replica;
- a dead letter that fails beside others of its batch leaves events that are both
  dead-lettered and, later, handled;
- an action under access mode `authorize` may win after `expires_at`, until a relay
  has expired the signal; under `grantAccessTo` the grant ends with it;
- a finalizer that keeps throwing for one signal rolls back every batch of due signals
  it is in, and a fact that cannot be published holds back those behind it;
- a deployment whose heartbeat found its lease lost goes on to the end of its operation;
- a deployment that dies between creating its lease file and writing it leaves an
  empty file that every later acquisition fails to parse; a heartbeat in flight at
  the release puts the file back.

## 4. Proofs

All theorems hold for arbitrary finite or infinite sets of workers, commands,
rows, consumers and so on, and for all values of the bounds, under the named
assumptions of the modules. These say that constants have their types, that special
values differ and that limits are positive. TLC evaluates the same assumptions in the
runs.

Five theorems have a hypothesis more, and it is about how the system is operated,
not something the code enforces:

| Theorem | Hypothesis | What shows that it is needed |
|---|---|---|
| `ReferencesCoverHolds` | `"ackLost" \notin Fault`: the broker's acknowledgements arrive | `delivery_live` with this fault |
| `ActiveHasEvidenceHolds`, `RetiresInactiveHolds` | `ImmutableNames`: no `reuse`, no `overlap` | `rebuild` with `overlap` |
| `ActiveCoversHolds`, `RebuildImplementsOnline` | `ImmutableNames` and `"stall" \notin Fault` | `rebuild_stalled`; `rebuild` with `reuse` or `overlap` (Findings) |

### PublicStreamProofs

`TypeCorrect`, `NoSkippedEventHolds`, `GapIsRealHolds`, for contracts of events and of
signals alike.
`NoSkippedEvent` is not inductive: that a page leaves nothing out says nothing of
rows that are still invisible. The invariant `IInv` adds

- `PendingAboveCommitted`: the rows of an open transaction are above everything
  committed, and no other transaction has rows. This is what the commit lock is for,
  and what the authority lock does for signals;
- `SharedRead`: while a read shares the lock nobody holds it, and its floor is
  current;
- `FloorCovers` and `FloorIsRemoved`: floors cover what was removed, and nothing
  else raises them;
- `PageComplete`, `CursorCommitted`, `Numbered`: pages have no holes, cursors are
  numbers of committed rows, numbers come from the counter.

`CursorCommitted` matters for a rebuild, whose watermark comes from the table.

### CommandKernelProofs

`TypeCorrect`, `StableAnswerHolds`, `RevisionGuardHolds`, from three invariants.

- `TInv` = `TypeOK`, `FiniteRecords`, `Attempt`. A step's types depend on how far
  the transaction is: a busy worker has a submitted command, its key is the target
  or the route, what it recorded is finite.
- `SInv` adds `Locks` (no lock has two holders; scope and context locks are kept
  to the end) and `Unsettled` (past the inbox check the command has no result).
  `Unsettled` is what a second delivery or a terminal failure would break, and the
  scope lock is why they cannot.
- `GInv` adds `Guarded` (what passed the revision check is what was read, and is
  what the change records as replaced) and `ChangesSubmitted`.

### CommandKernelRefinement

`KernelImplementsLedger`: `Spec => ImplementsLedger`. The mapping is the identity on
the four tables, and only two steps write them: a `COMMIT` enters a command with its
changes or refuses it, `TerminalFailure` refuses it. The difficulty is that a commit
must be a legal entry of the ledger as it is at that moment, while everything in it
was read and computed earlier. `LInv` says so for every open transaction at every
step (`Sound`):

- `WrittenLocked`: what a transaction has written it has locked, so no two
  transactions write one row;
- `TargetVersion`: from the step at which the target is locked, which differs for
  serial, initializing and concurrent commands, its committed version is the one that
  was read;
- `ParticipantVersion`, `Records`: every written row has one record, of the row as it
  is committed and as the transaction leaves it, at one of the positions after the
  frontier, whose lock the transaction has from its first record on;
- `OutcomeFaithful`: the result reports a recorded change, or nothing was recorded.

A commit keeps the other transactions sound because whatever they rely on is locked by
them. `FeedEnds` (no change beyond the frontier) makes the new positions new.

### CommandDeliveryProofs

`TypeCorrect`, `ReceiptAgreesHolds`, `ReferencesCoverHolds`. `IInv` ties handlers to
messages, results and messages to admissions, and the publishing request to the
admitted receipt. `PInv` adds that a request that releases its pin has published
nothing, that a handler releases after the result, and `Pinned`: the pin is there
from the authorization until the result. A read that finds no pin therefore finds no
command in flight, although pruning, reading and putting are separate steps.

### StreamProcessorProofs

`TypeCorrect`, `NeverSkips`, `InPartitionOrder`, `NeverBack`, for any number of
runners, replicas and faults. `NothingSkipped` and `PartitionOrder` are proved
together, because each needs the other: a runner starts behind a settled prefix of
the stream, and may hand out an event of a partition because what precedes it is
settled. `IInv` adds

- `RunnerInv`: everything before a runner's position, page or group is settled
  (`Prefix`), what it has taken off its work list is settled unless a lane failed, and
  the rest of a partition stays on the list while an event of it does;
- `GroupInv`: everything before the frozen group is settled, and so is every event of
  a partition that is marked in it. A runner that marks or completes a group it did
  not freeze relies on this, and it is kept because the group id determines its
  events.

`NeverBack` needs only the types.

`BatchesAreFrozen` is `OneManifest`. It needs to know more than the tables keep: which
groups have ever been frozen. `MInv` says that there is a set `F` of groups (`Frozen`)
such that they do not overlap, all but the stored one lie at or below the checkpoint,
the stored one begins above it, and every batch that was handed out is all of one
partition in one of them. A runner (`RunnerFrozen`) works on a group of `F`, orphaned
lanes on an old one, and takes the events of a partition off its list together. That a
new group begins behind all of `F` is where the single replica is needed: one runner
at most is awaited, so nobody moves the checkpoint between its `Start` and its
`Insert`.

### SignalStoreProofs

`TypeCorrect`, `StoreAgrees`, `CallersAgree`, `RunsAgree`, `NothingLost` and
`NeverRevised`, for any number of signals, callers and relays. `IInv` joins the five
invariants and adds

- `LockInv`: a request that has passed its checks holds the row lock, and the signal
  is still pending; an issuance holds the row that does not exist yet. Without it a
  commit could overwrite a decision made since the check;
- `EventInv`: events and woken runs belong to decided signals, and what a relay
  counts as sent has reached the workflow engine.

The lemma `Writers` says that only the three commits write the rows of the store;
every other step leaves the decision alone, which is most of `NeverRevised`.

### ProjectionRebuildProofs

`TypeCorrect`, `ActiveHasEvidenceHolds` and `RetiresInactiveHolds`, for any attempts,
workers, generations, members, events and bounds. The types hold whatever faults
happen. The other two need `ImmutableNames`, and hold with stalled attempts: a stalled attempt can spoil rows,
but neither the manifest, which is written once, nor the high water, which only the
owner of the lease resets; a retirement can, so names must keep it
away. The only finiteness assumed is that of the set of members, without which a snapshot could not be written.

- `TInv` adds to the types what each step of an attempt or worker takes for granted
  (`AttemptOK`, `WorkerOK`): a running attempt has captured a state, a write in hand is
  the head of a list that is not empty, a worker past its read has an event to write.
- `EInv` adds `NamesSpent` (no attempt runs under a name the operator is done with, so
  a retirement has its generation and the keys that name it to itself),
  `EvidenceStored` (from the manifest on, what the attempt takes for its evidence is
  what is stored) and `EvidenceReached`: the generation of the attempt that has the
  lease has reached the watermark of its evidence, or the last write on its list will
  take it there.

The data lemmas at the top say what `LastChange`, `Shown`, `EventWrites` and
`SnapshotWrites` return; they replace induction over the stream by the greatest
element of a finite set.

### ProjectionRebuildRefinement

`RebuildImplementsOnline` and `ActiveCoversHolds`, for immutable names and without
stalls; errors, crashes of attempts, workers and retirements, and retention are allowed.
A commit of the stream maps to `Online!Commit`, every other step to `Online!Refresh` or
to a stutter. `OInv` adds to `EInv`

- `Exclusive`: an attempt between `Begin` and its publication has the lease, and its
  generation is not active. This is what a stall or an overlapping retirement breaks;
- `History(P)`: the generations that have been active form a chain of predecessors, so
  a generation becomes active once, and a worker that still writes to an old one cannot
  write to a candidate. This is what a reused name breaks;
- `Sane`: evidence reflects the events up to its watermark, or is a snapshot whose
  events retention had already removed;
- `Faithful(r, v, b, n)`: each member shows its state at its version, or at the base of
  the snapshot, and no event up to `n` is missed. `ActiveFaithful` says it of the active
  generation at its high water, which is not below the checkpoint, `WorkerFaithful` of
  an event a worker has written and not yet counted;
- `Candidate`: the generation in the making, from the reset rows through a snapshot
  half written (`SnapshotProgress`) or a replay (`ReplayProgress`) to the publication.
  It is claimed only while the evidence still names the active generation as its
  predecessor (`Fresh`), because publication is refused otherwise.

### Only model-checked

The liveness properties `EventuallyApplied`, `ExpiredRowsLeave`, `TransactionsEnd`,
`EventuallySettled`, `PinDischarged` and `RunsDecide`: fairness and ENABLED are beyond
the prover. Every invariant, action property and refinement that a passing run checks
is also a theorem. `OneWriter` of `DeploymentLease` is violated, so there is nothing to
prove. No module uses a RECURSIVE operator, and nothing needs induction over data.

## 5. What is not modelled

- In the kernel: create, delete, get and query of participants, nested atomic
  operations, function-native transactions, model edits, progress rows, outbox
  rows, encodings. Events are in `PublicStream`.
- In the delivery: unprotected commands (no pin, same path), result and progress
  routes, internal invocation, grants, approvals and budgets.
- In the streams: payloads, encoding of cursors, transport frames, heartbeats.
- In the processors: the byte limit of a batch (the limit on items is kept), single
  retries of a handler, timeouts.
- In the signals: inputs and actors, selectors, the in-memory store, and `expire` for
  a single signal, which nothing in the runtime calls.
- In the projections: scores, partitions and the item and age limits of a partition,
  reader pages, the ClickHouse store, artifact digests, two retirements at once.
- Components listed as `not_modelled` in `PROJECT.json`; search, the compiler and
  provider adapters stay out (pure queries, pure generation, I/O).

The repository has about 188,000 lines in 641 files, most of them the compiler, type
declarations, provider adapters, generated bundles and schemas. The models cover the
durable runtime, where state is shared between processes; measured over all lines of
the repository that is a small share, and no model of the rest would raise it without
restating code that has no concurrency and no state.

## 6. Plan

In this order; each entry names what it would show.

1. Proofs: what `DeploymentLease` does guarantee, a condition under which two
   deployments exclude each other.
2. `NestedOperation`: `invokeAtomic`, function-native transactions and model edits
   in the kernel, with PostgreSQL's savepoint stack (nested savepoints share a
   name); a swallowed error of a nested operation.
3. `OutboxRelay`: at-least-once publication, no row marked that was not stored,
   the head of the queue; composed with `CommandKernel`'s commit. `CommandDelivery`
   has it as one step.
4. `OperationAuthority`: grants, budgets, receipts and their revocation.
5. `ClientStore`: optimistic commands and late answers.
6. Operator host: reconcile and leadership.
