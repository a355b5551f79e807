---------------------------- MODULE PublicStream ----------------------------
(***************************************************************************)
(* One public stream contract of the PostgreSQL outbox authority           *)
(* (packages/applik8s/src/stream-runtime-postgres.ts and                   *)
(* application-stream-commit.ts), its writers and its consumers.           *)
(*                                                                         *)
(* applik8s_public_stream_events.sequence is an IDENTITY column: a number  *)
(* is taken when the row is inserted, long before the row is visible, and  *)
(* is lost when the transaction rolls back.  Consumers nevertheless use    *)
(* "the last sequence I read" as their durable cursor.  What makes that    *)
(* sound is an advisory lock per contract, exclusive for the command       *)
(* kernel and for retention, shared for readers.                           *)
(*                                                                         *)
(* Signal issuance (signal-runtime.ts) appends to the same table without   *)
(* that lock.  Issuances exclude each other by the authority lock of the   *)
(* application; they are the transactions in Signal.                       *)
(***************************************************************************)
EXTENDS Naturals, FiniteSets

CONSTANTS
    Producer,      \* transactions of the command kernel that emit events
    Signal,        \* transactions that issue signals
    Projection,    \* checkpointed consumers (projection workers, rebuilds)
    Subscription,  \* cursor-holding clients of the subscription gateway
    Context,       \* digests of admitted contexts
    NoContext,     \* a row whose context_digest is NULL
    EventDigest,   \* the digests that emitting commands carry
    Global,        \* the '' key of the retention-floor table
    None,          \* nobody holds the commit lock exclusively
    FilterOf,      \* the floor key each consumer reads by
    MaxSequence,   \* bound on the identity counter
    MaxTime,       \* bound on the clock
    MaxAge,        \* stream.retention.maxAgeSeconds
    MaxMessages,   \* stream.retention.maxMessages
    BatchSize,     \* retention batch size
    PageLimit      \* page size of a consumer

Txn == Producer \cup Signal
Consumer == Projection \cup Subscription
FloorKey == Context \cup {Global}

ASSUME ConsumerAssumption ==
    /\ Projection \cap Subscription = {}
    /\ Producer \cap Signal = {}
    /\ None \notin Txn
    /\ Global \notin Context
    /\ NoContext \notin FloorKey
    /\ EventDigest \subseteq Context \cup {NoContext}
    /\ FilterOf \in [Consumer -> FloorKey]
    /\ \A r \in Projection : FilterOf[r] = Global

ASSUME BoundAssumption ==
    /\ MaxSequence \in Nat
    /\ MaxTime \in Nat
    /\ MaxAge \in Nat
    /\ MaxMessages \in Nat
    /\ BatchSize \in Nat \ {0}
    /\ PageLimit \in Nat \ {0}

Row == [sequence : Nat, digest : Context \cup {NoContext}, recordedAt : Nat]

VARIABLES
    contract,      \* what the contract declares: an event of commands or a
                   \* signal; the declaration never changes
    nextSequence,  \* the identity counter, never rolled back
    holder,        \* exclusive holder of the contract's commit lock
    sharing,       \* consumers that hold it shared, inside read()
    pending,       \* rows inserted by an open transaction
    events,        \* rows visible in applik8s_public_stream_events
    floors,        \* applik8s_public_stream_retention_floors.deleted_through
    now,           \* the database clock
    cursor,        \* a consumer's durable position
    floorRead,     \* the retention floor the open read() returned
    page,          \* sequences of the page a consumer has in hand
    gap,           \* the consumer was told that it is behind retention
    committed,     \* history: every row that was ever visible
    seen,          \* history: sequences a consumer has applied
    start          \* history: floor at which a fresh subscription began

stored == <<contract, nextSequence, holder, pending, events, floors, now,
            committed>>
reading == <<sharing, cursor, floorRead, page, gap, seen, start>>
vars == <<contract, nextSequence, holder, pending, events, floors, now,
          committed, sharing, cursor, floorRead, page, gap, seen, start>>

Init ==
    /\ contract \in {"event", "signal"}
    /\ nextSequence = 1
    /\ holder = None
    /\ sharing = {}
    /\ pending = [x \in Txn |-> {}]
    /\ events = {}
    /\ floors = [f \in FloorKey |-> 0]
    /\ now = 0
    /\ cursor = [r \in Consumer |-> 0]
    /\ floorRead = [r \in Consumer |-> 0]
    /\ page = [r \in Consumer |-> {}]
    /\ gap = [r \in Consumer |-> FALSE]
    /\ committed = {}
    /\ seen = [r \in Consumer |-> {}]
    /\ start = [r \in Consumer |-> 0]

-----------------------------------------------------------------------------
(* Writers *)

\* The kernel takes the contract's lock exclusively before its first INSERT
\* into the stream and keeps it until the transaction ends.
LockCommitScope(p) ==
    /\ contract = "event"
    /\ holder = None
    /\ sharing = {}
    /\ holder' = p
    /\ UNCHANGED <<contract, nextSequence, pending, events, floors, now,
                   committed, reading>>

\* recorded_at is the time the command was admitted, not the time of the
\* INSERT, so it need not grow with the sequence.
InsertRow(x, digest, recordedAt) ==
    /\ nextSequence <= MaxSequence
    /\ pending' = [pending EXCEPT ![x] = @ \cup
            {[sequence |-> nextSequence, digest |-> digest,
              recordedAt |-> recordedAt]}]
    /\ nextSequence' = nextSequence + 1
    /\ UNCHANGED <<contract, holder, events, floors, now, committed, reading>>

\* Mutant of EmitEvent: the INSERT without the commit lock.
EmitEventWithoutLock(p) ==
    /\ contract = "event"
    /\ \E digest \in EventDigest, at \in 0..now : InsertRow(p, digest, at)

EmitEvent(p) ==
    /\ holder = p
    /\ \E digest \in EventDigest, at \in 0..now :
            InsertRow(p, digest, at)

\* insertPostgresSignalIssuanceEvent: the same table, no commit lock.  The
\* issuer was authorized in this transaction before, under the catalog and
\* authority locks of the application, which it keeps until it ends.  The
\* digest is the signal's own and never NULL; recorded_at is issuedAt, taken
\* before the transaction.
IssueSignal(s) ==
    /\ contract = "signal"
    /\ \A t \in Signal : pending[t] = {}
    /\ \E digest \in Context, at \in 0..now : InsertRow(s, digest, at)

Released(x) == IF holder = x THEN None ELSE holder

Commit(x) ==
    /\ pending[x] # {}
    /\ events' = events \cup pending[x]
    /\ committed' = committed \cup pending[x]
    /\ pending' = [pending EXCEPT ![x] = {}]
    /\ holder' = Released(x)
    /\ UNCHANGED <<contract, nextSequence, floors, now, reading>>

\* A rollback or a lost connection: the rows vanish, their numbers do not
\* come back.
Abort(x) ==
    /\ holder = x \/ pending[x] # {}
    /\ pending' = [pending EXCEPT ![x] = {}]
    /\ holder' = Released(x)
    /\ UNCHANGED <<contract, nextSequence, events, floors, now, committed,
                   reading>>

Tick ==
    /\ now < MaxTime
    /\ now' = now + 1
    /\ UNCHANGED <<contract, nextSequence, holder, pending, events, floors,
                   committed, reading>>

-----------------------------------------------------------------------------
(* Retention *)

Matches(row, key) == key = Global \/ row.digest = key

RetainedRank(row) ==
    Cardinality({e \in events : e.sequence >= row.sequence})

\* Mutant of Expired: rows leave one second late, never when the clock stops.
ExpiredOffByOne == {e \in events : \/ e.recordedAt + MaxAge + 1 < now
                                   \/ RetainedRank(e) > MaxMessages}

Expired == {e \in events : \/ e.recordedAt + MaxAge < now
                           \/ RetainedRank(e) > MaxMessages}

\* The oldest rows by recorded_at, at most one batch of them.
RetentionBatch(D) ==
    /\ D # {}
    /\ \/ D = Expired /\ Cardinality(D) <= BatchSize
       \/ Cardinality(D) = BatchSize
    /\ \A d \in D, e \in Expired \ D : d.recordedAt <= e.recordedAt

\* Mutant of RaisedTo: context floors that forget GROUP BY context_digest.
RaisedToByAnyRow(floor, key, D) ==
    LET candidates == {floors[key]} \cup {d.sequence : d \in D}
    IN  /\ floor \in candidates
        /\ \A c \in candidates : floor >= c

\* deleted_through = greatest(old floor, max(sequence) of the deleted rows of
\* that key): the upper bound of those numbers that is one of them.
RaisedTo(floor, key, D) ==
    LET candidates == {floors[key]} \cup
                      {d.sequence : d \in {e \in D : Matches(e, key)}}
    IN  /\ floor \in candidates
        /\ \A c \in candidates : floor >= c

\* enforcePostgresApplicationStreamRetention, one transaction under the
\* exclusive lock.  The floor table declares context_digest NOT NULL: a batch
\* that holds an unscoped row fails and changes nothing.
EnforceRetention ==
    /\ holder = None
    /\ sharing = {}
    /\ \E D \in SUBSET Expired :
        /\ RetentionBatch(D)
        /\ \A d \in D : d.digest # NoContext
        /\ events' = events \ D
        /\ \E raised \in [FloorKey -> 0..MaxSequence] :
            /\ \A f \in FloorKey : RaisedTo(raised[f], f, D)
            /\ floors' = raised
    /\ UNCHANGED <<contract, nextSequence, holder, pending, now, committed,
                   reading>>

-----------------------------------------------------------------------------
(* Consumers *)

\* read(afterSequence, limit) opens a transaction, takes the contract's lock
\* shared and selects the retention floor.
BeginRead(r) ==
    /\ holder = None
    /\ ~gap[r]
    /\ page[r] = {}
    /\ r \notin sharing
    /\ sharing' = sharing \cup {r}
    /\ floorRead' = [floorRead EXCEPT ![r] = floors[FilterOf[r]]]
    /\ UNCHANGED <<stored, cursor, page, gap, seen, start>>

\* Mutant of Available: off by one after the cursor.
AvailableOffByOne(r) ==
    {e \in events : Matches(e, FilterOf[r]) /\ e.sequence > cursor[r] + 1}

Available(r) ==
    {e \in events : Matches(e, FilterOf[r]) /\ e.sequence > cursor[r]}

\* A projection compares its checkpoint with the floor always, the
\* subscription gateway only once the cursor has left 0.
BehindRetention(r) ==
    /\ floorRead[r] > cursor[r]
    /\ r \in Projection \/ cursor[r] > 0

\* The second SELECT of read(): the rows after the cursor in sequence order,
\* at most PageLimit of them (limit is the caller's, so a shorter prefix is a
\* page as well).  The transaction ends and the consumer accepts the page.
ReadPage(r) ==
    /\ r \in sharing
    /\ ~BehindRetention(r)
    /\ \E last \in Available(r) :
        LET items == {e \in Available(r) : e.sequence <= last.sequence}
        IN  /\ Cardinality(items) <= PageLimit
            /\ page' = [page EXCEPT ![r] = {e.sequence : e \in items}]
    /\ start' = [start EXCEPT ![r] =
                    IF cursor[r] = 0 THEN floorRead[r] ELSE @]
    /\ sharing' = sharing \ {r}
    /\ UNCHANGED <<stored, cursor, floorRead, gap, seen>>

\* read() with nothing after the cursor leaves it where it is.
ReadEmptyPage(r) ==
    /\ r \in sharing
    /\ ~BehindRetention(r)
    /\ Available(r) = {}
    /\ sharing' = sharing \ {r}
    /\ UNCHANGED <<stored, cursor, floorRead, page, gap, seen, start>>

\* The page is discarded: ApplicationProjectionRetentionGapError, or the
\* gateway's 'reset' frame.
ReportGap(r) ==
    /\ r \in sharing
    /\ BehindRetention(r)
    /\ gap' = [gap EXCEPT ![r] = TRUE]
    /\ sharing' = sharing \ {r}
    /\ UNCHANGED <<stored, cursor, floorRead, page, seen, start>>

\* store.write(events), which precedes the checkpoint.
ApplyPage(r) ==
    /\ ~(page[r] \subseteq seen[r])
    /\ seen' = [seen EXCEPT ![r] = @ \cup page[r]]
    /\ UNCHANGED <<stored, sharing, cursor, floorRead, page, gap, start>>

\* store.advance(page.nextSequence), the last sequence of the page.
AdvanceCursor(r) ==
    /\ page[r] # {}
    /\ page[r] \subseteq seen[r]
    /\ \E last \in page[r] :
        /\ \A s \in page[r] : s <= last
        /\ cursor' = [cursor EXCEPT ![r] = last]
    /\ page' = [page EXCEPT ![r] = {}]
    /\ UNCHANGED <<stored, sharing, floorRead, gap, seen, start>>

\* The consumer dies inside read() or with a page in hand, before or after
\* applying it, and resumes from its durable cursor.
CrashConsumer(r) ==
    /\ r \in sharing \/ page[r] # {}
    /\ sharing' = sharing \ {r}
    /\ page' = [page EXCEPT ![r] = {}]
    /\ UNCHANGED <<stored, cursor, floorRead, gap, seen, start>>

\* A client that received 'reset' opens a fresh subscription.
Resubscribe(r) ==
    /\ gap[r]
    /\ gap' = [gap EXCEPT ![r] = FALSE]
    /\ cursor' = [cursor EXCEPT ![r] = 0]
    /\ seen' = [seen EXCEPT ![r] = {}]
    /\ start' = [start EXCEPT ![r] = 0]
    /\ UNCHANGED <<stored, sharing, floorRead, page>>

Watermark(w) ==
    /\ w \in {0} \cup {e.sequence : e \in events}
    /\ \A e \in events : e.sequence <= w

\* Mutant of RebuildFromSnapshot: max(sequence) without coalesce is NULL on an
\* empty stream.
RebuildWithoutCoalesce(r) ==
    /\ page[r] = {}
    /\ r \notin sharing
    /\ cursor' = [cursor EXCEPT ![r] =
            IF events = {} THEN None
            ELSE CHOOSE w \in 0..MaxSequence : Watermark(w)]
    /\ seen' = [seen EXCEPT ![r] = {e.sequence : e \in committed}]
    /\ gap' = [gap EXCEPT ![r] = FALSE]
    /\ UNCHANGED <<stored, sharing, floorRead, page, start>>

\* The rebuild's repeatable-read snapshot: max(sequence) of the retained rows
\* together with the model rows, which reflect every committed transaction.
\* It takes no lock.
RebuildFromSnapshot(r) ==
    /\ page[r] = {}
    /\ r \notin sharing
    /\ \E w \in 0..MaxSequence :
        /\ Watermark(w)
        /\ cursor' = [cursor EXCEPT ![r] = w]
    /\ seen' = [seen EXCEPT ![r] = {e.sequence : e \in committed}]
    /\ gap' = [gap EXCEPT ![r] = FALSE]
    /\ UNCHANGED <<stored, sharing, floorRead, page, start>>

-----------------------------------------------------------------------------
Write ==
    \/ \E p \in Producer : LockCommitScope(p) \/ EmitEvent(p)
    \/ \E s \in Signal : IssueSignal(s)
    \/ \E x \in Txn : Commit(x) \/ Abort(x)

Read(r) ==
    \/ BeginRead(r)
    \/ ReadPage(r)
    \/ ReadEmptyPage(r)
    \/ ReportGap(r)
    \/ ApplyPage(r)
    \/ AdvanceCursor(r)

Next ==
    \/ Write
    \/ Tick
    \/ EnforceRetention
    \/ \E r \in Consumer : Read(r) \/ CrashConsumer(r)
    \/ \E r \in Subscription : Resubscribe(r)
    \/ \E r \in Projection : RebuildFromSnapshot(r)

Spec == Init /\ [][Next]_vars

\* An open transaction ends; the retention loop and every consumer's poll loop
\* keep running.  Lock requests queue in arrival order, so a consumer or the
\* retention worker that keeps asking is not passed over for ever, and a
\* consumer does not crash in front of the same page for ever: both are strong
\* fairness.
Fairness ==
    /\ \A x \in Txn : WF_vars(Commit(x) \/ Abort(x))
    /\ SF_vars(EnforceRetention)
    /\ \A r \in Consumer :
        /\ SF_vars(BeginRead(r))
        /\ SF_vars(ReadPage(r))
        /\ SF_vars(ReadEmptyPage(r) \/ ReportGap(r))
        /\ SF_vars(ApplyPage(r))
        /\ SF_vars(AdvanceCursor(r))

FairSpec == Spec /\ Fairness

-----------------------------------------------------------------------------
(* Properties *)

\* Every variable ranges over the values the tables and cursors can hold.
TypeOK ==
    /\ contract \in {"event", "signal"}
    /\ nextSequence \in Nat \ {0}
    /\ holder \in Producer \cup {None}
    /\ sharing \in SUBSET Consumer
    /\ pending \in [Txn -> SUBSET Row]
    /\ events \in SUBSET Row
    /\ floors \in [FloorKey -> Nat]
    /\ now \in Nat
    /\ cursor \in [Consumer -> Nat]
    /\ floorRead \in [Consumer -> Nat]
    /\ page \in [Consumer -> SUBSET Nat]
    /\ gap \in [Consumer -> BOOLEAN]
    /\ committed \in SUBSET Row
    /\ seen \in [Consumer -> SUBSET Nat]
    /\ start \in [Consumer -> Nat]

\* application-stream-commit.ts: sequences are allocated before commit, yet a
\* consumer that has advanced its cursor has applied every committed event up
\* to it that it may see, trimmed or not, since it began.  In particular no
\* lower sequence commits behind a cursor, a snapshot watermark or a resumed
\* consumer.
NoSkippedEvent ==
    \A r \in Consumer : \A e \in committed :
        (/\ Matches(e, FilterOf[r])
         /\ e.sequence <= cursor[r]
         /\ e.sequence > start[r]) => e.sequence \in seen[r]

\* A consumer is told of a retention gap only when retention really deleted an
\* event it could see and had not reached.
GapIsReal ==
    \A r \in Consumer : gap[r] =>
        \E e \in committed \ events :
            Matches(e, FilterOf[r]) /\ e.sequence > cursor[r]

\* A committed event that a projection may see is applied by it, unless
\* retention trims it first or the projection is told that it fell behind.
EventuallyApplied ==
    \A r \in Projection : \A s \in 1..MaxSequence :
        (\E e \in events : e.sequence = s)
            ~> \/ s \in seen[r]
               \/ gap[r]
               \/ ~\E e \in events : e.sequence = s

\* stream-runtime-postgres.ts: retention "Enforces a public stream's
\* independently declared history bounds".  A row past maxAge does not stay for
\* ever, whatever the readers hold, the size of the batches and the order of
\* recorded_at.  It holds where every row has a context; one row without
\* context refutes it.
ExpiredRowsLeave ==
    \A s \in 1..MaxSequence :
        (\E e \in events : e.sequence = s /\ e.recordedAt + MaxAge < now)
            ~> ~\E e \in events : e.sequence = s

=============================================================================
