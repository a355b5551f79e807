--------------------------- MODULE StreamProcessor ---------------------------
(***************************************************************************)
(* The stream processor runtime (stream-processor-runtime.ts): the         *)
(* per-event processor, the batch processor with its durable frozen group, *)
(* and the PostgreSQL store both keep their checkpoint in.                 *)
(*                                                                         *)
(* A runner is one invocation of runApplicationStreamProcessor or          *)
(* runApplicationStreamBatchProcessor.  Invocations overlap: a processor   *)
(* may be deployed with several replicas, and when an invocation throws    *)
(* out of Promise.all its remaining lanes go on in the background (pc      *)
(* "orphan") while the worker loop calls the processor again.              *)
(*                                                                         *)
(* An event is its position in the stream; log gives the partition of      *)
(* each.  MaxItems stands for the tighter of maxItems and maxBytes, and    *)
(* the attempts of a handler for their final outcome.                      *)
(***************************************************************************)
EXTENDS Integers, FiniteSets, Sequences

CONSTANTS
    Runner,         \* overlapping invocations of one processor
    Partition,      \* partition keys
    None,           \* no frozen group
    MaxSequence,    \* bound: events appended to the stream
    MaxItems,       \* events of one frozen batch
    Concurrency,    \* lanes of concurrentMap
    PageLimit,      \* batchSize of the per-event processor
    MaxBatches,     \* rounds of one invocation
    MaxFaults       \* bound: crashes, store errors and events that
                    \* retention removes

ASSUME ProcessorAssumption ==
    /\ MaxSequence \in Nat
    /\ {MaxItems, Concurrency, PageLimit, MaxBatches} \subseteq Nat \ {0}
    /\ MaxFaults \in Nat
    /\ None \notin [first : Nat, last : Nat, done : SUBSET Partition]

VARIABLES
    mode,           \* "event" or "batch", fixed by the processor's invocation
    replicas,       \* deployment.replicas: one, or more than one
    failure,        \* "pause" or "deadLetter", its failure policy
    log,            \* the partition of every event appended so far
    floor,          \* the stream's retention floor
    checkpoint,     \* applik8s_stream_processor_checkpoints
    group,          \* applik8s_stream_processor_batch_groups, or None
    dead,           \* events in applik8s_stream_processor_dead_letters
    handled,        \* history: the sets of events handed to a handler that
                    \* succeeded, one set per idempotency key
    run,            \* the local state of every runner
    faults          \* how many of them have happened

tables == <<checkpoint, group, dead, handled>>
stream == <<log, floor>>
config == <<mode, replicas, failure>>
vars == <<config, stream, tables, run, faults>>

Smaller(a, b) == IF a <= b THEN a ELSE b

Greatest(a, b) == IF a >= b THEN a ELSE b

\* The events of a partition between two positions.
InPartition(p, first, last) == {e \in first..last : log[e] = p}

\* The partitions that occur between two positions.
PartitionsOf(first, last) == {log[e] : e \in first..last}

\* A runner that is not running.
Stopped == [pc |-> "idle", at |-> 0, round |-> 0, first |-> 0, last |-> 0,
            exhausted |-> FALSE, left |-> {}, marking |-> {},
            failed |-> FALSE, lanes |-> 0]

Init ==
    /\ mode \in {"event", "batch"}
    /\ replicas \in {1, 2}
    /\ failure \in {"pause", "deadLetter"}
    /\ log = <<>>
    /\ floor = 0
    /\ checkpoint = 0
    /\ group = None
    /\ dead = {}
    /\ handled = {}
    /\ run = [r \in Runner |-> Stopped]
    /\ faults = 0

-----------------------------------------------------------------------------
(* The stream: producers append, retention raises the floor.               *)

Produce(p) ==
    /\ Len(log) < MaxSequence
    /\ log' = Append(log, p)
    /\ UNCHANGED <<config, floor, tables, run, faults>>

Trim ==
    /\ floor < Len(log)
    /\ faults < MaxFaults
    /\ floor' = floor + 1
    /\ faults' = faults + 1
    /\ UNCHANGED <<config, log, tables, run>>

-----------------------------------------------------------------------------
(* An invocation: where it reads from, and the page or group it takes.     *)

Set(r, s) == run' = [run EXCEPT ![r] = s]

\* A worker loop awaits its invocation, but not the lanes that survive it.
MayStart(r) ==
    /\ run[r].pc = "idle"
    /\ replicas = 1 => \A s \in Runner : run[s].pc \in {"idle", "orphan"}

\* store.prepare() and store.checkpoint().  The batch processor looks for a
\* pending group first, the per-event processor reads.
Start(r) ==
    /\ MayStart(r)
    /\ Set(r, [Stopped EXCEPT !.pc = IF mode = "batch" THEN "look" ELSE "read",
                              !.at = checkpoint])
    /\ UNCHANGED <<config, stream, tables, faults>>

\* concurrentMap is called on the given work, with all its lanes.
Working(s, first, last, left) ==
    [s EXCEPT !.pc = "work", !.first = first, !.last = last, !.left = left,
              !.lanes = Concurrency]

\* The batches of a group that are not in completed_batch_ids.
Pending(g) == {e \in g.first..g.last : log[e] \notin g.done}

\* store.pendingBatchGroup(): a group that is there is resumed.
Look(r) ==
    /\ run[r].pc = "look"
    /\ Set(r, IF group = None THEN [run[r] EXCEPT !.pc = "read"]
              ELSE Working(run[r], group.first, group.last, Pending(group)))
    /\ UNCHANGED <<config, stream, tables, faults>>

\* The last event of a page of source.read(cursor, limit).
PageEnd(cursor, limit) == Smaller(cursor + limit, Len(log))

\* partitionOrderedBatches: the page is cut before the first event that
\* opens one partition too many or overfills the batch of its partition.
Fits(cursor, e) ==
    \A d \in cursor + 1..e :
        /\ Cardinality(PartitionsOf(cursor + 1, d)) <= Concurrency
        /\ Cardinality(InPartition(log[d], cursor + 1, d)) <= MaxItems

GroupEndsAt(cursor, last) ==
    /\ Fits(cursor, last)
    /\ last < PageEnd(cursor, MaxItems * Concurrency) => ~Fits(cursor, last + 1)

\* Mutant of Readable: the retention floor is not compared.
ReadableAnyway(r) == floor >= 0

\* The page does not start behind the retention floor.
Readable(r) == floor <= run[r].at

\* The rows that source.read() finds lie behind this position.
Cursor(r) == Greatest(run[r].at, floor)

\* source.read() of the per-event processor and the start of
\* processPartitionedEnvelopes.  An empty page passes through as well.
ReadEvents(r) ==
    /\ mode = "event" /\ run[r].pc = "read" /\ Readable(r)
    /\ LET first == Cursor(r) + 1
           last == PageEnd(Cursor(r), PageLimit)
       IN  Set(r, [Working(run[r], first, last, first..last)
                    EXCEPT !.exhausted = (last = Len(log))])
    /\ UNCHANGED <<config, stream, tables, faults>>

\* source.read() of the batch processor and freezeStreamBatchGroup.
ReadBatch(r) ==
    /\ mode = "batch" /\ run[r].pc = "read" /\ Readable(r)
    /\ \E last \in Cursor(r) + 1..PageEnd(Cursor(r), MaxItems * Concurrency) :
        /\ GroupEndsAt(Cursor(r), last)
        /\ Set(r, [run[r] EXCEPT !.pc = "freeze",
                        !.first = Cursor(r) + 1, !.last = last,
                        !.exhausted = (last = Len(log))])
    /\ UNCHANGED <<config, stream, tables, faults>>

\* An empty page ends the batch processor's invocation.
ReadNothing(r) ==
    /\ mode = "batch" /\ run[r].pc = "read" /\ Readable(r)
    /\ Cursor(r) = Len(log)
    /\ Set(r, Stopped)
    /\ UNCHANGED <<config, stream, tables, faults>>

\* ApplicationStreamProcessorRetentionGapError.
ReportGap(r) ==
    /\ run[r].pc = "read" /\ ~Readable(r)
    /\ Set(r, Stopped)
    /\ UNCHANGED <<config, stream, tables, faults>>

\* freezeBatchGroup: SELECT ... FOR UPDATE.  An existing group is taken
\* instead of the candidate; with no row there is nothing to lock.
Freeze(r) ==
    /\ run[r].pc = "freeze"
    /\ Set(r, IF group = None THEN [run[r] EXCEPT !.pc = "insert"]
              ELSE Working(run[r], group.first, group.last, Pending(group)))
    /\ UNCHANGED <<config, stream, tables, faults>>

\* freezeBatchGroup: INSERT.  It throws on the primary key when another
\* runner has inserted a group since the SELECT.
Insert(r) ==
    /\ run[r].pc = "insert"
    /\ IF group = None
         THEN /\ group' = [first |-> run[r].first, last |-> run[r].last,
                           done |-> {}]
              /\ Set(r, Working(run[r], run[r].first, run[r].last,
                                run[r].first..run[r].last))
         ELSE group' = group /\ Set(r, Stopped)
    /\ UNCHANGED <<config, stream, checkpoint, dead, handled, faults>>

-----------------------------------------------------------------------------
(* The work: one lane per partition, in the order of first appearance.     *)

\* The events in hand that lie in a partition.
Lane(r, p) == InPartition(p, run[r].first, run[r].last) \cap run[r].left

\* The partitions with work left that come before another one on the page.
Before(r, p) ==
    {q \in {log[d] : d \in run[r].left} :
        \E f \in InPartition(q, run[r].first, run[r].last) :
            \A d \in InPartition(p, run[r].first, run[r].last) : f < d}

\* The event a lane hands out next: the first one left of its partition, and
\* the partition is among the ones the lanes have reached.
HandsOut(r, e) ==
    /\ run[r].pc \in {"work", "orphan"}
    /\ e \in run[r].left /\ log[e] \notin run[r].marking
    /\ \A d \in Lane(r, log[e]) : d >= e
    /\ Cardinality(Before(r, log[e])) < run[r].lanes

\* What one call of the handler covers: an event, or a frozen batch.
Unit(r, e) == IF mode = "event" THEN {e} ELSE Lane(r, log[e])

\* A unit is finished without failure.  A batch is still to be marked.
Finished(r, e) ==
    IF mode = "event" THEN [run[r] EXCEPT !.left = @ \ {e}]
    ELSE [run[r] EXCEPT !.marking = @ \cup {log[e]}]

\* processEnvelope or processFrozenBatch: the handler succeeds.
Handle(r, e) ==
    /\ HandsOut(r, e)
    /\ handled' = handled \cup {Unit(r, e)}
    /\ Set(r, Finished(r, e))
    /\ UNCHANGED <<config, stream, checkpoint, group, dead, faults>>

\* Mutant of Blocked: the lane goes on behind a failed event.
NotBlocked(r, e) == Unit(r, e)

\* A failed event blocks the later ones of its partition on the page.
Blocked(r, e) == Lane(r, log[e])

\* terminalFailure with policy 'pause', after the last attempt.
Pause(r, e) ==
    /\ HandsOut(r, e)
    /\ failure = "pause"
    /\ Set(r, [run[r] EXCEPT !.left = @ \ Blocked(r, e), !.failed = TRUE])
    /\ UNCHANGED <<config, stream, tables, faults>>

\* terminalFailure or terminalBatchFailure with policy 'deadLetter'.
DeadLetter(r, e) ==
    /\ HandsOut(r, e)
    /\ failure = "deadLetter"
    /\ dead' = dead \cup Unit(r, e)
    /\ Set(r, Finished(r, e))
    /\ UNCHANGED <<config, stream, checkpoint, group, handled, faults>>

\* A lane throws: Promise.all rejects and the invocation with it, the other
\* lanes go on.
Thrown(r, p) ==
    [run[r] EXCEPT !.pc = "orphan", !.lanes = @ - 1,
                   !.left = @ \ Lane(r, p), !.marking = @ \ {p}]

\* Some of the dead letters of a unit are written, one of them is not.
DeadLetterFails(r, e) ==
    /\ HandsOut(r, e)
    /\ failure = "deadLetter"
    /\ faults < MaxFaults
    /\ \E written \in SUBSET Unit(r, e) :
        /\ written # Unit(r, e)
        /\ dead' = dead \cup written
    /\ Set(r, Thrown(r, log[e]))
    /\ faults' = faults + 1
    /\ UNCHANGED <<config, stream, checkpoint, group, handled>>

\* The stored group is the one the runner holds (group_id is a digest of the
\* exact membership).
Holds(r) ==
    /\ group # None
    /\ group.first = run[r].first /\ group.last = run[r].last

\* markBatchComplete: UPDATE ... WHERE group_id = $3.
Mark(r, p) ==
    /\ p \in run[r].marking
    /\ IF Holds(r)
         THEN /\ group' = [group EXCEPT !.done = @ \cup {p}]
              /\ Set(r, [run[r] EXCEPT !.left = @ \ Lane(r, p),
                                       !.marking = @ \ {p}])
         ELSE group' = group /\ Set(r, Thrown(r, p))
    /\ UNCHANGED <<config, stream, checkpoint, dead, handled, faults>>

\* markBatchComplete: the database rolls the mark back and throws, or its
\* answer is lost after the commit.
MarkFails(r, p) ==
    /\ p \in run[r].marking
    /\ faults < MaxFaults
    /\ \/ group' = group
       \/ Holds(r) /\ group' = [group EXCEPT !.done = @ \cup {p}]
    /\ Set(r, Thrown(r, p))
    /\ faults' = faults + 1
    /\ UNCHANGED <<config, stream, checkpoint, dead, handled>>

\* The last lane of an invocation that has thrown comes to its end.
Drained(r) ==
    /\ run[r].pc = "orphan"
    /\ run[r].left = {} \/ run[r].lanes = 0
    /\ Set(r, Stopped)
    /\ UNCHANGED <<config, stream, tables, faults>>

-----------------------------------------------------------------------------
(* The end of a round.                                                     *)

\* Mutant of NextRound: one round more than maxBatches.
NextRoundOneMore(r) ==
    IF run[r].exhausted \/ run[r].round >= MaxBatches THEN Stopped
    ELSE [Stopped EXCEPT !.pc = IF mode = "batch" THEN "look" ELSE "read",
                         !.at = run[r].last, !.round = run[r].round + 1]

\* The next round, from the local checkpoint.
NextRound(r) ==
    IF run[r].exhausted \/ run[r].round + 1 >= MaxBatches THEN Stopped
    ELSE [Stopped EXCEPT !.pc = IF mode = "batch" THEN "look" ELSE "read",
                         !.at = run[r].last, !.round = run[r].round + 1]

\* ApplicationStreamProcessorPausedError.
Paused(r) ==
    /\ run[r].pc = "work" /\ run[r].left = {} /\ run[r].failed
    /\ Set(r, Stopped)
    /\ UNCHANGED <<config, stream, tables, faults>>

\* Mutant of Advanced: the group goes and the checkpoint stays.
NotAdvanced(sequence) == checkpoint

\* Mutant of Advanced: the checkpoint is written as it comes.
AdvancedTo(sequence) == sequence

\* greatest(checkpoint, EXCLUDED.sequence).
Advanced(sequence) == Greatest(checkpoint, sequence)

\* store.advance() of the per-event processor.
Advance(r) ==
    /\ mode = "event" /\ run[r].pc = "work"
    /\ run[r].left = {} /\ ~run[r].failed
    /\ checkpoint' = Advanced(run[r].last)
    /\ Set(r, NextRound(r))
    /\ UNCHANGED <<config, stream, group, dead, handled, faults>>

\* completeBatchGroup's condition: the group is there and every batch of it
\* is in completed_batch_ids.
AllMarked(r) == Holds(r) /\ Pending(group) = {}

\* completeBatchGroup: the group goes and the checkpoint advances in one
\* transaction, or the call throws.
Complete(r) ==
    /\ mode = "batch" /\ run[r].pc = "work"
    /\ run[r].left = {} /\ ~run[r].failed
    /\ IF AllMarked(r)
         THEN /\ group' = None
              /\ checkpoint' = Advanced(run[r].last)
              /\ Set(r, NextRound(r))
         ELSE UNCHANGED <<group, checkpoint>> /\ Set(r, Stopped)
    /\ UNCHANGED <<config, stream, dead, handled, faults>>

\* No lane is at work: the invocation is between two calls of the store or
\* the source, no lane has begun, or every lane is through.
BetweenCalls(r) ==
    \/ run[r].pc \in {"look", "read", "freeze", "insert"}
    \/ /\ run[r].pc = "work" /\ run[r].marking = {}
       /\ run[r].left \in {{}, run[r].first..run[r].last}

\* A call of the store or of source.read() outside the lanes throws, with or
\* without its effect, and the invocation with it.
StoreFails(r) ==
    /\ BetweenCalls(r)
    /\ faults < MaxFaults
    /\ Set(r, Stopped)
    /\ faults' = faults + 1
    /\ UNCHANGED <<config, stream, tables>>

\* The process of a runner ends: the only one, with all its lanes, or one of
\* several.
Crash(r) ==
    /\ run[r].pc # "idle"
    /\ faults < MaxFaults
    /\ run' = [s \in Runner |->
                IF s = r \/ replicas = 1 THEN Stopped ELSE run[s]]
    /\ faults' = faults + 1
    /\ UNCHANGED <<config, stream, tables>>

-----------------------------------------------------------------------------

Step(r) ==
    \/ Start(r) \/ Look(r) \/ ReadEvents(r) \/ ReadBatch(r) \/ ReadNothing(r)
    \/ ReportGap(r) \/ Freeze(r) \/ Insert(r)
    \/ \E e \in 1..MaxSequence : Handle(r, e) \/ Pause(r, e) \/ DeadLetter(r, e)
    \/ \E p \in Partition : Mark(r, p)
    \/ Drained(r) \/ Paused(r) \/ Advance(r) \/ Complete(r)

Next ==
    \/ \E p \in Partition : Produce(p)
    \/ Trim
    \/ \E r \in Runner :
        \/ Step(r)
        \/ \E e \in 1..MaxSequence : DeadLetterFails(r, e)
        \/ \E p \in Partition : MarkFails(r, p)
        \/ StoreFails(r) \/ Crash(r)

Spec == Init /\ [][Next]_vars

-----------------------------------------------------------------------------
(* Properties.                                                             *)

States == {"idle", "look", "read", "freeze", "insert", "work", "orphan"}

RunnerState ==
    [pc : States, at : 0..MaxSequence, round : 0..MaxBatches - 1,
     first : 0..MaxSequence + 1, last : 0..MaxSequence,
     exhausted : BOOLEAN, left : SUBSET (1..MaxSequence),
     marking : SUBSET Partition, failed : BOOLEAN, lanes : Int]

\* The variables have their types; positions stay within the stream.
TypeOK ==
    /\ mode \in {"event", "batch"} /\ failure \in {"pause", "deadLetter"}
    /\ replicas \in {1, 2}
    /\ log \in Seq(Partition) /\ Len(log) <= MaxSequence
    /\ floor \in 0..Len(log) /\ checkpoint \in 0..Len(log)
    /\ \/ group = None
       \/ /\ group \in [first : 1..Len(log), last : 1..Len(log),
                        done : SUBSET Partition]
          /\ group.first <= group.last
    /\ dead \subseteq 1..Len(log) /\ handled \subseteq SUBSET (1..Len(log))
    /\ run \in [Runner -> RunnerState]
    /\ faults \in 0..MaxFaults

Settled == (UNION handled) \cup dead

\* The checkpoint never passes an event that no handler has completed and
\* that is not in the dead letters, whatever runners overlap, crash between
\* a handler and its mark, or resume another runner's group.
NothingSkipped == 1..checkpoint \subseteq Settled

\* "Events from one partition are always handled in source order": no event
\* is completed before every earlier one of its partition is settled, across
\* pages, groups, restarts and overlapping runners.
PartitionOrder ==
    \A e \in UNION handled : \A d \in 1..e : log[d] = log[e] => d \in Settled

\* Every retry of an event sees the batch it was frozen in, so that the
\* batch id is an idempotency key: with one replica the batch processor never
\* hands the same event to its handler under two batch identities, in spite
\* of crashes, failed marks and lanes that outlive their invocation.
OneManifest ==
    mode = "batch" /\ replicas = 1 =>
        \A b, c \in handled : b = c \/ b \cap c = {}

\* The stored checkpoint never moves back, although a runner that lags
\* behind another one stores the end of an older page or group.
CheckpointForward == [][checkpoint' >= checkpoint]_vars

=============================================================================
