----------------------- MODULE StreamProcessorProofs -----------------------
(***************************************************************************)
(* Type correctness, NothingSkipped, PartitionOrder and OneManifest of     *)
(* StreamProcessor for any number of runners, partitions, events and       *)
(* faults, any page and batch size and any concurrency.                    *)
(***************************************************************************)
EXTENDS StreamProcessor, SequenceTheorems, TLAPS

\* Every event up to a position is settled.
Prefix(n) == 1..n \subseteq Settled

InHand(r) == run[r].first..run[r].last

HasWork(r) == run[r].pc \in {"work", "orphan"}

HasPage(r) == run[r].pc \in {"freeze", "insert"}

\* What a runner may rely on: everything before its local checkpoint and
\* before the page in its hand is settled, and within the page an event is
\* either left to do or settled, unless its whole partition was given up.
RunnerInv(r) ==
    /\ Prefix(run[r].at)
    /\ HasPage(r) \/ HasWork(r) =>
        1 <= run[r].first /\ Prefix(run[r].first - 1)
    /\ ~HasWork(r) => run[r].marking = {} /\ run[r].left = {}
    /\ HasPage(r) => run[r].first <= run[r].last
    /\ run[r].last <= Len(log) /\ run[r].at <= Len(log)
    /\ run[r].left \subseteq InHand(r)
    /\ run[r].pc = "work" /\ ~run[r].failed =>
        InHand(r) \subseteq run[r].left \cup Settled
    /\ \A e \in run[r].left :
        InPartition(log[e], run[r].first, run[r].last)
            \subseteq run[r].left \cup Settled
    /\ \A p \in run[r].marking :
        InPartition(p, run[r].first, run[r].last) \subseteq Settled

\* What the stored group may claim.
GroupInv ==
    group # None =>
        /\ Prefix(group.first - 1)
        /\ \A e \in group.first..group.last :
            log[e] \in group.done => e \in Settled

\* The inductive invariant.
IInv ==
    /\ TypeOK
    /\ NothingSkipped
    /\ PartitionOrder
    /\ GroupInv
    /\ \A r \in Runner : RunnerInv(r)

-----------------------------------------------------------------------------

\* The limits are numbers, and those on pages, batches and rounds positive.
LEMMA Bounds ==
    /\ MaxSequence \in Nat /\ MaxFaults \in Nat
    /\ MaxItems \in Nat \ {0} /\ Concurrency \in Nat \ {0}
    /\ PageLimit \in Nat \ {0} /\ MaxBatches \in Nat \ {0}
BY ProcessorAssumption

\* A stopped runner is typed and claims nothing.
LEMMA StoppedType == Stopped \in RunnerState
BY Bounds DEF Stopped, RunnerState, States

\* One runner's new state is typed: run stays typed.
LEMMA SetType ==
    ASSUME NEW r \in Runner, NEW s \in RunnerState, TypeOK, Set(r, s)
    PROVE  run' \in [Runner -> RunnerState]
BY DEF TypeOK, Set

\* The control states have their type.
LEMMA StatesAre ==
    /\ "idle" \in States /\ "look" \in States /\ "read" \in States
    /\ "freeze" \in States /\ "insert" \in States /\ "work" \in States
    /\ "orphan" \in States
BY DEF States

\* The state in which a group or page is taken up is typed.
LEMMA WorkingType ==
    ASSUME NEW s \in RunnerState, NEW f \in 0..MaxSequence + 1,
           NEW l \in 0..MaxSequence, NEW w \in SUBSET (1..MaxSequence)
    PROVE  Working(s, f, l, w) \in RunnerState
<1>1. Concurrency \in Int
  BY Bounds
<1> QED
  BY <1>1, StatesAre DEF Working, RunnerState

\* The state in which the next round starts is typed.
LEMMA NextRoundType ==
    ASSUME TypeOK, NEW r \in Runner
    PROVE  NextRound(r) \in RunnerState
<1> DEFINE s == run[r]
           pc == IF mode = "batch" THEN "look" ELSE "read"
<1>1. s.last \in 0..MaxSequence /\ s.round \in 0..MaxBatches - 1
  BY DEF TypeOK, RunnerState
<1>2. pc \in States
  BY StatesAre
<1>3. CASE s.exhausted \/ s.round + 1 >= MaxBatches
  BY <1>3, StoppedType DEF NextRound
<1>4. CASE ~(s.exhausted \/ s.round + 1 >= MaxBatches)
  <2>1. s.round + 1 \in 0..MaxBatches - 1
    BY <1>1, <1>4, Bounds
  <2> DEFINE t == [Stopped EXCEPT !.pc = pc, !.at = s.last,
                                  !.round = s.round + 1]
  <2>2. NextRound(r) = t
    BY <1>4 DEF NextRound
  <2> HIDE DEF pc, s
  <2>3. t \in RunnerState
    BY <1>1, <1>2, <2>1, StoppedType DEF RunnerState
  <2> QED
    BY <2>2, <2>3
<1> QED
  BY <1>3, <1>4

-----------------------------------------------------------------------------
(* Runners that do not move keep their claims.                             *)

\* Claims survive when more events are settled and the stream is the same.
LEMMA Kept ==
    ASSUME TypeOK, NEW r \in Runner, RunnerInv(r), run'[r] = run[r],
           log' = log, Settled \subseteq Settled'
    PROVE  RunnerInv(r)'
BY DEF RunnerInv, Prefix, HasWork, HasPage, InHand, InPartition

\* The claims of all runners after a step of one of them.
LEMMA Frame ==
    ASSUME TypeOK, \A q \in Runner : RunnerInv(q), NEW r \in Runner,
           NEW s \in RunnerState, Set(r, s), log' = log,
           Settled \subseteq Settled', RunnerInv(r)'
    PROVE  \A q \in Runner : RunnerInv(q)'
<1> SUFFICES ASSUME NEW q \in Runner, q # r
             PROVE  RunnerInv(q)'
  OBVIOUS
<1>1. run'[q] = run[q]
  BY DEF Set, TypeOK
<1> QED
  BY <1>1, Kept

\* A stopped runner claims nothing.
LEMMA StoppedInv ==
    ASSUME TypeOK, log' = log, NEW r \in Runner, run'[r] = Stopped
    PROVE  RunnerInv(r)'
<1>1. /\ run'[r].pc = "idle" /\ run'[r].at = 0 /\ run'[r].marking = {}
      /\ run'[r].left = {} /\ run'[r].last = 0
  BY DEF Stopped
<1>2. Len(log') >= 0
  BY LenProperties DEF TypeOK
<1> QED
  BY <1>1, <1>2 DEF RunnerInv, Prefix, HasWork, HasPage, InHand

\* What a step of one runner makes of that runner's state.
LEMMA SetValue ==
    ASSUME TypeOK, NEW r \in Runner, NEW s, Set(r, s)
    PROVE  run'[r] = s
BY DEF Set, TypeOK

\* The group and the tables keep their claims when more is settled.
LEMMA GroupKept ==
    ASSUME GroupInv, group' = group, log' = log, Settled \subseteq Settled'
    PROVE  GroupInv'
BY DEF GroupInv, Prefix

LEMMA TablesKept ==
    ASSUME NothingSkipped, PartitionOrder, checkpoint' = checkpoint,
           handled' = handled, log' = log, Settled \subseteq Settled'
    PROVE  NothingSkipped' /\ PartitionOrder'
BY DEF NothingSkipped, PartitionOrder

\* A runner that takes up the stored group finds each of its events done or
\* left to do.
LEMMA TakenInv ==
    ASSUME IInv, NEW r \in Runner, ~HasWork(r), group # None,
           Set(r, Working(run[r], group.first, group.last, Pending(group))),
           log' = log, Settled' = Settled
    PROVE  /\ Working(run[r], group.first, group.last, Pending(group))
                \in RunnerState
           /\ RunnerInv(r)'
<1> DEFINE f == group.first
           l == group.last
           w == Pending(group)
<1>1. /\ f \in 1..Len(log) /\ l \in 1..Len(log) /\ f <= l
      /\ Len(log) \in Nat /\ Len(log) <= MaxSequence /\ MaxSequence \in Nat
  BY Bounds, LenProperties DEF IInv, TypeOK
<1>2. w \in SUBSET (1..MaxSequence) /\ w \subseteq f..l
  BY <1>1 DEF Pending
<1>3. run[r] \in RunnerState
  BY DEF IInv, TypeOK
<1>4. Working(run[r], f, l, w) \in RunnerState
  BY <1>1, <1>2, <1>3, WorkingType
<1>5. run'[r] = Working(run[r], f, l, w)
  BY SetValue DEF IInv
<1>6. /\ run'[r].pc = "work" /\ run'[r].first = f /\ run'[r].last = l
      /\ run'[r].left = w /\ run'[r].at = run[r].at
      /\ run'[r].marking = run[r].marking
  BY <1>3, <1>5 DEF Working, RunnerState
<1>7. run[r].marking = {} /\ Prefix(run[r].at) /\ run[r].at <= Len(log)
  BY DEF IInv, RunnerInv
<1>8. Prefix(f - 1) /\ \A e \in f..l : e \in w \/ e \in Settled
  BY DEF IInv, GroupInv, Pending
<1>9. \A e \in w : InPartition(log[e], f, l) \subseteq w
  BY DEF InPartition, Pending
<1> HIDE DEF f, l, w
<1>10. RunnerInv(r)'
  BY <1>1, <1>2, <1>6, <1>7, <1>8, <1>9
  DEF RunnerInv, Prefix, HasWork, HasPage, InHand, InPartition
<1> QED
  BY <1>4, <1>10 DEF f, l, w

-----------------------------------------------------------------------------
(* Steps that leave the tables alone.                                      *)

\* Only the state of one runner changes, and that runner keeps its claims.
LEMMA Quiet ==
    ASSUME IInv, NEW r \in Runner, NEW s \in RunnerState, Set(r, s),
           UNCHANGED <<config, stream, tables>>, faults' \in 0..MaxFaults,
           RunnerInv(r)'
    PROVE  IInv'
<1>1. Settled' = Settled /\ log' = log
  BY DEF Settled, tables, stream
<1>2. TypeOK'
  BY SetType DEF IInv, TypeOK, config, stream, tables
<1>3. NothingSkipped' /\ PartitionOrder' /\ GroupInv'
  BY <1>1, TablesKept, GroupKept DEF IInv, tables
<1>4. \A q \in Runner : RunnerInv(q)'
  BY <1>1, Frame DEF IInv
<1> QED
  BY <1>2, <1>3, <1>4 DEF IInv

LEMMA StopStep ==
    ASSUME IInv, NEW r \in Runner, Set(r, Stopped),
           UNCHANGED <<config, stream, tables>>, faults' \in 0..MaxFaults
    PROVE  IInv'
<1>1. run'[r] = Stopped
  BY SetValue DEF IInv
<1>2. RunnerInv(r)'
  BY <1>1, StoppedInv DEF IInv, stream
<1> QED
  BY <1>2, StoppedType, Quiet

LEMMA StartStep ==
    ASSUME IInv, NEW r \in Runner, Start(r)
    PROVE  IInv'
<1> DEFINE pc == IF mode = "batch" THEN "look" ELSE "read"
           s == [Stopped EXCEPT !.pc = pc, !.at = checkpoint]
<1>1. pc \in States /\ pc \in {"look", "read"}
  BY StatesAre
<1>2. /\ checkpoint \in 0..MaxSequence /\ checkpoint <= Len(log)
      /\ Len(log) \in Nat
  BY Bounds, LenProperties DEF IInv, TypeOK
<1>3. Set(r, s) /\ UNCHANGED <<config, stream, tables, faults>>
  BY DEF Start
<1> HIDE DEF pc
<1>4. s \in RunnerState
  BY <1>1, <1>2, StoppedType DEF RunnerState
<1>5. run'[r] = s
  BY <1>3, SetValue DEF IInv
<1>6. /\ run'[r].pc \in {"look", "read"} /\ run'[r].at = checkpoint
      /\ run'[r].marking = {} /\ run'[r].left = {} /\ run'[r].last = 0
  BY <1>1, <1>5 DEF Stopped
<1>7. Settled' = Settled /\ log' = log /\ Prefix(checkpoint)
  BY <1>3 DEF Settled, tables, stream, Prefix, IInv, NothingSkipped
<1>8. RunnerInv(r)'
  BY <1>2, <1>6, <1>7 DEF RunnerInv, Prefix, HasWork, HasPage, InHand
<1>9. faults' \in 0..MaxFaults
  BY <1>3 DEF IInv, TypeOK
<1> QED
  BY <1>3, <1>4, <1>8, <1>9, Quiet

\* Look and Freeze: the stored group is taken up, or there is none.
LEMMA AdoptStep ==
    ASSUME IInv, NEW r \in Runner, Look(r) \/ Freeze(r)
    PROVE  IInv'
<1>1. /\ UNCHANGED <<config, stream, tables, faults>> /\ ~HasWork(r)
      /\ run[r].pc \in {"look", "freeze"}
  BY DEF Look, Freeze, HasWork
<1>2. Settled' = Settled /\ log' = log /\ faults' \in 0..MaxFaults
  BY <1>1 DEF Settled, tables, stream, IInv, TypeOK
<1>3. CASE group # None
  <2>1. Set(r, Working(run[r], group.first, group.last, Pending(group)))
    BY <1>3 DEF Look, Freeze
  <2> QED
    BY <1>1, <1>2, <1>3, <2>1, TakenInv, Quiet
<1>4. CASE group = None
  <2> DEFINE pc == IF run[r].pc = "look" THEN "read" ELSE "insert"
             s == [run[r] EXCEPT !.pc = pc]
  <2>1. Set(r, s)
    BY <1>4 DEF Look, Freeze
  <2>2. run[r] \in RunnerState /\ pc \in States
    BY StatesAre DEF IInv, TypeOK
  <2>3. s \in RunnerState
    BY <2>2 DEF RunnerState
  <2>4. run'[r] = s
    BY <2>1, SetValue DEF IInv
  <2>5. /\ run'[r].pc = pc /\ run'[r].at = run[r].at
        /\ run'[r].first = run[r].first /\ run'[r].last = run[r].last
        /\ run'[r].left = run[r].left /\ run'[r].marking = run[r].marking
    BY <2>2, <2>4 DEF RunnerState
  <2>6. RunnerInv(r)'
    BY <1>1, <1>2, <2>5
    DEF IInv, RunnerInv, Prefix, HasWork, HasPage, InHand, InPartition
  <2> QED
    BY <1>1, <1>2, <2>1, <2>3, <2>6, Quiet
<1> QED
  BY <1>3, <1>4

\* A page is read from the local checkpoint, which no trimmed event follows.
LEMMA ReadEventsStep ==
    ASSUME IInv, NEW r \in Runner, ReadEvents(r)
    PROVE  IInv'
<1> DEFINE f == Cursor(r) + 1
           l == PageEnd(Cursor(r), PageLimit)
           s == [Working(run[r], f, l, f..l) EXCEPT !.exhausted = (l = Len(log))]
<1>1. /\ Set(r, s) /\ UNCHANGED <<config, stream, tables, faults>>
      /\ run[r].pc = "read" /\ Readable(r)
  BY DEF ReadEvents
<1>2. /\ run[r] \in RunnerState /\ floor \in 0..Len(log)
      /\ Len(log) \in Nat /\ Len(log) <= MaxSequence /\ MaxSequence \in Nat
      /\ PageLimit \in Nat
  BY Bounds, LenProperties DEF IInv, TypeOK
<1>3. run[r].at \in 0..Len(log) /\ run[r].marking = {} /\ Prefix(run[r].at)
  BY <1>1, <1>2 DEF IInv, RunnerInv, RunnerState, HasWork
<1>4. Cursor(r) = run[r].at
  BY <1>1, <1>2, <1>3 DEF Cursor, Greatest, Readable
<1>5. /\ f = run[r].at + 1 /\ f \in 0..MaxSequence + 1
      /\ l \in 0..MaxSequence /\ l <= Len(log)
      /\ f..l \in SUBSET (1..MaxSequence)
  BY <1>2, <1>3, <1>4 DEF PageEnd, Smaller
<1>6. (l = Len(log)) \in BOOLEAN
  OBVIOUS
<1> HIDE DEF f, l
<1>7. Working(run[r], f, l, f..l) \in RunnerState
  BY <1>2, <1>5, WorkingType
<1>8. s \in RunnerState
  BY <1>6, <1>7 DEF RunnerState
<1>9. run'[r] = s
  BY <1>1, SetValue DEF IInv
<1>10. /\ run'[r].pc = "work" /\ run'[r].first = f /\ run'[r].last = l
       /\ run'[r].left = f..l /\ run'[r].at = run[r].at
       /\ run'[r].marking = run[r].marking
  BY <1>2, <1>9 DEF Working, RunnerState
<1>11. Settled' = Settled /\ log' = log /\ faults' \in 0..MaxFaults
  BY <1>1 DEF Settled, tables, stream, IInv, TypeOK
<1>12. RunnerInv(r)'
  BY <1>2, <1>3, <1>5, <1>10, <1>11
  DEF RunnerInv, Prefix, HasWork, HasPage, InHand, InPartition
<1> QED
  BY <1>1, <1>8, <1>11, <1>12, Quiet

LEMMA ReadBatchStep ==
    ASSUME IInv, NEW r \in Runner, ReadBatch(r)
    PROVE  IInv'
<1> DEFINE f == Cursor(r) + 1
           end == PageEnd(Cursor(r), MaxItems * Concurrency)
<1>1. PICK l \in f..end :
        Set(r, [run[r] EXCEPT !.pc = "freeze", !.first = f, !.last = l,
                              !.exhausted = (l = Len(log))])
  BY DEF ReadBatch
<1> DEFINE s == [run[r] EXCEPT !.pc = "freeze", !.first = f, !.last = l,
                               !.exhausted = (l = Len(log))]
<1>2. /\ Set(r, s) /\ UNCHANGED <<config, stream, tables, faults>>
      /\ run[r].pc = "read" /\ Readable(r)
  BY <1>1 DEF ReadBatch
<1>3. /\ run[r] \in RunnerState /\ floor \in 0..Len(log)
      /\ Len(log) \in Nat /\ Len(log) <= MaxSequence /\ MaxSequence \in Nat
  BY Bounds, LenProperties DEF IInv, TypeOK
<1>4. /\ run[r].at \in 0..Len(log) /\ run[r].marking = {}
      /\ Prefix(run[r].at) /\ run[r].left = {}
  BY <1>2, <1>3 DEF IInv, RunnerInv, RunnerState, HasWork
<1>5. Cursor(r) = run[r].at
  BY <1>2, <1>3, <1>4 DEF Cursor, Greatest, Readable
<1>6. MaxItems * Concurrency \in Nat
  BY Bounds
<1>7. /\ f = run[r].at + 1 /\ f \in 0..MaxSequence + 1
      /\ l \in 0..MaxSequence /\ l <= Len(log) /\ 1 <= f /\ f <= l
  BY <1>3, <1>4, <1>5, <1>6 DEF PageEnd, Smaller
<1>8. (l = Len(log)) \in BOOLEAN
  OBVIOUS
<1> HIDE DEF f, end
<1>9. s \in RunnerState
  BY <1>3, <1>7, <1>8, StatesAre DEF RunnerState
<1>10. run'[r] = s
  BY <1>2, SetValue DEF IInv
<1>11. /\ run'[r].pc = "freeze" /\ run'[r].first = f /\ run'[r].last = l
       /\ run'[r].left = run[r].left /\ run'[r].at = run[r].at
       /\ run'[r].marking = run[r].marking
  BY <1>3, <1>10 DEF RunnerState
<1>12. Settled' = Settled /\ log' = log /\ faults' \in 0..MaxFaults
  BY <1>2 DEF Settled, tables, stream, IInv, TypeOK
<1>13. RunnerInv(r)'
  BY <1>3, <1>4, <1>7, <1>11, <1>12
  DEF RunnerInv, Prefix, HasWork, HasPage, InHand, InPartition
<1> QED
  BY <1>2, <1>9, <1>12, <1>13, Quiet

-----------------------------------------------------------------------------
(* Steps that write the tables.                                            *)

\* The new group claims nothing but what its runner knows.
LEMMA InsertStep ==
    ASSUME IInv, NEW r \in Runner, Insert(r)
    PROVE  IInv'
<1>1. CASE group # None
  <2>1. Set(r, Stopped) /\ UNCHANGED <<config, stream, tables, faults>>
    BY <1>1 DEF Insert, tables
  <2>2. faults' \in 0..MaxFaults
    BY <2>1 DEF IInv, TypeOK
  <2> QED
    BY <2>1, <2>2, StopStep
<1>2. CASE group = None
  <2> DEFINE f == run[r].first
             l == run[r].last
             s == Working(run[r], f, l, f..l)
  <2>1. /\ group' = [first |-> f, last |-> l, done |-> {}] /\ Set(r, s)
        /\ UNCHANGED <<config, stream, checkpoint, dead, handled, faults>>
        /\ run[r].pc = "insert"
    BY <1>2 DEF Insert
  <2>2. Settled' = Settled /\ log' = log
    BY <2>1 DEF Settled, stream
  <2>3. /\ run[r] \in RunnerState
        /\ Len(log) \in Nat /\ Len(log) <= MaxSequence /\ MaxSequence \in Nat
    BY Bounds, LenProperties DEF IInv, TypeOK
  <2>4. /\ f \in 1..Len(log) /\ l \in 1..Len(log) /\ f <= l
        /\ Prefix(f - 1) /\ Prefix(run[r].at) /\ run[r].at <= Len(log)
        /\ run[r].marking = {}
    BY <2>1, <2>3 DEF IInv, RunnerInv, RunnerState, HasPage, HasWork
  <2>5. f..l \in SUBSET (1..MaxSequence)
    BY <2>3, <2>4
  <2> HIDE DEF f, l
  <2>6. s \in RunnerState
    BY <2>3, <2>4, <2>5, WorkingType
  <2>7. run'[r] = s
    BY <2>1, SetValue DEF IInv
  <2>8. /\ run'[r].pc = "work" /\ run'[r].first = f /\ run'[r].last = l
        /\ run'[r].left = f..l /\ run'[r].at = run[r].at
        /\ run'[r].marking = run[r].marking
    BY <2>3, <2>7 DEF Working, RunnerState
  <2>9. RunnerInv(r)'
    BY <2>2, <2>3, <2>4, <2>5, <2>8
    DEF RunnerInv, Prefix, HasWork, HasPage, InHand, InPartition
  <2>10. \A q \in Runner : RunnerInv(q)'
    BY <2>1, <2>2, <2>6, <2>9, Frame DEF IInv
  <2>11. GroupInv'
    BY <2>1, <2>2, <2>4 DEF GroupInv, Prefix
  <2>12. run' \in [Runner -> RunnerState]
    BY <2>1, <2>6, SetType DEF IInv
  <2>13. /\ group' \in [first : 1..Len(log'), last : 1..Len(log'),
                        done : SUBSET Partition]
         /\ group'.first <= group'.last
    BY <2>1, <2>2, <2>4
  <2>14. TypeOK'
    BY <2>1, <2>12, <2>13 DEF IInv, TypeOK, config, stream
  <2>15. NothingSkipped' /\ PartitionOrder'
    BY <2>1, <2>2, TablesKept DEF IInv
  <2> QED
    BY <2>10, <2>11, <2>14, <2>15 DEF IInv
<1> QED
  BY <1>1, <1>2

\* What a lane hands out: events of one partition that are left to do, and
\* everything before them in that partition is settled or handed out too.
LEMMA UnitFacts ==
    ASSUME IInv, NEW r \in Runner, NEW e, HandsOut(r, e)
    PROVE  /\ e \in run[r].left /\ e \in Unit(r, e)
           /\ Unit(r, e) \subseteq run[r].left
           /\ run[r].left \subseteq 1..Len(log)
           /\ \A u \in Unit(r, e) : log[u] = log[e]
           /\ \A u \in Unit(r, e), d \in 1..Len(log) :
                d <= u /\ log[d] = log[u] => d \in Settled \cup Unit(r, e)
<1> DEFINE s == run[r]
<1>1. s \in RunnerState /\ Len(log) \in Nat /\ MaxSequence \in Nat
  BY Bounds, LenProperties DEF IInv, TypeOK
<1>2. /\ e \in s.left /\ HasWork(r)
      /\ \A d \in Lane(r, log[e]) : d >= e
  BY DEF HandsOut, HasWork
<1>3. /\ Prefix(s.first - 1) /\ s.left \subseteq s.first..s.last
      /\ s.last <= Len(log) /\ s.left \subseteq 1..MaxSequence
      /\ s.first \in 0..MaxSequence + 1 /\ s.last \in 0..MaxSequence
      /\ InPartition(log[e], s.first, s.last) \subseteq s.left \cup Settled
  BY <1>1, <1>2 DEF IInv, RunnerInv, RunnerState, InHand
<1>4. s.left \subseteq 1..Len(log)
  BY <1>1, <1>3
<1>5. /\ Lane(r, log[e]) \subseteq s.left /\ e \in Lane(r, log[e])
      /\ \A u \in Lane(r, log[e]) : log[u] = log[e]
  BY <1>2, <1>3 DEF Lane, InPartition
<1>6. Unit(r, e) \subseteq Lane(r, log[e]) /\ e \in Unit(r, e)
  BY <1>5 DEF Unit
<1>7. ASSUME NEW u \in Unit(r, e), NEW d \in 1..Len(log),
             d <= u, log[d] = log[u]
      PROVE  d \in Settled \cup Unit(r, e)
  <2>1. log[d] = log[e] /\ u \in s.first..s.last
    BY <1>3, <1>5, <1>6, <1>7
  <2>2. CASE d < s.first
    BY <1>1, <1>3, <2>2 DEF Prefix
  <2>3. CASE d >= s.first
    <3>1. d \in InPartition(log[e], s.first, s.last)
      BY <1>1, <1>3, <1>7, <2>1, <2>3 DEF InPartition
    <3>2. CASE d \in Settled
      BY <3>2
    <3>3. CASE d \in s.left
      <4>1. d \in Lane(r, log[e])
        BY <3>1, <3>3 DEF Lane
      <4>2. mode = "event" => u = e /\ Unit(r, e) = {e}
        BY DEF Unit
      <4>3. mode # "event" => Unit(r, e) = Lane(r, log[e])
        BY DEF Unit
      <4>4. mode = "event" => d = e
        BY <1>2, <1>4, <1>7, <4>1, <4>2
      <4> QED
        BY <4>1, <4>2, <4>3, <4>4
    <3> QED
      BY <1>3, <3>1, <3>2, <3>3
  <2> QED
    BY <1>1, <1>3, <2>2, <2>3
<1> QED
  BY <1>2, <1>4, <1>5, <1>6, <1>7

\* A runner's claims when the unit it handed out has been settled.
LEMMA FinishedInv ==
    ASSUME IInv, NEW r \in Runner, NEW e, HandsOut(r, e),
           Set(r, Finished(r, e)), log' = log,
           Settled \subseteq Settled', Unit(r, e) \subseteq Settled'
    PROVE  Finished(r, e) \in RunnerState /\ RunnerInv(r)'
<1> DEFINE s == run[r]
<1>1. s \in RunnerState /\ Len(log) \in Nat /\ log \in Seq(Partition)
  BY LenProperties DEF IInv, TypeOK
<1>2. /\ e \in s.left /\ e \in Unit(r, e) /\ s.left \subseteq 1..Len(log)
      /\ HasWork(r) /\ RunnerInv(r)
  BY UnitFacts DEF HandsOut, HasWork, IInv
<1>3. run'[r] = Finished(r, e)
  BY SetValue DEF IInv
<1>4. CASE mode = "event"
  <2>1. Finished(r, e) = [s EXCEPT !.left = s.left \ {e}]
    BY <1>4 DEF Finished
  <2>2. s.left \ {e} \in SUBSET (1..MaxSequence)
    BY <1>1 DEF RunnerState
  <2>3. Finished(r, e) \in RunnerState
    BY <1>1, <2>1, <2>2 DEF RunnerState
  <2>4. /\ run'[r].pc = s.pc /\ run'[r].first = s.first
        /\ run'[r].last = s.last /\ run'[r].left = s.left \ {e}
        /\ run'[r].at = s.at /\ run'[r].marking = s.marking
        /\ run'[r].failed = s.failed
    BY <1>1, <1>3, <2>1 DEF RunnerState
  <2>5. RunnerInv(r)'
    BY <1>2, <2>4
    DEF RunnerInv, Prefix, HasWork, HasPage, InHand, InPartition
  <2> QED
    BY <2>3, <2>5
<1>5. CASE mode # "event"
  <2>1. Finished(r, e) = [s EXCEPT !.marking = s.marking \cup {log[e]}]
    BY <1>5 DEF Finished
  <2>2. s.marking \cup {log[e]} \in SUBSET Partition
    BY <1>1, <1>2, ElementOfSeq DEF RunnerState
  <2>3. Finished(r, e) \in RunnerState
    BY <1>1, <2>1, <2>2 DEF RunnerState
  <2>4. /\ run'[r].pc = s.pc /\ run'[r].first = s.first
        /\ run'[r].last = s.last /\ run'[r].left = s.left
        /\ run'[r].at = s.at /\ run'[r].marking = s.marking \cup {log[e]}
        /\ run'[r].failed = s.failed
    BY <1>1, <1>3, <2>1 DEF RunnerState
  <2>5. InPartition(log[e], s.first, s.last) \subseteq Settled'
    <3>1. InPartition(log[e], s.first, s.last) \subseteq s.left \cup Settled
      BY <1>2 DEF RunnerInv
    <3>2. Unit(r, e) = InPartition(log[e], s.first, s.last) \cap s.left
      BY <1>5 DEF Unit, Lane
    <3> QED
      BY <3>1, <3>2
  <2>6. RunnerInv(r)'
    BY <1>2, <2>4, <2>5
    DEF RunnerInv, Prefix, HasWork, HasPage, InHand, InPartition
  <2> QED
    BY <2>3, <2>6
<1> QED
  BY <1>4, <1>5

\* A runner's claims when a lane has thrown.
LEMMA ThrownInv ==
    ASSUME IInv, NEW r \in Runner, NEW p, HasWork(r), Set(r, Thrown(r, p)),
           log' = log, Settled \subseteq Settled'
    PROVE  Thrown(r, p) \in RunnerState /\ RunnerInv(r)'
<1> DEFINE s == run[r]
           w == s.left \ Lane(r, p)
           k == s.marking \ {p}
<1>1. s \in RunnerState /\ RunnerInv(r)
  BY DEF IInv, TypeOK
<1>2. /\ s.lanes - 1 \in Int /\ w \in SUBSET (1..MaxSequence)
      /\ k \in SUBSET Partition
  BY <1>1 DEF RunnerState
<1>3. Thrown(r, p) = [s EXCEPT !.pc = "orphan", !.lanes = s.lanes - 1,
                               !.left = w, !.marking = k]
  BY <1>1 DEF Thrown, RunnerState
<1>4. \A e \in w : log[e] # p /\ e \in s.left
  BY <1>1 DEF Lane, InPartition, RunnerInv, InHand
<1>5. \A e \in w : InPartition(log[e], s.first, s.last) \subseteq w \cup Settled
  BY <1>1, <1>4 DEF RunnerInv, Lane, InPartition
<1>6. w \subseteq s.left /\ k \subseteq s.marking
  OBVIOUS
<1> HIDE DEF w, k
<1>7. Thrown(r, p) \in RunnerState
  BY <1>1, <1>2, <1>3, StatesAre DEF RunnerState
<1>8. run'[r] = Thrown(r, p)
  BY SetValue DEF IInv
<1>9. /\ run'[r].pc = "orphan" /\ run'[r].first = s.first
      /\ run'[r].last = s.last /\ run'[r].left = w
      /\ run'[r].at = s.at /\ run'[r].marking = k
  BY <1>1, <1>3, <1>8 DEF RunnerState
<1>10. RunnerInv(r)'
  BY <1>1, <1>5, <1>6, <1>9
  DEF RunnerInv, Prefix, HasWork, HasPage, InHand, InPartition
<1> QED
  BY <1>7, <1>10

LEMMA HandleStep ==
    ASSUME IInv, NEW r \in Runner, NEW e, Handle(r, e)
    PROVE  IInv'
<1> DEFINE u == Unit(r, e)
<1>1. /\ HandsOut(r, e) /\ handled' = handled \cup {u}
      /\ Set(r, Finished(r, e))
      /\ UNCHANGED <<config, stream, checkpoint, group, dead, faults>>
  BY DEF Handle
<1>2. log' = log /\ Settled \subseteq Settled' /\ u \subseteq Settled'
  BY <1>1 DEF Settled, stream
<1>3. /\ u \subseteq 1..Len(log)
      /\ \A x \in u, d \in 1..Len(log) :
            d <= x /\ log[d] = log[x] => d \in Settled \cup u
  BY <1>1, UnitFacts
<1>4. Finished(r, e) \in RunnerState /\ RunnerInv(r)'
  BY <1>1, <1>2, FinishedInv
<1> HIDE DEF u
<1>5. TypeOK'
  <2>1. run' \in [Runner -> RunnerState]
    BY <1>1, <1>4, SetType DEF IInv
  <2>2. handled' \subseteq SUBSET (1..Len(log))
    BY <1>1, <1>3 DEF IInv, TypeOK
  <2> QED
    BY <1>1, <2>1, <2>2 DEF IInv, TypeOK, config, stream
<1>6. NothingSkipped'
  BY <1>1, <1>2 DEF IInv, NothingSkipped
<1>7. PartitionOrder'
  <2> SUFFICES ASSUME NEW x \in UNION handled', NEW d \in 1..x,
                      log[d] = log[x]
               PROVE  d \in Settled'
    BY <1>2 DEF PartitionOrder
  <2>1. x \in 1..Len(log) /\ Len(log) \in Nat
    BY <1>1, <1>3, LenProperties DEF IInv, TypeOK
  <2>2. CASE x \in u
    BY <1>2, <1>3, <2>1, <2>2
  <2>3. CASE x \in UNION handled
    BY <1>2, <2>3 DEF IInv, PartitionOrder
  <2> QED
    BY <1>1, <2>2, <2>3
<1>8. GroupInv'
  BY <1>1, <1>2, GroupKept DEF IInv
<1>9. \A q \in Runner : RunnerInv(q)'
  BY <1>1, <1>2, <1>4, Frame DEF IInv
<1> QED
  BY <1>5, <1>6, <1>7, <1>8, <1>9 DEF IInv

LEMMA PauseStep ==
    ASSUME IInv, NEW r \in Runner, NEW e, Pause(r, e)
    PROVE  IInv'
<1> DEFINE s == run[r]
           w == s.left \ Blocked(r, e)
           t == [s EXCEPT !.left = w, !.failed = TRUE]
<1>1. /\ HandsOut(r, e) /\ Set(r, t)
      /\ UNCHANGED <<config, stream, tables, faults>>
  BY DEF Pause
<1>2. s \in RunnerState /\ RunnerInv(r) /\ HasWork(r)
  BY <1>1 DEF IInv, TypeOK, HandsOut, HasWork
<1>3. /\ \A d \in w : InPartition(log[d], s.first, s.last)
                        \subseteq w \cup Settled
      /\ w \subseteq s.left
  BY <1>2 DEF RunnerInv, Blocked, Lane, InPartition, InHand
<1>4. w \in SUBSET (1..MaxSequence)
  BY <1>2 DEF RunnerState
<1> HIDE DEF w
<1>5. t \in RunnerState
  BY <1>2, <1>4 DEF RunnerState
<1>6. run'[r] = t
  BY <1>1, SetValue DEF IInv
<1>7. /\ run'[r].pc = s.pc /\ run'[r].first = s.first
      /\ run'[r].last = s.last /\ run'[r].left = w /\ run'[r].at = s.at
      /\ run'[r].marking = s.marking /\ run'[r].failed = TRUE
  BY <1>2, <1>6 DEF RunnerState
<1>8. Settled' = Settled /\ log' = log /\ faults' \in 0..MaxFaults
  BY <1>1 DEF Settled, tables, stream, IInv, TypeOK
<1>9. RunnerInv(r)'
  BY <1>2, <1>3, <1>7, <1>8
  DEF RunnerInv, Prefix, HasWork, HasPage, InHand, InPartition
<1> QED
  BY <1>1, <1>5, <1>8, <1>9, Quiet

\* Dead letters are written, all of a unit's or some of them.
LEMMA DeadStep ==
    ASSUME IInv, NEW r \in Runner, NEW s \in RunnerState, Set(r, s),
           NEW written \in SUBSET (1..Len(log)),
           dead' = dead \cup written, faults' \in 0..MaxFaults,
           UNCHANGED <<config, stream, checkpoint, group, handled>>,
           RunnerInv(r)'
    PROVE  IInv'
<1>1. log' = log /\ Settled \subseteq Settled'
  BY DEF Settled, stream
<1>2. run' \in [Runner -> RunnerState]
  BY SetType DEF IInv
<1>3. TypeOK'
  BY <1>2 DEF IInv, TypeOK, config, stream
<1>4. NothingSkipped' /\ PartitionOrder' /\ GroupInv'
  BY <1>1, TablesKept, GroupKept DEF IInv
<1>5. \A q \in Runner : RunnerInv(q)'
  BY <1>1, Frame DEF IInv
<1> QED
  BY <1>3, <1>4, <1>5 DEF IInv

LEMMA DeadLetterStep ==
    ASSUME IInv, NEW r \in Runner, NEW e,
           DeadLetter(r, e) \/ DeadLetterFails(r, e)
    PROVE  IInv'
<1>1. HandsOut(r, e) /\ UNCHANGED <<config, stream, checkpoint, group, handled>>
  BY DEF DeadLetter, DeadLetterFails
<1>2. Unit(r, e) \subseteq 1..Len(log)
  BY <1>1, UnitFacts
<1>3. faults \in 0..MaxFaults /\ MaxFaults \in Nat
  BY Bounds DEF IInv, TypeOK
<1>4. CASE DeadLetter(r, e)
  <2>1. /\ dead' = dead \cup Unit(r, e) /\ Set(r, Finished(r, e))
        /\ faults' = faults
    BY <1>4 DEF DeadLetter
  <2>2. log' = log /\ Settled' = Settled \cup Unit(r, e)
    BY <1>1, <2>1 DEF Settled, stream
  <2>3. Finished(r, e) \in RunnerState /\ RunnerInv(r)'
    BY <1>1, <2>1, <2>2, FinishedInv
  <2> QED
    BY <1>1, <1>2, <1>3, <2>1, <2>3, DeadStep
<1>5. CASE DeadLetterFails(r, e)
  <2>1. PICK written \in SUBSET Unit(r, e) : dead' = dead \cup written
    BY <1>5 DEF DeadLetterFails
  <2>2. /\ Set(r, Thrown(r, log[e])) /\ faults' = faults + 1
        /\ faults < MaxFaults
    BY <1>5 DEF DeadLetterFails
  <2>3. log' = log /\ Settled \subseteq Settled' /\ HasWork(r)
    BY <1>1, <2>1 DEF Settled, stream, HandsOut, HasWork
  <2>4. Thrown(r, log[e]) \in RunnerState /\ RunnerInv(r)'
    BY <2>2, <2>3, ThrownInv
  <2>5. faults' \in 0..MaxFaults /\ written \in SUBSET (1..Len(log))
    BY <1>2, <1>3, <2>1, <2>2
  <2> QED
    BY <1>1, <2>1, <2>2, <2>4, <2>5, DeadStep
<1> QED
  BY <1>4, <1>5

\* A marked batch was settled by the runner that marks it.
LEMMA MarkedStep ==
    ASSUME IInv, NEW r \in Runner, NEW p \in run[r].marking, Holds(r),
           group' = [group EXCEPT !.done = @ \cup {p}],
           NEW s \in RunnerState, Set(r, s), RunnerInv(r)',
           UNCHANGED <<config, stream, checkpoint, dead, handled>>,
           faults' \in 0..MaxFaults
    PROVE  IInv'
<1>1. /\ p \in Partition
      /\ InPartition(p, run[r].first, run[r].last) \subseteq Settled
  BY DEF IInv, TypeOK, RunnerState, RunnerInv
<1>2. Settled' = Settled /\ log' = log
  BY DEF Settled, stream
<1>3. /\ group \in [first : 1..Len(log), last : 1..Len(log),
                    done : SUBSET Partition]
      /\ group.first <= group.last
      /\ group.first = run[r].first /\ group.last = run[r].last
      /\ group # None
  BY DEF Holds, IInv, TypeOK
<1>4. /\ group'.first = group.first /\ group'.last = group.last
      /\ group'.done = group.done \cup {p}
      /\ group' \in [first : 1..Len(log), last : 1..Len(log),
                     done : SUBSET Partition]
  BY <1>1, <1>3
<1>5. \A q \in Runner : RunnerInv(q)'
  BY <1>2, Frame DEF IInv
<1>6. GroupInv'
  <2>1. \A e \in group.first..group.last : log[e] = p => e \in Settled
    BY <1>1, <1>3 DEF InPartition
  <2> QED
    BY <1>2, <1>3, <1>4, <2>1 DEF IInv, GroupInv, Prefix
<1>7. run' \in [Runner -> RunnerState]
  BY SetType DEF IInv
<1>8. TypeOK'
  BY <1>3, <1>4, <1>7 DEF IInv, TypeOK, config, stream
<1>9. NothingSkipped' /\ PartitionOrder'
  BY <1>2, TablesKept DEF IInv
<1> QED
  BY <1>5, <1>6, <1>8, <1>9 DEF IInv

LEMMA MarkStep ==
    ASSUME IInv, NEW r \in Runner, NEW p \in Partition, Mark(r, p)
    PROVE  IInv'
<1> DEFINE s == run[r]
           w == s.left \ Lane(r, p)
           k == s.marking \ {p}
<1>1. /\ p \in s.marking
      /\ UNCHANGED <<config, stream, checkpoint, dead, handled, faults>>
  BY DEF Mark
<1>2. s \in RunnerState /\ RunnerInv(r)
  BY DEF IInv, TypeOK
<1>3. HasWork(r) /\ InPartition(p, s.first, s.last) \subseteq Settled
  BY <1>1, <1>2 DEF RunnerInv
<1>4. Settled' = Settled /\ log' = log /\ faults' \in 0..MaxFaults
  BY <1>1 DEF Settled, stream, IInv, TypeOK
<1>5. CASE Holds(r)
  <2> DEFINE t == [s EXCEPT !.left = w, !.marking = k]
  <2>1. group' = [group EXCEPT !.done = @ \cup {p}] /\ Set(r, t)
    BY <1>5 DEF Mark
  <2>2. /\ w \in SUBSET (1..MaxSequence) /\ k \in SUBSET Partition
        /\ w \subseteq s.left /\ k \subseteq s.marking
    BY <1>2 DEF RunnerState
  <2>3. /\ \A e \in s.left : e \in w \/ e \in Settled
        /\ \A e \in w : InPartition(log[e], s.first, s.last)
                            \subseteq w \cup Settled
    BY <1>2, <1>3 DEF RunnerInv, Lane
  <2> HIDE DEF w, k
  <2>4. t \in RunnerState
    BY <1>2, <2>2 DEF RunnerState
  <2>5. run'[r] = t
    BY <2>1, SetValue DEF IInv
  <2>6. /\ run'[r].pc = s.pc /\ run'[r].first = s.first
        /\ run'[r].last = s.last /\ run'[r].left = w /\ run'[r].at = s.at
        /\ run'[r].marking = k /\ run'[r].failed = s.failed
    BY <1>2, <2>5 DEF RunnerState
  <2>7. RunnerInv(r)'
    BY <1>2, <1>3, <1>4, <2>2, <2>3, <2>6
    DEF RunnerInv, Prefix, HasWork, HasPage, InHand, InPartition
  <2> HIDE DEF t
  <2> QED
    BY <1>1, <1>4, <1>5, <2>1, <2>4, <2>7, MarkedStep
<1>6. CASE ~Holds(r)
  <2>1. group' = group /\ Set(r, Thrown(r, p))
    BY <1>6 DEF Mark
  <2>2. Thrown(r, p) \in RunnerState /\ RunnerInv(r)'
    BY <1>3, <1>4, <2>1, ThrownInv
  <2>3. UNCHANGED <<config, stream, tables>>
    BY <1>1, <2>1 DEF tables
  <2> QED
    BY <1>4, <2>1, <2>2, <2>3, Quiet
<1> QED
  BY <1>5, <1>6

LEMMA MarkFailsStep ==
    ASSUME IInv, NEW r \in Runner, NEW p \in Partition, MarkFails(r, p)
    PROVE  IInv'
<1>1. /\ p \in run[r].marking /\ faults' = faults + 1 /\ faults < MaxFaults
      /\ Set(r, Thrown(r, p))
      /\ UNCHANGED <<config, stream, checkpoint, dead, handled>>
  BY DEF MarkFails
<1>2. HasWork(r)
  BY <1>1 DEF IInv, RunnerInv
<1>3. Settled' = Settled /\ log' = log
  BY <1>1 DEF Settled, stream
<1>4. faults' \in 0..MaxFaults
  BY <1>1, Bounds DEF IInv, TypeOK
<1>5. Thrown(r, p) \in RunnerState /\ RunnerInv(r)'
  BY <1>1, <1>2, <1>3, ThrownInv
<1>6. CASE group' = group
  <2>1. UNCHANGED <<config, stream, tables>>
    BY <1>1, <1>6 DEF tables
  <2> QED
    BY <1>1, <1>4, <1>5, <2>1, Quiet
<1>7. CASE Holds(r) /\ group' = [group EXCEPT !.done = @ \cup {p}]
  BY <1>1, <1>4, <1>5, <1>7, MarkedStep
<1> QED
  BY <1>6, <1>7 DEF MarkFails

LEMMA StoreFailsStep ==
    ASSUME IInv, NEW r \in Runner, StoreFails(r)
    PROVE  IInv'
<1>1. faults' \in 0..MaxFaults
  BY Bounds DEF IInv, TypeOK, StoreFails
<1> QED
  BY <1>1, StopStep DEF StoreFails

\* The checkpoint moves to the end of a page or group that is settled.
LEMMA ForwardStep ==
    ASSUME IInv, NEW r \in Runner, Prefix(run[r].last),
           checkpoint' = Advanced(run[r].last), Set(r, NextRound(r)),
           group' = group \/ group' = None,
           UNCHANGED <<config, stream, dead, handled, faults>>
    PROVE  IInv'
<1> DEFINE s == run[r]
<1>1. /\ s \in RunnerState /\ checkpoint \in 0..Len(log) /\ Len(log) \in Nat
      /\ s.last <= Len(log)
  BY LenProperties DEF IInv, TypeOK, RunnerInv
<1>2. s.last \in 0..Len(log)
  BY <1>1, Bounds DEF RunnerState
<1>3. Settled' = Settled /\ log' = log
  BY DEF Settled, stream
<1>4. /\ checkpoint' \in 0..Len(log)
      /\ checkpoint' = checkpoint \/ checkpoint' = s.last
  BY <1>1, <1>2 DEF Advanced, Greatest
<1>5. NextRound(r) \in RunnerState
  BY NextRoundType DEF IInv
<1>6. run'[r] = NextRound(r)
  BY SetValue DEF IInv
<1>7. /\ ~HasWork(r)' /\ ~HasPage(r)' /\ run'[r].marking = {}
      /\ run'[r].left = {} /\ run'[r].last = 0
      /\ run'[r].at = 0 \/ run'[r].at = s.last
  BY <1>6 DEF NextRound, Stopped, HasWork, HasPage
<1>8. RunnerInv(r)'
  BY <1>1, <1>2, <1>3, <1>7 DEF RunnerInv, Prefix, InHand, HasWork, HasPage
<1>9. \A q \in Runner : RunnerInv(q)'
  BY <1>3, <1>5, <1>8, Frame DEF IInv
<1>10. NothingSkipped'
  BY <1>3, <1>4 DEF NothingSkipped, Prefix, IInv
<1>11. PartitionOrder' /\ GroupInv'
  BY <1>3 DEF IInv, PartitionOrder, GroupInv, Prefix
<1>12. run' \in [Runner -> RunnerState]
  BY <1>5, SetType DEF IInv
<1>13. TypeOK'
  BY <1>3, <1>4, <1>12 DEF IInv, TypeOK, config, stream
<1> QED
  BY <1>9, <1>10, <1>11, <1>13 DEF IInv

LEMMA AdvanceStep ==
    ASSUME IInv, NEW r \in Runner, Advance(r)
    PROVE  IInv'
<1>1. /\ run[r].pc = "work" /\ run[r].left = {} /\ ~run[r].failed
      /\ checkpoint' = Advanced(run[r].last) /\ Set(r, NextRound(r))
      /\ UNCHANGED <<config, stream, group, dead, handled, faults>>
  BY DEF Advance
<1>2. /\ run[r].first \in Int /\ run[r].last \in Int
      /\ Prefix(run[r].first - 1) /\ InHand(r) \subseteq Settled
  BY <1>1, Bounds DEF IInv, RunnerInv, HasWork, TypeOK, RunnerState
<1>3. Prefix(run[r].last)
  BY <1>2 DEF Prefix, InHand
<1> QED
  BY <1>1, <1>3, ForwardStep

\* A group is completed when every batch of it is marked, hence settled.
LEMMA CompleteStep ==
    ASSUME IInv, NEW r \in Runner, Complete(r)
    PROVE  IInv'
<1>1. CASE AllMarked(r)
  <2>1. /\ group' = None /\ checkpoint' = Advanced(run[r].last)
        /\ Set(r, NextRound(r))
        /\ UNCHANGED <<config, stream, dead, handled, faults>>
    BY <1>1 DEF Complete
  <2>2. /\ group # None /\ group.first = run[r].first
        /\ group.last = run[r].last /\ Pending(group) = {}
    BY <1>1 DEF AllMarked, Holds
  <2>3. group.first \in Int /\ group.last \in Int
    BY <2>2, LenProperties DEF IInv, TypeOK
  <2>4. /\ Prefix(group.first - 1)
        /\ \A e \in group.first..group.last : e \in Settled
    BY <2>2 DEF IInv, GroupInv, Pending
  <2>5. Prefix(run[r].last)
    BY <2>2, <2>3, <2>4 DEF Prefix
  <2> QED
    BY <2>1, <2>5, ForwardStep
<1>2. CASE ~AllMarked(r)
  <2>1. Set(r, Stopped) /\ UNCHANGED <<config, stream, tables, faults>>
    BY <1>2 DEF Complete, tables
  <2>2. faults' \in 0..MaxFaults
    BY <2>1 DEF IInv, TypeOK
  <2> QED
    BY <2>1, <2>2, StopStep
<1> QED
  BY <1>1, <1>2

LEMMA CrashStep ==
    ASSUME IInv, NEW r \in Runner, Crash(r)
    PROVE  IInv'
<1>1. /\ UNCHANGED <<config, stream, tables>>
      /\ faults < MaxFaults /\ faults' = faults + 1
      /\ run' = [s \in Runner |->
                    IF s = r \/ replicas = 1 THEN Stopped ELSE run[s]]
  BY DEF Crash
<1>2. Settled' = Settled /\ log' = log
  BY <1>1 DEF Settled, tables, stream
<1>3. run' \in [Runner -> RunnerState]
  BY <1>1, StoppedType DEF IInv, TypeOK
<1>4. TypeOK'
  BY <1>1, <1>3, Bounds DEF IInv, TypeOK, config, stream, tables
<1>5. NothingSkipped' /\ PartitionOrder' /\ GroupInv'
  BY <1>1, <1>2, TablesKept, GroupKept DEF IInv, tables
<1>6. ASSUME NEW q \in Runner
      PROVE  RunnerInv(q)'
  <2>1. run'[q] = Stopped \/ run'[q] = run[q]
    BY <1>1
  <2> QED
    BY <1>2, <2>1, StoppedInv, Kept DEF IInv
<1> QED
  BY <1>4, <1>5, <1>6 DEF IInv

LEMMA TrimStep ==
    ASSUME IInv, Trim
    PROVE  IInv'
<1>1. /\ floor < Len(log) /\ floor' = floor + 1
      /\ faults < MaxFaults /\ faults' = faults + 1
      /\ UNCHANGED <<config, log, tables, run>>
  BY DEF Trim
<1>2. Settled' = Settled /\ Len(log) \in Nat
  BY <1>1, LenProperties DEF Settled, tables, IInv, TypeOK
<1>3. TypeOK'
  BY <1>1, <1>2, Bounds DEF IInv, TypeOK, config, tables
<1>4. NothingSkipped' /\ PartitionOrder' /\ GroupInv'
  BY <1>1, <1>2, TablesKept, GroupKept DEF IInv, tables
<1>5. \A q \in Runner : RunnerInv(q)'
  BY <1>1, <1>2, Kept DEF IInv
<1> QED
  BY <1>3, <1>4, <1>5 DEF IInv

\* Appending an event changes no claim, because claims are about events that
\* are in the stream already.
LEMMA ProduceStep ==
    ASSUME IInv, NEW p \in Partition, Produce(p)
    PROVE  IInv'
<1>1. /\ Len(log) < MaxSequence /\ log' = Append(log, p)
      /\ UNCHANGED <<config, floor, tables, run, faults>>
  BY DEF Produce
<1>2. /\ log \in Seq(Partition) /\ Len(log) \in Nat
      /\ log' \in Seq(Partition) /\ Len(log') = Len(log) + 1
      /\ \A i \in 1..Len(log) : log'[i] = log[i]
  BY <1>1, LenProperties, AppendProperties DEF IInv, TypeOK
<1>3. Settled' = Settled
  BY <1>1 DEF Settled, tables
<1> HIDE DEF Settled
<1>4. TypeOK'
  <2>1. 1..Len(log) \subseteq 1..Len(log') /\ 0..Len(log) \subseteq 0..Len(log')
    BY <1>2
  <2>2. /\ floor' \in 0..Len(log') /\ checkpoint' \in 0..Len(log')
        /\ dead' \subseteq 1..Len(log')
        /\ handled' \subseteq SUBSET (1..Len(log'))
    BY <1>1, <2>1 DEF IInv, TypeOK, tables
  <2>3. \/ group' = None
        \/ /\ group' \in [first : 1..Len(log'), last : 1..Len(log'),
                          done : SUBSET Partition]
           /\ group'.first <= group'.last
    BY <1>1, <2>1 DEF IInv, TypeOK, tables
  <2> QED
    BY <1>1, <1>2, <2>2, <2>3, Bounds DEF IInv, TypeOK, config
<1>5. NothingSkipped'
  BY <1>1, <1>3 DEF IInv, NothingSkipped, tables
<1>6. PartitionOrder'
  <2> SUFFICES ASSUME NEW e \in UNION handled, NEW d \in 1..e,
                      log'[d] = log'[e]
               PROVE  d \in Settled
    BY <1>1, <1>3 DEF PartitionOrder, tables
  <2>1. e \in 1..Len(log) /\ d \in 1..Len(log)
    BY <1>2 DEF IInv, TypeOK
  <2> QED
    BY <1>2, <2>1 DEF IInv, PartitionOrder
<1>7. GroupInv'
  <2> SUFFICES ASSUME group # None
               PROVE  /\ Prefix(group.first - 1)
                      /\ \A e \in group.first..group.last :
                            log'[e] \in group.done => e \in Settled
    BY <1>1, <1>3 DEF GroupInv, Prefix, tables
  <2>1. group.first..group.last \subseteq 1..Len(log)
    BY <1>2 DEF IInv, TypeOK
  <2> QED
    BY <1>2, <2>1 DEF IInv, GroupInv
<1>8. ASSUME NEW r \in Runner
      PROVE  RunnerInv(r)'
  <2> DEFINE s == run[r]
  <2>1. s \in RunnerState /\ RunnerInv(r)
    BY DEF IInv, TypeOK
  <2>2. /\ s.first \in Int /\ s.last \in Int /\ s.last <= Len(log)
        /\ s.at <= Len(log') /\ s.last <= Len(log') /\ run'[r] = s
    BY <1>1, <1>2, <2>1, Bounds DEF RunnerState, RunnerInv
  <2>3. CASE HasWork(r)
    <3>1. \A x \in s.first..s.last : log'[x] = log[x]
      BY <1>2, <2>1, <2>2, <2>3 DEF RunnerInv
    <3>2. \A q : {x \in s.first..s.last : log'[x] = q}
                 = InPartition(q, s.first, s.last)
      BY <3>1 DEF InPartition
    <3>3. \A e \in s.left : log'[e] = log[e]
      BY <2>1, <3>1 DEF RunnerInv, InHand
    <3>4. \A q : InPartition(q, run[r].first, run[r].last)'
                 = InPartition(q, s.first, s.last)
      BY <1>1, <3>2 DEF InPartition
    <3>5. /\ \A e \in s.left : InPartition(log[e], s.first, s.last)'
                                \subseteq s.left \cup Settled
          /\ \A q \in s.marking : InPartition(q, s.first, s.last)'
                                \subseteq Settled
      BY <1>1, <2>1, <3>3, <3>4 DEF RunnerInv
    <3> QED
      BY <1>1, <1>3, <2>1, <2>2, <2>3, <3>5
      DEF RunnerInv, Prefix, HasWork, HasPage, InHand
  <2>4. CASE ~HasWork(r)
    BY <1>1, <1>3, <2>1, <2>2, <2>4
    DEF RunnerInv, Prefix, HasWork, HasPage, InHand
  <2> QED
    BY <2>3, <2>4
<1> QED
  BY <1>4, <1>5, <1>6, <1>7, <1>8 DEF IInv

-----------------------------------------------------------------------------
(* The theorems.                                                           *)

LEMMA Initially == Init => IInv
<1> SUFFICES ASSUME Init
             PROVE  IInv
  OBVIOUS
<1>1. log = <<>> /\ log \in Seq(Partition) /\ Len(log) = 0
  BY DEF Init
<1>2. run \in [Runner -> RunnerState]
  BY StoppedType DEF Init
<1>3. TypeOK
  BY <1>1, <1>2, Bounds DEF Init, TypeOK
<1>4. ASSUME NEW r \in Runner
      PROVE  RunnerInv(r)
  <2>1. run[r] = Stopped
    BY DEF Init
  <2> QED
    BY <1>1, <2>1 DEF Stopped, RunnerInv, Prefix, HasWork, HasPage, InHand
<1>5. NothingSkipped /\ PartitionOrder /\ GroupInv
  BY DEF Init, NothingSkipped, PartitionOrder, GroupInv
<1> QED
  BY <1>3, <1>4, <1>5 DEF IInv

LEMMA Inductive == IInv /\ [Next]_vars => IInv'
<1> SUFFICES ASSUME IInv, [Next]_vars
             PROVE  IInv'
  OBVIOUS
<1>1. CASE \E p \in Partition : Produce(p)
  BY <1>1, ProduceStep
<1>2. CASE Trim
  BY <1>2, TrimStep
<1>3. ASSUME NEW r \in Runner, Step(r)
      PROVE  IInv'
  <2>1. CASE ReadNothing(r) \/ ReportGap(r) \/ Drained(r) \/ Paused(r)
    <3>1. /\ Set(r, Stopped)
          /\ UNCHANGED <<config, stream, tables, faults>>
      BY <2>1 DEF ReadNothing, ReportGap, Drained, Paused
    <3>2. faults' \in 0..MaxFaults
      BY <3>1 DEF IInv, TypeOK
    <3> QED
      BY <3>1, <3>2, StopStep
  <2>2. CASE \E e \in 1..MaxSequence :
                Handle(r, e) \/ Pause(r, e) \/ DeadLetter(r, e)
    BY <2>2, HandleStep, PauseStep, DeadLetterStep
  <2>3. CASE \E p \in Partition : Mark(r, p)
    BY <2>3, MarkStep
  <2> QED
    BY <1>3, <2>1, <2>2, <2>3, StartStep, AdoptStep, ReadEventsStep,
       ReadBatchStep, InsertStep, AdvanceStep, CompleteStep DEF Step
<1>4. ASSUME NEW r \in Runner, NEW e, DeadLetterFails(r, e)
      PROVE  IInv'
  BY <1>4, DeadLetterStep
<1>5. ASSUME NEW r \in Runner, Crash(r)
      PROVE  IInv'
  BY <1>5, CrashStep
<1>6. ASSUME NEW r \in Runner, NEW p \in Partition, MarkFails(r, p)
      PROVE  IInv'
  BY <1>6, MarkFailsStep
<1>7. ASSUME NEW r \in Runner, StoreFails(r)
      PROVE  IInv'
  BY <1>7, StoreFailsStep
<1>8. CASE UNCHANGED vars
  <2>1. UNCHANGED <<config, stream, tables, run, faults>> /\ log' = log
    BY <1>8 DEF vars, stream
  <2>2. Settled' = Settled
    BY <2>1 DEF Settled, tables
  <2>3. TypeOK'
    BY <2>1 DEF IInv, TypeOK, config, stream, tables
  <2>4. NothingSkipped' /\ PartitionOrder' /\ GroupInv'
    BY <2>1, <2>2, TablesKept, GroupKept DEF IInv, tables
  <2>5. \A q \in Runner : RunnerInv(q)'
    BY <2>1, <2>2, Kept DEF IInv
  <2> QED
    BY <2>3, <2>4, <2>5 DEF IInv
<1> QED
  BY <1>1, <1>2, <1>3, <1>4, <1>5, <1>6, <1>7, <1>8 DEF Next

LEMMA AlwaysIInv == Spec => []IInv
BY Initially, Inductive, PTL DEF Spec

\* Type correctness of the processor, its store and every runner.
THEOREM TypeCorrect == Spec => []TypeOK
BY AlwaysIInv, PTL DEF IInv

\* The checkpoint never passes an event that is neither handled nor dead
\* lettered, for any number of overlapping and crashing runners.
THEOREM NeverSkips == Spec => []NothingSkipped
BY AlwaysIInv, PTL DEF IInv

\* Events of one partition are completed in source order, for any number of
\* overlapping and crashing runners.
THEOREM InPartitionOrder == Spec => []PartitionOrder
BY AlwaysIInv, PTL DEF IInv

\* The stored checkpoint never moves back.
THEOREM NeverBack == Spec => CheckpointForward
<1>1. IInv /\ [Next]_vars => [checkpoint' >= checkpoint]_vars
  <2> SUFFICES ASSUME IInv, [Next]_vars
               PROVE  checkpoint' >= checkpoint
    OBVIOUS
  <2>1. checkpoint \in Int
    BY LenProperties DEF IInv, TypeOK
  <2>2. ASSUME NEW r \in Runner
        PROVE  /\ run[r].last \in Int
               /\ Advanced(run[r].last) >= checkpoint
    <3>1. run[r].last \in Int
      BY Bounds DEF IInv, TypeOK, RunnerState
    <3> QED
      BY <2>1, <3>1 DEF Advanced, Greatest
  <2>3. ASSUME NEW r \in Runner, Advance(r) \/ Complete(r)
        PROVE  checkpoint' >= checkpoint
    BY <2>1, <2>2, <2>3 DEF Advance, Complete
  <2>4. ASSUME NEW r \in Runner, Step(r), ~Advance(r), ~Complete(r)
        PROVE  checkpoint' = checkpoint
    BY <2>4
    DEF Step, Start, Look, ReadEvents, ReadBatch, ReadNothing, ReportGap,
        Freeze, Insert, Handle, Pause, DeadLetter, Mark, Drained, Paused,
        tables
  <2>5. ASSUME Trim \/ UNCHANGED vars \/ (\E p \in Partition : Produce(p))
        PROVE  checkpoint' = checkpoint
    BY <2>5 DEF Trim, Produce, vars, tables
  <2>6. ASSUME NEW r \in Runner,
               \/ StoreFails(r) \/ Crash(r)
               \/ \E e \in 1..MaxSequence : DeadLetterFails(r, e)
               \/ \E p \in Partition : MarkFails(r, p)
        PROVE  checkpoint' = checkpoint
    BY <2>6 DEF StoreFails, Crash, DeadLetterFails, MarkFails, tables
  <2> QED
    BY <2>1, <2>3, <2>4, <2>5, <2>6 DEF Next
<1> QED
  BY <1>1, AlwaysIInv, PTL DEF Spec, CheckpointForward

-----------------------------------------------------------------------------
(* Frozen groups do not overlap when one replica runs.                     *)

Span(x) == [first |-> x.first, last |-> x.last]

\* A runner that its worker loop still awaits.
Awaited(r) == run[r].pc \notin {"idle", "orphan"}

\* What a runner knows of the groups F that were frozen so far: the next one
\* starts right behind the checkpoint, it works on one of them, and it takes
\* the events of a partition together.
RunnerFrozen(F, r) ==
    /\ run[r].pc \in {"look", "read", "freeze", "insert"} =>
            run[r].at = checkpoint
    /\ HasPage(r) => run[r].first = checkpoint + 1
    /\ HasWork(r) => Span(run[r]) \in F
    /\ \A e \in run[r].left :
            InPartition(log[e], run[r].first, run[r].last) \subseteq run[r].left

\* The groups F that were frozen so far are disjoint, every batch handed to a
\* handler is all of a partition in one of them, all but the stored one lie
\* behind the checkpoint, and one runner at most may freeze the next.
Frozen(F) ==
    /\ \A s, t \in F : s = t \/ s.last < t.first \/ t.last < s.first
    /\ \A b \in handled : \E s \in F : \E p \in Partition :
            b = InPartition(p, s.first, s.last)
    /\ group # None => Span(group) \in F /\ checkpoint < group.first
    /\ \A s \in F : s.last <= checkpoint \/ (group # None /\ s = Span(group))
    /\ \A q, r \in Runner : Awaited(q) /\ Awaited(r) => q = r
    /\ \A r \in Runner : RunnerFrozen(F, r)

Spans == [first : 1..Len(log), last : 1..Len(log)]

\* The strengthening of OneManifest.
MInv ==
    mode = "batch" /\ replicas = 1 => \E F \in SUBSET Spans : Frozen(F)

\* One set of events in two batches would lie in two groups, or in two
\* partitions of one.
LEMMA FrozenBatches ==
    ASSUME IInv, NEW F \in SUBSET Spans, Frozen(F)
    PROVE  \A b, c \in handled : b = c \/ b \cap c = {}
<1> SUFFICES ASSUME NEW b \in handled, NEW c \in handled,
                    NEW e \in b, e \in c
             PROVE  b = c
  OBVIOUS
<1>1. PICK s \in F, p \in Partition : b = InPartition(p, s.first, s.last)
  BY DEF Frozen
<1>2. PICK t \in F, q \in Partition : c = InPartition(q, t.first, t.last)
  BY DEF Frozen
<1>3. /\ e \in s.first..s.last /\ e \in t.first..t.last
      /\ log[e] = p /\ log[e] = q
  BY <1>1, <1>2 DEF InPartition
<1>4. /\ s.first \in Int /\ s.last \in Int
      /\ t.first \in Int /\ t.last \in Int
  BY <1>1, <1>2 DEF Spans
<1>5. s = t
  BY <1>3, <1>4 DEF Frozen
<1> QED
  BY <1>1, <1>2, <1>3, <1>5

\* The other runners know of the old groups what they knew, unless the one
\* that moves is the awaited one.
LEMMA OthersFrozen ==
    ASSUME IInv, NEW F \in SUBSET Spans, NEW G, F \subseteq G, Frozen(F),
           NEW r \in Runner, NEW s, Set(r, s), log' = log,
           Awaited(r)' \/ checkpoint' # checkpoint =>
                \A q \in Runner : Awaited(q) => q = r,
           RunnerFrozen(G, r)'
    PROVE  /\ \A q \in Runner : RunnerFrozen(G, q)'
           /\ \A q, v \in Runner : Awaited(q)' /\ Awaited(v)' => q = v
<1>1. \A q \in Runner : q # r => run'[q] = run[q]
  BY DEF Set, IInv, TypeOK
<1>2. ASSUME NEW q \in Runner, q # r
      PROVE  RunnerFrozen(G, q)'
  <2>1. RunnerFrozen(F, q) /\ run'[q] = run[q]
    BY <1>1, <1>2 DEF Frozen
  <2>2. checkpoint' # checkpoint => run[q].pc \in {"idle", "orphan"}
    BY <1>2 DEF Awaited
  <2> QED
    BY <2>1, <2>2
    DEF RunnerFrozen, HasPage, HasWork, InPartition, Span
<1>3. \A q, v \in Runner : Awaited(q)' /\ Awaited(v)' => q = v
  BY <1>1 DEF Awaited, Frozen
<1> QED
  BY <1>2, <1>3

\* Steps of a runner that freeze nothing and complete nothing.
LEMMA FrozenKept ==
    ASSUME IInv, NEW F \in SUBSET Spans, Frozen(F), NEW r \in Runner, NEW s,
           Set(r, s), UNCHANGED <<log, checkpoint, handled>>,
           group' = group \/ (group # None /\ group' # None
                                 /\ Span(group)' = Span(group)),
           Awaited(r)' => \A q \in Runner : Awaited(q) => q = r,
           RunnerFrozen(F, r)'
    PROVE  Frozen(F)'
<1>1. /\ \A q \in Runner : RunnerFrozen(F, q)'
      /\ \A q, v \in Runner : Awaited(q)' /\ Awaited(v)' => q = v
  BY OthersFrozen
<1>2. \A b \in handled : \E t \in F : \E p \in Partition :
            b = InPartition(p, t.first, t.last)'
  BY DEF Frozen, InPartition
<1>3. /\ group' # None => Span(group)' \in F /\ checkpoint < group'.first
      /\ \A t \in F : \/ t.last <= checkpoint
                      \/ group' # None /\ t = Span(group)'
  BY DEF Frozen, Span
<1> QED
  BY <1>1, <1>2, <1>3 DEF Frozen

\* A stopped runner knows of no group.
LEMMA StoppedFrozen ==
    ASSUME NEW F, NEW r \in Runner, run'[r] = Stopped
    PROVE  RunnerFrozen(F, r)' /\ ~Awaited(r)'
BY DEF Stopped, RunnerFrozen, Awaited, HasPage, HasWork

\* A runner that stops leaves the groups alone.
LEMMA FrozenStop ==
    ASSUME IInv, NEW F \in SUBSET Spans, Frozen(F), NEW r \in Runner,
           Set(r, Stopped), UNCHANGED <<log, checkpoint, handled, group>>
    PROVE  Frozen(F)'
<1>1. run'[r] = Stopped
  BY SetValue DEF IInv
<1> QED
  BY <1>1, StoppedFrozen, FrozenKept

\* A runner at work gives up a whole partition or nothing.
LEMMA LaneFrozen ==
    ASSUME IInv, NEW F \in SUBSET Spans, Frozen(F), NEW r \in Runner,
           HasWork(r), log' = log, NEW p,
           run'[r].pc \in {run[r].pc, "orphan"},
           run'[r].first = run[r].first, run'[r].last = run[r].last,
           run'[r].left \in {run[r].left, run[r].left \ Lane(r, p)}
    PROVE  /\ RunnerFrozen(F, r)'
           /\ Awaited(r)' => \A q \in Runner : Awaited(q) => q = r
<1>1. RunnerFrozen(F, r) /\ run[r].left \subseteq InHand(r)
  BY DEF Frozen, IInv, RunnerInv
<1>2. ASSUME NEW e \in run'[r].left
      PROVE  InPartition(log[e], run[r].first, run[r].last)
                \subseteq run'[r].left
  <2>1. /\ e \in run[r].left
        /\ InPartition(log[e], run[r].first, run[r].last) \subseteq run[r].left
    BY <1>1, <1>2 DEF RunnerFrozen
  <2>2. CASE run'[r].left = run[r].left \ Lane(r, p)
    <3>1. log[e] # p
      BY <1>1, <1>2, <2>1, <2>2 DEF Lane, InPartition, InHand
    <3> QED
      BY <2>1, <2>2, <3>1 DEF Lane, InPartition
  <2> QED
    BY <2>1, <2>2
<1>3. RunnerFrozen(F, r)'
  BY <1>1, <1>2
  DEF RunnerFrozen, HasWork, HasPage, InPartition, Span
<1>4. Awaited(r)' => Awaited(r)
  BY DEF Awaited
<1> QED
  BY <1>3, <1>4 DEF Frozen

\* Start, Look, ReadBatch and Freeze: the local checkpoint is the stored one,
\* and a page starts right behind it.
LEMMA FrozenRead ==
    ASSUME IInv, mode = "batch", replicas = 1, NEW F \in SUBSET Spans,
           Frozen(F), NEW r \in Runner,
           Start(r) \/ Look(r) \/ ReadBatch(r) \/ Freeze(r)
    PROVE  Frozen(F)'
<1>1. /\ TypeOK /\ run[r] \in RunnerState /\ RunnerFrozen(F, r)
      /\ checkpoint \in Nat /\ floor \in Nat
      /\ ~HasWork(r) => run[r].left = {}
  BY LenProperties DEF Frozen, IInv, TypeOK, RunnerInv
<1>2. UNCHANGED <<log, checkpoint, handled, group>>
  BY DEF Start, Look, ReadBatch, Freeze, stream, tables
<1>3. \A q \in Runner : Awaited(q) => q = r
  BY DEF Start, MayStart, Look, ReadBatch, Freeze, Awaited, Frozen
<1>4. CASE Start(r)
  <2> DEFINE s == [Stopped EXCEPT !.pc = "look", !.at = checkpoint]
  <2>1. Set(r, s)
    BY <1>4 DEF Start
  <2>2. run'[r] = s
    BY <1>1, <2>1, SetValue
  <2>3. RunnerFrozen(F, r)'
    BY <1>2, <2>2 DEF RunnerFrozen, HasWork, HasPage, Stopped
  <2> QED
    BY <1>2, <1>3, <2>1, <2>3, FrozenKept
<1>5. CASE (Look(r) \/ Freeze(r)) /\ group = None
  <2> DEFINE pc == IF run[r].pc = "look" THEN "read" ELSE "insert"
             s == [run[r] EXCEPT !.pc = pc]
  <2>1. Set(r, s) /\ run[r].pc \in {"look", "freeze"}
    BY <1>5 DEF Look, Freeze
  <2>2. run'[r] = s
    BY <1>1, <2>1, SetValue
  <2>3. /\ run'[r].pc = pc /\ run'[r].at = run[r].at
        /\ run'[r].first = run[r].first /\ run'[r].left = run[r].left
    BY <1>1, <2>2 DEF RunnerState
  <2>4. run[r].left = {}
    BY <1>1, <2>1 DEF HasWork
  <2>5. RunnerFrozen(F, r)'
    BY <1>1, <1>2, <2>1, <2>3, <2>4 DEF RunnerFrozen, HasWork, HasPage
  <2> QED
    BY <1>2, <1>3, <2>1, <2>5, FrozenKept
<1>6. CASE (Look(r) \/ Freeze(r)) /\ group # None
  <2> DEFINE s == Working(run[r], group.first, group.last, Pending(group))
  <2>1. Set(r, s)
    BY <1>6 DEF Look, Freeze
  <2>2. run'[r] = s
    BY <1>1, <2>1, SetValue
  <2>3. /\ run'[r].pc = "work" /\ run'[r].first = group.first
        /\ run'[r].last = group.last /\ run'[r].left = Pending(group)
    BY <1>1, <2>2 DEF RunnerState, Working
  <2>4. Span(group) \in F
    BY <1>6 DEF Frozen
  <2>5. \A e \in Pending(group) :
            InPartition(log[e], group.first, group.last) \subseteq Pending(group)
    BY DEF Pending, InPartition
  <2>6. RunnerFrozen(F, r)'
    BY <1>2, <2>3, <2>4, <2>5
    DEF RunnerFrozen, HasWork, HasPage, Span, InPartition
  <2> QED
    BY <1>2, <1>3, <2>1, <2>6, FrozenKept
<1>7. CASE ReadBatch(r)
  <2>1. run[r].pc = "read" /\ Readable(r)
    BY <1>7 DEF ReadBatch
  <2>2. run[r].at = checkpoint /\ Cursor(r) = checkpoint /\ run[r].left = {}
    BY <1>1, <2>1
    DEF RunnerFrozen, HasWork, Cursor, Greatest, Readable
  <2>3. PICK l : Set(r, [run[r] EXCEPT !.pc = "freeze",
                            !.first = Cursor(r) + 1, !.last = l,
                            !.exhausted = (l = Len(log))])
    BY <1>7 DEF ReadBatch
  <2> DEFINE s == [run[r] EXCEPT !.pc = "freeze", !.first = Cursor(r) + 1,
                                 !.last = l, !.exhausted = (l = Len(log))]
  <2>4. run'[r] = s
    BY <1>1, <2>3, SetValue
  <2>5. /\ run'[r].pc = "freeze" /\ run'[r].at = checkpoint
        /\ run'[r].first = checkpoint + 1 /\ run'[r].left = {}
    BY <1>1, <2>2, <2>4 DEF RunnerState
  <2>6. RunnerFrozen(F, r)'
    BY <1>2, <2>5 DEF RunnerFrozen, HasWork, HasPage
  <2> QED
    BY <1>2, <1>3, <2>3, <2>6, FrozenKept
<1> QED
  BY <1>4, <1>5, <1>6, <1>7

\* State s of a runner at work gives up partition p, or nothing.
GivesUp(r, p, s) ==
    /\ Set(r, s) /\ HasWork(r)
    /\ s.pc \in {run[r].pc, "orphan"}
    /\ s.first = run[r].first /\ s.last = run[r].last
    /\ s.left \in {run[r].left, run[r].left \ Lane(r, p)}

\* What fails, is dead-lettered or marked is a whole partition.
LEMMA FrozenWork ==
    ASSUME IInv, mode = "batch", replicas = 1, NEW F \in SUBSET Spans,
           Frozen(F), NEW r \in Runner,
           \/ \E e \in 1..MaxSequence :
                Pause(r, e) \/ DeadLetter(r, e) \/ DeadLetterFails(r, e)
           \/ \E p \in Partition : Mark(r, p) \/ MarkFails(r, p)
    PROVE  Frozen(F)'
<1>1. /\ TypeOK /\ run[r] \in RunnerState
      /\ ~HasWork(r) => run[r].marking = {}
  BY DEF IInv, TypeOK, RunnerInv
<1>2. PICK part, new : GivesUp(r, part, new)
  <2>1. ASSUME NEW e, Pause(r, e)
        PROVE  \E p, s : GivesUp(r, p, s)
    <3> DEFINE s == [run[r] EXCEPT !.left = @ \ Lane(r, log[e]),
                                   !.failed = TRUE]
    <3>1. Set(r, s) /\ HasWork(r)
      BY <2>1 DEF Pause, HandsOut, HasWork, Blocked
    <3>2. /\ s.pc = run[r].pc /\ s.first = run[r].first
          /\ s.last = run[r].last /\ s.left = run[r].left \ Lane(r, log[e])
      BY <1>1 DEF RunnerState
    <3> HIDE DEF s
    <3> QED
      BY <3>1, <3>2 DEF GivesUp
  <2>2. ASSUME NEW e, DeadLetter(r, e)
        PROVE  \E p, s : GivesUp(r, p, s)
    <3> DEFINE s == [run[r] EXCEPT !.marking = @ \cup {log[e]}]
    <3>1. Set(r, s) /\ HasWork(r)
      BY <2>2 DEF DeadLetter, HandsOut, HasWork, Finished
    <3>2. /\ s.pc = run[r].pc /\ s.first = run[r].first
          /\ s.last = run[r].last /\ s.left = run[r].left
      BY <1>1 DEF RunnerState
    <3> HIDE DEF s
    <3> QED
      BY <3>1, <3>2 DEF GivesUp
  <2>3. ASSUME NEW p, Set(r, Thrown(r, p)), HasWork(r)
        PROVE  \E q, s : GivesUp(r, q, s)
    <3> DEFINE s == Thrown(r, p)
    <3>1. /\ s.pc = "orphan" /\ s.first = run[r].first
          /\ s.last = run[r].last /\ s.left = run[r].left \ Lane(r, p)
      BY <1>1 DEF RunnerState, Thrown
    <3> HIDE DEF s
    <3> QED
      BY <2>3, <3>1 DEF GivesUp, s
  <2>4. ASSUME NEW p, Mark(r, p), Holds(r)
        PROVE  \E q, s : GivesUp(r, q, s)
    <3> DEFINE s == [run[r] EXCEPT !.left = @ \ Lane(r, p),
                                   !.marking = @ \ {p}]
    <3>1. Set(r, s) /\ HasWork(r)
      BY <1>1, <2>4 DEF Mark
    <3>2. /\ s.pc = run[r].pc /\ s.first = run[r].first
          /\ s.last = run[r].last /\ s.left = run[r].left \ Lane(r, p)
      BY <1>1 DEF RunnerState
    <3> HIDE DEF s
    <3> QED
      BY <3>1, <3>2 DEF GivesUp
  <2>5. ASSUME NEW p, (Mark(r, p) /\ ~Holds(r)) \/ MarkFails(r, p)
        PROVE  Set(r, Thrown(r, p)) /\ HasWork(r)
    BY <1>1, <2>5 DEF Mark, MarkFails
  <2>6. ASSUME NEW e, DeadLetterFails(r, e)
        PROVE  Set(r, Thrown(r, log[e])) /\ HasWork(r)
    BY <2>6 DEF DeadLetterFails, HandsOut, HasWork
  <2> QED
    BY <2>1, <2>2, <2>3, <2>4, <2>5, <2>6
<1>3. run'[r] = new
  BY <1>1, <1>2, SetValue DEF GivesUp
<1>4. UNCHANGED <<log, checkpoint, handled>>
  BY DEF Pause, DeadLetter, DeadLetterFails, Mark, MarkFails, stream, tables
<1>5. group' = group \/ (group # None /\ group' # None
                            /\ Span(group)' = Span(group))
  <2>1. ASSUME NEW p \in Partition, Holds(r),
               group' = [group EXCEPT !.done = @ \cup {p}]
        PROVE  group # None /\ group' # None /\ Span(group)' = Span(group)
    <3>1. /\ group \in [first : 1..Len(log), last : 1..Len(log),
                        done : SUBSET Partition]
          /\ group' = [group EXCEPT !.done = @ \cup {p}]
      BY <1>1, <2>1 DEF Holds, TypeOK
    <3>2. group' \in [first : Nat, last : Nat, done : SUBSET Partition]
      BY <3>1
    <3>3. group'.first = group.first /\ group'.last = group.last
      BY <3>1
    <3> QED
      BY <2>1, <3>2, <3>3, ProcessorAssumption DEF Holds, Span
  <2>2. ASSUME NEW p \in Partition, Mark(r, p) \/ MarkFails(r, p)
        PROVE  \/ group' = group
               \/ Holds(r) /\ group' = [group EXCEPT !.done = @ \cup {p}]
    BY <2>2 DEF Mark, MarkFails
  <2>3. ASSUME NEW e, Pause(r, e) \/ DeadLetter(r, e) \/ DeadLetterFails(r, e)
        PROVE  group' = group
    BY <2>3 DEF Pause, DeadLetter, DeadLetterFails, tables
  <2> QED
    BY <2>1, <2>2, <2>3
<1>6. /\ RunnerFrozen(F, r)'
      /\ Awaited(r)' => \A q \in Runner : Awaited(q) => q = r
  BY <1>2, <1>3, <1>4, LaneFrozen DEF GivesUp
<1> QED
  BY <1>2, <1>4, <1>5, <1>6, FrozenKept DEF GivesUp

\* The handler gets a whole partition of a frozen group.
LEMMA FrozenHandle ==
    ASSUME IInv, mode = "batch", NEW F \in SUBSET Spans, Frozen(F),
           NEW r \in Runner, NEW e, Handle(r, e)
    PROVE  Frozen(F)'
<1> DEFINE s == [run[r] EXCEPT !.marking = @ \cup {log[e]}]
           u == InPartition(log[e], run[r].first, run[r].last)
<1>1. /\ Set(r, s) /\ HandsOut(r, e) /\ HasWork(r) /\ e \in run[r].left
      /\ handled' = handled \cup {Lane(r, log[e])}
      /\ UNCHANGED <<log, checkpoint, group>>
  BY DEF Handle, Finished, Unit, HandsOut, HasWork, stream
<1>2. /\ TypeOK /\ run[r] \in RunnerState /\ RunnerFrozen(F, r)
      /\ run[r].left \subseteq 1..Len(log)
  BY <1>1, UnitFacts DEF IInv, TypeOK, Frozen
<1>3. Lane(r, log[e]) = u /\ Span(run[r]) \in F /\ log[e] \in Partition
  BY <1>1, <1>2 DEF Lane, RunnerFrozen, TypeOK
<1>4. \E t \in F : \E p \in Partition : u = InPartition(p, t.first, t.last)
  BY <1>3 DEF Span
<1>5. run'[r] = s
  BY <1>1, <1>2, SetValue
<1>6. /\ run'[r].pc = run[r].pc /\ run'[r].first = run[r].first
      /\ run'[r].last = run[r].last /\ run'[r].left = run[r].left
  BY <1>2, <1>5 DEF RunnerState
<1>7. /\ RunnerFrozen(F, r)'
      /\ Awaited(r)' => \A q \in Runner : Awaited(q) => q = r
  BY <1>1, <1>6, LaneFrozen
<1>8. /\ \A q \in Runner : RunnerFrozen(F, q)'
      /\ \A q, v \in Runner : Awaited(q)' /\ Awaited(v)' => q = v
  BY <1>1, <1>7, OthersFrozen
<1> HIDE DEF s, u
<1>9. \A b \in handled' : \E t \in F : \E p \in Partition :
            b = InPartition(p, t.first, t.last)
  BY <1>1, <1>3, <1>4 DEF Frozen
<1>10. /\ \A t, v \in F : t = v \/ t.last < v.first \/ v.last < t.first
       /\ group # None => Span(group) \in F /\ checkpoint < group.first
       /\ \A t \in F : t.last <= checkpoint \/ (group # None /\ t = Span(group))
  BY DEF Frozen
<1>11. \A b \in handled' : \E t \in F : \E p \in Partition :
            b = InPartition(p, t.first, t.last)'
  BY <1>1, <1>9 DEF InPartition
<1> QED
  BY <1>1, <1>8, <1>10, <1>11 DEF Frozen, Span

\* A new group lies behind all that were frozen before.
LEMMA FrozenInsert ==
    ASSUME IInv, NEW F \in SUBSET Spans, Frozen(F), NEW r \in Runner,
           Insert(r), group = None
    PROVE  \E G \in SUBSET Spans : Frozen(G)'
<1> DEFINE f == run[r].first
           l == run[r].last
           s == Working(run[r], f, l, f..l)
<1>0. PICK G : G = F \cup {Span(run[r])}
  OBVIOUS
<1>1. /\ group' = [first |-> f, last |-> l, done |-> {}] /\ Set(r, s)
      /\ run[r].pc = "insert" /\ UNCHANGED <<log, checkpoint, handled>>
  BY DEF Insert, stream
<1>2. /\ TypeOK /\ run[r] \in RunnerState /\ RunnerFrozen(F, r)
      /\ checkpoint \in Nat /\ Len(log) \in Nat
      /\ f \in Nat /\ l \in Nat
  BY Bounds, LenProperties DEF IInv, TypeOK, Frozen, RunnerState
<1>3. f = checkpoint + 1 /\ f <= l /\ l <= Len(log)
  BY <1>1, <1>2 DEF RunnerFrozen, HasPage, IInv, RunnerInv
<1>4. run'[r] = s
  BY <1>1, <1>2, SetValue
<1>5. /\ run'[r].pc = "work" /\ run'[r].first = f /\ run'[r].last = l
      /\ run'[r].left = f..l
  BY <1>2, <1>4 DEF RunnerState, Working
<1>6. \A q \in Runner : Awaited(q) => q = r
  BY <1>1 DEF Awaited, Frozen
<1>7. Span(run[r]) = [first |-> f, last |-> l] /\ Span(run[r]) \in Spans
  BY <1>2, <1>3 DEF Span, Spans
<1> HIDE DEF f, l
<1>8. RunnerFrozen(G, r)'
  BY <1>0, <1>1, <1>5, <1>7
  DEF RunnerFrozen, HasWork, HasPage, InPartition, Span
<1>9. /\ \A q \in Runner : RunnerFrozen(G, q)'
      /\ \A q, v \in Runner : Awaited(q)' /\ Awaited(v)' => q = v
  BY <1>0, <1>1, <1>6, <1>8, OthersFrozen
<1>10. group' # None /\ Span(group)' = Span(run[r]) /\ group'.first = f
  <2>1. group' \in [first : Nat, last : Nat, done : SUBSET Partition]
    BY <1>1, <1>2
  <2> QED
    BY <1>1, <1>7, <2>1, ProcessorAssumption DEF Span
<1>11. \A t \in F : t.last \in Nat /\ t.first \in Nat /\ t.last <= checkpoint
  BY DEF Frozen, Spans
<1>12. \A t, v \in G : t = v \/ t.last < v.first \/ v.last < t.first
  BY <1>0, <1>2, <1>3, <1>7, <1>11 DEF Frozen
<1>13. \A b \in handled : \E t \in G : \E p \in Partition :
            b = InPartition(p, t.first, t.last)'
  BY <1>0, <1>1 DEF Frozen, InPartition
<1>14. checkpoint < f
  BY <1>2, <1>3
<1>15. Frozen(G)'
  BY <1>0, <1>1, <1>9, <1>10, <1>11, <1>12, <1>13, <1>14 DEF Frozen
<1> QED
  BY <1>0, <1>7, <1>15

\* The completed group joins those behind the checkpoint.
LEMMA FrozenComplete ==
    ASSUME IInv, NEW F \in SUBSET Spans, Frozen(F), NEW r \in Runner,
           Complete(r), AllMarked(r)
    PROVE  Frozen(F)'
<1>1. /\ group' = None /\ checkpoint' = Advanced(run[r].last)
      /\ Set(r, NextRound(r)) /\ run[r].pc = "work" /\ mode = "batch"
      /\ UNCHANGED <<log, handled>>
      /\ group # None /\ group.first = run[r].first /\ group.last = run[r].last
  BY DEF Complete, AllMarked, Holds, stream
<1>2. /\ TypeOK /\ run[r] \in RunnerState /\ RunnerFrozen(F, r)
      /\ checkpoint \in Nat /\ run[r].last \in Nat /\ run[r].first \in Nat
      /\ run[r].first <= run[r].last
  BY <1>1, Bounds, LenProperties DEF IInv, TypeOK, Frozen, RunnerState
<1>3. checkpoint' = run[r].last /\ checkpoint < run[r].last
  BY <1>1, <1>2 DEF Frozen, Advanced, Greatest
<1>4. run'[r] = NextRound(r)
  BY <1>1, <1>2, SetValue
<1>5. \/ run'[r] = Stopped
      \/ /\ run'[r].pc = "look" /\ run'[r].at = run[r].last
         /\ run'[r].left = {}
  BY <1>1, <1>4 DEF NextRound, Stopped
<1>6. RunnerFrozen(F, r)'
  <2>1. CASE run'[r] = Stopped
    BY <2>1, StoppedFrozen
  <2>2. CASE /\ run'[r].pc = "look" /\ run'[r].at = run[r].last
             /\ run'[r].left = {}
    BY <1>3, <2>2 DEF RunnerFrozen, HasPage, HasWork
  <2> QED
    BY <1>5, <2>1, <2>2
<1>7. \A q \in Runner : Awaited(q) => q = r
  BY <1>1 DEF Awaited, Frozen
<1>8. /\ \A q \in Runner : RunnerFrozen(F, q)'
      /\ \A q, v \in Runner : Awaited(q)' /\ Awaited(v)' => q = v
  BY <1>1, <1>6, <1>7, OthersFrozen
<1>9. \A t \in F : t.last <= checkpoint'
  <2> SUFFICES ASSUME NEW t \in F PROVE t.last <= checkpoint'
    OBVIOUS
  <2>1. t.last \in Nat
    BY DEF Spans
  <2>2. t.last <= checkpoint \/ t.last = run[r].last
    BY <1>1 DEF Frozen, Span
  <2> QED
    BY <1>2, <1>3, <2>1, <2>2
<1>10. \A b \in handled : \E t \in F : \E p \in Partition :
            b = InPartition(p, t.first, t.last)'
  BY <1>1 DEF Frozen, InPartition
<1>11. \A t, v \in F : t = v \/ t.last < v.first \/ v.last < t.first
  BY DEF Frozen
<1> QED
  BY <1>1, <1>8, <1>9, <1>10, <1>11 DEF Frozen

\* Appended events change no group.
LEMMA FrozenProduce ==
    ASSUME IInv, NEW F \in SUBSET Spans, Frozen(F),
           NEW p \in Partition, Produce(p)
    PROVE  Frozen(F)' /\ F \in SUBSET Spans'
<1>1. log' = Append(log, p) /\ UNCHANGED <<run, checkpoint, group, handled>>
  BY DEF Produce, tables
<1>2. /\ Len(log) \in Nat /\ Len(log') = Len(log) + 1
      /\ \A i \in 1..Len(log) : log'[i] = log[i]
  BY <1>1, AppendProperties, LenProperties DEF IInv, TypeOK
<1>3. ASSUME NEW q, NEW f \in Nat, NEW l \in Nat, 1 <= f, l <= Len(log)
      PROVE  InPartition(q, f, l)' = InPartition(q, f, l)
  BY <1>2, <1>3 DEF InPartition
<1>4. F \in SUBSET Spans'
  BY <1>2 DEF Spans
<1>5. ASSUME NEW b \in handled
      PROVE  \E t \in F : \E q \in Partition :
                b = InPartition(q, t.first, t.last)'
  <2>1. PICK t \in F, q \in Partition : b = InPartition(q, t.first, t.last)
    BY <1>5 DEF Frozen
  <2>2. /\ t.first \in Nat /\ t.last \in Nat
        /\ 1 <= t.first /\ t.last <= Len(log)
    BY <1>2, <2>1 DEF Spans
  <2> QED
    BY <1>3, <2>1, <2>2
<1>6. ASSUME NEW r \in Runner
      PROVE  RunnerFrozen(F, r)'
  <2>1. /\ RunnerFrozen(F, r) /\ run[r].left \subseteq InHand(r)
        /\ HasWork(r) => 1 <= run[r].first
        /\ ~HasWork(r) => run[r].left = {}
        /\ run[r].last <= Len(log)
    BY DEF Frozen, IInv, RunnerInv
  <2>2. run[r].first \in Nat /\ run[r].last \in Nat
    BY Bounds DEF IInv, TypeOK, RunnerState
  <2>3. ASSUME NEW e \in run[r].left
        PROVE  {d \in run[r].first..run[r].last : log'[d] = log'[e]}
                    \subseteq run[r].left
    <3>1. HasWork(r) /\ e \in 1..Len(log)
      BY <1>2, <2>1, <2>2, <2>3 DEF InHand
    <3>2. log'[e] = log[e]
      BY <1>2, <3>1
    <3>3. InPartition(log[e], run[r].first, run[r].last) \subseteq run[r].left
      BY <2>1, <2>3 DEF RunnerFrozen
    <3>4. {d \in run[r].first..run[r].last : log'[d] = log[e]}
            = {d \in run[r].first..run[r].last : log[d] = log[e]}
      BY <1>2, <2>1, <2>2, <3>1
    <3> QED
      BY <1>1, <3>2, <3>3, <3>4 DEF InPartition
  <2> QED
    BY <1>1, <2>1, <2>3
    DEF RunnerFrozen, HasWork, HasPage, Span, InPartition
<1>7. \A q, r \in Runner : Awaited(q)' /\ Awaited(r)' => q = r
  BY <1>1 DEF Frozen, Awaited
<1>8. Frozen(F)'
  BY <1>1, <1>5, <1>6, <1>7 DEF Frozen, Span
<1> QED
  BY <1>4, <1>8

\* With one replica a crash ends every runner.
LEMMA FrozenCrash ==
    ASSUME IInv, replicas = 1, NEW F \in SUBSET Spans, Frozen(F),
           NEW r \in Runner, Crash(r)
    PROVE  Frozen(F)'
<1>1. /\ \A q \in Runner : run'[q] = Stopped
      /\ UNCHANGED <<log, checkpoint, group, handled>>
  BY DEF Crash, stream, tables
<1>2. \A q \in Runner : RunnerFrozen(F, q)' /\ ~Awaited(q)'
  BY <1>1, StoppedFrozen
<1>3. \A b \in handled : \E t \in F : \E p \in Partition :
            b = InPartition(p, t.first, t.last)'
  BY <1>1 DEF Frozen, InPartition
<1> QED
  BY <1>1, <1>2, <1>3 DEF Frozen, Span

\* At first no group was frozen.
LEMMA InitMInv == Init => MInv
<1> SUFFICES ASSUME Init PROVE Frozen({})
  BY DEF MInv
<1>1. \A r \in Runner : run[r] = Stopped
  BY DEF Init
<1>2. \A r \in Runner : RunnerFrozen({}, r) /\ ~Awaited(r)
  BY <1>1 DEF Stopped, RunnerFrozen, Awaited, HasPage, HasWork
<1> QED
  BY <1>2 DEF Init, Frozen

\* Every step keeps the groups disjoint.
LEMMA NextMInv == IInv /\ MInv /\ [Next]_vars => MInv'
<1> SUFFICES ASSUME IInv, MInv, [Next]_vars, mode' = "batch", replicas' = 1
             PROVE  \E G \in SUBSET Spans' : Frozen(G)'
  BY DEF MInv
<1>1. UNCHANGED config
  BY DEF Next, Produce, Trim, Step, Start, Look, ReadEvents, ReadBatch,
         ReadNothing, ReportGap, Freeze, Insert, Handle, Pause, DeadLetter,
         DeadLetterFails, Mark, MarkFails, Drained, Paused, Advance, Complete,
         StoreFails, Crash, vars
<1>2. mode = "batch" /\ replicas = 1
  BY <1>1 DEF config
<1>3. PICK F \in SUBSET Spans : Frozen(F)
  BY <1>2 DEF MInv
<1>4. CASE \E p \in Partition : Produce(p)
  BY <1>3, <1>4, FrozenProduce
<1>5. CASE Trim \/ UNCHANGED vars
  <2>1. UNCHANGED <<log, checkpoint, group, handled, run>>
    BY <1>5 DEF Trim, vars, stream, tables
  <2> QED
    BY <1>3, <2>1
    DEF Frozen, Spans, Span, RunnerFrozen, Awaited, HasPage, HasWork,
        InPartition
<1>6. ASSUME NEW r \in Runner,
             \/ Step(r) \/ StoreFails(r) \/ Crash(r)
             \/ \E e \in 1..MaxSequence : DeadLetterFails(r, e)
             \/ \E p \in Partition : MarkFails(r, p)
      PROVE  \E G \in SUBSET Spans' : Frozen(G)'
  <2>1. Spans' = Spans
    BY <1>6
    DEF Spans, Step, Start, Look, ReadEvents, ReadBatch, ReadNothing,
        ReportGap, Freeze, Insert, Handle, Pause, DeadLetter, DeadLetterFails,
        Mark, MarkFails, Drained, Paused, Advance, Complete, StoreFails, Crash,
        stream
  <2>2. CASE Start(r) \/ Look(r) \/ ReadBatch(r) \/ Freeze(r)
    BY <1>2, <1>3, <2>1, <2>2, FrozenRead
  <2>3. CASE \/ \E e \in 1..MaxSequence :
                   Pause(r, e) \/ DeadLetter(r, e) \/ DeadLetterFails(r, e)
             \/ \E p \in Partition : Mark(r, p) \/ MarkFails(r, p)
    BY <1>2, <1>3, <2>1, <2>3, FrozenWork
  <2>4. CASE \E e \in 1..MaxSequence : Handle(r, e)
    BY <1>2, <1>3, <2>1, <2>4, FrozenHandle
  <2>5. CASE Insert(r) /\ group = None
    BY <1>3, <2>1, <2>5, FrozenInsert
  <2>6. CASE Complete(r) /\ AllMarked(r)
    BY <1>3, <2>1, <2>6, FrozenComplete
  <2>7. CASE \/ ReadNothing(r) \/ ReportGap(r) \/ Drained(r) \/ Paused(r)
             \/ StoreFails(r)
             \/ Insert(r) /\ group # None
             \/ Complete(r) /\ ~AllMarked(r)
    <3>1. Set(r, Stopped) /\ UNCHANGED <<log, checkpoint, handled, group>>
      BY <2>7
      DEF ReadNothing, ReportGap, Drained, Paused, Insert, Complete,
          StoreFails, stream, tables
    <3> QED
      BY <1>3, <2>1, <3>1, FrozenStop
  <2>8. CASE ReadEvents(r) \/ Advance(r)
    BY <1>2, <2>8 DEF ReadEvents, Advance
  <2>9. CASE Crash(r)
    BY <1>2, <1>3, <2>1, <2>9, FrozenCrash
  <2> QED
    BY <1>6, <2>2, <2>3, <2>4, <2>5, <2>6, <2>7, <2>8, <2>9 DEF Step
<1> QED
  BY <1>4, <1>5, <1>6 DEF Next

\* With one replica, the batch processor never hands an event to its handler
\* in two different batches, for any number of lanes that outlive their
\* invocation, crashes, failed marks and failed dead letters: the batch id is
\* an idempotency key.
THEOREM BatchesAreFrozen == Spec => []OneManifest
<1>1. IInv /\ MInv => OneManifest
  BY FrozenBatches DEF MInv, OneManifest
<1> QED
  BY Initially, Inductive, InitMInv, NextMInv, <1>1, PTL DEF Spec

=============================================================================
