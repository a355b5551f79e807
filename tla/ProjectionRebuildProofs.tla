----------------------- MODULE ProjectionRebuildProofs -----------------------
(***************************************************************************)
(* Type correctness of ProjectionRebuild, and that every published         *)
(* generation has its evidence.  The first holds whatever faults happen,   *)
(* the second as long as names are not reused and no generation is retired *)
(* under an attempt; a stalled attempt can spoil rows, but not the         *)
(* manifest or the high water.                                             *)
(***************************************************************************)
EXTENDS ProjectionRebuild, FiniteSetTheorems, SequenceTheorems, TLAPS

\* Where no page of the source has been read yet.
Early == {"idle", "captured", "begin", "reset", "resetRows", "resetMeta"}

\* What the steps of an attempt take for granted about its local state.
AttemptOK(a) ==
    /\ Running(a) => captured[a] # None
    /\ pc[a] \in {"idle", "captured"} => found[a] = None
    /\ pc[a] \in Early => after[a] = 0 /\ asOf[a] = 0
    /\ pc[a] \in {"apply", "advance"} => todo[a] # <<>>
    /\ pc[a] = "apply" => Head(todo[a]).member # None

\* And the steps of a worker.
WorkerOK(w) ==
    /\ wpc[w] \notin {"idle", "read"} => pos[w] < tail
    /\ wpc[w] \in {"idle", "read"} => tries[w] = 0
    /\ wpc[w] = "generation" => tries[w] < MaxTries

\* The inductive invariant for types.
TInv ==
    /\ TypeOK
    /\ \A a \in Attempt : AttemptOK(a)
    /\ \A w \in Worker : WorkerOK(w)
    /\ rpc # "idle" => retiring \in Generation

-----------------------------------------------------------------------------
(* The data: the last change of a member, pages and writes *)

\* A non-empty set of naturals has a least element.
LEMMA LeastNatural ==
    ASSUME NEW S \in SUBSET Nat, S # {}
    PROVE  \E n \in S : \A i \in S : n <= i
<1>. DEFINE R == {ss \in Nat \X Nat : ss[1] < ss[2]}
<1>1. IsWellFoundedOn(R, Nat)
  BY NatLessThanWellFounded DEF OpToRel
<1>2. \A i, n \in Nat : i < n => <<i, n>> \in R
  OBVIOUS
<1>. HIDE DEF R
<1>3. PICK n \in S : \A i \in S : ~(<<i, n>> \in R)
  BY <1>1, WFMin
<1>4. \A i \in S : ~(i < n)
  BY <1>2, <1>3
<1>. QED
  BY <1>4

\* A non-empty set of naturals up to k has a greatest element.
LEMMA GreatestNatural ==
    ASSUME NEW k \in Nat, NEW S \in SUBSET (0..k), S # {}
    PROVE  \E n \in S : \A i \in S : i <= n
<1>. DEFINE T == {n \in Nat : \A i \in S : i <= n}
<1>1. k \in T
  OBVIOUS
<1>2. PICK n \in T : \A i \in T : n <= i
  BY <1>1, LeastNatural
<1>3. n \in S
  <2>1. SUFFICES ASSUME n \notin S PROVE FALSE
    OBVIOUS
  <2>2. \A i \in S : i < n
    BY <2>1, <1>2
  <2>3. n \in Nat /\ n # 0
    <3>1. PICK j \in S : j < n
      BY <2>2
    <3>. QED
      BY <3>1
  <2>4. n - 1 \in T
    BY <2>2, <2>3
  <2>. QED
    BY <2>4, <1>2, <2>3
<1>. QED
  BY <1>2, <1>3

\* What LastChange is: an event up to k about m, or 0, and no later one.
LEMMA LastChangeIs ==
    ASSUME NEW m, NEW k \in Nat
    PROVE  /\ Online!LastChange(m, k) \in 0..k
           /\ Online!LastChange(m, k) # 0
                => EventOf[Online!LastChange(m, k)].member = m
           /\ \A i \in 1..k :
                EventOf[i].member = m => i <= Online!LastChange(m, k)
<1>. DEFINE about == {n \in 1..k : EventOf[n].member = m}
            last == CHOOSE n \in about : \A i \in about : i <= n
<1>1. Online!LastChange(m, k) = IF about = {} THEN 0 ELSE last
  BY DEF Online!LastChange
<1>2. about # {} => last \in about /\ \A i \in about : i <= last
  <2>1. about \in SUBSET (0..k)
    OBVIOUS
  <2>. HIDE DEF about
  <2>2. about # {} => \E n \in about : \A i \in about : i <= n
    BY <2>1, GreatestNatural
  <2>. QED
    BY <2>2
<1>. HIDE DEF last
<1>. QED
  BY <1>1, <1>2

\* Later events change a member or leave its last change where it was.
LEMMA LastChangeMonotone ==
    ASSUME NEW m, NEW k \in Nat, NEW l \in Nat, k <= l
    PROVE  /\ Online!LastChange(m, k) <= Online!LastChange(m, l)
           /\ Online!LastChange(m, l) <= k
                => Online!LastChange(m, k) = Online!LastChange(m, l)
<1>1. /\ Online!LastChange(m, k) \in 0..k
      /\ Online!LastChange(m, l) \in 0..l
  BY LastChangeIs
<1>2. Online!LastChange(m, k) <= Online!LastChange(m, l)
  <2>1. CASE Online!LastChange(m, k) = 0
    BY <2>1, <1>1
  <2>2. CASE Online!LastChange(m, k) # 0
    BY <2>2, <1>1, LastChangeIs
  <2>. QED
    BY <2>1, <2>2
<1>3. ASSUME Online!LastChange(m, l) <= k
      PROVE  Online!LastChange(m, l) <= Online!LastChange(m, k)
  <2>1. CASE Online!LastChange(m, l) = 0
    BY <2>1, <1>1
  <2>2. CASE Online!LastChange(m, l) # 0
    BY <2>2, <1>1, <1>3, LastChangeIs
  <2>. QED
    BY <2>1, <2>2
<1>. QED
  BY <1>1, <1>2, <1>3

\* An event is the last change of its member, and of no other one.
LEMMA LastChangeAtEvent ==
    ASSUME NEW m, NEW n \in Nat \ {0}
    PROVE  IF EventOf[n].member = m THEN Online!LastChange(m, n) = n
           ELSE Online!LastChange(m, n) <= n - 1
BY LastChangeIs

\* What a member shows is an event up to k, and nothing at the beginning.
LEMMA ShownIs ==
    ASSUME NEW m, NEW k \in Nat
    PROVE  /\ Online!Shown(m, k) \in 0..k
           /\ k = 0 => Online!Shown(m, k) = 0
BY LastChangeIs DEF Online!Shown

\* Between two changes of a member its row stays what it was.
LEMMA ShownUnchanged ==
    ASSUME NEW m, NEW k \in Nat, NEW l \in Nat, k <= l,
           Online!LastChange(m, l) <= k
    PROVE  Online!Shown(m, k) = Online!Shown(m, l)
BY LastChangeMonotone DEF Online!Shown

\* projectEvents() writes what the event's member shows after it.
LEMMA EventWriteIs ==
    ASSUME NEW n \in 1..MaxSequence
    PROVE  /\ EventWrite(n) \in Writes(n)
           /\ EventWrite(n).sequence = n
           /\ EventWrite(n).member = EventOf[n].member
           /\ EventWrite(n).member \in Member
           /\ EventWrite(n).member # None
           /\ EventWrite(n).value = Online!Shown(EventOf[n].member, n)
<1>1. EventOf[n].member \in Member /\ EventOf[n].member # None
  BY RebuildAssumption
<1>2. Online!LastChange(EventOf[n].member, n) = n
  BY LastChangeAtEvent, RebuildAssumption
<1>. QED
  BY <1>1, <1>2 DEF EventWrite, Write, Writes, Online!Shown

\* source.read() returns no event twice and none beyond the stream.
LEMMA PageEndIs ==
    ASSUME StreamType, NEW n \in 0..tail
    PROVE  PageEnd(n) \in n..tail
BY RebuildAssumption DEF PageEnd, StreamType

\* The writes of l consecutive events after n.
LEMMA EventWritesAre ==
    ASSUME StreamType, NEW n \in Nat, NEW l \in Nat, n + l <= tail, NEW s,
           s = EventWrites([i \in 1..l |-> n + i])
    PROVE  /\ s \in Seq(Writes(tail))
           /\ Len(s) = l
           /\ \A i \in 1..l : s[i] = EventWrite(n + i)
<1>1. tail \in Nat /\ tail <= MaxSequence /\ MaxSequence \in Nat
  BY RebuildAssumption DEF StreamType
<1>2. s = [i \in 1..l |-> EventWrite(n + i)]
  BY DEF EventWrites
<1>3. \A i \in 1..l : EventWrite(n + i) \in Writes(tail)
  <2>1. SUFFICES ASSUME NEW i \in 1..l PROVE EventWrite(n + i) \in Writes(tail)
    OBVIOUS
  <2>2. n + i \in 1..MaxSequence /\ n + i <= tail
    BY <1>1
  <2>3. EventWrite(n + i) \in Writes(n + i)
    BY <2>2, EventWriteIs
  <2>. QED
    BY <2>2, <2>3, <1>1 DEF Writes
<1>4. s \in [1..l -> Writes(tail)]
  BY <1>2, <1>3
<1>. QED
  BY <1>2, <1>4

\* The last element of a sequence stays the last until it is the only one.
LEMMA TailLast ==
    ASSUME NEW S, NEW s \in Seq(S), s # <<>>
    PROVE  IF Len(s) = 1 THEN Head(s) = s[Len(s)]
           ELSE Tail(s) # <<>> /\ Tail(s)[Len(Tail(s))] = s[Len(s)]
<1>1. Len(s) \in Nat \ {0}
  BY EmptySeq
<1>2. /\ Tail(s) \in Seq(S)
      /\ Len(Tail(s)) = Len(s) - 1
      /\ \A i \in 1..Len(Tail(s)) : Tail(s)[i] = s[i + 1]
  BY HeadTailProperties
<1>3. CASE Len(s) = 1
  BY <1>1, <1>3
<1>4. CASE Len(s) # 1
  <2>. DEFINE l == Len(Tail(s))
  <2>1. l \in 1..Len(Tail(s)) /\ l + 1 = Len(s)
    BY <1>1, <1>2, <1>4
  <2>2. Tail(s)[l] = s[l + 1]
    BY <1>2, <2>1
  <2>3. Tail(s) # <<>>
    <3>1. Len(<<>>) = 0 /\ Len(Tail(s)) # 0
      BY <1>1, <1>2, <1>4, EmptySeq
    <3>. QED
      BY <3>1
  <2>4. Tail(s)[Len(Tail(s))] = s[Len(s)]
    BY <2>1, <2>2
  <2>. QED
    BY <1>4, <2>3, <2>4
<1>. QED
  BY <1>3, <1>4

\* The writes of a replay of the first l events.
LEMMA ReplayWritesAre ==
    ASSUME StreamType, NEW l \in 0..tail, NEW s,
           s = EventWrites([i \in 1..l |-> i])
    PROVE  /\ s \in Seq(Writes(tail))
           /\ Len(s) = l
           /\ \A i \in 1..l : s[i] = EventWrite(i)
<1>. DEFINE zero == 0
<1>1. zero \in Nat /\ l \in Nat /\ zero + l <= tail
  BY RebuildAssumption DEF StreamType
<1>2. \A i \in 1..l : zero + i = i
  BY <1>1
<1>. HIDE DEF zero
<1>3. [i \in 1..l |-> zero + i] = [i \in 1..l |-> i]
  BY <1>2
<1>4. s = EventWrites([i \in 1..l |-> zero + i])
  BY <1>3
<1>5. /\ s \in Seq(Writes(tail))
      /\ Len(s) = l
      /\ \A i \in 1..l : s[i] = EventWrite(zero + i)
  BY <1>1, <1>4, EventWritesAre
<1>. QED
  BY <1>2, <1>5

\* The sequence SetToSeq chooses for a finite set lists exactly its elements.
LEMMA SetToSeqIs ==
    ASSUME NEW S, IsFiniteSet(S)
    PROVE  /\ SetToSeq(S) \in Seq(S)
           /\ \A x \in S : \E i \in 1..Len(SetToSeq(S)) : SetToSeq(S)[i] = x
<1>. DEFINE n == Cardinality(S)
            f == SetToSeq(S)
<1>1. n \in Nat /\ ExistsBijection(1..n, S)
  BY FS_CardinalityType
<1>2. \E g \in [1..n -> S] : IsInjective(g)
  BY <1>1 DEF ExistsBijection, Bijection, Injection
<1>3. f \in [1..n -> S] /\ IsInjective(f)
  BY <1>2 DEF SetToSeq
<1>4. f \in Injection(1..n, S)
  BY <1>3 DEF Injection
<1>5. Cardinality(1..n) = n
  BY <1>1, FS_Interval
<1>6. f \in Surjection(1..n, S)
  BY <1>4, <1>5, FS_Injection
<1>. HIDE DEF f, n
<1>7. f \in Seq(S) /\ Len(f) = n
  BY <1>1, <1>3
<1>. QED
  BY <1>6, <1>7 DEF Surjection, f

\* The writes s of a snapshot with watermark n that reflects k events: each
\* at the watermark, and one for every member that has a row.
SnapshotList(s, n, k) ==
    /\ s # <<>>
    /\ \A i \in 1..Len(s) :
         /\ s[i].sequence = n
         /\ s[i].member # None => s[i].value = Online!Shown(s[i].member, k)
    /\ \A m \in Member : Online!Shown(m, k) = 0
                           \/ \E i \in 1..Len(s) : s[i].member = m

\* A snapshot is written member by member as it shows them at k, and then
\* comes the empty write; all of them carry the watermark n.
LEMMA SnapshotWritesAre ==
    ASSUME StreamType, NEW n \in 0..tail, NEW k \in 0..tail, NEW s,
           s = SnapshotWrites(n, k)
    PROVE  s \in Seq(Writes(tail)) /\ SnapshotList(s, n, k)
<1>. DEFINE present == {m \in Member : Online!Shown(m, k) # 0}
            order == SetToSeq(present)
            body == [i \in DOMAIN order |->
                        Write(n, order[i], Online!Shown(order[i], k))]
            last == <<Write(n, None, 0)>>
<1>0. tail \in Nat /\ n \in Nat /\ k \in Nat
  BY RebuildAssumption DEF StreamType
<1>1. s = body \o last
  BY DEF SnapshotWrites
<1>2. /\ order \in Seq(present)
      /\ \A m \in present : \E i \in 1..Len(order) : order[i] = m
  <2>1. IsFiniteSet(present)
    BY RebuildAssumption, FS_Subset
  <2>. QED
    BY <2>1, SetToSeqIs
<1>. HIDE DEF order
<1>3. /\ Len(order) \in Nat /\ DOMAIN order = 1..Len(order)
      /\ \A i \in 1..Len(order) : order[i] \in present
  BY <1>2
<1>4. /\ body \in Seq(Writes(tail))
      /\ Len(body) = Len(order)
      /\ \A i \in 1..Len(order) :
            body[i] = Write(n, order[i], Online!Shown(order[i], k))
  <2>1. \A i \in 1..Len(order) :
            Write(n, order[i], Online!Shown(order[i], k)) \in Writes(tail)
    BY <1>0, <1>3, ShownIs DEF Write, Writes
  <2>2. body \in [1..Len(order) -> Writes(tail)]
    BY <1>3, <2>1
  <2>. QED
    BY <1>3, <2>2
<1>5. last \in Seq(Writes(tail)) /\ Len(last) = 1 /\ last[1] = Write(n, None, 0)
  BY <1>0 DEF Write, Writes
<1>. HIDE DEF body, last
<1>6. /\ s \in Seq(Writes(tail))
      /\ Len(s) = Len(order) + 1
      /\ \A i \in 1..Len(order) : s[i] = body[i]
      /\ s[Len(order) + 1] = Write(n, None, 0)
  <2>1. /\ body \o last \in Seq(Writes(tail))
        /\ Len(body \o last) = Len(body) + Len(last)
        /\ \A i \in 1..Len(body) + Len(last) :
              (body \o last)[i] = IF i <= Len(body) THEN body[i]
                                  ELSE last[i - Len(body)]
    BY <1>4, <1>5, ConcatProperties
  <2>2. s[Len(order) + 1] = last[1]
    BY <1>1, <1>3, <1>4, <1>5, <2>1
  <2>. QED
    BY <1>1, <1>3, <1>4, <1>5, <2>1, <2>2
<1>7. \A i \in 1..Len(s) :
                /\ s[i].sequence = n
                /\ s[i].member # None =>
                        s[i].value = Online!Shown(s[i].member, k)
  <2>1. SUFFICES ASSUME NEW i \in 1..Len(s)
                 PROVE  /\ s[i].sequence = n
                        /\ s[i].member # None =>
                                s[i].value = Online!Shown(s[i].member, k)
    OBVIOUS
  <2>2. CASE i = Len(order) + 1
    BY <2>2, <1>6 DEF Write
  <2>3. CASE i \in 1..Len(order)
    <3>1. s[i] = Write(n, order[i], Online!Shown(order[i], k))
      BY <2>3, <1>4, <1>6
    <3>. QED
      BY <3>1 DEF Write
  <2>. QED
    BY <2>2, <2>3, <1>3, <1>6
<1>8. \A m \in present : \E i \in 1..Len(s) : s[i].member = m
  <2>1. SUFFICES ASSUME NEW m \in present
                 PROVE  \E i \in 1..Len(s) : s[i].member = m
    OBVIOUS
  <2>2. PICK i \in 1..Len(order) : order[i] = m
    BY <1>2
  <2>3. s[i].member = m /\ i \in 1..Len(s)
    <3>1. s[i] = Write(n, order[i], Online!Shown(order[i], k))
      BY <1>4, <1>6
    <3>. QED
      BY <2>2, <3>1, <1>3, <1>6 DEF Write
  <2>. QED
    BY <2>3
<1>9. s # <<>>
  BY <1>3, <1>6
<1>10. \A m \in Member : Online!Shown(m, k) = 0
                           \/ \E i \in 1..Len(s) : s[i].member = m
  BY <1>8
<1>. QED
  BY <1>6, <1>7, <1>9, <1>10 DEF SnapshotList

-----------------------------------------------------------------------------
(* Frames *)

\* The local state of an attempt, of every other attempt or of every other
\* worker is left alone.
SameAttempt(b) ==
    /\ pc'[b] = pc[b] /\ captured'[b] = captured[b]
    /\ found'[b] = found[b] /\ after'[b] = after[b]
    /\ asOf'[b] = asOf[b] /\ todo'[b] = todo[b]
    /\ round'[b] = round[b] /\ lastPage'[b] = lastPage[b]

OthersSame(a) == \A b \in Attempt \ {a} : SameAttempt(b)

OtherWorkersSame(w) ==
    \A v \in Worker \ {w} :
        /\ wpc'[v] = wpc[v] /\ pos'[v] = pos[v]
        /\ gen'[v] = gen[v] /\ tries'[v] = tries[v]

\* A step of one attempt leaves the local state of the others, the workers
\* and the stream alone.
LEMMA AttemptFrame ==
    ASSUME TypeOK, NEW a \in Attempt, AttemptStep(a) \/ Crash(a)
    PROVE  /\ OthersSame(a)
           /\ UNCHANGED <<stream, workerVars, retirement>>
<1>. USE DEF TypeOK, AttemptType, OthersSame, SameAttempt, Go, End, stream,
             workerVars, attemptVars
<1>1. CASE Capture(a)
  BY <1>1 DEF Capture
<1>2. CASE Recover(a)
  BY <1>2 DEF Recover
<1>3. CASE Begin(a)
  BY <1>3 DEF Begin
<1>4. CASE Reset(a) \/ ResetRows(a) \/ ResetMeta(a)
  BY <1>4 DEF Reset, ResetRows, ResetMeta
<1>5. CASE ScanPage(a) \/ ScanSnapshot(a) \/ Load(a)
  BY <1>5 DEF ScanPage, ScanSnapshot, Load
<1>6. CASE Renew(a) \/ CheckEvent(a)
  BY <1>6 DEF Renew, CheckEvent
<1>7. CASE ApplyEvent(a) \/ AdvanceEvent(a)
  BY <1>7 DEF ApplyEvent, AdvanceEvent
<1>8. CASE Written(a) \/ PutManifest(a) \/ CatchUp(a)
  BY <1>8 DEF Written, PutManifest, CatchUp
<1>9. CASE Publish(a) \/ Raced(a)
  BY <1>9 DEF Publish, Raced
<1>10. CASE Verify(a) \/ Fail(a) \/ Crash(a)
  BY <1>10 DEF Verify, Fail, Crash
<1>. QED
  BY <1>1, <1>2, <1>3, <1>4, <1>5, <1>6, <1>7, <1>8, <1>9, <1>10
  DEF AttemptStep

\* A step of one worker leaves the local state of the others, the attempts,
\* the stream, the manifests and the keys but the checkpoint alone.
LEMMA WorkerFrame ==
    ASSUME TypeOK, NEW w \in Worker, WorkerStep(w) \/ CrashWorker(w)
    PROVE  /\ OtherWorkersSame(w)
           /\ UNCHANGED <<stream, manifest, attemptVars, active, rebuilding,
                          lease, retirement>>
<1>. USE DEF TypeOK, WorkerType, OtherWorkersSame, Step, Stop, stream,
             workerVars, keys
<1>1. CASE StartWorker(w) \/ ReadNext(w) \/ StopWorker(w)
  BY <1>1 DEF StartWorker, ReadNext, StopWorker
<1>2. CASE PickGeneration(w) \/ WorkerApply(w) \/ WorkerAdvance(w)
  BY <1>2 DEF PickGeneration, WorkerApply, WorkerAdvance
<1>3. CASE WorkerCommit(w)
  BY <1>3 DEF WorkerCommit
<1>4. CASE WorkerCheckpoint(w) \/ CrashWorker(w)
  BY <1>4 DEF WorkerCheckpoint, CrashWorker
<1>. QED
  BY <1>1, <1>2, <1>3, <1>4 DEF WorkerStep

\* What a change at one argument leaves alone.
LEMMA ElsewhereSame ==
    ASSUME NEW S, NEW T, NEW f \in [S -> T], NEW y, NEW v
    PROVE  \A x \in S : x # y => [f EXCEPT ![y] = v][x] = f[x]
  OBVIOUS

\* A step of a retirement leaves the stream, the serving keys and the
\* processes alone; only its release touches the keys of a rebuild.
LEMMA RetirementFrame ==
    ASSUME RetirementStep
    PROVE  /\ UNCHANGED <<stream, active, checkpoint, attemptVars, workerVars>>
           /\ rpc = "idle" => UNCHANGED <<data, manifest, rebuilding, lease>>
           /\ \/ UNCHANGED <<rebuilding, lease>>
              \/ /\ rpc = "release"
                 /\ rebuilding' = None /\ lease' = None
           /\ spent \subseteq spent'
<1>. USE DEF RetireTo, keys
<1>1. ASSUME NEW g \in Retirable, StartRetirement(g)
      PROVE  UNCHANGED <<stream, keys, data, manifest, attemptVars, workerVars>>
             /\ rpc = "idle" /\ spent \subseteq spent'
  BY <1>1 DEF StartRetirement
<1>2. CASE RetireRows
  BY <1>2 DEF RetireRows
<1>3. CASE RetireMeta
  BY <1>3 DEF RetireMeta
<1>4. CASE RetireCheck \/ RetireRelease
  BY <1>4 DEF RetireCheck, RetireRelease
<1>5. CASE RetireEvidence
  BY <1>5 DEF RetireEvidence
<1>6. CASE RetirementFails
  BY <1>6 DEF RetirementFails
<1>. QED
  BY <1>1, <1>2, <1>3, <1>4, <1>5, <1>6 DEF RetirementStep

\* It deletes the rows, the high water and the manifest of its generation.
LEMMA RetirementDeletes ==
    ASSUME TypeOK, RetirementStep
    PROVE  /\ \A g \in Generation : g # retiring =>
                /\ rows'[g] = rows[g] /\ versions'[g] = versions[g]
                /\ highwater'[g] = highwater[g] /\ manifest'[g] = manifest[g]
           /\ \A g \in Generation : manifest'[g] \in {manifest[g], None}
<1>. USE DEF data
<1>1. /\ rows \in [Generation -> [Member -> 0..tail]]
      /\ versions \in [Generation -> [Member -> 0..tail]]
      /\ highwater \in [Generation -> 0..tail]
      /\ manifest \in [Generation -> Evidences(tail) \cup {None}]
  BY DEF TypeOK, StoreType
<1>2. ASSUME NEW g \in Retirable, StartRetirement(g)
      PROVE  UNCHANGED <<data, manifest>>
  BY <1>2 DEF StartRetirement
<1>3. CASE RetireRows
  <2>1. \A g \in Generation : g # retiring => rows'[g] = rows[g]
    BY <1>1, <1>3, ElsewhereSame DEF RetireRows
  <2>2. \A g \in Generation : g # retiring => versions'[g] = versions[g]
    BY <1>1, <1>3, ElsewhereSame DEF RetireRows
  <2>3. UNCHANGED <<highwater, manifest>>
    BY <1>3 DEF RetireRows
  <2>. QED
    BY <2>1, <2>2, <2>3
<1>4. CASE RetireMeta
  <2>1. \A g \in Generation : g # retiring => highwater'[g] = highwater[g]
    BY <1>1, <1>4, ElsewhereSame DEF RetireMeta
  <2>2. UNCHANGED <<rows, versions, manifest>>
    BY <1>4 DEF RetireMeta
  <2>. QED
    BY <2>1, <2>2
<1>5. CASE RetireCheck \/ RetireRelease \/ RetirementFails
  <2>1. UNCHANGED <<data, manifest>>
    BY <1>5 DEF RetireCheck, RetireRelease, RetirementFails
  <2>. QED
    BY <2>1
<1>6. CASE RetireEvidence
  <2>1. UNCHANGED data
    BY <1>6 DEF RetireEvidence
  <2>2. manifest' \in {manifest, [manifest EXCEPT ![retiring] = None]}
    BY <1>6 DEF RetireEvidence
  <2>3. \A g \in Generation : g # retiring => manifest'[g] = manifest[g]
    BY <1>1, <2>2, ElsewhereSame
  <2>4. \A g \in Generation : manifest'[g] \in {manifest[g], None}
    BY <1>1, <2>2
  <2>. QED
    BY <2>1, <2>3, <2>4
<1>. QED
  <2>1. UNCHANGED <<data, manifest>> \/ RetireRows \/ RetireMeta
        \/ RetireCheck \/ RetireRelease \/ RetireEvidence \/ RetirementFails
    BY <1>2 DEF RetirementStep
  <2>2. CASE UNCHANGED <<data, manifest>>
    BY <2>2
  <2>. QED
    BY <2>1, <2>2, <1>3, <1>4, <1>5, <1>6

-----------------------------------------------------------------------------
(* Type correctness *)

\* Evidence is what None is not.
LEMMA EvidenceIs ==
    ASSUME TypeOK, NEW a \in Attempt, found[a] = None => captured[a] # None
    PROVE  Evidence(a) \in Evidences(tail) /\ Evidence(a) # None
<1>1. tail \in 0..MaxSequence /\ MaxSequence \in Nat
  BY RebuildAssumption DEF TypeOK, StreamType
<1>2. Evidence(a) \in Evidences(tail)
  BY DEF TypeOK, AttemptType, Evidence, Evidences, States
<1>3. Evidences(tail) \subseteq Evidences(MaxSequence)
  BY <1>1 DEF Evidences
<1>. QED
  BY <1>2, <1>3, RebuildAssumption

\* Its watermark and the state it reflects are within the stream.
LEMMA EvidenceMarks ==
    ASSUME TypeOK, NEW a \in Attempt
    PROVE  /\ Evidence(a).watermark \in 0..tail /\ Evidence(a).watermark \in Nat
           /\ Evidence(a).asOf \in 0..tail /\ Evidence(a).asOf \in Nat
<1>1. tail \in Nat
  BY RebuildAssumption DEF TypeOK, StreamType
<1>. QED
  BY <1>1 DEF TypeOK, AttemptType, Evidence, Evidences

\* The return, the error and the death of an attempt leave it without state.
LEMMA EndTypes ==
    ASSUME TypeOK, NEW a \in Attempt, NEW label \in Ended, End(a, label),
           UNCHANGED tail
    PROVE  AttemptType' /\ AttemptOK(a)'
<1>1. tail \in Nat /\ 0 \in 0..MaxRounds
  BY RebuildAssumption DEF TypeOK, StreamType
<1>2. AttemptType'
  BY <1>1 DEF TypeOK, AttemptType, End, Go, Ended, Label
<1>3. pc'[a] = label
  BY DEF TypeOK, AttemptType, End, Go
<1>. QED
  BY <1>2, <1>3 DEF AttemptOK, Running, Ended, Early

\* A commit widens every range, and nothing else happens.
LEMMA CommitTypes ==
    ASSUME TInv, Commit
    PROVE  TInv'
<1>. USE DEF stream, keys, data, attemptVars, workerVars, retirement
<1>1. /\ tail \in Nat /\ tail' \in 0..MaxSequence
      /\ 0..tail \subseteq 0..tail'
  BY RebuildAssumption DEF Commit, TInv, TypeOK, StreamType
<1>2. /\ Evidences(tail) \subseteq Evidences(tail')
      /\ States(tail) \subseteq States(tail')
      /\ Writes(tail) \subseteq Writes(tail')
  BY <1>1 DEF Evidences, States, Writes
<1>3. StreamType'
  BY <1>1 DEF Commit, TInv, TypeOK, StreamType
<1>4. StoreType'
  BY <1>1, <1>2 DEF Commit, TInv, TypeOK, StoreType
<1>5. AttemptType'
  <2>1. Seq(Writes(tail)) \subseteq Seq(Writes(tail'))
    BY <1>2, SeqMonotonic
  <2>. QED
    BY <1>1, <1>2, <2>1 DEF Commit, TInv, TypeOK, AttemptType
<1>6. WorkerType'
  BY <1>1 DEF Commit, TInv, TypeOK, WorkerType
<1>7. \A a \in Attempt : AttemptOK(a)'
  BY DEF Commit, TInv, AttemptOK, Running
<1>8. \A w \in Worker : WorkerOK(w)'
  BY <1>1 DEF Commit, TInv, TypeOK, WorkerType, WorkerOK
<1>9. RetirementType' /\ (rpc' # "idle" => retiring' \in Generation)
  BY DEF Commit, TInv, TypeOK, RetirementType
<1>. QED
  BY <1>3, <1>4, <1>5, <1>6, <1>7, <1>8, <1>9 DEF TInv, TypeOK

\* Retention and the expiry of a lease.
LEMMA EnvironmentTypes ==
    ASSUME TInv, Trim \/ Expire
    PROVE  TInv'
<1>. USE DEF stream, keys, data, attemptVars, workerVars, retirement
<1>1. tail \in Nat
  BY RebuildAssumption DEF TInv, TypeOK, StreamType
<1>2. /\ UNCHANGED <<tail, kind, active, checkpoint, rebuilding, attemptVars,
                     workerVars, retirement>>
      /\ StreamType'
  BY <1>1 DEF Trim, Expire, TInv, TypeOK, StreamType
<1>3. StoreType'
  BY DEF Trim, Expire, TInv, TypeOK, StoreType
<1>4. AttemptType' /\ WorkerType' /\ RetirementType'
  BY <1>2 DEF TInv, TypeOK, AttemptType, WorkerType, RetirementType
<1>5. /\ \A a \in Attempt : AttemptOK(a)'
      /\ \A w \in Worker : WorkerOK(w)'
      /\ rpc' # "idle" => retiring' \in Generation
  BY <1>2 DEF TInv, AttemptOK, Running, WorkerOK
<1>. QED
  BY <1>2, <1>3, <1>4, <1>5 DEF TInv, TypeOK

\* Retirement deletes what the types allow to be absent.
LEMMA RetirementTypes ==
    ASSUME TInv, RetirementStep
    PROVE  TInv'
<1>. USE DEF stream, keys, data, attemptVars, workerVars
<1>1. /\ tail \in Nat /\ NoRows \in [Member -> 0..tail]
      /\ Retirable \subseteq Generation /\ TypeOK
  BY RebuildAssumption DEF TInv, TypeOK, StreamType, NoRows
<1>2. UNCHANGED <<stream, active, checkpoint, attemptVars, workerVars>>
  BY <1>1, RetirementFrame
<1>3. StreamType' /\ AttemptType' /\ WorkerType'
  BY <1>1, <1>2 DEF TypeOK, StreamType, AttemptType, WorkerType
<1>4. /\ \A a \in Attempt : AttemptOK(a)'
      /\ \A w \in Worker : WorkerOK(w)'
  BY <1>2 DEF TInv, AttemptOK, Running, WorkerOK
<1>5. /\ StoreType' /\ RetirementType'
      /\ rpc' # "idle" => retiring' \in Generation
  <2>. USE DEF RetireTo, TInv, TypeOK, StoreType, RetirementType
  <2>1. CASE \E g \in Retirable : StartRetirement(g)
    BY <1>1, <2>1 DEF StartRetirement
  <2>2. CASE RetireRows
    <3>1. rows' \in [Generation -> [Member -> 0..tail]]
          /\ versions' \in [Generation -> [Member -> 0..tail]]
      BY <1>1, <2>2 DEF RetireRows
    <3>. QED
      BY <1>1, <1>2, <2>2, <3>1 DEF RetireRows
  <2>5. CASE RetireMeta
    <3>1. highwater' \in [Generation -> 0..tail]
      BY <1>1, <2>5 DEF RetireMeta
    <3>. QED
      BY <1>1, <1>2, <2>5, <3>1 DEF RetireMeta
  <2>3. CASE RetireCheck \/ RetireRelease
    BY <1>1, <1>2, <2>3 DEF RetireCheck, RetireRelease
  <2>4. CASE RetireEvidence \/ RetirementFails
    BY <1>1, <1>2, <2>4 DEF RetireEvidence, RetirementFails
  <2>. QED
    BY <2>1, <2>2, <2>3, <2>4, <2>5 DEF RetirementStep
<1>. QED
  BY <1>3, <1>4, <1>5 DEF TInv, TypeOK

\* A write that is within its range keeps the rows and versions in theirs.
LEMMA ApplyRowTypes ==
    ASSUME TypeOK, NEW g \in Generation, NEW e \in Writes(tail),
           e.member # None, ApplyRow(g, e)
    PROVE  /\ rows' \in [Generation -> [Member -> 0..tail]]
           /\ versions' \in [Generation -> [Member -> 0..tail]]
           /\ \A h \in Generation \ {g} :
                rows'[h] = rows[h] /\ versions'[h] = versions[h]
<1>1. e.member \in Member /\ e.value \in 0..tail /\ e.sequence \in 0..tail
  BY DEF Writes
<1>2. CASE Newer(g, e)
  <2>1. /\ rows' = [rows EXCEPT ![g] = [rows[g] EXCEPT ![e.member] = e.value]]
        /\ versions' = [versions EXCEPT
                ![g] = [versions[g] EXCEPT ![e.member] = e.sequence]]
    BY <1>2 DEF ApplyRow
  <2>2. /\ [rows[g] EXCEPT ![e.member] = e.value] \in [Member -> 0..tail]
        /\ [versions[g] EXCEPT ![e.member] = e.sequence] \in [Member -> 0..tail]
    BY <1>1 DEF TypeOK, StoreType
  <2>. QED
    BY <2>1, <2>2 DEF TypeOK, StoreType
<1>3. CASE ~Newer(g, e)
  BY <1>3 DEF ApplyRow, TypeOK, StoreType
<1>. QED
  BY <1>2, <1>3

\* The store's keys and rows through the steps of an attempt.
LEMMA AttemptStoreTypes ==
    ASSUME TInv, NEW a \in Attempt, AttemptStep(a) \/ Crash(a)
    PROVE  StoreType'
<1>1. /\ tail \in Nat /\ UNCHANGED tail
      /\ Target(a) \in Generation
      /\ NoRows \in [Member -> 0..tail]
      /\ None \notin Attempt
  BY RebuildAssumption, AttemptFrame
  DEF TInv, TypeOK, StreamType, Target, NoRows, stream
<1>2. AttemptOK(a)
  BY DEF TInv
<1>3. pc[a] \in {"apply", "advance"} =>
        /\ Head(todo[a]) \in Writes(tail)
        /\ Head(todo[a]).sequence \in 0..tail
  <2>1. pc[a] \in {"apply", "advance"} => Head(todo[a]) \in Writes(tail)
    BY <1>2 DEF TInv, TypeOK, AttemptType, AttemptOK
  <2>. QED
    BY <2>1 DEF Writes
<1>4. CASE UNCHANGED <<keys, data, manifest>>
  BY <1>4, <1>1 DEF keys, data, TInv, TypeOK, StoreType
<1>5. CASE Begin(a) \/ Fail(a)
  BY <1>5, <1>1 DEF Begin, Fail, data, TInv, TypeOK, StoreType
<1>6. CASE ResetRows(a) \/ ResetMeta(a)
  <2>1. CASE ResetRows(a)
    BY <2>1, <1>1 DEF ResetRows, keys, TInv, TypeOK, StoreType
  <2>2. CASE ResetMeta(a)
    BY <2>2, <1>1 DEF ResetMeta, keys, TInv, TypeOK, StoreType
  <2>. QED
    BY <1>6, <2>1, <2>2
<1>7. CASE ApplyEvent(a)
  <2>1. ApplyRow(Target(a), Head(todo[a])) /\ Head(todo[a]).member # None
    BY <1>7, <1>2 DEF ApplyEvent, AttemptOK
  <2>2. Head(todo[a]) \in Writes(tail)
    BY <1>7, <1>3 DEF ApplyEvent
  <2>3. /\ rows' \in [Generation -> [Member -> 0..tail]]
        /\ versions' \in [Generation -> [Member -> 0..tail]]
    BY <2>1, <2>2, <1>1, ApplyRowTypes DEF TInv
  <2>. QED
    BY <2>3, <1>1, <1>7 DEF ApplyEvent, keys, TInv, TypeOK, StoreType
<1>8. CASE AdvanceEvent(a)
  BY <1>8, <1>1, <1>3
  DEF AdvanceEvent, AdvanceHighwater, Later, keys, TInv, TypeOK, StoreType
<1>9. CASE PutManifest(a)
  <2>1. Evidence(a) \in Evidences(tail)
    BY <1>9, <1>2, EvidenceIs DEF PutManifest, AttemptOK, Running, Ended, TInv
  <2>. QED
    BY <2>1, <1>9, <1>1 DEF PutManifest, keys, data, TInv, TypeOK, StoreType
<1>10. CASE Publish(a)
  BY <1>10, <1>1 DEF Publish, keys, data, TInv, TypeOK, StoreType
<1>. QED
  BY <1>4, <1>5, <1>6, <1>7, <1>8, <1>9, <1>10
  DEF AttemptStep, Capture, Recover, Reset, ScanPage, ScanSnapshot, Load,
      Renew, CheckEvent, Written, CatchUp, Raced, Verify, Crash

\* The local state of an attempt through its own steps.
LEMMA AttemptLocalTypes ==
    ASSUME TInv, NEW a \in Attempt, AttemptStep(a) \/ Crash(a)
    PROVE  AttemptType' /\ AttemptOK(a)'
<1>1. /\ tail \in Nat /\ UNCHANGED tail
      /\ Target(a) \in Generation
      /\ floor \in Nat
  BY RebuildAssumption, AttemptFrame
  DEF TInv, TypeOK, StreamType, Target, stream
<1>2. AttemptOK(a) /\ TypeOK /\ StreamType
  BY DEF TInv, TypeOK
<1>3. CASE Capture(a)
  <2>1. [active |-> active, checkpoint |-> checkpoint,
         rebuilding |-> rebuilding] \in States(tail)
    BY <1>2 DEF States, TypeOK, StoreType
  <2>2. States(tail) \subseteq States(MaxSequence)
    BY <1>1, <1>2, RebuildAssumption DEF States, StreamType
  <2>3. captured'[a] # None
    BY <1>3, <2>1, <2>2, RebuildAssumption DEF Capture, TInv, TypeOK, AttemptType
  <2>4. AttemptType'
    BY <1>3, <1>1, <2>1 DEF Capture, Go, Label, TInv, TypeOK, AttemptType
  <2>. QED
    BY <1>2, <1>3, <2>3, <2>4
    DEF Capture, Go, AttemptOK, Early, TInv, TypeOK, AttemptType
<1>4. CASE \E label \in Ended : End(a, label)
  BY <1>4, <1>1, <1>2, EndTypes
<1>5. CASE Recover(a) /\ ~\E label \in Ended : End(a, label)
  <2>1. /\ pc[a] = "captured"
        /\ found' = [found EXCEPT ![a] = manifest[Target(a)]]
        /\ Go(a, "begin")
        /\ UNCHANGED <<captured, after, asOf, todo, round, lastPage>>
    BY <1>5 DEF Recover, Ended
  <2>2. AttemptType'
    BY <2>1, <1>1, <1>2 DEF Go, Label, TypeOK, StoreType, AttemptType
  <2>. QED
    BY <2>1, <2>2, <1>2
    DEF Go, AttemptOK, Running, Ended, Early, TypeOK, AttemptType
<1>6. CASE Begin(a) /\ ~\E label \in Ended : End(a, label)
  BY <1>6, <1>1, <1>2
  DEF Begin, Go, Label, AttemptOK, Running, Ended, Early, TypeOK, AttemptType
<1>7. CASE Reset(a) \/ ResetRows(a) \/ ResetMeta(a) \/ Renew(a)
  BY <1>7, <1>1, <1>2
  DEF Reset, ResetRows, ResetMeta, Renew, Go, Label, AttemptOK, Running, Ended,
      Early, TypeOK, AttemptType
<1>8. CASE ScanPage(a) \/ ScanSnapshot(a)
  <2>1. PageEnd(after[a]) \in 0..tail
    BY <1>1, <1>2, PageEndIs DEF TypeOK, AttemptType
  <2>2. CASE ScanPage(a)
    BY <2>2, <1>1, <1>2, <2>1
    DEF ScanPage, Go, Label, AttemptOK, Running, Ended, Early, TypeOK,
        AttemptType
  <2>3. CASE ScanSnapshot(a)
    <3>1. (IF floor = tail THEN 0 ELSE tail) \in 0..tail /\ tail \in 0..tail
      BY <1>1
    <3>. QED
      BY <2>3, <1>1, <1>2, <3>1
      DEF ScanSnapshot, Go, Label, AttemptOK, Running, Ended, Early, TypeOK,
          AttemptType
  <2>. QED
    BY <1>8, <2>2, <2>3
<1>9. CASE Load(a)
  <2>. DEFINE e == Evidence(a)
              s == IF kind = "model-snapshot"
                   THEN SnapshotWrites(e.watermark, e.asOf)
                   ELSE EventWrites([i \in 1..e.watermark |-> i])
  <2>1. e \in Evidences(tail)
    BY <1>9, <1>2, EvidenceIs DEF Load, AttemptOK, Running, Ended
  <2>2. e.watermark \in 0..tail /\ e.asOf \in 0..tail
    BY <2>1 DEF Evidences
  <2>. HIDE DEF e
  <2>3. s \in Seq(Writes(tail))
    <3>1. SnapshotWrites(e.watermark, e.asOf) \in Seq(Writes(tail))
      BY <2>2, <1>2, SnapshotWritesAre
    <3>2. EventWrites([i \in 1..e.watermark |-> i]) \in Seq(Writes(tail))
      BY <2>2, <1>2, ReplayWritesAre
    <3>. QED
      BY <3>1, <3>2
  <2>4. todo' = [todo EXCEPT ![a] = s] /\ pc[a] = "load" /\ Go(a, "renew")
        /\ UNCHANGED <<captured, found, after, asOf, round, lastPage>>
    BY <1>9 DEF Load, e
  <2>. HIDE DEF s
  <2>. QED
    BY <1>1, <1>2, <2>3, <2>4
    DEF Go, Label, AttemptOK, Running, Ended, Early, TypeOK, AttemptType
<1>10. CASE CheckEvent(a)
  <2>1. Tail(todo[a]) \in Seq(Writes(tail))
    BY <1>10, <1>2 DEF CheckEvent, TypeOK, AttemptType
  <2>. QED
    BY <1>10, <1>1, <1>2, <2>1
    DEF CheckEvent, Go, Label, AttemptOK, Running, Ended, Early, TypeOK,
        AttemptType
<1>11. CASE ApplyEvent(a) \/ Written(a) \/ PutManifest(a)
  BY <1>11, <1>1, <1>2
  DEF ApplyEvent, Written, PutManifest, Go, Label, AttemptOK, Running, Ended,
      Early, TypeOK, AttemptType
<1>12. CASE AdvanceEvent(a)
  <2>1. Tail(todo[a]) \in Seq(Writes(tail))
    BY <1>12, <1>2 DEF AdvanceEvent, AttemptOK, TypeOK, AttemptType
  <2>. QED
    BY <1>12, <1>1, <1>2, <2>1
    DEF AdvanceEvent, Go, Label, AttemptOK, Running, Ended, Early, TypeOK,
        AttemptType
<1>13. CASE CatchUp(a)
  <2>. DEFINE n == highwater[Target(a)]
              s == EventWrites(Page(n))
  <2>1. n \in 0..tail /\ PageEnd(n) \in n..tail
    BY <1>1, <1>2, PageEndIs DEF TypeOK, StoreType
  <2>2. s \in Seq(Writes(tail))
    BY <1>1, <1>2, <2>1, EventWritesAre DEF Page
  <2>3. Exhausted(n) \in BOOLEAN
    BY DEF Exhausted
  <2>4. /\ pc[a] = "catchUp" /\ Go(a, "renew")
        /\ todo' = [todo EXCEPT ![a] = s]
        /\ lastPage' = [lastPage EXCEPT ![a] = Exhausted(n)]
        /\ round[a] < MaxRounds /\ round' = [round EXCEPT ![a] = @ + 1]
        /\ UNCHANGED <<captured, found, after, asOf>>
    BY <1>13 DEF CatchUp
  <2>. HIDE DEF s, n
  <2>5. round' \in [Attempt -> 0..MaxRounds]
    BY <1>2, <2>4, RebuildAssumption DEF TypeOK, AttemptType
  <2>. QED
    BY <1>1, <1>2, <2>2, <2>3, <2>4, <2>5
    DEF Go, Label, AttemptOK, Running, Ended, Early, TypeOK, AttemptType
<1>14. CASE Publish(a) \/ Raced(a)
  BY <1>14, <1>1, <1>2
  DEF Publish, Raced, Go, Label, AttemptOK, Running, Ended, Early, TypeOK,
      AttemptType
<1>. QED
  BY <1>3, <1>4, <1>5, <1>6, <1>7, <1>8, <1>9, <1>10, <1>11, <1>12, <1>13, <1>14
  DEF AttemptStep, Verify, Fail, Crash, Ended

\* The steps of a worker keep the types.
LEMMA WorkerTypes ==
    ASSUME TInv, NEW w \in Worker, WorkerStep(w) \/ CrashWorker(w)
    PROVE  StoreType' /\ WorkerType' /\ WorkerOK(w)'
<1>. USE DEF keys, data
<1>1. /\ tail \in Nat /\ tail <= MaxSequence /\ UNCHANGED <<tail, manifest>>
      /\ Initial \in Generation /\ MaxTries \in Nat /\ MaxTries # 0
      /\ MaxSequence \in Nat
  BY RebuildAssumption, WorkerFrame DEF TInv, TypeOK, StreamType, stream
<1>2. WorkerOK(w) /\ TypeOK /\ active \in Generation
  BY DEF TInv, TypeOK, StoreType
<1>3. pos[w] \in Nat /\ (wpc[w] \notin {"idle", "read"} => pos[w] + 1 \in 1..tail)
  BY <1>1, <1>2 DEF WorkerOK, TypeOK, WorkerType
<1>4. CASE StartWorker(w) \/ ReadNext(w) \/ StopWorker(w) \/ CrashWorker(w)
  <2>1. StoreType'
    BY <1>4, <1>1, <1>2
    DEF StartWorker, ReadNext, StopWorker, CrashWorker, TypeOK, StoreType
  <2>2. CASE StartWorker(w)
    <3>1. checkpoint \in 0..tail
      BY <1>2 DEF TypeOK, StoreType
    <3>. QED
      BY <2>1, <2>2, <3>1, <1>1, <1>2
      DEF StartWorker, Step, WorkerLabel, WorkerOK, TypeOK, WorkerType
  <2>4. CASE ReadNext(w)
    <3>1. pos[w] < tail /\ tries[w] < MaxTries
      BY <2>4, <1>1, <1>2 DEF ReadNext, WorkerOK
    <3>. QED
      BY <2>1, <2>4, <3>1, <1>1, <1>2
      DEF ReadNext, Step, WorkerLabel, WorkerOK, TypeOK, WorkerType
  <2>3. CASE StopWorker(w) \/ CrashWorker(w)
    <3>1. Stop(w) /\ 0 \in 0..tail /\ 0 \in 0..MaxTries
      BY <2>3, <1>1 DEF StopWorker, CrashWorker
    <3>. QED
      BY <2>1, <3>1, <1>1, <1>2
      DEF Step, Stop, WorkerLabel, WorkerOK, TypeOK, WorkerType
  <2>. QED
    BY <1>4, <2>2, <2>3, <2>4
<1>5. CASE PickGeneration(w)
  BY <1>5, <1>1, <1>2
  DEF PickGeneration, Step, WorkerLabel, WorkerOK, TypeOK, StoreType, WorkerType
<1>6. CASE WorkerApply(w)
  <2>1. EventWrite(pos[w] + 1) \in Writes(tail)
        /\ EventWrite(pos[w] + 1).member # None
    <3>1. pos[w] + 1 \in 1..MaxSequence
      BY <1>1, <1>3, <1>6 DEF WorkerApply
    <3>2. Writes(pos[w] + 1) \subseteq Writes(tail)
      BY <1>1, <1>3, <1>6 DEF WorkerApply, Writes
    <3>. QED
      BY <3>1, <3>2, EventWriteIs
  <2>2. gen[w] \in Generation
    BY <1>2 DEF TypeOK, WorkerType
  <2>3. /\ rows' \in [Generation -> [Member -> 0..tail]]
        /\ versions' \in [Generation -> [Member -> 0..tail]]
    BY <1>2, <1>6, <2>1, <2>2, ApplyRowTypes DEF WorkerApply
  <2>4. StoreType'
    BY <1>1, <1>2, <1>6, <2>3 DEF WorkerApply, TypeOK, StoreType
  <2>. QED
    BY <1>1, <1>2, <1>6, <2>4
    DEF WorkerApply, Step, WorkerLabel, WorkerOK, TypeOK, WorkerType
<1>7. CASE WorkerAdvance(w)
  <2>1. gen[w] \in Generation /\ highwater[gen[w]] \in 0..tail
    BY <1>2 DEF TypeOK, WorkerType, StoreType
  <2>2. StoreType'
    BY <1>1, <1>2, <1>3, <1>7, <2>1
    DEF WorkerAdvance, AdvanceHighwater, Later, TypeOK, StoreType
  <2>. QED
    BY <1>1, <1>2, <1>7, <2>2
    DEF WorkerAdvance, Step, WorkerLabel, WorkerOK, TypeOK, WorkerType
<1>8. CASE WorkerCommit(w)
  <2>1. Later(checkpoint, pos[w] + 1) \in 0..tail
    BY <1>1, <1>2, <1>3, <1>8 DEF WorkerCommit, Later, TypeOK, StoreType
  <2>2. StoreType'
    BY <1>1, <1>2, <1>8, <2>1 DEF WorkerCommit, TypeOK, StoreType
  <2>. QED
    BY <1>1, <1>2, <1>8, <2>2
    DEF WorkerCommit, Step, Stop, WorkerLabel, WorkerOK, TypeOK, WorkerType
<1>9. CASE WorkerCheckpoint(w)
  <2>1. Later(checkpoint, pos[w] + 1) \in 0..tail
    BY <1>1, <1>2, <1>3, <1>9 DEF WorkerCheckpoint, Later, TypeOK, StoreType
  <2>2. StoreType'
    BY <1>1, <1>2, <1>9, <2>1 DEF WorkerCheckpoint, TypeOK, StoreType
  <2>3. pos[w] + 1 \in 0..tail
    BY <1>1, <1>3, <1>9 DEF WorkerCheckpoint
  <2>. QED
    BY <1>1, <1>2, <1>9, <2>2, <2>3
    DEF WorkerCheckpoint, Step, WorkerLabel, WorkerOK, TypeOK, WorkerType
<1>. QED
  BY <1>4, <1>5, <1>6, <1>7, <1>8, <1>9 DEF WorkerStep

\* TInv is inductive.
LEMMA InitTInv == Init => TInv
<1>. SUFFICES ASSUME Init PROVE TInv
  OBVIOUS
<1>. USE RebuildAssumption DEF Init, NoRows
<1>1. StreamType /\ StoreType
  BY DEF StreamType, StoreType
<1>2. AttemptType
  BY <1>1 DEF AttemptType, Label
<1>3. WorkerType
  BY DEF WorkerType, WorkerLabel
<1>4. \A a \in Attempt : AttemptOK(a)
  BY DEF AttemptOK, Running
<1>5. \A w \in Worker : WorkerOK(w)
  BY DEF WorkerOK
<1>6. RetirementType
  BY DEF RetirementType
<1>. QED
  BY <1>1, <1>2, <1>3, <1>4, <1>5, <1>6 DEF TInv, TypeOK

LEMMA NextTInv == TInv /\ [Next]_vars => TInv'
<1>. SUFFICES ASSUME TInv, [Next]_vars PROVE TInv'
  OBVIOUS
<1>1. CASE Commit
  BY <1>1, CommitTypes
<1>2. CASE Trim \/ Expire \/ RetirementStep
  BY <1>2, EnvironmentTypes, RetirementTypes
<1>3. ASSUME NEW a \in Attempt, AttemptStep(a) \/ Crash(a) PROVE TInv'
  <2>1. OthersSame(a) /\ UNCHANGED <<stream, workerVars, retirement>>
    BY <1>3, AttemptFrame DEF TInv
  <2>2. StoreType' /\ AttemptType' /\ AttemptOK(a)'
    BY <1>3, AttemptStoreTypes, AttemptLocalTypes
  <2>3. StreamType' /\ WorkerType' /\ \A w \in Worker : WorkerOK(w)'
    BY <2>1 DEF TInv, TypeOK, StreamType, WorkerType, WorkerOK, stream, workerVars
  <2>4. \A b \in Attempt \ {a} : AttemptOK(b)'
    BY <2>1 DEF TInv, OthersSame, SameAttempt, AttemptOK, Running
  <2>5. RetirementType' /\ (rpc' # "idle" => retiring' \in Generation)
    BY <2>1 DEF TInv, TypeOK, RetirementType, retirement
  <2>. QED
    BY <2>2, <2>3, <2>4, <2>5 DEF TInv, TypeOK
<1>4. ASSUME NEW w \in Worker, WorkerStep(w) \/ CrashWorker(w) PROVE TInv'
  <2>1. /\ OtherWorkersSame(w)
        /\ UNCHANGED <<stream, attemptVars, retirement>>
    BY <1>4, WorkerFrame DEF TInv
  <2>2. StoreType' /\ WorkerType' /\ WorkerOK(w)'
    BY <1>4, WorkerTypes
  <2>3. StreamType' /\ AttemptType' /\ \A a \in Attempt : AttemptOK(a)'
    BY <2>1
    DEF TInv, TypeOK, StreamType, AttemptType, AttemptOK, Running, stream,
        attemptVars
  <2>4. \A v \in Worker \ {w} : WorkerOK(v)'
    BY <2>1 DEF TInv, OtherWorkersSame, WorkerOK, stream
  <2>5. RetirementType' /\ (rpc' # "idle" => retiring' \in Generation)
    BY <2>1 DEF TInv, TypeOK, RetirementType, retirement
  <2>. QED
    BY <2>2, <2>3, <2>4, <2>5 DEF TInv, TypeOK
<1>5. CASE UNCHANGED vars
  BY <1>5
  DEF TInv, TypeOK, StreamType, StoreType, AttemptType, WorkerType,
      RetirementType, AttemptOK, Running, WorkerOK, vars, stream, keys, data,
      attemptVars, workerVars, retirement
<1>. QED
  BY <1>1, <1>2, <1>3, <1>4, <1>5 DEF Next

\* Keys, rows, evidence and processes keep to their ranges: no watermark and
\* no write is ahead of the stream, and catch-up and write() stop at their
\* bounds, for every set of faults.
THEOREM TypeCorrect == Spec => []TypeOK
<1>1. TInv => TypeOK
  BY DEF TInv
<1>. QED
  BY InitTInv, NextTInv, <1>1, PTL DEF Spec

-----------------------------------------------------------------------------
(* The evidence of what is published *)

Writing == {"renew", "write", "apply", "advance"}
Late == {"catchUp", "publish", "raced"}

\* What an attempt takes for its evidence is what is stored: from the start
\* if it recovered a manifest, otherwise after it has put its own.
EvidenceStored(a) ==
    /\ pc[a] \notin Writing \cup Late \cup {"verify"} => round[a] = 0
    /\ ~Running(a) => found[a] = None
    /\ found[a] # None => manifest[Target(a)] = found[a]
    /\ pc[a] \in Late \/ round[a] > 0 => manifest[Target(a)] = Evidence(a)

Reached(a) == highwater[Target(a)] >= Evidence(a).watermark

\* The generation of the attempt that has the lease has reached the watermark
\* of its evidence, or the last write to come will take it there.
EvidenceReached(a) ==
    lease = a =>
        /\ rebuilding = Target(a)
        /\ pc[a] \in Late \cup {"manifest"} \/ round[a] > 0 => Reached(a)
        /\ pc[a] \in Writing =>
                \/ Reached(a)
                \/ /\ todo[a] # <<>>
                   /\ todo[a][Len(todo[a])].sequence = Evidence(a).watermark

\* docs/workflows.md: "The generation id is an immutable recovery identity."
\* The operator keeps to it; the code accepts any name.
ImmutableNames == "reuse" \notin Fault /\ "overlap" \notin Fault

\* Nobody rebuilds under a name the operator is done with, so a retirement
\* has its generation and the keys that name it for itself.
NamesSpent ==
    /\ Initial \in spent
    /\ \A a \in Attempt : Running(a) => Target(a) \notin spent
    /\ rpc # "idle" => retiring \in spent /\ retiring # active
    /\ rpc = "release" => rebuilding = retiring

\* The inductive invariant for evidence.
EInv ==
    /\ TInv
    /\ NamesSpent
    /\ ActiveHasEvidence
    /\ \A a \in Attempt : EvidenceStored(a) /\ EvidenceReached(a)

\* What the steps of others leave to attempt b: its local state, its manifest
\* once there is one, and as long as it has the lease the high water it has
\* reached.
Kept(b) ==
    /\ SameAttempt(b)
    /\ Running(b) /\ manifest[Target(b)] # None
            => manifest'[Target(b)] = manifest[Target(b)]
    /\ lease' = b =>
            /\ lease = b
            /\ rebuilding' = rebuilding
            /\ Running(b) => highwater'[Target(b)] >= highwater[Target(b)]

\* Evidence comes from the local state alone.
LEMMA EvidenceSame ==
    ASSUME NEW b \in Attempt, SameAttempt(b)
    PROVE  Evidence(b)' = Evidence(b)
BY DEF SameAttempt, Evidence

\* Once a round of catch-up was made, or the manifest was put, it is there.
LEMMA StoredNotNone ==
    ASSUME TInv, NEW b \in Attempt, EvidenceStored(b),
           pc[b] \in Late \/ round[b] > 0
    PROVE  Running(b) /\ manifest[Target(b)] # None
<1>1. Running(b)
  BY RebuildAssumption
  DEF EvidenceStored, Running, Ended, Late, Writing, TInv, TypeOK, AttemptType
<1>2. Evidence(b) # None
  BY <1>1, EvidenceIs DEF TInv, AttemptOK
<1>. QED
  BY <1>1, <1>2 DEF EvidenceStored

\* The steps of others preserve what is claimed of attempt b.
LEMMA KeptEvidence ==
    ASSUME TInv, TInv', NEW b \in Attempt, Kept(b),
           EvidenceStored(b), EvidenceReached(b)
    PROVE  EvidenceStored(b)' /\ EvidenceReached(b)'
<1>1. Evidence(b)' = Evidence(b) /\ Target(b)' = Target(b)
  BY EvidenceSame DEF Kept, Target
<1>2. EvidenceStored(b)'
  BY <1>1, StoredNotNone DEF Kept, SameAttempt, EvidenceStored, Running
<1>3. EvidenceReached(b)'
  <2>1. SUFFICES ASSUME lease' = b PROVE EvidenceReached(b)'
    BY DEF EvidenceReached
  <2>2. Running(b) /\ Reached(b) => Reached(b)'
    <3>1. Target(b) \in Generation
      BY RebuildAssumption DEF Target
    <3>2. /\ highwater[Target(b)] \in Nat /\ highwater'[Target(b)] \in Nat
      BY <3>1, RebuildAssumption DEF TInv, TypeOK, StoreType, StreamType
    <3>3. Evidence(b).watermark \in Nat
      BY EvidenceMarks DEF TInv
    <3>. QED
      BY <1>1, <2>1, <3>2, <3>3 DEF Kept, Reached
  <2>3. pc[b] \in Late \cup {"manifest"} \cup Writing \/ round[b] > 0
            => Running(b)
    BY StoredNotNone DEF Running, Ended, Late, Writing
  <2>. QED
    BY <1>1, <2>1, <2>2, <2>3 DEF Kept, SameAttempt, EvidenceReached
<1>. QED
  BY <1>2, <1>3

\* The stream, retention, expiry and retirement keep every attempt's evidence:
\* nobody retires what is being rebuilt.
LEMMA EnvironmentKeeps ==
    ASSUME TInv, NamesSpent, Commit \/ Trim \/ Expire \/ RetirementStep
    PROVE  \A b \in Attempt : Kept(b)
<1>. SUFFICES ASSUME NEW b \in Attempt PROVE Kept(b)
  OBVIOUS
<1>1. Target(b) \in Generation /\ None \notin Attempt
  BY RebuildAssumption DEF Target
<1>2. highwater[Target(b)] \in Nat
  BY <1>1, RebuildAssumption DEF TInv, TypeOK, StreamType, StoreType
<1>3. CASE Commit \/ Trim \/ Expire
  BY <1>1, <1>2, <1>3
  DEF Commit, Trim, Expire, Kept, SameAttempt, keys, data, attemptVars
<1>4. CASE RetirementStep
  <2>1. SameAttempt(b)
    BY <1>4, RetirementFrame DEF TInv, SameAttempt, attemptVars
  <2>2. Running(b) => /\ manifest'[Target(b)] = manifest[Target(b)]
                      /\ highwater'[Target(b)] = highwater[Target(b)]
    <3>1. CASE rpc = "idle"
      BY <1>4, <3>1, RetirementFrame DEF TInv, data
    <3>2. CASE rpc # "idle"
      <4>1. Running(b) => Target(b) # retiring
        BY <3>2 DEF NamesSpent
      <4>. QED
        BY <1>1, <1>4, <4>1, RetirementDeletes DEF TInv
    <3>. QED
      BY <3>1, <3>2
  <2>3. lease' = b => lease = b /\ rebuilding' = rebuilding
    BY <1>1, <1>4, RetirementFrame DEF TInv
  <2>. QED
    BY <1>2, <2>1, <2>2, <2>3 DEF Kept
<1>. QED
  BY <1>3, <1>4

\* So do the workers, which only raise high waters.
LEMMA WorkerKeeps ==
    ASSUME TInv, NEW w \in Worker, WorkerStep(w) \/ CrashWorker(w)
    PROVE  /\ \A b \in Attempt : Kept(b)
           /\ UNCHANGED <<manifest, active>>
           /\ checkpoint' >= checkpoint
<1>1. /\ UNCHANGED <<manifest, attemptVars, active, rebuilding, lease>>
  BY WorkerFrame DEF TInv
<1>2. /\ gen[w] \in Generation
      /\ highwater \in [Generation -> Nat]
      /\ checkpoint \in Nat /\ pos[w] \in Nat
  BY RebuildAssumption DEF TInv, TypeOK, StreamType, StoreType, WorkerType
<1>3. \A g \in Generation : highwater'[g] >= highwater[g]
  <2>1. CASE WorkerAdvance(w)
    BY <2>1, <1>2 DEF WorkerAdvance, AdvanceHighwater, Later
  <2>2. CASE UNCHANGED highwater
    BY <2>2, <1>2
  <2>. QED
    BY <2>1, <2>2
    DEF WorkerStep, StartWorker, ReadNext, StopWorker, PickGeneration,
        WorkerApply, WorkerCommit, WorkerCheckpoint, CrashWorker, data
<1>4. checkpoint' >= checkpoint
  <2>1. CASE WorkerCommit(w) \/ WorkerCheckpoint(w)
    BY <2>1, <1>2 DEF WorkerCommit, WorkerCheckpoint, Later
  <2>2. CASE UNCHANGED checkpoint
    BY <2>2, <1>2
  <2>. QED
    BY <2>1, <2>2
    DEF WorkerStep, StartWorker, ReadNext, StopWorker, PickGeneration,
        WorkerApply, WorkerAdvance, CrashWorker, keys
<1>5. \A b \in Attempt : Target(b) \in Generation
  BY RebuildAssumption DEF Target
<1>. QED
  BY <1>1, <1>3, <1>4, <1>5 DEF Kept, SameAttempt, attemptVars

\* The manifest of an attempt is put once: a second one is refused, or it is
\* the recovered one.
LEMMA ManifestsImmutable ==
    ASSUME TInv, NEW a \in Attempt, AttemptStep(a) \/ Crash(a),
           EvidenceStored(a)
    PROVE  \A g \in Generation : manifest[g] # None => manifest'[g] = manifest[g]
<1>1. CASE PutManifest(a)
  BY <1>1 DEF PutManifest, EvidenceStored, Evidence, TInv, TypeOK, StoreType
<1>2. CASE UNCHANGED manifest
  BY <1>2
<1>. QED
  BY <1>1, <1>2
  DEF AttemptStep, Capture, Recover, Begin, Reset, ResetRows, ResetMeta,
      ScanPage, ScanSnapshot, Load, Renew, CheckEvent, ApplyEvent, AdvanceEvent,
      Written, CatchUp, Publish, Raced, Verify, Fail, Crash

\* The lease passes from one attempt to another only through its absence, and
\* an attempt without it lowers no high water.
LEMMA AttemptKeeps ==
    ASSUME TInv, NEW a \in Attempt, AttemptStep(a) \/ Crash(a),
           EvidenceStored(a)
    PROVE  \A b \in Attempt \ {a} : Kept(b)
<1>. SUFFICES ASSUME NEW b \in Attempt, b # a PROVE Kept(b)
  OBVIOUS
<1>1. SameAttempt(b)
  BY AttemptFrame DEF TInv, OthersSame
<1>2. Target(a) \in Generation /\ Target(b) \in Generation /\ None \notin Attempt
  BY RebuildAssumption DEF Target
<1>3. highwater \in [Generation -> Nat]
  BY RebuildAssumption DEF TInv, TypeOK, StreamType, StoreType
<1>4. ASSUME lease' = b
      PROVE  /\ lease = b
             /\ rebuilding' = rebuilding
             /\ highwater'[Target(b)] >= highwater[Target(b)]
  <2>1. CASE ResetMeta(a)
    BY <2>1, <1>4 DEF ResetMeta, Owns, keys
  <2>2. CASE AdvanceEvent(a)
    <3>1. Head(todo[a]).sequence \in Nat
      <4>1. Head(todo[a]) \in Writes(tail) /\ tail \in Nat
        BY <2>2, RebuildAssumption
        DEF AdvanceEvent, TInv, AttemptOK, TypeOK, AttemptType, StreamType
      <4>. QED
        BY <4>1 DEF Writes
    <3>. QED
      BY <2>2, <3>1, <1>2, <1>3, <1>4
      DEF AdvanceEvent, AdvanceHighwater, Later, keys
  <2>3. CASE Begin(a) \/ Publish(a) \/ Fail(a)
    BY <2>3, <1>2, <1>3, <1>4 DEF Begin, Publish, Fail, Owns, keys, data
  <2>4. CASE UNCHANGED <<keys, highwater>>
    BY <2>4, <1>2, <1>3, <1>4 DEF keys
  <2>. QED
    BY <2>1, <2>2, <2>3, <2>4
    DEF AttemptStep, Capture, Recover, Reset, ResetRows, ScanPage, ScanSnapshot,
        Load, Renew, CheckEvent, ApplyEvent, Written, PutManifest, CatchUp,
        Raced, Verify, Crash, data
<1>. QED
  BY <1>1, <1>2, <1>4, ManifestsImmutable DEF Kept

\* Publication needs the evidence and its watermark, and nothing takes either
\* from the active generation.
LEMMA AttemptKeepsActive ==
    ASSUME EInv, NEW a \in Attempt, AttemptStep(a) \/ Crash(a)
    PROVE  ActiveHasEvidence'
<1>1. TInv /\ EvidenceStored(a) /\ EvidenceReached(a) /\ ActiveHasEvidence
  BY DEF EInv
<1>2. active \in Generation /\ checkpoint \in Nat
  BY <1>1, RebuildAssumption DEF TInv, TypeOK, StreamType, StoreType
<1>3. CASE Publish(a) /\ Publishable(a)
  <2>1. /\ lease = a /\ pc[a] = "publish"
        /\ active' = Target(a) /\ checkpoint' = highwater[Target(a)]
        /\ UNCHANGED manifest
    BY <1>3 DEF Publish, Publishable, Owns
  <2>2. manifest[Target(a)] = Evidence(a) /\ Reached(a)
    BY <2>1, <1>1 DEF EvidenceStored, EvidenceReached, Late
  <2>3. manifest[Target(a)] # None
    BY <2>1, <1>1, StoredNotNone DEF Late
  <2>. QED
    BY <2>1, <2>2, <2>3 DEF Reached, ActiveHasEvidence
<1>4. CASE UNCHANGED <<active, checkpoint>>
  BY <1>1, <1>2, <1>4, ManifestsImmutable DEF ActiveHasEvidence
<1>. QED
  BY <1>3, <1>4
  DEF AttemptStep, Capture, Recover, Begin, Reset, ResetRows, ResetMeta,
      ScanPage, ScanSnapshot, Load, Renew, CheckEvent, ApplyEvent, AdvanceEvent,
      Written, PutManifest, CatchUp, Publish, Raced, Verify, Fail, Crash, keys

\* The steps of an attempt up to its first write: no round has been made.
LEMMA EarlyEvidence ==
    ASSUME EInv, TInv', NEW a \in Attempt,
           \/ \E label \in Ended : End(a, label) /\ (Recover(a) \/ Begin(a)
                                      \/ Verify(a) \/ Fail(a) \/ Crash(a))
           \/ Capture(a) \/ Recover(a) \/ Begin(a)
           \/ Reset(a) \/ ResetRows(a) \/ ResetMeta(a)
           \/ ScanPage(a) \/ ScanSnapshot(a)
    PROVE  EvidenceStored(a)' /\ EvidenceReached(a)'
<1>. USE DEF stream, keys, data
<1>1. TInv /\ EvidenceStored(a) /\ EvidenceReached(a) /\ AttemptOK(a)
  BY DEF EInv, TInv
<1>2. /\ pc \in [Attempt -> Label] /\ found \in [Attempt -> Evidences(tail) \cup {None}]
      /\ round \in [Attempt -> 0..MaxRounds] /\ None \notin Attempt
  BY <1>1, RebuildAssumption DEF TInv, TypeOK, AttemptType
<1>3. Target(a)' = Target(a) /\ None \notin Attempt
  BY RebuildAssumption DEF Target
<1>4. CASE \E label \in Ended : End(a, label) /\ (Recover(a) \/ Begin(a)
                                      \/ Verify(a) \/ Fail(a) \/ Crash(a))
  <2>1. pc'[a] \in Ended /\ round'[a] = 0 /\ found'[a] = None
    BY <1>2, <1>4 DEF End, Go
  <2>2. lease' = a => rebuilding' = Target(a)
    BY <1>1, <1>3, <1>4
    DEF Recover, Begin, Verify, Fail, Crash, Owns, Target, EvidenceReached,
        Admissible
  <2>. QED
    BY <2>1, <2>2, <1>3
    DEF EvidenceStored, EvidenceReached, Running, Ended, Late, Writing
<1>5. CASE ~ \E label \in Ended : End(a, label) /\ (Recover(a) \/ Begin(a)
                                      \/ Verify(a) \/ Fail(a) \/ Crash(a))
  <2>1. /\ pc[a] \in Early \cup {"scan"} /\ round[a] = 0
        /\ pc'[a] \in (Early \cup {"scan", "load"}) \ {"idle"}
        /\ UNCHANGED <<manifest, round>>
    <3>1. CASE Recover(a) \/ Begin(a)
      BY <3>1, <1>1, <1>2, <1>5
      DEF Recover, Begin, Ended, Go, Early, EvidenceStored, Late, Writing
    <3>2. CASE Capture(a) \/ Reset(a) \/ ResetRows(a) \/ ResetMeta(a)
               \/ ScanPage(a) \/ ScanSnapshot(a)
      BY <3>2, <1>1, <1>2
      DEF Capture, Reset, ResetRows, ResetMeta, ScanPage, ScanSnapshot,
          Go, Early, EvidenceStored, Late, Writing
    <3>. QED
      BY <3>1, <3>2, <1>5
  <2>2. found'[a] # None => manifest'[Target(a)] = found'[a]
    BY <2>1, <1>1, <1>2, <1>5
    DEF Capture, Recover, Begin, Reset, ResetRows, ResetMeta, ScanPage,
        ScanSnapshot, EvidenceStored, Ended
  <2>3. lease' = a => rebuilding' = Target(a)
    BY <1>1, <1>3, <1>5
    DEF Capture, Recover, Begin, Reset, ResetRows, ResetMeta, ScanPage,
        ScanSnapshot, EvidenceReached, Admissible
  <2>. QED
    BY <2>1, <2>2, <2>3, <1>3
    DEF EvidenceStored, EvidenceReached, Running, Ended, Early, Late, Writing
<1>. QED
  BY <1>4, <1>5

\* The steps of an attempt from its first write on.
LEMMA WritingEvidence ==
    ASSUME EInv, TInv', NEW a \in Attempt,
           \/ Load(a) \/ Renew(a) \/ CheckEvent(a) \/ ApplyEvent(a)
           \/ AdvanceEvent(a) \/ Written(a) \/ PutManifest(a) \/ CatchUp(a)
           \/ Publish(a) \/ Raced(a)
    PROVE  EvidenceStored(a)' /\ EvidenceReached(a)'
<1>. USE DEF stream, keys, data
<1>1. TInv /\ EvidenceStored(a) /\ EvidenceReached(a) /\ AttemptOK(a) /\ TypeOK
  BY DEF EInv, TInv
<1>2. /\ pc \in [Attempt -> Label] /\ todo \in [Attempt -> Seq(Writes(tail))]
      /\ round \in [Attempt -> 0..MaxRounds]
      /\ manifest \in [Generation -> Evidences(tail) \cup {None}]
      /\ highwater \in [Generation -> Nat]
      /\ Target(a) \in Generation /\ tail \in Nat
      /\ None \notin Attempt /\ StreamType
      /\ Evidence(a).watermark \in 0..tail
      /\ Evidence(a).asOf \in 0..tail
  <2>1. tail \in Nat /\ StreamType
    BY <1>1, RebuildAssumption DEF TypeOK, StreamType
  <2>2. Target(a) \in Generation /\ None \notin Attempt
    BY RebuildAssumption DEF Target
  <2>3. Evidence(a).watermark \in 0..tail /\ Evidence(a).asOf \in 0..tail
    BY <1>1, EvidenceMarks
  <2>4. highwater \in [Generation -> Nat]
    BY <1>1, <2>1 DEF TypeOK, StoreType
  <2>. QED
    BY <1>1, <2>1, <2>2, <2>3, <2>4 DEF TypeOK, StoreType, AttemptType
<1>3. UNCHANGED <<captured, found, after, asOf>>
  BY DEF Load, Renew, CheckEvent, ApplyEvent, AdvanceEvent, Written,
         PutManifest, CatchUp, Publish, Raced
<1>4. Evidence(a)' = Evidence(a) /\ Target(a)' = Target(a)
  BY <1>3 DEF Evidence, Target
<1>5. lease' = a => lease = a /\ rebuilding' = rebuilding
  BY <1>2
  DEF Load, Renew, CheckEvent, ApplyEvent, AdvanceEvent, Written,
      PutManifest, CatchUp, Publish, Raced
<1>6. CASE Load(a)
  <2>. DEFINE e == Evidence(a)
              s == IF kind = "model-snapshot"
                   THEN SnapshotWrites(e.watermark, e.asOf)
                   ELSE EventWrites([i \in 1..e.watermark |-> i])
  <2>1. /\ todo'[a] = s /\ pc[a] = "load" /\ pc'[a] = "renew"
        /\ UNCHANGED <<round, manifest, highwater>>
    BY <1>6, <1>2 DEF Load, Go
  <2>2. round[a] = 0
    BY <2>1, <1>1 DEF EvidenceStored, Late, Writing
  <2>3. highwater[Target(a)] >= e.watermark
        \/ (s # <<>> /\ s[Len(s)].sequence = e.watermark)
    <3>1. CASE kind = "model-snapshot"
      <4>1. /\ s \in Seq(Writes(tail)) /\ s # <<>>
            /\ \A i \in 1..Len(s) : s[i].sequence = e.watermark
        BY <3>1, <1>2, SnapshotWritesAre DEF SnapshotList
      <4>. HIDE DEF s
      <4>2. Len(s) \in 1..Len(s)
        BY <4>1
      <4>. QED
        BY <4>1, <4>2
    <3>2. CASE kind # "model-snapshot" /\ e.watermark = 0
      BY <3>2, <1>2
    <3>3. CASE kind # "model-snapshot" /\ e.watermark # 0
      <4>1. Len(s) = e.watermark /\ s \in Seq(Writes(tail))
            /\ \A i \in 1..e.watermark : s[i] = EventWrite(i)
        BY <3>3, <1>2, ReplayWritesAre
      <4>. HIDE DEF s
      <4>2. e.watermark \in 1..MaxSequence
        BY <3>3, <1>2, RebuildAssumption DEF StreamType
      <4>3. s[Len(s)] = EventWrite(e.watermark) /\ s # <<>>
        BY <4>1, <4>2
      <4>. QED
        BY <4>2, <4>3, EventWriteIs
    <3>. QED
      BY <3>1, <3>2, <3>3
  <2>. HIDE DEF s
  <2>. QED
    BY <2>1, <2>2, <2>3, <1>1, <1>3, <1>4, <1>5
    DEF EvidenceStored, EvidenceReached, Reached, Running, Ended, Late,
        Writing
<1>7. CASE CheckEvent(a) \/ AdvanceEvent(a)
  <2>. DEFINE h == highwater[Target(a)]
              s == todo[a]
  <2>1. /\ pc[a] \in Writing /\ pc'[a] \in Writing
        /\ s # <<>> /\ UNCHANGED <<round, manifest>>
    BY <1>1, <1>2, <1>7
    DEF CheckEvent, AdvanceEvent, Go, Writing, AttemptOK
  <2>2. /\ s \in Seq(Writes(tail)) /\ Head(s).sequence \in Nat
        /\ highwater'[Target(a)] \in Nat
        /\ highwater'[Target(a)] >= h
    <3>1. s \in Seq(Writes(tail)) /\ Head(s) \in Writes(tail)
      BY <2>1, <1>2
    <3>2. Head(s).sequence \in Nat
      BY <3>1, <1>2 DEF Writes
    <3>. QED
      BY <3>1, <3>2, <1>2, <1>7
      DEF CheckEvent, AdvanceEvent, AdvanceHighwater, Later
  <2>3. \/ UNCHANGED <<todo, highwater>>
        \/ /\ todo'[a] = Tail(s)
           /\ highwater'[Target(a)] >= Head(s).sequence
    <3>1. CASE CheckEvent(a)
      BY <3>1, <2>2, <1>2 DEF CheckEvent
    <3>2. CASE AdvanceEvent(a)
      BY <3>2, <2>2, <1>2 DEF AdvanceEvent, AdvanceHighwater, Later
    <3>. QED
      BY <1>7, <3>1, <3>2
  <2>4. Reached(a) => Reached(a)'
    BY <2>2, <1>2, <1>4 DEF Reached
  <2>5. CASE s[Len(s)].sequence = Evidence(a).watermark /\ todo'[a] = Tail(s)
             /\ highwater'[Target(a)] >= Head(s).sequence
    <3>1. CASE Len(s) = 1
      <4>1. Head(s) = s[Len(s)]
        BY <3>1, <2>1, <2>2, TailLast
      <4>. QED
        BY <4>1, <2>1, <2>5, <1>1, <1>3, <1>4, <1>5
        DEF EvidenceStored, EvidenceReached, Reached, Running, Ended, Late,
        Writing
    <3>2. CASE Len(s) # 1
      <4>1. Tail(s) # <<>> /\ Tail(s)[Len(Tail(s))] = s[Len(s)]
        BY <3>2, <2>1, <2>2, TailLast
      <4>2. todo'[a] # <<>>
            /\ todo'[a][Len(todo'[a])].sequence = Evidence(a).watermark
        BY <4>1, <2>5
      <4>. QED
        BY <4>2, <2>1, <2>4, <1>1, <1>3, <1>4, <1>5
        DEF EvidenceStored, EvidenceReached, Running, Ended, Late, Writing
    <3>. QED
      BY <3>1, <3>2
  <2>6. CASE Reached(a) \/ UNCHANGED <<todo, highwater>> \/ lease # a
    BY <2>1, <2>4, <2>6, <1>1, <1>3, <1>4, <1>5
    DEF EvidenceStored, EvidenceReached, Running, Ended, Late, Writing
  <2>. QED
    BY <2>1, <2>3, <2>5, <2>6, <1>1 DEF EvidenceReached
<1>8. CASE Renew(a) \/ ApplyEvent(a)
  <2>1. /\ pc[a] \in Writing /\ pc'[a] \in Writing
        /\ UNCHANGED <<todo, round, manifest, highwater>>
    BY <1>2, <1>8 DEF Renew, ApplyEvent, Go, Writing
  <2>. QED
    BY <2>1, <1>1, <1>3, <1>4, <1>5
    DEF EvidenceStored, EvidenceReached, Reached, Running, Ended, Late,
        Writing
<1>9. CASE Written(a)
  <2>1. /\ pc[a] = "write" /\ todo[a] = <<>>
        /\ pc'[a] \in Late \cup {"manifest"}
        /\ round[a] > 0 => pc'[a] \in Late
        /\ round[a] = 0 => pc'[a] = "manifest"
        /\ UNCHANGED <<round, manifest, highwater>>
    BY <1>2, <1>9 DEF Written, Go, Late
  <2>2. round[a] \in Nat
    BY <1>2, RebuildAssumption
  <2>. QED
    BY <2>1, <2>2, <1>1, <1>3, <1>4, <1>5
    DEF EvidenceStored, EvidenceReached, Reached, Running, Ended, Late,
        Writing
<1>10. CASE PutManifest(a)
  <2>1. /\ pc[a] = "manifest" /\ pc'[a] = "catchUp"
        /\ manifest'[Target(a)] = Evidence(a)
        /\ UNCHANGED <<round, highwater>>
    BY <1>2, <1>10 DEF PutManifest, Go
  <2>2. found[a] # None => Evidence(a) = found[a]
    BY DEF Evidence
  <2>. QED
    BY <2>1, <2>2, <1>1, <1>3, <1>4, <1>5
    DEF EvidenceStored, EvidenceReached, Reached, Running, Ended, Late,
        Writing
<1>11. CASE CatchUp(a)
  <2>1. /\ pc[a] = "catchUp" /\ pc'[a] = "renew"
        /\ UNCHANGED <<manifest, highwater>>
    BY <1>2, <1>11 DEF CatchUp, Go
  <2>. QED
    BY <2>1, <1>1, <1>3, <1>4, <1>5
    DEF EvidenceStored, EvidenceReached, Reached, Running, Ended, Late,
        Writing
<1>12. CASE Publish(a) \/ Raced(a)
  <2>1. /\ pc[a] \in Late /\ pc'[a] \in Late \cup {"verify"}
        /\ UNCHANGED <<manifest, highwater, round>>
    BY <1>2, <1>12 DEF Publish, Raced, Go, Late
  <2>. QED
    BY <2>1, <1>1, <1>3, <1>4, <1>5
    DEF EvidenceStored, EvidenceReached, Reached, Running, Ended, Late,
        Writing
<1>. QED
  BY <1>6, <1>7, <1>8, <1>9, <1>10, <1>11, <1>12

\* The names an attempt and a retirement work on stay apart.
LEMMA NextNames ==
    ASSUME ImmutableNames, EInv, [Next]_vars
    PROVE  NamesSpent'
<1>. USE DEF keys
<1>1. /\ TInv /\ TypeOK /\ NamesSpent
      /\ "reuse" \notin Fault /\ "overlap" \notin Fault
  BY DEF EInv, TInv, ImmutableNames
<1>2. /\ None \notin Generation
      /\ \A b \in Attempt : Target(b)' = Target(b)
  BY RebuildAssumption DEF Target
<1>3. CASE UNCHANGED <<retirement, active, rebuilding, pc>>
  BY <1>1, <1>2, <1>3 DEF NamesSpent, Running, retirement
<1>4. CASE Commit \/ Trim \/ Expire \/ UNCHANGED vars
  BY <1>3, <1>4 DEF Commit, Trim, Expire, vars, attemptVars
<1>5. ASSUME NEW w \in Worker, WorkerStep(w) \/ CrashWorker(w)
      PROVE  NamesSpent'
  BY <1>1, <1>3, <1>5, WorkerFrame DEF attemptVars
<1>6. ASSUME NEW a \in Attempt, AttemptStep(a) \/ Crash(a)
      PROVE  NamesSpent'
  <2>1. OthersSame(a) /\ UNCHANGED <<rpc, retiring, spent>>
    BY <1>1, <1>6, AttemptFrame DEF retirement
  <2>2. Running(a)' => Running(a) \/ Target(a) \notin spent
    BY <1>1, <1>6
    DEF AttemptStep, Capture, Recover, Begin, Reset, ResetRows, ResetMeta,
        ScanPage, ScanSnapshot, Load, Renew, CheckEvent, ApplyEvent,
        AdvanceEvent, Written, PutManifest, CatchUp, Publish, Raced, Verify,
        Fail, Crash, Rebuilding, Running, Ended
  <2>3. \A b \in Attempt : Running(b)' => Target(b) \notin spent
    BY <1>1, <2>1, <2>2 DEF NamesSpent, OthersSame, SameAttempt, Running
  <2>4. \/ UNCHANGED <<active, rebuilding>>
        \/ /\ Target(a) \notin spent
           /\ active' \in {active, Target(a)}
           /\ rebuilding \in {None, Target(a)}
    <3>1. CASE Begin(a) \/ Publish(a) \/ Fail(a)
      <4>1. Running(a)
        BY <3>1 DEF Begin, Publish, Fail, Rebuilding, Running, Ended
      <4>2. Target(a) \notin spent
        BY <1>1, <4>1 DEF NamesSpent
      <4>. QED
        BY <3>1, <4>2
        DEF Begin, Admissible, Publish, Publishable, Fail, Owns, Target
    <3>2. CASE UNCHANGED <<active, rebuilding>>
      BY <3>2
    <3>. QED
      BY <1>6, <3>1, <3>2
      DEF AttemptStep, Capture, Recover, Reset, ResetRows, ResetMeta,
          ScanPage, ScanSnapshot, Load, Renew, CheckEvent, ApplyEvent,
          AdvanceEvent, Written, PutManifest, CatchUp, Raced, Verify, Crash
  <2>5. retiring \in spent \/ rpc = "idle"
    BY <1>1 DEF NamesSpent
  <2>6. rpc # "idle" => retiring # None
    BY <1>1, <1>2 DEF TInv
  <2>. QED
    BY <1>1, <1>2, <2>1, <2>3, <2>4, <2>5, <2>6 DEF NamesSpent
<1>7. CASE RetirementStep
  <2>1. UNCHANGED <<active, pc>>
    BY <1>1, <1>7, RetirementFrame DEF attemptVars
  <2>2. ASSUME NEW g \in Retirable, StartRetirement(g) PROVE NamesSpent'
    BY <1>1, <1>2, <2>1, <2>2 DEF StartRetirement, NamesSpent, Running
  <2>3. CASE RetireRows \/ RetireMeta \/ RetireCheck \/ RetireRelease
             \/ RetireEvidence \/ RetirementFails
    BY <1>1, <1>2, <2>1, <2>3
    DEF RetireRows, RetireMeta, RetireCheck, RetireRelease, RetireEvidence,
        RetirementFails, RetireTo, NamesSpent, Running
  <2>. QED
    BY <1>7, <2>2, <2>3 DEF RetirementStep
<1>. QED
  BY <1>4, <1>5, <1>6, <1>7 DEF Next

\* EInv is inductive.
LEMMA InitEInv == Init => EInv
<1>. SUFFICES ASSUME Init PROVE EInv
  OBVIOUS
<1>1. TInv
  BY InitTInv
<1>2. None \notin Attempt
  BY RebuildAssumption
<1>3. NamesSpent
  BY DEF Init, NamesSpent, Running
<1>. QED
  BY <1>1, <1>2, <1>3
  DEF EInv, Init, ActiveHasEvidence, EvidenceStored, EvidenceReached, Running,
      Late

LEMMA NextEInv == ImmutableNames /\ EInv /\ [Next]_vars => EInv'
<1>. SUFFICES ASSUME ImmutableNames, EInv, [Next]_vars PROVE EInv'
  OBVIOUS
<1>1. TInv /\ TInv' /\ ActiveHasEvidence /\ NamesSpent /\ NamesSpent'
  BY NextTInv, NextNames DEF EInv
<1>2. checkpoint \in Nat /\ checkpoint' \in Nat /\ active \in Generation
      /\ \A g \in Generation : manifest[g] # None => manifest[g].watermark \in Nat
  BY <1>1, RebuildAssumption
  DEF TInv, TypeOK, StreamType, StoreType, Evidences
<1>3. CASE Commit \/ Trim \/ Expire \/ RetirementStep
  <2>1. \A b \in Attempt : EvidenceStored(b)' /\ EvidenceReached(b)'
    BY <1>1, <1>3, EnvironmentKeeps, KeptEvidence DEF EInv
  <2>2. UNCHANGED <<active, checkpoint>> /\ manifest'[active] = manifest[active]
    <3>1. CASE Commit \/ Trim \/ Expire
      BY <3>1 DEF Commit, Trim, Expire, keys
    <3>2. CASE RetirementStep
      <4>1. rpc = "idle" => UNCHANGED manifest
        BY <3>2, RetirementFrame
      <4>2. rpc # "idle" => manifest'[active] = manifest[active]
        BY <1>1, <1>2, <3>2, RetirementDeletes DEF NamesSpent, TInv
      <4>. QED
        BY <3>2, <4>1, <4>2, RetirementFrame
    <3>. QED
      BY <1>3, <3>1, <3>2
  <2>3. ActiveHasEvidence'
    BY <2>2, <1>1 DEF ActiveHasEvidence
  <2>. QED
    BY <1>1, <2>1, <2>3 DEF EInv
<1>4. ASSUME NEW a \in Attempt, AttemptStep(a) \/ Crash(a) PROVE EInv'
  <2>1. ActiveHasEvidence'
    BY <1>4, AttemptKeepsActive
  <2>2. \A b \in Attempt \ {a} : EvidenceStored(b)' /\ EvidenceReached(b)'
    BY <1>1, <1>4, AttemptKeeps, KeptEvidence DEF EInv
  <2>3. EvidenceStored(a)' /\ EvidenceReached(a)'
    <3>1. CASE \/ Load(a) \/ Renew(a) \/ CheckEvent(a) \/ ApplyEvent(a)
               \/ AdvanceEvent(a) \/ Written(a) \/ PutManifest(a) \/ CatchUp(a)
               \/ Publish(a) \/ Raced(a)
      BY <3>1, <1>1, WritingEvidence
    <3>2. CASE \/ Capture(a) \/ Recover(a) \/ Begin(a)
               \/ Reset(a) \/ ResetRows(a) \/ ResetMeta(a)
               \/ ScanPage(a) \/ ScanSnapshot(a)
      BY <3>2, <1>1, EarlyEvidence
    <3>3. CASE Verify(a) \/ Fail(a) \/ Crash(a)
      BY <3>3, <1>1, EarlyEvidence DEF Verify, Fail, Crash, Ended
    <3>. QED
      BY <1>4, <3>1, <3>2, <3>3 DEF AttemptStep
  <2>. QED
    BY <1>1, <2>1, <2>2, <2>3 DEF EInv
<1>5. ASSUME NEW w \in Worker, WorkerStep(w) \/ CrashWorker(w) PROVE EInv'
  <2>1. \A b \in Attempt : EvidenceStored(b)' /\ EvidenceReached(b)'
    BY <1>1, <1>5, WorkerKeeps, KeptEvidence DEF EInv
  <2>2. ActiveHasEvidence'
    BY <1>1, <1>2, <1>5, WorkerKeeps DEF ActiveHasEvidence
  <2>. QED
    BY <1>1, <2>1, <2>2 DEF EInv
<1>6. CASE UNCHANGED vars
  BY <1>1, <1>6
  DEF EInv, ActiveHasEvidence, EvidenceStored, EvidenceReached, Reached,
      Running, Evidence, vars, stream, keys, data, attemptVars, workerVars
<1>. QED
  BY <1>3, <1>4, <1>5, <1>6 DEF Next

\* An attempt finds the manifest of every generation that was published, and
\* the checkpoint has reached its watermark: the two errors of Served() for an
\* active generation cannot happen, whatever stalls, crashes or races, as long
\* as names are not reused and nobody retires what is being rebuilt.
THEOREM ActiveHasEvidenceHolds ==
    ASSUME ImmutableNames
    PROVE  Spec => []ActiveHasEvidence
<1>1. EInv => ActiveHasEvidence
  BY DEF EInv
<1>2. EInv /\ [Next]_vars => EInv'
  BY NextEInv
<1>. QED
  BY InitEInv, <1>1, <1>2, PTL DEF Spec

\* The generation that retirement deletes command by command is not the one
\* readers are served from, also after the comparison that begins it, as long as
\* names are not reused and nobody retires what is being rebuilt.
THEOREM RetiresInactiveHolds ==
    ASSUME ImmutableNames
    PROVE  Spec => []RetiresInactive
<1>1. EInv => RetiresInactive
  BY DEF EInv, NamesSpent, RetiresInactive
<1>2. EInv /\ [Next]_vars => EInv'
  BY NextEInv
<1>. QED
  BY InitEInv, <1>1, <1>2, PTL DEF Spec

=============================================================================
