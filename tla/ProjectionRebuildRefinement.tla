--------------------- MODULE ProjectionRebuildRefinement ---------------------
(***************************************************************************)
(* ProjectionRebuild implements OnlineProjection under two conditions on   *)
(* how it is operated.  No attempt stalls past its lease: then the attempt *)
(* that writes has the lease, so one process builds a generation, and what *)
(* it publishes follows the stream.  And names are immutable: then neither *)
(* a late worker nor a retirement reaches the generation being built.      *)
(* The code enforces neither.  With "stall", "reuse" or "overlap" in Fault *)
(* TLC refutes the conclusions; rebuild_stalled is the first of the three. *)
(***************************************************************************)
EXTENDS ProjectionRebuildProofs

(* What the rows of a generation say *)

\* A snapshot reflects the events up to asOf.  Its watermark is the last of
\* them, or 0 when retention had removed all.
Sane(e, k, f) ==
    \/ e.watermark = e.asOf
    \/ k = "model-snapshot" /\ e.watermark = 0 /\ e.asOf <= f

\* The events the first rows of a generation reflect, whatever their version.
Base(e, k) == IF k = "model-snapshot" THEN e.asOf ELSE 0

\* Rows r with versions v, built on a base b: every member shows its state at
\* its version or at the base, and no event up to n has been missed.
Faithful(r, v, b, n) ==
    \A m \in Member :
        /\ r[m] = Online!Shown(m, Later(v[m], b))
        /\ Online!LastChange(m, n) <= Later(v[m], b)

\* A generation that misses no event up to n covers every earlier watermark.
LEMMA FaithfulCovers ==
    ASSUME StreamType, NEW r, NEW v \in [Member -> 0..tail],
           NEW b \in 0..tail, NEW n \in 0..tail, NEW c \in 0..n,
           Faithful(r, v, b, n)
    PROVE  Online!Covers(r, c)
<1>1. tail \in Nat
  BY RebuildAssumption DEF StreamType
<1>2. ASSUME NEW m \in Member
      PROVE  \E k \in c..tail : r[m] = Online!Shown(m, k)
  <2>. DEFINE l == Later(v[m], b)
  <2>1. l \in 0..tail /\ l \in Nat /\ n \in Nat /\ c \in Nat
    BY <1>1, <1>2 DEF Later
  <2>2. r[m] = Online!Shown(m, l) /\ Online!LastChange(m, n) <= l
    BY <1>2 DEF Faithful
  <2>. HIDE DEF l
  <2>3. CASE l >= c
    BY <2>1, <2>2, <2>3
  <2>4. CASE l < c
    <3>1. l <= n /\ n \in c..tail
      BY <1>1, <2>1, <2>4
    <3>2. Online!Shown(m, l) = Online!Shown(m, n)
      BY <2>1, <2>2, <3>1, ShownUnchanged
    <3>. QED
      BY <2>2, <3>1, <3>2
  <2>. QED
    BY <2>1, <2>3, <2>4
<1>. QED
  BY <1>2 DEF Online!Covers

\* Not missing later events is more than not missing earlier ones.
LEMMA FaithfulEarlier ==
    ASSUME NEW r, NEW v \in [Member -> Nat], NEW b \in Nat, NEW n \in Nat,
           NEW c \in 0..n, Faithful(r, v, b, n)
    PROVE  Faithful(r, v, b, c)
<1>1. ASSUME NEW m \in Member
      PROVE  Online!LastChange(m, c) <= Later(v[m], b)
  <2>1. /\ Online!LastChange(m, c) \in Nat /\ Online!LastChange(m, n) \in Nat
        /\ Online!LastChange(m, c) <= Online!LastChange(m, n)
    BY LastChangeIs, LastChangeMonotone
  <2>2. Online!LastChange(m, n) <= Later(v[m], b) /\ Later(v[m], b) \in Nat
    BY <1>1 DEF Faithful, Later
  <2>. QED
    BY <2>1, <2>2
<1>. QED
  BY <1>1 DEF Faithful

\* No rows are faithful to no events.
LEMMA FaithfulEmpty ==
    Faithful(NoRows, NoRows, 0, 0)
BY ShownIs, LastChangeIs DEF Faithful, NoRows, Later

\* What APPLY_ROW_SCRIPT makes of the rows and versions of one generation.
RowAfter(r, v, e) ==
    IF v[e.member] <= e.sequence THEN [r EXCEPT ![e.member] = e.value] ELSE r
VersionAfter(v, e) ==
    IF v[e.member] <= e.sequence THEN [v EXCEPT ![e.member] = e.sequence] ELSE v

LEMMA ApplyRowIs ==
    ASSUME TypeOK, NEW g \in Generation, NEW e, ApplyRow(g, e)
    PROVE  /\ rows'[g] = RowAfter(rows[g], versions[g], e)
           /\ versions'[g] = VersionAfter(versions[g], e)
           /\ \A h \in Generation \ {g} :
                rows'[h] = rows[h] /\ versions'[h] = versions[h]
<1>1. CASE Newer(g, e)
  <2>1. /\ rows' = [rows EXCEPT ![g] = [rows[g] EXCEPT ![e.member] = e.value]]
        /\ versions' = [versions EXCEPT
                ![g] = [versions[g] EXCEPT ![e.member] = e.sequence]]
    BY <1>1 DEF ApplyRow
  <2>. QED
    BY <1>1, <2>1 DEF Newer, RowAfter, VersionAfter, TypeOK, StoreType
<1>2. CASE ~Newer(g, e)
  BY <1>2 DEF ApplyRow, Newer, RowAfter, VersionAfter
<1>. QED
  BY <1>1, <1>2

\* Applying event n makes rows miss nothing they did not miss before; and if
\* they missed nothing before n, they do not miss n: it is written, or the
\* member has a later version already.
LEMMA FaithfulApply ==
    ASSUME NEW n \in 1..MaxSequence, NEW b \in 0..n, NEW c \in Nat,
           NEW r \in [Member -> Nat], NEW v \in [Member -> Nat],
           Faithful(r, v, b, c)
    PROVE  LET e == EventWrite(n)
           IN  /\ Faithful(RowAfter(r, v, e), VersionAfter(v, e), b, c)
               /\ n <= c + 1 =>
                    Faithful(RowAfter(r, v, e), VersionAfter(v, e), b, n)
<1>. DEFINE e == EventWrite(n)
            x == EventOf[n].member
            s == RowAfter(r, v, e)
            u == VersionAfter(v, e)
<1>1. /\ e.sequence = n /\ e.member = x /\ x \in Member
      /\ e.value = Online!Shown(x, n)
  BY EventWriteIs
<1>2. n \in Nat /\ b \in Nat /\ MaxSequence \in Nat /\ n - 1 \in Nat
  BY RebuildAssumption
<1>. HIDE DEF e, x
<1>3. ASSUME NEW m \in Member
      PROVE  /\ s[m] = Online!Shown(m, Later(u[m], b))
             /\ Online!LastChange(m, c) <= Later(u[m], b)
             /\ n <= c + 1 => Online!LastChange(m, n) <= Later(u[m], b)
  <2>1. /\ Later(v[m], b) \in Nat
        /\ r[m] = Online!Shown(m, Later(v[m], b))
        /\ Online!LastChange(m, c) <= Later(v[m], b)
    BY <1>2, <1>3 DEF Faithful, Later
  <2>2. /\ Online!LastChange(m, c) \in Nat
        /\ Online!LastChange(m, n) \in 0..n
    BY <1>2, LastChangeIs
  <2>3. CASE m = x /\ v[m] <= n
    <3>1. s[m] = Online!Shown(m, n) /\ u[m] = n
      BY <1>1, <2>3 DEF RowAfter, VersionAfter
    <3>2. Later(n, b) = n /\ Later(v[m], b) <= n
      BY <1>2, <2>3 DEF Later
    <3>. QED
      BY <1>2, <2>1, <2>2, <3>1, <3>2
  <2>4. CASE m = x /\ ~(v[m] <= n)
    <3>1. s[m] = r[m] /\ u[m] = v[m]
      BY <1>1, <2>4 DEF RowAfter, VersionAfter
    <3>2. n <= Later(v[m], b)
      BY <1>2, <2>4 DEF Later
    <3>. QED
      BY <1>2, <2>1, <2>2, <3>1, <3>2
  <2>5. CASE m # x
    <3>1. s[m] = r[m] /\ u[m] = v[m]
      BY <1>1, <2>5 DEF RowAfter, VersionAfter
    <3>2. Online!LastChange(m, n) <= n - 1
      BY <1>2, <2>5, LastChangeAtEvent DEF x
    <3>3. Online!LastChange(m, n - 1) = Online!LastChange(m, n)
      BY <1>2, <3>2, LastChangeMonotone
    <3>4. n <= c + 1 => Online!LastChange(m, n - 1) <= Online!LastChange(m, c)
      BY <1>2, LastChangeMonotone
    <3>. QED
      BY <2>1, <2>2, <3>1, <3>3, <3>4
  <2>. QED
    BY <2>3, <2>4, <2>5
<1>. HIDE DEF s, u
<1>4. Faithful(s, u, b, c) /\ (n <= c + 1 => Faithful(s, u, b, n))
  BY <1>3 DEF Faithful
<1>. QED
  BY <1>4 DEF s, u, e

-----------------------------------------------------------------------------
(* The invariant *)

\* What the evidence reflects is the watermark, or retention has passed it.
ManifestsSane ==
    \A g \in Generation : manifest[g] # None => Sane(manifest[g], kind, floor)
AttemptSane(a) == Running(a) => Sane(Evidence(a), kind, floor)

\* An attempt between its Begin and its publication has the lease, and its
\* generation is not the active one.
Busy(a) == Rebuilding(a) /\ pc[a] # "verify"
Exclusive(a) == Busy(a) => lease = a /\ active # Target(a)

\* The active generation misses no event up to its high water, which is at
\* the checkpoint or after it.
ActiveBase == IF active = Initial THEN 0 ELSE Base(manifest[active], kind)
ActiveFaithful ==
    /\ checkpoint <= highwater[active]
    /\ ActiveBase <= highwater[active]
    /\ Faithful(rows[active], versions[active], ActiveBase, highwater[active])

\* A worker is never ahead of the checkpoint with what it takes for written,
\* as long as the generation it has picked is active.
WorkerFaithful(w) ==
    /\ pos[w] <= checkpoint
    /\ wpc[w] = "checkpoint" => pos[w] < checkpoint
    /\ gen[w] = active =>
         /\ wpc[w] = "apply" => ActiveBase <= pos[w] + 1
         /\ wpc[w] = "advance" => Faithful(rows[active], versions[active],
                                           ActiveBase, pos[w] + 1)
         /\ wpc[w] = "commit" => pos[w] + 1 <= highwater[active]

\* P are the generations that have been active.  A generation is published on
\* top of its predecessor, so it does not become active twice: evidence that
\* names the active generation as its predecessor is of one that never was.
\* What is spent may have lost its evidence, and nobody rebuilds it.
InUse == {"apply", "advance", "commit"}
History(P) ==
    /\ active \notin P
    /\ \A g \in (P \cup {active}) \ spent :
            manifest[g] # None /\ manifest[g].previous \in P
    /\ \A w \in Worker : wpc[w] \in InUse => gen[w] \in P \cup {active}
    /\ \A a \in Attempt : Running(a) =>
            /\ captured[a].active \in P \cup {active}
            /\ pc[a] # "captured" /\ found[a] = None
                 /\ Target(a) \in P \cup {active} => captured[a].active \in P

\* The attempt's evidence still names the active generation as predecessor.
Fresh(a) == active = Evidence(a).previous

\* While a snapshot is written, a member has its row or the write is to come.
SnapshotProgress(a, e, g) ==
    /\ \A m \in Member : versions[g][m] \in {0, e.watermark}
    /\ highwater[g] <= e.watermark
    /\ todo[a] = <<>> => highwater[g] = e.watermark
    /\ \A i \in 1..Len(todo[a]) :
         /\ todo[a][i].sequence = e.watermark
         /\ todo[a][i].member # None =>
                todo[a][i].value = Online!Shown(todo[a][i].member, e.asOf)
    /\ \A m \in Member :
         \/ rows[g][m] = Online!Shown(m, e.asOf)
         \/ \E i \in 1..Len(todo[a]) : todo[a][i].member = m
    /\ pc[a] = "advance" /\ Head(todo[a]).member # None =>
         rows[g][Head(todo[a]).member]
            = Online!Shown(Head(todo[a]).member, e.asOf)

\* While events are written, the next is the one after the high water.
ReplayProgress(a, b, g) ==
    /\ b <= highwater[g]
    /\ Faithful(rows[g], versions[g], b, highwater[g])
    /\ highwater[g] + Len(todo[a]) <= tail
    /\ \A i \in 1..Len(todo[a]) : todo[a][i] = EventWrite(highwater[g] + i)
    /\ pc[a] = "advance" =>
         Faithful(rows[g], versions[g], b, highwater[g] + 1)

Empty(g) == rows[g] = NoRows /\ versions[g] = NoRows

\* The generation an attempt is building, step by step.
Candidate(a) ==
    LET e == Evidence(a)
        b == Base(e, kind)
        g == Target(a)
    IN  /\ pc[a] = "resetMeta" => Empty(g)
        /\ pc[a] \in {"scan", "load"} => Empty(g) /\ highwater[g] = 0
        /\ pc[a] \in Writing =>
                IF kind = "model-snapshot" /\ round[a] = 0
                THEN SnapshotProgress(a, e, g)
                ELSE ReplayProgress(a, b, g)
        /\ pc[a] \in Late \cup {"manifest"} =>
             /\ Faithful(rows[g], versions[g], b, highwater[g])
             /\ \/ b <= highwater[g]
                \/ b <= floor /\ pc[a] \in {"manifest", "catchUp"}

\* The inductive invariant of the refinement.
OInv ==
    /\ EInv
    /\ ManifestsSane /\ \A a \in Attempt : AttemptSane(a)
    /\ \A a \in Attempt : Exclusive(a)
    /\ ActiveFaithful
    /\ \A w \in Worker : WorkerFaithful(w)
    /\ \E P \in SUBSET Generation : History(P)
    /\ \A a \in Attempt : Busy(a) /\ Fresh(a) => Candidate(a)

-----------------------------------------------------------------------------
(* Frames *)

DataSame(g) ==
    /\ rows'[g] = rows[g]
    /\ versions'[g] = versions[g]
    /\ highwater'[g] = highwater[g]

\* The stream only grows, and so does what retention has removed.
LEMMA StreamGrows ==
    ASSUME TypeOK, [Next]_vars
    PROVE  /\ kind' = kind /\ floor' >= floor /\ tail' >= tail
           /\ tail \in Nat /\ floor \in Nat
<1>1. tail \in Nat /\ floor \in Nat
  BY RebuildAssumption DEF TypeOK, StreamType
<1>2. CASE Commit \/ Trim \/ Expire \/ RetirementStep
  BY <1>1, <1>2, RetirementFrame DEF Commit, Trim, Expire, stream
<1>3. ASSUME NEW a \in Attempt, AttemptStep(a) \/ Crash(a)
      PROVE  UNCHANGED stream
  BY <1>3, AttemptFrame
<1>4. ASSUME NEW w \in Worker, WorkerStep(w) \/ CrashWorker(w)
      PROVE  UNCHANGED stream
  BY <1>4, WorkerFrame
<1>5. CASE UNCHANGED vars
  BY <1>1, <1>5 DEF vars, stream
<1>. QED
  BY <1>1, <1>2, <1>3, <1>4, <1>5 DEF Next, stream

\* Which steps of an attempt write what: only the ones of a busy attempt touch
\* its generation's data and manifest, and none touches another generation's.
LEMMA AttemptWrites ==
    ASSUME TypeOK, NEW a \in Attempt, AttemptStep(a) \/ Crash(a)
    PROVE  /\ \A g \in Generation \ {Target(a)} :
                DataSame(g) /\ manifest'[g] = manifest[g]
           /\ ~Busy(a) => UNCHANGED <<data, manifest, active, checkpoint>>
           /\ pc[a] # "publish" => UNCHANGED <<active, checkpoint>>
           /\ pc[a] # "manifest" => UNCHANGED manifest
           /\ UNCHANGED <<active, checkpoint>> \/ Publishable(a)
<1>. USE DEF DataSame, Busy, Rebuilding, keys, data, TypeOK, StoreType
<1>1. Target(a) \in Generation
  BY RebuildAssumption DEF Target
<1>2. CASE UNCHANGED <<data, manifest, active, checkpoint>>
  BY <1>2
<1>3. CASE ResetRows(a) \/ ResetMeta(a) \/ AdvanceEvent(a)
  BY <1>1, <1>3 DEF ResetRows, ResetMeta, AdvanceEvent, AdvanceHighwater
<1>4. CASE ApplyEvent(a)
  <2>1. \A h \in Generation \ {Target(a)} :
                rows'[h] = rows[h] /\ versions'[h] = versions[h]
    BY <1>1, <1>4, ApplyRowIs DEF ApplyEvent
  <2>. QED
    BY <1>4, <2>1 DEF ApplyEvent
<1>5. CASE PutManifest(a)
  BY <1>1, <1>5 DEF PutManifest
<1>6. CASE Publish(a)
  BY <1>6 DEF Publish
<1>. QED
  BY <1>2, <1>3, <1>4, <1>5, <1>6
  DEF AttemptStep, Capture, Recover, Begin, Reset, ScanPage, ScanSnapshot, Load,
      Renew, CheckEvent, Written, CatchUp, Raced, Verify, Fail, Crash

\* A worker writes to the generation it has picked, and only there.
LEMMA WorkerWrites ==
    ASSUME TypeOK, NEW w \in Worker, WorkerStep(w) \/ CrashWorker(w)
    PROVE  /\ \A g \in Generation \ {gen[w]} : DataSame(g)
           /\ wpc[w] \notin {"apply", "advance"} => UNCHANGED data
<1>. USE DEF DataSame, data, TypeOK, StoreType, WorkerType
<1>1. CASE UNCHANGED data
  BY <1>1
<1>2. CASE WorkerApply(w)
  <2>1. \A h \in Generation \ {gen[w]} :
                rows'[h] = rows[h] /\ versions'[h] = versions[h]
    BY <1>2, ApplyRowIs DEF WorkerApply
  <2>. QED
    BY <1>2, <2>1 DEF WorkerApply
<1>3. CASE WorkerAdvance(w)
  BY <1>3 DEF WorkerAdvance, AdvanceHighwater
<1>. QED
  BY <1>1, <1>2, <1>3
  DEF WorkerStep, StartWorker, ReadNext, StopWorker, PickGeneration,
      WorkerCommit, WorkerCheckpoint, CrashWorker

\* A retirement touches one generation, which is spent and not the active one.
LEMMA RetirementWrites ==
    ASSUME EInv, RetirementStep
    PROVE  /\ \A g \in Generation \ spent :
                DataSame(g) /\ manifest'[g] = manifest[g]
           /\ DataSame(active) /\ manifest'[active] = manifest[active]
<1>1. TypeOK /\ NamesSpent /\ active \in Generation
  BY DEF EInv, TInv, TypeOK, StoreType
<1>2. CASE rpc = "idle"
  BY <1>2, RetirementFrame DEF DataSame, data
<1>3. CASE rpc # "idle"
  BY <1>1, <1>3, RetirementDeletes DEF DataSame, NamesSpent
<1>. QED
  BY <1>2, <1>3

\* Steps that leave an attempt and its generation alone keep its candidate.
LEMMA CandidateKept ==
    ASSUME TypeOK, TypeOK', [Next]_vars, NEW a \in Attempt,
           SameAttempt(a), DataSame(Target(a)), Candidate(a)
    PROVE  Candidate(a)'
<1>1. /\ kind' = kind /\ floor' >= floor /\ tail' >= tail
      /\ tail \in Nat /\ floor \in Nat /\ tail' \in Nat /\ floor' \in Nat
  BY StreamGrows, RebuildAssumption DEF TypeOK, StreamType
<1>2. Evidence(a)' = Evidence(a) /\ Target(a)' = Target(a)
  BY EvidenceSame DEF Target
<1>3. /\ Target(a) \in Generation /\ highwater[Target(a)] \in Nat
      /\ Base(Evidence(a), kind) \in Nat /\ Len(todo[a]) \in Nat
  <2>1. Target(a) \in Generation
    BY RebuildAssumption DEF Target
  <2>2. highwater[Target(a)] \in Nat
    BY <1>1, <2>1 DEF TypeOK, StoreType
  <2>3. Base(Evidence(a), kind) \in Nat
    BY EvidenceMarks DEF Base
  <2>4. todo[a] \in Seq(Writes(tail))
    BY DEF TypeOK, AttemptType
  <2>. QED
    BY <2>1, <2>2, <2>3, <2>4, LenProperties
<1>4. /\ SnapshotProgress(a, Evidence(a), Target(a))
            => SnapshotProgress(a, Evidence(a), Target(a))'
      /\ ReplayProgress(a, Base(Evidence(a), kind), Target(a))
            => ReplayProgress(a, Base(Evidence(a), kind), Target(a))'
  BY <1>1, <1>2, <1>3
  DEF SnapshotProgress, ReplayProgress, SameAttempt, DataSame
<1>5. Empty(Target(a)) => Empty(Target(a))'
  BY <1>2 DEF Empty, DataSame
<1>. QED
  BY <1>1, <1>2, <1>3, <1>4, <1>5 DEF Candidate, SameAttempt, DataSame

-----------------------------------------------------------------------------
(* Evidence, the lease and the history of the active generation *)

LEMMA SaneLater ==
    ASSUME NEW e, NEW k, NEW f \in Nat, NEW h \in Nat, f <= h,
           e.asOf \in Nat, Sane(e, k, f)
    PROVE  Sane(e, k, h)
BY DEF Sane

\* Scans produce sane evidence, and only such evidence is stored.
LEMMA NextSane ==
    ASSUME EInv, EInv', [Next]_vars,
           ManifestsSane, \A a \in Attempt : AttemptSane(a)
    PROVE  ManifestsSane' /\ \A a \in Attempt : AttemptSane(a)'
<1>1. TypeOK /\ TypeOK' /\ TInv
  BY DEF EInv, TInv
<1>2. /\ kind' = kind /\ floor' >= floor
      /\ tail \in Nat /\ floor \in Nat /\ floor' \in Nat
  BY <1>1, StreamGrows, RebuildAssumption DEF TypeOK, StreamType
<1>3. \A g \in Generation : manifest[g] # None => Sane(manifest[g], kind', floor')
  BY <1>1, <1>2, SaneLater DEF ManifestsSane, TypeOK, StoreType, Evidences
<1>4. \A a \in Attempt : Running(a) => Sane(Evidence(a), kind', floor')
  BY <1>1, <1>2, SaneLater, EvidenceMarks DEF AttemptSane
<1>5. \A a \in Attempt : SameAttempt(a) => AttemptSane(a)'
  BY <1>4, EvidenceSame DEF AttemptSane, Running, SameAttempt
<1>6. CASE Commit \/ Trim \/ Expire
  BY <1>3, <1>5, <1>6
  DEF Commit, Trim, Expire, ManifestsSane, SameAttempt, attemptVars
<1>7. CASE RetirementStep
  <2>1. \A h \in Generation : manifest'[h] \in {manifest[h], None}
    BY <1>1, <1>7, RetirementDeletes
  <2>2. \A a \in Attempt : SameAttempt(a)
    BY <1>7, RetirementFrame DEF SameAttempt, attemptVars
  <2>. QED
    BY <1>3, <1>5, <2>1, <2>2 DEF ManifestsSane
<1>8. ASSUME NEW a \in Attempt, AttemptStep(a) \/ Crash(a)
      PROVE  ManifestsSane' /\ \A b \in Attempt : AttemptSane(b)'
  <2>1. \A b \in Attempt \ {a} : AttemptSane(b)'
    BY <1>1, <1>5, <1>8, AttemptFrame DEF OthersSame
  <2>2. Target(a) \in Generation
    BY RebuildAssumption DEF Target
  <2>3. ManifestsSane'
    <3>1. CASE PutManifest(a)
      <4>1. Running(a)
        BY <3>1 DEF PutManifest, Running, Ended
      <4>2. \A g \in Generation : manifest'[g] \in {manifest[g], Evidence(a)}
        BY <3>1, <1>1, <2>2 DEF PutManifest, TypeOK, StoreType
      <4>. QED
        BY <1>3, <1>4, <4>1, <4>2 DEF ManifestsSane
    <3>2. CASE UNCHANGED manifest
      BY <3>2, <1>3 DEF ManifestsSane
    <3>. QED
      BY <1>1, <1>8, <3>1, <3>2
      DEF AttemptStep, Capture, Recover, Begin, Reset, ResetRows, ResetMeta,
          ScanPage, ScanSnapshot, Load, Renew, CheckEvent, ApplyEvent,
          AdvanceEvent, Written, CatchUp, Publish, Raced, Verify, Fail, Crash
  <2>4. AttemptSane(a)'
    <3>1. CASE \E label \in Ended : End(a, label)
      BY <1>1, <3>1
      DEF End, Go, AttemptSane, Running, TypeOK, AttemptType
    <3>2. CASE Capture(a)
      <4>1. found'[a] = None /\ after'[a] = 0 /\ asOf'[a] = 0
        BY <1>1, <3>2 DEF Capture, TInv, AttemptOK, Early
      <4>. QED
        BY <4>1 DEF AttemptSane, Sane, Evidence
    <3>3. CASE Recover(a) /\ ~\E label \in Ended : End(a, label)
      <4>1. found'[a] = manifest[Target(a)] /\ UNCHANGED <<after, asOf, captured>>
        BY <1>1, <3>3 DEF Recover, Ended, TypeOK, AttemptType
      <4>2. after'[a] = 0 /\ asOf'[a] = 0
        BY <1>1, <3>3, <4>1 DEF Recover, TInv, AttemptOK, Early
      <4>. QED
        BY <1>3, <2>2, <4>1, <4>2 DEF AttemptSane, Sane, Evidence
    <3>4. CASE ScanPage(a)
      <4>1. UNCHANGED <<found, captured>> /\ after'[a] = asOf'[a]
        BY <1>1, <3>4 DEF ScanPage, TypeOK, AttemptType
      <4>2. pc[a] = "scan"
        BY <3>4 DEF ScanPage
      <4>3. Running(a)
        BY <4>2 DEF Running, Ended
      <4>. QED
        BY <1>4, <4>1, <4>3 DEF AttemptSane, Sane, Evidence
    <3>5. CASE ScanSnapshot(a)
      <4>1. /\ UNCHANGED <<found, captured, floor>>
            /\ kind = "model-snapshot"
            /\ after'[a] = (IF floor = tail THEN 0 ELSE tail)
            /\ asOf'[a] = tail
        BY <1>1, <3>5 DEF ScanSnapshot, TypeOK, AttemptType, stream
      <4>2. pc[a] = "scan"
        BY <3>5 DEF ScanSnapshot
      <4>3. Running(a)
        BY <4>2 DEF Running, Ended
      <4>. QED
        BY <1>2, <1>4, <4>1, <4>3 DEF AttemptSane, Sane, Evidence
    <3>6. CASE UNCHANGED <<found, captured, after, asOf>> /\ Running(a)
      BY <1>4, <3>6 DEF AttemptSane, Evidence
    <3>7. CASE Begin(a) /\ ~\E label \in Ended : End(a, label)
      <4>1. UNCHANGED <<found, captured, after, asOf>> /\ Running(a)
        BY <3>7 DEF Begin, Running, Ended
      <4>. QED
        BY <3>6, <4>1
    <3>8. CASE \/ Reset(a) \/ ResetRows(a) \/ ResetMeta(a) \/ Load(a) \/ Renew(a)
               \/ CheckEvent(a) \/ ApplyEvent(a) \/ AdvanceEvent(a)
               \/ Written(a) \/ PutManifest(a) \/ CatchUp(a) \/ Publish(a)
               \/ Raced(a)
      <4>1. UNCHANGED <<found, captured, after, asOf>> /\ Running(a)
        BY <3>8
        DEF Reset, ResetRows, ResetMeta, Load, Renew, CheckEvent, ApplyEvent,
            AdvanceEvent, Written, PutManifest, CatchUp, Publish, Raced,
            Running, Ended
      <4>. QED
        BY <3>6, <4>1
    <3>. QED
      BY <1>8, <3>1, <3>2, <3>3, <3>4, <3>5, <3>7, <3>8
      DEF AttemptStep, Verify, Fail, Crash, Ended
  <2>. QED
    BY <2>1, <2>3, <2>4
<1>9. ASSUME NEW w \in Worker, WorkerStep(w) \/ CrashWorker(w)
      PROVE  ManifestsSane' /\ \A a \in Attempt : AttemptSane(a)'
  <2>1. UNCHANGED <<manifest, attemptVars>>
    BY <1>1, <1>9, WorkerFrame
  <2>. QED
    BY <1>3, <1>5, <2>1 DEF ManifestsSane, SameAttempt, attemptVars
<1>10. CASE UNCHANGED vars
  BY <1>3, <1>5, <1>10 DEF ManifestsSane, SameAttempt, attemptVars, vars
<1>. QED
  BY <1>6, <1>7, <1>8, <1>9, <1>10 DEF Next

\* Without stalls nobody else writes while an attempt is busy: the others have
\* no lease, and the lease of a live attempt neither expires nor is released
\* by a retirement.
LEMMA NextExclusive ==
    ASSUME EInv, [Next]_vars, "stall" \notin Fault,
           \A a \in Attempt : Exclusive(a)
    PROVE  /\ \A a \in Attempt : Exclusive(a)'
           /\ \A a \in Attempt : Busy(a) /\ SameAttempt(a) =>
                UNCHANGED <<lease, active>>
<1>. SUFFICES ASSUME NEW a \in Attempt
              PROVE  /\ Exclusive(a)'
                     /\ Busy(a) /\ SameAttempt(a) => UNCHANGED <<lease, active>>
  OBVIOUS
<1>. USE DEF keys
<1>1. /\ Target(a)' = Target(a) /\ None \notin Attempt
      /\ \A b \in Attempt : Exclusive(b)
      /\ Target(a) # None /\ TypeOK
  BY RebuildAssumption DEF Target, EInv, TInv
<1>2. CASE SameAttempt(a) /\ (~Busy(a) \/ UNCHANGED <<lease, active>>)
  BY <1>1, <1>2 DEF Exclusive, Busy, Rebuilding, SameAttempt
<1>3. CASE Commit \/ Trim
  <2>1. SameAttempt(a) /\ UNCHANGED <<lease, active>>
    BY <1>3 DEF Commit, Trim, SameAttempt, attemptVars
  <2>. QED
    BY <1>2, <2>1
<1>4. CASE Expire
  <2>1. SameAttempt(a) /\ UNCHANGED active
    BY <1>4 DEF Expire, SameAttempt, attemptVars
  <2>2. ~Busy(a)
    BY <1>1, <1>4 DEF Expire, Exclusive, Busy
  <2>. QED
    BY <1>2, <2>1, <2>2
<1>5. CASE AttemptStep(a) \/ Crash(a)
  <2>1. CASE Busy(a) /\ Busy(a)'
    <3>1. lease = a /\ active # Target(a)
      BY <1>1, <2>1 DEF Exclusive
    <3>2. UNCHANGED <<lease, active>>
      <4>1. CASE Fail(a) \/ Crash(a)
        BY <1>1, <2>1, <4>1
        DEF Fail, Crash, End, Go, Busy, Rebuilding, TypeOK, AttemptType
      <4>2. CASE Publish(a)
        BY <1>1, <2>1, <4>2
        DEF Publish, Go, Busy, Rebuilding, TypeOK, AttemptType
      <4>3. CASE Begin(a)
        BY <2>1, <4>3 DEF Begin, Busy, Rebuilding
      <4>4. CASE UNCHANGED <<lease, active>>
        BY <4>4
      <4>. QED
        BY <1>5, <4>1, <4>2, <4>3, <4>4
        DEF AttemptStep, Capture, Recover, Reset, ResetRows, ResetMeta,
            ScanPage, ScanSnapshot, Load, Renew, CheckEvent, ApplyEvent,
            AdvanceEvent, Written, PutManifest, CatchUp, Raced, Verify
    <3>. QED
      BY <1>1, <3>1, <3>2 DEF Exclusive
  <2>2. CASE ~Busy(a) /\ Busy(a)'
    <3>1. Begin(a) /\ Admissible(a) /\ lease' = a /\ UNCHANGED active
      <4>1. CASE Begin(a)
        BY <1>1, <2>2, <4>1
        DEF Begin, End, Go, Busy, Rebuilding, TypeOK, AttemptType
      <4>2. CASE ~Begin(a)
        <5>1. CASE Fail(a) \/ Crash(a) \/ Verify(a)
          BY <1>1, <2>2, <5>1
          DEF Fail, Crash, Verify, End, Go, Busy, Rebuilding, TypeOK, AttemptType
        <5>2. CASE Capture(a) \/ Recover(a)
          BY <1>1, <2>2, <5>2
          DEF Capture, Recover, End, Go, Busy, Rebuilding, TypeOK, AttemptType
        <5>3. CASE Busy(a)
          BY <2>2, <5>3
        <5>. QED
          BY <1>5, <4>2, <5>1, <5>2, <5>3
          DEF AttemptStep, Reset, ResetRows, ResetMeta, ScanPage, ScanSnapshot,
              Load, Renew, CheckEvent, ApplyEvent, AdvanceEvent, Written,
              PutManifest, CatchUp, Publish, Raced, Busy, Rebuilding
      <4>. QED
        BY <4>1, <4>2
    <3>. QED
      BY <1>1, <2>2, <3>1 DEF Admissible, Exclusive
  <2>3. Busy(a) /\ SameAttempt(a) => UNCHANGED <<lease, active>>
    <3>1. SameAttempt(a) => (Busy(a) <=> Busy(a)')
      BY DEF SameAttempt, Busy, Rebuilding
    <3>2. CASE Fail(a) \/ Crash(a) \/ Publish(a) \/ Begin(a)
      BY <3>2, <1>1
      DEF Fail, Crash, Publish, Begin, End, Go, SameAttempt, Busy, Rebuilding,
          TypeOK, AttemptType
    <3>3. CASE UNCHANGED <<lease, active>>
      BY <3>3
    <3>. QED
      BY <1>5, <3>2, <3>3
      DEF AttemptStep, Capture, Recover, Reset, ResetRows, ResetMeta,
          ScanPage, ScanSnapshot, Load, Renew, CheckEvent, ApplyEvent,
          AdvanceEvent, Written, PutManifest, CatchUp, Raced, Verify
  <2>. QED
    BY <2>1, <2>2, <2>3 DEF Exclusive
<1>6. ASSUME NEW b \in Attempt, b # a, AttemptStep(b) \/ Crash(b)
      PROVE  SameAttempt(a) /\ (~Busy(a) \/ UNCHANGED <<lease, active>>)
  <2>1. SameAttempt(a)
    BY <1>1, <1>6, AttemptFrame DEF OthersSame
  <2>2. ASSUME Busy(a) PROVE UNCHANGED <<lease, active>>
    <3>1. lease = a /\ ~Busy(b)
      BY <1>1, <1>6, <2>2 DEF Exclusive
    <3>2. UNCHANGED active
      BY <1>1, <1>6, <3>1, AttemptWrites
    <3>3. UNCHANGED lease
      <4>1. CASE Begin(b)
        BY <1>1, <3>1, <4>1 DEF Begin, Admissible
      <4>2. CASE Fail(b)
        BY <1>6, <3>1, <4>2 DEF Fail, Owns
      <4>3. CASE Publish(b)
        BY <3>1, <4>3 DEF Publish, Busy, Rebuilding
      <4>4. CASE UNCHANGED lease
        BY <4>4
      <4>. QED
        BY <1>6, <4>1, <4>2, <4>3, <4>4
        DEF AttemptStep, Capture, Recover, Reset, ResetRows, ResetMeta,
            ScanPage, ScanSnapshot, Load, Renew, CheckEvent, ApplyEvent,
            AdvanceEvent, Written, PutManifest, CatchUp, Raced, Verify, Crash
    <3>. QED
      BY <3>2, <3>3
  <2>. QED
    BY <2>1, <2>2
<1>7. ASSUME NEW w \in Worker, WorkerStep(w) \/ CrashWorker(w)
      PROVE  SameAttempt(a) /\ UNCHANGED <<lease, active>>
  BY <1>1, <1>7, WorkerFrame DEF SameAttempt, attemptVars
<1>8. CASE UNCHANGED vars
  BY <1>2, <1>8 DEF vars, SameAttempt, attemptVars
<1>9. CASE RetirementStep
  <2>1. SameAttempt(a) /\ UNCHANGED active
    BY <1>9, RetirementFrame DEF SameAttempt, attemptVars
  <2>2. ASSUME Busy(a), rpc = "release" PROVE FALSE
    <3>1. Running(a) /\ lease = a
      BY <1>1, <2>2 DEF Exclusive, Busy, Rebuilding, Running, Ended
    <3>2. rebuilding = Target(a)
      BY <3>1 DEF EInv, EvidenceReached
    <3>. QED
      BY <2>2, <3>1, <3>2 DEF EInv, NamesSpent
  <2>3. ~Busy(a) \/ UNCHANGED lease
    BY <1>9, <2>2, RetirementFrame
  <2>. QED
    BY <1>2, <2>1, <2>3
<1>. QED
  BY <1>2, <1>3, <1>4, <1>5, <1>6, <1>7, <1>8, <1>9 DEF Next

\* Evidence on top of the active generation is of a generation that has not
\* been active, so no worker has picked it.
LEMMA FreshTarget ==
    ASSUME NEW P, History(P), NEW a \in Attempt, EvidenceStored(a),
           NamesSpent, Busy(a), Fresh(a)
    PROVE  Target(a) \notin P \cup {active}
<1>1. Running(a) /\ pc[a] # "captured"
  BY DEF Busy, Rebuilding, Running, Ended
<1>2. Target(a) \notin spent
  BY <1>1 DEF NamesSpent
<1>3. CASE found[a] = None
  BY <1>1, <1>3 DEF History, Fresh, Evidence
<1>4. CASE found[a] # None
  <2>1. Evidence(a) = manifest[Target(a)]
    BY <1>4 DEF Evidence, EvidenceStored
  <2>. QED
    BY <1>2, <2>1 DEF History, Fresh
<1>. QED
  BY <1>3, <1>4

\* Publication adds the predecessor to the history; no other step changes it.
LEMMA NextHistory ==
    ASSUME EInv, [Next]_vars, NEW P \in SUBSET Generation, History(P),
           \A a \in Attempt : Exclusive(a)
    PROVE  \E Q \in SUBSET Generation : History(Q)'
<1>. USE DEF keys
<1>1. /\ TypeOK /\ TInv /\ active \in Generation /\ NamesSpent
      /\ \A a \in Attempt : EvidenceStored(a)
  BY DEF EInv, TInv, TypeOK, StoreType
<1>2. /\ None \notin Attempt
      /\ \A a \in Attempt : /\ Target(a) \in Generation
                            /\ Target(a)' = Target(a)
  BY RebuildAssumption DEF Target
<1>3. spent \subseteq spent'
  <2>1. ASSUME NEW a \in Attempt, AttemptStep(a) \/ Crash(a)
        PROVE  UNCHANGED spent
    BY <1>1, <2>1, AttemptFrame DEF retirement
  <2>2. ASSUME NEW w \in Worker, WorkerStep(w) \/ CrashWorker(w)
        PROVE  UNCHANGED spent
    BY <1>1, <2>2, WorkerFrame DEF retirement
  <2>3. CASE Commit \/ Trim \/ Expire \/ UNCHANGED vars
    BY <2>3 DEF Commit, Trim, Expire, vars, retirement
  <2>. QED
    BY <2>1, <2>2, <2>3, RetirementFrame DEF Next
<1>. DEFINE Past == P \cup {active}
            ManifestsOK == \A g \in Past \ spent : manifest'[g] = manifest[g]
            WorkersOK == \A w \in Worker : wpc'[w] \in InUse => gen'[w] \in Past
            AttemptKeptOK(a) ==
                Running(a)' =>
                    /\ captured'[a].active \in Past
                    /\ pc'[a] # "captured" /\ found'[a] = None
                         /\ Target(a) \in Past => captured'[a].active \in P
<1>4. ASSUME UNCHANGED active, ManifestsOK, WorkersOK,
             \A a \in Attempt : AttemptKeptOK(a)
      PROVE  History(P)'
  BY <1>2, <1>3, <1>4 DEF History
<1>5. Past \subseteq Generation
  BY <1>1
<1>6. WorkersOK \/ ~UNCHANGED <<wpc, gen>>
  BY DEF History
<1>7. \A a \in Attempt : SameAttempt(a) => AttemptKeptOK(a)
  BY <1>1 DEF History, SameAttempt, Running
<1>8. CASE Commit \/ Trim \/ Expire \/ RetirementStep
  <2>1. /\ UNCHANGED <<active, wpc, gen>>
        /\ \A a \in Attempt : SameAttempt(a)
    BY <1>8, RetirementFrame
    DEF Commit, Trim, Expire, SameAttempt, attemptVars, workerVars
  <2>2. ManifestsOK
    <3>1. CASE Commit \/ Trim \/ Expire
      BY <3>1 DEF Commit, Trim, Expire
    <3>2. CASE RetirementStep
      BY <1>5, <3>2, RetirementWrites
    <3>. QED
      BY <1>8, <3>1, <3>2
  <2>. QED
    BY <1>4, <1>6, <1>7, <2>1, <2>2
<1>9. ASSUME NEW w \in Worker, WorkerStep(w) \/ CrashWorker(w)
      PROVE  History(P)'
  <2>1. /\ OtherWorkersSame(w)
        /\ UNCHANGED <<manifest, active>>
        /\ \A a \in Attempt : SameAttempt(a)
    BY <1>1, <1>9, WorkerFrame DEF SameAttempt, attemptVars
  <2>2. wpc'[w] \in InUse => gen'[w] \in Past
    <3>1. CASE PickGeneration(w)
      BY <1>1, <3>1 DEF PickGeneration, TypeOK, WorkerType
    <3>2. CASE WorkerApply(w) \/ WorkerAdvance(w)
      BY <1>1, <3>2
      DEF WorkerApply, WorkerAdvance, InUse, History, TypeOK, WorkerType
    <3>3. CASE ~(wpc'[w] \in InUse)
      BY <3>3
    <3>. QED
      BY <1>1, <1>9, <3>1, <3>2, <3>3
      DEF WorkerStep, StartWorker, ReadNext, StopWorker, WorkerCommit,
          WorkerCheckpoint, CrashWorker, Step, Stop, InUse, TypeOK, WorkerType
  <2>3. WorkersOK
    BY <2>1, <2>2 DEF OtherWorkersSame, History
  <2>. QED
    BY <1>4, <1>7, <2>1, <2>3
<1>10. ASSUME NEW a \in Attempt, AttemptStep(a) \/ Crash(a),
              ~(Publish(a) /\ Publishable(a))
       PROVE  History(P)'
  <2>1. /\ \A b \in Attempt \ {a} : SameAttempt(b)
        /\ UNCHANGED <<wpc, gen>>
    BY <1>1, <1>10, AttemptFrame DEF OthersSame, workerVars
  <2>2. UNCHANGED active
    BY <1>10
    DEF AttemptStep, Capture, Recover, Begin, Reset, ResetRows, ResetMeta,
        ScanPage, ScanSnapshot, Load, Renew, CheckEvent, ApplyEvent,
        AdvanceEvent, Written, PutManifest, CatchUp, Publish, Raced, Verify,
        Fail, Crash
  <2>3. ManifestsOK
    BY <1>1, <1>2, <1>5, <1>10, ManifestsImmutable DEF History
  <2>4. AttemptKeptOK(a)
    <3>1. CASE Capture(a)
      BY <1>1, <3>1 DEF Capture, Go, TypeOK, AttemptType
    <3>2. CASE \E label \in Ended : End(a, label)
      BY <1>1, <3>2 DEF End, Go, Running, TypeOK, AttemptType
    <3>3. CASE Recover(a) /\ ~\E label \in Ended : End(a, label)
      <4>1. /\ pc[a] = "captured" /\ UNCHANGED captured
            /\ found'[a] = manifest[Target(a)]
        BY <1>1, <3>3 DEF Recover, Ended, TypeOK, AttemptType
      <4>2. Running(a)
        BY <4>1 DEF Running, Ended
      <4>3. Target(a) \in Past => manifest[Target(a)] # None
        BY <1>1, <4>2 DEF History, NamesSpent
      <4>. QED
        BY <4>1, <4>2, <4>3 DEF History
    <3>4. CASE UNCHANGED <<captured, found>> /\ Running(a) /\ pc[a] # "captured"
      BY <3>4 DEF History
    <3>. QED
      BY <1>1, <1>10, <3>1, <3>2, <3>3, <3>4
      DEF AttemptStep, Begin, Reset, ResetRows, ResetMeta,
          ScanPage, ScanSnapshot, Load, Renew, CheckEvent, ApplyEvent,
          AdvanceEvent, Written, PutManifest, CatchUp, Publish, Raced, Verify,
          Fail, Crash, Running, Ended
  <2>. QED
    BY <1>4, <1>6, <1>7, <2>1, <2>2, <2>3, <2>4
<1>11. ASSUME NEW a \in Attempt, Publish(a), Publishable(a)
       PROVE  \E Q \in SUBSET Generation : History(Q)'
  <2>1. /\ active' = Target(a) /\ pc[a] = "publish" /\ pc'[a] = "verify"
        /\ UNCHANGED <<manifest, captured, found, wpc, gen>>
        /\ \A b \in Attempt \ {a} : pc'[b] = pc[b]
    BY <1>1, <1>11 DEF Publish, Go, workerVars, TypeOK, AttemptType
  <2>2. Busy(a) /\ Fresh(a)
    BY <1>11, <2>1 DEF Busy, Rebuilding, Fresh, Publishable
  <2>3. Target(a) \notin Past
    BY <1>1, <2>2, FreshTarget
  <2>4. manifest[Target(a)] = Evidence(a) /\ manifest[Target(a)] # None
    BY <1>1, <2>1, StoredNotNone DEF EvidenceStored, Late
  <2>5. manifest[Target(a)].previous = active
    BY <2>2, <2>4 DEF Fresh
  <2>6. PICK Q \in SUBSET Generation : Q = P \cup {active}
    BY <1>1
  <2>7. active' \notin Q
    BY <2>1, <2>3, <2>6
  <2>8. \A g \in (Q \cup {active'}) \ spent' :
            manifest'[g] # None /\ manifest'[g].previous \in Q
    BY <1>3, <2>1, <2>4, <2>5, <2>6 DEF History
  <2>9. \A w \in Worker : wpc'[w] \in InUse => gen'[w] \in Q \cup {active'}
    BY <2>1, <2>6 DEF History
  <2>10. \A b \in Attempt : Running(b)' =>
            /\ captured'[b].active \in Q \cup {active'}
            /\ pc'[b] # "captured" /\ found'[b] = None
                 /\ Target(b) \in Q \cup {active'} => captured'[b].active \in Q
    <3>1. \A b \in Attempt : Running(b)' => Running(b)
      BY <2>1 DEF Running, Ended
    <3>2. \A b \in Attempt : Running(b) => captured[b].active \in Q
      BY <2>6 DEF History
    <3>. QED
      BY <2>1, <3>1, <3>2
  <2>11. History(Q)'
    BY <1>2, <2>7, <2>8, <2>9, <2>10 DEF History
  <2>. QED
    BY <2>11
<1>12. CASE UNCHANGED vars
  <2>1. \A a \in Attempt : SameAttempt(a)
    BY <1>12 DEF vars, attemptVars, SameAttempt
  <2>. QED
    BY <1>4, <1>6, <1>7, <1>12, <2>1 DEF vars, workerVars
<1>. QED
  BY <1>8, <1>9, <1>10, <1>11, <1>12 DEF Next

-----------------------------------------------------------------------------
(* The active generation *)

\* The numbers of the active generation and of the workers.
LEMMA ActiveNumbers ==
    ASSUME TypeOK, ActiveHasEvidence
    PROVE  /\ tail \in Nat /\ tail \in 0..MaxSequence
           /\ active \in Generation
           /\ checkpoint \in Nat /\ ActiveBase \in 0..tail
           /\ highwater[active] \in 0..tail
           /\ rows[active] \in [Member -> 0..tail]
           /\ versions[active] \in [Member -> 0..tail]
           /\ \A w \in Worker : pos[w] \in Nat
<1>1. /\ tail \in Nat /\ tail \in 0..MaxSequence
      /\ active \in Generation /\ checkpoint \in Nat
      /\ \A w \in Worker : pos[w] \in Nat
  BY RebuildAssumption DEF TypeOK, StreamType, StoreType, WorkerType
<1>2. ActiveBase \in 0..tail
  BY <1>1
  DEF ActiveHasEvidence, ActiveBase, Base, TypeOK, StoreType, Evidences
<1>. QED
  BY <1>1, <1>2 DEF TypeOK, StoreType

\* Steps that leave the active generation and the workers alone.
ActiveSame ==
    /\ UNCHANGED <<active, kind>>
    /\ DataSame(active)
    /\ manifest'[active] = manifest[active]

LEMMA ActiveKept ==
    ASSUME ActiveSame, UNCHANGED <<checkpoint, workerVars>>,
           ActiveFaithful, \A w \in Worker : WorkerFaithful(w)
    PROVE  ActiveFaithful' /\ \A w \in Worker : WorkerFaithful(w)'
<1>1. ActiveBase' = ActiveBase
  BY DEF ActiveSame, ActiveBase
<1>. QED
  BY <1>1
  DEF ActiveSame, DataSame, ActiveFaithful, WorkerFaithful, workerVars

\* Attempts leave the active generation alone, until one publishes another.
LEMMA AttemptActiveSame ==
    ASSUME TypeOK, NEW a \in Attempt, AttemptStep(a) \/ Crash(a), Exclusive(a),
           UNCHANGED active
    PROVE  ActiveSame
<1>1. UNCHANGED kind /\ active \in Generation
  BY AttemptFrame DEF stream, TypeOK, StoreType
<1>2. CASE Busy(a)
  BY <1>1, <1>2, AttemptWrites DEF Exclusive, ActiveSame
<1>3. CASE ~Busy(a)
  BY <1>1, <1>3, AttemptWrites DEF ActiveSame, DataSame, data
<1>. QED
  BY <1>2, <1>3

\* What is published misses no event, and the checkpoint is its high water; no
\* worker has picked it before.
LEMMA PublishFaithful ==
    ASSUME OInv, NEW a \in Attempt, Publish(a), Publishable(a)
    PROVE  ActiveFaithful' /\ \A w \in Worker : WorkerFaithful(w)'
<1>1. TInv /\ TypeOK /\ EvidenceStored(a) /\ Candidate(a) /\ NamesSpent
  BY DEF OInv, EInv, TInv, Publish, Publishable, Busy, Rebuilding, Fresh
<1>2. /\ pc[a] = "publish" /\ active' = Target(a)
      /\ checkpoint' = highwater[Target(a)] /\ checkpoint <= checkpoint'
      /\ UNCHANGED <<kind, data, manifest, workerVars>>
  BY DEF Publish, Publishable, stream
<1>3. /\ Target(a) \in Generation /\ Target(a) # Initial
      /\ highwater[Target(a)] \in Nat /\ checkpoint \in Nat
      /\ \A w \in Worker : pos[w] \in Nat
  <2>1. Target(a) \in Generation /\ tail \in Nat
    BY <1>1, RebuildAssumption DEF Target, TypeOK, StreamType
  <2>2. Target(a) # Initial
    BY <1>1, <1>2 DEF NamesSpent, Running, Ended
  <2>. QED
    BY <1>1, <2>1, <2>2 DEF TypeOK, StoreType, WorkerType
<1>4. manifest[Target(a)] = Evidence(a)
  BY <1>1, <1>2 DEF EvidenceStored, Late
<1>5. ActiveBase' = Base(Evidence(a), kind)
  BY <1>2, <1>3, <1>4 DEF ActiveBase
<1>6. /\ Faithful(rows[Target(a)], versions[Target(a)], Base(Evidence(a), kind),
                  highwater[Target(a)])
      /\ Base(Evidence(a), kind) <= highwater[Target(a)]
  BY <1>1, <1>2 DEF Candidate, Late
<1>7. ActiveFaithful'
  BY <1>2, <1>3, <1>5, <1>6 DEF ActiveFaithful, data
<1>8. PICK P \in SUBSET Generation : History(P)
  BY DEF OInv
<1>9. Target(a) \notin P \cup {active}
  BY <1>1, <1>2, <1>8, FreshTarget
  DEF Busy, Rebuilding, Fresh, Publishable
<1>10. ASSUME NEW w \in Worker PROVE WorkerFaithful(w)'
  <2>1. WorkerFaithful(w)
    BY DEF OInv
  <2>2. wpc[w] \in InUse => gen[w] # active'
    BY <1>2, <1>8, <1>9 DEF History
  <2>. QED
    BY <1>2, <1>3, <2>1, <2>2 DEF WorkerFaithful, workerVars, InUse
<1>. QED
  BY <1>7, <1>10

\* An event a worker applies to the active generation.
LEMMA WorkerApplyFaithful ==
    ASSUME TInv, ActiveHasEvidence, NEW w \in Worker, WorkerApply(w),
           ActiveFaithful, \A v \in Worker : WorkerFaithful(v)
    PROVE  ActiveFaithful' /\ \A v \in Worker : WorkerFaithful(v)'
<1>1. TypeOK /\ WorkerOK(w)
  BY DEF TInv
<1>2. /\ tail \in Nat /\ tail \in 0..MaxSequence /\ MaxSequence \in Nat
      /\ active \in Generation
      /\ checkpoint \in Nat /\ ActiveBase \in 0..tail
      /\ highwater[active] \in 0..tail
      /\ rows[active] \in [Member -> Nat]
      /\ versions[active] \in [Member -> Nat]
      /\ \A v \in Worker : pos[v] \in Nat
  BY <1>1, ActiveNumbers, RebuildAssumption
<1>3. /\ wpc[w] = "apply" /\ wpc'[w] = "advance"
      /\ ApplyRow(gen[w], EventWrite(pos[w] + 1))
      /\ OtherWorkersSame(w)
      /\ UNCHANGED <<active, checkpoint, highwater, manifest, kind, pos, gen>>
  BY <1>1, WorkerFrame
  DEF WorkerApply, WorkerStep, Step, keys, stream, TypeOK, WorkerType
<1>4. ActiveBase' = ActiveBase
  BY <1>3 DEF ActiveBase
<1>5. CASE gen[w] # active
  <2>1. rows'[active] = rows[active] /\ versions'[active] = versions[active]
    BY <1>1, <1>2, <1>3, <1>5, ApplyRowIs DEF TypeOK, WorkerType
  <2>. QED
    BY <1>3, <1>4, <1>5, <2>1
    DEF ActiveFaithful, WorkerFaithful, OtherWorkersSame
<1>6. CASE gen[w] = active
  <2>. DEFINE n == pos[w] + 1
              b == ActiveBase
              e == EventWrite(n)
              r == rows[active]
              u == versions[active]
  <2>1. /\ rows'[active] = RowAfter(r, u, e)
        /\ versions'[active] = VersionAfter(u, e)
    BY <1>1, <1>2, <1>3, <1>6, ApplyRowIs
  <2>2. n \in 1..MaxSequence /\ b \in 0..n /\ n <= highwater[active] + 1
    <3>1. pos[w] < tail /\ pos[w] \in Nat
      BY <1>1, <1>2, <1>3 DEF WorkerOK
    <3>2. b <= n
      BY <1>3, <1>6 DEF WorkerFaithful
    <3>3. pos[w] <= checkpoint /\ checkpoint <= highwater[active]
      BY DEF WorkerFaithful, ActiveFaithful
    <3>. QED
      BY <1>2, <3>1, <3>2, <3>3
  <2>3. \A c \in Nat : Faithful(r, u, b, c) =>
            Faithful(rows'[active], versions'[active], b, c)
    BY <1>2, <2>1, <2>2, FaithfulApply
  <2>4. Faithful(rows'[active], versions'[active], b, n)
    <3>1. Faithful(r, u, b, highwater[active]) /\ highwater[active] \in Nat
      BY <1>2 DEF ActiveFaithful
    <3>. QED
      BY <1>2, <2>1, <2>2, <3>1, FaithfulApply
  <2>5. ActiveFaithful'
    BY <1>2, <1>3, <1>4, <2>3 DEF ActiveFaithful
  <2>6. ASSUME NEW v \in Worker PROVE WorkerFaithful(v)'
    <3>1. CASE v = w
      BY <1>3, <1>4, <2>4, <3>1 DEF WorkerFaithful
    <3>2. CASE v # w
      BY <1>2, <1>3, <1>4, <2>3, <3>2 DEF WorkerFaithful, OtherWorkersSame
    <3>. QED
      BY <3>1, <3>2
  <2>. QED
    BY <2>5, <2>6
<1>. QED
  BY <1>5, <1>6

\* The other steps of a worker.
LEMMA WorkerFaithfulSteps ==
    ASSUME TInv, ActiveHasEvidence, NEW w \in Worker,
           WorkerStep(w) \/ CrashWorker(w),
           ActiveFaithful, \A v \in Worker : WorkerFaithful(v)
    PROVE  ActiveFaithful' /\ \A v \in Worker : WorkerFaithful(v)'
<1>. USE DEF keys, stream
<1>1. TypeOK /\ WorkerOK(w)
  BY DEF TInv
<1>2. /\ tail \in Nat /\ active \in Generation
      /\ checkpoint \in Nat /\ ActiveBase \in Nat
      /\ highwater[active] \in Nat
      /\ rows[active] \in [Member -> Nat]
      /\ versions[active] \in [Member -> Nat]
      /\ \A v \in Worker : pos[v] \in Nat
  BY <1>1, ActiveNumbers
<1>3. /\ OtherWorkersSame(w)
      /\ UNCHANGED <<active, manifest, kind>>
  BY <1>1, WorkerFrame
<1>4. ActiveBase' = ActiveBase
  BY <1>3 DEF ActiveBase
<1>5. CASE WorkerApply(w)
  BY <1>5, WorkerApplyFaithful
<1>6. CASE WorkerAdvance(w)
  <2>1. /\ wpc[w] = "advance" /\ wpc'[w] = "commit"
        /\ UNCHANGED <<checkpoint, rows, versions, pos, gen>>
    BY <1>1, <1>6 DEF WorkerAdvance, Step, TypeOK, WorkerType
  <2>2. CASE gen[w] # active
    <3>1. highwater'[active] = highwater[active]
      BY <1>1, <1>2, <1>6, <2>2
      DEF WorkerAdvance, AdvanceHighwater, TypeOK, StoreType
    <3>. QED
      BY <1>3, <1>4, <2>1, <2>2, <3>1
      DEF ActiveFaithful, WorkerFaithful, OtherWorkersSame
  <2>3. CASE gen[w] = active
    <3>1. /\ highwater'[active] = Later(highwater[active], pos[w] + 1)
          /\ highwater'[active] >= highwater[active]
          /\ highwater'[active] >= pos[w] + 1
          /\ highwater'[active] \in {highwater[active], pos[w] + 1}
      BY <1>1, <1>2, <1>6, <2>3
      DEF WorkerAdvance, AdvanceHighwater, Later, TypeOK, StoreType
    <3>2. ActiveFaithful'
      BY <1>2, <1>3, <1>4, <2>1, <2>3, <3>1 DEF ActiveFaithful, WorkerFaithful
    <3>3. ASSUME NEW v \in Worker PROVE WorkerFaithful(v)'
      <4>1. CASE v = w
        BY <1>3, <1>4, <2>1, <3>1, <4>1 DEF WorkerFaithful
      <4>2. CASE v # w
        <5>1. WorkerFaithful(v) /\ pos[v] \in Nat /\ highwater'[active] \in Nat
          BY <1>2, <3>1
        <5>. QED
          BY <1>2, <1>3, <1>4, <2>1, <3>1, <4>2, <5>1
          DEF WorkerFaithful, OtherWorkersSame
      <4>. QED
        BY <4>1, <4>2
    <3>. QED
      BY <3>2, <3>3
  <2>. QED
    BY <2>2, <2>3
<1>7. CASE /\ UNCHANGED data
           /\ checkpoint' \in Nat
           /\ checkpoint' >= checkpoint
           /\ checkpoint' <= highwater[active]
           /\ WorkerFaithful(w)'
  <2>1. ActiveFaithful'
    BY <1>3, <1>4, <1>7 DEF ActiveFaithful, data
  <2>2. ASSUME NEW v \in Worker, v # w PROVE WorkerFaithful(v)'
    BY <1>2, <1>3, <1>4, <1>7, <2>2
    DEF WorkerFaithful, OtherWorkersSame, data
  <2>. QED
    BY <1>7, <2>1, <2>2
<1>8. checkpoint <= highwater[active] /\ pos[w] <= checkpoint
  BY DEF ActiveFaithful, WorkerFaithful
<1>9. CASE StartWorker(w) \/ ReadNext(w) \/ StopWorker(w) \/ CrashWorker(w)
  <2>1. /\ wpc'[w] \in {"idle", "read", "generation"}
        /\ pos'[w] \in {0, pos[w], checkpoint}
        /\ UNCHANGED <<checkpoint, data>>
    BY <1>1, <1>9
    DEF StartWorker, ReadNext, StopWorker, CrashWorker, Step, Stop, TypeOK,
        WorkerType
  <2>2. WorkerFaithful(w)'
    BY <1>2, <1>8, <2>1 DEF WorkerFaithful
  <2>. QED
    BY <1>2, <1>7, <1>8, <2>1, <2>2
<1>10. CASE PickGeneration(w)
  <2>1. /\ wpc'[w] = IF pos[w] + 1 < highwater[active] THEN "commit" ELSE "apply"
        /\ UNCHANGED <<checkpoint, data, pos>>
    BY <1>1, <1>10 DEF PickGeneration, Step, TypeOK, WorkerType
  <2>2. WorkerFaithful(w)'
    BY <1>2, <1>3, <1>4, <1>8, <2>1 DEF WorkerFaithful, ActiveFaithful, data
  <2>. QED
    BY <1>2, <1>7, <1>8, <2>1, <2>2
<1>11. CASE WorkerCommit(w)
  <2>1. CASE active = gen[w]
    <3>1. /\ checkpoint' = Later(checkpoint, pos[w] + 1)
          /\ wpc[w] = "commit" /\ wpc'[w] = "checkpoint"
          /\ UNCHANGED <<data, pos, gen>>
      BY <1>1, <1>11, <2>1 DEF WorkerCommit, Step, TypeOK, WorkerType
    <3>2. pos[w] + 1 <= highwater[active]
      BY <2>1, <3>1 DEF WorkerFaithful
    <3>3. /\ checkpoint' \in Nat /\ checkpoint' >= checkpoint
          /\ checkpoint' >= pos[w] + 1 /\ checkpoint' <= highwater[active]
      BY <1>2, <1>8, <3>1, <3>2 DEF Later
    <3>4. WorkerFaithful(w)'
      BY <1>2, <3>1, <3>3 DEF WorkerFaithful
    <3>. QED
      BY <1>7, <3>1, <3>3, <3>4
  <2>2. CASE active # gen[w]
    <3>1. /\ wpc'[w] \in {"idle", "generation"} /\ pos'[w] \in {0, pos[w]}
          /\ UNCHANGED <<checkpoint, data>>
      BY <1>1, <1>11, <2>2 DEF WorkerCommit, Step, Stop, TypeOK, WorkerType
    <3>2. WorkerFaithful(w)'
      BY <1>2, <1>8, <3>1 DEF WorkerFaithful
    <3>. QED
      BY <1>2, <1>7, <1>8, <3>1, <3>2
  <2>. QED
    BY <2>1, <2>2
<1>12. CASE WorkerCheckpoint(w)
  <2>1. /\ checkpoint' = Later(checkpoint, pos[w] + 1)
        /\ pos'[w] = pos[w] + 1
        /\ wpc[w] = "checkpoint" /\ wpc'[w] = "read"
        /\ UNCHANGED data
    BY <1>1, <1>12 DEF WorkerCheckpoint, Step, TypeOK, WorkerType
  <2>2. pos[w] < checkpoint
    BY <2>1 DEF WorkerFaithful
  <2>3. checkpoint' = checkpoint
    BY <1>2, <2>1, <2>2 DEF Later
  <2>4. WorkerFaithful(w)'
    BY <1>2, <2>1, <2>2, <2>3 DEF WorkerFaithful
  <2>. QED
    BY <1>2, <1>7, <1>8, <2>1, <2>3, <2>4
<1>. QED
  BY <1>5, <1>6, <1>9, <1>10, <1>11, <1>12 DEF WorkerStep

-----------------------------------------------------------------------------
(* The generation that is being built *)

\* Loading the segments: all of a snapshot, or the replayed events in order.
LEMMA LoadCandidate ==
    ASSUME TInv, NEW a \in Attempt, Load(a), EvidenceStored(a), Candidate(a),
           UNCHANGED <<tail, kind>>
    PROVE  Candidate(a)'
<1>. DEFINE e == Evidence(a)
            g == Target(a)
            s == todo'[a]
<1>1. TypeOK /\ StreamType /\ tail \in Nat
  BY RebuildAssumption DEF TInv, TypeOK, StreamType
<1>2. /\ pc[a] = "load" /\ pc'[a] = "renew"
      /\ s = IF kind = "model-snapshot" THEN SnapshotWrites(e.watermark, e.asOf)
             ELSE EventWrites([i \in 1..e.watermark |-> i])
      /\ UNCHANGED <<data, captured, found, after, asOf, round>>
  BY <1>1 DEF Load, Go, TypeOK, AttemptType
<1>3. Evidence(a)' = e /\ Target(a)' = g
  BY <1>2 DEF Evidence, Target
<1>4. round[a] = 0
  BY <1>2 DEF EvidenceStored, Late, Writing
<1>5. rows[g] = NoRows /\ versions[g] = NoRows /\ highwater[g] = 0
  BY <1>2 DEF Candidate, Empty
<1>6. /\ e.watermark \in 0..tail /\ e.asOf \in 0..tail
      /\ e.watermark \in Nat /\ e.asOf \in Nat
  BY <1>1, EvidenceMarks
<1>. HIDE DEF e, g, s
<1>7. CASE kind = "model-snapshot"
  <2>1. SnapshotList(s, e.watermark, e.asOf)
    BY <1>1, <1>2, <1>6, <1>7, SnapshotWritesAre
  <2>2. \A m \in Member : versions[g][m] = 0 /\ rows[g][m] = 0
    BY <1>5 DEF NoRows
  <2>3. SnapshotProgress(a, e, g)'
    <3>1. /\ todo'[a] = s /\ e' = e /\ g' = g /\ pc'[a] = "renew"
          /\ rows' = rows /\ versions' = versions /\ highwater' = highwater
      BY <1>2, <1>3 DEF data, s, e, g
    <3>2. /\ \A m \in Member : versions[g][m] \in {0, e.watermark}
          /\ highwater[g] <= e.watermark
          /\ s # <<>>
      BY <1>5, <1>6, <2>1, <2>2 DEF SnapshotList
    <3>3. \A i \in 1..Len(s) :
            /\ s[i].sequence = e.watermark
            /\ s[i].member # None =>
                    s[i].value = Online!Shown(s[i].member, e.asOf)
      BY <2>1 DEF SnapshotList
    <3>4. \A m \in Member : \/ rows[g][m] = Online!Shown(m, e.asOf)
                            \/ \E i \in 1..Len(s) : s[i].member = m
      BY <2>1, <2>2 DEF SnapshotList
    <3>. QED
      BY <3>1, <3>2, <3>3, <3>4 DEF SnapshotProgress
  <2>. QED
    BY <1>2, <1>3, <1>4, <1>7, <2>3 DEF Candidate, Late, Writing, e, g
<1>8. CASE kind # "model-snapshot"
  <2>1. /\ Len(s) = e.watermark
        /\ \A i \in 1..e.watermark : s[i] = EventWrite(i)
    BY <1>1, <1>2, <1>6, <1>8, ReplayWritesAre
  <2>2. /\ highwater[g] + Len(s) <= tail
        /\ \A i \in 1..Len(s) : s[i] = EventWrite(highwater[g] + i)
    BY <1>1, <1>5, <1>6, <2>1
  <2>3. Base(e, kind) = 0
    BY <1>8 DEF Base
  <2>4. Faithful(rows[g], versions[g], 0, highwater[g])
    BY <1>5, FaithfulEmpty
  <2>5. ReplayProgress(a, Base(e, kind), g)'
    BY <1>2, <1>3, <1>5, <2>2, <2>3, <2>4 DEF ReplayProgress, data, s, e, g
  <2>. QED
    BY <1>2, <1>3, <1>8, <2>5 DEF Candidate, Late, Writing, e, g
<1>. QED
  BY <1>7, <1>8

\* One event or row of a generation.
LEMMA ApplyCandidate ==
    ASSUME TInv, NEW a \in Attempt, ApplyEvent(a), Candidate(a),
           UNCHANGED <<tail, kind>>
    PROVE  Candidate(a)'
<1>. DEFINE e == Evidence(a)
            g == Target(a)
            x == Head(todo[a])
            b == Base(e, kind)
<1>1. TypeOK /\ AttemptOK(a) /\ tail \in Nat /\ tail <= MaxSequence
      /\ MaxSequence \in Nat
  BY RebuildAssumption DEF TInv, TypeOK, StreamType
<1>2. /\ pc[a] = "apply" /\ pc'[a] = "advance"
      /\ ApplyRow(g, x)
      /\ UNCHANGED <<highwater, captured, found, after, asOf, round, todo>>
  BY <1>1 DEF ApplyEvent, Go, TypeOK, AttemptType
<1>3. Evidence(a)' = e /\ Target(a)' = g /\ g \in Generation
  BY <1>2, RebuildAssumption DEF Evidence, Target
<1>4. /\ todo[a] \in Seq(Writes(tail)) /\ todo[a] # <<>>
      /\ Len(todo[a]) \in Nat \ {0} /\ x = todo[a][1]
      /\ x \in Writes(tail) /\ x.member # None
  <2>1. todo[a] \in Seq(Writes(tail)) /\ todo[a] # <<>>
    BY <1>1, <1>2 DEF AttemptOK, TypeOK, AttemptType
  <2>2. x.member # None
    BY <1>1, <1>2 DEF AttemptOK
  <2>. QED
    BY <2>1, <2>2, EmptySeq
<1>5. x.member \in Member
  BY <1>4 DEF Writes
<1>6. /\ rows'[g] = RowAfter(rows[g], versions[g], x)
      /\ versions'[g] = VersionAfter(versions[g], x)
  BY <1>1, <1>2, <1>3, ApplyRowIs
<1>7. /\ rows[g] \in [Member -> Nat] /\ versions[g] \in [Member -> Nat]
      /\ highwater[g] \in Nat
      /\ e.watermark \in Nat /\ b \in Nat
  BY <1>1, <1>3, EvidenceMarks DEF TypeOK, StoreType, Base
<1>. HIDE DEF e, g, x, b
<1>8. CASE kind = "model-snapshot" /\ round[a] = 0
  <2>1. SnapshotProgress(a, e, g)
    BY <1>2, <1>8 DEF Candidate, Writing, e, g
  <2>2. /\ x.sequence = e.watermark
        /\ x.value = Online!Shown(x.member, e.asOf)
        /\ versions[g][x.member] <= e.watermark
    BY <1>4, <1>5, <1>7, <2>1 DEF SnapshotProgress
  <2>3. /\ rows'[g] = [rows[g] EXCEPT ![x.member] = Online!Shown(x.member, e.asOf)]
        /\ versions'[g] = [versions[g] EXCEPT ![x.member] = e.watermark]
    BY <1>6, <2>2 DEF RowAfter, VersionAfter
  <2>4. SnapshotProgress(a, e, g)'
    <3>1. \A m \in Member : versions'[g][m] \in {0, e.watermark}
      BY <1>7, <2>1, <2>3 DEF SnapshotProgress
    <3>2. \A m \in Member :
            \/ rows'[g][m] = Online!Shown(m, e.asOf)
            \/ \E i \in 1..Len(todo[a]) : todo[a][i].member = m
      BY <1>7, <2>1, <2>3 DEF SnapshotProgress
    <3>3. rows'[g][x.member] = Online!Shown(x.member, e.asOf)
      BY <1>5, <1>7, <2>3
    <3>. QED
      BY <1>2, <1>3, <2>1, <3>1, <3>2, <3>3 DEF SnapshotProgress, e, g, x
  <2>. QED
    BY <1>2, <1>3, <1>8, <2>4 DEF Candidate, Late, Writing, e, g
<1>9. CASE ~(kind = "model-snapshot" /\ round[a] = 0)
  <2>1. ReplayProgress(a, b, g)
    BY <1>2, <1>9 DEF Candidate, Writing, e, g, b
  <2>. DEFINE n == highwater[g] + 1
  <2>2. n \in 1..MaxSequence /\ b \in 0..n /\ x = EventWrite(n)
    BY <1>1, <1>4, <1>7, <2>1 DEF ReplayProgress
  <2>3. /\ Faithful(rows'[g], versions'[g], b, highwater[g])
        /\ Faithful(rows'[g], versions'[g], b, n)
    BY <1>6, <1>7, <2>1, <2>2, FaithfulApply DEF ReplayProgress
  <2>4. ReplayProgress(a, b, g)'
    BY <1>2, <1>3, <2>1, <2>3 DEF ReplayProgress, e, g, b
  <2>. QED
    BY <1>2, <1>3, <1>9, <2>4 DEF Candidate, Late, Writing, e, g, b
<1>. QED
  BY <1>8, <1>9

\* The high water follows the event that was written, and no write is skipped.
LEMMA AdvanceCandidate ==
    ASSUME TInv, NEW a \in Attempt, AdvanceEvent(a), Candidate(a),
           UNCHANGED <<tail, kind>>
    PROVE  Candidate(a)'
<1>. DEFINE e == Evidence(a)
            g == Target(a)
            s == todo[a]
            x == Head(s)
            b == Base(e, kind)
<1>1. TypeOK /\ AttemptOK(a) /\ tail \in Nat /\ tail <= MaxSequence
      /\ MaxSequence \in Nat
  BY RebuildAssumption DEF TInv, TypeOK, StreamType
<1>2. /\ pc[a] = "advance" /\ pc'[a] = "write"
      /\ AdvanceHighwater(g, x.sequence)
      /\ todo'[a] = Tail(s)
      /\ UNCHANGED <<rows, versions, captured, found, after, asOf, round>>
  BY <1>1 DEF AdvanceEvent, Go, TypeOK, AttemptType
<1>3. Evidence(a)' = e /\ Target(a)' = g /\ g \in Generation
  BY <1>2, RebuildAssumption DEF Evidence, Target
<1>4. s \in Seq(Writes(tail)) /\ s # <<>>
  BY <1>1, <1>2 DEF AttemptOK, TypeOK, AttemptType
<1>5. highwater'[g] = Later(highwater[g], x.sequence)
  BY <1>1, <1>2, <1>3 DEF AdvanceHighwater, TypeOK, StoreType
<1>6. /\ rows[g] \in [Member -> Nat] /\ versions[g] \in [Member -> Nat]
      /\ highwater[g] \in Nat
      /\ e.watermark \in Nat /\ b \in Nat
  BY <1>1, <1>3, EvidenceMarks DEF TypeOK, StoreType, Base
<1>. DEFINE t == Tail(s)
<1>. HIDE DEF e, g, s, b
<1>7. Len(s) \in Nat \ {0} /\ x = s[1]
  BY <1>4, EmptySeq
<1>8. /\ Len(t) = Len(s) - 1
      /\ \A i \in 1..Len(t) : t[i] = s[i + 1]
      /\ t \in Seq(Writes(tail))
  BY <1>4, HeadTailProperties
<1>. HIDE DEF t, x
<1>9. \A i \in 1..Len(t) : i + 1 \in 1..Len(s) /\ t[i] = s[i + 1]
  BY <1>7, <1>8
<1>10. \A i \in 1..Len(s) : i = 1 \/ (i - 1 \in 1..Len(t) /\ t[i - 1] = s[i])
  <2>1. SUFFICES ASSUME NEW i \in 1..Len(s), i # 1
                 PROVE  i - 1 \in 1..Len(t) /\ t[i - 1] = s[i]
    OBVIOUS
  <2>2. PICK j \in 1..Len(t) : j = i - 1 /\ j + 1 = i
    BY <1>7, <1>8, <2>1
  <2>. QED
    BY <1>8, <2>2
<1>11. CASE kind = "model-snapshot" /\ round[a] = 0
  <2>1. SnapshotProgress(a, e, g)
    BY <1>2, <1>11 DEF Candidate, Writing, e, g
  <2>2. x.sequence = e.watermark /\ highwater'[g] = e.watermark
    BY <1>5, <1>6, <1>7, <2>1 DEF SnapshotProgress, Later, s
  <2>3. \A i \in 1..Len(t) :
         /\ t[i].sequence = e.watermark
         /\ t[i].member # None => t[i].value = Online!Shown(t[i].member, e.asOf)
    BY <1>9, <2>1 DEF SnapshotProgress, s
  <2>4. ASSUME NEW m \in Member
        PROVE  \/ rows[g][m] = Online!Shown(m, e.asOf)
               \/ \E i \in 1..Len(t) : t[i].member = m
    <3>1. CASE rows[g][m] = Online!Shown(m, e.asOf)
      BY <3>1
    <3>2. ASSUME NEW i \in 1..Len(s), s[i].member = m
          PROVE  \/ rows[g][m] = Online!Shown(m, e.asOf)
                 \/ \E j \in 1..Len(t) : t[j].member = m
      <4>1. CASE i = 1
        <5>1. x.member = m /\ m # None
          BY <1>7, <3>2, <4>1, RebuildAssumption
        <5>2. Head(todo[a]).member # None =>
                rows[g][Head(todo[a]).member]
                    = Online!Shown(Head(todo[a]).member, e.asOf)
          BY <1>2, <2>1 DEF SnapshotProgress
        <5>. QED
          BY <5>1, <5>2 DEF x, s
      <4>2. CASE i # 1
        BY <1>10, <3>2, <4>2
      <4>. QED
        BY <4>1, <4>2
    <3>. QED
      BY <2>1, <3>1, <3>2 DEF SnapshotProgress, s
  <2>5. SnapshotProgress(a, e, g)'
    <3>1. /\ \A m \in Member : versions[g][m] \in {0, e.watermark}
      BY <2>1 DEF SnapshotProgress
    <3>2. e.watermark <= e.watermark
      BY <1>6
    <3>. QED
      BY <1>2, <1>3, <2>2, <2>3, <2>4, <3>1, <3>2 DEF SnapshotProgress, e, g, t
  <2>. QED
    BY <1>2, <1>3, <1>11, <2>5 DEF Candidate, Late, Writing, e, g
<1>12. CASE ~(kind = "model-snapshot" /\ round[a] = 0)
  <2>1. ReplayProgress(a, b, g)
    BY <1>2, <1>12 DEF Candidate, Writing, e, g, b
  <2>2. highwater[g] + 1 \in 1..MaxSequence /\ x = EventWrite(highwater[g] + 1)
    BY <1>1, <1>6, <1>7, <2>1 DEF ReplayProgress, s
  <2>3. highwater'[g] = highwater[g] + 1
    BY <1>5, <1>6, <2>2, EventWriteIs DEF Later
  <2>4. /\ b <= highwater'[g] /\ highwater'[g] + Len(t) <= tail
    BY <1>1, <1>6, <1>7, <1>8, <2>1, <2>3 DEF ReplayProgress, s
  <2>5. Faithful(rows[g], versions[g], b, highwater'[g])
    BY <1>2, <2>1, <2>3 DEF ReplayProgress
  <2>6. ASSUME NEW i \in 1..Len(t) PROVE t[i] = EventWrite(highwater'[g] + i)
    <3>1. t[i] = s[i + 1] /\ i + 1 \in 1..Len(s)
      BY <1>9
    <3>2. s[i + 1] = EventWrite(highwater[g] + (i + 1))
      BY <2>1, <3>1 DEF ReplayProgress, s
    <3>3. highwater[g] + (i + 1) = highwater'[g] + i
      <4>1. i \in Nat
        BY <1>7, <1>8
      <4>2. highwater[g] \in Nat
        BY <1>6
      <4>. QED
        BY <2>3, <4>1, <4>2
    <3>. QED
      BY <3>1, <3>2, <3>3
  <2>7. ReplayProgress(a, b, g)'
    BY <1>2, <1>3, <2>4, <2>5, <2>6 DEF ReplayProgress, e, g, b, t
  <2>. QED
    BY <1>2, <1>3, <1>12, <2>7 DEF Candidate, Late, Writing, e, g, b
<1>. QED
  BY <1>11, <1>12

\* No write of a candidate is skipped, and when all are done the generation
\* misses no event up to its high water.
LEMMA WriteCandidate ==
    ASSUME TInv, NEW a \in Attempt, Renew(a) \/ CheckEvent(a) \/ Written(a),
           Candidate(a), AttemptSane(a), UNCHANGED <<tail, floor, kind>>
    PROVE  Candidate(a)'
<1>. DEFINE e == Evidence(a)
            g == Target(a)
            s == todo[a]
            b == Base(e, kind)
<1>1. TypeOK /\ AttemptOK(a) /\ tail \in Nat /\ floor \in Nat
      /\ tail <= MaxSequence /\ MaxSequence \in Nat
  BY RebuildAssumption DEF TInv, TypeOK, StreamType
<1>2. /\ pc[a] \in {"renew", "write"}
      /\ UNCHANGED <<data, captured, found, after, asOf, round>>
  BY <1>1 DEF Renew, CheckEvent, Written, TypeOK, AttemptType
<1>3. Evidence(a)' = e /\ Target(a)' = g /\ g \in Generation
  BY <1>2, RebuildAssumption DEF Evidence, Target
<1>4. /\ rows[g] \in [Member -> Nat] /\ versions[g] \in [Member -> Nat]
      /\ highwater[g] \in Nat
      /\ e.watermark \in Nat /\ e.asOf \in Nat /\ b \in Nat
  BY <1>1, <1>3, EvidenceMarks DEF TypeOK, StoreType, Base
<1>5. IF kind = "model-snapshot" /\ round[a] = 0
      THEN SnapshotProgress(a, e, g) ELSE ReplayProgress(a, b, g)
  BY <1>2 DEF Candidate, Writing
<1>. HIDE DEF e, g, s, b
<1>6. CASE CheckEvent(a)
  <2>1. /\ s \in Seq(Writes(tail)) /\ Len(s) \in Nat \ {0} /\ Head(s) = s[1]
    <3>1. s \in Seq(Writes(tail)) /\ s # <<>>
      BY <1>1, <1>6 DEF CheckEvent, TypeOK, AttemptType, s
    <3>. QED
      BY <3>1, EmptySeq
  <2>2. ~(Head(s).sequence < highwater[g])
    <3>1. CASE kind = "model-snapshot" /\ round[a] = 0
      BY <1>4, <1>5, <2>1, <3>1 DEF SnapshotProgress, s
    <3>2. CASE ~(kind = "model-snapshot" /\ round[a] = 0)
      <4>1. /\ highwater[g] + 1 \in 1..MaxSequence
            /\ Head(s) = EventWrite(highwater[g] + 1)
        BY <1>1, <1>4, <1>5, <2>1, <3>2 DEF ReplayProgress, s
      <4>2. Head(s).sequence = highwater[g] + 1
        BY <4>1, EventWriteIs
      <4>. QED
        BY <1>4, <4>2
    <3>. QED
      BY <3>1, <3>2
  <2>3. /\ UNCHANGED todo
        /\ pc'[a] = IF Head(s).member = None THEN "advance" ELSE "apply"
    BY <1>1, <1>6, <2>2 DEF CheckEvent, Go, TypeOK, AttemptType, s, g
  <2>4. CASE kind = "model-snapshot" /\ round[a] = 0
    <3>1. SnapshotProgress(a, e, g)'
      BY <1>2, <1>3, <1>5, <2>3, <2>4 DEF SnapshotProgress, data, e, g, s
    <3>. QED
      BY <1>2, <1>3, <2>3, <2>4, <3>1 DEF Candidate, Late, Writing, e, g
  <2>5. CASE ~(kind = "model-snapshot" /\ round[a] = 0)
    <3>1. Head(s).member # None
      <4>1. /\ highwater[g] + 1 \in 1..MaxSequence
            /\ Head(s) = EventWrite(highwater[g] + 1)
        BY <1>1, <1>4, <1>5, <2>1, <2>5 DEF ReplayProgress, s
      <4>. QED
        BY <4>1, EventWriteIs
    <3>2. ReplayProgress(a, b, g)'
      BY <1>2, <1>3, <1>5, <2>3, <2>5, <3>1 DEF ReplayProgress, data, e, g, s, b
    <3>. QED
      BY <1>2, <1>3, <2>3, <2>5, <3>2 DEF Candidate, Late, Writing, e, g, b
  <2>. QED
    BY <2>4, <2>5
<1>7. CASE Renew(a)
  <2>1. UNCHANGED todo /\ pc'[a] = "write"
    BY <1>1, <1>7 DEF Renew, Go, TypeOK, AttemptType
  <2>2. CASE kind = "model-snapshot" /\ round[a] = 0
    <3>1. SnapshotProgress(a, e, g)'
      BY <1>2, <1>3, <1>5, <2>1, <2>2 DEF SnapshotProgress, data, e, g
    <3>. QED
      BY <1>2, <1>3, <2>1, <2>2, <3>1 DEF Candidate, Late, Writing, e, g
  <2>3. CASE ~(kind = "model-snapshot" /\ round[a] = 0)
    <3>1. ReplayProgress(a, b, g)'
      BY <1>2, <1>3, <1>5, <2>1, <2>3 DEF ReplayProgress, data, e, g, b
    <3>. QED
      BY <1>2, <1>3, <2>1, <2>3, <3>1 DEF Candidate, Late, Writing, e, g, b
  <2>. QED
    BY <2>2, <2>3
<1>8. CASE Written(a)
  <2>1. /\ s = <<>> /\ pc'[a] \in {"manifest", "publish", "catchUp"}
        /\ round[a] = 0 => pc'[a] = "manifest"
    BY <1>1, <1>8 DEF Written, Go, TypeOK, AttemptType, s
  <2>2. /\ Faithful(rows[g], versions[g], b, highwater[g])
        /\ \/ b <= highwater[g]
           \/ b <= floor /\ pc'[a] \in {"manifest", "catchUp"}
    <3>1. CASE kind = "model-snapshot" /\ round[a] = 0
      <4>1. b = e.asOf /\ highwater[g] = e.watermark
        BY <1>5, <2>1, <3>1 DEF SnapshotProgress, Base, b, s
      <4>2. Sane(e, kind, floor)
        BY <1>2 DEF AttemptSane, Running, Ended, e
      <4>3. e.watermark <= e.asOf
        BY <1>4, <4>2 DEF Sane
      <4>4. ASSUME NEW m \in Member
            PROVE  /\ rows[g][m] = Online!Shown(m, Later(versions[g][m], b))
                   /\ Online!LastChange(m, e.watermark)
                        <= Later(versions[g][m], b)
        <5>1. rows[g][m] = Online!Shown(m, e.asOf)
          <6>1. Len(todo[a]) = 0
            BY <2>1, EmptySeq DEF s
          <6>. QED
            BY <1>5, <3>1, <6>1 DEF SnapshotProgress
        <5>2. versions[g][m] \in {0, e.watermark}
          BY <1>5, <3>1 DEF SnapshotProgress
        <5>3. Later(versions[g][m], b) = e.asOf
          BY <1>4, <4>1, <4>3, <5>2 DEF Later
        <5>4. Online!LastChange(m, e.watermark) \in 0..e.watermark
          BY <1>4, LastChangeIs
        <5>. QED
          BY <1>4, <4>3, <5>1, <5>3, <5>4
      <4>5. Faithful(rows[g], versions[g], b, highwater[g])
        BY <4>1, <4>4 DEF Faithful
      <4>. QED
        BY <1>4, <2>1, <3>1, <4>1, <4>2, <4>5 DEF Sane
    <3>2. CASE ~(kind = "model-snapshot" /\ round[a] = 0)
      BY <1>5, <3>2 DEF ReplayProgress
    <3>. QED
      BY <3>1, <3>2
  <2>. QED
    BY <1>2, <1>3, <2>1, <2>2 DEF Candidate, Late, Writing, data, e, g, b
<1>. QED
  BY <1>6, <1>7, <1>8

\* A page of the stream after the high water; retention has not passed it, so
\* the base is not beyond it either.
LEMMA CatchUpCandidate ==
    ASSUME TInv, NEW a \in Attempt, CatchUp(a), Candidate(a),
           UNCHANGED <<tail, floor, kind>>
    PROVE  Candidate(a)'
<1>. DEFINE e == Evidence(a)
            g == Target(a)
            b == Base(e, kind)
            n == highwater[g]
            l == PageEnd(n) - n
            s == todo'[a]
<1>1. TypeOK /\ StreamType /\ tail \in Nat /\ floor \in Nat
  BY RebuildAssumption DEF TInv, TypeOK, StreamType
<1>2. /\ pc[a] = "catchUp" /\ pc'[a] = "renew"
      /\ floor <= n
      /\ s = EventWrites(Page(n))
      /\ round'[a] = round[a] + 1
      /\ UNCHANGED <<data, captured, found, after, asOf>>
  BY <1>1 DEF CatchUp, Go, TypeOK, AttemptType
<1>3. Evidence(a)' = e /\ Target(a)' = g /\ g \in Generation
  BY <1>2, RebuildAssumption DEF Evidence, Target
<1>4. round[a] \in Nat /\ n \in 0..tail /\ n \in Nat /\ b \in Nat
  <2>1. round[a] \in Nat
    BY <1>1, RebuildAssumption DEF TypeOK, AttemptType
  <2>2. n \in 0..tail /\ n \in Nat
    BY <1>1, <1>3 DEF TypeOK, StoreType
  <2>3. b \in Nat
    BY <1>1, EvidenceMarks DEF Base
  <2>. QED
    BY <2>1, <2>2, <2>3
<1>5. l \in Nat /\ n + l <= tail
  BY <1>1, <1>4, PageEndIs
<1>6. Faithful(rows[g], versions[g], b, n) /\ b <= n
  <2>1. /\ Faithful(rows[g], versions[g], b, n)
        /\ b <= n \/ b <= floor
    BY <1>2 DEF Candidate, Late
  <2>. QED
    BY <1>1, <1>2, <1>4, <2>1
<1>7. s = EventWrites([i \in 1..l |-> n + i])
  BY <1>2 DEF Page
<1>. HIDE DEF e, g, b, n, l, s
<1>8. Len(s) = l /\ \A i \in 1..l : s[i] = EventWrite(n + i)
  <2>1. \A j, k \in Nat : \A u :
            j + k <= tail /\ u = EventWrites([i \in 1..k |-> j + i]) =>
                Len(u) = k /\ \A i \in 1..k : u[i] = EventWrite(j + i)
    BY <1>1, EventWritesAre
  <2>. QED
    BY <1>4, <1>5, <1>7, <2>1
<1>9. ReplayProgress(a, b, g)'
  BY <1>2, <1>3, <1>5, <1>6, <1>8 DEF ReplayProgress, data, e, g, b, n, s
<1>. QED
  BY <1>2, <1>3, <1>4, <1>9 DEF Candidate, Late, Writing, e, g, b

\* The steps of an attempt build its candidate.
LEMMA OwnCandidate ==
    ASSUME OInv, NEW a \in Attempt, AttemptStep(a) \/ Crash(a),
           UNCHANGED <<tail, floor, kind>>, Busy(a)', Fresh(a)'
    PROVE  Candidate(a)'
<1>. USE DEF keys
<1>1. TInv /\ TypeOK /\ EvidenceStored(a) /\ AttemptSane(a) /\ Exclusive(a)
  BY DEF OInv, EInv, TInv
<1>2. Target(a)' = Target(a) /\ Target(a) \in Generation
  BY RebuildAssumption DEF Target
<1>3. CASE Capture(a) \/ Recover(a) \/ Verify(a) \/ Fail(a) \/ Crash(a)
  BY <1>1, <1>3
  DEF Capture, Recover, Verify, Fail, Crash, End, Go, Busy, Rebuilding, TypeOK,
      AttemptType
<1>4. CASE Begin(a) \/ Reset(a)
  <2>1. pc'[a] \in {"reset", "resetRows"}
    BY <1>1, <1>4
    DEF Begin, Reset, End, Go, Busy, Rebuilding, TypeOK, AttemptType
  <2>. QED
    BY <2>1 DEF Candidate, Writing, Late
<1>5. CASE ResetRows(a)
  <2>1. pc'[a] = "resetMeta" /\ rows'[Target(a)] = NoRows
        /\ versions'[Target(a)] = NoRows
    BY <1>1, <1>2, <1>5
    DEF ResetRows, Go, TypeOK, AttemptType, StoreType
  <2>2. Empty(Target(a))'
    BY <1>2, <2>1 DEF Empty, NoRows
  <2>. QED
    BY <1>2, <2>1, <2>2 DEF Candidate, Writing, Late
<1>6. ASSUME Busy(a), UNCHANGED <<active, found, captured>>
      PROVE  Candidate(a)
  <2>1. Fresh(a)
    BY <1>6 DEF Fresh, Evidence
  <2>. QED
    BY <1>6, <2>1 DEF OInv
<1>7. CASE ResetMeta(a)
  <2>1. Candidate(a) /\ pc[a] = "resetMeta"
    BY <1>6, <1>7 DEF ResetMeta, Busy, Rebuilding
  <2>2. /\ pc'[a] \in {"scan", "load"} /\ highwater'[Target(a)] = 0
        /\ UNCHANGED <<rows, versions>>
    BY <1>1, <1>2, <1>7 DEF ResetMeta, Go, TypeOK, AttemptType, StoreType
  <2>3. Empty(Target(a)) /\ Empty(Target(a))'
    BY <1>2, <2>1, <2>2 DEF Candidate, Empty, NoRows
  <2>. QED
    BY <1>2, <2>2, <2>3 DEF Candidate, Writing, Late
<1>8. CASE ScanPage(a) \/ ScanSnapshot(a)
  <2>1. Candidate(a) /\ pc[a] = "scan"
    BY <1>6, <1>8 DEF ScanPage, ScanSnapshot, Busy, Rebuilding
  <2>2. pc'[a] \in {"scan", "load"} /\ UNCHANGED data
    BY <1>1, <2>1, <1>8 DEF ScanPage, ScanSnapshot, Go, TypeOK, AttemptType
  <2>3. /\ Empty(Target(a)) /\ Empty(Target(a))'
        /\ highwater'[Target(a)] = 0
    BY <1>2, <2>1, <2>2 DEF Candidate, Empty, NoRows, data
  <2>. QED
    BY <1>2, <2>2, <2>3 DEF Candidate, Writing, Late
<1>9. CASE Load(a)
  <2>1. Candidate(a)
    BY <1>6, <1>9 DEF Load, Busy, Rebuilding
  <2>. QED
    BY <1>1, <1>9, <2>1, LoadCandidate
<1>10. CASE Renew(a) \/ CheckEvent(a) \/ Written(a)
  <2>1. Candidate(a)
    BY <1>6, <1>10 DEF Renew, CheckEvent, Written, Busy, Rebuilding
  <2>. QED
    BY <1>1, <1>10, <2>1, WriteCandidate
<1>11. CASE ApplyEvent(a) \/ AdvanceEvent(a)
  <2>1. Candidate(a)
    BY <1>6, <1>11 DEF ApplyEvent, AdvanceEvent, Busy, Rebuilding
  <2>. QED
    BY <1>1, <1>11, <2>1, ApplyCandidate, AdvanceCandidate
<1>12. CASE CatchUp(a)
  <2>1. Candidate(a)
    BY <1>6, <1>12 DEF CatchUp, Busy, Rebuilding
  <2>. QED
    BY <1>1, <1>12, <2>1, CatchUpCandidate
<1>13. CASE PutManifest(a) \/ Publish(a) \/ Raced(a)
  <2>1. /\ pc[a] \in {"manifest", "publish", "raced"}
        /\ pc[a] = "publish" => pc'[a] = "raced"
        /\ pc[a] # "publish" => pc'[a] = "catchUp"
        /\ UNCHANGED <<active, data, captured, found, after, asOf, round>>
    BY <1>1, <1>13
    DEF PutManifest, Publish, Raced, Go, Busy, Rebuilding, TypeOK, AttemptType
  <2>2. Candidate(a)
    BY <1>6, <2>1 DEF Busy, Rebuilding
  <2>3. Evidence(a)' = Evidence(a)
    BY <2>1 DEF Evidence
  <2>. QED
    BY <1>2, <2>1, <2>2, <2>3 DEF Candidate, Writing, Late, data
<1>. QED
  BY <1>3, <1>4, <1>5, <1>7, <1>8, <1>9, <1>10, <1>11, <1>12, <1>13
  DEF AttemptStep


\* A step that is not the attempt's own leaves its candidate alone: another
\* attempt would need the lease to write, and workers write to generations
\* that are or have been active.
LEMMA OthersCandidate ==
    ASSUME OInv, TypeOK', [Next]_vars, "stall" \notin Fault,
           NEW a \in Attempt, SameAttempt(a),
           Busy(a) /\ Fresh(a) => DataSame(Target(a)), Busy(a)', Fresh(a)'
    PROVE  Candidate(a)'
<1>1. EInv /\ TypeOK /\ \A b \in Attempt : Exclusive(b)
  BY DEF OInv, EInv, TInv
<1>2. Busy(a)
  BY DEF SameAttempt, Busy, Rebuilding
<1>3. active' = active
  BY <1>1, <1>2, NextExclusive
<1>4. Fresh(a)
  BY <1>3, EvidenceSame DEF Fresh
<1>5. Candidate(a)
  BY <1>2, <1>4 DEF OInv
<1>. QED
  BY <1>1, <1>2, <1>4, <1>5, CandidateKept

\* The candidate of an attempt, whatever the step.
LEMMA NextCandidate ==
    ASSUME OInv, TypeOK', [Next]_vars, "stall" \notin Fault,
           NEW a \in Attempt, Busy(a)', Fresh(a)'
    PROVE  Candidate(a)'
<1>1. /\ EInv /\ TypeOK /\ EvidenceStored(a) /\ TInv /\ NamesSpent
      /\ \A b \in Attempt : Exclusive(b)
      /\ Target(a) \in Generation
  BY RebuildAssumption DEF OInv, EInv, TInv, Target
<1>2. PICK P \in SUBSET Generation : History(P)
  BY DEF OInv
<1>3. CASE AttemptStep(a) \/ Crash(a)
  <2>1. UNCHANGED <<tail, floor, kind>>
    BY <1>1, <1>3, AttemptFrame DEF stream
  <2>. QED
    BY <1>3, <2>1, OwnCandidate
<1>4. ASSUME NEW b \in Attempt, AttemptStep(b) \/ Crash(b), b # a
      PROVE  Candidate(a)'
  <2>1. SameAttempt(a)
    BY <1>1, <1>4, AttemptFrame DEF OthersSame
  <2>2. Busy(a) => ~Busy(b)
    BY <1>1, <1>4 DEF Exclusive
  <2>3. Busy(a) => DataSame(Target(a))
    BY <1>1, <1>4, <2>2, AttemptWrites DEF DataSame, data
  <2>. QED
    BY <2>1, <2>3, OthersCandidate
<1>5. ASSUME NEW w \in Worker, WorkerStep(w) \/ CrashWorker(w)
      PROVE  Candidate(a)'
  <2>1. SameAttempt(a)
    BY <1>1, <1>5, WorkerKeeps DEF Kept
  <2>2. ASSUME Busy(a), Fresh(a) PROVE DataSame(Target(a))
    <3>1. Target(a) \notin P \cup {active}
      BY <1>1, <1>2, <2>2, FreshTarget
    <3>2. CASE wpc[w] \in {"apply", "advance"}
      <4>1. gen[w] # Target(a)
        BY <1>2, <3>1, <3>2 DEF History, InUse
      <4>. QED
        BY <1>1, <1>5, <4>1, WorkerWrites
    <3>3. CASE wpc[w] \notin {"apply", "advance"}
      BY <1>1, <1>5, <3>3, WorkerWrites DEF DataSame, data
    <3>. QED
      BY <3>2, <3>3
  <2>. QED
    BY <2>1, <2>2, OthersCandidate
<1>6. CASE Commit \/ Trim \/ Expire \/ UNCHANGED vars
  <2>1. SameAttempt(a) /\ DataSame(Target(a))
    BY <1>6
    DEF Commit, Trim, Expire, vars, attemptVars, data, SameAttempt, DataSame
  <2>. QED
    BY <2>1, OthersCandidate
<1>7. CASE RetirementStep
  <2>1. SameAttempt(a)
    BY <1>7, RetirementFrame DEF SameAttempt, attemptVars
  <2>2. Busy(a) => DataSame(Target(a))
    <3>1. Busy(a) => Target(a) \notin spent
      BY <1>1 DEF NamesSpent, Busy, Rebuilding, Running, Ended
    <3>. QED
      BY <1>1, <1>7, <3>1, RetirementWrites
  <2>. QED
    BY <2>1, <2>2, OthersCandidate
<1>. QED
  BY <1>3, <1>4, <1>5, <1>6, <1>7 DEF Next

\* Of an attempt's steps, only a granted publication changes what is active
\* and the checkpoint.
LEMMA PublishOnly ==
    ASSUME TypeOK, NEW a \in Attempt, AttemptStep(a) \/ Crash(a),
           ~UNCHANGED <<active, checkpoint>>
    PROVE  Publish(a) /\ Publishable(a)
<1>1. Publishable(a) /\ pc[a] = "publish"
  BY AttemptWrites
<1>. QED
  BY <1>1
  DEF AttemptStep, Crash, Fail, Capture, Recover, Begin, Reset, ResetRows,
      ResetMeta, ScanPage, ScanSnapshot, Load, Renew, CheckEvent, ApplyEvent,
      AdvanceEvent, Written, PutManifest, CatchUp, Raced, Verify, keys

\* The active generation, whatever the step.
LEMMA NextActive ==
    ASSUME OInv, [Next]_vars
    PROVE  ActiveFaithful' /\ \A w \in Worker : WorkerFaithful(w)'
<1>1. /\ EInv /\ TInv /\ TypeOK /\ ActiveHasEvidence /\ active \in Generation
      /\ ActiveFaithful /\ \A w \in Worker : WorkerFaithful(w)
      /\ \A a \in Attempt : Exclusive(a)
  BY DEF OInv, EInv, TInv, TypeOK, StoreType
<1>2. CASE Commit \/ Trim \/ Expire \/ UNCHANGED vars
  <2>1. ActiveSame /\ UNCHANGED <<checkpoint, workerVars>>
    BY <1>2
    DEF Commit, Trim, Expire, vars, stream, keys, data, ActiveSame, DataSame
  <2>. QED
    BY <1>1, <2>1, ActiveKept
<1>3. CASE RetirementStep
  <2>1. ActiveSame /\ UNCHANGED <<checkpoint, workerVars>>
    BY <1>1, <1>3, RetirementFrame, RetirementWrites DEF stream, ActiveSame
  <2>. QED
    BY <1>1, <2>1, ActiveKept
<1>4. ASSUME NEW a \in Attempt, AttemptStep(a) \/ Crash(a)
      PROVE  ActiveFaithful' /\ \A w \in Worker : WorkerFaithful(w)'
  <2>1. CASE UNCHANGED <<active, checkpoint>>
    <3>1. UNCHANGED workerVars
      BY <1>1, <1>4, AttemptFrame
    <3>2. ActiveSame
      BY <1>1, <1>4, <2>1, AttemptActiveSame
    <3>. QED
      BY <1>1, <2>1, <3>1, <3>2, ActiveKept
  <2>2. CASE ~UNCHANGED <<active, checkpoint>>
    <3>1. Publish(a) /\ Publishable(a)
      BY <1>1, <1>4, <2>2, PublishOnly
    <3>. QED
      BY <3>1, PublishFaithful
  <2>. QED
    BY <2>1, <2>2
<1>5. ASSUME NEW w \in Worker, WorkerStep(w) \/ CrashWorker(w)
      PROVE  ActiveFaithful' /\ \A v \in Worker : WorkerFaithful(v)'
  BY <1>1, <1>5, WorkerFaithfulSteps
<1>. QED
  BY <1>2, <1>3, <1>4, <1>5 DEF Next

-----------------------------------------------------------------------------
(* The theorems *)

\* Nothing has been active before the initial generation, which is empty.
LEMMA InitOInv == Init => OInv
<1>. SUFFICES ASSUME Init PROVE OInv
  OBVIOUS
<1>1. EInv
  BY InitEInv
<1>2. /\ ManifestsSane
      /\ \A a \in Attempt : AttemptSane(a) /\ Exclusive(a) /\ ~Busy(a)
  BY DEF Init, ManifestsSane, AttemptSane, Running, Exclusive, Busy, Rebuilding
<1>3. ActiveFaithful
  BY FaithfulEmpty, RebuildAssumption DEF Init, ActiveFaithful, ActiveBase
<1>4. \A w \in Worker : WorkerFaithful(w)
  BY DEF Init, WorkerFaithful
<1>5. History({})
  BY DEF Init, History, InUse, Running
<1>. QED
  BY <1>1, <1>2, <1>3, <1>4, <1>5 DEF OInv

\* Every step keeps the invariant, unless an attempt can stall or a name is
\* used again.
LEMMA NextOInv ==
    ASSUME "stall" \notin Fault, ImmutableNames, OInv, [Next]_vars
    PROVE  OInv'
<1>1. /\ EInv /\ TypeOK /\ ManifestsSane
      /\ \A a \in Attempt : AttemptSane(a) /\ Exclusive(a)
  BY DEF OInv, EInv, TInv
<1>2. EInv'
  BY <1>1, NextEInv
<1>3. ManifestsSane' /\ \A a \in Attempt : AttemptSane(a)'
  BY <1>1, <1>2, NextSane
<1>4. \A a \in Attempt : Exclusive(a)'
  BY <1>1, NextExclusive
<1>5. ActiveFaithful' /\ \A w \in Worker : WorkerFaithful(w)'
  BY NextActive
<1>6. \E Q \in SUBSET Generation : History(Q)'
  <2>1. PICK P \in SUBSET Generation : History(P)
    BY DEF OInv
  <2>. QED
    BY <1>1, <2>1, NextHistory
<1>7. \A a \in Attempt : Busy(a)' /\ Fresh(a)' => Candidate(a)'
  <2>1. TypeOK'
    BY <1>2 DEF EInv, TInv
  <2>. QED
    BY <2>1, NextCandidate
<1>. QED
  BY <1>2, <1>3, <1>4, <1>5, <1>6, <1>7 DEF OInv

\* What the invariant says of rows, versions and high water is enough for
\* readers.
LEMMA OInvCovers == OInv => ActiveCovers
<1>. SUFFICES ASSUME OInv PROVE ActiveCovers
  OBVIOUS
<1>1. TypeOK /\ StreamType /\ ActiveHasEvidence /\ ActiveFaithful
  BY DEF OInv, EInv, TInv, TypeOK
<1>2. /\ ActiveBase \in 0..tail /\ highwater[active] \in 0..tail
      /\ tail \in Nat /\ checkpoint \in Nat
      /\ versions[active] \in [Member -> 0..tail]
  BY <1>1, ActiveNumbers
<1>3. checkpoint \in 0..highwater[active]
  BY <1>1, <1>2 DEF ActiveFaithful
<1>. QED
  BY <1>1, <1>2, <1>3, FaithfulCovers DEF ActiveFaithful, ActiveCovers

\* Without stalled attempts and with immutable names, every member of the
\* active generation shows its state at the checkpoint or after a later event,
\* whatever else fails: what a reader sees never lags behind the checkpoint the
\* store reports.
THEOREM ActiveCoversHolds ==
    ASSUME "stall" \notin Fault, ImmutableNames
    PROVE  Spec => []ActiveCovers
<1>1. OInv /\ [Next]_vars => OInv'
  BY NextOInv
<1>. QED
  BY InitOInv, <1>1, OInvCovers, PTL DEF Spec

\* A step of the stream's writer is one of the abstract stream.
LEMMA CommitRefines ==
    ASSUME Commit
    PROVE  Online!Commit
BY DEF Commit, Online!Commit, keys, data

\* Every other step leaves the stream alone and moves the checkpoint, if at
\* all, forward; publication asks for a high water at the checkpoint.
LEMMA CheckpointForward ==
    ASSUME OInv, OInv', Next, ~Commit
    PROVE  UNCHANGED tail /\ checkpoint' \in checkpoint..tail
<1>1. /\ TInv /\ TypeOK /\ TypeOK'
      /\ checkpoint \in Nat /\ checkpoint' \in Nat /\ tail \in Nat
      /\ checkpoint' <= tail'
  <2>1. TInv /\ TypeOK /\ TypeOK'
    BY DEF OInv, EInv, TInv
  <2>2. checkpoint \in Nat /\ tail \in Nat
    BY <2>1, RebuildAssumption DEF TypeOK, StreamType, StoreType
  <2>3. checkpoint' \in Nat /\ checkpoint' <= tail'
    BY <2>1, RebuildAssumption DEF TypeOK, StreamType, StoreType
  <2>. QED
    BY <2>1, <2>2, <2>3
<1>2. CASE Trim \/ Expire \/ RetirementStep
  BY <1>1, <1>2, RetirementFrame DEF Trim, Expire, keys, stream
<1>3. ASSUME NEW a \in Attempt, AttemptStep(a) \/ Crash(a)
      PROVE  UNCHANGED tail /\ checkpoint' >= checkpoint
  <2>1. UNCHANGED tail
    BY <1>1, <1>3, AttemptFrame DEF stream
  <2>2. CASE UNCHANGED <<active, checkpoint>>
    BY <1>1, <2>1, <2>2
  <2>3. CASE ~UNCHANGED <<active, checkpoint>>
    <3>1. Publishable(a) /\ Publish(a)
      BY <1>1, <1>3, <2>3, PublishOnly
    <3>. QED
      BY <2>1, <3>1 DEF Publish, Publishable
  <2>. QED
    BY <2>2, <2>3
<1>4. ASSUME NEW w \in Worker, WorkerStep(w) \/ CrashWorker(w)
      PROVE  UNCHANGED tail /\ checkpoint' >= checkpoint
  BY <1>1, <1>4, WorkerKeeps, WorkerFrame DEF stream
<1>. QED
  BY <1>1, <1>2, <1>3, <1>4 DEF Next

\* Every step is one of the abstract projection, or it stutters.
LEMMA NextRefines ==
    ASSUME OInv, OInv', ActiveCovers', [Next]_vars
    PROVE  [Online!Commit \/ Online!Refresh]_<<tail, rows[active], checkpoint>>
<1>1. CASE UNCHANGED vars
  BY <1>1 DEF vars, stream, keys, data
<1>2. CASE Commit
  BY <1>2, CommitRefines
<1>3. CASE Next /\ ~Commit
  <2>1. UNCHANGED tail /\ checkpoint' \in checkpoint..tail
    BY <1>3, CheckpointForward
  <2>2. rows'[active'] \in [Member -> 0..tail]
    BY <2>1 DEF OInv, EInv, TInv, TypeOK, StoreType
  <2>3. Online!Covers(rows'[active'], checkpoint')
    BY <2>1 DEF ActiveCovers, Online!Covers
  <2>. QED
    BY <2>1, <2>2, <2>3 DEF Online!Refresh
<1>. QED
  BY <1>1, <1>2, <1>3

\* Without stalled attempts and with immutable names, the store with its
\* generations implements one view that follows the stream: attempts, workers,
\* retirements, retention and crashes of any of them in any order lose no
\* event, bring no removed row back and never move the watermark back.
THEOREM RebuildImplementsOnline ==
    ASSUME "stall" \notin Fault, ImmutableNames
    PROVE  Spec => ImplementsOnline
<1>1. Init => Online!Init
  BY RebuildAssumption DEF Init, Online!Init, NoRows
<1>2. OInv /\ [Next]_vars => OInv'
  BY NextOInv
<1>3. OInv /\ OInv' /\ ActiveCovers' /\ [Next]_vars
        => [Online!Commit \/ Online!Refresh]_<<tail, rows[active], checkpoint>>
  BY NextRefines
<1>. QED
  BY InitOInv, OInvCovers, <1>1, <1>2, <1>3, PTL
  DEF Spec, ImplementsOnline, Online!Spec

=============================================================================
