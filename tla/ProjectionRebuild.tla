-------------------------- MODULE ProjectionRebuild --------------------------
(***************************************************************************)
(* An online projection in Valkey and the rebuild of one generation of it: *)
(* packages/applik8s/src/projection-runtime-valkey.ts (the store, one Lua  *)
(* script or command at a time), projection-rebuild-runtime.ts (the        *)
(* rebuild attempt) and the worker loop of projection-runtime-             *)
(* clickhouse.ts, which keeps writing to the active generation meanwhile.  *)
(*                                                                         *)
(* A script is atomic, a sequence of commands is not: an attempt renews    *)
(* its lease, and the command it then sends may arrive much later.  Events *)
(* have one row each.  The immutable segments of an attempt are the events *)
(* (or the snapshot) they were made from, so the manifest records only the *)
(* watermark and the state of the stream they reflect.  The limits on      *)
(* items, partitions, segments and bytes are not reached, and one attempt  *)
(* id is used by one process.                                              *)
(***************************************************************************)
EXTENDS Naturals, Sequences, FiniteSets, SequencesExt

CONSTANTS
    Attempt,      \* rebuild attempts
    Worker,       \* projection workers
    Generation,   \* generation names
    Initial,      \* options.initialGeneration
    TargetOf,     \* the generation each attempt rebuilds
    Retirable,    \* generations an operator retires
    SourceKinds,  \* subset of {"model-snapshot", "stream-replay"}
    Member,       \* keys of projected rows
    EventOf,      \* the events of the stream
    MaxSequence,  \* bound on the stream
    MaxFloor,     \* bound on the retention floor
    PageSize,     \* batchSize
    MaxRounds,    \* maxCatchUpRounds
    MaxTries,     \* attempts of write() for one event
    Fault,        \* the faults that happen in this instance
    None

\* error:   something an attempt or a retirement awaits throws
\* crash:   the process of an attempt or a retirement dies
\* stall:   the attempt, or a command it has sent, stalls past the lease
\* worker:  a projection worker dies
\* trim:    retention deletes the oldest events
\* reuse:   a rebuild is started under the initial or a retired name
\* overlap: a generation is retired while an attempt rebuilds it
\* Nothing in the code refuses the last two: the caller chooses the names.
Faults == {"error", "crash", "stall", "worker", "trim", "reuse", "overlap"}

\* What a manifest and a captured rebuildState() can be; None stands for the
\* absence of either.
Evidences(N) ==
    [watermark : 0..N, asOf : 0..N, previous : Generation, captured : 0..N]
States(N) ==
    [active : Generation, checkpoint : 0..N,
     rebuilding : Generation \cup {None}]

ASSUME RebuildAssumption ==
    /\ Initial \in Generation
    /\ TargetOf \in [Attempt -> Generation]
    /\ Retirable \subseteq Generation
    /\ SourceKinds \subseteq {"model-snapshot", "stream-replay"}
    /\ IsFiniteSet(Member)
    /\ EventOf \in [1..MaxSequence -> [member : Member, removes : BOOLEAN]]
    /\ MaxSequence \in Nat
    /\ MaxFloor \in Nat
    /\ PageSize \in Nat \ {0}
    /\ MaxRounds \in Nat \ {0}
    /\ MaxTries \in Nat \ {0}
    /\ Fault \subseteq Faults
    /\ None \notin Attempt \cup Generation \cup Member
    /\ None \notin Evidences(MaxSequence) \cup States(MaxSequence)

VARIABLES
    tail, floor,          \* the stream: last sequence, retention floor
    active, checkpoint,   \* active-generation and checkpoint keys
    rebuilding, lease,    \* rebuilding-generation and rebuild-attempt keys
    highwater,            \* of each generation
    rows, versions,       \* value and version of each member, 0 for none
    manifest,             \* the immutable manifest of each generation
    kind,                 \* sourceKind of the projection's rebuilds
    pc,                   \* where each attempt is
    captured,             \* the rebuildState() it started from
    found,                \* the manifest it recovered
    after, asOf,          \* watermark of its evidence, and what that reflects
    todo,                 \* events it has still to write
    round,                \* catch-up rounds it has made
    lastPage,             \* its last page was exhausted
    wpc,                  \* where each worker is
    pos, gen, tries,      \* its position, generation in hand and write tries
    rpc, retiring,        \* where a retirement is, and of which generation
    spent                 \* names the operator is done with

stream == <<tail, floor, kind>>
keys == <<active, checkpoint, rebuilding, lease>>
data == <<highwater, rows, versions>>
attemptVars == <<pc, captured, found, after, asOf, todo, round, lastPage>>
workerVars == <<wpc, pos, gen, tries>>
retirement == <<rpc, retiring, spent>>
vars == <<stream, keys, data, manifest, attemptVars, workerVars, retirement>>

Online == INSTANCE OnlineProjection WITH
            tail <- tail, view <- rows[active], watermark <- checkpoint

NoRows == [m \in Member |-> 0]

Init ==
    /\ tail = 0 /\ floor = 0
    /\ kind \in SourceKinds
    /\ active = Initial /\ checkpoint = 0
    /\ rebuilding = None /\ lease = None
    /\ highwater = [g \in Generation |-> 0]
    /\ rows = [g \in Generation |-> NoRows]
    /\ versions = [g \in Generation |-> NoRows]
    /\ manifest = [g \in Generation |-> None]
    /\ pc = [a \in Attempt |-> "idle"]
    /\ captured = [a \in Attempt |-> None]
    /\ found = [a \in Attempt |-> None]
    /\ after = [a \in Attempt |-> 0]
    /\ asOf = [a \in Attempt |-> 0]
    /\ todo = [a \in Attempt |-> <<>>]
    /\ round = [a \in Attempt |-> 0]
    /\ lastPage = [a \in Attempt |-> FALSE]
    /\ wpc = [w \in Worker |-> "idle"]
    /\ pos = [w \in Worker |-> 0]
    /\ gen = [w \in Worker |-> Initial]
    /\ tries = [w \in Worker |-> 0]
    /\ rpc = "idle" /\ retiring = None
    /\ spent = {Initial}

-----------------------------------------------------------------------------
(* The stream (PublicStream): events are committed in sequence order. *)

Commit ==
    /\ tail < MaxSequence
    /\ tail' = tail + 1
    /\ UNCHANGED <<floor, kind, retirement, keys, data, manifest, attemptVars,
                   workerVars>>

Trim ==
    /\ "trim" \in Fault
    /\ floor < tail /\ floor < MaxFloor
    /\ floor' = floor + 1
    /\ UNCHANGED <<tail, kind, retirement, keys, data, manifest, attemptVars,
                   workerVars>>

\* source.read(n, batchSize): the sequences of the page and whether it is the
\* last one.
PageEnd(n) == IF n + PageSize < tail THEN n + PageSize ELSE tail
Page(n) == [i \in 1..(PageEnd(n) - n) |-> n + i]
Exhausted(n) == PageEnd(n) = tail

Write(n, m, v) == [sequence |-> n, member |-> m, value |-> v]
EventWrite(n) ==
    Write(n, EventOf[n].member, IF EventOf[n].removes THEN 0 ELSE n)
EventWrites(s) == [i \in DOMAIN s |-> EventWrite(s[i])]

-----------------------------------------------------------------------------
(* The store's scripts *)

\* APPLY_ROW_SCRIPT compares the member's version with the event's sequence.
Newer(g, e) == versions[g][e.member] <= e.sequence

ApplyRow(g, e) ==
    IF Newer(g, e)
    THEN /\ rows' = [rows EXCEPT ![g][e.member] = e.value]
         /\ versions' = [versions EXCEPT ![g][e.member] = e.sequence]
    ELSE UNCHANGED <<rows, versions>>

Later(m, n) == IF n > m THEN n ELSE m

\* ADVANCE_HIGHWATER_SCRIPT
AdvanceHighwater(g, n) ==
    highwater' = [highwater EXCEPT ![g] = Later(@, n)]

\* RENEW_GENERATION_ATTEMPT_SCRIPT, and the guard of the reset and abandon
\* scripts.
Owns(a) == rebuilding = TargetOf[a] /\ lease = a

-----------------------------------------------------------------------------
(* The rebuild attempt, runApplicationOnlineProjectionRebuild *)

Target(a) == TargetOf[a]
Go(a, label) == pc' = [pc EXCEPT ![a] = label]

\* The attempt returns, throws or dies, and its local state goes with it.
End(a, label) ==
    /\ Go(a, label)
    /\ captured' = [captured EXCEPT ![a] = None]
    /\ found' = [found EXCEPT ![a] = None]
    /\ after' = [after EXCEPT ![a] = 0]
    /\ asOf' = [asOf EXCEPT ![a] = 0]
    /\ todo' = [todo EXCEPT ![a] = <<>>]
    /\ round' = [round EXCEPT ![a] = 0]
    /\ lastPage' = [lastPage EXCEPT ![a] = FALSE]

\* An attempt that has captured a state and neither returned nor thrown.
Ended == {"done", "failed", "crashed"}
Running(a) == pc[a] \notin {"idle"} \cup Ended

\* store.rebuildState(), one MGET.
Capture(a) ==
    /\ pc[a] = "idle"
    /\ Target(a) \in spent => "reuse" \in Fault
    /\ captured' = [captured EXCEPT ![a] =
            [active |-> active, checkpoint |-> checkpoint,
             rebuilding |-> rebuilding]]
    /\ Go(a, "captured")
    /\ UNCHANGED <<stream, retirement, keys, data, manifest, found, after,
                   asOf, todo, round, lastPage, workerVars>>

\* The generation is active already and its evidence supports it.
Served(a, f) ==
    /\ captured[a].active = Target(a)
    /\ f # None
    /\ captured[a].checkpoint >= f.watermark

\* The manifest belongs to another predecessor or is ahead of the projection,
\* or another generation is being rebuilt.
Conflicts(a, f) ==
    \/ captured[a].active = Target(a)
    \/ f # None /\ \/ f.previous # captured[a].active
                   \/ f.captured > captured[a].checkpoint
    \/ captured[a].rebuilding \notin {None, Target(a)}

\* readRebuildManifest() and the decisions on what it returns.
Recover(a) ==
    /\ pc[a] = "captured"
    /\ LET f == manifest[Target(a)]
       IN  \/ /\ Served(a, f)
              /\ End(a, "done")
           \/ /\ ~Served(a, f) /\ Conflicts(a, f)
              /\ End(a, "failed")
           \/ /\ ~Conflicts(a, f)
              /\ found' = [found EXCEPT ![a] = f]
              /\ Go(a, "begin")
              /\ UNCHANGED <<captured, after, asOf, todo, round, lastPage>>
    /\ UNCHANGED <<stream, retirement, keys, data, manifest, workerVars>>

\* beginGeneration(): BEGIN_GENERATION_SCRIPT behind a check of the active
\* generation.
Admissible(a) ==
    /\ active # Target(a)
    /\ rebuilding \in {None, Target(a)}
    /\ lease = None

Begin(a) ==
    /\ pc[a] = "begin"
    /\ IF Admissible(a)
       THEN /\ rebuilding' = Target(a)
            /\ lease' = a
            /\ Go(a, "reset")
            /\ UNCHANGED <<captured, found, after, asOf, todo, round,
                           lastPage>>
       ELSE /\ UNCHANGED <<rebuilding, lease>>
            /\ End(a, "failed")
    /\ UNCHANGED <<stream, retirement, active, checkpoint, data, manifest,
                   workerVars>>

\* resetGeneration(): a renewal, the deletion of the rows, which nothing
\* guards, and RESET_REBUILD_GENERATION_SCRIPT.
Reset(a) ==
    /\ pc[a] = "reset"
    /\ active # Target(a)
    /\ Owns(a)
    /\ Go(a, "resetRows")
    /\ UNCHANGED <<stream, retirement, keys, data, manifest, captured, found,
                   after, asOf, todo, round, lastPage, workerVars>>

\* Mutant of ResetRows: the rows of an earlier attempt are kept.
ResetNothing(a) ==
    /\ pc[a] = "resetRows"
    /\ Go(a, "resetMeta")
    /\ UNCHANGED <<stream, retirement, keys, data, manifest, captured, found,
                   after, asOf, todo, round, lastPage, workerVars>>

ResetRows(a) ==
    /\ pc[a] = "resetRows"
    /\ rows' = [rows EXCEPT ![Target(a)] = NoRows]
    /\ versions' = [versions EXCEPT ![Target(a)] = NoRows]
    /\ Go(a, "resetMeta")
    /\ UNCHANGED <<stream, retirement, keys, highwater, manifest, captured,
                   found, after, asOf, todo, round, lastPage, workerVars>>

ResetMeta(a) ==
    /\ pc[a] = "resetMeta"
    /\ Owns(a)
    /\ highwater' = [highwater EXCEPT ![Target(a)] = 0]
    /\ Go(a, IF found[a] = None THEN "scan" ELSE "load")
    /\ UNCHANGED <<stream, retirement, keys, rows, versions, manifest,
                   captured, found, after, asOf, todo, round, lastPage,
                   workerVars>>

\* One page of the replay becomes a segment.
ScanPage(a) ==
    /\ pc[a] = "scan"
    /\ kind = "stream-replay"
    /\ floor <= after[a]
    /\ after' = [after EXCEPT ![a] = PageEnd(after[a])]
    /\ asOf' = [asOf EXCEPT ![a] = PageEnd(after[a])]
    /\ IF Exhausted(after[a]) THEN Go(a, "load") ELSE UNCHANGED pc
    /\ UNCHANGED <<stream, retirement, keys, data, manifest, captured, found,
                   todo, round, lastPage, workerVars>>

\* snapshot.scan(): one repeatable-read transaction; its watermark is the
\* maximum of the retained events, the rows reflect every committed one.
ScanSnapshot(a) ==
    /\ pc[a] = "scan"
    /\ kind = "model-snapshot"
    /\ after' = [after EXCEPT ![a] = IF floor = tail THEN 0 ELSE tail]
    /\ asOf' = [asOf EXCEPT ![a] = tail]
    /\ Go(a, "load")
    /\ UNCHANGED <<stream, retirement, keys, data, manifest, captured, found,
                   todo, round, lastPage, workerVars>>

\* The rows of a snapshot as writes at its watermark, and the empty write
\* that advances a generation without rows.
SnapshotWrites(n, k) ==
    LET present == {m \in Member : Online!Shown(m, k) # 0}
        order == SetToSeq(present)
    IN  [i \in DOMAIN order |-> Write(n, order[i], Online!Shown(order[i], k))]
            \o <<Write(n, None, 0)>>

Evidence(a) ==
    IF found[a] = None
    THEN [watermark |-> after[a], asOf |-> asOf[a],
          previous |-> captured[a].active,
          captured |-> captured[a].checkpoint]
    ELSE found[a]

\* The segments, own or recovered, are read back for writing.
Load(a) ==
    /\ pc[a] = "load"
    /\ LET e == Evidence(a)
       IN  todo' = [todo EXCEPT ![a] =
                IF kind = "model-snapshot" THEN SnapshotWrites(e.watermark, e.asOf)
                ELSE EventWrites([i \in 1..e.watermark |-> i])]
    /\ Go(a, "renew")
    /\ UNCHANGED <<stream, retirement, keys, data, manifest, captured, found,
                   after, asOf, round, lastPage, workerVars>>

\* writeGeneration() renews the lease, then writes event by event.
Renew(a) ==
    /\ pc[a] = "renew"
    /\ Owns(a)
    /\ Go(a, "write")
    /\ UNCHANGED <<stream, retirement, keys, data, manifest, captured, found,
                   after, asOf, todo, round, lastPage, workerVars>>

\* writeToGeneration() for the next event: the lease is renewed and events
\* below the high water are skipped.
CheckEvent(a) ==
    /\ pc[a] = "write"
    /\ todo[a] # <<>>
    /\ Owns(a)
    /\ IF Head(todo[a]).sequence < highwater[Target(a)]
       THEN todo' = [todo EXCEPT ![a] = Tail(@)] /\ UNCHANGED pc
       ELSE /\ Go(a, IF Head(todo[a]).member = None THEN "advance" ELSE "apply")
            /\ UNCHANGED todo
    /\ UNCHANGED <<stream, retirement, keys, data, manifest, captured, found,
                   after, asOf, round, lastPage, workerVars>>

\* The two scripts that follow know nothing of the lease.
ApplyEvent(a) ==
    /\ pc[a] = "apply"
    /\ ApplyRow(Target(a), Head(todo[a]))
    /\ Go(a, "advance")
    /\ UNCHANGED <<stream, retirement, keys, highwater, manifest, captured,
                   found, after, asOf, todo, round, lastPage, workerVars>>

AdvanceEvent(a) ==
    /\ pc[a] = "advance"
    /\ AdvanceHighwater(Target(a), Head(todo[a]).sequence)
    /\ todo' = [todo EXCEPT ![a] = Tail(@)]
    /\ Go(a, "write")
    /\ UNCHANGED <<stream, retirement, keys, rows, versions, manifest,
                   captured, found, after, asOf, round, lastPage, workerVars>>

\* After the segments comes the manifest, after a catch-up page the next page
\* or the publication.
Written(a) ==
    /\ pc[a] = "write"
    /\ todo[a] = <<>>
    /\ Go(a, CASE round[a] = 0 -> "manifest"
               [] round[a] > 0 /\ lastPage[a] -> "publish"
               [] OTHER -> "catchUp")
    /\ UNCHANGED <<stream, retirement, keys, data, manifest, captured, found,
                   after, asOf, todo, round, lastPage, workerVars>>

\* Mutant of PutManifest: only an existing manifest is verified.
VerifyManifest(a) ==
    /\ pc[a] = "manifest"
    /\ found[a] = None => manifest[Target(a)] = None
    /\ Go(a, "catchUp")
    /\ UNCHANGED <<stream, retirement, keys, data, manifest, captured, found,
                   after, asOf, todo, round, lastPage, workerVars>>

\* putOrVerifyArtifact(): the manifest names its attempt, so one that another
\* attempt has stored differs.
PutManifest(a) ==
    /\ pc[a] = "manifest"
    /\ found[a] = None => manifest[Target(a)] = None
    /\ manifest' = [manifest EXCEPT ![Target(a)] = Evidence(a)]
    /\ Go(a, "catchUp")
    /\ UNCHANGED <<stream, retirement, keys, data, captured, found, after,
                   asOf, todo, round, lastPage, workerVars>>

\* Mutant of CatchUp: the rounds are not bounded.
CatchUpForEver(a) ==
    /\ pc[a] = "catchUp"
    /\ LET n == highwater[Target(a)]
       IN  /\ floor <= n
           /\ todo' = [todo EXCEPT ![a] = EventWrites(Page(n))]
           /\ lastPage' = [lastPage EXCEPT ![a] = Exhausted(n)]
    /\ round' = [round EXCEPT ![a] = @ + 1]
    /\ Go(a, "renew")
    /\ UNCHANGED <<stream, retirement, keys, data, manifest, captured, found,
                   after, asOf, workerVars>>

\* One catch-up round: generationHighwater(), then the page after it.
CatchUp(a) ==
    /\ pc[a] = "catchUp"
    /\ round[a] < MaxRounds
    /\ LET n == highwater[Target(a)]
       IN  /\ floor <= n
           /\ todo' = [todo EXCEPT ![a] = EventWrites(Page(n))]
           /\ lastPage' = [lastPage EXCEPT ![a] = Exhausted(n)]
    /\ round' = [round EXCEPT ![a] = @ + 1]
    /\ Go(a, "renew")
    /\ UNCHANGED <<stream, retirement, keys, data, manifest, captured, found,
                   after, asOf, workerVars>>

\* PUBLISH_GENERATION_SCRIPT
Publishable(a) ==
    /\ active = Evidence(a).previous
    /\ Owns(a)
    /\ highwater[Target(a)] >= checkpoint

Publish(a) ==
    /\ pc[a] = "publish"
    /\ IF Publishable(a)
       THEN /\ checkpoint' = highwater[Target(a)]
            /\ active' = Target(a)
            /\ rebuilding' = None
            /\ lease' = None
            /\ Go(a, "verify")
       ELSE /\ UNCHANGED keys
            /\ Go(a, "raced")
    /\ UNCHANGED <<stream, retirement, data, manifest, captured, found, after,
                   asOf, todo, round, lastPage, workerVars>>

\* A refused publication looks at the active generation once more: another
\* attempt may have published this one.
Raced(a) ==
    /\ pc[a] = "raced"
    /\ active \in {Target(a), Evidence(a).previous}
    /\ Go(a, IF active = Target(a) THEN "verify" ELSE "catchUp")
    /\ UNCHANGED <<stream, retirement, keys, data, manifest, captured, found,
                   after, asOf, todo, round, lastPage, workerVars>>

Verify(a) ==
    /\ pc[a] = "verify"
    /\ active = Target(a)
    /\ End(a, "done")
    /\ UNCHANGED <<stream, retirement, keys, data, manifest, workerVars>>

\* What makes the body of the try block throw: a lost lease, a retention gap,
\* foreign evidence, the bound on rounds, a changed active generation.
MustFail(a) ==
    \/ pc[a] = "reset" /\ active = Target(a)
    \/ pc[a] \notin {"verify", "raced"} /\ ~Owns(a)
    \/ pc[a] = "scan" /\ kind = "stream-replay" /\ floor > after[a]
    \/ pc[a] = "manifest" /\ found[a] = None /\ manifest[Target(a)] # None
    \/ pc[a] = "catchUp" /\ (round[a] = MaxRounds \/ floor > highwater[Target(a)])
    \/ pc[a] = "raced" /\ active \notin {Target(a), Evidence(a).previous}
    \/ pc[a] = "verify" /\ active # Target(a)

Rebuilding(a) == pc[a] \notin {"idle", "captured", "begin", "done", "failed", "crashed"}

\* The finally block: ABANDON_GENERATION_SCRIPT.
Fail(a) ==
    /\ Rebuilding(a)
    /\ MustFail(a) \/ "error" \in Fault
    /\ IF Owns(a)
       THEN rebuilding' = None /\ lease' = None
       ELSE UNCHANGED <<rebuilding, lease>>
    /\ End(a, "failed")
    /\ UNCHANGED <<stream, retirement, active, checkpoint, data, manifest,
                   workerVars>>

Crash(a) ==
    /\ "crash" \in Fault
    /\ Rebuilding(a)
    /\ End(a, "crashed")
    /\ UNCHANGED <<stream, retirement, keys, data, manifest, workerVars>>

\* The attempt key runs out.  The heartbeat of a process that is not stalled
\* renews it in time.
Expire ==
    /\ lease # None
    /\ Rebuilding(lease) => "stall" \in Fault
    /\ lease' = None
    /\ UNCHANGED <<stream, retirement, active, checkpoint, rebuilding, data,
                   manifest, attemptVars, workerVars>>

-----------------------------------------------------------------------------
(* The projection worker: runApplicationProjection over store.write() *)

Step(w, label) == wpc' = [wpc EXCEPT ![w] = label]

\* The loop returns, throws or dies; the next run starts from the checkpoint.
Stop(w) ==
    /\ Step(w, "idle")
    /\ pos' = [pos EXCEPT ![w] = 0]
    /\ gen' = [gen EXCEPT ![w] = Initial]
    /\ tries' = [tries EXCEPT ![w] = 0]

StartWorker(w) ==
    /\ wpc[w] = "idle"
    /\ pos' = [pos EXCEPT ![w] = checkpoint]
    /\ Step(w, "read")
    /\ UNCHANGED <<stream, retirement, keys, data, manifest, attemptVars, gen,
                   tries>>

\* The next event of a page; behind retention the worker throws.
ReadNext(w) ==
    /\ wpc[w] = "read"
    /\ pos[w] < tail
    /\ floor <= pos[w]
    /\ Step(w, "generation")
    /\ UNCHANGED <<stream, retirement, keys, data, manifest, attemptVars, pos,
                   gen, tries>>

StopWorker(w) ==
    /\ wpc[w] = "read"
    /\ pos[w] = tail \/ floor > pos[w]
    /\ Stop(w)
    /\ UNCHANGED <<stream, retirement, keys, data, manifest, attemptVars>>

\* write(): the active generation and its high water.
PickGeneration(w) ==
    /\ wpc[w] = "generation"
    /\ gen' = [gen EXCEPT ![w] = active]
    /\ tries' = [tries EXCEPT ![w] = @ + 1]
    /\ Step(w, IF pos[w] + 1 < highwater[active] THEN "commit" ELSE "apply")
    /\ UNCHANGED <<stream, retirement, keys, data, manifest, attemptVars, pos>>

WorkerApply(w) ==
    /\ wpc[w] = "apply"
    /\ ApplyRow(gen[w], EventWrite(pos[w] + 1))
    /\ Step(w, "advance")
    /\ UNCHANGED <<stream, retirement, keys, highwater, manifest, attemptVars,
                   pos, gen, tries>>

WorkerAdvance(w) ==
    /\ wpc[w] = "advance"
    /\ AdvanceHighwater(gen[w], pos[w] + 1)
    /\ Step(w, "commit")
    /\ UNCHANGED <<stream, retirement, keys, rows, versions, manifest,
                   attemptVars, pos, gen, tries>>

\* ADVANCE_ACTIVE_CHECKPOINT_SCRIPT: the event counts only if the generation
\* it was written to is still active; otherwise it is written again.
WorkerCommit(w) ==
    /\ wpc[w] = "commit"
    /\ IF active = gen[w]
       THEN /\ checkpoint' = Later(checkpoint, pos[w] + 1)
            /\ Step(w, "checkpoint")
            /\ UNCHANGED <<pos, gen, tries>>
       ELSE /\ UNCHANGED checkpoint
            /\ IF tries[w] < MaxTries
               THEN Step(w, "generation") /\ UNCHANGED <<pos, gen, tries>>
               ELSE Stop(w)
    /\ UNCHANGED <<stream, retirement, active, rebuilding, lease, data,
                   manifest, attemptVars>>

\* store.advance(page.nextSequence), which is not bound to a generation.
WorkerCheckpoint(w) ==
    /\ wpc[w] = "checkpoint"
    /\ checkpoint' = Later(checkpoint, pos[w] + 1)
    /\ pos' = [pos EXCEPT ![w] = @ + 1]
    /\ gen' = [gen EXCEPT ![w] = Initial]
    /\ tries' = [tries EXCEPT ![w] = 0]
    /\ Step(w, "read")
    /\ UNCHANGED <<stream, retirement, active, rebuilding, lease, data,
                   manifest, attemptVars>>

CrashWorker(w) ==
    /\ "worker" \in Fault
    /\ wpc[w] # "idle"
    /\ Stop(w)
    /\ UNCHANGED <<stream, retirement, keys, data, manifest, attemptVars>>

-----------------------------------------------------------------------------
(* retireApplicationOnlineProjectionGeneration(): resetGeneration() without  *)
(* an attempt, one command after the other, then the evidence.              *)

RetireTo(label) == rpc' = label /\ UNCHANGED <<retiring, spent>>

\* Mutant of StartRetirement: the active generation is not refused.
StartAnyRetirement(g) ==
    /\ rpc = "idle"
    /\ (\E a \in Attempt : Running(a) /\ Target(a) = g) => "overlap" \in Fault
    /\ rpc' = "rows"
    /\ retiring' = g
    /\ spent' = spent \cup {g}
    /\ UNCHANGED <<stream, keys, data, manifest, attemptVars, workerVars>>

\* GET of the active generation; resetting that one is an error.
StartRetirement(g) ==
    /\ rpc = "idle"
    /\ g # active
    /\ (\E a \in Attempt : Running(a) /\ Target(a) = g) => "overlap" \in Fault
    /\ rpc' = "rows"
    /\ retiring' = g
    /\ spent' = spent \cup {g}
    /\ UNCHANGED <<stream, keys, data, manifest, attemptVars, workerVars>>

RetireRows ==
    /\ rpc = "rows"
    /\ rows' = [rows EXCEPT ![retiring] = NoRows]
    /\ versions' = [versions EXCEPT ![retiring] = NoRows]
    /\ RetireTo("meta")
    /\ UNCHANGED <<stream, keys, highwater, manifest, attemptVars, workerVars>>

RetireMeta ==
    /\ rpc = "meta"
    /\ highwater' = [highwater EXCEPT ![retiring] = 0]
    /\ RetireTo("check")
    /\ UNCHANGED <<stream, keys, rows, versions, manifest, attemptVars,
                   workerVars>>

\* GET of the rebuilding generation, and the DEL that may follow it.
RetireCheck ==
    /\ rpc = "check"
    /\ RetireTo(IF rebuilding = retiring THEN "release" ELSE "evidence")
    /\ UNCHANGED <<stream, keys, data, manifest, attemptVars, workerVars>>

RetireRelease ==
    /\ rpc = "release"
    /\ rebuilding' = None
    /\ lease' = None
    /\ RetireTo("evidence")
    /\ UNCHANGED <<stream, active, checkpoint, data, manifest, attemptVars,
                   workerVars>>

\* The references the caller gives may include the manifest or not.
RetireEvidence ==
    /\ rpc = "evidence"
    /\ manifest' \in {manifest, [manifest EXCEPT ![retiring] = None]}
    /\ rpc' = "idle"
    /\ retiring' = None
    /\ UNCHANGED <<spent, stream, keys, data, attemptVars, workerVars>>

\* It throws or dies half way.
RetirementFails ==
    /\ rpc # "idle"
    /\ Fault \cap {"error", "crash"} # {}
    /\ rpc' = "idle"
    /\ retiring' = None
    /\ UNCHANGED <<spent, stream, keys, data, manifest, attemptVars,
                   workerVars>>

-----------------------------------------------------------------------------
AttemptStep(a) ==
    \/ Capture(a) \/ Recover(a) \/ Begin(a)
    \/ Reset(a) \/ ResetRows(a) \/ ResetMeta(a)
    \/ ScanPage(a) \/ ScanSnapshot(a) \/ Load(a)
    \/ Renew(a) \/ CheckEvent(a) \/ ApplyEvent(a) \/ AdvanceEvent(a)
    \/ Written(a) \/ PutManifest(a) \/ CatchUp(a)
    \/ Publish(a) \/ Raced(a) \/ Verify(a) \/ Fail(a)

WorkerStep(w) ==
    \/ StartWorker(w) \/ ReadNext(w) \/ StopWorker(w)
    \/ PickGeneration(w) \/ WorkerApply(w) \/ WorkerAdvance(w)
    \/ WorkerCommit(w) \/ WorkerCheckpoint(w)

RetirementStep ==
    \/ \E g \in Retirable : StartRetirement(g)
    \/ RetireRows \/ RetireMeta \/ RetireCheck \/ RetireRelease
    \/ RetireEvidence \/ RetirementFails

Next ==
    \/ Commit
    \/ Trim
    \/ Expire
    \/ \E a \in Attempt : AttemptStep(a) \/ Crash(a)
    \/ \E w \in Worker : WorkerStep(w) \/ CrashWorker(w)
    \/ RetirementStep

Spec == Init /\ [][Next]_vars

-----------------------------------------------------------------------------
(* Properties *)

Label == {"idle", "captured", "begin", "reset", "resetRows", "resetMeta",
          "scan", "load", "renew", "write", "apply", "advance", "manifest",
          "catchUp", "publish", "raced", "verify", "done", "failed", "crashed"}
WorkerLabel == {"idle", "read", "generation", "apply", "advance", "commit",
                "checkpoint"}
Writes(N) == [sequence : 0..N, member : Member \cup {None}, value : 0..N]

StreamType ==
    /\ tail \in 0..MaxSequence
    /\ floor \in 0..tail
    /\ kind \in SourceKinds

StoreType ==
    /\ active \in Generation
    /\ checkpoint \in 0..tail
    /\ rebuilding \in Generation \cup {None}
    /\ lease \in Attempt \cup {None}
    /\ highwater \in [Generation -> 0..tail]
    /\ rows \in [Generation -> [Member -> 0..tail]]
    /\ versions \in [Generation -> [Member -> 0..tail]]
    /\ manifest \in [Generation -> Evidences(tail) \cup {None}]

AttemptType ==
    /\ pc \in [Attempt -> Label]
    /\ captured \in [Attempt -> States(tail) \cup {None}]
    /\ found \in [Attempt -> Evidences(tail) \cup {None}]
    /\ after \in [Attempt -> 0..tail]
    /\ asOf \in [Attempt -> 0..tail]
    /\ todo \in [Attempt -> Seq(Writes(tail))]
    /\ round \in [Attempt -> 0..MaxRounds]
    /\ lastPage \in [Attempt -> BOOLEAN]

WorkerType ==
    /\ wpc \in [Worker -> WorkerLabel]
    /\ pos \in [Worker -> 0..tail]
    /\ gen \in [Worker -> Generation]
    /\ tries \in [Worker -> 0..MaxTries]

RetirementType ==
    /\ rpc \in {"idle", "rows", "meta", "check", "release", "evidence"}
    /\ retiring \in Generation \cup {None}
    /\ spent \subseteq Generation

\* Every variable ranges over the values the keys, the artifacts and the
\* processes can hold: no watermark, version or write is ahead of the stream,
\* and neither the catch-up rounds nor the tries of a write pass their bound.
TypeOK ==
    StreamType /\ StoreType /\ AttemptType /\ WorkerType /\ RetirementType

\* docs/workflows.md: a rebuild "catches up retained events after the captured
\* watermark, and atomically publishes only when the candidate reaches the
\* active projection checkpoint".  As long as no attempt stalls past its lease
\* and a generation id is what that page calls it, "an immutable recovery
\* identity" (no "reuse", no "overlap"), readers of the active generation see
\* one view that follows the stream: publication and retirement lose no event,
\* bring no removed row back and never move the watermark back.
ImplementsOnline == Online!Spec

\* The part of ImplementsOnline that concerns one state: every member of the
\* active generation shows its state at the checkpoint or after a later event.
ActiveCovers == Online!Covers(rows[active], checkpoint)

\* The two errors for an active generation without evidence, or behind it,
\* cannot happen: an attempt finds the manifest of every generation that was
\* published, and the checkpoint has reached its watermark.
ActiveHasEvidence ==
    active # Initial =>
        manifest[active] # None /\ checkpoint >= manifest[active].watermark

\* "Explicitly retires a non-active generation" (the comment on
\* retireApplicationOnlineProjectionGeneration): the generation whose keys and
\* evidence are being deleted is not the one readers are served from.  The
\* comparison and the deletes are separate commands, so this rests on nobody
\* retiring a generation while it is rebuilt and published (no "overlap").
RetiresInactive == rpc # "idle" => retiring # active

=============================================================================
