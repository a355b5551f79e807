------------------------- MODULE PublicStreamProofs -------------------------
(***************************************************************************)
(* Proofs about PublicStream for every set of producers, consumers and     *)
(* contexts and every bound.                                               *)
(***************************************************************************)
EXTENDS PublicStream, TLAPS

(* Type correctness, one step per action. *)

\* The empty stream is well typed.
LEMMA TypeInit == Init => TypeOK
  BY ConsumerAssumption DEF Init, TypeOK, Consumer, Txn, FloorKey

\* Every step of a writer, of retention and of a consumer keeps the types.
LEMMA TypeNext == TypeOK /\ [Next]_vars => TypeOK'
<1> SUFFICES ASSUME TypeOK, [Next]_vars PROVE TypeOK'
  OBVIOUS
<1> USE DEF TypeOK
<1>1. ASSUME NEW p \in Producer, LockCommitScope(p) PROVE TypeOK'
  BY <1>1 DEF LockCommitScope, reading
<1>2. ASSUME NEW x \in Txn, NEW digest \in Context \cup {NoContext},
             NEW at \in Nat, InsertRow(x, digest, at)
      PROVE TypeOK'
  <2>1. [sequence |-> nextSequence, digest |-> digest, recordedAt |-> at] \in Row
    BY DEF Row
  <2> QED
    BY <1>2, <2>1 DEF InsertRow, reading
<1>3. ASSUME NEW p \in Producer, EmitEvent(p) PROVE TypeOK'
  <2>1. PICK digest \in EventDigest, at \in 0..now : InsertRow(p, digest, at)
    BY <1>3 DEF EmitEvent
  <2>2. digest \in Context \cup {NoContext} /\ at \in Nat /\ p \in Txn
    BY ConsumerAssumption DEF Txn
  <2> QED
    BY <1>2, <2>1, <2>2
<1>4. ASSUME NEW s \in Signal, IssueSignal(s) PROVE TypeOK'
  <2>1. PICK digest \in Context, at \in 0..now : InsertRow(s, digest, at)
    BY <1>4 DEF IssueSignal
  <2>2. at \in Nat
    OBVIOUS
  <2> QED
    BY <1>2, <2>1, <2>2 DEF Txn
<1>5. ASSUME NEW x \in Txn, Commit(x) PROVE TypeOK'
  BY <1>5 DEF Commit, Released, reading
<1>6. ASSUME NEW x \in Txn, Abort(x) PROVE TypeOK'
  BY <1>6 DEF Abort, Released, reading
<1>7. CASE Tick
  BY <1>7 DEF Tick, reading
<1>8. CASE EnforceRetention
  BY <1>8, BoundAssumption DEF EnforceRetention, Expired, reading
<1>9. ASSUME NEW r \in Consumer, BeginRead(r) PROVE TypeOK'
  BY <1>9, ConsumerAssumption DEF BeginRead, stored
<1>10. ASSUME NEW r \in Consumer, ReadPage(r) PROVE TypeOK'
  <2>1. \A e \in Available(r) : e.sequence \in Nat
    BY DEF Available, Row
  <2> QED
    BY <1>10, <2>1 DEF ReadPage, stored
<1>11. ASSUME NEW r \in Consumer, ReadEmptyPage(r) PROVE TypeOK'
  BY <1>11 DEF ReadEmptyPage, stored
<1>12. ASSUME NEW r \in Consumer, ReportGap(r) PROVE TypeOK'
  BY <1>12 DEF ReportGap, stored
<1>13. ASSUME NEW r \in Consumer, ApplyPage(r) PROVE TypeOK'
  BY <1>13 DEF ApplyPage, stored
<1>14. ASSUME NEW r \in Consumer, AdvanceCursor(r) PROVE TypeOK'
  BY <1>14 DEF AdvanceCursor, stored
<1>15. ASSUME NEW r \in Consumer, CrashConsumer(r) PROVE TypeOK'
  BY <1>15 DEF CrashConsumer, stored
<1>16. ASSUME NEW r \in Subscription, Resubscribe(r) PROVE TypeOK'
  BY <1>16 DEF Resubscribe, stored
<1>17. ASSUME NEW r \in Projection, RebuildFromSnapshot(r) PROVE TypeOK'
  <2>1. {e.sequence : e \in committed} \subseteq Nat
    BY DEF Row
  <2>2. PICK w \in 0..MaxSequence : cursor' = [cursor EXCEPT ![r] = w]
    BY <1>17 DEF RebuildFromSnapshot
  <2>3. w \in Nat /\ r \in Consumer
    BY BoundAssumption DEF Consumer
  <2> QED
    BY <1>17, <2>1, <2>2, <2>3 DEF RebuildFromSnapshot, stored
<1>18. CASE UNCHANGED vars
  BY <1>18 DEF vars
<1> QED
  BY <1>1, <1>3, <1>4, <1>5, <1>6, <1>7, <1>8, <1>9, <1>10, <1>11, <1>12,
     <1>13, <1>14, <1>15, <1>16, <1>17, <1>18 DEF Next, Write, Read

\* Every reachable state of the stream, its writers and its consumers is well
\* typed: identity numbers, floors and cursors stay natural numbers and only a
\* command transaction ever holds the commit lock.
THEOREM TypeCorrect == Spec => []TypeOK
  BY TypeInit, TypeNext, PTL DEF Spec

-----------------------------------------------------------------------------
(***************************************************************************)
(* No skipped event.  NoSkippedEvent is not inductive: it says nothing of  *)
(* the rows still pending behind the commit lock, of the page a consumer   *)
(* has in hand, or of rows that retention removed.  The strengthening adds *)
(* exactly those.                                                          *)
(***************************************************************************)

\* Rows are numbered from the identity counter; visible rows were committed.
Numbered ==
    /\ events \subseteq committed
    /\ \A e \in committed : e.sequence > 0 /\ e.sequence < nextSequence
    /\ \A x \in Txn : \A d \in pending[x] :
            d.sequence > 0 /\ d.sequence < nextSequence

\* One transaction at a time has pending rows: a command that holds the commit
\* lock, or the one signal issuance that the authority lock admits.  Its rows
\* are above everything committed.
PendingAboveCommitted ==
    /\ holder # None => contract = "event"
    /\ \A x \in Txn : \A d \in pending[x] :
        /\ x \in Producer => holder = x
        /\ x \in Signal => contract = "signal"
        /\ \A y \in Txn : pending[y] # {} => y = x
        /\ \A e \in committed : e.sequence < d.sequence

\* Readers share the lock only while nobody holds it exclusively, have nothing
\* else in hand, and see the current floor.
SharedRead ==
    /\ sharing # {} => holder = None
    /\ \A r \in sharing : /\ floorRead[r] = floors[FilterOf[r]]
                          /\ page[r] = {}
                          /\ ~gap[r]
    /\ \A r \in Consumer : gap[r] => page[r] = {}

\* What retention removed is covered by the floor of every key it matches.
FloorCovers ==
    \A e \in committed \ events : \A f \in FloorKey :
        Matches(e, f) => e.sequence <= floors[f]

\* A cursor, and each number of a page, is a committed sequence.
CursorCommitted ==
    \A r \in Consumer :
        /\ cursor[r] = 0 \/ \E e \in committed : e.sequence = cursor[r]
        /\ \A s \in page[r] : \E e \in committed : e.sequence = s

\* A page leaves nothing out up to its last number.
PageComplete ==
    \A r \in Consumer : \A s \in page[r] : \A e \in committed :
        (/\ Matches(e, FilterOf[r])
         /\ e.sequence <= s
         /\ e.sequence > start[r]) => e.sequence \in page[r] \cup seen[r]

\* A floor that has been raised is the number of a row that was removed.
FloorIsRemoved ==
    \A f \in FloorKey : floors[f] > 0 =>
        \E e \in committed \ events :
            Matches(e, f) /\ e.sequence = floors[f]

IInv ==
    /\ TypeOK
    /\ Numbered
    /\ PendingAboveCommitted
    /\ SharedRead
    /\ FloorCovers
    /\ CursorCommitted
    /\ PageComplete
    /\ FloorIsRemoved
    /\ NoSkippedEvent
    /\ GapIsReal

\* The empty stream satisfies the inductive invariant.
LEMMA IInvInit == Init => IInv
<1> SUFFICES ASSUME Init PROVE IInv
  OBVIOUS
<1>1. TypeOK
  BY TypeInit
<1> QED
  BY <1>1, ConsumerAssumption DEF Init, Consumer, FloorKey, IInv, Numbered, PendingAboveCommitted, SharedRead,
     FloorCovers, CursorCommitted, PageComplete, FloorIsRemoved, NoSkippedEvent,
     GapIsReal

\* Every step of commands or of signals keeps the inductive invariant: numbers
\* in commit order, floors that cover what was removed, and pages without holes.
LEMMA IInvNext ==
    ASSUME IInv, [Next]_vars
    PROVE  IInv'
<1>0. TypeOK'
  BY TypeNext DEF IInv
<1> USE DEF IInv
<1>1. ASSUME NEW p \in Producer, LockCommitScope(p) PROVE IInv'
  BY <1>0, <1>1, ConsumerAssumption DEF LockCommitScope, reading, Numbered,
     PendingAboveCommitted, SharedRead, FloorCovers, CursorCommitted,
     PageComplete, FloorIsRemoved, NoSkippedEvent,
     GapIsReal, TypeOK, Txn
<1>2. ASSUME NEW p \in Producer, EmitEvent(p) PROVE IInv'
  BY <1>0, <1>2, ConsumerAssumption DEF EmitEvent, InsertRow, reading, TypeOK, Row,
     Numbered, PendingAboveCommitted, SharedRead, FloorCovers,
     CursorCommitted, PageComplete, FloorIsRemoved, NoSkippedEvent,
     GapIsReal, Matches, Txn
<1>17. ASSUME NEW s \in Signal, IssueSignal(s) PROVE IInv'
  BY <1>0, <1>17, ConsumerAssumption DEF IssueSignal, InsertRow,
     reading, TypeOK, Row,
     Numbered, PendingAboveCommitted, SharedRead, FloorCovers,
     CursorCommitted, PageComplete, FloorIsRemoved, NoSkippedEvent,
     GapIsReal, Matches, Txn
<1>3. ASSUME NEW x \in Txn, Commit(x) PROVE IInv'
  <2> USE <1>3 DEF Commit, TypeOK, Row
  <2>1. Numbered'
    BY DEF Numbered
  <2>2. PendingAboveCommitted'
    BY ConsumerAssumption DEF PendingAboveCommitted, Released
  <2>3. SharedRead'
    BY DEF SharedRead, Released, PendingAboveCommitted, reading
  <2>4. FloorCovers'
    BY DEF FloorCovers, Matches
  <2>5. CursorCommitted'
    BY DEF CursorCommitted, reading
  <2>6. ASSUME NEW e \in committed', NEW r \in Consumer,
               e.sequence <= cursor[r] \/ \E s \in page[r] : e.sequence <= s
        PROVE  e \in committed
    <3>1. SUFFICES ASSUME e \in pending[x] PROVE FALSE
      OBVIOUS
    <3>2. e.sequence \in Nat /\ e.sequence > 0
      BY <3>1 DEF Numbered
    <3>3. CASE e.sequence <= cursor[r]
      <4>1. cursor[r] \in Nat
        OBVIOUS
      <4>2. PICK c \in committed : c.sequence = cursor[r]
        BY <3>2, <3>3, <4>1 DEF CursorCommitted
      <4> QED
        BY <3>1, <3>2, <3>3, <4>1, <4>2 DEF PendingAboveCommitted
    <3>4. CASE \E s \in page[r] : e.sequence <= s
      <4>1. PICK s \in page[r] : e.sequence <= s
        BY <3>4
      <4>2. s \in Nat
        OBVIOUS
      <4>3. PICK c \in committed : c.sequence = s
        BY DEF CursorCommitted
      <4> QED
        BY <3>1, <3>2, <4>1, <4>2, <4>3 DEF PendingAboveCommitted
    <3> QED
      BY <2>6, <3>3, <3>4
  <2>7. PageComplete'
    BY <2>6 DEF PageComplete, Matches, reading
  <2>8. NoSkippedEvent'
    BY <2>6 DEF NoSkippedEvent, Matches, reading
  <2>9. \A e \in committed \ events : e \in (committed \ events)'
    BY DEF PendingAboveCommitted
  <2>10. FloorIsRemoved'
    BY <2>9 DEF FloorIsRemoved, Matches
  <2>11. GapIsReal'
    BY <2>9 DEF GapIsReal, Matches, reading
  <2> QED
    BY <1>0, <2>1, <2>2, <2>3, <2>4, <2>5, <2>7, <2>8, <2>10, <2>11
<1>4. ASSUME NEW x \in Txn, Abort(x) PROVE IInv'
  BY <1>0, <1>4, ConsumerAssumption DEF Abort, Released, reading, TypeOK, Row,
     Numbered, PendingAboveCommitted, SharedRead, FloorCovers,
     CursorCommitted, PageComplete, FloorIsRemoved, NoSkippedEvent,
     GapIsReal, Matches, Txn
<1>5. CASE Tick
  BY <1>0, <1>5 DEF Tick, reading, Numbered, PendingAboveCommitted,
     SharedRead, FloorCovers, CursorCommitted, PageComplete, FloorIsRemoved, NoSkippedEvent,
     GapIsReal,
     Matches
<1>6. CASE EnforceRetention
  <2>1. PICK D \in SUBSET Expired :
            /\ events' = events \ D
            /\ \A f \in FloorKey : RaisedTo(floors'[f], f, D)
            /\ holder = None
            /\ sharing = {}
            /\ UNCHANGED <<contract, nextSequence, holder, pending, now, committed, reading>>
    BY <1>6 DEF EnforceRetention
  <2>2. D \subseteq events
    BY DEF Expired
  <2> USE <2>1, <2>2 DEF TypeOK, Row
  <2>3. Numbered'
    BY DEF Numbered
  <2>4. PendingAboveCommitted'
    BY DEF PendingAboveCommitted
  <2>5. SharedRead'
    BY DEF SharedRead, reading
  <2>6. \A f \in FloorKey :
            /\ floors[f] <= floors'[f]
            /\ \A d \in D : Matches(d, f) => d.sequence <= floors'[f]
            /\ \/ floors'[f] = floors[f]
               \/ \E d \in D : Matches(d, f) /\ d.sequence = floors'[f]
    BY <1>0 DEF RaisedTo
  <2>7. FloorCovers'
    BY <1>0, <2>6 DEF FloorCovers, Matches
  <2>8. CursorCommitted'
    BY DEF CursorCommitted, reading
  <2>9. PageComplete'
    BY DEF PageComplete, Matches, reading
  <2>10. NoSkippedEvent'
    BY DEF NoSkippedEvent, Matches, reading
  <2>11. FloorIsRemoved'
    BY <2>6 DEF FloorIsRemoved, Matches, Numbered
  <2>12. GapIsReal'
    BY DEF GapIsReal, Matches, reading
  <2> QED
    BY <1>0, <2>3, <2>4, <2>5, <2>7, <2>8, <2>9, <2>10, <2>11, <2>12
<1>7. ASSUME NEW r \in Consumer, BeginRead(r) PROVE IInv'
  BY <1>0, <1>7, ConsumerAssumption DEF BeginRead, stored, TypeOK, Row,
     Numbered, PendingAboveCommitted, SharedRead, FloorCovers,
     CursorCommitted, PageComplete, FloorIsRemoved, NoSkippedEvent,
     GapIsReal, Matches
<1>8. ASSUME NEW r \in Consumer, ReadPage(r) PROVE IInv'
  <2>1. PICK last \in Available(r) :
            page' = [page EXCEPT ![r] =
                {e.sequence : e \in {a \in Available(r) :
                                        a.sequence <= last.sequence}}]
    BY <1>8 DEF ReadPage
  <2> USE <1>8, <2>1 DEF ReadPage, TypeOK, Row
  <2>2. Numbered' /\ PendingAboveCommitted' /\ FloorCovers' /\ FloorIsRemoved'
    BY DEF Numbered, PendingAboveCommitted, FloorCovers, FloorIsRemoved,
       Matches, stored
  <2>3. SharedRead'
    BY DEF SharedRead, stored
  <2>4. Available(r) \subseteq committed
    BY DEF Available, Numbered
  <2>5. CursorCommitted'
    BY <2>4 DEF CursorCommitted, stored
  <2>6. ASSUME NEW e \in committed, Matches(e, FilterOf[r]),
               e.sequence <= last.sequence, e.sequence > start'[r]
        PROVE  e.sequence \in page'[r] \cup seen[r]
    <3>1. CASE e.sequence <= cursor[r]
      BY <2>6, <3>1 DEF NoSkippedEvent, Numbered
    <3>2. CASE e.sequence > cursor[r] /\ e \in events
      BY <2>6, <3>2 DEF Available
    <3>3. CASE e.sequence > cursor[r] /\ e \notin events
      <4>1. e.sequence <= floorRead[r]
        BY <2>6, <3>3, ConsumerAssumption DEF FloorCovers, SharedRead
      <4>2. cursor[r] = 0 /\ start'[r] = floorRead[r]
        BY <3>3, <4>1 DEF BehindRetention
      <4> QED
        BY <2>6, <4>1, <4>2
    <3> QED
      BY <3>1, <3>2, <3>3
  <2>7. \A s \in page'[r] : s \in Nat /\ s <= last.sequence
    <3>1. page'[r] = {e.sequence : e \in {a \in Available(r) :
                                            a.sequence <= last.sequence}}
      BY <2>1
    <3> SUFFICES ASSUME NEW s \in page'[r]
                 PROVE  s \in Nat /\ s <= last.sequence
      OBVIOUS
    <3>2. PICK e \in Available(r) : e.sequence <= last.sequence /\ s = e.sequence
      BY <3>1
    <3>3. e \in Row
      BY <2>4
    <3> QED
      BY <3>2, <3>3
  <2>8. PageComplete'
    <3> SUFFICES ASSUME NEW q \in Consumer, NEW s \in page'[q],
                        NEW e \in committed, Matches(e, FilterOf[q]),
                        e.sequence <= s, e.sequence > start'[q]
                 PROVE  e.sequence \in page'[q] \cup seen[q]
      BY DEF PageComplete, Matches, stored
    <3>1. CASE q = r
      <4>1. s \in Nat /\ s <= last.sequence
        BY <2>7, <3>1
      <4>2. last \in committed /\ last.sequence \in Nat /\ e.sequence \in Nat
        BY <2>4
      <4>3. e.sequence <= last.sequence
        BY <4>1, <4>2
      <4>4. e.sequence > start'[r] /\ Matches(e, FilterOf[r])
        BY <3>1
      <4>5. e.sequence \in page'[r] \cup seen[r]
        BY <2>6, <4>3, <4>4
      <4> QED
        BY <3>1, <4>5
    <3>2. CASE q # r
      BY <3>2 DEF PageComplete
    <3> QED
      BY <3>1, <3>2
  <2>9. NoSkippedEvent'
    BY DEF NoSkippedEvent, Matches, stored, Numbered
  <2>10. GapIsReal'
    BY DEF GapIsReal, Matches, stored
  <2> QED
    BY <1>0, <2>2, <2>3, <2>5, <2>8, <2>9, <2>10
<1>9. ASSUME NEW r \in Consumer, ReadEmptyPage(r) PROVE IInv'
  BY <1>0, <1>9 DEF ReadEmptyPage, stored, Numbered, PendingAboveCommitted,
     SharedRead, FloorCovers, CursorCommitted, PageComplete, FloorIsRemoved, NoSkippedEvent,
     GapIsReal,
     Matches
<1>10. ASSUME NEW r \in Consumer, ReportGap(r) PROVE IInv'
  <2> USE <1>10 DEF ReportGap, stored, TypeOK
  <2>1. Numbered' /\ PendingAboveCommitted' /\ FloorCovers' /\ FloorIsRemoved'
    BY DEF Numbered, PendingAboveCommitted, FloorCovers, FloorIsRemoved, Matches
  <2>2. SharedRead' /\ CursorCommitted' /\ PageComplete' /\ NoSkippedEvent'
    BY DEF SharedRead, CursorCommitted, PageComplete, NoSkippedEvent, Matches
  <2>3. floors[FilterOf[r]] > cursor[r] /\ FilterOf[r] \in FloorKey
    BY ConsumerAssumption DEF BehindRetention, SharedRead
  <2>4. \E e \in committed \ events :
            Matches(e, FilterOf[r]) /\ e.sequence > cursor[r]
    BY <2>3 DEF FloorIsRemoved
  <2>5. GapIsReal'
    BY <2>4 DEF GapIsReal, Matches
  <2> QED
    BY <1>0, <2>1, <2>2, <2>5
<1>11. ASSUME NEW r \in Consumer, ApplyPage(r) PROVE IInv'
  BY <1>0, <1>11, ConsumerAssumption DEF ApplyPage, stored, TypeOK, Row,
     Numbered, PendingAboveCommitted, SharedRead, FloorCovers,
     CursorCommitted, PageComplete, FloorIsRemoved, NoSkippedEvent,
     GapIsReal, Matches
<1>12. ASSUME NEW r \in Consumer, AdvanceCursor(r) PROVE IInv'
  <2>1. PICK last \in page[r] :
            /\ \A s \in page[r] : s <= last
            /\ cursor' = [cursor EXCEPT ![r] = last]
    BY <1>12 DEF AdvanceCursor
  <2> USE <1>12, <2>1 DEF AdvanceCursor, TypeOK, Row
  <2>2. Numbered' /\ PendingAboveCommitted' /\ FloorCovers' /\ FloorIsRemoved'
    BY DEF Numbered, PendingAboveCommitted, FloorCovers, FloorIsRemoved,
       Matches, stored
  <2>3. SharedRead'
    BY DEF SharedRead, stored
  <2>4. CursorCommitted'
    BY DEF CursorCommitted, stored
  <2>5. PageComplete'
    BY DEF PageComplete, Matches, stored
  <2>6. NoSkippedEvent'
    <3> SUFFICES ASSUME NEW q \in Consumer, NEW e \in committed,
                        Matches(e, FilterOf[q]),
                        e.sequence <= cursor'[q], e.sequence > start[q]
                 PROVE  e.sequence \in seen[q]
      BY DEF NoSkippedEvent, Matches, stored
    <3>1. CASE q = r
      BY <3>1 DEF PageComplete
    <3>2. CASE q # r
      BY <3>2 DEF NoSkippedEvent
    <3> QED
      BY <3>1, <3>2
  <2>7. GapIsReal'
    BY DEF GapIsReal, SharedRead, Matches, stored
  <2> QED
    BY <1>0, <2>2, <2>3, <2>4, <2>5, <2>6, <2>7
<1>13. ASSUME NEW r \in Consumer, CrashConsumer(r) PROVE IInv'
  BY <1>0, <1>13, ConsumerAssumption DEF CrashConsumer, stored, TypeOK, Row,
     Numbered, PendingAboveCommitted, SharedRead, FloorCovers,
     CursorCommitted, PageComplete, FloorIsRemoved, NoSkippedEvent,
     GapIsReal, Matches
<1>14. ASSUME NEW r \in Subscription, Resubscribe(r) PROVE IInv'
  BY <1>0, <1>14, ConsumerAssumption DEF Resubscribe, stored, TypeOK, Row,
     Numbered, PendingAboveCommitted, SharedRead, FloorCovers,
     CursorCommitted, PageComplete, FloorIsRemoved, NoSkippedEvent,
     GapIsReal, Matches, Consumer
<1>15. ASSUME NEW r \in Projection, RebuildFromSnapshot(r) PROVE IInv'
  BY <1>0, <1>15, ConsumerAssumption DEF RebuildFromSnapshot, Watermark, stored, TypeOK, Row,
     Numbered, PendingAboveCommitted, SharedRead, FloorCovers,
     CursorCommitted, PageComplete, FloorIsRemoved, NoSkippedEvent,
     GapIsReal, Matches, Consumer
<1>16. CASE UNCHANGED vars
  BY <1>0, <1>16 DEF vars, Numbered, PendingAboveCommitted, SharedRead,
     FloorCovers, CursorCommitted, PageComplete, FloorIsRemoved, NoSkippedEvent,
     GapIsReal, Matches
<1> QED
  BY <1>1, <1>2, <1>3, <1>4, <1>5, <1>6, <1>7, <1>8, <1>9, <1>10, <1>11,
     <1>12, <1>13, <1>14, <1>15, <1>16, <1>17 DEF Next, Write, Read

\* application-stream-commit.ts: on a contract of events, whose writers take the
\* commit lock, and on one of signals, whose issuers do not, a consumer that has
\* advanced its cursor has applied every event committed up to it, whatever
\* commits, rolls back, is trimmed or crashes in between.
THEOREM NoSkippedEventHolds == Spec => []NoSkippedEvent
<1>1. IInv /\ [Next]_vars => IInv'
  BY IInvNext
<1>2. IInv => NoSkippedEvent
  BY DEF IInv
<1> QED
  BY IInvInit, <1>1, <1>2, PTL DEF Spec

\* A projection error or a subscription reset for a retention gap always
\* stands for a visible event that retention removed beyond the cursor.
THEOREM GapIsRealHolds == Spec => []GapIsReal
<1>1. IInv /\ [Next]_vars => IInv'
  BY IInvNext
<1>2. IInv => GapIsReal
  BY DEF IInv
<1> QED
  BY IInvInit, <1>1, <1>2, PTL DEF Spec

=============================================================================
