-------------------------- MODULE OnlineProjection --------------------------
(***************************************************************************)
(* What a reader of an online projection is promised, without generations: *)
(* one view that follows a stream.  The view may run ahead of its          *)
(* watermark for single members, it never lags behind it, and the          *)
(* watermark never moves back.  ProjectionRebuild implements it.           *)
(***************************************************************************)
EXTENDS Naturals

CONSTANTS
    Member,       \* keys of projected rows
    MaxSequence,  \* bound on the stream
    EventOf       \* the member each event is about, and whether it removes it

VARIABLES
    tail,       \* the last committed sequence of the stream
    view,       \* the event whose value each member shows, 0 for no row
    watermark   \* the sequence the view answers for

\* The last event up to k that is about member m, 0 if there is none.
LastChange(m, k) ==
    LET about == {n \in 1..k : EventOf[n].member = m}
    IN  IF about = {} THEN 0
        ELSE CHOOSE n \in about : \A i \in about : i <= n

\* What member m shows after the first k events.
Shown(m, k) ==
    LET n == LastChange(m, k)
    IN  IF n > 0 /\ EventOf[n].removes THEN 0 ELSE n

\* Every member shows its state at the watermark or after a later event.
Covers(v, w) == \A m \in Member : \E k \in w..tail : v[m] = Shown(m, k)

Init ==
    /\ tail = 0
    /\ view = [m \in Member |-> 0]
    /\ watermark = 0

Commit ==
    /\ tail < MaxSequence
    /\ tail' = tail + 1
    /\ UNCHANGED <<view, watermark>>

\* Any number of rows change at once when a generation is published.
Refresh ==
    /\ watermark' \in watermark..tail
    /\ view' \in [Member -> 0..tail]
    /\ Covers(view', watermark')
    /\ UNCHANGED tail

Spec == Init /\ [][Commit \/ Refresh]_<<tail, view, watermark>>

=============================================================================
