------------------------ MODULE CommandDeliveryProofs ------------------------
(***************************************************************************)
(* Proofs about CommandDelivery for any commands, requests, handlers and   *)
(* delivery bound.                                                         *)
(***************************************************************************)
EXTENDS CommandDelivery, TLAPS

-----------------------------------------------------------------------------
(* The inductive invariant *)

\* A handler is busy exactly when it has a command, and that command was
\* published.
Busy ==
    /\ \A w \in Worker : (step[w] = "idle") <=> (cmd[w] = None)
    /\ \A c \in Command : Handled(c) => message[c] # "none"

\* Results and messages exist only for admitted commands, and results only for
\* published ones.
Origin ==
    \A c \in Command :
        /\ message[c] # "none" => admission[c] # None
        /\ results[c] # None => message[c] # "none"
        /\ message[c] = "none" => receipt[c] = None

\* The request that may publish is the one whose receipt was admitted.
Publisher ==
    \A r \in Request :
        /\ request[r] \in {"admitted", "releasing"} => admission[CommandOf[r]] = r
        /\ request[r] = "admitted" => message[CommandOf[r]] = "none"

\* A request that releases the pin has not published, unless the broker's
\* acknowledgement was lost.
Unpublished ==
    \A r \in Request : request[r] = "releasing" => message[CommandOf[r]] = "none"

\* A handler releases the pin after the result.
ReleasedAfterResult ==
    \A w \in Worker :
        step[w] \in {"release", "releaseRejected", "releaseFailed", "acknowledge"}
            => results[cmd[w]] # None

\* The pin is there from the authorization on, until the result.
Pinned ==
    /\ \A r \in Request :
          /\ request[r] = "authorized" /\ admission[CommandOf[r]] = None
                => CommandOf[r] \in pins
          /\ request[r] = "admitted" => CommandOf[r] \in pins
    /\ \A c \in Command : InFlight(c) => c \in pins

IInv == TypeOK /\ Busy /\ Origin /\ Publisher /\ ReceiptAgrees

PInv == IInv /\ Unpublished /\ ReleasedAfterResult /\ Pinned

-----------------------------------------------------------------------------
(* Each action preserves the invariant *)

\* Before the first submission the inductive invariant holds.
LEMMA InitIInv == Init => IInv
BY DeliveryAssumption DEF Init, IInv, TypeOK, Busy, Handled, Origin, Publisher,
   ReceiptAgrees, ResultKind, Expired

\* Every step keeps types, the link between handlers, messages and admissions,
\* and the agreement of receipts.
LEMMA NextIInv == IInv /\ [Next]_vars => IInv'
<1>. SUFFICES ASSUME IInv, [Next]_vars PROVE IInv'
  OBVIOUS
<1>. USE DeliveryAssumption DEF IInv, TypeOK, Busy, Handled, Origin, Publisher,
         ReceiptAgrees, catalogVars, resultVars,
         gatewayVars, streamVars, handlerVars, ResultKind, Expired
<1>1. ASSUME NEW r \in Request, Authorize(r) PROVE IInv'
  BY <1>1 DEF Authorize, Proceed
<1>2. ASSUME NEW r \in Request, Admit(r) PROVE IInv'
  BY <1>2 DEF Admit, Proceed
<1>3. ASSUME NEW r \in Request, Publish(r) PROVE IInv'
  BY <1>3 DEF Publish, Proceed, Store
<1>4. ASSUME NEW r \in Request, Compensate(r) PROVE IInv'
  BY <1>4 DEF Compensate, Proceed
<1>5. ASSUME NEW r \in Request, AbandonRequest(r) PROVE IInv'
  BY <1>5 DEF AbandonRequest, Proceed
<1>6. ASSUME NEW w \in Worker, NEW c \in Command, Deliver(w, c) PROVE IInv'
  BY <1>6 DEF Deliver
<1>7. ASSUME NEW w \in Worker, TerminateUnbound(w) PROVE IInv'
  BY <1>7 DEF TerminateUnbound, Finish
<1>8. ASSUME NEW w \in Worker, Revalidate(w) PROVE IInv'
  BY <1>8 DEF Revalidate, Goto
<1>9. ASSUME NEW w \in Worker, RecordDenied(w) PROVE IInv'
  BY <1>9 DEF RecordDenied, Goto, Settle
<1>10. ASSUME NEW w \in Worker, Execute(w) PROVE IInv'
  BY <1>10 DEF Execute, Goto, Settle
<1>11. ASSUME NEW w \in Worker, HandlerError(w) PROVE IInv'
  BY <1>11 DEF HandlerError, Goto, Finish
<1>12. ASSUME NEW w \in Worker, PublishDeadLetter(w) PROVE IInv'
  BY <1>12 DEF PublishDeadLetter, Goto
<1>13. ASSUME NEW w \in Worker, RecordFailure(w) PROVE IInv'
  BY <1>13 DEF RecordFailure, Goto, Settle
<1>14. ASSUME NEW w \in Worker, ReleaseAuthorization(w) PROVE IInv'
  BY <1>14 DEF ReleaseAuthorization, Goto
<1>15. ASSUME NEW w \in Worker, Acknowledge(w) PROVE IInv'
  BY <1>15 DEF Acknowledge, Finish
<1>16. ASSUME NEW w \in Worker, HandlerStops(w) PROVE IInv'
  BY <1>16 DEF HandlerStops, Finish
<1>17. ASSUME NEW c \in Command, AckWaitExpires(c) PROVE IInv'
  BY <1>17 DEF AckWaitExpires
<1>18. ASSUME NEW c \in Command, Cleanup(c) PROVE IInv'
  BY <1>18 DEF Cleanup, AuditWindowPassed
<1>19. CASE Prune
  BY <1>19 DEF Prune, Terminal
<1>20. ASSUME NEW compatible \in BOOLEAN, ReadReferences(compatible) PROVE IInv'
  BY <1>20 DEF ReadReferences
<1>21. CASE ReadForRetirement
  BY <1>21 DEF ReadForRetirement
<1>22. CASE CatalogPut
  BY <1>22 DEF CatalogPut, PutDraining, PutRetired
<1>23. CASE AbortTransition
  BY <1>23 DEF AbortTransition
<1>24. ASSUME NEW c \in Command, RelayOutbox(c) PROVE IInv'
  BY <1>24 DEF RelayOutbox
<1>25. CASE UNCHANGED vars
  BY <1>25 DEF vars
<1>. QED
  BY <1>1, <1>2, <1>3, <1>4, <1>5, <1>6, <1>7, <1>8, <1>9, <1>10, <1>11,
     <1>12, <1>13, <1>14, <1>15, <1>16, <1>17, <1>18, <1>19, <1>20, <1>21,
     <1>22, <1>23, <1>24, <1>25
     DEF Next, GatewayStep, HandlerStep

\* No state with a lost acknowledgement: every step keeps the pin of a command
\* in flight.
LEMMA NextPInv ==
    ASSUME "ackLost" \notin Fault
    PROVE  PInv /\ [Next]_vars => PInv'
<1>. SUFFICES ASSUME PInv, [Next]_vars PROVE (Unpublished /\ ReleasedAfterResult /\ Pinned)'
  BY NextIInv DEF PInv
<1>. USE DeliveryAssumption DEF PInv, IInv, TypeOK, Busy, Handled, Origin,
         Publisher, Unpublished, ReleasedAfterResult, Pinned, InFlight,
         Deliverable, catalogVars, resultVars,
         gatewayVars, streamVars, handlerVars, ResultKind, Expired
<1>1. ASSUME NEW r \in Request, Authorize(r) PROVE (Unpublished /\ ReleasedAfterResult /\ Pinned)'
  BY <1>1 DEF Authorize, Proceed
<1>2. ASSUME NEW r \in Request, Admit(r) PROVE (Unpublished /\ ReleasedAfterResult /\ Pinned)'
  BY <1>2 DEF Admit, Proceed
<1>3. ASSUME NEW r \in Request, Publish(r) PROVE (Unpublished /\ ReleasedAfterResult /\ Pinned)'
  BY <1>3 DEF Publish, Proceed, Store
<1>4. ASSUME NEW r \in Request, Compensate(r) PROVE (Unpublished /\ ReleasedAfterResult /\ Pinned)'
  BY <1>4 DEF Compensate, Proceed
<1>5. ASSUME NEW r \in Request, AbandonRequest(r) PROVE (Unpublished /\ ReleasedAfterResult /\ Pinned)'
  BY <1>5 DEF AbandonRequest, Proceed
<1>6. ASSUME NEW w \in Worker, NEW c \in Command, Deliver(w, c) PROVE (Unpublished /\ ReleasedAfterResult /\ Pinned)'
  BY <1>6 DEF Deliver
<1>7. ASSUME NEW w \in Worker, TerminateUnbound(w) PROVE (Unpublished /\ ReleasedAfterResult /\ Pinned)'
  BY <1>7 DEF TerminateUnbound, Finish
<1>8. ASSUME NEW w \in Worker, Revalidate(w) PROVE (Unpublished /\ ReleasedAfterResult /\ Pinned)'
  BY <1>8 DEF Revalidate, Goto
<1>9. ASSUME NEW w \in Worker, RecordDenied(w) PROVE (Unpublished /\ ReleasedAfterResult /\ Pinned)'
  BY <1>9 DEF RecordDenied, Goto, Settle
<1>10. ASSUME NEW w \in Worker, Execute(w) PROVE (Unpublished /\ ReleasedAfterResult /\ Pinned)'
  BY <1>10 DEF Execute, Goto, Settle
<1>11. ASSUME NEW w \in Worker, HandlerError(w) PROVE (Unpublished /\ ReleasedAfterResult /\ Pinned)'
  BY <1>11 DEF HandlerError, Goto, Finish
<1>12. ASSUME NEW w \in Worker, PublishDeadLetter(w) PROVE (Unpublished /\ ReleasedAfterResult /\ Pinned)'
  BY <1>12 DEF PublishDeadLetter, Goto
<1>13. ASSUME NEW w \in Worker, RecordFailure(w) PROVE (Unpublished /\ ReleasedAfterResult /\ Pinned)'
  BY <1>13 DEF RecordFailure, Goto, Settle
<1>14. ASSUME NEW w \in Worker, ReleaseAuthorization(w) PROVE (Unpublished /\ ReleasedAfterResult /\ Pinned)'
  BY <1>14 DEF ReleaseAuthorization, Goto
<1>15. ASSUME NEW w \in Worker, Acknowledge(w) PROVE (Unpublished /\ ReleasedAfterResult /\ Pinned)'
  BY <1>15 DEF Acknowledge, Finish
<1>16. ASSUME NEW w \in Worker, HandlerStops(w) PROVE (Unpublished /\ ReleasedAfterResult /\ Pinned)'
  BY <1>16 DEF HandlerStops, Finish
<1>17. ASSUME NEW c \in Command, AckWaitExpires(c) PROVE (Unpublished /\ ReleasedAfterResult /\ Pinned)'
  BY <1>17 DEF AckWaitExpires
<1>18. ASSUME NEW c \in Command, Cleanup(c) PROVE (Unpublished /\ ReleasedAfterResult /\ Pinned)'
  BY <1>18 DEF Cleanup, AuditWindowPassed
<1>19. CASE Prune
  BY <1>19 DEF Prune, Terminal
<1>20. ASSUME NEW compatible \in BOOLEAN, ReadReferences(compatible) PROVE (Unpublished /\ ReleasedAfterResult /\ Pinned)'
  BY <1>20 DEF ReadReferences
<1>21. CASE ReadForRetirement
  BY <1>21 DEF ReadForRetirement
<1>22. CASE CatalogPut
  BY <1>22 DEF CatalogPut, PutDraining, PutRetired
<1>23. CASE AbortTransition
  BY <1>23 DEF AbortTransition
<1>24. ASSUME NEW c \in Command, RelayOutbox(c) PROVE (Unpublished /\ ReleasedAfterResult /\ Pinned)'
  BY <1>24 DEF RelayOutbox
<1>25. CASE UNCHANGED vars
  BY <1>25 DEF vars
<1>. QED
  BY <1>1, <1>2, <1>3, <1>4, <1>5, <1>6, <1>7, <1>8, <1>9, <1>10, <1>11,
     <1>12, <1>13, <1>14, <1>15, <1>16, <1>17, <1>18, <1>19, <1>20, <1>21,
     <1>22, <1>23, <1>24, <1>25
     DEF Next, GatewayStep, HandlerStep

\* A read of the references that lets a replacement or a retirement go on finds
\* no command in flight: its pin would still be there.
LEMMA NextReferencesCover ==
    ASSUME PInv, [Next]_vars,
           transition' # transition, transition' \in {"replacing", "retiring"}
    PROVE  \A c \in Command : ~InFlight(c)
<1>1. CASE ReadForRetirement
  BY <1>1 DEF ReadForRetirement, PInv, Pinned
<1>2. ASSUME NEW compatible \in BOOLEAN, ReadReferences(compatible)
      PROVE  \A c \in Command : ~InFlight(c)
  BY <1>2 DEF ReadReferences, PInv, Pinned
<1>3. ReadForRetirement \/ \E compatible \in BOOLEAN : ReadReferences(compatible)
  BY DEF Next, GatewayStep, HandlerStep, Authorize, Admit, Publish, Compensate,
     AbandonRequest, Deliver, TerminateUnbound, Revalidate, RecordDenied, Execute,
     HandlerError, PublishDeadLetter, RecordFailure, ReleaseAuthorization,
     Acknowledge, HandlerStops, AckWaitExpires, RelayOutbox, Cleanup, Prune,
     CatalogPut, PutDraining, PutRetired, AbortTransition, catalogVars, vars
<1>. QED
  BY <1>1, <1>2, <1>3

-----------------------------------------------------------------------------
(* Theorems *)

\* In every reachable state of the gateway, the stream, the processors and the
\* authority tables each variable has its type; no message is delivered more
\* than MaxDeliver times.
THEOREM TypeCorrect == Spec => []TypeOK
<1>1. IInv => TypeOK
  BY DEF IInv
<1>. QED
  BY <1>1, InitIInv, NextIInv, PTL DEF Spec

\* persistCommandAdmission and the publication after it keep the receipt in the
\* stream equal to the admitted one, for any number of concurrent submissions
\* and whatever fails in between.
THEOREM ReceiptAgreesHolds == Spec => []ReceiptAgrees
<1>1. IInv => ReceiptAgrees
  BY DEF IInv
<1>. QED
  BY <1>1, InitIInv, NextIInv, PTL DEF Spec

\* When a failed publication means that nothing was stored, no interleaving of
\* submissions, deliveries, crashes, redeliveries, cleanups and catalog
\* transactions lets the read of the references overlook a command that is in
\* flight at that moment.
THEOREM ReferencesCoverHolds ==
    ASSUME "ackLost" \notin Fault
    PROVE  Spec => ReferencesCoverCommands
<1>1. Init => PInv
  BY InitIInv, DeliveryAssumption DEF Init, PInv, Unpublished,
     ReleasedAfterResult, Pinned, InFlight, Deliverable, Handled
<1>2. PInv /\ [Next]_vars => PInv'
  BY NextPInv
<1>3. PInv /\ [Next]_vars =>
        [transition' # transition /\ transition' \in {"replacing", "retiring"}
            => \A c \in Command : ~InFlight(c)]_vars
  BY NextReferencesCover
<1>. QED
  BY <1>1, <1>2, <1>3, PTL DEF Spec, ReferencesCoverCommands

=============================================================================
