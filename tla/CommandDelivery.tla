--------------------------- MODULE CommandDelivery ---------------------------
(***************************************************************************)
(* The way of a protected durable command from the HTTP gateway over the   *)
(* JetStream command stream to its durable result, and the catalog pin     *)
(* that keeps the operation catalog it was admitted under alive meanwhile: *)
(* packages/applik8s/src/command-gateway.ts, packages/runtime-nats/src/    *)
(* command-processor.ts, packages/applik8s/src/postgres-outbox-runtime.ts  *)
(* (cleanup) and packages/operations/src (authority, catalog, postgres).   *)
(*                                                                         *)
(* A command is one command id and durable scope; a client may submit it   *)
(* several times, each submission gets a receipt of its own.  Executing it *)
(* is CommandKernel's subject and one step here.  The catalog is the       *)
(* revision the receipts refer to; its successor reads the pins in one     *)
(* statement and changes the catalog in a later one, under a lock that the *)
(* writers of pins do not take.  Command ids are not used again once the   *)
(* audit window has removed their records.                                 *)
(***************************************************************************)
EXTENDS Naturals

CONSTANTS
    Command,     \* command ids
    Request,     \* submissions, which also name the receipts they obtain
    CommandOf,   \* the command each request submits
    Worker,      \* handlers of command-processor replicas
    None,
    MaxDeliver,  \* max_deliver of the consumer, maxAttempts of the processor
    Fault        \* the faults that happen in this instance

\* ackLost:   the broker stores a message and its acknowledgement is lost
\* gateway:   the gateway dies or loses its database between two steps
\* handler:   a handler ends without ack, nak or term: its process dies or an
\*            error leaves handleJetStreamCommandMessage
\* lastHandler: the same in the last delivery of a message
\* unbound:   a processor replica has no binding for the command's contract
Faults == {"ackLost", "gateway", "handler", "lastHandler", "unbound"}

Expired == "expired"   \* removed after the audit window
ResultKind == {"completed", "rejected", "failed", "denied", Expired}

ASSUME DeliveryAssumption ==
    /\ CommandOf \in [Request -> Command]
    /\ MaxDeliver \in Nat \ {0}
    /\ Fault \subseteq Faults
    /\ None \notin Request \cup Command \cup ResultKind
    /\ Expired \notin Request

VARIABLES
    catalog,    \* state of the catalog revision
    transition, \* where the catalog manager's transition of it is
    pins,       \* applik8s_operation_catalog_references of kind 'envelope'
    admission,  \* applik8s_command_admissions: the receipt of each command
    results,    \* applik8s_command_results
    outbox,     \* the events of each command in applik8s_event_outbox
    request,    \* where each submission is
    message,    \* the command's message in the stream
    receipt,    \* the receipt in that message
    deliveries, \* its delivery count
    step, cmd,  \* where each handler is, and with which command
    number      \* the delivery count its message came with

catalogVars == <<catalog, transition>>
resultVars == <<results, outbox>>
gatewayVars == <<admission, request, receipt>>
streamVars == <<message, deliveries>>
handlerVars == <<step, cmd, number>>
vars == <<catalog, transition, pins, admission, results, outbox, request,
          message, receipt, deliveries, step, cmd, number>>

Init ==
    /\ catalog = "active"
    /\ transition = "none"
    /\ pins = {}
    /\ admission = [c \in Command |-> None]
    /\ results = [c \in Command |-> None]
    /\ outbox = [c \in Command |-> "none"]
    /\ request = [r \in Request |-> "new"]
    /\ message = [c \in Command |-> "none"]
    /\ receipt = [c \in Command |-> None]
    /\ deliveries = [c \in Command |-> 0]
    /\ step = [w \in Worker |-> "idle"]
    /\ cmd = [w \in Worker |-> None]
    /\ number = [w \in Worker |-> 0]

\* applik8s.catalog, the lock of the transaction that reads the pins and puts
\* the catalog.  It is taken to remove a pin, not to write one.
CatalogLocked == transition \in {"activating", "replacing", "retiring"}

-----------------------------------------------------------------------------
(* The gateway *)

Proceed(r, s) == request' = [request EXCEPT ![r] = s]

\* authorizeOperation: the receipt and the pin, in one transaction.  The
\* gateway knows the catalog as it was when it started.
Authorize(r) ==
    /\ request[r] = "new"
    /\ admission[CommandOf[r]] # Expired
    /\ pins' = pins \cup {CommandOf[r]}
    /\ Proceed(r, "authorized")
    /\ UNCHANGED <<catalogVars, admission, resultVars, receipt, streamVars, handlerVars>>

\* Mutant of Admit: the last receipt wins.
AdmitOverwrites(r) ==
    /\ request[r] = "authorized"
    /\ admission' = [admission EXCEPT ![CommandOf[r]] = r]
    /\ Proceed(r, "admitted")
    /\ UNCHANGED <<catalogVars, pins, resultVars, receipt, streamVars, handlerVars>>

\* persistCommandAdmission: the first receipt of a scope stays, another one is
\* refused.  The refusal is thrown before the block that releases the pin.
Admit(r) ==
    /\ request[r] = "authorized"
    /\ \/ /\ admission[CommandOf[r]] = None
          /\ admission' = [admission EXCEPT ![CommandOf[r]] = r]
          /\ Proceed(r, "admitted")
       \/ /\ admission[CommandOf[r]] # None
          /\ UNCHANGED admission
          /\ Proceed(r, "failed")
    /\ UNCHANGED <<catalogVars, pins, resultVars, receipt, streamVars, handlerVars>>

\* The stream keeps one message for each message id.
Store(r) ==
    LET c == CommandOf[r]
    IN  IF message[c] = "none"
        THEN /\ message' = [message EXCEPT ![c] = "ready"]
             /\ receipt' = [receipt EXCEPT ![c] = r]
        ELSE UNCHANGED <<message, receipt>>

Publish(r) ==
    /\ request[r] = "admitted"
    /\ \/ Store(r) /\ Proceed(r, "accepted")
       \/ "ackLost" \in Fault /\ Store(r) /\ Proceed(r, "releasing")
       \/ UNCHANGED <<message, receipt>> /\ Proceed(r, "releasing")
    /\ UNCHANGED <<catalogVars, pins, admission, resultVars, deliveries, handlerVars>>

\* releaseOperation after publish threw.
Compensate(r) ==
    /\ request[r] = "releasing"
    /\ ~CatalogLocked
    /\ pins' = pins \ {CommandOf[r]}
    /\ Proceed(r, "failed")
    /\ UNCHANGED <<catalogVars, admission, resultVars, receipt, streamVars, handlerVars>>

AbandonRequest(r) ==
    /\ "gateway" \in Fault
    /\ request[r] \in {"authorized", "admitted", "releasing"}
    /\ Proceed(r, "failed")
    /\ UNCHANGED <<catalogVars, pins, admission, resultVars, receipt, streamVars, handlerVars>>

-----------------------------------------------------------------------------
(* The command processor *)

Goto(w, s) == step' = [step EXCEPT ![w] = s] /\ UNCHANGED <<cmd, number>>

Finish(w) ==
    /\ step' = [step EXCEPT ![w] = "idle"]
    /\ cmd' = [cmd EXCEPT ![w] = None]
    /\ number' = [number EXCEPT ![w] = 0]

\* Mutant of Deliver: the consumer has no max_deliver.
DeliverUnbounded(w, c) ==
    /\ step[w] = "idle"
    /\ message[c] = "ready"
    /\ message' = [message EXCEPT ![c] = "out"]
    /\ deliveries' = [deliveries EXCEPT ![c] = @ + 1]
    /\ step' = [step EXCEPT ![w] = "revalidate"]
    /\ cmd' = [cmd EXCEPT ![w] = c]
    /\ number' = [number EXCEPT ![w] = deliveries[c] + 1]
    /\ UNCHANGED <<catalogVars, pins, resultVars, gatewayVars>>

Deliver(w, c) ==
    /\ step[w] = "idle"
    /\ message[c] = "ready"
    /\ deliveries[c] < MaxDeliver
    /\ message' = [message EXCEPT ![c] = "out"]
    /\ deliveries' = [deliveries EXCEPT ![c] = @ + 1]
    /\ step' = [step EXCEPT ![w] = "revalidate"]
    /\ cmd' = [cmd EXCEPT ![w] = c]
    /\ number' = [number EXCEPT ![w] = deliveries[c] + 1]
    /\ UNCHANGED <<catalogVars, pins, resultVars, gatewayVars>>

\* ackWait has passed, whether or not a handler is still at work.
AckWaitExpires(c) ==
    /\ message[c] = "out"
    /\ message' = [message EXCEPT ![c] = "ready"]
    /\ UNCHANGED <<catalogVars, pins, resultVars, gatewayVars, deliveries, handlerVars>>

\* An envelope the replica cannot bind is terminated: no result, no release.
TerminateUnbound(w) ==
    /\ "unbound" \in Fault
    /\ step[w] = "revalidate"
    /\ message' = [message EXCEPT ![cmd[w]] = "gone"]
    /\ Finish(w)
    /\ UNCHANGED <<catalogVars, pins, resultVars, gatewayVars, deliveries>>

\* A catalog that is neither active nor draining denies; so may an expired or
\* revoked grant.
Revalidate(w) ==
    /\ step[w] = "revalidate"
    /\ \/ catalog # "retired" /\ Goto(w, "execute")
       \/ Goto(w, "recordDenied")
    /\ UNCHANGED <<catalogVars, pins, resultVars, gatewayVars, streamVars>>

\* A result is written once, with the events of a completed command; a
\* terminal failure leaves an earlier result alone.
Settle(c, kind) ==
    /\ results' = [results EXCEPT ![c] = IF @ = None THEN kind ELSE @]
    /\ outbox' = [outbox EXCEPT ![c] = IF results[c] = None /\ kind = "completed"
                                       THEN "pending" ELSE @]

RecordDenied(w) ==
    /\ step[w] = "recordDenied"
    /\ Settle(cmd[w], "denied")
    /\ Goto(w, "release")
    /\ UNCHANGED <<catalogVars, pins, gatewayVars, streamVars>>

\* executePostgresModelCommand: the command completes, is rejected, or its
\* recorded result is returned or thrown again.  Its pre-commit check takes the
\* catalog's lock.
Execute(w) ==
    /\ step[w] = "execute"
    /\ results[cmd[w]] = None => ~CatalogLocked
    /\ \E kind \in {"completed", "rejected"} :
          /\ Settle(cmd[w], kind)
          /\ Goto(w, IF results'[cmd[w]] = "completed" THEN "release"
                     ELSE "releaseRejected")
    /\ UNCHANGED <<catalogVars, pins, gatewayVars, streamVars>>

\* Mutant of HandlerError: the pin is released however the handler ends.
HandlerErrorReleasing(w) ==
    /\ step[w] \in {"revalidate", "execute", "recordDenied", "release"}
    /\ IF number[w] < MaxDeliver
       THEN /\ message' = [message EXCEPT ![cmd[w]] = IF @ = "out" THEN "ready" ELSE @]
            /\ pins' = pins \ {cmd[w]}
            /\ Finish(w)
       ELSE Goto(w, "deadLetter") /\ UNCHANGED <<message, pins>>
    /\ UNCHANGED <<catalogVars, resultVars, gatewayVars, deliveries>>

\* An error inside the try block: nak, or the dead letter of the last delivery.
HandlerError(w) ==
    /\ step[w] \in {"revalidate", "execute", "recordDenied", "release"}
    /\ IF number[w] < MaxDeliver
       THEN /\ message' = [message EXCEPT ![cmd[w]] = IF @ = "out" THEN "ready" ELSE @]
            /\ Finish(w)
       ELSE Goto(w, "deadLetter") /\ UNCHANGED message
    /\ UNCHANGED <<catalogVars, pins, resultVars, gatewayVars, deliveries>>

PublishDeadLetter(w) ==
    /\ step[w] = "deadLetter"
    /\ Goto(w, "recordFailure")
    /\ UNCHANGED <<catalogVars, pins, resultVars, gatewayVars, streamVars>>

\* Mutant of RecordFailure: the dead letter counts as the result.
RecordFailureNowhere(w) ==
    /\ step[w] = "recordFailure"
    /\ Goto(w, "releaseFailed")
    /\ UNCHANGED <<catalogVars, pins, resultVars, gatewayVars, streamVars>>

RecordFailure(w) ==
    /\ step[w] = "recordFailure"
    /\ Settle(cmd[w], "failed")
    /\ Goto(w, "releaseFailed")
    /\ UNCHANGED <<catalogVars, pins, gatewayVars, streamVars>>

ReleaseAuthorization(w) ==
    /\ step[w] \in {"release", "releaseRejected", "releaseFailed"}
    /\ ~CatalogLocked
    /\ pins' = pins \ {cmd[w]}
    /\ Goto(w, "acknowledge")
    /\ UNCHANGED <<catalogVars, resultVars, gatewayVars, streamVars>>

\* ack or term.
Acknowledge(w) ==
    /\ step[w] = "acknowledge"
    /\ message' = [message EXCEPT ![cmd[w]] = "gone"]
    /\ Finish(w)
    /\ UNCHANGED <<catalogVars, pins, resultVars, gatewayVars, deliveries>>

HandlerStops(w) ==
    /\ step[w] # "idle"
    /\ IF number[w] < MaxDeliver THEN "handler" \in Fault ELSE "lastHandler" \in Fault
    /\ Finish(w)
    /\ UNCHANGED <<catalogVars, pins, resultVars, gatewayVars, streamVars>>

-----------------------------------------------------------------------------
(* The catalog and the retention of command data *)

\* ApplicationOperationAuthorityRuntime.prepare of a successor.  First the pins
\* of commands with a result are pruned, in a statement of its own; several
\* replicas of the successor may do so.
Terminal(c) == admission[c] \in Request /\ results[c] # None

Prune ==
    /\ catalog \in {"active", "draining"}
    /\ pins' = {c \in pins : ~Terminal(c)}
    /\ transition' = IF transition = "none" THEN "pruned" ELSE transition
    /\ UNCHANGED <<catalog, resultVars, gatewayVars, streamVars, handlerVars>>

\* activate, under the catalog's lock: an incompatible successor goes on only
\* when the references it reads are none.  Another replica may have activated
\* it meanwhile.
ReadReferences(compatible) ==
    /\ transition = "pruned"
    /\ transition' = IF catalog # "active" \/ (~compatible /\ pins # {}) THEN "none"
                     ELSE IF compatible THEN "activating" ELSE "replacing"
    /\ UNCHANGED <<catalog, pins, resultVars, gatewayVars, streamVars, handlerVars>>

PutDraining ==
    /\ transition \in {"activating", "replacing"}
    /\ catalog' = "draining"
    /\ transition' = "none"
    /\ UNCHANGED <<pins, resultVars, gatewayVars, streamVars, handlerVars>>

\* retire, under the same lock.
ReadForRetirement ==
    /\ transition = "none"
    /\ catalog = "draining"
    /\ pins = {}
    /\ transition' = "retiring"
    /\ UNCHANGED <<catalog, pins, resultVars, gatewayVars, streamVars, handlerVars>>

PutRetired ==
    /\ transition = "retiring"
    /\ catalog' = "retired"
    /\ transition' = "none"
    /\ UNCHANGED <<pins, resultVars, gatewayVars, streamVars, handlerVars>>

\* The manager's process dies and its transaction with it.
AbortTransition ==
    /\ transition # "none"
    /\ transition' = "none"
    /\ UNCHANGED <<catalog, pins, resultVars, gatewayVars, streamVars, handlerVars>>

\* relayPostgresOutbox, for the event outbox.
RelayOutbox(c) ==
    /\ outbox[c] = "pending"
    /\ outbox' = [outbox EXCEPT ![c] = "published"]
    /\ UNCHANGED <<catalogVars, pins, results, gatewayVars, streamVars, handlerVars>>

Deliverable(c) == message[c] \in {"ready", "out"} /\ deliveries[c] < MaxDeliver
Handled(c) == \E w \in Worker : cmd[w] = c

\* The audit window is longer than a command takes to be submitted, delivered
\* and handled.  A command with an unpublished event keeps its inbox row, and
\* with it its admission.
AuditWindowPassed(c) ==
    /\ admission[c] \in Request
    /\ \A r \in Request : CommandOf[r] = c =>
          request[r] \in {"new", "accepted", "failed"}
    /\ ~Deliverable(c)
    /\ ~Handled(c)
    /\ outbox[c] # "pending"

\* Mutant of Cleanup: the catalog references are left behind.
CleanupKeepingPins(c) ==
    /\ AuditWindowPassed(c)
    /\ admission' = [admission EXCEPT ![c] = Expired]
    /\ results' = [results EXCEPT ![c] = IF @ = None THEN @ ELSE Expired]
    /\ UNCHANGED <<catalogVars, pins, outbox, request, receipt, streamVars, handlerVars>>

\* cleanupPostgresCommandData: the inbox with the result, then the admission
\* with its pin.
Cleanup(c) ==
    /\ AuditWindowPassed(c)
    /\ admission' = [admission EXCEPT ![c] = Expired]
    /\ results' = [results EXCEPT ![c] = IF @ = None THEN @ ELSE Expired]
    /\ pins' = pins \ {c}
    /\ UNCHANGED <<catalogVars, outbox, request, receipt, streamVars, handlerVars>>

-----------------------------------------------------------------------------
GatewayStep(r) == Admit(r) \/ Publish(r) \/ Compensate(r)

HandlerStep(w) ==
    \/ TerminateUnbound(w) \/ Revalidate(w) \/ RecordDenied(w) \/ Execute(w)
    \/ HandlerError(w)
    \/ PublishDeadLetter(w) \/ RecordFailure(w)
    \/ ReleaseAuthorization(w) \/ Acknowledge(w)

CatalogPut == PutDraining \/ PutRetired

Next ==
    \/ \E r \in Request : Authorize(r) \/ GatewayStep(r) \/ AbandonRequest(r)
    \/ \E w \in Worker, c \in Command : Deliver(w, c)
    \/ \E w \in Worker : HandlerStep(w) \/ HandlerStops(w)
    \/ \E c \in Command : AckWaitExpires(c) \/ RelayOutbox(c) \/ Cleanup(c)
    \/ \E compatible \in BOOLEAN : ReadReferences(compatible)
    \/ Prune \/ ReadForRetirement \/ CatalogPut \/ AbortTransition

Spec == Init /\ [][Next]_vars

\* Requests, handlers and open catalog transactions go on, the broker
\* redelivers, the relay and the cleanup job run.  PostgreSQL serves the waiters
\* of a lock in order, so a release is not overtaken for ever by transitions.
Fairness ==
    /\ \A r \in Request : WF_vars(GatewayStep(r)) /\ SF_vars(Compensate(r))
    /\ \A w \in Worker : /\ WF_vars(HandlerStep(w))
                          /\ SF_vars(ReleaseAuthorization(w))
    /\ WF_vars(CatalogPut)
    /\ \A c \in Command : /\ SF_vars(\E w \in Worker : Deliver(w, c))
                          /\ WF_vars(AckWaitExpires(c))
                          /\ WF_vars(RelayOutbox(c))
                          /\ WF_vars(Cleanup(c))

FairSpec == Spec /\ Fairness

-----------------------------------------------------------------------------
(* Properties *)

\* Every variable ranges over the values the tables, the stream and a handler
\* can hold; no message is delivered more than MaxDeliver times.
TypeOK ==
    /\ catalog \in {"active", "draining", "retired"}
    /\ transition \in {"none", "pruned", "activating", "replacing", "retiring"}
    /\ pins \in SUBSET Command
    /\ admission \in [Command -> Request \cup {None, Expired}]
    /\ results \in [Command -> ResultKind \cup {None}]
    /\ outbox \in [Command -> {"none", "pending", "published"}]
    /\ request \in [Request -> {"new", "authorized", "admitted", "releasing",
                                "accepted", "failed"}]
    /\ message \in [Command -> {"none", "ready", "out", "gone"}]
    /\ receipt \in [Command -> Request \cup {None}]
    /\ deliveries \in [Command -> 0..MaxDeliver]
    /\ step \in [Worker -> {"idle", "revalidate", "recordDenied", "execute",
                            "release", "releaseRejected", "deadLetter",
                            "recordFailure", "releaseFailed", "acknowledge"}]
    /\ cmd \in [Worker -> Command \cup {None}]
    /\ number \in [Worker -> 0..MaxDeliver]

\* However often and however concurrently a command is submitted, the message
\* in the stream carries the receipt of the admission row: the kernel, which
\* compares the two, can execute it and a result read finds its receipt.
ReceiptAgrees ==
    \A c \in Command :
        admission[c] # Expired => receipt[c] \in {None, admission[c]}

\* A command that is about to be published or can still be executed, and has no
\* result yet.
InFlight(c) ==
    /\ results[c] = None
    /\ \/ \E r \in Request : CommandOf[r] = c /\ request[r] = "admitted"
       \/ Deliverable(c)
       \/ Handled(c)

\* command-processor.ts: "Releases the catalog pin only after a protected
\* command reaches a durable terminal result".  The read of the references
\* lets an incompatible activation or a retirement go on only when no command
\* admitted under the revision is in flight.  (A command authorized between
\* that read and the put of the catalog is not seen: see the README.)
ReferencesCoverCommands ==
    [][transition' # transition /\ transition' \in {"replacing", "retiring"}
          => \A c \in Command : ~InFlight(c)]_vars

\* model-command-postgres-runtime.ts: the terminal failure is "required to end
\* durable progress polling".  Every published command gets a durable result.
EventuallySettled ==
    \A c \in Command : message[c] = "ready" ~> results[c] # None

\* command-gateway.ts: releaseOperation "Compensates a catalog pin when the
\* admitted envelope was never published".  No pin keeps a catalog for ever.
PinDischarged ==
    \A c \in Command : c \in pins ~> c \notin pins

=============================================================================
