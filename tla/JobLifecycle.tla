---------------------------- MODULE JobLifecycle ----------------------------
(***************************************************************************)
(* One reported issue and the work orders made from it: the lifecycle of   *)
(* the maintenance request, its conversion to a work order, the lifecycle  *)
(* of the work order, and the way back when the work order is cancelled or *)
(* rejected.                                                               *)
(*                                                                         *)
(* Every handler reads the row it is about, checks what it read, and       *)
(* writes in a later statement, so a call is a read and one or more steps  *)
(* after it.  Most writes are conditional on the version that was read.    *)
(* Versions only grow, so a version is unchanged exactly when no write     *)
(* that increments it came after the read: the model keeps, instead of the *)
(* numbers, which calls still hold the current version (fresh).  Some      *)
(* writes to a work order neither check nor increment it.                  *)
(***************************************************************************)
EXTENDS FiniteSets

CONSTANTS Calls,       \* API calls; a call that has ended may be made again
          WorkOrders,  \* work orders that can be made
          NoOrder,     \* workOrderId = null
          Moves,       \* what is called: handlers, each with the status to write
          Keys,        \* idempotency keys conversions are sent with
          SendsVersion \* plan, assign and close carry the optional expectedVersion

ASSUME OrderAssumption == NoOrder \notin WorkOrders
ASSUME KeyAssumption == Keys \subseteq {"default", "custom"}

RequestStatus == {"NEW", "UNDER_REVIEW", "NEEDS_INFORMATION", "APPROVED",
                  "CANCELLED", "CLOSED", "CONVERTED_TO_WO"}
WorkOrderStatus == {"OPEN", "PLANNED", "ASSIGNED", "IN_PROGRESS", "ON_HOLD",
                    "TECHNICIAN_COMPLETED", "REWORK_REQUIRED", "VERIFIED",
                    "CLOSED", "COMPLETED", "CANCELLED"}

VARIABLES
  status, targetUnresolved, workOrderId,     \* columns of MaintenanceRequest
  woStatus, approvalStatus, lastIdempotencyKey,         \* columns of WorkOrder
  requesterConfirmationStatus, requesterConfirmationOutcome,
  labour,     \* work orders on which a labour session runs
  exited,     \* history: work orders that were cancelled or rejected
  sentBack,   \* history: sent back for rework and not completed since
  call        \* what each call has read and does next

request == <<status, targetUnresolved, workOrderId>>
confirmation == <<requesterConfirmationStatus, requesterConfirmationOutcome>>
order == <<woStatus, approvalStatus, lastIdempotencyKey, confirmation>>
history == <<exited, sentBack>>
vars == <<request, order, labour, history, call>>

Made == {w \in WorkOrders : woStatus[w] # "none"}

(* The handlers, each with a status it may write.                          *)
RequestMoves ==
  {<<"startReview", "UNDER_REVIEW">>, <<"triage", "UNDER_REVIEW">>,
   <<"triage", "APPROVED">>, <<"approve", "APPROVED">>,
   <<"requestInformation", "NEEDS_INFORMATION">>, <<"respond", "UNDER_REVIEW">>,
   <<"resumeReview", "UNDER_REVIEW">>, <<"reject", "CLOSED">>,
   <<"markDuplicate", "CLOSED">>, <<"cancel", "CANCELLED">>}
ConvertMove == <<"convert", "CONVERTED_TO_WO">>
\* A generic status update may neither verify nor close.
UpdateMoves ==
  {"updateStatus"} \X (WorkOrderStatus \ {"OPEN", "VERIFIED", "CLOSED"})
OrderMoves ==
  UpdateMoves \cup
  {<<"planWork", "PLANNED">>, <<"assign", "ASSIGNED">>, <<"remove", "CANCELLED">>,
   <<"verify", "VERIFIED">>, <<"rejectSupervisor", "REWORK_REQUIRED">>,
   <<"confirm", "VERIFIED">>, <<"confirm", "REWORK_REQUIRED">>,
   <<"close", "CLOSED">>, <<"reopen", "IN_PROGRESS">>,
   <<"submitForApproval", "none">>, <<"approveWorkOrder", "none">>,
   <<"rejectWorkOrder", "CANCELLED">>}
RuleMoves == {"decide"} \X {"APPROVED", "REJECTED", "IN_PROGRESS"}
EditMove == <<"update", "none">>

ASSUME MoveAssumption ==
  Moves \subseteq RequestMoves \cup {ConvertMove} \cup OrderMoves \cup RuleMoves
           \cup {EditMove}

\* The handlers whose write is conditional on the version they read.
Versioned == {"startReview", "triage", "approve", "requestInformation", "respond",
              "resumeReview", "reject", "markDuplicate", "cancel", "planWork",
              "assign", "updateStatus", "verify", "confirm", "close"}

Steps == {"idle", "approval", "labour", "auto", "write", "exit"}
Handlers == {m[1] : m \in RequestMoves \cup {ConvertMove} \cup OrderMoves}
Call == [step: Steps, handler: Handlers \cup {"none"},
         w: WorkOrders \cup {NoOrder},
         to: RequestStatus \cup WorkOrderStatus \cup {"none"},
         key: {"none", "default", "custom"}, fresh: BOOLEAN]
Idle == [step |-> "idle", handler |-> "none", w |-> NoOrder, to |-> "none",
         key |-> "none", fresh |-> FALSE]

REQUEST_TRANSITIONS ==
  [NEW |-> {"UNDER_REVIEW", "CANCELLED", "CLOSED"},
   UNDER_REVIEW |-> {"NEEDS_INFORMATION", "APPROVED", "CLOSED", "CANCELLED"},
   NEEDS_INFORMATION |-> {"UNDER_REVIEW", "CANCELLED", "CLOSED"},
   APPROVED |-> {"CONVERTED_TO_WO", "CANCELLED"},
   CANCELLED |-> {}, CLOSED |-> {}, CONVERTED_TO_WO |-> {"UNDER_REVIEW"}]

\* OVERDUE, which no code writes any more, is left out.
ALLOWED_STATUS_TRANSITIONS ==
  [OPEN |-> {"PLANNED", "CANCELLED"},
   PLANNED |-> {"ASSIGNED", "CANCELLED"},
   ASSIGNED |-> {"IN_PROGRESS", "CANCELLED"},
   IN_PROGRESS |-> {"ON_HOLD", "TECHNICIAN_COMPLETED", "CANCELLED"},
   ON_HOLD |-> {"IN_PROGRESS", "CANCELLED"},
   TECHNICIAN_COMPLETED |-> {"VERIFIED", "REWORK_REQUIRED", "COMPLETED"},
   REWORK_REQUIRED |-> {"IN_PROGRESS", "CANCELLED"},
   VERIFIED |-> {"CLOSED"}, CLOSED |-> {}, COMPLETED |-> {}, CANCELLED |-> {}]

----------------------------------------------------------------------------
Init ==
  /\ status = "NEW" /\ targetUnresolved \in BOOLEAN /\ workOrderId = NoOrder
  /\ woStatus = [w \in WorkOrders |-> "none"]
  /\ approvalStatus = [w \in WorkOrders |-> "PENDING"]
  /\ lastIdempotencyKey = [w \in WorkOrders |-> "none"]
  /\ requesterConfirmationStatus = [w \in WorkOrders |-> "NOT_REQUIRED"]
  /\ requesterConfirmationOutcome = [w \in WorkOrders |-> "none"]
  /\ labour = {} /\ exited = {} /\ sentBack = {}
  /\ call = [c \in Calls |-> Idle]

(* What becomes of the calls.                                              *)
Begin(c, step, move, w, key) ==
  /\ call[c].step = "idle" /\ move \in Moves
  /\ call' = [call EXCEPT ![c] =
       [step |-> step, handler |-> move[1], w |-> w, to |-> move[2],
        key |-> key, fresh |-> move[1] \in Versioned]]

At(c, step, handler) == call[c].step = step /\ call[c].handler = handler
Goto(c, step) == call' = [call EXCEPT ![c].step = step]
ThenExit(c) == [call[c] EXCEPT !.step = "exit", !.key = "none", !.fresh = FALSE]
End(c) == call' = [call EXCEPT ![c] = Idle]

\* The version of row w (NoOrder: the request) is incremented by call c: what
\* the others have read of it is out of date.
Increment(w, c, mine) ==
  call' = [d \in Calls |->
             IF d = c THEN mine
             ELSE [call[d] EXCEPT !.fresh = @ /\ call[d].w # w]]

----------------------------------------------------------------------------
(* The maintenance request.                                                *)

assertValidTransition(from, to) == to \in REQUEST_TRANSITIONS[from]

\* A new request may be accepted or queried from the approval inbox, which
\* reviews it first.
assertReviewThenTransition(to) ==
  assertValidTransition(IF status = "NEW" THEN "UNDER_REVIEW" ELSE status, to)

startReview(to) == status = "NEW"

triage(to) ==
  /\ status \in {"NEW", "UNDER_REVIEW", "APPROVED"}
  /\ to = IF status = "NEW" THEN "UNDER_REVIEW" ELSE status

approve(to) == assertReviewThenTransition(to) /\ ~ targetUnresolved

requestInformation(to) == assertReviewThenTransition(to)

respondToInformationRequest(to) == status = "NEEDS_INFORMATION"

resumeReview(to) == status = "NEEDS_INFORMATION"

reject(to) == assertValidTransition(status, to)

cancel(to) == assertValidTransition(status, to)

markDuplicate(to) == assertValidTransition(status, to)

MayMove(handler, to) ==
  \/ handler = "startReview" /\ startReview(to)
  \/ handler = "triage" /\ triage(to)
  \/ handler = "approve" /\ approve(to)
  \/ handler = "requestInformation" /\ requestInformation(to)
  \/ handler = "respond" /\ respondToInformationRequest(to)
  \/ handler = "resumeReview" /\ resumeReview(to)
  \/ handler = "reject" /\ reject(to)
  \/ handler = "cancel" /\ cancel(to)
  \/ handler = "markDuplicate" /\ markDuplicate(to)

ReadRequest(c, move) ==
  /\ MayMove(move[1], move[2])
  /\ Begin(c, "write", move, NoOrder, "none")
  /\ UNCHANGED <<request, order, labour, history>>

\* Faulty variant: WHERE id alone.
guardedUpdate_Unguarded(c) ==
  /\ call[c].step = "write"
  /\ call[c].w = NoOrder /\ call[c].handler # "convert"
  /\ status' = call[c].to
  /\ targetUnresolved' \in IF call[c].handler = "triage" THEN BOOLEAN
                           ELSE {targetUnresolved}
  /\ Increment(NoOrder, c, Idle)
  /\ UNCHANGED <<workOrderId, order, labour, history>>

guardedUpdate(c) ==
  /\ call[c].step = "write"
  /\ call[c].w = NoOrder /\ call[c].handler # "convert"
  /\ IF call[c].fresh
     THEN /\ status' = call[c].to
          /\ targetUnresolved' \in IF call[c].handler = "triage" THEN BOOLEAN
                                   ELSE {targetUnresolved}
          /\ Increment(NoOrder, c, Idle)
     ELSE End(c) /\ UNCHANGED <<status, targetUnresolved>>
  /\ UNCHANGED <<workOrderId, order, labour, history>>

ReadForConversion(c, key) ==
  /\ status = "APPROVED" /\ workOrderId = NoOrder /\ ~ targetUnresolved
  /\ Begin(c, "write", ConvertMove, NoOrder, key)
  /\ UNCHANGED <<request, order, labour, history>>

\* workOrders.create: a work order with the key is returned instead of a new
\* one.
Create(w, key) ==
  \/ lastIdempotencyKey[w] = key /\ UNCHANGED order
  \/ /\ \A v \in WorkOrders : lastIdempotencyKey[v] # key
     /\ w \notin Made
     /\ woStatus' = [woStatus EXCEPT ![w] = "OPEN"]
     /\ \E a \in {"PENDING", "APPROVED"} :
          approvalStatus' = [approvalStatus EXCEPT ![w] = a]
     /\ lastIdempotencyKey' = [lastIdempotencyKey EXCEPT ![w] = key]
     /\ UNCHANGED confirmation

\* Faulty variant: the claim asks only for workOrderId = null.
convertToWorkOrder_AnyStatus(c, w) ==
  /\ At(c, "write", "convert") /\ workOrderId = NoOrder
  /\ Create(w, call[c].key)
  /\ status' = "CONVERTED_TO_WO" /\ workOrderId' = w
  /\ Increment(NoOrder, c, Idle)
  /\ UNCHANGED <<targetUnresolved, labour, history>>

\* The transaction of convertToWorkOrder: the claim, the work order, the link.
convertToWorkOrder(c, w) ==
  /\ At(c, "write", "convert")
  /\ status = "APPROVED" /\ workOrderId = NoOrder
  /\ Create(w, call[c].key)
  /\ status' = "CONVERTED_TO_WO" /\ workOrderId' = w
  /\ Increment(NoOrder, c, Idle)
  /\ UNCHANGED <<targetUnresolved, labour, history>>

NotClaimed(c) ==
  /\ At(c, "write", "convert")
  /\ ~ (status = "APPROVED" /\ workOrderId = NoOrder)
  /\ End(c)
  /\ UNCHANGED <<request, order, labour, history>>

----------------------------------------------------------------------------
(* The work order.                                                         *)

(* First what each handler asks of the work order it has read.             *)

approvedForExecution(w) == approvalStatus[w] \notin {"PENDING", "REJECTED"}

MayPlan(w) == woStatus[w] \in {"OPEN", "PLANNED"}

MayAssign(w) ==
  approvedForExecution(w) /\ woStatus[w] \in {"OPEN", "PLANNED", "ASSIGNED"}

\* A start is held back later on, after the approval rules were asked.
MayUpdateStatus(w, to) ==
  /\ to \in ALLOWED_STATUS_TRANSITIONS[woStatus[w]]
  /\ to \in {"TECHNICIAN_COMPLETED", "COMPLETED"} => approvedForExecution(w)

MayRemove(w) == woStatus[w] = "OPEN"

MayVerify(w) == woStatus[w] = "TECHNICIAN_COMPLETED"

MayRejectWork(w) == woStatus[w] = "TECHNICIAN_COMPLETED"

MayConfirm(w) ==
  woStatus[w] = "VERIFIED" /\ requesterConfirmationStatus[w] = "PENDING"

MayClose(w) ==
  /\ "CLOSED" \in ALLOWED_STATUS_TRANSITIONS[woStatus[w]]
  /\ requesterConfirmationOutcome[w] # "UNRESOLVED"

MayReopen(w) == woStatus[w] \in {"COMPLETED", "CLOSED", "CANCELLED", "VERIFIED"}

MayApprove(w) ==
  approvalStatus[w] = "PENDING" /\ woStatus[w] \notin {"COMPLETED", "CANCELLED"}

MayReject(w) == approvalStatus[w] = "PENDING" /\ woStatus[w] # "COMPLETED"

MayRun(handler, w, to) ==
  \/ handler = "planWork" /\ MayPlan(w)
  \/ handler = "assign" /\ MayAssign(w)
  \/ handler = "updateStatus" /\ MayUpdateStatus(w, to)
  \/ handler = "remove" /\ MayRemove(w)
  \/ handler = "verify" /\ MayVerify(w)
  \/ handler = "rejectSupervisor" /\ MayRejectWork(w)
  \/ handler = "confirm" /\ MayConfirm(w)
  \/ handler = "close" /\ MayClose(w)
  \/ handler = "reopen" /\ MayReopen(w)
  \/ handler \in {"submitForApproval", "approveWorkOrder"} /\ MayApprove(w)
  \/ handler = "rejectWorkOrder" /\ MayReject(w)

\* A start asks the approval rules, which may hold it back; then it needs the
\* approval that was read.
StartSteps(w) ==
  (IF approvalStatus[w] # "PENDING" THEN {"approval"} ELSE {}) \cup
  (IF approvedForExecution(w) THEN {"labour"} ELSE {})

\* An answer of the reporter that is overdue may be closed first.
CloseSteps(w) ==
  {"write"} \cup
  (IF /\ requesterConfirmationStatus[w] = "PENDING"
      /\ requesterConfirmationOutcome[w] = "none" THEN {"auto"} ELSE {})

\* Stopping closes the labour sessions before the status is written.
FirstSteps(handler, w, to) ==
  IF handler = "updateStatus" /\ to = "IN_PROGRESS" THEN StartSteps(w)
  ELSE IF \/ handler = "rejectWorkOrder"
          \/ handler = "updateStatus" /\ to \in {"ON_HOLD",
               "TECHNICIAN_COMPLETED", "COMPLETED", "CANCELLED"} THEN {"labour"}
  ELSE IF handler = "close" THEN CloseSteps(w)
  ELSE {"write"}

ReadOrder(c, w, move) ==
  /\ w \in Made /\ MayRun(move[1], w, move[2])
  /\ \E step \in FirstSteps(move[1], w, move[2]) :
       Begin(c, step, move, w,
             IF move[1] = "updateStatus" THEN lastIdempotencyKey[w] ELSE "none")
  /\ UNCHANGED <<request, order, labour, history>>

\* remove() of a cancelled work order repeats what follows the cancellation.
ReadCancelled(c, w) ==
  /\ woStatus[w] = "CANCELLED"
  /\ Begin(c, "exit", <<"remove", "CANCELLED">>, w, "none")
  /\ UNCHANGED <<request, order, labour, history>>

closeActiveLabourSessions(c) ==
  /\ call[c].step = "labour" /\ call[c].to # "IN_PROGRESS"
  /\ labour' = labour \ {call[c].w}
  /\ Goto(c, "write")
  /\ UNCHANGED <<request, order, history>>

\* The technician may have a session on one work order only.
startLabourSession(c) ==
  /\ call[c].step = "labour" /\ call[c].to = "IN_PROGRESS"
  /\ IF labour \subseteq {call[c].w}
     THEN labour' = labour \cup {call[c].w} /\ Goto(c, "write")
     ELSE End(c) /\ UNCHANGED labour
  /\ UNCHANGED <<request, order, history>>

\* Faulty variant: a status the work order does not have.
enforceConfigurableApproval_NotRequired(c) ==
  /\ call[c].step = "approval"
  /\ approvalStatus' = [approvalStatus EXCEPT ![call[c].w] = "NOT_REQUIRED"]
  /\ End(c)
  /\ UNCHANGED <<request, woStatus, lastIdempotencyKey, confirmation, labour,
                 history>>

\* An approval rule holds the start back and makes the approval pending.
enforceConfigurableApproval(c) ==
  /\ call[c].step = "approval"
  /\ approvalStatus' = [approvalStatus EXCEPT ![call[c].w] = "PENDING"]
  /\ End(c)
  /\ UNCHANGED <<request, woStatus, lastIdempotencyKey, confirmation, labour,
                 history>>

\* The start fails while its machine is marked: the sessions are closed again.
StartFails(c) ==
  /\ At(c, "write", "updateStatus") /\ call[c].to = "IN_PROGRESS"
  /\ labour' = labour \ {call[c].w}
  /\ End(c)
  /\ UNCHANGED <<request, order, history>>

AutoClose(c) ==
  /\ call[c].step = "auto"
  /\ requesterConfirmationOutcome' =
       [requesterConfirmationOutcome EXCEPT ![call[c].w] = "AUTO_CLOSED"]
  /\ Goto(c, "write")
  /\ UNCHANGED <<request, woStatus, approvalStatus, lastIdempotencyKey,
                 requesterConfirmationStatus, labour, history>>

----------------------------------------------------------------------------
SetStatus(c) == woStatus' = [woStatus EXCEPT ![call[c].w] = call[c].to]
SetApproval(c, a) ==
  approvalStatus' = [approvalStatus EXCEPT ![call[c].w] = a]
SetConfirmation(c, s, o) ==
  /\ requesterConfirmationStatus' =
       [requesterConfirmationStatus EXCEPT ![call[c].w] = s]
  /\ requesterConfirmationOutcome' =
       [requesterConfirmationOutcome EXCEPT ![call[c].w] = o]

\* The two histories follow the status a call writes.
Remember(c) ==
  /\ exited' = exited \cup (IF call[c].to = "CANCELLED" THEN {call[c].w} ELSE {})
  /\ sentBack' =
       IF call[c].to = "REWORK_REQUIRED" THEN sentBack \cup {call[c].w}
       ELSE IF call[c].to = "TECHNICIAN_COMPLETED" THEN sentBack \ {call[c].w}
       ELSE sentBack

\* After a cancellation a call goes on to afterWorkOrderExit.
AfterWrite(c) ==
  IF call[c].to = "CANCELLED" THEN ThenExit(c) ELSE Idle

\* Faulty variant: no version in the WHERE clause.
VersionMatches_Ignored(c) == TRUE

\* WHERE version = expectedVersion, which some handlers may be sent without.
VersionMatches(c) ==
  call[c].fresh \/ (call[c].handler \in {"planWork", "assign", "close"} /\ ~ SendsVersion)

\* The status alone is written, and the version incremented.
WriteStatus(c) ==
  /\ VersionMatches(c)
  /\ SetStatus(c) /\ Remember(c) /\ Increment(call[c].w, c, Idle)
  /\ UNCHANGED <<request, approvalStatus, lastIdempotencyKey, confirmation,
                 labour>>

planWork(c) == At(c, "write", "planWork") /\ WriteStatus(c)

assign(c) == At(c, "write", "assign") /\ WriteStatus(c)

closeWorkOrder(c) == At(c, "write", "close") /\ WriteStatus(c)

\* update() writes other columns and increments the version.
update(w) ==
  /\ w \in Made /\ EditMove \in Moves
  /\ call' = [d \in Calls |-> [call[d] EXCEPT !.fresh = @ /\ call[d].w # w]]
  /\ UNCHANGED <<request, order, labour, history>>

\* The key that was read is written back, unless the call brings its own.
updateStatus(c) ==
  /\ At(c, "write", "updateStatus") /\ VersionMatches(c)
  /\ SetStatus(c) /\ Remember(c) /\ Increment(call[c].w, c, AfterWrite(c))
  /\ \E key \in {call[c].key, "none"} :
       lastIdempotencyKey' = [lastIdempotencyKey EXCEPT ![call[c].w] = key]
  /\ UNCHANGED <<request, approvalStatus, confirmation, labour>>

verifySupervisor(c) ==
  /\ At(c, "write", "verify") /\ VersionMatches(c)
  /\ SetStatus(c) /\ Remember(c) /\ Increment(call[c].w, c, Idle)
  /\ SetConfirmation(c, IF workOrderId = call[c].w THEN "PENDING"
                        ELSE "NOT_REQUIRED", "none")
  /\ UNCHANGED <<request, approvalStatus, lastIdempotencyKey, labour>>

applyRequesterConfirmation(c) ==
  /\ At(c, "write", "confirm") /\ VersionMatches(c)
  /\ woStatus[call[c].w] = "VERIFIED"
  /\ SetStatus(c) /\ Remember(c) /\ Increment(call[c].w, c, Idle)
  /\ SetConfirmation(c, "CONFIRMED",
                     IF call[c].to = "VERIFIED" THEN "RESOLVED" ELSE "UNRESOLVED")
  /\ UNCHANGED <<request, approvalStatus, lastIdempotencyKey, labour>>

\* ConflictException: the write found another version, or for an answer of
\* the reporter another status.
Conflict(c) ==
  /\ call[c].step = "write"
  /\ call[c].handler \in {"planWork", "assign", "close", "updateStatus", "verify",
                          "confirm"}
  /\ \/ ~ VersionMatches(c)
     \/ call[c].handler = "confirm" /\ woStatus[call[c].w] # "VERIFIED"
  /\ End(c)
  /\ UNCHANGED <<request, order, labour, history>>

\* From here on the writes that check neither version nor status.
rejectSupervisor(c) ==
  /\ At(c, "write", "rejectSupervisor")
  /\ SetStatus(c) /\ Remember(c) /\ Increment(call[c].w, c, Idle)
  /\ UNCHANGED <<request, approvalStatus, lastIdempotencyKey, confirmation,
                 labour>>

remove(c) ==
  /\ At(c, "write", "remove")
  /\ SetStatus(c) /\ Remember(c)
  /\ call' = [call EXCEPT ![c] = ThenExit(c)]
  /\ UNCHANGED <<request, approvalStatus, lastIdempotencyKey, confirmation,
                 labour>>

rejectWorkOrder(c) ==
  /\ At(c, "write", "rejectWorkOrder")
  /\ SetStatus(c) /\ SetApproval(c, "REJECTED") /\ Remember(c)
  /\ call' = [call EXCEPT ![c] = ThenExit(c)]
  /\ UNCHANGED <<request, lastIdempotencyKey, confirmation, labour>>

reopenWorkOrder(c) ==
  /\ At(c, "write", "reopen")
  /\ SetStatus(c) /\ End(c)
  /\ UNCHANGED <<request, approvalStatus, lastIdempotencyKey, confirmation,
                 labour, history>>

DecideApproval(c) ==
  /\ call[c].step = "write"
  /\ \/ call[c].handler = "submitForApproval" /\ SetApproval(c, "PENDING")
     \/ call[c].handler = "approveWorkOrder" /\ SetApproval(c, "APPROVED")
  /\ End(c)
  /\ UNCHANGED <<request, woStatus, lastIdempotencyKey, confirmation, labour,
                 history>>

\* decide() of the approvals module, for a rule about this work order, and its
\* side effects: each is one statement.
DecideByRule(w) ==
  /\ w \in Made
  /\ \/ /\ <<"decide", "APPROVED">> \in Moves
        /\ approvalStatus' = [approvalStatus EXCEPT ![w] = "APPROVED"]
        /\ UNCHANGED woStatus
     \/ /\ <<"decide", "REJECTED">> \in Moves /\ approvalStatus[w] = "PENDING"
        /\ approvalStatus' = [approvalStatus EXCEPT ![w] = "REJECTED"]
        /\ UNCHANGED woStatus
     \/ /\ <<"decide", "IN_PROGRESS">> \in Moves
        /\ woStatus[w] \in {"COMPLETED", "CLOSED", "CANCELLED", "VERIFIED"}
        /\ woStatus' = [woStatus EXCEPT ![w] = "IN_PROGRESS"]
        /\ UNCHANGED approvalStatus
  /\ UNCHANGED <<request, lastIdempotencyKey, confirmation, labour, history,
                 call>>

----------------------------------------------------------------------------
\* Faulty variant: any converted request is sent back.
reopenRequestAfterWorkOrderExit_AnyOrder(c) ==
  LET w == call[c].w IN
  /\ call[c].step = "exit"
  /\ IF status = "CONVERTED_TO_WO"
     THEN /\ status' = "UNDER_REVIEW" /\ workOrderId' = NoOrder
          /\ lastIdempotencyKey' =
               [lastIdempotencyKey EXCEPT ![w] = IF @ = "default" THEN "none" ELSE @]
          /\ Increment(NoOrder, c, Idle)
     ELSE End(c) /\ UNCHANGED <<status, workOrderId, lastIdempotencyKey>>
  /\ UNCHANGED <<targetUnresolved, woStatus, approvalStatus, confirmation,
                 labour, history>>

\* The end of afterWorkOrderExit, one transaction: the request that is still
\* converted to this work order goes back to review, and the default key of
\* the conversion is given up.
reopenRequestAfterWorkOrderExit(c) ==
  LET w == call[c].w IN
  /\ call[c].step = "exit"
  /\ IF status = "CONVERTED_TO_WO" /\ workOrderId = w
     THEN /\ status' = "UNDER_REVIEW" /\ workOrderId' = NoOrder
          /\ lastIdempotencyKey' =
               [lastIdempotencyKey EXCEPT ![w] = IF @ = "default" THEN "none" ELSE @]
          /\ Increment(NoOrder, c, Idle)
     ELSE End(c) /\ UNCHANGED <<status, workOrderId, lastIdempotencyKey>>
  /\ UNCHANGED <<targetUnresolved, woStatus, approvalStatus, confirmation,
                 labour, history>>

\* A statement fails, or the process dies, and the rest of the call is lost.
Fail(c) ==
  /\ call[c].step # "idle"
  /\ End(c)
  /\ UNCHANGED <<request, order, labour, history>>

Next ==
  \/ \E c \in Calls :
       \/ \E move \in RequestMoves : ReadRequest(c, move)
       \/ \E key \in Keys : ReadForConversion(c, key)
       \/ \E w \in WorkOrders :
            \/ \E move \in OrderMoves : ReadOrder(c, w, move)
            \/ ReadCancelled(c, w)
            \/ convertToWorkOrder(c, w)
       \/ guardedUpdate(c) \/ NotClaimed(c)
       \/ closeActiveLabourSessions(c) \/ startLabourSession(c)
       \/ enforceConfigurableApproval(c) \/ AutoClose(c)
       \/ StartFails(c) \/ planWork(c) \/ assign(c) \/ closeWorkOrder(c)
       \/ updateStatus(c) \/ verifySupervisor(c)
       \/ applyRequesterConfirmation(c) \/ Conflict(c) \/ rejectSupervisor(c)
       \/ remove(c) \/ rejectWorkOrder(c) \/ reopenWorkOrder(c)
       \/ DecideApproval(c) \/ reopenRequestAfterWorkOrderExit(c) \/ Fail(c)
  \/ \E w \in WorkOrders : update(w) \/ DecideByRule(w)

Spec == Init /\ [][Next]_vars

----------------------------------------------------------------------------
(* Properties.                                                             *)

\* Every variable has its type.
TypeOK ==
  /\ status \in RequestStatus /\ targetUnresolved \in BOOLEAN
  /\ workOrderId \in WorkOrders \cup {NoOrder}
  /\ woStatus \in [WorkOrders -> WorkOrderStatus \cup {"none"}]
  /\ approvalStatus \in [WorkOrders -> {"PENDING", "APPROVED", "REJECTED"}]
  /\ lastIdempotencyKey \in [WorkOrders -> {"none", "default", "custom"}]
  /\ requesterConfirmationStatus \in
       [WorkOrders -> {"NOT_REQUIRED", "PENDING", "CONFIRMED"}]
  /\ requesterConfirmationOutcome \in
       [WorkOrders -> {"none", "RESOLVED", "UNRESOLVED", "AUTO_CLOSED"}]
  /\ labour \subseteq WorkOrders /\ exited \subseteq WorkOrders
  /\ sentBack \subseteq WorkOrders
  /\ call \in [Calls -> Call]

\* A request is linked to a work order exactly while it is converted: no
\* cancel, rejection or review that was under way during the conversion leaves
\* a cancelled or closed request linked to a live work order, and no exit of
\* an earlier work order leaves a converted request without one
\* (maintenance-requests.service.ts guardedUpdate).
ConvertedIffLinked == (status = "CONVERTED_TO_WO") <=> (workOrderId # NoOrder)

\* A request that was cancelled, rejected or closed as a duplicate stays so:
\* no review, approval or conversion that had read it before, and no exit of
\* a work order, takes it up again (guardedUpdate, convertToWorkOrder).
EndedRequestStaysEnded ==
  [][(status \in {"CANCELLED", "CLOSED"}) => status' = status]_vars

\* An issue is worked on once: of the work orders made from it, all but the
\* linked one were cancelled or rejected, however many conversions, exits and
\* repeated exits race (convertToWorkOrder, reopenRequestAfterWorkOrderExit).
OneJobPerIssue == \A w \in Made \ exited : workOrderId = w

\* A job that the supervisor or the reporter sent back for rework is not
\* closed before the rework is completed, whatever verification or closing
\* was under way when it was sent back (closeWorkOrder, verifySupervisor).
ReworkIsDone ==
  \A w \in sentBack : woStatus[w] \notin {"VERIFIED", "CLOSED", "COMPLETED"}
=============================================================================
