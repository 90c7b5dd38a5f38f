------------------------- MODULE JobLifecycleProofs -------------------------
(***************************************************************************)
(* The safety properties of JobLifecycle for any number of calls and work  *)
(* orders, and any choice of handlers.                                     *)
(***************************************************************************)
EXTENDS JobLifecycle, TLAPS

(* The parts of TypeOK.                                                    *)
RequestType ==
  /\ status \in RequestStatus /\ targetUnresolved \in BOOLEAN
  /\ workOrderId \in WorkOrders \cup {NoOrder}
OrderType ==
  /\ woStatus \in [WorkOrders -> WorkOrderStatus \cup {"none"}]
  /\ approvalStatus \in [WorkOrders -> {"PENDING", "APPROVED", "REJECTED"}]
  /\ lastIdempotencyKey \in [WorkOrders -> {"none", "default", "custom"}]
  /\ requesterConfirmationStatus \in
       [WorkOrders -> {"NOT_REQUIRED", "PENDING", "CONFIRMED"}]
  /\ requesterConfirmationOutcome \in
       [WorkOrders -> {"none", "RESOLVED", "UNRESOLVED", "AUTO_CLOSED"}]
HistoryType ==
  labour \subseteq WorkOrders /\ exited \subseteq WorkOrders /\ sentBack \subseteq WorkOrders
CallType == call \in [Calls -> Call]

Types == RequestType /\ OrderType /\ HistoryType /\ CallType

\* A call about the request is about to write; a call about a work order has
\* found it made.
RequestCall(c) ==
  /\ call[c].step = "write" /\ call[c].w = NoOrder
  /\ <<call[c].handler, call[c].to>> \in RequestMoves \cup {ConvertMove}
  /\ call[c].handler = "convert" => call[c].key \in Keys
OrderCall(c) ==
  /\ call[c].w \in Made
  /\ <<call[c].handler, call[c].to>> \in OrderMoves
CallInv == \A c \in Calls : call[c].step # "idle" => RequestCall(c) \/ OrderCall(c)

\* While a call holds the current version of the request, what it checked when
\* it read the request is still true.
FreshInv ==
  \A c \in Calls : call[c].step = "write" /\ call[c].w = NoOrder /\ call[c].fresh
                     => MayMove(call[c].handler, call[c].to)

\* Only a work order that was made has a key.
KeyInv == \A w \in WorkOrders : lastIdempotencyKey[w] # "none" => w \in Made

\* What is cancelled, or about to be followed up as cancelled, was given up.
CancelInv == \A w \in WorkOrders : woStatus[w] = "CANCELLED" => w \in exited
ExitInv == \A c \in Calls : call[c].step = "exit" => call[c].w \in exited

\* A work order that is sent back has not been completed again, and nobody who
\* would verify, close or complete it holds its current version.
ReworkStatus ==
  \A w \in sentBack :
    woStatus[w] \notin {"TECHNICIAN_COMPLETED", "VERIFIED", "CLOSED", "COMPLETED"}
ReworkCalls ==
  \A c \in Calls :
    call[c].fresh /\ call[c].to \in {"VERIFIED", "CLOSED", "COMPLETED"}
      => call[c].w \notin sentBack

\* The request and its work orders.
LinkInv == FreshInv /\ ConvertedIffLinked
JobInv == KeyInv /\ CancelInv /\ ExitInv /\ OneJobPerIssue
ReworkInv == ReworkStatus /\ ReworkCalls

IInv == Types /\ CallInv /\ LinkInv /\ JobInv

----------------------------------------------------------------------------
(* What the moves of a work order write.                                   *)
LEMMA OrderMoveFacts ==
  ASSUME NEW h, NEW to, <<h, to>> \in OrderMoves
  PROVE  /\ h \in Handlers
         /\ h \notin {"startReview", "triage", "approve", "requestInformation", "respond",
                      "resumeReview", "reject", "markDuplicate", "cancel", "convert"}
         /\ to \in WorkOrderStatus \cup {"none"}
         /\ to = "none" => h \in {"submitForApproval", "approveWorkOrder"}
         /\ h = "updateStatus" => to \notin {"VERIFIED", "CLOSED", "none"}
         /\ h = "planWork" => to = "PLANNED"
         /\ h = "assign" => to = "ASSIGNED"
         /\ h = "close" => to = "CLOSED"
         /\ h = "verify" => to = "VERIFIED"
         /\ h = "confirm" => to \in {"VERIFIED", "REWORK_REQUIRED"}
         /\ h = "rejectSupervisor" => to = "REWORK_REQUIRED"
         /\ h \in {"remove", "rejectWorkOrder"} => to = "CANCELLED"
         /\ h = "reopen" => to = "IN_PROGRESS"
<1>1. h \in Handlers
  <2>1. <<h, to>>[1] \in Handlers
    BY DEF Handlers
  <2> QED BY <2>1
<1>2. \/ h = "updateStatus" /\ to \in WorkOrderStatus \ {"OPEN", "VERIFIED", "CLOSED"}
      \/ h = "planWork" /\ to = "PLANNED"
      \/ h = "assign" /\ to = "ASSIGNED"
      \/ h = "remove" /\ to = "CANCELLED"
      \/ h = "verify" /\ to = "VERIFIED"
      \/ h = "rejectSupervisor" /\ to = "REWORK_REQUIRED"
      \/ h = "confirm" /\ to \in {"VERIFIED", "REWORK_REQUIRED"}
      \/ h = "close" /\ to = "CLOSED"
      \/ h = "reopen" /\ to = "IN_PROGRESS"
      \/ h \in {"submitForApproval", "approveWorkOrder"} /\ to = "none"
      \/ h = "rejectWorkOrder" /\ to = "CANCELLED"
  BY DEF OrderMoves, UpdateMoves
<1> QED BY <1>1, <1>2 DEF WorkOrderStatus

(* What the moves of the request write.                                    *)
LEMMA RequestMoveFacts ==
  ASSUME NEW h, NEW to, <<h, to>> \in RequestMoves \cup {ConvertMove}
  PROVE  /\ h \in Handlers /\ to \in RequestStatus
         /\ h # "convert" => <<h, to>> \in RequestMoves /\ to # "CONVERTED_TO_WO"
         /\ h \in {"reject", "markDuplicate"} => to = "CLOSED"
         /\ h = "cancel" => to = "CANCELLED"
         /\ h = "approve" => to = "APPROVED"
         /\ h = "requestInformation" => to = "NEEDS_INFORMATION"
         /\ h \notin {"planWork", "assign", "close", "updateStatus", "verify", "confirm",
                      "rejectSupervisor", "remove", "rejectWorkOrder", "reopen",
                      "submitForApproval", "approveWorkOrder"}
<1>1. h \in Handlers
  <2>1. <<h, to>>[1] \in Handlers
    BY DEF Handlers
  <2> QED BY <2>1
<1>2. \/ h \in {"startReview", "triage", "respond", "resumeReview"} /\ to = "UNDER_REVIEW"
      \/ h \in {"triage", "approve"} /\ to = "APPROVED"
      \/ h = "requestInformation" /\ to = "NEEDS_INFORMATION"
      \/ h \in {"reject", "markDuplicate"} /\ to = "CLOSED"
      \/ h = "cancel" /\ to = "CANCELLED"
      \/ h = "convert" /\ to = "CONVERTED_TO_WO"
  BY DEF RequestMoves, ConvertMove
<1> QED BY <1>1, <1>2 DEF RequestStatus, ConvertMove

(* No handler takes up a request that is converted or has ended, and none  *)
(* but the conversion writes the converted status.                         *)
LEMMA MovedFrom ==
  ASSUME RequestType, NEW h, NEW to, <<h, to>> \in RequestMoves, MayMove(h, to)
  PROVE  /\ status \notin {"CANCELLED", "CLOSED", "CONVERTED_TO_WO"}
         /\ to # "CONVERTED_TO_WO"
<1>1. \/ h \in {"startReview", "triage", "respond", "resumeReview"} /\ to = "UNDER_REVIEW"
      \/ h \in {"triage", "approve"} /\ to = "APPROVED"
      \/ h = "requestInformation" /\ to = "NEEDS_INFORMATION"
      \/ h \in {"reject", "markDuplicate"} /\ to = "CLOSED"
      \/ h = "cancel" /\ to = "CANCELLED"
  BY DEF RequestMoves
<1> QED BY <1>1 DEF RequestType, RequestStatus, MayMove, startReview, triage, approve,
  requestInformation, respondToInformationRequest, resumeReview, reject, cancel,
  markDuplicate, assertValidTransition, assertReviewThenTransition, REQUEST_TRANSITIONS

(* What becomes of the calls: the one that steps, and the others.          *)
LEMMA IdleType == Idle \in Call
BY DEF Idle, Call, Steps

(* A call that ends is idle, and the others are as they were.              *)
LEMMA EndShape ==
  ASSUME CallType, NEW c \in Calls, End(c)
  PROVE  /\ CallType' /\ call'[c] = Idle
         /\ \A d \in Calls \ {c} : call'[d] = call[d]
BY IdleType DEF CallType, End

(* A call that goes on keeps all but its step.                             *)
LEMMA GotoShape ==
  ASSUME CallType, NEW c \in Calls, NEW step \in Steps, Goto(c, step)
  PROVE  /\ CallType' /\ call'[c].step = step
         /\ call'[c].handler = call[c].handler /\ call'[c].w = call[c].w
         /\ call'[c].to = call[c].to /\ call'[c].key = call[c].key
         /\ call'[c].fresh = call[c].fresh
         /\ \A d \in Calls \ {c} : call'[d] = call[d]
<1>1. call[c] \in Call
  BY DEF CallType
<1>2. [call[c] EXCEPT !.step = step] \in Call
  BY <1>1 DEF Call
<1>3. call' = [call EXCEPT ![c] = [call[c] EXCEPT !.step = step]]
  BY DEF Goto
<1>4. /\ call'[c] = [call[c] EXCEPT !.step = step]
      /\ \A d \in Calls \ {c} : call'[d] = call[d]
  BY <1>3 DEF CallType
<1>5. CallType'
  BY <1>2, <1>3 DEF CallType
<1> QED BY <1>1, <1>4, <1>5 DEF Call

(* A call that begins is what it was begun as.                             *)
LEMMA BeginShape ==
  ASSUME CallType, NEW c \in Calls, NEW step \in Steps,
         NEW move, <<move[1], move[2]>> \in RequestMoves \cup {ConvertMove} \cup OrderMoves,
         NEW w \in WorkOrders \cup {NoOrder}, NEW key \in {"none", "default", "custom"},
         Begin(c, step, move, w, key)
  PROVE  /\ CallType'
         /\ call'[c].step = step /\ call'[c].w = w /\ call'[c].key = key
         /\ call'[c].handler = move[1] /\ call'[c].to = move[2]
         /\ call'[c].fresh => move[1] \in Versioned
         /\ \A d \in Calls \ {c} : call'[d] = call[d]
<1> DEFINE x == [step |-> step, handler |-> move[1], w |-> w, to |-> move[2],
                 key |-> key, fresh |-> move[1] \in Versioned]
<1>1. move[1] \in Handlers /\ move[2] \in RequestStatus \cup WorkOrderStatus \cup {"none"}
  BY OrderMoveFacts, RequestMoveFacts
<1>2. (move[1] \in Versioned) \in BOOLEAN
  OBVIOUS
<1>3. x \in Call
  BY <1>1, <1>2 DEF Call
<1>4. call' = [call EXCEPT ![c] = x]
  BY DEF Begin
<1> HIDE DEF x
<1>5. CallType' /\ call'[c] = x /\ \A d \in Calls \ {c} : call'[d] = call[d]
  BY <1>3, <1>4 DEF CallType
<1>6. /\ x.step = step /\ x.w = w /\ x.key = key
      /\ x.handler = move[1] /\ x.to = move[2]
  BY DEF x
<1>7. x.fresh => move[1] \in Versioned
  BY Zenon DEF x
<1> QED BY <1>5, <1>6, <1>7

(* A call that goes on to follow up a cancellation keeps what it is about. *)
LEMMA ExitShape ==
  ASSUME CallType, NEW c \in Calls
  PROVE  /\ ThenExit(c) \in Call /\ ThenExit(c).step = "exit"
         /\ ThenExit(c).w = call[c].w /\ ThenExit(c).handler = call[c].handler
         /\ ThenExit(c).to = call[c].to /\ ThenExit(c).fresh = FALSE
<1>1. call[c] \in Call
  BY DEF CallType
<1> QED BY <1>1 DEF ThenExit, Call, Steps

(* A call that still has its version had it before.                        *)
LEMMA NoFresher ==
  ASSUME CallType, NEW d \in Calls, NEW w
  PROVE  [call[d] EXCEPT !.fresh = @ /\ call[d].w # w].fresh
           => call[d].fresh /\ call[d].w # w
<1>1. call[d] \in Call
  BY DEF CallType
<1> DEFINE b == call[d].fresh /\ call[d].w # w
<1> HIDE DEF b
<1>2. [call[d] EXCEPT !.fresh = b].fresh = b
  BY <1>1 DEF Call
<1> QED BY <1>2 DEF b

(* A call that may have lost its version is otherwise as it was.           *)
LEMMA LessFresh ==
  ASSUME CallType, NEW d \in Calls, NEW w
  PROVE  /\ [call[d] EXCEPT !.fresh = @ /\ call[d].w # w] \in Call
         /\ [call[d] EXCEPT !.fresh = @ /\ call[d].w # w].step = call[d].step
         /\ [call[d] EXCEPT !.fresh = @ /\ call[d].w # w].handler = call[d].handler
         /\ [call[d] EXCEPT !.fresh = @ /\ call[d].w # w].w = call[d].w
         /\ [call[d] EXCEPT !.fresh = @ /\ call[d].w # w].to = call[d].to
         /\ [call[d] EXCEPT !.fresh = @ /\ call[d].w # w].key = call[d].key
         /\ [call[d] EXCEPT !.fresh = @ /\ call[d].w # w].fresh
              => call[d].fresh /\ call[d].w # w
<1>1. call[d] \in Call
  BY DEF CallType
<1> DEFINE b == call[d].fresh /\ call[d].w # w
<1>2. b \in BOOLEAN
  BY Zenon DEF b
<1> HIDE DEF b
<1>3. /\ [call[d] EXCEPT !.fresh = b] \in Call
      /\ [call[d] EXCEPT !.fresh = b].step = call[d].step
      /\ [call[d] EXCEPT !.fresh = b].handler = call[d].handler
      /\ [call[d] EXCEPT !.fresh = b].w = call[d].w
      /\ [call[d] EXCEPT !.fresh = b].to = call[d].to
      /\ [call[d] EXCEPT !.fresh = b].key = call[d].key
      /\ [call[d] EXCEPT !.fresh = b].fresh = b
  BY <1>1, <1>2 DEF Call
<1> QED BY <1>3 DEF b

(* A call that increments a version outdates what the others read of it.   *)
LEMMA IncrementShape ==
  ASSUME CallType, NEW c \in Calls, NEW w, NEW mine \in Call, Increment(w, c, mine)
  PROVE  /\ CallType' /\ call'[c] = mine
         /\ \A d \in Calls \ {c} :
              /\ call'[d].step = call[d].step /\ call'[d].handler = call[d].handler
              /\ call'[d].w = call[d].w /\ call'[d].to = call[d].to
              /\ call'[d].key = call[d].key
              /\ call'[d].fresh => call[d].fresh /\ call[d].w # w
<1>1. call' = [d \in Calls |-> IF d = c THEN mine
                               ELSE [call[d] EXCEPT !.fresh = @ /\ call[d].w # w]]
  BY DEF Increment
<1>2. call'[c] = mine
  BY <1>1
<1>3. \A d \in Calls \ {c} : call'[d] = [call[d] EXCEPT !.fresh = @ /\ call[d].w # w]
  BY <1>1
<1>4. CallType'
  BY <1>1, LessFresh DEF CallType
<1>5. ASSUME NEW d \in Calls \ {c}
      PROVE  /\ call'[d].step = call[d].step /\ call'[d].handler = call[d].handler
             /\ call'[d].w = call[d].w /\ call'[d].to = call[d].to
             /\ call'[d].key = call[d].key
             /\ call'[d].fresh => call[d].fresh /\ call[d].w # w
  <2>1. d \in Calls /\ call'[d] = [call[d] EXCEPT !.fresh = @ /\ call[d].w # w]
    BY <1>3
  <2>2. /\ call'[d].step = call[d].step /\ call'[d].handler = call[d].handler
        /\ call'[d].w = call[d].w /\ call'[d].to = call[d].to
        /\ call'[d].key = call[d].key
    BY <2>1, LessFresh
  <2>3. call'[d].fresh => call[d].fresh /\ call[d].w # w
    BY <2>1, NoFresher, Zenon
  <2> QED BY <2>2, <2>3
<1> QED BY <1>2, <1>4, <1>5

(* An update() of a work order makes what was read of it out of date.      *)
LEMMA UpdateShape ==
  ASSUME CallType, NEW w \in WorkOrders, update(w)
  PROVE  /\ CallType'
         /\ \A d \in Calls :
              /\ call'[d].step = call[d].step /\ call'[d].handler = call[d].handler
              /\ call'[d].w = call[d].w /\ call'[d].to = call[d].to
              /\ call'[d].key = call[d].key
              /\ call'[d].fresh => call[d].fresh /\ call[d].w # w
<1>1. call' = [d \in Calls |-> [call[d] EXCEPT !.fresh = @ /\ call[d].w # w]]
  BY DEF update
<1>2. CallType'
  BY <1>1, LessFresh DEF CallType
<1>3. ASSUME NEW d \in Calls
      PROVE  /\ call'[d].step = call[d].step /\ call'[d].handler = call[d].handler
             /\ call'[d].w = call[d].w /\ call'[d].to = call[d].to
             /\ call'[d].key = call[d].key
             /\ call'[d].fresh => call[d].fresh /\ call[d].w # w
  <2>1. call'[d] = [call[d] EXCEPT !.fresh = @ /\ call[d].w # w]
    BY <1>1
  <2>2. /\ call'[d].step = call[d].step /\ call'[d].handler = call[d].handler
        /\ call'[d].w = call[d].w /\ call'[d].to = call[d].to
        /\ call'[d].key = call[d].key
    BY <2>1, LessFresh
  <2>3. call'[d].fresh => call[d].fresh /\ call[d].w # w
    BY <2>1, NoFresher, Zenon
  <2> QED BY <2>2, <2>3
<1> QED BY <1>2, <1>3

(* A call that is about to write a work order's status has a status to     *)
(* write, and a work order to write it to.                                 *)
LEMMA WritesStatus ==
  ASSUME CallInv, NEW c \in Calls,
         \E h \in {"planWork", "assign", "close", "updateStatus", "verify", "confirm",
                   "rejectSupervisor", "remove", "rejectWorkOrder", "reopen"} :
           At(c, "write", h)
  PROVE  /\ call[c].to \in WorkOrderStatus /\ OrderCall(c)
         /\ call[c].w \in WorkOrders /\ call[c].w # NoOrder
<1>1. OrderCall(c)
  BY RequestMoveFacts DEF CallInv, RequestCall, At
<1> QED BY <1>1, OrderMoveFacts, OrderAssumption DEF OrderCall, At, Made

(* A call that removes or rejects a work order is about to cancel it.      *)
LEMMA CancelsOrder ==
  ASSUME CallInv, NEW c \in Calls,
         At(c, "write", "remove") \/ At(c, "write", "rejectWorkOrder")
  PROVE  call[c].to = "CANCELLED"
<1>1. OrderCall(c)
  BY WritesStatus
<1>2. <<call[c].handler, call[c].to>> \in OrderMoves
      /\ call[c].handler \in {"remove", "rejectWorkOrder"}
  BY <1>1 DEF OrderCall, At
<1> QED BY <1>2, OrderMoveFacts

(* Every step keeps the types.                                             *)
LEMMA RequestTypes ==
  ASSUME RequestType, CallInv, [Next]_vars
  PROVE  RequestType'
<1> USE DEF request, order, confirmation, history, WriteStatus, RequestType
<1>1. ASSUME NEW c \in Calls, NEW w \in WorkOrders, convertToWorkOrder(c, w)
      PROVE RequestType'
  BY <1>1 DEF convertToWorkOrder, RequestStatus
<1>2. ASSUME NEW c \in Calls, guardedUpdate(c) PROVE RequestType'
  <2>1. call[c].fresh => call[c].to \in RequestStatus
    <3>1. call[c].w \notin Made
      BY <1>2, OrderAssumption DEF guardedUpdate, Made
    <3> QED BY <1>2, <3>1, RequestMoveFacts DEF guardedUpdate, CallInv, RequestCall, OrderCall
  <2> QED BY <1>2, <2>1 DEF guardedUpdate
<1>3. ASSUME NEW c \in Calls, reopenRequestAfterWorkOrderExit(c) PROVE
      RequestType'
  BY <1>3 DEF reopenRequestAfterWorkOrderExit, RequestStatus
<1>4. ASSUME NEW c \in Calls, NEW move \in RequestMoves,
             ReadRequest(c, move)
      PROVE  RequestType'
  BY <1>4 DEF ReadRequest
<1>5. ASSUME NEW c \in Calls, NEW key \in Keys,
             ReadForConversion(c, key)
      PROVE  RequestType'
  BY <1>5 DEF ReadForConversion
<1>6. ASSUME NEW c \in Calls, NEW w \in WorkOrders, NEW move \in OrderMoves,
             ReadOrder(c, w, move)
      PROVE  RequestType'
  BY <1>6 DEF ReadOrder
<1>7. ASSUME NEW c \in Calls, NEW w \in WorkOrders,
             ReadCancelled(c, w)
      PROVE  RequestType'
  BY <1>7 DEF ReadCancelled
<1>8. ASSUME NEW c \in Calls,
             \/ NotClaimed(c) \/ closeActiveLabourSessions(c)
             \/ startLabourSession(c) \/ enforceConfigurableApproval(c)
             \/ AutoClose(c) \/ StartFails(c) \/ planWork(c) \/ assign(c)
             \/ closeWorkOrder(c) \/ updateStatus(c) \/ verifySupervisor(c)
             \/ applyRequesterConfirmation(c) \/ Conflict(c)
             \/ rejectSupervisor(c) \/ remove(c) \/ rejectWorkOrder(c)
             \/ reopenWorkOrder(c) \/ DecideApproval(c) \/ Fail(c)
      PROVE  RequestType'
  BY <1>8 DEF NotClaimed, closeActiveLabourSessions, startLabourSession,
    enforceConfigurableApproval, AutoClose, StartFails, planWork, assign,
    closeWorkOrder, updateStatus, verifySupervisor,
    applyRequesterConfirmation, Conflict, rejectSupervisor, remove,
    rejectWorkOrder, reopenWorkOrder, DecideApproval, Fail
<1>9. ASSUME NEW w \in WorkOrders,
             \/ update(w) \/ DecideByRule(w)
      PROVE  RequestType'
  BY <1>9 DEF update, DecideByRule
<1>10. CASE UNCHANGED vars
  BY <1>10 DEF vars
<1> QED BY <1>1, <1>2, <1>3, <1>4, <1>5, <1>6, <1>7, <1>8, <1>9, <1>10 DEF
  Next

(* The same for the columns of the work orders.                            *)
LEMMA OrderTypes ==
  ASSUME OrderType, CallType, CallInv, [Next]_vars
  PROVE  OrderType'
<1> USE DEF request, order, confirmation, history, WriteStatus, OrderType
<1>1. ASSUME NEW c \in Calls, NEW w \in WorkOrders, convertToWorkOrder(c, w)
      PROVE OrderType'
  <2>1. call[c].key \in {"none", "default", "custom"}
    BY DEF CallType, Call
  <2> QED BY <1>1, <2>1 DEF convertToWorkOrder, Create, WorkOrderStatus
<1>2. ASSUME NEW c \in Calls, enforceConfigurableApproval(c) PROVE OrderType'
  BY <1>2 DEF enforceConfigurableApproval
<1>3. ASSUME NEW c \in Calls, AutoClose(c) PROVE OrderType'
  BY <1>3 DEF AutoClose
<1>4. ASSUME NEW c \in Calls, planWork(c) PROVE OrderType'
  <2>1. call[c].to \in WorkOrderStatus
    BY <1>4, WritesStatus DEF planWork
  <2> QED BY <1>4, <2>1 DEF planWork, SetStatus, SetApproval, SetConfirmation
<1>5. ASSUME NEW c \in Calls, assign(c) PROVE OrderType'
  <2>1. call[c].to \in WorkOrderStatus
    BY <1>5, WritesStatus DEF assign
  <2> QED BY <1>5, <2>1 DEF assign, SetStatus, SetApproval, SetConfirmation
<1>6. ASSUME NEW c \in Calls, closeWorkOrder(c) PROVE OrderType'
  <2>1. call[c].to \in WorkOrderStatus
    BY <1>6, WritesStatus DEF closeWorkOrder
  <2> QED BY <1>6, <2>1 DEF closeWorkOrder, SetStatus, SetApproval, SetConfirmation
<1>7. ASSUME NEW c \in Calls, updateStatus(c) PROVE OrderType'
  <2>1. call[c].to \in WorkOrderStatus /\ call[c].key \in {"none", "default", "custom"}
    BY <1>7, WritesStatus DEF updateStatus, CallType, Call
  <2>2. PICK key \in {"none", "default", "custom"} :
          lastIdempotencyKey' = [lastIdempotencyKey EXCEPT ![call[c].w] = key]
    BY <1>7, <2>1 DEF updateStatus
  <2> QED BY <1>7, <2>1, <2>2 DEF updateStatus, SetStatus
<1>8. ASSUME NEW c \in Calls, verifySupervisor(c) PROVE OrderType'
  <2>1. call[c].to \in WorkOrderStatus
    BY <1>8, WritesStatus DEF verifySupervisor
  <2> QED BY <1>8, <2>1 DEF verifySupervisor, SetStatus, SetApproval, SetConfirmation
<1>9. ASSUME NEW c \in Calls, applyRequesterConfirmation(c) PROVE OrderType'
  <2>1. call[c].to \in WorkOrderStatus
    BY <1>9, WritesStatus DEF applyRequesterConfirmation
  <2> QED BY <1>9, <2>1 DEF applyRequesterConfirmation, SetStatus, SetApproval, SetConfirmation
<1>10. ASSUME NEW c \in Calls, rejectSupervisor(c) PROVE OrderType'
  <2>1. call[c].to \in WorkOrderStatus
    BY <1>10, WritesStatus DEF rejectSupervisor
  <2> QED BY <1>10, <2>1 DEF rejectSupervisor, SetStatus, SetApproval, SetConfirmation
<1>11. ASSUME NEW c \in Calls, remove(c) PROVE OrderType'
  <2>1. call[c].to \in WorkOrderStatus
    BY <1>11, WritesStatus DEF remove
  <2> QED BY <1>11, <2>1 DEF remove, SetStatus, SetApproval, SetConfirmation
<1>12. ASSUME NEW c \in Calls, rejectWorkOrder(c) PROVE OrderType'
  <2>1. call[c].to \in WorkOrderStatus
    BY <1>12, WritesStatus DEF rejectWorkOrder
  <2> QED BY <1>12, <2>1 DEF rejectWorkOrder, SetStatus, SetApproval, SetConfirmation
<1>13. ASSUME NEW c \in Calls, reopenWorkOrder(c) PROVE OrderType'
  <2>1. call[c].to \in WorkOrderStatus
    BY <1>13, WritesStatus DEF reopenWorkOrder
  <2> QED BY <1>13, <2>1 DEF reopenWorkOrder, SetStatus, SetApproval, SetConfirmation
<1>14. ASSUME NEW c \in Calls, DecideApproval(c) PROVE OrderType'
  BY <1>14 DEF DecideApproval, SetApproval
<1>15. ASSUME NEW c \in Calls, reopenRequestAfterWorkOrderExit(c) PROVE
      OrderType'
  BY <1>15 DEF reopenRequestAfterWorkOrderExit
<1>16. ASSUME NEW w \in WorkOrders, DecideByRule(w) PROVE OrderType'
  BY <1>16 DEF DecideByRule, WorkOrderStatus
<1>17. ASSUME NEW c \in Calls, NEW move \in RequestMoves,
             ReadRequest(c, move)
      PROVE  OrderType'
  BY <1>17 DEF ReadRequest
<1>18. ASSUME NEW c \in Calls, NEW key \in Keys,
             ReadForConversion(c, key)
      PROVE  OrderType'
  BY <1>18 DEF ReadForConversion
<1>19. ASSUME NEW c \in Calls, NEW w \in WorkOrders, NEW move \in OrderMoves,
             ReadOrder(c, w, move)
      PROVE  OrderType'
  BY <1>19 DEF ReadOrder
<1>20. ASSUME NEW c \in Calls, NEW w \in WorkOrders,
             ReadCancelled(c, w)
      PROVE  OrderType'
  BY <1>20 DEF ReadCancelled
<1>21. ASSUME NEW c \in Calls,
             \/ guardedUpdate(c) \/ NotClaimed(c)
             \/ closeActiveLabourSessions(c) \/ startLabourSession(c)
             \/ StartFails(c) \/ Conflict(c) \/ Fail(c)
      PROVE  OrderType'
  BY <1>21 DEF guardedUpdate, NotClaimed, closeActiveLabourSessions,
    startLabourSession, StartFails, Conflict, Fail
<1>22. ASSUME NEW w \in WorkOrders, update(w) PROVE OrderType'
  BY <1>22 DEF update
<1>23. CASE UNCHANGED vars
  BY <1>23 DEF vars
<1> QED BY <1>1, <1>2, <1>3, <1>4, <1>5, <1>6, <1>7, <1>8, <1>9, <1>10, <1>11,
  <1>12, <1>13, <1>14, <1>15, <1>16, <1>17, <1>18, <1>19, <1>20, <1>21, <1>22,
  <1>23 DEF Next

(* The same for the labour sessions and the histories.                     *)
LEMMA HistoryTypes ==
  ASSUME OrderType, HistoryType, CallType, CallInv, [Next]_vars
  PROVE  HistoryType'
<1> USE DEF request, order, confirmation, history, WriteStatus, HistoryType
<1>1. ASSUME NEW c \in Calls, startLabourSession(c) PROVE HistoryType'
  <2>1. call[c].w \in WorkOrders
    BY <1>1 DEF startLabourSession, CallInv, RequestCall, OrderCall, Made
  <2> QED BY <1>1, <2>1 DEF startLabourSession
<1>2. ASSUME NEW c \in Calls, planWork(c) PROVE HistoryType'
  <2>1. call[c].w \in WorkOrders
    BY <1>2, WritesStatus DEF planWork
  <2> QED BY <1>2, <2>1 DEF planWork, Remember
<1>3. ASSUME NEW c \in Calls, assign(c) PROVE HistoryType'
  <2>1. call[c].w \in WorkOrders
    BY <1>3, WritesStatus DEF assign
  <2> QED BY <1>3, <2>1 DEF assign, Remember
<1>4. ASSUME NEW c \in Calls, closeWorkOrder(c) PROVE HistoryType'
  <2>1. call[c].w \in WorkOrders
    BY <1>4, WritesStatus DEF closeWorkOrder
  <2> QED BY <1>4, <2>1 DEF closeWorkOrder, Remember
<1>5. ASSUME NEW c \in Calls, updateStatus(c) PROVE HistoryType'
  <2>1. call[c].w \in WorkOrders
    BY <1>5, WritesStatus DEF updateStatus
  <2> QED BY <1>5, <2>1 DEF updateStatus, Remember
<1>6. ASSUME NEW c \in Calls, verifySupervisor(c) PROVE HistoryType'
  <2>1. call[c].w \in WorkOrders
    BY <1>6, WritesStatus DEF verifySupervisor
  <2> QED BY <1>6, <2>1 DEF verifySupervisor, Remember
<1>7. ASSUME NEW c \in Calls, applyRequesterConfirmation(c) PROVE HistoryType'
  <2>1. call[c].w \in WorkOrders
    BY <1>7, WritesStatus DEF applyRequesterConfirmation
  <2> QED BY <1>7, <2>1 DEF applyRequesterConfirmation, Remember
<1>8. ASSUME NEW c \in Calls, rejectSupervisor(c) PROVE HistoryType'
  <2>1. call[c].w \in WorkOrders
    BY <1>8, WritesStatus DEF rejectSupervisor
  <2> QED BY <1>8, <2>1 DEF rejectSupervisor, Remember
<1>9. ASSUME NEW c \in Calls, remove(c) PROVE HistoryType'
  <2>1. call[c].w \in WorkOrders
    BY <1>9, WritesStatus DEF remove
  <2> QED BY <1>9, <2>1 DEF remove, Remember
<1>10. ASSUME NEW c \in Calls, rejectWorkOrder(c) PROVE HistoryType'
  <2>1. call[c].w \in WorkOrders
    BY <1>10, WritesStatus DEF rejectWorkOrder
  <2> QED BY <1>10, <2>1 DEF rejectWorkOrder, Remember
<1>11. ASSUME NEW c \in Calls, NEW move \in RequestMoves,
             ReadRequest(c, move)
      PROVE  HistoryType'
  BY <1>11 DEF ReadRequest
<1>12. ASSUME NEW c \in Calls, NEW key \in Keys,
             ReadForConversion(c, key)
      PROVE  HistoryType'
  BY <1>12 DEF ReadForConversion
<1>13. ASSUME NEW c \in Calls, NEW w \in WorkOrders, NEW move \in OrderMoves,
             ReadOrder(c, w, move)
      PROVE  HistoryType'
  BY <1>13 DEF ReadOrder
<1>14. ASSUME NEW c \in Calls, NEW w \in WorkOrders,
             \/ ReadCancelled(c, w) \/ convertToWorkOrder(c, w)
      PROVE  HistoryType'
  BY <1>14 DEF ReadCancelled, convertToWorkOrder
<1>15. ASSUME NEW c \in Calls,
             \/ guardedUpdate(c) \/ NotClaimed(c)
             \/ closeActiveLabourSessions(c)
             \/ enforceConfigurableApproval(c) \/ AutoClose(c)
             \/ StartFails(c) \/ Conflict(c) \/ reopenWorkOrder(c)
             \/ DecideApproval(c) \/ reopenRequestAfterWorkOrderExit(c)
             \/ Fail(c)
      PROVE  HistoryType'
  BY <1>15 DEF guardedUpdate, NotClaimed, closeActiveLabourSessions,
    enforceConfigurableApproval, AutoClose, StartFails, Conflict,
    reopenWorkOrder, DecideApproval, reopenRequestAfterWorkOrderExit, Fail
<1>16. ASSUME NEW w \in WorkOrders,
             \/ update(w) \/ DecideByRule(w)
      PROVE  HistoryType'
  BY <1>16 DEF update, DecideByRule
<1>17. CASE UNCHANGED vars
  BY <1>17 DEF vars
<1> QED BY <1>1, <1>2, <1>3, <1>4, <1>5, <1>6, <1>7, <1>8, <1>9, <1>10, <1>11,
  <1>12, <1>13, <1>14, <1>15, <1>16, <1>17 DEF Next

(* The same for the calls.                                                 *)
LEMMA CallTypes ==
  ASSUME RequestType, OrderType, CallType, CallInv, [Next]_vars
  PROVE  CallType'
<1> USE DEF request, order, confirmation, history, WriteStatus
<1>1. ASSUME NEW c \in Calls, NEW move \in RequestMoves, ReadRequest(c, move)
      PROVE CallType'
  <2>1. <<move[1], move[2]>> \in RequestMoves /\ "write" \in Steps
    BY DEF RequestMoves, Steps
  <2> QED BY <1>1, <2>1, BeginShape DEF ReadRequest
<1>2. ASSUME NEW c \in Calls, NEW key \in Keys, ReadForConversion(c, key)
      PROVE CallType'
  <2>1. <<ConvertMove[1], ConvertMove[2]>> \in {ConvertMove} /\ "write" \in Steps
    BY DEF ConvertMove, Steps
  <2>2. key \in {"none", "default", "custom"}
    BY KeyAssumption
  <2> QED BY <1>2, <2>1, <2>2, BeginShape DEF ReadForConversion
<1>3. ASSUME NEW c \in Calls, NEW w \in WorkOrders, NEW move \in OrderMoves,
      ReadOrder(c, w, move) PROVE CallType'
  <2>1. PICK step \in FirstSteps(move[1], w, move[2]) :
          Begin(c, step, move, w,
                IF move[1] = "updateStatus" THEN lastIdempotencyKey[w] ELSE "none")
    BY <1>3 DEF ReadOrder
  <2>2. step \in Steps
    BY DEF FirstSteps, StartSteps, CloseSteps, Steps
  <2>3. <<move[1], move[2]>> \in OrderMoves
    BY DEF OrderMoves, UpdateMoves
  <2>4. (IF move[1] = "updateStatus" THEN lastIdempotencyKey[w] ELSE "none")
          \in {"none", "default", "custom"}
    BY DEF OrderType
  <2> QED BY <2>1, <2>2, <2>3, <2>4, BeginShape
<1>4. ASSUME NEW c \in Calls, NEW w \in WorkOrders, ReadCancelled(c, w) PROVE
      CallType'
  <2>1. <<"remove", "CANCELLED">> \in OrderMoves /\ "exit" \in Steps
    BY DEF OrderMoves, Steps
  <2> QED BY <1>4, <2>1, BeginShape DEF ReadCancelled
<1>5. ASSUME NEW c \in Calls, NEW w \in WorkOrders, convertToWorkOrder(c, w)
      PROVE CallType'
  BY <1>5, IdleType, IncrementShape DEF convertToWorkOrder
<1>6. ASSUME NEW c \in Calls, guardedUpdate(c) PROVE CallType'
  BY <1>6, IdleType, IncrementShape, EndShape DEF guardedUpdate
<1>7. ASSUME NEW c \in Calls, NotClaimed(c) PROVE CallType'
  BY <1>7, EndShape DEF NotClaimed
<1>8. ASSUME NEW c \in Calls, closeActiveLabourSessions(c) PROVE CallType'
  BY <1>8, GotoShape DEF closeActiveLabourSessions, Steps
<1>9. ASSUME NEW c \in Calls, startLabourSession(c) PROVE CallType'
  BY <1>9, GotoShape, EndShape DEF startLabourSession, Steps
<1>10. ASSUME NEW c \in Calls, enforceConfigurableApproval(c) PROVE CallType'
  BY <1>10, EndShape DEF enforceConfigurableApproval
<1>11. ASSUME NEW c \in Calls, AutoClose(c) PROVE CallType'
  BY <1>11, GotoShape DEF AutoClose, Steps
<1>12. ASSUME NEW c \in Calls, StartFails(c) PROVE CallType'
  BY <1>12, EndShape DEF StartFails
<1>13. ASSUME NEW c \in Calls, planWork(c) PROVE CallType'
  BY <1>13, IdleType, IncrementShape DEF planWork
<1>14. ASSUME NEW c \in Calls, assign(c) PROVE CallType'
  BY <1>14, IdleType, IncrementShape DEF assign
<1>15. ASSUME NEW c \in Calls, closeWorkOrder(c) PROVE CallType'
  BY <1>15, IdleType, IncrementShape DEF closeWorkOrder
<1>16. ASSUME NEW c \in Calls, updateStatus(c) PROVE CallType'
  <2>1. AfterWrite(c) \in Call
    BY IdleType, ExitShape DEF AfterWrite
  <2> QED BY <1>16, <2>1, IncrementShape DEF updateStatus
<1>17. ASSUME NEW c \in Calls, verifySupervisor(c) PROVE CallType'
  BY <1>17, IdleType, IncrementShape DEF verifySupervisor
<1>18. ASSUME NEW c \in Calls, applyRequesterConfirmation(c) PROVE CallType'
  BY <1>18, IdleType, IncrementShape DEF applyRequesterConfirmation
<1>19. ASSUME NEW c \in Calls, Conflict(c) PROVE CallType'
  BY <1>19, EndShape DEF Conflict
<1>20. ASSUME NEW c \in Calls, rejectSupervisor(c) PROVE CallType'
  BY <1>20, IdleType, IncrementShape DEF rejectSupervisor
<1>21. ASSUME NEW c \in Calls, remove(c) PROVE CallType'
  BY <1>21, ExitShape DEF remove, CallType
<1>22. ASSUME NEW c \in Calls, rejectWorkOrder(c) PROVE CallType'
  BY <1>22, ExitShape DEF rejectWorkOrder, CallType
<1>23. ASSUME NEW c \in Calls, reopenWorkOrder(c) PROVE CallType'
  BY <1>23, EndShape DEF reopenWorkOrder
<1>24. ASSUME NEW c \in Calls, DecideApproval(c) PROVE CallType'
  BY <1>24, EndShape DEF DecideApproval
<1>25. ASSUME NEW c \in Calls, reopenRequestAfterWorkOrderExit(c) PROVE
      CallType'
  BY <1>25, IdleType, IncrementShape, EndShape DEF
    reopenRequestAfterWorkOrderExit
<1>26. ASSUME NEW c \in Calls, Fail(c) PROVE CallType'
  BY <1>26, EndShape DEF Fail
<1>27. ASSUME NEW w \in WorkOrders, update(w) PROVE CallType'
  BY <1>27, UpdateShape DEF update
<1>28. ASSUME NEW w \in WorkOrders, DecideByRule(w) PROVE CallType'
  BY <1>28 DEF DecideByRule, CallType
<1>29. CASE UNCHANGED vars
  BY <1>29 DEF vars, CallType
<1> QED BY <1>1, <1>2, <1>3, <1>4, <1>5, <1>6, <1>7, <1>8, <1>9, <1>10, <1>11,
  <1>12, <1>13, <1>14, <1>15, <1>16, <1>17, <1>18, <1>19, <1>20, <1>21, <1>22,
  <1>23, <1>24, <1>25, <1>26, <1>27, <1>28, <1>29 DEF Next

(* A work order that was made stays made.                                  *)
LEMMA MadeGrows ==
  ASSUME OrderType, CallInv, [Next]_vars
  PROVE  Made \subseteq Made'
<1> USE DEF request, order, confirmation, history, WriteStatus, Made
<1>1. ASSUME NEW c \in Calls, NEW w \in WorkOrders, convertToWorkOrder(c, w)
      PROVE Made \subseteq Made'
  BY <1>1 DEF convertToWorkOrder, Create, OrderType
<1>2. ASSUME NEW c \in Calls, planWork(c) PROVE Made \subseteq Made'
  <2>1. call[c].to # "none"
    BY <1>2, WritesStatus DEF planWork, WorkOrderStatus
  <2> QED BY <1>2, <2>1 DEF planWork, SetStatus, OrderType
<1>3. ASSUME NEW c \in Calls, assign(c) PROVE Made \subseteq Made'
  <2>1. call[c].to # "none"
    BY <1>3, WritesStatus DEF assign, WorkOrderStatus
  <2> QED BY <1>3, <2>1 DEF assign, SetStatus, OrderType
<1>4. ASSUME NEW c \in Calls, closeWorkOrder(c) PROVE Made \subseteq Made'
  <2>1. call[c].to # "none"
    BY <1>4, WritesStatus DEF closeWorkOrder, WorkOrderStatus
  <2> QED BY <1>4, <2>1 DEF closeWorkOrder, SetStatus, OrderType
<1>5. ASSUME NEW c \in Calls, updateStatus(c) PROVE Made \subseteq Made'
  <2>1. call[c].to # "none"
    BY <1>5, WritesStatus DEF updateStatus, WorkOrderStatus
  <2> QED BY <1>5, <2>1 DEF updateStatus, SetStatus, OrderType
<1>6. ASSUME NEW c \in Calls, verifySupervisor(c) PROVE Made \subseteq Made'
  <2>1. call[c].to # "none"
    BY <1>6, WritesStatus DEF verifySupervisor, WorkOrderStatus
  <2> QED BY <1>6, <2>1 DEF verifySupervisor, SetStatus, OrderType
<1>7. ASSUME NEW c \in Calls, applyRequesterConfirmation(c) PROVE Made
      \subseteq Made'
  <2>1. call[c].to # "none"
    BY <1>7, WritesStatus DEF applyRequesterConfirmation, WorkOrderStatus
  <2> QED BY <1>7, <2>1 DEF applyRequesterConfirmation, SetStatus, OrderType
<1>8. ASSUME NEW c \in Calls, rejectSupervisor(c) PROVE Made \subseteq Made'
  <2>1. call[c].to # "none"
    BY <1>8, WritesStatus DEF rejectSupervisor, WorkOrderStatus
  <2> QED BY <1>8, <2>1 DEF rejectSupervisor, SetStatus, OrderType
<1>9. ASSUME NEW c \in Calls, remove(c) PROVE Made \subseteq Made'
  <2>1. call[c].to # "none"
    BY <1>9, WritesStatus DEF remove, WorkOrderStatus
  <2> QED BY <1>9, <2>1 DEF remove, SetStatus, OrderType
<1>10. ASSUME NEW c \in Calls, rejectWorkOrder(c) PROVE Made \subseteq Made'
  <2>1. call[c].to # "none"
    BY <1>10, WritesStatus DEF rejectWorkOrder, WorkOrderStatus
  <2> QED BY <1>10, <2>1 DEF rejectWorkOrder, SetStatus, OrderType
<1>11. ASSUME NEW c \in Calls, reopenWorkOrder(c) PROVE Made \subseteq Made'
  <2>1. call[c].to # "none"
    BY <1>11, WritesStatus DEF reopenWorkOrder, WorkOrderStatus
  <2> QED BY <1>11, <2>1 DEF reopenWorkOrder, SetStatus, OrderType
<1>12. ASSUME NEW w \in WorkOrders, DecideByRule(w) PROVE Made \subseteq Made'
  BY <1>12 DEF DecideByRule, OrderType
<1>13. ASSUME NEW c \in Calls, NEW move \in RequestMoves,
             ReadRequest(c, move)
      PROVE  Made \subseteq Made'
  BY <1>13 DEF ReadRequest
<1>14. ASSUME NEW c \in Calls, NEW key \in Keys,
             ReadForConversion(c, key)
      PROVE  Made \subseteq Made'
  BY <1>14 DEF ReadForConversion
<1>15. ASSUME NEW c \in Calls, NEW w \in WorkOrders, NEW move \in OrderMoves,
             ReadOrder(c, w, move)
      PROVE  Made \subseteq Made'
  BY <1>15 DEF ReadOrder
<1>16. ASSUME NEW c \in Calls, NEW w \in WorkOrders,
             ReadCancelled(c, w)
      PROVE  Made \subseteq Made'
  BY <1>16 DEF ReadCancelled
<1>17. ASSUME NEW c \in Calls,
             \/ guardedUpdate(c) \/ NotClaimed(c)
             \/ closeActiveLabourSessions(c) \/ startLabourSession(c)
             \/ enforceConfigurableApproval(c) \/ AutoClose(c)
             \/ StartFails(c) \/ Conflict(c) \/ DecideApproval(c)
             \/ reopenRequestAfterWorkOrderExit(c) \/ Fail(c)
      PROVE  Made \subseteq Made'
  BY <1>17 DEF guardedUpdate, NotClaimed, closeActiveLabourSessions,
    startLabourSession, enforceConfigurableApproval, AutoClose, StartFails,
    Conflict, DecideApproval, reopenRequestAfterWorkOrderExit, Fail
<1>18. ASSUME NEW w \in WorkOrders, update(w) PROVE Made \subseteq Made'
  BY <1>18 DEF update
<1>19. CASE UNCHANGED vars
  BY <1>19 DEF vars
<1> QED BY <1>1, <1>2, <1>3, <1>4, <1>5, <1>6, <1>7, <1>8, <1>9, <1>10, <1>11,
  <1>12, <1>13, <1>14, <1>15, <1>16, <1>17, <1>18, <1>19 DEF Next

(* A call that goes on is about what it was about before.                  *)
LEMMA CallKept ==
  ASSUME CallInv, Made \subseteq Made', NEW c \in Calls, call[c].step # "idle",
         call'[c].w = call[c].w, call'[c].handler = call[c].handler,
         call'[c].to = call[c].to,
         call[c].w = NoOrder => call'[c].step = call[c].step /\ call'[c].key = call[c].key
  PROVE  RequestCall(c)' \/ OrderCall(c)'
BY DEF CallInv, RequestCall, OrderCall

(* So do the others, when one call steps.                                  *)
LEMMA OthersKept ==
  ASSUME CallInv, Made \subseteq Made', NEW c \in Calls,
         call'[c].step # "idle" => RequestCall(c)' \/ OrderCall(c)',
         \A d \in Calls \ {c} :
           /\ call'[d].step = call[d].step /\ call'[d].handler = call[d].handler
           /\ call'[d].w = call[d].w /\ call'[d].to = call[d].to
           /\ call'[d].key = call[d].key
  PROVE  CallInv'
<1>1. ASSUME NEW d \in Calls \ {c}, call'[d].step # "idle"
      PROVE  RequestCall(d)' \/ OrderCall(d)'
  BY <1>1, CallKept
<1> QED BY <1>1 DEF CallInv

(* Every step keeps what the calls are about.                              *)
LEMMA CallsKept ==
  ASSUME RequestType, OrderType, CallType, CallInv, [Next]_vars
  PROVE  CallInv'
<1> USE DEF request, order, confirmation, history, WriteStatus
<1>1. ASSUME NEW c \in Calls, NEW move \in RequestMoves, ReadRequest(c, move)
      PROVE CallInv'
  <2>1. Made \subseteq Made'
    BY MadeGrows
  <2>2. <<move[1], move[2]>> \in RequestMoves /\ "write" \in Steps /\ move[1] # "convert"
    BY DEF RequestMoves, Steps
  <2>3. Begin(c, "write", move, NoOrder, "none")
    BY <1>1 DEF ReadRequest
  <2>4. /\ call'[c].step = "write" /\ call'[c].w = NoOrder
        /\ call'[c].handler = move[1] /\ call'[c].to = move[2]
        /\ \A d \in Calls \ {c} : call'[d] = call[d]
    BY <2>2, <2>3, BeginShape
  <2>5. RequestCall(c)'
    BY <2>2, <2>4 DEF RequestCall
  <2> QED BY <2>1, <2>4, <2>5, OthersKept
<1>2. ASSUME NEW c \in Calls, NEW key \in Keys, ReadForConversion(c, key)
      PROVE CallInv'
  <2>1. Made \subseteq Made'
    BY MadeGrows
  <2>2. <<ConvertMove[1], ConvertMove[2]>> \in {ConvertMove} /\ "write" \in Steps
    BY DEF ConvertMove, Steps
  <2>3. Begin(c, "write", ConvertMove, NoOrder, key)
    BY <1>2 DEF ReadForConversion
  <2>4. key \in {"none", "default", "custom"}
    BY KeyAssumption
  <2>5. /\ call'[c].step = "write" /\ call'[c].w = NoOrder /\ call'[c].key = key
        /\ call'[c].handler = ConvertMove[1] /\ call'[c].to = ConvertMove[2]
        /\ \A d \in Calls \ {c} : call'[d] = call[d]
    BY <2>2, <2>3, <2>4, BeginShape
  <2>6. RequestCall(c)'
    BY <2>2, <2>5 DEF RequestCall
  <2> QED BY <2>1, <2>5, <2>6, OthersKept
<1>3. ASSUME NEW c \in Calls, NEW w \in WorkOrders, NEW move \in OrderMoves,
      ReadOrder(c, w, move) PROVE CallInv'
  <2>1. Made \subseteq Made'
    BY MadeGrows
  <2>2. PICK step \in Steps :
          Begin(c, step, move, w,
                IF move[1] = "updateStatus" THEN lastIdempotencyKey[w] ELSE "none")
    BY <1>3 DEF ReadOrder, FirstSteps, StartSteps, CloseSteps, Steps
  <2>3. <<move[1], move[2]>> \in OrderMoves
    BY DEF OrderMoves, UpdateMoves
  <2>4. (IF move[1] = "updateStatus" THEN lastIdempotencyKey[w] ELSE "none")
          \in {"none", "default", "custom"}
    BY DEF OrderType
  <2>5. /\ call'[c].w = w /\ call'[c].handler = move[1] /\ call'[c].to = move[2]
        /\ \A d \in Calls \ {c} : call'[d] = call[d]
    BY <2>2, <2>3, <2>4, BeginShape
  <2>6. OrderCall(c)'
    BY <1>3, <2>1, <2>3, <2>5 DEF OrderCall, ReadOrder
  <2> QED BY <2>1, <2>5, <2>6, OthersKept
<1>4. ASSUME NEW c \in Calls, NEW w \in WorkOrders, ReadCancelled(c, w) PROVE
      CallInv'
  <2>1. Made \subseteq Made'
    BY MadeGrows
  <2>2. <<"remove", "CANCELLED">> \in OrderMoves /\ "exit" \in Steps
    BY DEF OrderMoves, Steps
  <2>3. Begin(c, "exit", <<"remove", "CANCELLED">>, w, "none")
    BY <1>4 DEF ReadCancelled
  <2>4. /\ call'[c].w = w /\ call'[c].handler = "remove" /\ call'[c].to = "CANCELLED"
        /\ \A d \in Calls \ {c} : call'[d] = call[d]
    BY <2>2, <2>3, BeginShape
  <2>5. OrderCall(c)'
    BY <1>4, <2>1, <2>2, <2>4 DEF OrderCall, ReadCancelled, Made
  <2> QED BY <2>1, <2>4, <2>5, OthersKept
<1>5. ASSUME NEW c \in Calls, NEW w \in WorkOrders, convertToWorkOrder(c, w)
      PROVE CallInv'
  <2>1. Made \subseteq Made'
    BY MadeGrows
  <2>2. Increment(NoOrder, c, Idle)
    BY <1>5 DEF convertToWorkOrder
  <2> QED BY <2>1, <2>2, IdleType, IncrementShape, OthersKept DEF Idle
<1>6. ASSUME NEW c \in Calls, guardedUpdate(c) PROVE CallInv'
  <2>1. Made \subseteq Made'
    BY MadeGrows
  <2>2. Increment(NoOrder, c, Idle) \/ End(c)
    BY <1>6 DEF guardedUpdate
  <2> QED BY <2>1, <2>2, IdleType, IncrementShape, EndShape, OthersKept DEF Idle
<1>7. ASSUME NEW c \in Calls, NotClaimed(c) PROVE CallInv'
  <2>1. Made \subseteq Made'
    BY MadeGrows
  <2>2. End(c)
    BY <1>7 DEF NotClaimed
  <2> QED BY <2>1, <2>2, EndShape, OthersKept DEF Idle
<1>8. ASSUME NEW c \in Calls, closeActiveLabourSessions(c) PROVE CallInv'
  <2>1. Made \subseteq Made'
    BY MadeGrows
  <2>2. call[c].step # "idle" /\ call[c].w # NoOrder
    BY <1>8, OrderAssumption DEF closeActiveLabourSessions, CallInv, RequestCall, OrderCall, Made
  <2>3. CASE Goto(c, "write")
    <3>1. "write" \in Steps
      BY DEF Steps
    <3>2. RequestCall(c)' \/ OrderCall(c)'
      BY <2>1, <2>2, <2>3, <3>1, GotoShape, CallKept
    <3> QED BY <2>1, <2>3, <3>1, <3>2, GotoShape, OthersKept
  <2> QED BY <1>8, <2>3 DEF closeActiveLabourSessions
<1>9. ASSUME NEW c \in Calls, startLabourSession(c) PROVE CallInv'
  <2>1. Made \subseteq Made'
    BY MadeGrows
  <2>2. call[c].step # "idle" /\ call[c].w # NoOrder
    BY <1>9, OrderAssumption DEF startLabourSession, CallInv, RequestCall, OrderCall, Made
  <2>3. CASE Goto(c, "write")
    <3>1. "write" \in Steps
      BY DEF Steps
    <3>2. RequestCall(c)' \/ OrderCall(c)'
      BY <2>1, <2>2, <2>3, <3>1, GotoShape, CallKept
    <3> QED BY <2>1, <2>3, <3>1, <3>2, GotoShape, OthersKept
  <2>4. CASE End(c)
    BY <2>1, <2>4, EndShape, OthersKept DEF Idle
  <2> QED BY <1>9, <2>3, <2>4 DEF startLabourSession
<1>10. ASSUME NEW c \in Calls, enforceConfigurableApproval(c) PROVE CallInv'
  <2>1. Made \subseteq Made'
    BY MadeGrows
  <2>2. End(c)
    BY <1>10 DEF enforceConfigurableApproval
  <2> QED BY <2>1, <2>2, EndShape, OthersKept DEF Idle
<1>11. ASSUME NEW c \in Calls, AutoClose(c) PROVE CallInv'
  <2>1. Made \subseteq Made'
    BY MadeGrows
  <2>2. call[c].step # "idle" /\ call[c].w # NoOrder
    BY <1>11, OrderAssumption DEF AutoClose, CallInv, RequestCall, OrderCall, Made
  <2>3. CASE Goto(c, "write")
    <3>1. "write" \in Steps
      BY DEF Steps
    <3>2. RequestCall(c)' \/ OrderCall(c)'
      BY <2>1, <2>2, <2>3, <3>1, GotoShape, CallKept
    <3> QED BY <2>1, <2>3, <3>1, <3>2, GotoShape, OthersKept
  <2> QED BY <1>11, <2>3 DEF AutoClose
<1>12. ASSUME NEW c \in Calls, StartFails(c) PROVE CallInv'
  <2>1. Made \subseteq Made'
    BY MadeGrows
  <2>2. End(c)
    BY <1>12 DEF StartFails
  <2> QED BY <2>1, <2>2, EndShape, OthersKept DEF Idle
<1>13. ASSUME NEW c \in Calls, planWork(c) PROVE CallInv'
  <2>1. Made \subseteq Made'
    BY MadeGrows
  <2>2. Increment(call[c].w, c, Idle)
    BY <1>13 DEF planWork
  <2> QED BY <2>1, <2>2, IdleType, IncrementShape, OthersKept DEF Idle
<1>14. ASSUME NEW c \in Calls, assign(c) PROVE CallInv'
  <2>1. Made \subseteq Made'
    BY MadeGrows
  <2>2. Increment(call[c].w, c, Idle)
    BY <1>14 DEF assign
  <2> QED BY <2>1, <2>2, IdleType, IncrementShape, OthersKept DEF Idle
<1>15. ASSUME NEW c \in Calls, closeWorkOrder(c) PROVE CallInv'
  <2>1. Made \subseteq Made'
    BY MadeGrows
  <2>2. Increment(call[c].w, c, Idle)
    BY <1>15 DEF closeWorkOrder
  <2> QED BY <2>1, <2>2, IdleType, IncrementShape, OthersKept DEF Idle
<1>16. ASSUME NEW c \in Calls, updateStatus(c) PROVE CallInv'
  <2>1. Made \subseteq Made'
    BY MadeGrows
  <2>2. Increment(call[c].w, c, AfterWrite(c)) /\ OrderCall(c)
    BY <1>16, WritesStatus DEF updateStatus
  <2>3. AfterWrite(c) \in Call
    BY IdleType, ExitShape DEF AfterWrite
  <2>4. AfterWrite(c).step # "idle" =>
          AfterWrite(c).w = call[c].w /\ AfterWrite(c).handler = call[c].handler
            /\ AfterWrite(c).to = call[c].to
    BY ExitShape DEF AfterWrite, Idle
  <2>5. call'[c].step # "idle" => OrderCall(c)'
    BY <2>1, <2>2, <2>3, <2>4, IncrementShape DEF OrderCall
  <2> QED BY <2>1, <2>2, <2>3, <2>5, IncrementShape, OthersKept
<1>17. ASSUME NEW c \in Calls, verifySupervisor(c) PROVE CallInv'
  <2>1. Made \subseteq Made'
    BY MadeGrows
  <2>2. Increment(call[c].w, c, Idle)
    BY <1>17 DEF verifySupervisor
  <2> QED BY <2>1, <2>2, IdleType, IncrementShape, OthersKept DEF Idle
<1>18. ASSUME NEW c \in Calls, applyRequesterConfirmation(c) PROVE CallInv'
  <2>1. Made \subseteq Made'
    BY MadeGrows
  <2>2. Increment(call[c].w, c, Idle)
    BY <1>18 DEF applyRequesterConfirmation
  <2> QED BY <2>1, <2>2, IdleType, IncrementShape, OthersKept DEF Idle
<1>19. ASSUME NEW c \in Calls, Conflict(c) PROVE CallInv'
  <2>1. Made \subseteq Made'
    BY MadeGrows
  <2>2. End(c)
    BY <1>19 DEF Conflict
  <2> QED BY <2>1, <2>2, EndShape, OthersKept DEF Idle
<1>20. ASSUME NEW c \in Calls, rejectSupervisor(c) PROVE CallInv'
  <2>1. Made \subseteq Made'
    BY MadeGrows
  <2>2. Increment(call[c].w, c, Idle)
    BY <1>20 DEF rejectSupervisor
  <2> QED BY <2>1, <2>2, IdleType, IncrementShape, OthersKept DEF Idle
<1>21. ASSUME NEW c \in Calls, remove(c) PROVE CallInv'
  <2>1. Made \subseteq Made'
    BY MadeGrows
  <2>2. OrderCall(c)
    BY <1>21, WritesStatus DEF remove
  <2>3. call' = [call EXCEPT ![c] = ThenExit(c)]
    BY <1>21 DEF remove
  <2>4. call'[c] = ThenExit(c) /\ \A d \in Calls \ {c} : call'[d] = call[d]
    BY <2>3 DEF CallType
  <2>5. call[c].step # "idle" /\ call[c].w # NoOrder
    BY <1>21, <2>2, OrderAssumption DEF remove, At, OrderCall, Made
  <2>6. OrderCall(c)'
    BY <2>1, <2>2, <2>4, ExitShape DEF OrderCall
  <2> QED BY <2>1, <2>4, <2>6, OthersKept
<1>22. ASSUME NEW c \in Calls, rejectWorkOrder(c) PROVE CallInv'
  <2>1. Made \subseteq Made'
    BY MadeGrows
  <2>2. OrderCall(c)
    BY <1>22, WritesStatus DEF rejectWorkOrder
  <2>3. call' = [call EXCEPT ![c] = ThenExit(c)]
    BY <1>22 DEF rejectWorkOrder
  <2>4. call'[c] = ThenExit(c) /\ \A d \in Calls \ {c} : call'[d] = call[d]
    BY <2>3 DEF CallType
  <2>5. call[c].step # "idle" /\ call[c].w # NoOrder
    BY <1>22, <2>2, OrderAssumption DEF rejectWorkOrder, At, OrderCall, Made
  <2>6. OrderCall(c)'
    BY <2>1, <2>2, <2>4, ExitShape DEF OrderCall
  <2> QED BY <2>1, <2>4, <2>6, OthersKept
<1>23. ASSUME NEW c \in Calls, reopenWorkOrder(c) PROVE CallInv'
  <2>1. Made \subseteq Made'
    BY MadeGrows
  <2>2. End(c)
    BY <1>23 DEF reopenWorkOrder
  <2> QED BY <2>1, <2>2, EndShape, OthersKept DEF Idle
<1>24. ASSUME NEW c \in Calls, DecideApproval(c) PROVE CallInv'
  <2>1. Made \subseteq Made'
    BY MadeGrows
  <2>2. End(c)
    BY <1>24 DEF DecideApproval
  <2> QED BY <2>1, <2>2, EndShape, OthersKept DEF Idle
<1>25. ASSUME NEW c \in Calls, reopenRequestAfterWorkOrderExit(c) PROVE
      CallInv'
  <2>1. Made \subseteq Made'
    BY MadeGrows
  <2>2. Increment(NoOrder, c, Idle) \/ End(c)
    BY <1>25 DEF reopenRequestAfterWorkOrderExit
  <2> QED BY <2>1, <2>2, IdleType, IncrementShape, EndShape, OthersKept DEF Idle
<1>26. ASSUME NEW c \in Calls, Fail(c) PROVE CallInv'
  <2>1. Made \subseteq Made'
    BY MadeGrows
  <2>2. End(c)
    BY <1>26 DEF Fail
  <2> QED BY <2>1, <2>2, EndShape, OthersKept DEF Idle
<1>27. ASSUME NEW w \in WorkOrders, update(w) PROVE CallInv'
  <2>1. Made \subseteq Made'
    BY MadeGrows
  <2>2. ASSUME NEW d \in Calls, call'[d].step # "idle" PROVE RequestCall(d)' \/ OrderCall(d)'
    BY <1>27, <2>1, <2>2, UpdateShape, CallKept
  <2> QED BY <2>2 DEF CallInv
<1>28. ASSUME NEW w \in WorkOrders, DecideByRule(w) PROVE CallInv'
  <2>1. Made \subseteq Made'
    BY MadeGrows
  <2>2. call' = call
    BY <1>28 DEF DecideByRule
  <2> QED BY <2>1, <2>2 DEF CallInv, RequestCall, OrderCall
<1>29. CASE UNCHANGED vars
  BY <1>29 DEF vars, CallInv, RequestCall, OrderCall, Made
<1> QED BY <1>1, <1>2, <1>3, <1>4, <1>5, <1>6, <1>7, <1>8, <1>9, <1>10, <1>11,
  <1>12, <1>13, <1>14, <1>15, <1>16, <1>17, <1>18, <1>19, <1>20, <1>21, <1>22,
  <1>23, <1>24, <1>25, <1>26, <1>27, <1>28, <1>29 DEF Next

(* A call that keeps, or gets, the current version of the request has      *)
(* checked it, as long as the request is as it was.                        *)
LEMMA FreshKept ==
  ASSUME FreshInv, UNCHANGED <<status, targetUnresolved>>,
         \A d \in Calls :
           call'[d].step = "write" /\ call'[d].w = NoOrder /\ call'[d].fresh =>
             \/ /\ call[d].step = "write" /\ call[d].w = NoOrder /\ call[d].fresh
                /\ call'[d].handler = call[d].handler /\ call'[d].to = call[d].to
             \/ MayMove(call'[d].handler, call'[d].to)
  PROVE  FreshInv'
<1>1. ASSUME NEW d \in Calls,
             call'[d].step = "write" /\ call'[d].w = NoOrder /\ call'[d].fresh
      PROVE  MayMove(call'[d].handler, call'[d].to)
  BY <1>1 DEF FreshInv
<1>2. ASSUME NEW d \in Calls, MayMove(call'[d].handler, call'[d].to)
      PROVE  MayMove(call[d].handler, call[d].to)'
  BY <1>2 DEF MayMove, startReview, triage, approve, requestInformation,
    respondToInformationRequest, resumeReview, reject, cancel, markDuplicate,
    assertValidTransition, assertReviewThenTransition
<1> QED BY <1>1, <1>2 DEF FreshInv

(* Every step keeps what the calls about the request have checked.         *)
LEMMA FreshInvKept ==
  ASSUME OrderType, CallType, CallInv, FreshInv, [Next]_vars
  PROVE  FreshInv'
<1> USE DEF request, order, confirmation, history, WriteStatus
<1>1. ASSUME NEW c \in Calls, NEW move \in RequestMoves, ReadRequest(c, move)
      PROVE FreshInv'
  <2>1. <<move[1], move[2]>> \in RequestMoves /\ "write" \in Steps
    BY DEF RequestMoves, Steps
  <2>2. MayMove(move[1], move[2]) /\ UNCHANGED request /\ Begin(c, "write", move, NoOrder, "none")
    BY <1>1 DEF ReadRequest
  <2> QED BY <2>1, <2>2, BeginShape, FreshKept
<1>2. ASSUME NEW c \in Calls, NEW key \in Keys, ReadForConversion(c, key)
      PROVE FreshInv'
  <2>1. <<ConvertMove[1], ConvertMove[2]>> \in {ConvertMove} /\ "write" \in Steps
    BY DEF ConvertMove, Steps
  <2>2. key \in {"none", "default", "custom"} /\ ConvertMove[1] \notin Versioned
    BY KeyAssumption DEF ConvertMove, Versioned
  <2>3. UNCHANGED request /\ Begin(c, "write", ConvertMove, NoOrder, key)
    BY <1>2 DEF ReadForConversion
  <2> QED BY <2>1, <2>2, <2>3, BeginShape, FreshKept
<1>3. ASSUME NEW c \in Calls, NEW w \in WorkOrders, NEW move \in OrderMoves,
      ReadOrder(c, w, move) PROVE FreshInv'
  <2>1. PICK step \in Steps :
          Begin(c, step, move, w,
                IF move[1] = "updateStatus" THEN lastIdempotencyKey[w] ELSE "none")
    BY <1>3 DEF ReadOrder, FirstSteps, StartSteps, CloseSteps, Steps
  <2>2. <<move[1], move[2]>> \in OrderMoves
    BY DEF OrderMoves, UpdateMoves
  <2>3. (IF move[1] = "updateStatus" THEN lastIdempotencyKey[w] ELSE "none")
          \in {"none", "default", "custom"}
    BY DEF OrderType
  <2>4. call'[c].w = w /\ \A d \in Calls \ {c} : call'[d] = call[d]
    BY <2>1, <2>2, <2>3, BeginShape
  <2> QED BY <1>3, <2>4, OrderAssumption, FreshKept DEF ReadOrder
<1>4. ASSUME NEW c \in Calls, NEW w \in WorkOrders, ReadCancelled(c, w) PROVE
      FreshInv'
  <2>1. <<"remove", "CANCELLED">> \in OrderMoves /\ "exit" \in Steps
    BY DEF OrderMoves, Steps
  <2>2. Begin(c, "exit", <<"remove", "CANCELLED">>, w, "none") /\ UNCHANGED request
    BY <1>4 DEF ReadCancelled
  <2>3. call'[c].w = w /\ \A d \in Calls \ {c} : call'[d] = call[d]
    BY <2>1, <2>2, BeginShape
  <2> QED BY <2>2, <2>3, OrderAssumption, FreshKept
<1>5. ASSUME NEW c \in Calls, NEW w \in WorkOrders, convertToWorkOrder(c, w)
      PROVE FreshInv'
  <2>1. Increment(NoOrder, c, Idle)
    BY <1>5 DEF convertToWorkOrder
  <2> QED BY <2>1, IdleType, IncrementShape DEF FreshInv, Idle
<1>6. ASSUME NEW c \in Calls, guardedUpdate(c) PROVE FreshInv'
  <2>1. CASE Increment(NoOrder, c, Idle)
    BY <2>1, IdleType, IncrementShape DEF FreshInv, Idle
  <2>2. CASE End(c) /\ UNCHANGED <<status, targetUnresolved>>
    BY <2>2, EndShape, FreshKept DEF Idle
  <2> QED BY <1>6, <2>1, <2>2 DEF guardedUpdate
<1>7. ASSUME NEW c \in Calls, NotClaimed(c) PROVE FreshInv'
  <2>1. End(c) /\ UNCHANGED request
    BY <1>7 DEF NotClaimed
  <2> QED BY <2>1, EndShape, FreshKept DEF Idle
<1>8. ASSUME NEW c \in Calls, closeActiveLabourSessions(c) PROVE FreshInv'
  <2>1. call[c].w # NoOrder
    BY <1>8, OrderAssumption DEF closeActiveLabourSessions, CallInv, RequestCall, OrderCall, Made
  <2>2. "write" \in Steps
    BY DEF Steps
  <2>3. CASE Goto(c, "write")
    BY <1>8, <2>1, <2>2, <2>3, GotoShape, FreshKept DEF closeActiveLabourSessions
  <2> QED BY <1>8, <2>3 DEF closeActiveLabourSessions
<1>9. ASSUME NEW c \in Calls, startLabourSession(c) PROVE FreshInv'
  <2>1. call[c].w # NoOrder
    BY <1>9, OrderAssumption DEF startLabourSession, CallInv, RequestCall, OrderCall, Made
  <2>2. "write" \in Steps
    BY DEF Steps
  <2>3. CASE Goto(c, "write")
    BY <1>9, <2>1, <2>2, <2>3, GotoShape, FreshKept DEF startLabourSession
  <2>4. CASE End(c)
    BY <1>9, <2>4, EndShape, FreshKept DEF startLabourSession, Idle
  <2> QED BY <1>9, <2>3, <2>4 DEF startLabourSession
<1>10. ASSUME NEW c \in Calls, enforceConfigurableApproval(c) PROVE FreshInv'
  <2>1. End(c) /\ UNCHANGED request
    BY <1>10 DEF enforceConfigurableApproval
  <2> QED BY <2>1, EndShape, FreshKept DEF Idle
<1>11. ASSUME NEW c \in Calls, AutoClose(c) PROVE FreshInv'
  <2>1. call[c].w # NoOrder
    BY <1>11, OrderAssumption DEF AutoClose, CallInv, RequestCall, OrderCall, Made
  <2>2. "write" \in Steps
    BY DEF Steps
  <2>3. CASE Goto(c, "write")
    BY <1>11, <2>1, <2>2, <2>3, GotoShape, FreshKept DEF AutoClose
  <2> QED BY <1>11, <2>3 DEF AutoClose
<1>12. ASSUME NEW c \in Calls, StartFails(c) PROVE FreshInv'
  <2>1. End(c) /\ UNCHANGED request
    BY <1>12 DEF StartFails
  <2> QED BY <2>1, EndShape, FreshKept DEF Idle
<1>13. ASSUME NEW c \in Calls, planWork(c) PROVE FreshInv'
  <2>1. Increment(call[c].w, c, Idle) /\ UNCHANGED request
    BY <1>13 DEF planWork
  <2> QED BY <2>1, IdleType, IncrementShape, FreshKept DEF Idle
<1>14. ASSUME NEW c \in Calls, assign(c) PROVE FreshInv'
  <2>1. Increment(call[c].w, c, Idle) /\ UNCHANGED request
    BY <1>14 DEF assign
  <2> QED BY <2>1, IdleType, IncrementShape, FreshKept DEF Idle
<1>15. ASSUME NEW c \in Calls, closeWorkOrder(c) PROVE FreshInv'
  <2>1. Increment(call[c].w, c, Idle) /\ UNCHANGED request
    BY <1>15 DEF closeWorkOrder
  <2> QED BY <2>1, IdleType, IncrementShape, FreshKept DEF Idle
<1>16. ASSUME NEW c \in Calls, updateStatus(c) PROVE FreshInv'
  <2>1. Increment(call[c].w, c, AfterWrite(c)) /\ UNCHANGED request
    BY <1>16 DEF updateStatus
  <2>2. AfterWrite(c) \in Call /\ ~ AfterWrite(c).fresh
    BY IdleType, ExitShape DEF AfterWrite, Idle
  <2> QED BY <2>1, <2>2, IncrementShape, FreshKept
<1>17. ASSUME NEW c \in Calls, verifySupervisor(c) PROVE FreshInv'
  <2>1. Increment(call[c].w, c, Idle) /\ UNCHANGED request
    BY <1>17 DEF verifySupervisor
  <2> QED BY <2>1, IdleType, IncrementShape, FreshKept DEF Idle
<1>18. ASSUME NEW c \in Calls, applyRequesterConfirmation(c) PROVE FreshInv'
  <2>1. Increment(call[c].w, c, Idle) /\ UNCHANGED request
    BY <1>18 DEF applyRequesterConfirmation
  <2> QED BY <2>1, IdleType, IncrementShape, FreshKept DEF Idle
<1>19. ASSUME NEW c \in Calls, Conflict(c) PROVE FreshInv'
  <2>1. End(c) /\ UNCHANGED request
    BY <1>19 DEF Conflict
  <2> QED BY <2>1, EndShape, FreshKept DEF Idle
<1>20. ASSUME NEW c \in Calls, rejectSupervisor(c) PROVE FreshInv'
  <2>1. Increment(call[c].w, c, Idle) /\ UNCHANGED request
    BY <1>20 DEF rejectSupervisor
  <2> QED BY <2>1, IdleType, IncrementShape, FreshKept DEF Idle
<1>21. ASSUME NEW c \in Calls, remove(c) PROVE FreshInv'
  <2>1. call' = [call EXCEPT ![c] = ThenExit(c)] /\ UNCHANGED request
    BY <1>21 DEF remove
  <2>2. call'[c] = ThenExit(c) /\ \A d \in Calls \ {c} : call'[d] = call[d]
    BY <2>1 DEF CallType
  <2> QED BY <2>1, <2>2, ExitShape, FreshKept
<1>22. ASSUME NEW c \in Calls, rejectWorkOrder(c) PROVE FreshInv'
  <2>1. call' = [call EXCEPT ![c] = ThenExit(c)] /\ UNCHANGED request
    BY <1>22 DEF rejectWorkOrder
  <2>2. call'[c] = ThenExit(c) /\ \A d \in Calls \ {c} : call'[d] = call[d]
    BY <2>1 DEF CallType
  <2> QED BY <2>1, <2>2, ExitShape, FreshKept
<1>23. ASSUME NEW c \in Calls, reopenWorkOrder(c) PROVE FreshInv'
  <2>1. End(c) /\ UNCHANGED request
    BY <1>23 DEF reopenWorkOrder
  <2> QED BY <2>1, EndShape, FreshKept DEF Idle
<1>24. ASSUME NEW c \in Calls, DecideApproval(c) PROVE FreshInv'
  <2>1. End(c) /\ UNCHANGED request
    BY <1>24 DEF DecideApproval
  <2> QED BY <2>1, EndShape, FreshKept DEF Idle
<1>25. ASSUME NEW c \in Calls, reopenRequestAfterWorkOrderExit(c) PROVE
      FreshInv'
  <2>1. CASE Increment(NoOrder, c, Idle)
    BY <2>1, IdleType, IncrementShape DEF FreshInv, Idle
  <2>2. CASE End(c) /\ UNCHANGED <<status, targetUnresolved>>
    BY <2>2, EndShape, FreshKept DEF Idle
  <2> QED BY <1>25, <2>1, <2>2 DEF reopenRequestAfterWorkOrderExit
<1>26. ASSUME NEW c \in Calls, Fail(c) PROVE FreshInv'
  <2>1. End(c) /\ UNCHANGED request
    BY <1>26 DEF Fail
  <2> QED BY <2>1, EndShape, FreshKept DEF Idle
<1>27. ASSUME NEW w \in WorkOrders, update(w) PROVE FreshInv'
  <2>1. UNCHANGED request
    BY <1>27 DEF update
  <2> QED BY <1>27, <2>1, UpdateShape, FreshKept
<1>28. ASSUME NEW w \in WorkOrders, DecideByRule(w) PROVE FreshInv'
  <2>1. UNCHANGED <<request, call>>
    BY <1>28 DEF DecideByRule
  <2> QED BY <2>1, FreshKept
<1>29. CASE UNCHANGED vars
  BY <1>29, FreshKept DEF vars
<1> QED BY <1>1, <1>2, <1>3, <1>4, <1>5, <1>6, <1>7, <1>8, <1>9, <1>10, <1>11,
  <1>12, <1>13, <1>14, <1>15, <1>16, <1>17, <1>18, <1>19, <1>20, <1>21, <1>22,
  <1>23, <1>24, <1>25, <1>26, <1>27, <1>28, <1>29 DEF Next

(* A request is linked exactly while it is converted.                      *)
LEMMA LinkKept ==
  ASSUME RequestType, CallInv, FreshInv, ConvertedIffLinked, [Next]_vars
  PROVE  ConvertedIffLinked'
<1> USE DEF request, order, confirmation, history, WriteStatus,
        ConvertedIffLinked
<1>1. ASSUME NEW c \in Calls, NEW w \in WorkOrders, convertToWorkOrder(c, w)
      PROVE ConvertedIffLinked'
  BY <1>1, OrderAssumption DEF convertToWorkOrder
<1>2. ASSUME NEW c \in Calls, guardedUpdate(c) PROVE ConvertedIffLinked'
  <2>1. CASE call[c].fresh
    <3>1. ~ OrderCall(c)
      BY <1>2, OrderAssumption DEF guardedUpdate, OrderCall, Made
    <3>2. <<call[c].handler, call[c].to>> \in RequestMoves
      BY <1>2, <3>1, RequestMoveFacts DEF guardedUpdate, CallInv, RequestCall
    <3>3. MayMove(call[c].handler, call[c].to)
      BY <1>2, <2>1 DEF guardedUpdate, FreshInv
    <3>4. /\ status \notin {"CANCELLED", "CLOSED", "CONVERTED_TO_WO"}
          /\ call[c].to # "CONVERTED_TO_WO"
      BY <3>2, <3>3, MovedFrom
    <3> QED BY <1>2, <2>1, <3>4 DEF guardedUpdate
  <2>2. CASE ~ call[c].fresh
    BY <1>2, <2>2 DEF guardedUpdate
  <2> QED BY <2>1, <2>2
<1>3. ASSUME NEW c \in Calls, reopenRequestAfterWorkOrderExit(c) PROVE
      ConvertedIffLinked'
  BY <1>3 DEF reopenRequestAfterWorkOrderExit
<1>4. ASSUME NEW c \in Calls, NEW move \in RequestMoves,
             ReadRequest(c, move)
      PROVE  ConvertedIffLinked'
  BY <1>4 DEF ReadRequest
<1>5. ASSUME NEW c \in Calls, NEW key \in Keys,
             ReadForConversion(c, key)
      PROVE  ConvertedIffLinked'
  BY <1>5 DEF ReadForConversion
<1>6. ASSUME NEW c \in Calls, NEW w \in WorkOrders, NEW move \in OrderMoves,
             ReadOrder(c, w, move)
      PROVE  ConvertedIffLinked'
  BY <1>6 DEF ReadOrder
<1>7. ASSUME NEW c \in Calls, NEW w \in WorkOrders,
             ReadCancelled(c, w)
      PROVE  ConvertedIffLinked'
  BY <1>7 DEF ReadCancelled
<1>8. ASSUME NEW c \in Calls,
             \/ NotClaimed(c) \/ closeActiveLabourSessions(c)
             \/ startLabourSession(c) \/ enforceConfigurableApproval(c)
             \/ AutoClose(c) \/ StartFails(c) \/ planWork(c) \/ assign(c)
             \/ closeWorkOrder(c) \/ updateStatus(c) \/ verifySupervisor(c)
             \/ applyRequesterConfirmation(c) \/ Conflict(c)
             \/ rejectSupervisor(c) \/ remove(c) \/ rejectWorkOrder(c)
             \/ reopenWorkOrder(c) \/ DecideApproval(c) \/ Fail(c)
      PROVE  ConvertedIffLinked'
  BY <1>8 DEF NotClaimed, closeActiveLabourSessions, startLabourSession,
    enforceConfigurableApproval, AutoClose, StartFails, planWork, assign,
    closeWorkOrder, updateStatus, verifySupervisor,
    applyRequesterConfirmation, Conflict, rejectSupervisor, remove,
    rejectWorkOrder, reopenWorkOrder, DecideApproval, Fail
<1>9. ASSUME NEW w \in WorkOrders,
             \/ update(w) \/ DecideByRule(w)
      PROVE  ConvertedIffLinked'
  BY <1>9 DEF update, DecideByRule
<1>10. CASE UNCHANGED vars
  BY <1>10 DEF vars
<1> QED BY <1>1, <1>2, <1>3, <1>4, <1>5, <1>6, <1>7, <1>8, <1>9, <1>10 DEF
  Next

(* No step takes up a request that has ended.                              *)
LEMMA EndedKept ==
  ASSUME RequestType, CallInv, FreshInv, [Next]_vars
  PROVE  status \in {"CANCELLED", "CLOSED"} => status' = status
<1> USE DEF request, order, confirmation, history, WriteStatus
<1>1. ASSUME NEW c \in Calls, NEW w \in WorkOrders, convertToWorkOrder(c, w)
      PROVE status \in {"CANCELLED", "CLOSED"} => status' = status
  BY <1>1 DEF convertToWorkOrder
<1>2. ASSUME NEW c \in Calls, guardedUpdate(c) PROVE status \in {"CANCELLED",
      "CLOSED"} => status' = status
  <2>1. CASE call[c].fresh
    <3>1. ~ OrderCall(c)
      BY <1>2, OrderAssumption DEF guardedUpdate, OrderCall, Made
    <3>2. <<call[c].handler, call[c].to>> \in RequestMoves
      BY <1>2, <3>1, RequestMoveFacts DEF guardedUpdate, CallInv, RequestCall
    <3>3. MayMove(call[c].handler, call[c].to)
      BY <1>2, <2>1 DEF guardedUpdate, FreshInv
    <3>4. /\ status \notin {"CANCELLED", "CLOSED", "CONVERTED_TO_WO"}
          /\ call[c].to # "CONVERTED_TO_WO"
      BY <3>2, <3>3, MovedFrom
    <3> QED BY <1>2, <2>1, <3>4 DEF guardedUpdate
  <2>2. CASE ~ call[c].fresh
    BY <1>2, <2>2 DEF guardedUpdate
  <2> QED BY <2>1, <2>2
<1>3. ASSUME NEW c \in Calls, reopenRequestAfterWorkOrderExit(c) PROVE status
      \in {"CANCELLED", "CLOSED"} => status' = status
  BY <1>3 DEF reopenRequestAfterWorkOrderExit
<1>4. ASSUME NEW c \in Calls, NEW move \in RequestMoves,
             ReadRequest(c, move)
      PROVE  status \in {"CANCELLED", "CLOSED"} => status' = status
  BY <1>4 DEF ReadRequest
<1>5. ASSUME NEW c \in Calls, NEW key \in Keys,
             ReadForConversion(c, key)
      PROVE  status \in {"CANCELLED", "CLOSED"} => status' = status
  BY <1>5 DEF ReadForConversion
<1>6. ASSUME NEW c \in Calls, NEW w \in WorkOrders, NEW move \in OrderMoves,
             ReadOrder(c, w, move)
      PROVE  status \in {"CANCELLED", "CLOSED"} => status' = status
  BY <1>6 DEF ReadOrder
<1>7. ASSUME NEW c \in Calls, NEW w \in WorkOrders,
             ReadCancelled(c, w)
      PROVE  status \in {"CANCELLED", "CLOSED"} => status' = status
  BY <1>7 DEF ReadCancelled
<1>8. ASSUME NEW c \in Calls,
             \/ NotClaimed(c) \/ closeActiveLabourSessions(c)
             \/ startLabourSession(c) \/ enforceConfigurableApproval(c)
             \/ AutoClose(c) \/ StartFails(c) \/ planWork(c) \/ assign(c)
             \/ closeWorkOrder(c) \/ updateStatus(c) \/ verifySupervisor(c)
             \/ applyRequesterConfirmation(c) \/ Conflict(c)
             \/ rejectSupervisor(c) \/ remove(c) \/ rejectWorkOrder(c)
             \/ reopenWorkOrder(c) \/ DecideApproval(c) \/ Fail(c)
      PROVE  status \in {"CANCELLED", "CLOSED"} => status' = status
  BY <1>8 DEF NotClaimed, closeActiveLabourSessions, startLabourSession,
    enforceConfigurableApproval, AutoClose, StartFails, planWork, assign,
    closeWorkOrder, updateStatus, verifySupervisor,
    applyRequesterConfirmation, Conflict, rejectSupervisor, remove,
    rejectWorkOrder, reopenWorkOrder, DecideApproval, Fail
<1>9. ASSUME NEW w \in WorkOrders,
             \/ update(w) \/ DecideByRule(w)
      PROVE  status \in {"CANCELLED", "CLOSED"} => status' = status
  BY <1>9 DEF update, DecideByRule
<1>10. CASE UNCHANGED vars
  BY <1>10 DEF vars
<1> QED BY <1>1, <1>2, <1>3, <1>4, <1>5, <1>6, <1>7, <1>8, <1>9, <1>10 DEF
  Next

(* Only work orders that were made have keys.                              *)
LEMMA KeysKept ==
  ASSUME OrderType, CallInv, KeyInv, [Next]_vars
  PROVE  KeyInv'
<1> USE DEF request, order, confirmation, history, WriteStatus, KeyInv, Made
<1>1. ASSUME NEW c \in Calls, NEW w \in WorkOrders, convertToWorkOrder(c, w)
      PROVE KeyInv'
  BY <1>1 DEF convertToWorkOrder, Create, Made, OrderType, WorkOrderStatus
<1>2. ASSUME NEW c \in Calls, planWork(c) PROVE KeyInv'
  <2>1. call[c].w \in Made /\ Made \subseteq Made'
    BY <1>2, WritesStatus, MadeGrows DEF planWork, OrderCall
  <2> QED BY <1>2, <2>1 DEF planWork, OrderType
<1>3. ASSUME NEW c \in Calls, assign(c) PROVE KeyInv'
  <2>1. call[c].w \in Made /\ Made \subseteq Made'
    BY <1>3, WritesStatus, MadeGrows DEF assign, OrderCall
  <2> QED BY <1>3, <2>1 DEF assign, OrderType
<1>4. ASSUME NEW c \in Calls, closeWorkOrder(c) PROVE KeyInv'
  <2>1. call[c].w \in Made /\ Made \subseteq Made'
    BY <1>4, WritesStatus, MadeGrows DEF closeWorkOrder, OrderCall
  <2> QED BY <1>4, <2>1 DEF closeWorkOrder, OrderType
<1>5. ASSUME NEW c \in Calls, updateStatus(c) PROVE KeyInv'
  <2>1. call[c].w \in Made /\ Made \subseteq Made'
    BY <1>5, WritesStatus, MadeGrows DEF updateStatus, OrderCall
  <2>2. PICK key \in {call[c].key, "none"} :
          lastIdempotencyKey' = [lastIdempotencyKey EXCEPT ![call[c].w] = key]
    BY <1>5 DEF updateStatus
  <2> QED BY <2>1, <2>2 DEF OrderType
<1>6. ASSUME NEW c \in Calls, verifySupervisor(c) PROVE KeyInv'
  <2>1. call[c].w \in Made /\ Made \subseteq Made'
    BY <1>6, WritesStatus, MadeGrows DEF verifySupervisor, OrderCall
  <2> QED BY <1>6, <2>1 DEF verifySupervisor, OrderType
<1>7. ASSUME NEW c \in Calls, applyRequesterConfirmation(c) PROVE KeyInv'
  <2>1. call[c].w \in Made /\ Made \subseteq Made'
    BY <1>7, WritesStatus, MadeGrows DEF applyRequesterConfirmation, OrderCall
  <2> QED BY <1>7, <2>1 DEF applyRequesterConfirmation, OrderType
<1>8. ASSUME NEW c \in Calls, rejectSupervisor(c) PROVE KeyInv'
  <2>1. call[c].w \in Made /\ Made \subseteq Made'
    BY <1>8, WritesStatus, MadeGrows DEF rejectSupervisor, OrderCall
  <2> QED BY <1>8, <2>1 DEF rejectSupervisor, OrderType
<1>9. ASSUME NEW c \in Calls, remove(c) PROVE KeyInv'
  <2>1. call[c].w \in Made /\ Made \subseteq Made'
    BY <1>9, WritesStatus, MadeGrows DEF remove, OrderCall
  <2> QED BY <1>9, <2>1 DEF remove, OrderType
<1>10. ASSUME NEW c \in Calls, rejectWorkOrder(c) PROVE KeyInv'
  <2>1. call[c].w \in Made /\ Made \subseteq Made'
    BY <1>10, WritesStatus, MadeGrows DEF rejectWorkOrder, OrderCall
  <2> QED BY <1>10, <2>1 DEF rejectWorkOrder, OrderType
<1>11. ASSUME NEW c \in Calls, reopenWorkOrder(c) PROVE KeyInv'
  <2>1. call[c].w \in Made /\ Made \subseteq Made'
    BY <1>11, WritesStatus, MadeGrows DEF reopenWorkOrder, OrderCall
  <2> QED BY <1>11, <2>1 DEF reopenWorkOrder, OrderType
<1>12. ASSUME NEW c \in Calls, reopenRequestAfterWorkOrderExit(c) PROVE
      KeyInv'
  BY <1>12 DEF reopenRequestAfterWorkOrderExit, OrderType, Made
<1>13. ASSUME NEW w \in WorkOrders, DecideByRule(w) PROVE KeyInv'
  BY <1>13, MadeGrows DEF DecideByRule
<1>14. ASSUME NEW c \in Calls, NEW move \in RequestMoves,
             ReadRequest(c, move)
      PROVE  KeyInv'
  BY <1>14 DEF ReadRequest
<1>15. ASSUME NEW c \in Calls, NEW key \in Keys,
             ReadForConversion(c, key)
      PROVE  KeyInv'
  BY <1>15 DEF ReadForConversion
<1>16. ASSUME NEW c \in Calls, NEW w \in WorkOrders, NEW move \in OrderMoves,
             ReadOrder(c, w, move)
      PROVE  KeyInv'
  BY <1>16 DEF ReadOrder
<1>17. ASSUME NEW c \in Calls, NEW w \in WorkOrders,
             ReadCancelled(c, w)
      PROVE  KeyInv'
  BY <1>17 DEF ReadCancelled
<1>18. ASSUME NEW c \in Calls,
             \/ guardedUpdate(c) \/ NotClaimed(c)
             \/ closeActiveLabourSessions(c) \/ startLabourSession(c)
             \/ enforceConfigurableApproval(c) \/ AutoClose(c)
             \/ StartFails(c) \/ Conflict(c) \/ DecideApproval(c) \/ Fail(c)
      PROVE  KeyInv'
  BY <1>18 DEF guardedUpdate, NotClaimed, closeActiveLabourSessions,
    startLabourSession, enforceConfigurableApproval, AutoClose, StartFails,
    Conflict, DecideApproval, Fail
<1>19. ASSUME NEW w \in WorkOrders, update(w) PROVE KeyInv'
  BY <1>19 DEF update
<1>20. CASE UNCHANGED vars
  BY <1>20 DEF vars
<1> QED BY <1>1, <1>2, <1>3, <1>4, <1>5, <1>6, <1>7, <1>8, <1>9, <1>10, <1>11,
  <1>12, <1>13, <1>14, <1>15, <1>16, <1>17, <1>18, <1>19, <1>20 DEF Next

(* What is cancelled was given up.                                         *)
LEMMA CancelsKept ==
  ASSUME OrderType, CallInv, CancelInv, [Next]_vars
  PROVE  CancelInv'
<1> USE DEF request, order, confirmation, history, WriteStatus, CancelInv,
        OrderType
<1>1. ASSUME NEW c \in Calls, NEW w \in WorkOrders, convertToWorkOrder(c, w)
      PROVE CancelInv'
  BY <1>1 DEF convertToWorkOrder, Create
<1>2. ASSUME NEW c \in Calls, planWork(c) PROVE CancelInv'
  BY <1>2 DEF planWork, SetStatus, Remember
<1>3. ASSUME NEW c \in Calls, assign(c) PROVE CancelInv'
  BY <1>3 DEF assign, SetStatus, Remember
<1>4. ASSUME NEW c \in Calls, closeWorkOrder(c) PROVE CancelInv'
  BY <1>4 DEF closeWorkOrder, SetStatus, Remember
<1>5. ASSUME NEW c \in Calls, updateStatus(c) PROVE CancelInv'
  BY <1>5 DEF updateStatus, SetStatus, Remember
<1>6. ASSUME NEW c \in Calls, verifySupervisor(c) PROVE CancelInv'
  BY <1>6 DEF verifySupervisor, SetStatus, Remember
<1>7. ASSUME NEW c \in Calls, applyRequesterConfirmation(c) PROVE CancelInv'
  BY <1>7 DEF applyRequesterConfirmation, SetStatus, Remember
<1>8. ASSUME NEW c \in Calls, rejectSupervisor(c) PROVE CancelInv'
  BY <1>8 DEF rejectSupervisor, SetStatus, Remember
<1>9. ASSUME NEW c \in Calls, remove(c) PROVE CancelInv'
  BY <1>9 DEF remove, SetStatus, Remember
<1>10. ASSUME NEW c \in Calls, rejectWorkOrder(c) PROVE CancelInv'
  BY <1>10 DEF rejectWorkOrder, SetStatus, Remember
<1>11. ASSUME NEW c \in Calls, reopenWorkOrder(c) PROVE CancelInv'
  <2>1. call[c].to # "CANCELLED"
    <3>1. <<call[c].handler, call[c].to>> \in OrderMoves
      BY <1>11, WritesStatus DEF reopenWorkOrder, OrderCall
    <3> QED BY <1>11, <3>1, OrderMoveFacts DEF reopenWorkOrder, At
  <2> QED BY <1>11, <2>1 DEF reopenWorkOrder, SetStatus
<1>12. ASSUME NEW w \in WorkOrders, DecideByRule(w) PROVE CancelInv'
  BY <1>12 DEF DecideByRule
<1>13. ASSUME NEW c \in Calls, NEW move \in RequestMoves,
             ReadRequest(c, move)
      PROVE  CancelInv'
  BY <1>13 DEF ReadRequest
<1>14. ASSUME NEW c \in Calls, NEW key \in Keys,
             ReadForConversion(c, key)
      PROVE  CancelInv'
  BY <1>14 DEF ReadForConversion
<1>15. ASSUME NEW c \in Calls, NEW w \in WorkOrders, NEW move \in OrderMoves,
             ReadOrder(c, w, move)
      PROVE  CancelInv'
  BY <1>15 DEF ReadOrder
<1>16. ASSUME NEW c \in Calls, NEW w \in WorkOrders,
             ReadCancelled(c, w)
      PROVE  CancelInv'
  BY <1>16 DEF ReadCancelled
<1>17. ASSUME NEW c \in Calls,
             \/ guardedUpdate(c) \/ NotClaimed(c)
             \/ closeActiveLabourSessions(c) \/ startLabourSession(c)
             \/ enforceConfigurableApproval(c) \/ AutoClose(c)
             \/ StartFails(c) \/ Conflict(c) \/ DecideApproval(c)
             \/ reopenRequestAfterWorkOrderExit(c) \/ Fail(c)
      PROVE  CancelInv'
  BY <1>17 DEF guardedUpdate, NotClaimed, closeActiveLabourSessions,
    startLabourSession, enforceConfigurableApproval, AutoClose, StartFails,
    Conflict, DecideApproval, reopenRequestAfterWorkOrderExit, Fail
<1>18. ASSUME NEW w \in WorkOrders, update(w) PROVE CancelInv'
  BY <1>18 DEF update
<1>19. CASE UNCHANGED vars
  BY <1>19 DEF vars
<1> QED BY <1>1, <1>2, <1>3, <1>4, <1>5, <1>6, <1>7, <1>8, <1>9, <1>10, <1>11,
  <1>12, <1>13, <1>14, <1>15, <1>16, <1>17, <1>18, <1>19 DEF Next

(* Who is about to follow up an exit keeps to a work order that was given  *)
(* up.                                                                     *)
LEMMA ExitsStay ==
  ASSUME ExitInv, exited \subseteq exited',
         \A d \in Calls : call'[d].step = "exit" =>
           \/ call[d].step = "exit" /\ call'[d].w = call[d].w
           \/ call'[d].w \in exited'
  PROVE  ExitInv'
BY DEF ExitInv

(* Who follows up an exit does so for a work order that was given up.      *)
LEMMA ExitsKept ==
  ASSUME RequestType, OrderType, CallType, CallInv, CancelInv, ExitInv,
         [Next]_vars
  PROVE  ExitInv'
<1> USE DEF request, order, confirmation, history, WriteStatus
<1>1. ASSUME NEW c \in Calls, NEW move \in RequestMoves, ReadRequest(c, move)
      PROVE ExitInv'
  <2>1. <<move[1], move[2]>> \in RequestMoves /\ "write" \in Steps
    BY DEF RequestMoves, Steps
  <2>2. Begin(c, "write", move, NoOrder, "none") /\ exited' = exited
    BY <1>1 DEF ReadRequest
  <2> QED BY <2>1, <2>2, BeginShape, ExitsStay
<1>2. ASSUME NEW c \in Calls, NEW key \in Keys, ReadForConversion(c, key)
      PROVE ExitInv'
  <2>1. <<ConvertMove[1], ConvertMove[2]>> \in {ConvertMove} /\ "write" \in Steps
    BY DEF ConvertMove, Steps
  <2>2. key \in {"none", "default", "custom"}
    BY KeyAssumption
  <2>3. Begin(c, "write", ConvertMove, NoOrder, key) /\ exited' = exited
    BY <1>2 DEF ReadForConversion
  <2> QED BY <2>1, <2>2, <2>3, BeginShape, ExitsStay
<1>3. ASSUME NEW c \in Calls, NEW w \in WorkOrders, NEW move \in OrderMoves,
      ReadOrder(c, w, move) PROVE ExitInv'
  <2>1. PICK step \in Steps \ {"exit"} :
          Begin(c, step, move, w,
                IF move[1] = "updateStatus" THEN lastIdempotencyKey[w] ELSE "none")
    BY <1>3 DEF ReadOrder, FirstSteps, StartSteps, CloseSteps, Steps
  <2>2. <<move[1], move[2]>> \in OrderMoves
    BY DEF OrderMoves, UpdateMoves
  <2>3. (IF move[1] = "updateStatus" THEN lastIdempotencyKey[w] ELSE "none")
          \in {"none", "default", "custom"}
    BY DEF OrderType
  <2>4. call'[c].step # "exit" /\ \A d \in Calls \ {c} : call'[d] = call[d]
    BY <2>1, <2>2, <2>3, BeginShape
  <2>5. exited' = exited
    BY <1>3 DEF ReadOrder
  <2> QED BY <2>4, <2>5, ExitsStay
<1>4. ASSUME NEW c \in Calls, NEW w \in WorkOrders, ReadCancelled(c, w) PROVE
      ExitInv'
  <2>1. <<"remove", "CANCELLED">> \in OrderMoves /\ "exit" \in Steps
    BY DEF OrderMoves, Steps
  <2>2. Begin(c, "exit", <<"remove", "CANCELLED">>, w, "none") /\ exited' = exited
    BY <1>4 DEF ReadCancelled
  <2>3. w \in exited'
    BY <1>4, <2>2 DEF ReadCancelled, CancelInv
  <2>4. call'[c].w = w /\ \A d \in Calls \ {c} : call'[d] = call[d]
    BY <2>1, <2>2, BeginShape
  <2> QED BY <2>2, <2>3, <2>4, ExitsStay
<1>5. ASSUME NEW c \in Calls, NEW w \in WorkOrders, convertToWorkOrder(c, w)
      PROVE ExitInv'
  <2>1. Increment(NoOrder, c, Idle) /\ exited \subseteq exited'
    BY <1>5 DEF convertToWorkOrder, Remember
  <2> QED BY <2>1, IdleType, IncrementShape, ExitsStay DEF Idle
<1>6. ASSUME NEW c \in Calls, guardedUpdate(c) PROVE ExitInv'
  <2>1. (Increment(NoOrder, c, Idle) \/ End(c)) /\ exited \subseteq exited'
    BY <1>6 DEF guardedUpdate
  <2> QED BY <2>1, IdleType, IncrementShape, EndShape, ExitsStay DEF Idle
<1>7. ASSUME NEW c \in Calls, NotClaimed(c) PROVE ExitInv'
  <2>1. End(c) /\ exited \subseteq exited'
    BY <1>7 DEF NotClaimed
  <2> QED BY <2>1, EndShape, ExitsStay DEF Idle
<1>8. ASSUME NEW c \in Calls, closeActiveLabourSessions(c) PROVE ExitInv'
  <2>1. "write" \in Steps /\ exited \subseteq exited'
    BY <1>8 DEF Steps, closeActiveLabourSessions
  <2>2. CASE Goto(c, "write")
    BY <2>1, <2>2, GotoShape, ExitsStay
  <2> QED BY <1>8, <2>2 DEF closeActiveLabourSessions
<1>9. ASSUME NEW c \in Calls, startLabourSession(c) PROVE ExitInv'
  <2>1. "write" \in Steps /\ exited \subseteq exited'
    BY <1>9 DEF Steps, startLabourSession
  <2>2. CASE Goto(c, "write")
    BY <2>1, <2>2, GotoShape, ExitsStay
  <2>3. CASE End(c)
    BY <2>1, <2>3, EndShape, ExitsStay DEF Idle
  <2> QED BY <1>9, <2>2, <2>3 DEF startLabourSession
<1>10. ASSUME NEW c \in Calls, enforceConfigurableApproval(c) PROVE ExitInv'
  <2>1. End(c) /\ exited \subseteq exited'
    BY <1>10 DEF enforceConfigurableApproval
  <2> QED BY <2>1, EndShape, ExitsStay DEF Idle
<1>11. ASSUME NEW c \in Calls, AutoClose(c) PROVE ExitInv'
  <2>1. "write" \in Steps /\ exited \subseteq exited'
    BY <1>11 DEF Steps, AutoClose
  <2>2. CASE Goto(c, "write")
    BY <2>1, <2>2, GotoShape, ExitsStay
  <2> QED BY <1>11, <2>2 DEF AutoClose
<1>12. ASSUME NEW c \in Calls, StartFails(c) PROVE ExitInv'
  <2>1. End(c) /\ exited \subseteq exited'
    BY <1>12 DEF StartFails
  <2> QED BY <2>1, EndShape, ExitsStay DEF Idle
<1>13. ASSUME NEW c \in Calls, planWork(c) PROVE ExitInv'
  <2>1. Increment(call[c].w, c, Idle) /\ exited \subseteq exited'
    BY <1>13 DEF planWork, Remember
  <2> QED BY <2>1, IdleType, IncrementShape, ExitsStay DEF Idle
<1>14. ASSUME NEW c \in Calls, assign(c) PROVE ExitInv'
  <2>1. Increment(call[c].w, c, Idle) /\ exited \subseteq exited'
    BY <1>14 DEF assign, Remember
  <2> QED BY <2>1, IdleType, IncrementShape, ExitsStay DEF Idle
<1>15. ASSUME NEW c \in Calls, closeWorkOrder(c) PROVE ExitInv'
  <2>1. Increment(call[c].w, c, Idle) /\ exited \subseteq exited'
    BY <1>15 DEF closeWorkOrder, Remember
  <2> QED BY <2>1, IdleType, IncrementShape, ExitsStay DEF Idle
<1>16. ASSUME NEW c \in Calls, updateStatus(c) PROVE ExitInv'
  <2>1. Increment(call[c].w, c, AfterWrite(c)) /\ exited \subseteq exited'
    BY <1>16 DEF updateStatus, Remember
  <2>2. /\ AfterWrite(c) \in Call
        /\ AfterWrite(c).step = "exit" => AfterWrite(c).w = call[c].w /\ call[c].to = "CANCELLED"
    BY IdleType, ExitShape DEF AfterWrite, Idle
  <2>3. call[c].to = "CANCELLED" => call[c].w \in exited'
    BY <1>16 DEF updateStatus, Remember
  <2> QED BY <2>1, <2>2, <2>3, IncrementShape, ExitsStay
<1>17. ASSUME NEW c \in Calls, verifySupervisor(c) PROVE ExitInv'
  <2>1. Increment(call[c].w, c, Idle) /\ exited \subseteq exited'
    BY <1>17 DEF verifySupervisor, Remember
  <2> QED BY <2>1, IdleType, IncrementShape, ExitsStay DEF Idle
<1>18. ASSUME NEW c \in Calls, applyRequesterConfirmation(c) PROVE ExitInv'
  <2>1. Increment(call[c].w, c, Idle) /\ exited \subseteq exited'
    BY <1>18 DEF applyRequesterConfirmation, Remember
  <2> QED BY <2>1, IdleType, IncrementShape, ExitsStay DEF Idle
<1>19. ASSUME NEW c \in Calls, Conflict(c) PROVE ExitInv'
  <2>1. End(c) /\ exited \subseteq exited'
    BY <1>19 DEF Conflict
  <2> QED BY <2>1, EndShape, ExitsStay DEF Idle
<1>20. ASSUME NEW c \in Calls, rejectSupervisor(c) PROVE ExitInv'
  <2>1. Increment(call[c].w, c, Idle) /\ exited \subseteq exited'
    BY <1>20 DEF rejectSupervisor, Remember
  <2> QED BY <2>1, IdleType, IncrementShape, ExitsStay DEF Idle
<1>21. ASSUME NEW c \in Calls, remove(c) PROVE ExitInv'
  <2>1. call' = [call EXCEPT ![c] = ThenExit(c)] /\ exited \subseteq exited'
    BY <1>21 DEF remove, Remember
  <2>2. call'[c] = ThenExit(c) /\ \A d \in Calls \ {c} : call'[d] = call[d]
    BY <2>1 DEF CallType
  <2>3. call[c].w \in exited'
    <3>1. call[c].to = "CANCELLED"
      BY <1>21, CancelsOrder DEF remove
    <3> QED BY <1>21, <3>1 DEF remove, Remember
  <2> QED BY <2>1, <2>2, <2>3, ExitShape, ExitsStay
<1>22. ASSUME NEW c \in Calls, rejectWorkOrder(c) PROVE ExitInv'
  <2>1. call' = [call EXCEPT ![c] = ThenExit(c)] /\ exited \subseteq exited'
    BY <1>22 DEF rejectWorkOrder, Remember
  <2>2. call'[c] = ThenExit(c) /\ \A d \in Calls \ {c} : call'[d] = call[d]
    BY <2>1 DEF CallType
  <2>3. call[c].w \in exited'
    <3>1. call[c].to = "CANCELLED"
      BY <1>22, CancelsOrder DEF rejectWorkOrder
    <3> QED BY <1>22, <3>1 DEF rejectWorkOrder, Remember
  <2> QED BY <2>1, <2>2, <2>3, ExitShape, ExitsStay
<1>23. ASSUME NEW c \in Calls, reopenWorkOrder(c) PROVE ExitInv'
  <2>1. End(c) /\ exited \subseteq exited'
    BY <1>23 DEF reopenWorkOrder
  <2> QED BY <2>1, EndShape, ExitsStay DEF Idle
<1>24. ASSUME NEW c \in Calls, DecideApproval(c) PROVE ExitInv'
  <2>1. End(c) /\ exited \subseteq exited'
    BY <1>24 DEF DecideApproval
  <2> QED BY <2>1, EndShape, ExitsStay DEF Idle
<1>25. ASSUME NEW c \in Calls, reopenRequestAfterWorkOrderExit(c) PROVE
      ExitInv'
  <2>1. (Increment(NoOrder, c, Idle) \/ End(c)) /\ exited \subseteq exited'
    BY <1>25 DEF reopenRequestAfterWorkOrderExit
  <2> QED BY <2>1, IdleType, IncrementShape, EndShape, ExitsStay DEF Idle
<1>26. ASSUME NEW c \in Calls, Fail(c) PROVE ExitInv'
  <2>1. End(c) /\ exited \subseteq exited'
    BY <1>26 DEF Fail
  <2> QED BY <2>1, EndShape, ExitsStay DEF Idle
<1>27. ASSUME NEW w \in WorkOrders, update(w) PROVE ExitInv'
  <2>1. exited' = exited
    BY <1>27 DEF update
  <2> QED BY <1>27, <2>1, UpdateShape, ExitsStay
<1>28. ASSUME NEW w \in WorkOrders, DecideByRule(w) PROVE ExitInv'
  BY <1>28 DEF DecideByRule, ExitInv
<1>29. CASE UNCHANGED vars
  BY <1>29 DEF vars, ExitInv
<1> QED BY <1>1, <1>2, <1>3, <1>4, <1>5, <1>6, <1>7, <1>8, <1>9, <1>10, <1>11,
  <1>12, <1>13, <1>14, <1>15, <1>16, <1>17, <1>18, <1>19, <1>20, <1>21, <1>22,
  <1>23, <1>24, <1>25, <1>26, <1>27, <1>28, <1>29 DEF Next

(* Of the work orders of an issue, all but the linked one were given up.   *)
LEMMA OneJobKept ==
  ASSUME RequestType, OrderType, CallInv, ConvertedIffLinked, ExitInv,
         OneJobPerIssue, [Next]_vars
  PROVE  OneJobPerIssue'
<1> USE DEF request, order, confirmation, history, WriteStatus,
        OneJobPerIssue, Made
<1>1. ASSUME NEW c \in Calls, NEW w \in WorkOrders, convertToWorkOrder(c, w)
      PROVE OneJobPerIssue'
  <2>1. workOrderId = NoOrder /\ workOrderId' = w
    BY <1>1 DEF convertToWorkOrder
  <2>2. \A v \in Made : v \in exited
    BY <2>1, OrderAssumption
  <2> QED BY <1>1, <2>1, <2>2 DEF convertToWorkOrder, Create, OrderType
<1>2. ASSUME NEW c \in Calls, planWork(c) PROVE OneJobPerIssue'
  <2>1. call[c].w \in Made
    BY <1>2, WritesStatus DEF planWork, OrderCall
  <2> QED BY <1>2, <2>1 DEF planWork, SetStatus, Remember, OrderType
<1>3. ASSUME NEW c \in Calls, assign(c) PROVE OneJobPerIssue'
  <2>1. call[c].w \in Made
    BY <1>3, WritesStatus DEF assign, OrderCall
  <2> QED BY <1>3, <2>1 DEF assign, SetStatus, Remember, OrderType
<1>4. ASSUME NEW c \in Calls, closeWorkOrder(c) PROVE OneJobPerIssue'
  <2>1. call[c].w \in Made
    BY <1>4, WritesStatus DEF closeWorkOrder, OrderCall
  <2> QED BY <1>4, <2>1 DEF closeWorkOrder, SetStatus, Remember, OrderType
<1>5. ASSUME NEW c \in Calls, updateStatus(c) PROVE OneJobPerIssue'
  <2>1. call[c].w \in Made
    BY <1>5, WritesStatus DEF updateStatus, OrderCall
  <2> QED BY <1>5, <2>1 DEF updateStatus, SetStatus, Remember, OrderType
<1>6. ASSUME NEW c \in Calls, verifySupervisor(c) PROVE OneJobPerIssue'
  <2>1. call[c].w \in Made
    BY <1>6, WritesStatus DEF verifySupervisor, OrderCall
  <2> QED BY <1>6, <2>1 DEF verifySupervisor, SetStatus, Remember, OrderType
<1>7. ASSUME NEW c \in Calls, applyRequesterConfirmation(c) PROVE
      OneJobPerIssue'
  <2>1. call[c].w \in Made
    BY <1>7, WritesStatus DEF applyRequesterConfirmation, OrderCall
  <2> QED BY <1>7, <2>1 DEF applyRequesterConfirmation, SetStatus, Remember, OrderType
<1>8. ASSUME NEW c \in Calls, rejectSupervisor(c) PROVE OneJobPerIssue'
  <2>1. call[c].w \in Made
    BY <1>8, WritesStatus DEF rejectSupervisor, OrderCall
  <2> QED BY <1>8, <2>1 DEF rejectSupervisor, SetStatus, Remember, OrderType
<1>9. ASSUME NEW c \in Calls, remove(c) PROVE OneJobPerIssue'
  <2>1. call[c].w \in Made
    BY <1>9, WritesStatus DEF remove, OrderCall
  <2> QED BY <1>9, <2>1 DEF remove, SetStatus, Remember, OrderType
<1>10. ASSUME NEW c \in Calls, rejectWorkOrder(c) PROVE OneJobPerIssue'
  <2>1. call[c].w \in Made
    BY <1>10, WritesStatus DEF rejectWorkOrder, OrderCall
  <2> QED BY <1>10, <2>1 DEF rejectWorkOrder, SetStatus, Remember, OrderType
<1>11. ASSUME NEW c \in Calls, reopenWorkOrder(c) PROVE OneJobPerIssue'
  <2>1. call[c].w \in Made
    BY <1>11, WritesStatus DEF reopenWorkOrder, OrderCall
  <2> QED BY <1>11, <2>1 DEF reopenWorkOrder, SetStatus, Remember, OrderType
<1>12. ASSUME NEW c \in Calls, reopenRequestAfterWorkOrderExit(c) PROVE
      OneJobPerIssue'
  BY <1>12 DEF reopenRequestAfterWorkOrderExit, ExitInv
<1>13. ASSUME NEW w \in WorkOrders, DecideByRule(w) PROVE OneJobPerIssue'
  BY <1>13 DEF DecideByRule, OrderType
<1>14. ASSUME NEW c \in Calls, NEW move \in RequestMoves,
             ReadRequest(c, move)
      PROVE  OneJobPerIssue'
  BY <1>14 DEF ReadRequest
<1>15. ASSUME NEW c \in Calls, NEW key \in Keys,
             ReadForConversion(c, key)
      PROVE  OneJobPerIssue'
  BY <1>15 DEF ReadForConversion
<1>16. ASSUME NEW c \in Calls, NEW w \in WorkOrders, NEW move \in OrderMoves,
             ReadOrder(c, w, move)
      PROVE  OneJobPerIssue'
  BY <1>16 DEF ReadOrder
<1>17. ASSUME NEW c \in Calls, NEW w \in WorkOrders,
             ReadCancelled(c, w)
      PROVE  OneJobPerIssue'
  BY <1>17 DEF ReadCancelled
<1>18. ASSUME NEW c \in Calls,
             \/ guardedUpdate(c) \/ NotClaimed(c)
             \/ closeActiveLabourSessions(c) \/ startLabourSession(c)
             \/ enforceConfigurableApproval(c) \/ AutoClose(c)
             \/ StartFails(c) \/ Conflict(c) \/ DecideApproval(c) \/ Fail(c)
      PROVE  OneJobPerIssue'
  BY <1>18 DEF guardedUpdate, NotClaimed, closeActiveLabourSessions,
    startLabourSession, enforceConfigurableApproval, AutoClose, StartFails,
    Conflict, DecideApproval, Fail
<1>19. ASSUME NEW w \in WorkOrders, update(w) PROVE OneJobPerIssue'
  BY <1>19 DEF update
<1>20. CASE UNCHANGED vars
  BY <1>20 DEF vars
<1> QED BY <1>1, <1>2, <1>3, <1>4, <1>5, <1>6, <1>7, <1>8, <1>9, <1>10, <1>11,
  <1>12, <1>13, <1>14, <1>15, <1>16, <1>17, <1>18, <1>19, <1>20 DEF Next

(* Who writes a status of finished work does so to what is not sent back.  *)
LEMMA ReworkWritten ==
  ASSUME OrderType, HistoryType, ReworkStatus, NEW c \in Calls, SetStatus(c), Remember(c),
         call[c].w \in WorkOrders,
         call[c].to \in {"VERIFIED", "CLOSED", "COMPLETED"} => call[c].w \notin sentBack
  PROVE  ReworkStatus'
<1> SUFFICES ASSUME NEW v \in sentBack'
             PROVE  woStatus'[v] \notin {"TECHNICIAN_COMPLETED", "VERIFIED", "CLOSED",
                                        "COMPLETED"}
  BY DEF ReworkStatus
<1>1. CASE v \in sentBack /\ v # call[c].w
  <2>1. v \in WorkOrders
    BY <1>1 DEF HistoryType
  <2>2. woStatus'[v] = woStatus[v]
    BY <1>1, <2>1 DEF SetStatus, OrderType
  <2> QED BY <1>1, <2>2 DEF ReworkStatus
<1>2. CASE v \in sentBack /\ v = call[c].w
  <2>1. woStatus'[v] = call[c].to
    BY <1>2 DEF SetStatus, OrderType, HistoryType
  <2>2. call[c].to # "TECHNICIAN_COMPLETED"
    BY <1>2 DEF Remember
  <2> QED BY <1>2, <2>1, <2>2
<1>3. CASE v \notin sentBack
  <2>1. v = call[c].w /\ call[c].to = "REWORK_REQUIRED"
    BY <1>3 DEF Remember
  <2> QED BY <2>1 DEF SetStatus, OrderType
<1> QED BY <1>1, <1>2, <1>3

(* What is sent back is not completed before the rework is.                *)
LEMMA ReworkStatusKept ==
  ASSUME OrderType, HistoryType, CallInv, ReworkStatus, ReworkCalls,
         SendsVersion = TRUE, [Next]_vars
  PROVE  ReworkStatus'
<1> USE DEF request, order, confirmation, history, WriteStatus, ReworkStatus,
        OrderType, HistoryType
<1>1. ASSUME NEW c \in Calls, NEW w \in WorkOrders, convertToWorkOrder(c, w)
      PROVE ReworkStatus'
  BY <1>1 DEF convertToWorkOrder, Create, Made
<1>2. ASSUME NEW c \in Calls, planWork(c) PROVE ReworkStatus'
  <2>1. call[c].fresh /\ call[c].w \in WorkOrders
    BY <1>2, WritesStatus DEF planWork, VersionMatches, At
  <2>2. call[c].to \in {"VERIFIED", "CLOSED", "COMPLETED"} => call[c].w \notin sentBack
    BY <2>1 DEF ReworkCalls
  <2> QED BY <1>2, <2>1, <2>2, ReworkWritten DEF planWork
<1>3. ASSUME NEW c \in Calls, assign(c) PROVE ReworkStatus'
  <2>1. call[c].fresh /\ call[c].w \in WorkOrders
    BY <1>3, WritesStatus DEF assign, VersionMatches, At
  <2>2. call[c].to \in {"VERIFIED", "CLOSED", "COMPLETED"} => call[c].w \notin sentBack
    BY <2>1 DEF ReworkCalls
  <2> QED BY <1>3, <2>1, <2>2, ReworkWritten DEF assign
<1>4. ASSUME NEW c \in Calls, closeWorkOrder(c) PROVE ReworkStatus'
  <2>1. call[c].fresh /\ call[c].w \in WorkOrders
    BY <1>4, WritesStatus DEF closeWorkOrder, VersionMatches, At
  <2>2. call[c].to \in {"VERIFIED", "CLOSED", "COMPLETED"} => call[c].w \notin sentBack
    BY <2>1 DEF ReworkCalls
  <2> QED BY <1>4, <2>1, <2>2, ReworkWritten DEF closeWorkOrder
<1>5. ASSUME NEW c \in Calls, updateStatus(c) PROVE ReworkStatus'
  <2>1. call[c].fresh /\ call[c].w \in WorkOrders
    BY <1>5, WritesStatus DEF updateStatus, VersionMatches, At
  <2>2. call[c].to \in {"VERIFIED", "CLOSED", "COMPLETED"} => call[c].w \notin sentBack
    BY <2>1 DEF ReworkCalls
  <2> QED BY <1>5, <2>1, <2>2, ReworkWritten DEF updateStatus
<1>6. ASSUME NEW c \in Calls, verifySupervisor(c) PROVE ReworkStatus'
  <2>1. call[c].fresh /\ call[c].w \in WorkOrders
    BY <1>6, WritesStatus DEF verifySupervisor, VersionMatches, At
  <2>2. call[c].to \in {"VERIFIED", "CLOSED", "COMPLETED"} => call[c].w \notin sentBack
    BY <2>1 DEF ReworkCalls
  <2> QED BY <1>6, <2>1, <2>2, ReworkWritten DEF verifySupervisor
<1>7. ASSUME NEW c \in Calls, applyRequesterConfirmation(c) PROVE
      ReworkStatus'
  <2>1. call[c].fresh /\ call[c].w \in WorkOrders
    BY <1>7, WritesStatus DEF applyRequesterConfirmation, VersionMatches, At
  <2>2. call[c].to \in {"VERIFIED", "CLOSED", "COMPLETED"} => call[c].w \notin sentBack
    BY <2>1 DEF ReworkCalls
  <2> QED BY <1>7, <2>1, <2>2, ReworkWritten DEF applyRequesterConfirmation
<1>8. ASSUME NEW c \in Calls, rejectSupervisor(c) PROVE ReworkStatus'
  <2>1. call[c].to \in {"REWORK_REQUIRED", "CANCELLED"} /\ call[c].w \in WorkOrders
    <3>1. <<call[c].handler, call[c].to>> \in OrderMoves /\ call[c].w \in WorkOrders
      BY <1>8, WritesStatus DEF rejectSupervisor, OrderCall
    <3> QED BY <1>8, <3>1, OrderMoveFacts DEF rejectSupervisor, At
  <2> QED BY <1>8, <2>1, ReworkWritten DEF rejectSupervisor
<1>9. ASSUME NEW c \in Calls, remove(c) PROVE ReworkStatus'
  <2>1. call[c].to \in {"REWORK_REQUIRED", "CANCELLED"} /\ call[c].w \in WorkOrders
    <3>1. <<call[c].handler, call[c].to>> \in OrderMoves /\ call[c].w \in WorkOrders
      BY <1>9, WritesStatus DEF remove, OrderCall
    <3> QED BY <1>9, <3>1, OrderMoveFacts DEF remove, At
  <2> QED BY <1>9, <2>1, ReworkWritten DEF remove
<1>10. ASSUME NEW c \in Calls, rejectWorkOrder(c) PROVE ReworkStatus'
  <2>1. call[c].to \in {"REWORK_REQUIRED", "CANCELLED"} /\ call[c].w \in WorkOrders
    <3>1. <<call[c].handler, call[c].to>> \in OrderMoves /\ call[c].w \in WorkOrders
      BY <1>10, WritesStatus DEF rejectWorkOrder, OrderCall
    <3> QED BY <1>10, <3>1, OrderMoveFacts DEF rejectWorkOrder, At
  <2> QED BY <1>10, <2>1, ReworkWritten DEF rejectWorkOrder
<1>11. ASSUME NEW c \in Calls, reopenWorkOrder(c) PROVE ReworkStatus'
  <2>1. call[c].to = "IN_PROGRESS"
    <3>1. <<call[c].handler, call[c].to>> \in OrderMoves
      BY <1>11, WritesStatus DEF reopenWorkOrder, OrderCall
    <3> QED BY <1>11, <3>1, OrderMoveFacts DEF reopenWorkOrder, At
  <2> QED BY <1>11, <2>1 DEF reopenWorkOrder, SetStatus
<1>12. ASSUME NEW w \in WorkOrders, DecideByRule(w) PROVE ReworkStatus'
  BY <1>12 DEF DecideByRule
<1>13. ASSUME NEW c \in Calls, NEW move \in RequestMoves,
             ReadRequest(c, move)
      PROVE  ReworkStatus'
  BY <1>13 DEF ReadRequest
<1>14. ASSUME NEW c \in Calls, NEW key \in Keys,
             ReadForConversion(c, key)
      PROVE  ReworkStatus'
  BY <1>14 DEF ReadForConversion
<1>15. ASSUME NEW c \in Calls, NEW w \in WorkOrders, NEW move \in OrderMoves,
             ReadOrder(c, w, move)
      PROVE  ReworkStatus'
  BY <1>15 DEF ReadOrder
<1>16. ASSUME NEW c \in Calls, NEW w \in WorkOrders,
             ReadCancelled(c, w)
      PROVE  ReworkStatus'
  BY <1>16 DEF ReadCancelled
<1>17. ASSUME NEW c \in Calls,
             \/ guardedUpdate(c) \/ NotClaimed(c)
             \/ closeActiveLabourSessions(c) \/ startLabourSession(c)
             \/ enforceConfigurableApproval(c) \/ AutoClose(c)
             \/ StartFails(c) \/ Conflict(c) \/ DecideApproval(c)
             \/ reopenRequestAfterWorkOrderExit(c) \/ Fail(c)
      PROVE  ReworkStatus'
  BY <1>17 DEF guardedUpdate, NotClaimed, closeActiveLabourSessions,
    startLabourSession, enforceConfigurableApproval, AutoClose, StartFails,
    Conflict, DecideApproval, reopenRequestAfterWorkOrderExit, Fail
<1>18. ASSUME NEW w \in WorkOrders, update(w) PROVE ReworkStatus'
  BY <1>18 DEF update
<1>19. CASE UNCHANGED vars
  BY <1>19 DEF vars
<1> QED BY <1>1, <1>2, <1>3, <1>4, <1>5, <1>6, <1>7, <1>8, <1>9, <1>10, <1>11,
  <1>12, <1>13, <1>14, <1>15, <1>16, <1>17, <1>18, <1>19 DEF Next

(* Who holds the current version of a work order that is not sent back     *)
(* loses it when the work order is sent back.                              *)
LEMMA ReworkCallsStay ==
  ASSUME ReworkCalls,
         \A d \in Calls : call'[d].fresh /\ call'[d].to \in {"VERIFIED", "CLOSED", "COMPLETED"} =>
           \/ /\ call[d].fresh /\ call'[d].to = call[d].to /\ call'[d].w = call[d].w
              /\ call[d].w \in sentBack' => call[d].w \in sentBack
           \/ call'[d].w \notin sentBack'
  PROVE  ReworkCalls'
BY DEF ReworkCalls

(* No step gives the current version of what is sent back to who would     *)
(* verify, close or complete it.                                           *)
LEMMA ReworkCallsKept ==
  ASSUME RequestType, OrderType, CallType, CallInv, HistoryType, ReworkStatus,
         ReworkCalls, [Next]_vars
  PROVE  ReworkCalls'
<1> USE DEF request, order, confirmation, history, WriteStatus
<1>1. ASSUME NEW c \in Calls, NEW move \in RequestMoves, ReadRequest(c, move)
      PROVE ReworkCalls'
  <2>1. <<move[1], move[2]>> \in RequestMoves /\ "write" \in Steps
    BY DEF RequestMoves, Steps
  <2>2. Begin(c, "write", move, NoOrder, "none") /\ sentBack' = sentBack
    BY <1>1 DEF ReadRequest
  <2>3. NoOrder \notin sentBack
    BY OrderAssumption DEF HistoryType
  <2> QED BY <2>1, <2>2, <2>3, BeginShape, ReworkCallsStay
<1>2. ASSUME NEW c \in Calls, NEW key \in Keys, ReadForConversion(c, key)
      PROVE ReworkCalls'
  <2>1. <<ConvertMove[1], ConvertMove[2]>> \in {ConvertMove} /\ "write" \in Steps
    BY DEF ConvertMove, Steps
  <2>2. key \in {"none", "default", "custom"}
    BY KeyAssumption
  <2>3. Begin(c, "write", ConvertMove, NoOrder, key) /\ sentBack' = sentBack
    BY <1>2 DEF ReadForConversion
  <2>4. NoOrder \notin sentBack
    BY OrderAssumption DEF HistoryType
  <2> QED BY <2>1, <2>2, <2>3, <2>4, BeginShape, ReworkCallsStay
<1>3. ASSUME NEW c \in Calls, NEW w \in WorkOrders, NEW move \in OrderMoves,
      ReadOrder(c, w, move) PROVE ReworkCalls'
  <2>1. PICK step \in Steps \ {"exit"} :
          Begin(c, step, move, w,
                IF move[1] = "updateStatus" THEN lastIdempotencyKey[w] ELSE "none")
    BY <1>3 DEF ReadOrder, FirstSteps, StartSteps, CloseSteps, Steps
  <2>2. <<move[1], move[2]>> \in OrderMoves
    BY DEF OrderMoves, UpdateMoves
  <2>3. (IF move[1] = "updateStatus" THEN lastIdempotencyKey[w] ELSE "none")
          \in {"none", "default", "custom"}
    BY DEF OrderType
  <2>4. /\ call'[c].w = w /\ call'[c].to = move[2]
        /\ call'[c].fresh => move[1] \in Versioned
        /\ \A d \in Calls \ {c} : call'[d] = call[d]
    BY <2>1, <2>2, <2>3, BeginShape
  <2>5. sentBack' = sentBack /\ w \in Made /\ MayRun(move[1], w, move[2])
    BY <1>3 DEF ReadOrder
  <2>6. ASSUME move[1] \in Versioned, move[2] \in {"VERIFIED", "CLOSED", "COMPLETED"}
        PROVE  woStatus[w] \in {"TECHNICIAN_COMPLETED", "VERIFIED", "CLOSED", "COMPLETED"}
    <3>1. move[1] \in {"updateStatus", "verify", "confirm", "close"}
      BY <2>2, <2>6, OrderMoveFacts DEF Versioned
    <3>2. woStatus[w] \in WorkOrderStatus
      BY <2>5 DEF OrderType, Made
    <3>3. CASE move[1] = "updateStatus"
      BY <2>5, <2>6, <3>2, <3>3
        DEF MayRun, MayUpdateStatus, ALLOWED_STATUS_TRANSITIONS, WorkOrderStatus
    <3>4. CASE move[1] = "close"
      BY <2>5, <3>2, <3>4
        DEF MayRun, MayClose, ALLOWED_STATUS_TRANSITIONS, WorkOrderStatus
    <3>5. CASE move[1] \in {"verify", "confirm"}
      BY <2>5, <3>5 DEF MayRun, MayVerify, MayConfirm
    <3> QED BY <3>1, <3>3, <3>4, <3>5
  <2>7. move[1] \in Versioned /\ move[2] \in {"VERIFIED", "CLOSED", "COMPLETED"}
          => w \notin sentBack
    BY <2>6 DEF ReworkStatus
  <2> QED BY <2>4, <2>5, <2>7, ReworkCallsStay
<1>4. ASSUME NEW c \in Calls, NEW w \in WorkOrders, ReadCancelled(c, w) PROVE
      ReworkCalls'
  <2>1. <<"remove", "CANCELLED">> \in OrderMoves /\ "exit" \in Steps
    BY DEF OrderMoves, Steps
  <2>2. Begin(c, "exit", <<"remove", "CANCELLED">>, w, "none") /\ sentBack' = sentBack
    BY <1>4 DEF ReadCancelled
  <2>3. call'[c].to = "CANCELLED" /\ \A d \in Calls \ {c} : call'[d] = call[d]
    BY <2>1, <2>2, BeginShape
  <2> QED BY <2>2, <2>3, ReworkCallsStay
<1>5. ASSUME NEW c \in Calls, NEW w \in WorkOrders, convertToWorkOrder(c, w)
      PROVE ReworkCalls'
  <2>1. (Increment(NoOrder, c, Idle) \/ End(c)) /\ sentBack' = sentBack
    BY <1>5 DEF convertToWorkOrder
  <2> QED BY <2>1, IdleType, IncrementShape, EndShape, ReworkCallsStay DEF Idle
<1>6. ASSUME NEW c \in Calls, guardedUpdate(c) PROVE ReworkCalls'
  <2>1. (Increment(NoOrder, c, Idle) \/ End(c)) /\ sentBack' = sentBack
    BY <1>6 DEF guardedUpdate
  <2> QED BY <2>1, IdleType, IncrementShape, EndShape, ReworkCallsStay DEF Idle
<1>7. ASSUME NEW c \in Calls, NotClaimed(c) PROVE ReworkCalls'
  <2>1. End(c) /\ sentBack' = sentBack
    BY <1>7 DEF NotClaimed
  <2> QED BY <2>1, EndShape, ReworkCallsStay DEF Idle
<1>8. ASSUME NEW c \in Calls, closeActiveLabourSessions(c) PROVE ReworkCalls'
  <2>1. "write" \in Steps /\ sentBack' = sentBack
    BY <1>8 DEF Steps, closeActiveLabourSessions
  <2>2. CASE Goto(c, "write")
    BY <2>1, <2>2, GotoShape, ReworkCallsStay
  <2> QED BY <1>8, <2>2 DEF closeActiveLabourSessions
<1>9. ASSUME NEW c \in Calls, startLabourSession(c) PROVE ReworkCalls'
  <2>1. "write" \in Steps /\ sentBack' = sentBack
    BY <1>9 DEF Steps, startLabourSession
  <2>2. CASE Goto(c, "write")
    BY <2>1, <2>2, GotoShape, ReworkCallsStay
  <2>3. CASE End(c)
    BY <2>1, <2>3, EndShape, ReworkCallsStay DEF Idle
  <2> QED BY <1>9, <2>2, <2>3 DEF startLabourSession
<1>10. ASSUME NEW c \in Calls, enforceConfigurableApproval(c) PROVE
      ReworkCalls'
  <2>1. End(c) /\ sentBack' = sentBack
    BY <1>10 DEF enforceConfigurableApproval
  <2> QED BY <2>1, EndShape, ReworkCallsStay DEF Idle
<1>11. ASSUME NEW c \in Calls, AutoClose(c) PROVE ReworkCalls'
  <2>1. "write" \in Steps /\ sentBack' = sentBack
    BY <1>11 DEF Steps, AutoClose
  <2>2. CASE Goto(c, "write")
    BY <2>1, <2>2, GotoShape, ReworkCallsStay
  <2> QED BY <1>11, <2>2 DEF AutoClose
<1>12. ASSUME NEW c \in Calls, StartFails(c) PROVE ReworkCalls'
  <2>1. End(c) /\ sentBack' = sentBack
    BY <1>12 DEF StartFails
  <2> QED BY <2>1, EndShape, ReworkCallsStay DEF Idle
<1>13. ASSUME NEW c \in Calls, planWork(c) PROVE ReworkCalls'
  <2>1. Increment(call[c].w, c, Idle) /\ sentBack' \subseteq sentBack \cup {call[c].w}
    BY <1>13 DEF planWork, Remember
  <2> QED BY <2>1, IdleType, IncrementShape, ReworkCallsStay DEF Idle
<1>14. ASSUME NEW c \in Calls, assign(c) PROVE ReworkCalls'
  <2>1. Increment(call[c].w, c, Idle) /\ sentBack' \subseteq sentBack \cup {call[c].w}
    BY <1>14 DEF assign, Remember
  <2> QED BY <2>1, IdleType, IncrementShape, ReworkCallsStay DEF Idle
<1>15. ASSUME NEW c \in Calls, closeWorkOrder(c) PROVE ReworkCalls'
  <2>1. Increment(call[c].w, c, Idle) /\ sentBack' \subseteq sentBack \cup {call[c].w}
    BY <1>15 DEF closeWorkOrder, Remember
  <2> QED BY <2>1, IdleType, IncrementShape, ReworkCallsStay DEF Idle
<1>16. ASSUME NEW c \in Calls, updateStatus(c) PROVE ReworkCalls'
  <2>1. /\ Increment(call[c].w, c, AfterWrite(c))
        /\ sentBack' \subseteq sentBack \cup {call[c].w}
    BY <1>16 DEF updateStatus, Remember
  <2>2. AfterWrite(c) \in Call /\ ~ AfterWrite(c).fresh
    BY IdleType, ExitShape DEF AfterWrite, Idle
  <2> QED BY <2>1, <2>2, IncrementShape, ReworkCallsStay
<1>17. ASSUME NEW c \in Calls, verifySupervisor(c) PROVE ReworkCalls'
  <2>1. Increment(call[c].w, c, Idle) /\ sentBack' \subseteq sentBack \cup {call[c].w}
    BY <1>17 DEF verifySupervisor, Remember
  <2> QED BY <2>1, IdleType, IncrementShape, ReworkCallsStay DEF Idle
<1>18. ASSUME NEW c \in Calls, applyRequesterConfirmation(c) PROVE
      ReworkCalls'
  <2>1. Increment(call[c].w, c, Idle) /\ sentBack' \subseteq sentBack \cup {call[c].w}
    BY <1>18 DEF applyRequesterConfirmation, Remember
  <2> QED BY <2>1, IdleType, IncrementShape, ReworkCallsStay DEF Idle
<1>19. ASSUME NEW c \in Calls, Conflict(c) PROVE ReworkCalls'
  <2>1. End(c) /\ sentBack' = sentBack
    BY <1>19 DEF Conflict
  <2> QED BY <2>1, EndShape, ReworkCallsStay DEF Idle
<1>20. ASSUME NEW c \in Calls, rejectSupervisor(c) PROVE ReworkCalls'
  <2>1. Increment(call[c].w, c, Idle) /\ sentBack' \subseteq sentBack \cup {call[c].w}
    BY <1>20 DEF rejectSupervisor, Remember
  <2> QED BY <2>1, IdleType, IncrementShape, ReworkCallsStay DEF Idle
<1>21. ASSUME NEW c \in Calls, remove(c) PROVE ReworkCalls'
  <2>1. call[c].to = "CANCELLED"
    BY <1>21, CancelsOrder DEF remove
  <2>2. call' = [call EXCEPT ![c] = ThenExit(c)] /\ sentBack' = sentBack
    BY <1>21, <2>1 DEF remove, Remember
  <2>3. call'[c] = ThenExit(c) /\ \A d \in Calls \ {c} : call'[d] = call[d]
    BY <2>2 DEF CallType
  <2>4. ThenExit(c).fresh = FALSE
    BY ExitShape
  <2> QED BY <2>2, <2>3, <2>4, ReworkCallsStay
<1>22. ASSUME NEW c \in Calls, rejectWorkOrder(c) PROVE ReworkCalls'
  <2>1. call[c].to = "CANCELLED"
    BY <1>22, CancelsOrder DEF rejectWorkOrder
  <2>2. call' = [call EXCEPT ![c] = ThenExit(c)] /\ sentBack' = sentBack
    BY <1>22, <2>1 DEF rejectWorkOrder, Remember
  <2>3. call'[c] = ThenExit(c) /\ \A d \in Calls \ {c} : call'[d] = call[d]
    BY <2>2 DEF CallType
  <2>4. ThenExit(c).fresh = FALSE
    BY ExitShape
  <2> QED BY <2>2, <2>3, <2>4, ReworkCallsStay
<1>23. ASSUME NEW c \in Calls, reopenWorkOrder(c) PROVE ReworkCalls'
  <2>1. End(c) /\ sentBack' = sentBack
    BY <1>23 DEF reopenWorkOrder
  <2> QED BY <2>1, EndShape, ReworkCallsStay DEF Idle
<1>24. ASSUME NEW c \in Calls, DecideApproval(c) PROVE ReworkCalls'
  <2>1. End(c) /\ sentBack' = sentBack
    BY <1>24 DEF DecideApproval
  <2> QED BY <2>1, EndShape, ReworkCallsStay DEF Idle
<1>25. ASSUME NEW c \in Calls, reopenRequestAfterWorkOrderExit(c) PROVE
      ReworkCalls'
  <2>1. (Increment(NoOrder, c, Idle) \/ End(c)) /\ sentBack' = sentBack
    BY <1>25 DEF reopenRequestAfterWorkOrderExit
  <2> QED BY <2>1, IdleType, IncrementShape, EndShape, ReworkCallsStay DEF Idle
<1>26. ASSUME NEW c \in Calls, Fail(c) PROVE ReworkCalls'
  <2>1. End(c) /\ sentBack' = sentBack
    BY <1>26 DEF Fail
  <2> QED BY <2>1, EndShape, ReworkCallsStay DEF Idle
<1>27. ASSUME NEW w \in WorkOrders, update(w) PROVE ReworkCalls'
  <2>1. sentBack' = sentBack
    BY <1>27 DEF update
  <2> QED BY <1>27, <2>1, UpdateShape, ReworkCallsStay
<1>28. ASSUME NEW w \in WorkOrders, DecideByRule(w) PROVE ReworkCalls'
  BY <1>28 DEF DecideByRule, ReworkCalls
<1>29. CASE UNCHANGED vars
  BY <1>29 DEF vars, ReworkCalls
<1> QED BY <1>1, <1>2, <1>3, <1>4, <1>5, <1>6, <1>7, <1>8, <1>9, <1>10, <1>11,
  <1>12, <1>13, <1>14, <1>15, <1>16, <1>17, <1>18, <1>19, <1>20, <1>21, <1>22,
  <1>23, <1>24, <1>25, <1>26, <1>27, <1>28, <1>29 DEF Next

----------------------------------------------------------------------------
(* The parts are all of TypeOK.                                            *)
LEMMA TypeParts == Types <=> TypeOK
BY DEF Types, TypeOK, RequestType, OrderType, HistoryType, CallType

(* The invariant is inductive.                                             *)
LEMMA InitIInv == Init => IInv
<1> SUFFICES ASSUME Init PROVE IInv
  OBVIOUS
<1>1. RequestType
  BY DEF Init, RequestType, RequestStatus
<1>2. OrderType /\ HistoryType
  BY DEF Init, OrderType, HistoryType
<1>3. CallType /\ \A c \in Calls : call[c] = Idle
  BY IdleType DEF Init, CallType
<1>4. CallInv /\ LinkInv
  BY <1>3 DEF Init, CallInv, LinkInv, FreshInv, ConvertedIffLinked, Idle
<1>5. JobInv
  BY <1>3 DEF Init, JobInv, KeyInv, CancelInv, ExitInv, OneJobPerIssue, Idle, Made
<1> QED BY <1>1, <1>2, <1>3, <1>4, <1>5 DEF IInv, Types

(* Every step keeps it.                                                     *)
LEMMA NextIInv == IInv /\ [Next]_vars => IInv'
<1> SUFFICES ASSUME IInv, [Next]_vars PROVE IInv'
  OBVIOUS
<1> USE DEF IInv, Types, LinkInv, JobInv
<1>1. Types'
  BY RequestTypes, OrderTypes, HistoryTypes, CallTypes
<1>2. CallInv'
  BY CallsKept
<1>3. LinkInv'
  BY FreshInvKept, LinkKept
<1>4. JobInv'
  BY KeysKept, CancelsKept, ExitsKept, OneJobKept
<1> QED BY <1>1, <1>2, <1>3, <1>4

(* So it holds in every reachable state.                                   *)
LEMMA Invariance == Spec => []IInv
BY InitIInv, NextIInv, PTL DEF Spec

(* Every variable has its type in every reachable state, whatever handlers *)
(* the calls run and however their statements interleave.                  *)
THEOREM TypeCorrect == Spec => []TypeOK
<1>1. IInv => TypeOK
  BY TypeParts DEF IInv
<1> QED BY Invariance, <1>1, PTL

(* A request is linked to a work order exactly while it is converted: a    *)
(* guardedUpdate that still finds the version it read never leaves the     *)
(* converted status, which only the exit of the linked work order does.    *)
THEOREM LinkedWhileConverted == Spec => []ConvertedIffLinked
<1>1. IInv => ConvertedIffLinked
  BY DEF IInv, LinkInv
<1> QED BY Invariance, <1>1, PTL

(* A request that was cancelled or closed stays so: whoever read it before *)
(* has lost its version, the conversion claims approved requests only, and *)
(* an exit takes up converted ones only.                                   *)
THEOREM EndedStays == Spec => EndedRequestStaysEnded
<1>1. IInv /\ [Next]_vars => [(status \in {"CANCELLED", "CLOSED"}) => status' = status]_vars
  BY EndedKept DEF IInv, Types, LinkInv
<1> QED BY Invariance, <1>1, PTL DEF Spec, EndedRequestStaysEnded

(* Of the work orders made from an issue, all but the linked one were      *)
(* cancelled or rejected, for any number of conversions and exits          *)
(* (convertToWorkOrder, reopenRequestAfterWorkOrderExit).                  *)
THEOREM OneJob == Spec => []OneJobPerIssue
<1>1. IInv => OneJobPerIssue
  BY DEF IInv, JobInv
<1> QED BY Invariance, <1>1, PTL

(* The same for the invariant of rework, where the version is sent.        *)
LEMMA NextRework ==
  ASSUME SendsVersion = TRUE
  PROVE  IInv /\ ReworkInv /\ [Next]_vars => ReworkInv'
BY ReworkStatusKept, ReworkCallsKept DEF IInv, Types, ReworkInv

(* What was sent back for rework is not verified, closed or completed      *)
(* before the technician has completed it again, as long as the calls that *)
(* may omit the version they read do send it (closeWorkOrder).             *)
THEOREM ReworkDone ==
  ASSUME SendsVersion = TRUE
  PROVE  Spec => []ReworkIsDone
<1>1. Init => ReworkInv
  BY DEF Init, ReworkInv, ReworkStatus, ReworkCalls
<1>2. IInv /\ ReworkInv /\ [Next]_vars => ReworkInv'
  BY NextRework
<1>3. ReworkInv => ReworkIsDone
  BY DEF ReworkInv, ReworkStatus, ReworkIsDone
<1> QED BY Invariance, <1>1, <1>2, <1>3, PTL DEF Spec

=============================================================================
