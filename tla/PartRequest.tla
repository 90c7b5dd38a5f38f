---------------------------- MODULE PartRequest ----------------------------
(***************************************************************************)
(* One spare part requested for one job, from the request to the returned  *)
(* parts: the PartRequest row (work-orders.service.ts), its WorkOrderPart  *)
(* line (work-order-parts.service.ts) and the verified stock it is issued  *)
(* from, in stores MaintainPro owns (owned-stock.ts).  A call reads,       *)
(* decides and writes in separate statements; of a call only the issue and *)
(* the confirmation of a return run in a transaction.  The issue holds the *)
(* balance row it has read (UPDLOCK) until it commits.                     *)
(***************************************************************************)
EXTENDS Integers

CONSTANTS Calls,           \* calls of the API about this request and its job
          Creator,         \* the call that makes the request
          Inputs,          \* what calls are made with
          Requested,       \* requestedQuantity
          RequiresFinance, \* requiresFinanceApproval
          AutoApprove,     \* the job itself is already approved
          Warehouses,      \* warehouses with verified stock
          InitialStock,    \* verified available quantity of each
          NoCall           \* nobody holds the row

ReadRequestOps == {"approve", "approveFinance", "reject", "cancel", "issue"}
ReadLineOps == {"use", "requestReturn", "confirmReturn"}
JobOps == {"close", "cancelJob"}
Ops == {"create", "receive", "stockOut"}
       \cup ReadRequestOps \cup ReadLineOps \cup JobOps

\* good: the parts come back UNUSED or as WRONG_PART, not damaged or scrap.
InputType == [op: Ops, qty: Nat \ {0}, wh: Warehouses, good: BOOLEAN]

ASSUME PartRequestAssumption ==
  /\ Creator \in Calls /\ NoCall \notin Calls
  /\ Requested \in Nat \ {0}
  /\ RequiresFinance \in BOOLEAN /\ AutoApprove \in BOOLEAN
  /\ InitialStock \in [Warehouses -> Nat]
  /\ Inputs \subseteq InputType
  /\ \A i \in Inputs : i.op = "create" => i.qty = Requested

VARIABLES
  pc, call, wh,                 \* how far each call got, and its warehouse
  seenApproved, seenIssued,     \* what a call read of the request
  consume, seenLine,            \* what a call read of the line
  status, approved, issued,     \* PartRequest; approved = 0 stands for null
  hasLine, line,                \* WorkOrderPart
  job,                          \* the status of the work order
  stock, lock, lastFrom,        \* verified stock, row locks, last OUT movement
  returnEvents,                 \* ids of the part-return outbox events
  handedOut, goodIn, restocked  \* history: units issued, handed in, restocked

seenVars == <<seenApproved, seenIssued, consume, seenLine>>
requestVars == <<status, approved, issued>>
lineVars == <<hasLine, line>>
stockVars == <<stock, lock, lastFrom>>
history == <<handedOut, goodIn, restocked>>
vars == <<pc, call, wh, seenVars, requestVars, lineVars, job, stockVars,
          returnEvents, history>>

Line == [reserved: Int, issued: Nat, used: Nat, returned: Nat, damaged: Nat,
         pending: Nat, good: BOOLEAN]
NewLine == [reserved |-> 0, issued |-> 0, used |-> 0, returned |-> 0,
            damaged |-> 0, pending |-> 0, good |-> TRUE]

IssuedStatuses == {"ISSUED", "PARTIALLY_ISSUED"}
WithdrawnStatuses == {"REJECTED", "CANCELLED"}
Statuses == {"NONE", "PENDING_OPERATIONAL", "PENDING_FINANCE", "APPROVED"}
            \cup IssuedStatuses \cup WithdrawnStatuses
Over == {"done", "refused", "dead"}
Stages == {"start", "line", "approve", "reserve", "withdraw", "release",
           "closeLine", "issueLine", "choose", "lock", "fresh", "commit",
           "syncRead", "syncWrite", "write", "exit", "releaseJob"} \cup Over

Init ==
  /\ call \in [Calls -> Inputs]
  /\ \A c \in Calls : call[c].op = "create" <=> c = Creator
  /\ pc = [c \in Calls |-> "start"]
  /\ wh = [c \in Calls |-> call[c].wh]
  /\ seenApproved = [c \in Calls |-> 0]
  /\ seenIssued = [c \in Calls |-> 0]
  /\ consume = [c \in Calls |-> FALSE]
  /\ seenLine = [c \in Calls |-> NewLine]
  /\ status = "NONE" /\ approved = 0 /\ issued = 0
  /\ hasLine = FALSE /\ line = NewLine
  /\ job = "open"
  /\ stock = InitialStock
  /\ lock = [w \in Warehouses |-> NoCall]
  /\ lastFrom = call[Creator].wh
  /\ returnEvents = {}
  /\ handedOut = 0 /\ goodIn = 0 /\ restocked = 0

GoTo(c, stage) == pc' = [pc EXCEPT ![c] = stage]

ApprovedQuantity == IF approved = 0 THEN Requested ELSE approved

----------------------------------------------------------------------------
(* createPartRequest.                                                      *)

\* selectVerifiedWarehouse: the store with most free stock.
Best(w) == \A v \in Warehouses : stock[v] <= stock[w]

\* The check against the stock, and the PENDING request with its approvals.
CreateRequest(c) ==
  /\ pc[c] = "start" /\ call[c].op = "create"
  /\ IF \E w \in Warehouses : Best(w) /\ Requested <= stock[w]
     THEN status' = "PENDING_OPERATIONAL" /\ GoTo(c, "line")
     ELSE UNCHANGED status /\ GoTo(c, "refused")
  /\ UNCHANGED <<call, wh, seenVars, approved, issued, lineVars, job, stockVars,
                 returnEvents, history>>

\* createRequestedLine, and whether autoApprovePartRequest follows.
CreateLine(c) ==
  /\ pc[c] = "line"
  /\ hasLine' = TRUE
  /\ GoTo(c, IF AutoApprove /\ ~RequiresFinance THEN "approve" ELSE "done")
  /\ UNCHANGED <<call, wh, seenVars, requestVars, line, job, stockVars,
                 returnEvents, history>>

----------------------------------------------------------------------------
(* Approval, rejection and cancellation.                                   *)

\* What each operation asks of the request it has read.
MayApprove(c) == status = "PENDING_OPERATIONAL" /\ call[c].qty <= Requested

MayApproveFinance(c) == status = "PENDING_FINANCE" /\ call[c].qty <= Requested

MayReject == status \notin IssuedStatuses

MayCancel == status \notin IssuedStatuses \cup WithdrawnStatuses /\ issued = 0

MayIssue(c) ==
  /\ job = "open"
  /\ status \in {"APPROVED", "PARTIALLY_ISSUED"}
  /\ call[c].qty <= ApprovedQuantity - issued

RequestAllows(c) ==
  \/ call[c].op = "approve" /\ MayApprove(c)
  \/ call[c].op = "approveFinance" /\ MayApproveFinance(c)
  \/ call[c].op = "reject" /\ MayReject
  \/ call[c].op = "cancel" /\ MayCancel
  \/ call[c].op = "issue" /\ MayIssue(c)

AfterRead(op) ==
  IF op \in {"approve", "approveFinance"} THEN "approve"
  ELSE IF op = "issue" THEN "issueLine" ELSE "withdraw"

\* getPartRequest and the checks.
ReadRequest(c) ==
  /\ pc[c] = "start" /\ call[c].op \in ReadRequestOps
  /\ status # "NONE"
  /\ GoTo(c, IF RequestAllows(c) THEN AfterRead(call[c].op) ELSE "refused")
  /\ seenApproved' = [seenApproved EXCEPT ![c] = ApprovedQuantity]
  /\ UNCHANGED <<call, wh, seenIssued, consume, seenLine, requestVars, lineVars,
                 job, stockVars, returnEvents, history>>

\* The approval is written whatever the status has become since the read.
Approve(c) ==
  LET next == IF call[c].op = "approve" /\ RequiresFinance
              THEN "PENDING_FINANCE" ELSE "APPROVED"
  IN /\ pc[c] = "approve"
     /\ status' = next
     /\ approved' = call[c].qty
     /\ GoTo(c, IF next = "APPROVED" THEN "reserve" ELSE "done")
     /\ UNCHANGED <<call, wh, seenVars, issued, lineVars, job, stockVars,
                    returnEvents, history>>

\* reserveApprovedPartRequest: an updateMany, which may find no line.
Reserve(c) ==
  /\ pc[c] = "reserve"
  /\ line' = IF hasLine THEN [line EXCEPT !.reserved = call[c].qty] ELSE line
  /\ GoTo(c, "done")
  /\ UNCHANGED <<call, wh, seenVars, requestVars, hasLine, job, stockVars,
                 returnEvents, history>>

Withdraw(c) ==
  /\ pc[c] = "withdraw"
  /\ status' = IF call[c].op = "reject" THEN "REJECTED" ELSE "CANCELLED"
  /\ GoTo(c, "release")
  /\ UNCHANGED <<call, wh, seenVars, approved, issued, lineVars, job, stockVars,
                 returnEvents, history>>

DropReservation ==
  line' = IF hasLine /\ line.reserved > 0 THEN [line EXCEPT !.reserved = 0]
          ELSE line

\* releaseReservedPartRequest.
Release(c) ==
  /\ pc[c] = "release"
  /\ DropReservation
  /\ GoTo(c, "closeLine")
  /\ UNCHANGED <<call, wh, seenVars, requestVars, hasLine, job, stockVars,
                 returnEvents, history>>

\* syncRejectedLine.
CloseLine(c) ==
  /\ pc[c] = "closeLine"
  /\ line' = IF hasLine THEN [line EXCEPT !.reserved = 0] ELSE line
  /\ GoTo(c, "done")
  /\ UNCHANGED <<call, wh, seenVars, requestVars, hasLine, job, stockVars,
                 returnEvents, history>>

----------------------------------------------------------------------------
(* issuePartRequest.                                                       *)

\* Whether the reservation covers the issue is decided before the transaction.
ReadReservation(c) ==
  /\ pc[c] = "issueLine"
  /\ consume' = [consume EXCEPT
                   ![c] = hasLine /\ line.reserved >= call[c].qty]
  /\ GoTo(c, "choose")
  /\ UNCHANGED <<call, wh, seenApproved, seenIssued, seenLine, requestVars,
                 lineVars, job, stockVars, returnEvents, history>>

\* selectVerifiedWarehouse.
ChooseWarehouse(c) ==
  /\ pc[c] = "choose"
  /\ \E w \in Warehouses : Best(w) /\ wh' = [wh EXCEPT ![c] = w]
  /\ GoTo(c, "lock")
  /\ UNCHANGED <<call, seenVars, requestVars, lineVars, job, stockVars,
                 returnEvents, history>>

\* Fault: the balance is read without UPDLOCK.
LockBalance_Unlocked(c) ==
  /\ pc[c] = "lock"
  /\ GoTo(c, IF call[c].qty <= stock[wh[c]] THEN "fresh" ELSE "refused")
  /\ UNCHANGED <<call, wh, seenVars, requestVars, lineVars, job, stockVars,
                 returnEvents, history>>

\* lockBalance, which waits for the row, and the check of what is available.
LockBalance(c) ==
  LET w == wh[c]
  IN /\ pc[c] = "lock"
     /\ lock[w] = NoCall
     /\ IF call[c].qty <= stock[w]
        THEN lock' = [lock EXCEPT ![w] = c] /\ GoTo(c, "fresh")
        ELSE UNCHANGED lock /\ GoTo(c, "refused")
     /\ UNCHANGED <<call, wh, seenVars, requestVars, lineVars, job, stock,
                    lastFrom, returnEvents, history>>

Unlocked(c) == [w \in Warehouses |-> IF lock[w] = c THEN NoCall ELSE lock[w]]

\* Fault: what is left is not checked again under the lock.
ReadFresh_Trusting(c) ==
  /\ pc[c] = "fresh"
  /\ seenIssued' = [seenIssued EXCEPT ![c] = issued]
  /\ GoTo(c, "commit")
  /\ UNCHANGED <<call, wh, seenApproved, consume, seenLine, requestVars,
                 lineVars, job, stockVars, returnEvents, history>>

\* The request is read again under the lock; its status is not looked at.
ReadFresh(c) ==
  /\ pc[c] = "fresh"
  /\ IF call[c].qty <= ApprovedQuantity - issued
     THEN /\ seenIssued' = [seenIssued EXCEPT ![c] = issued]
          /\ GoTo(c, "commit")
          /\ UNCHANGED lock
     ELSE /\ lock' = Unlocked(c)
          /\ GoTo(c, "refused")
          /\ UNCHANGED seenIssued
  /\ UNCHANGED <<call, wh, seenApproved, consume, seenLine, requestVars,
                 lineVars, job, stock, lastFrom, returnEvents, history>>

\* The commit: the issue with its consumption event, the owned stock, the
\* request (its quantity from the read under the lock, its status by the
\* approved quantity of the first read) and the reservation.
CommitIssue(c) ==
  LET qty == call[c].qty
      w == wh[c]
      total == seenIssued[c] + qty
  IN /\ pc[c] = "commit"
     /\ issued' = total
     /\ status' = IF total >= seenApproved[c] THEN "ISSUED"
                  ELSE "PARTIALLY_ISSUED"
     /\ line' = IF consume[c] THEN [line EXCEPT !.reserved = @ - qty] ELSE line
     /\ stock' = [stock EXCEPT ![w] = @ - qty]
     /\ lastFrom' = w
     /\ lock' = Unlocked(c)
     /\ handedOut' = handedOut + qty
     /\ GoTo(c, "syncRead")
     /\ UNCHANGED <<call, wh, seenVars, approved, hasLine, job, returnEvents,
                    goodIn, restocked>>

\* syncIssuedLine: the line is read, and written with what was read.
ReadIssuedLine(c) ==
  /\ pc[c] = "syncRead"
  /\ seenLine' = [seenLine EXCEPT ![c] = line]
  /\ GoTo(c, IF hasLine THEN "syncWrite" ELSE "done")
  /\ UNCHANGED <<call, wh, seenApproved, seenIssued, consume, requestVars,
                 lineVars, job, stockVars, returnEvents, history>>

\* Fault: the requested quantity is added instead of the issued one.
WriteIssuedLine_Requested(c) ==
  /\ pc[c] = "syncWrite"
  /\ line' = [line EXCEPT !.issued = seenLine[c].issued + Requested]
  /\ GoTo(c, "done")
  /\ UNCHANGED <<call, wh, seenVars, requestVars, hasLine, job, stockVars,
                 returnEvents, history>>

WriteIssuedLine(c) ==
  /\ pc[c] = "syncWrite"
  /\ line' = [line EXCEPT !.issued = seenLine[c].issued + call[c].qty]
  /\ GoTo(c, "done")
  /\ UNCHANGED <<call, wh, seenVars, requestVars, hasLine, job, stockVars,
                 returnEvents, history>>

----------------------------------------------------------------------------
(* Use and return of issued parts.                                         *)

Consumed(l) == l.used + l.returned + l.damaged + l.pending

\* What each operation asks of the line it has read.
MayUse(c) ==
  line.issued > 0 /\ Consumed(line) + call[c].qty <= line.issued

MayRequestReturn(c) == call[c].qty <= line.issued - Consumed(line)

\* Fault: a confirmation is not compared with what is pending.
MayConfirm_Any(c) == TRUE

MayConfirm(c) == call[c].qty <= line.pending

\* getLine, with assertQuantityBalance.
LineAllows(c) ==
  /\ hasLine /\ job = "open"
  /\ Consumed(line) <= line.issued
  /\ \/ call[c].op = "use" /\ MayUse(c)
     \/ call[c].op = "requestReturn" /\ MayRequestReturn(c)
     \/ call[c].op = "confirmReturn" /\ MayConfirm(c)

ReadLine(c) ==
  /\ pc[c] = "start" /\ call[c].op \in ReadLineOps
  /\ status # "NONE"
  /\ seenLine' = [seenLine EXCEPT ![c] = line]
  /\ GoTo(c, IF LineAllows(c) THEN "write" ELSE "refused")
  /\ UNCHANGED <<call, wh, seenApproved, seenIssued, consume, requestVars,
                 lineVars, job, stockVars, returnEvents, history>>

markUsed(c) ==
  /\ pc[c] = "write" /\ call[c].op = "use"
  /\ line' = [line EXCEPT !.used = seenLine[c].used + call[c].qty]
  /\ GoTo(c, "done")
  /\ UNCHANGED <<call, wh, seenVars, requestVars, hasLine, job, stockVars,
                 returnEvents, history>>

\* requestReturn: the condition of this return becomes that of all pending.
requestReturn(c) ==
  /\ pc[c] = "write" /\ call[c].op = "requestReturn"
  /\ line' = [line EXCEPT !.pending = seenLine[c].pending + call[c].qty,
                          !.good = call[c].good]
  /\ goodIn' = goodIn + (IF call[c].good THEN call[c].qty ELSE 0)
  /\ GoTo(c, "done")
  /\ UNCHANGED <<call, wh, seenVars, requestVars, hasLine, job, stockVars,
                 returnEvents, handedOut, restocked>>

\* Fault: every return event gets an id of its own.
EventTaken_Never(c) == FALSE

\* The event id is built from the returned quantity that was read, and unique.
EventTaken(c) == seenLine[c].returned \in returnEvents

\* confirmReturn, its transaction: good parts get an event and go back to the
\* store of the last issue, whose row an issue may be holding.
confirmReturn(c) ==
  LET qty == call[c].qty
      l == seenLine[c]
      back == [line EXCEPT !.pending = l.pending - qty,
                           !.returned = l.returned + (IF l.good THEN qty ELSE 0),
                           !.damaged = l.damaged + (IF l.good THEN 0 ELSE qty)]
  IN /\ pc[c] = "write" /\ call[c].op = "confirmReturn"
     /\ IF l.good /\ EventTaken(c)
        THEN /\ GoTo(c, "refused")
             /\ UNCHANGED <<line, stock, returnEvents, restocked>>
        ELSE /\ GoTo(c, "done")
             /\ line' = back
             /\ IF l.good
                THEN /\ lock[lastFrom] = NoCall
                     /\ returnEvents' = returnEvents \cup {l.returned}
                     /\ restocked' = restocked + qty
                     /\ stock' = [stock EXCEPT ![lastFrom] = @ + qty]
                ELSE UNCHANGED <<stock, returnEvents, restocked>>
     /\ UNCHANGED <<call, wh, seenVars, requestVars, hasLine, job, lock,
                    lastFrom, handedOut, goodIn>>

----------------------------------------------------------------------------
(* The job ends, and goods come in.                                        *)

\* closeWorkOrder refuses while a return is pending.
closeWorkOrder(c) ==
  /\ pc[c] = "start" /\ call[c].op = "close"
  /\ status # "NONE"
  /\ GoTo(c, IF job = "closed" THEN "done"
             ELSE IF job = "open" /\ line.pending = 0 THEN "exit" ELSE "refused")
  /\ UNCHANGED <<call, wh, seenVars, requestVars, lineVars, job, stockVars,
                 returnEvents, history>>

\* remove does not ask; of a job already cancelled it repeats what follows.
remove(c) ==
  /\ pc[c] = "start" /\ call[c].op = "cancelJob"
  /\ status # "NONE"
  /\ GoTo(c, IF job = "cancelled" THEN "releaseJob"
             ELSE IF job = "open" THEN "exit" ELSE "refused")
  /\ UNCHANGED <<call, wh, seenVars, requestVars, lineVars, job, stockVars,
                 returnEvents, history>>

ExitJob(c) ==
  /\ pc[c] = "exit"
  /\ job' = IF call[c].op = "close" THEN "closed" ELSE "cancelled"
  /\ GoTo(c, "releaseJob")
  /\ UNCHANGED <<call, wh, seenVars, requestVars, lineVars, stockVars,
                 returnEvents, history>>

\* releaseWorkOrderReservations.
ReleaseJob(c) ==
  /\ pc[c] = "releaseJob"
  /\ DropReservation
  /\ GoTo(c, "done")
  /\ UNCHANGED <<call, wh, seenVars, requestVars, hasLine, job, stockVars,
                 returnEvents, history>>

\* Goods in raise the stock of a warehouse; the engine's UPDATE of the row
\* waits for an issue that holds it.
Receive(c) ==
  /\ pc[c] = "start" /\ call[c].op = "receive"
  /\ lock[call[c].wh] = NoCall
  /\ stock' = [stock EXCEPT ![call[c].wh] = @ + call[c].qty]
  /\ GoTo(c, "done")
  /\ UNCHANGED <<call, wh, seenVars, requestVars, lineVars, job, lock, lastFrom,
                 returnEvents, history>>

\* inventory.stockOut for another job takes from the same stores, its check and
\* its update in one serializable transaction.
StockOut(c) ==
  /\ pc[c] = "start" /\ call[c].op = "stockOut"
  /\ \E w \in Warehouses :
       /\ Best(w) /\ lock[w] = NoCall
       /\ IF call[c].qty <= stock[w]
          THEN /\ stock' = [stock EXCEPT ![w] = @ - call[c].qty]
               /\ GoTo(c, "done")
          ELSE UNCHANGED stock /\ GoTo(c, "refused")
  /\ UNCHANGED <<call, wh, seenVars, requestVars, lineVars, job, lock, lastFrom,
                 returnEvents, history>>

\* The process dies or a statement fails: an open transaction is rolled back,
\* what was written before stays.
Die(c) ==
  /\ pc[c] \notin Over \cup {"start"}
  /\ GoTo(c, "dead")
  /\ lock' = Unlocked(c)
  /\ UNCHANGED <<call, wh, seenVars, requestVars, lineVars, job, stock, lastFrom,
                 returnEvents, history>>

----------------------------------------------------------------------------
Step(c) ==
  \/ CreateRequest(c) \/ CreateLine(c) \/ ReadRequest(c) \/ Approve(c)
  \/ Reserve(c) \/ Withdraw(c) \/ Release(c) \/ CloseLine(c)
  \/ ReadReservation(c) \/ ChooseWarehouse(c) \/ LockBalance(c)
  \/ ReadFresh(c) \/ CommitIssue(c) \/ ReadIssuedLine(c) \/ WriteIssuedLine(c)
  \/ ReadLine(c) \/ markUsed(c) \/ requestReturn(c) \/ confirmReturn(c)
  \/ closeWorkOrder(c) \/ remove(c) \/ ExitJob(c) \/ ReleaseJob(c)
  \/ Receive(c) \/ StockOut(c)

\* Nothing is left to do, or there is no request to do it with.
Terminated ==
  /\ \A c \in Calls : pc[c] \in Over \/ (status = "NONE" /\ pc[Creator] \in Over)
  /\ UNCHANGED vars

Next == (\E c \in Calls : Step(c) \/ Die(c)) \/ Terminated

Spec == Init /\ [][Next]_vars

\* A statement that was sent returns and the method goes on; who waits for a
\* row gets it once it is free.
FairSpec == Spec /\ \A c \in Calls : WF_vars(Step(c))

----------------------------------------------------------------------------
(* Properties.                                                             *)

\* Every variable has its type.  Pending returns stay natural numbers although
\* calls write them from old readings of the line.
TypeOK ==
  /\ pc \in [Calls -> Stages]
  /\ call \in [Calls -> Inputs]
  /\ wh \in [Calls -> Warehouses]
  /\ seenApproved \in [Calls -> Nat]
  /\ seenIssued \in [Calls -> Nat]
  /\ consume \in [Calls -> BOOLEAN]
  /\ seenLine \in [Calls -> Line]
  /\ status \in Statuses
  /\ approved \in Nat /\ issued \in Nat
  /\ hasLine \in BOOLEAN
  /\ line \in Line
  /\ job \in {"open", "closed", "cancelled"}
  /\ stock \in [Warehouses -> Int]
  /\ lock \in [Warehouses -> Calls \cup {NoCall}]
  /\ lastFrom \in Warehouses
  /\ returnEvents \subseteq Nat
  /\ handedOut \in Nat /\ goodIn \in Nat /\ restocked \in Nat

\* However issues, approvals, rejections and dying calls interleave, the units
\* handed out against a request are the ones it counts as issued, and never
\* more than were requested (issuePartRequest reads again under the lock).
IssuedWithinRequested == handedOut = issued /\ handedOut <= Requested

\* No warehouse hands out more than its verified stock: the check made under
\* the row lock still holds when the issue commits (assertVerifiedIssueAllowed).
NeverOverIssued == \A w \in Warehouses : stock[w] >= 0

\* The job's part line never shows more units than the store handed out,
\* although syncIssuedLine writes a sum of what it read.
LineNeverAhead == line.issued <= handedOut

\* No unit comes back to the shelf twice: confirmations that read the same
\* line, or write an old one back, cannot restock more than was handed out,
\* because the event id names the returned quantity (confirmReturn).
RestockedWithinIssued == restocked <= handedOut

\* Calls may write an old line back over a confirmed return; the returned
\* quantity it then shows is one whose event exists, so that no confirmation
\* can restock from it again (buildWorkOrderPartReturnOutbox names the event by
\* the quantity returned before).
StaleReturnIsSpent == line.returned = restocked \/ line.returned \in returnEvents

----------------------------------------------------------------------------
(* What the repository says of part requests and the code does not do.     *)

\* "Part request must be approved before stock issue": stock is not issued
\* against a request that has been rejected or cancelled.
IssueNeedsApproval ==
  [][handedOut' # handedOut => status \notin WithdrawnStatuses]_vars

\* "gets the good parts back on its shelf": only parts handed in as good are
\* restocked.
OnlyGoodPartsRestocked == restocked <= goodIn
=============================================================================
