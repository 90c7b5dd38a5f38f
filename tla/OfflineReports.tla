--------------------------- MODULE OfflineReports ---------------------------
(***************************************************************************)
(* Issues reported without a network: the queue in the browser's storage,  *)
(* which all tabs of a device share, the replayer each tab runs, and the   *)
(* creation of the maintenance request on the server, statement by         *)
(* statement.  A call goes on at the server when its tab is closed or has  *)
(* stopped waiting for it.  An update of the queue (read, change, write of *)
(* localStorage) is taken as one step, and the queue as durable: the       *)
(* IndexedDB mirror that stands in for an evicted queue is left out.       *)
(***************************************************************************)
EXTENDS Integers, FiniteSets, FiniteSetsExt

CONSTANTS Reports, Users, NoUser, Tabs,
          Calls,      \* calls of create() the server can have at a time
          NoReport,   \* stands for the reports of other people
          GiveUp,     \* a report with that many retries is not sent any more
          Attempts,   \* attempts to find a free request number
          PadLimit,   \* the first number with more digits than the padding
          Earlier,    \* the requests there are already
          MaxOthers,  \* bound on the requests of other people
          MaxOutages, \* bound on the losses of the network
          MaxFaults   \* bound on failures, closed tabs and users signing out

ASSUME NullAssumption == NoUser \notin Users /\ NoReport \notin Reports
ASSUME TabsAssumption == Tabs # {}
ASSUME BoundAssumption ==
  /\ GiveUp \in Nat \ {0} /\ Attempts \in Nat \ {0} /\ PadLimit \in Nat \ {0}
  /\ Earlier \in Nat /\ MaxOthers \in Nat /\ MaxOutages \in Nat /\ MaxFaults \in Nat

VARIABLES
  onLine, user,              \* the device: network, and who is signed in
  status, retryCount, owner, \* the items of the queue
  tab, call,
  requests,                  \* the rows of MaintenanceRequest
  refused,                   \* history: reports the server answered 4xx to
  outages, faults            \* how many there were

device == <<onLine, user>>
queue == <<status, retryCount, owner>>
bounds == <<outages, faults>>
vars == <<device, queue, tab, call, requests, refused, bounds>>

Waiting == {"PENDING", "SYNCING", "FAILED"}
Status == Waiting \cup {"none", "SYNCED", "pruned"}
Answers == {"none", "created", "rejected", "signIn", "temporary"}

Tab == [open: BOOLEAN, timer: BOOLEAN,
        step: {"rest", "hydrate", "loop", "wait"},
        items: SUBSET Reports, read: [Reports -> 0 .. GiveUp],
        sending: Reports \cup {NoReport}]
Closed == [open |-> FALSE, timer |-> FALSE, step |-> "rest",
           items |-> {}, read |-> [r \in Reports |-> 0], sending |-> NoReport]
\* A page that is ready starts a replay.
Ready == [Closed EXCEPT !.open = TRUE, !.step = "hydrate"]
\* One replay runs at a time (running.current).
Replay(x) == IF x.open /\ x.step = "rest" THEN [x EXCEPT !.step = "hydrate"] ELSE x

Call == [step: {"idle", "find", "number", "insert", "raced", "answer"},
         report: Reports \cup {NoReport}, by: Users \cup {NoUser},
         number: Nat, attempt: 0 .. Attempts, for: Tabs, answer: Answers]
SomeTab == CHOOSE t \in Tabs : TRUE
IdleCall == [step |-> "idle", report |-> NoReport, by |-> NoUser, number |-> 0,
             attempt |-> 0, for |-> SomeTab, answer |-> "none"]

OtherRow(n) == [report |-> NoReport, number |-> n, by |-> NoUser]

Init ==
  /\ onLine = TRUE /\ user = NoUser
  /\ status = [r \in Reports |-> "none"]
  /\ retryCount = [r \in Reports |-> 0]
  /\ owner = [r \in Reports |-> NoUser]
  /\ tab = [t \in Tabs |-> Closed]
  /\ call = [c \in Calls |-> IdleCall]
  /\ requests = {OtherRow(n) : n \in 1 .. Earlier} /\ refused = {} /\ outages = 0 /\ faults = 0

Fault == faults < MaxFaults /\ faults' = faults + 1 /\ UNCHANGED outages

----------------------------------------------------------------------------
(* The device and its user.                                                *)

GoOffline ==
  /\ onLine /\ onLine' = FALSE
  /\ outages < MaxOutages /\ outages' = outages + 1
  /\ UNCHANGED <<user, queue, tab, call, requests, refused, faults>>

\* Every page has the online event, and ignores it while a replay runs.
GoOnline ==
  /\ ~ onLine /\ onLine' = TRUE
  /\ tab' = [t \in Tabs |-> Replay(tab[t])]
  /\ UNCHANGED <<user, queue, call, requests, refused, bounds>>

SignIn(u) ==
  /\ user = NoUser /\ onLine /\ user' = u
  /\ UNCHANGED <<onLine, queue, tab, call, requests, refused, bounds>>

\* Signing out leaves the page it is done on; other tabs stay as they are.
logout(t) ==
  /\ tab[t].open /\ user # NoUser /\ Fault
  /\ user' = NoUser /\ tab' = [tab EXCEPT ![t] = Closed]
  /\ UNCHANGED <<onLine, queue, call, requests, refused>>

OpenTab(t) ==
  /\ ~ tab[t].open /\ onLine /\ user # NoUser
  /\ tab' = [tab EXCEPT ![t] = Ready]
  /\ UNCHANGED <<device, queue, call, requests, refused, bounds>>

CloseTab(t) ==
  /\ tab[t].open /\ Fault
  /\ tab' = [tab EXCEPT ![t] = Closed]
  /\ UNCHANGED <<device, queue, call, requests, refused>>

AtRest(t) == tab[t].open /\ tab[t].step = "rest" /\ ~ tab[t].timer

\* The user loads the page again when nothing goes on in it.
Reload(t) ==
  /\ AtRest(t) /\ onLine /\ user # NoUser
  /\ tab' = [tab EXCEPT ![t] = Ready]
  /\ UNCHANGED <<device, queue, call, requests, refused, bounds>>

\* submit() without a network.
enqueueOfflineAction(t, r) ==
  /\ tab[t].open /\ ~ onLine /\ status[r] = "none"
  /\ status' = [status EXCEPT ![r] = "PENDING"]
  /\ owner' = [owner EXCEPT ![r] = user]
  /\ UNCHANGED <<device, retryCount, tab, call, requests, refused, bounds>>

----------------------------------------------------------------------------
(* The replayer of a tab.                                                  *)

\* The timer of a failed attempt; without a network it is ignored.
Retry(t) ==
  /\ tab[t].timer
  /\ tab' = [tab EXCEPT ![t] =
       LET x == [@ EXCEPT !.timer = FALSE] IN IF onLine THEN Replay(x) ELSE x]
  /\ UNCHANGED <<device, queue, call, requests, refused, bounds>>

\* Faulty variant: items a closed tab left SYNCING are not taken up.
replayableOfflineActions_NotSyncing ==
  {r \in Reports : /\ status[r] \in {"PENDING", "FAILED"}
                   /\ retryCount[r] < GiveUp
                   /\ user # NoUser /\ owner[r] = user}

replayableOfflineActions ==
  {r \in Reports : /\ status[r] \in Waiting
                   /\ retryCount[r] < GiveUp
                   /\ user # NoUser /\ owner[r] = user}

\* The next item is sent, or the replay ends.
NextItem(x) ==
  IF x.items # {} THEN [x EXCEPT !.step = "loop", !.sending = NoReport]
  ELSE [x EXCEPT !.step = "rest", !.sending = NoReport, !.read = Closed.read]

\* break: the replay ends; a temporary failure sets the timer, and a timer that
\* is set already stays so.
Break(x, again) == NextItem([x EXCEPT !.items = {}, !.timer = @ \/ again])

\* Sent items of more than a day ago, any of the sent ones, are dropped, then
\* the items to send are read, once for the whole replay.
ReadItems(t) ==
  /\ tab[t].step = "hydrate"
  /\ \E old \in SUBSET {r \in Reports : status[r] = "SYNCED"} :
       status' = [r \in Reports |-> IF r \in old THEN "pruned" ELSE status[r]]
  /\ tab' = [tab EXCEPT ![t] = NextItem(
       [@ EXCEPT !.items = replayableOfflineActions, !.read = retryCount])]
  /\ UNCHANGED <<device, retryCount, owner, call, requests, refused, bounds>>

\* updateOfflineAction: an item that is not in the queue any more stays out.
Update(r, s, n) ==
  IF status[r] = "pruned" THEN UNCHANGED <<status, retryCount>>
  ELSE /\ status' = [status EXCEPT ![r] = s]
       /\ retryCount' = [retryCount EXCEPT ![r] = n]

FreeCall == CHOOSE c \in Calls : call[c].step = "idle"

\* The item is marked and the call is made, under the session the browser has
\* at that moment.
Send(t, r, c) ==
  /\ tab[t].step = "loop" /\ r \in tab[t].items
  /\ call[c].step = "idle" /\ c = FreeCall
  /\ Update(r, "SYNCING", retryCount[r])
  /\ tab' = [tab EXCEPT ![t] = [@ EXCEPT !.step = "wait", !.sending = r,
                                         !.items = tab[t].items \ {r}]]
  /\ call' = [call EXCEPT ![c] = [IdleCall EXCEPT !.step = "find", !.report = r,
                                                  !.by = user, !.for = t]]
  /\ UNCHANGED <<device, owner, requests, refused, bounds>>

Awaits(t, c) ==
  tab[t].step = "wait" /\ call[c].for = t /\ call[c].report = tab[t].sending

Sent(t, c) ==
  /\ Awaits(t, c) /\ call[c].answer = "created"
  /\ Update(tab[t].sending, "SYNCED", retryCount[tab[t].sending])
  /\ tab' = [tab EXCEPT ![t] = NextItem(@)]
  /\ call' = [call EXCEPT ![c] = IdleCall]
  /\ UNCHANGED <<device, owner, requests, refused, bounds>>

isPermanentFailure(t, c) ==
  /\ Awaits(t, c) /\ call[c].answer = "rejected"
  /\ Update(tab[t].sending, "FAILED", GiveUp)
  /\ tab' = [tab EXCEPT ![t] = NextItem(@)]
  /\ call' = [call EXCEPT ![c] = IdleCall]
  /\ UNCHANGED <<device, owner, requests, refused, bounds>>

\* 401: the profile is removed and the page becomes the sign-in page.  403:
\* the page stays.
isAwaitingSignIn(t, c) ==
  /\ Awaits(t, c) /\ call[c].answer = "signIn"
  /\ Update(tab[t].sending, "PENDING", tab[t].read[tab[t].sending])
  /\ \/ user' = NoUser /\ tab' = [tab EXCEPT ![t] = Closed]
     \/ call[c].by # NoUser /\ user' = user /\ tab' = [tab EXCEPT ![t] = Break(@, FALSE)]
  /\ call' = [call EXCEPT ![c] = IdleCall]
  /\ UNCHANGED <<onLine, owner, requests, refused, bounds>>

\* Faulty variant: no limit below the one the queue skips items at.
RetriesLeft_NoLimit(n) == Min({n + 1, GiveUp})

RetriesLeft(n) == Min({n + 1, GiveUp - 1})

TemporaryFailure(t) ==
  /\ Update(tab[t].sending, "PENDING", RetriesLeft(tab[t].read[tab[t].sending]))
  /\ tab' = [tab EXCEPT ![t] = Break(@, TRUE)]

AnsweredTemporary(t, c) ==
  /\ Awaits(t, c) /\ call[c].answer = "temporary"
  /\ TemporaryFailure(t)
  /\ call' = [call EXCEPT ![c] = IdleCall]
  /\ UNCHANGED <<device, owner, requests, refused, bounds>>

\* The network is lost, or the timeout: the call may never have arrived, or
\* goes on at the server.
NetworkError(t, c) ==
  /\ Awaits(t, c) /\ Fault
  /\ TemporaryFailure(t)
  /\ \/ UNCHANGED call
     \/ call[c].step = "find" /\ call' = [call EXCEPT ![c] = IdleCall]
  /\ UNCHANGED <<device, owner, requests, refused>>

----------------------------------------------------------------------------
(* The server: MaintenanceRequestsService.create.                          *)

Row(r) == {x \in requests : x.report = r}
Goto(c, step) == call' = [call EXCEPT ![c].step = step]
Answer(c, answer) ==
  call' = [call EXCEPT ![c] = [@ EXCEPT !.step = "answer", !.answer = answer,
                                        !.number = 0, !.attempt = 0]]

\* Who calls, then the request with the key, then what the report refers to.
FindExisting(c) ==
  /\ call[c].step = "find"
  /\ \/ Answer(c, "signIn") /\ call[c].by = NoUser /\ UNCHANGED refused
     \/ /\ call[c].by # NoUser /\ Row(call[c].report) # {}
        /\ Answer(c, "created") /\ UNCHANGED refused
     \/ /\ call[c].by # NoUser /\ Row(call[c].report) = {}
        /\ Goto(c, "number") /\ UNCHANGED refused
     \/ /\ call[c].by # NoUser /\ Row(call[c].report) = {}
        /\ refused' = refused \cup {call[c].report}
        /\ Answer(c, "rejected")
  /\ UNCHANGED <<device, queue, tab, requests, bounds>>

\* The user may not report, or may not any more.
Forbidden(c) ==
  /\ call[c].step = "find" /\ Fault /\ Answer(c, "signIn")
  /\ UNCHANGED <<device, queue, tab, requests, refused>>

\* The latest number is the last in the order of strings, in which numbers
\* with more digits than the padding come before the last padded one.
Latest == Max({0} \cup {x.number : x \in {y \in requests : y.number < PadLimit}})

nextRequestNumber(c) ==
  /\ call[c].step = "number"
  /\ call' = [call EXCEPT ![c].step = "insert", ![c].number = Latest + 1,
                          ![c].attempt = @ + 1]
  /\ UNCHANGED <<device, queue, tab, requests, refused, bounds>>

\* Faulty variant: the index on the key is not unique.
UniqueConflict_NumberOnly(c) == \E x \in requests : x.number = call[c].number

UniqueConflict(c) ==
  \E x \in requests : x.number = call[c].number \/ x.report = call[c].report

\* Faulty variant: one attempt too many.
AttemptsLeft_OffByOne(c) == call[c].attempt <= Attempts

AttemptsLeft(c) == call[c].attempt < Attempts

createWithNumberRetry(c) ==
  /\ call[c].step = "insert"
  /\ \/ /\ ~ UniqueConflict(c)
        /\ requests' = requests \cup
             {[report |-> call[c].report, number |-> call[c].number, by |-> call[c].by]}
        /\ Answer(c, "created")
     \/ /\ UniqueConflict(c)
        /\ Goto(c, IF AttemptsLeft(c) THEN "number" ELSE "raced")
        /\ UNCHANGED requests
  /\ UNCHANGED <<device, queue, tab, refused, bounds>>

\* Faulty variant: a conflict is taken for one on the key.
FindRaced_NotAsked(c) ==
  /\ call[c].step = "raced"
  /\ Answer(c, "created") /\ UNCHANGED refused
  /\ UNCHANGED <<device, queue, tab, requests, bounds>>

\* A conflict to the end: of the key, or of the numbers alone, which is
\* answered with 409.
FindRaced(c) ==
  /\ call[c].step = "raced"
  /\ IF Row(call[c].report) # {} THEN Answer(c, "created") /\ UNCHANGED refused
     ELSE /\ Answer(c, "rejected")
          /\ refused' = refused \cup {call[c].report}
  /\ UNCHANGED <<device, queue, tab, requests, bounds>>

\* 5xx, 408 or 429 at any point, also after the row is there.
ServerFails(c) ==
  /\ call[c].step # "idle" /\ Fault
  /\ call[c].answer \in {"none", "created"}
  /\ Answer(c, "temporary")
  /\ UNCHANGED <<device, queue, tab, requests, refused>>

\* Nobody waits for the answer any more.
Unheard(c) ==
  /\ call[c].step = "answer" /\ \A t \in Tabs : ~ Awaits(t, c)
  /\ call' = [call EXCEPT ![c] = IdleCall]
  /\ UNCHANGED <<device, queue, tab, requests, refused, bounds>>

OtherRequest ==
  /\ Cardinality(Row(NoReport)) < MaxOthers
  /\ \A x \in requests : x.number # Latest + 1
  /\ requests' = requests \cup {OtherRow(Latest + 1)}
  /\ UNCHANGED <<device, queue, tab, call, refused, bounds>>

----------------------------------------------------------------------------
TabStep(t) ==
  \/ Retry(t) \/ ReadItems(t)
  \/ \E c \in Calls :
       \/ \E r \in Reports : Send(t, r, c)
       \/ Sent(t, c) \/ isPermanentFailure(t, c) \/ isAwaitingSignIn(t, c)
       \/ AnsweredTemporary(t, c)

ServerStep(c) ==
  \/ FindExisting(c) \/ nextRequestNumber(c) \/ createWithNumberRetry(c)
  \/ FindRaced(c) \/ Unheard(c)

Next ==
  \/ GoOffline \/ GoOnline \/ OtherRequest
  \/ \E u \in Users : SignIn(u)
  \/ \E t \in Tabs :
       \/ TabStep(t) \/ OpenTab(t) \/ CloseTab(t) \/ Reload(t) \/ logout(t)
       \/ \E r \in Reports : enqueueOfflineAction(t, r)
       \/ \E c \in Calls : NetworkError(t, c)
  \/ \E c \in Calls : ServerStep(c) \/ Forbidden(c) \/ ServerFails(c)

Spec == Init /\ [][Next]_vars

(* A page goes on with what it has begun, and runs its timers; the server    *)
(* goes on with every call; the network comes back.  Nobody need load or open *)
(* a page, sign in, or report anything.                                       *)
Fairness ==
  /\ \A t \in Tabs : WF_vars(TabStep(t))
  /\ \A c \in Calls : WF_vars(ServerStep(c))
  /\ WF_vars(GoOnline)

FairSpec == Spec /\ Fairness

----------------------------------------------------------------------------
(* Properties.                                                             *)

\* Every variable has its type.
TypeOK ==
  /\ onLine \in BOOLEAN /\ user \in Users \cup {NoUser}
  /\ status \in [Reports -> Status]
  /\ retryCount \in [Reports -> 0 .. GiveUp]
  /\ owner \in [Reports -> Users \cup {NoUser}]
  /\ tab \in [Tabs -> Tab] /\ call \in [Calls -> Call]
  /\ requests \subseteq [report: Reports \cup {NoReport}, number: Nat,
                         by: Users \cup {NoUser}]
  /\ refused \subseteq Reports /\ outages \in 0 .. MaxOutages /\ faults \in 0 .. MaxFaults

\* A report becomes at most one request, however many tabs send it, and
\* however often it is sent again because an answer was lost, a tab was
\* closed or a number was taken (maintenance-requests.service.ts create).
OneRequestPerReport ==
  \A r \in Reports : Cardinality(Row(r)) <= 1

\* What the device shows as sent is on the server: no lost answer, no stale
\* tab and no conflict over numbers marks a report SYNCED without a request.
SentIsTrue ==
  \A r \in Reports : status[r] \in {"SYNCED", "pruned"} => Row(r) # {}

\* The queue gives up a report only after the server has refused it: lost
\* networks, restarts and expired sessions never use up its retries, also
\* when two tabs count them from old readings
\* (offline-request-replayer.tsx, replayableOfflineActions).
GivenUpWasRefused ==
  \A r \in Reports : status[r] = "FAILED" \/ retryCount[r] = GiveUp => r \in refused

Waits(r) == status[r] \in Waiting /\ retryCount[r] < GiveUp
OwnerIsIn(r) == user # NoUser /\ owner[r] = user

\* A page has the report in the replay it is running, or is about to read the
\* queue: at once, when its timer has run, or when the network comes back.
WillReplay(t, r) ==
  \/ r \in tab[t].items \/ tab[t].sending = r
  \/ tab[t].step = "hydrate"
  \/ tab[t].step = "rest" /\ (tab[t].timer \/ ~ onLine)

AskedToSignIn(t) == \E c \in Calls : Awaits(t, c) /\ call[c].answer = "signIn"

\* A report that waits where a replay will find it is sent or given up, on a
\* page that stays open with its owner signed in: no replay that breaks off, no
\* timer that comes without a network or while a replay runs, no network lost
\* at any moment and no tab that died sending leaves it behind
\* (offline-request-replayer.tsx).  A replay that is refused for want of a
\* sign-in need not come back to it.
ReplayIsNotForgotten ==
  \A t \in Tabs, r \in Reports :
    tab[t].open /\ OwnerIsIn(r) /\ Waits(r) /\ WillReplay(t, r)
      ~> ~ Waits(r) \/ ~ tab[t].open \/ ~ OwnerIsIn(r) \/ AskedToSignIn(t)

----------------------------------------------------------------------------
(* What the repository says and the code does not do.                      *)

\* "Another person's items on a shared device are never sent under the
\* current login" (offline-queue.ts).
\* (A replay reads its items once; the user may change before it has sent
\* them, in another tab.)
SentByOwner ==
  \A x \in requests : x.report \in Reports => x.by = owner[x.report]

\* "It will be sent automatically when you are back online."
\* (requests/new/page.tsx): each report is sent or given up once
\* its owner is signed in for good.  (A replay reads the queue once, and the
\* online event is ignored while one runs; nothing starts another.)
EveryReportSettles ==
  \A r \in Reports :
    <>[]OwnerIsIn(r) => (Waits(r) ~> ~ Waits(r))

\* "SYNCING left over from a closed tab is retried" (offline-queue.ts), and is
\* counted as being sent until then (connection-status.tsx).  (Not one that
\* another tab had given up when this one marked it.)
LeftoverIsRetried ==
  \A r \in Reports :
    status[r] \in {"PENDING", "SYNCING"} => retryCount[r] < GiveUp
=============================================================================
