----------------------- MODULE OfflineReportsProofs -----------------------
(***************************************************************************)
(* The safety properties of OfflineReports for any number of reports,      *)
(* users, tabs and calls, and any bounds.                                  *)
(***************************************************************************)
EXTENDS OfflineReports, FiniteSetTheorems, WellFoundedInduction, TLAPS

\* A call has an attempt left when it looks for a number.
AttemptInv ==
  \A c \in Calls :
    /\ call[c].step = "find" => call[c].attempt = 0
    /\ call[c].step = "number" => call[c].attempt < Attempts

\* The index on the key of a request.
KeyInv ==
  \A x, y \in requests : x.report \in Reports /\ x.report = y.report => x = y

\* An answer is true when it is given, and stays so.
AnswerInv ==
  \A c \in Calls :
    /\ call[c].step # "idle" => call[c].report \in Reports
    /\ call[c].answer # "none" => call[c].step = "answer"
    /\ call[c].answer = "created" => Row(call[c].report) # {}
    /\ call[c].answer = "rejected" => call[c].report \in refused

\* A count at the limit, also one that a replay has read, is of a report that
\* was refused; what is being sent is a report.
CountInv ==
  /\ \A t \in Tabs :
       /\ tab[t].step = "wait" => tab[t].sending \in Reports
       /\ \A r \in Reports : tab[t].read[r] = GiveUp => r \in refused
  /\ GivenUpWasRefused

(* The parts of TypeOK.                                                    *)
DeviceType ==
  /\ onLine \in BOOLEAN /\ user \in Users \cup {NoUser}
  /\ outages \in 0 .. MaxOutages /\ faults \in 0 .. MaxFaults
QueueType ==
  /\ status \in [Reports -> Status]
  /\ retryCount \in [Reports -> 0 .. GiveUp]
  /\ owner \in [Reports -> Users \cup {NoUser}]
TabType == tab \in [Tabs -> Tab]
CallType == call \in [Calls -> Call]
RowType ==
  /\ requests \subseteq [report: Reports \cup {NoReport}, number: Nat,
                         by: Users \cup {NoUser}]
  /\ refused \subseteq Reports

Types == DeviceType /\ QueueType /\ TabType /\ CallType /\ RowType

IInv == Types /\ AttemptInv /\ KeyInv /\ AnswerInv /\ CountInv /\ SentIsTrue

----------------------------------------------------------------------------
(* A bounded set of naturals that is not empty has a maximum, the least of *)
(* its upper bounds.                                                       *)
LEMMA BoundedMax ==
  ASSUME NEW S \in SUBSET Nat, NEW b \in Nat, \A x \in S : x <= b, S # {}
  PROVE  Max(S) \in S /\ \A y \in S : y <= Max(S)
<1> DEFINE Above == {n \in Nat : \A x \in S : x <= n}
           Less == OpToRel(<, Nat)
<1>1. Above \subseteq Nat /\ Above # {}
  OBVIOUS
<1>2. PICK m \in Above : \A n \in Above : ~ (<<n, m>> \in Less)
  BY <1>1, NatLessThanWellFounded, WFMin, Zenon
<1>3. \A n \in Above : ~ (n < m)
  BY <1>1, <1>2 DEF OpToRel
<1>4. m \in S
  <2> SUFFICES ASSUME m \notin S PROVE FALSE
    OBVIOUS
  <2>1. \A x \in S : x \in Nat /\ m \in Nat /\ x <= m /\ x # m
    OBVIOUS
  <2>2. m \in Nat /\ m # 0
    <3>1. PICK x \in S : TRUE
      OBVIOUS
    <3> QED BY <2>1, <3>1
  <2>3. m - 1 \in Nat /\ \A x \in S : x <= m - 1
    BY <2>1, <2>2
  <2> QED BY <2>2, <2>3, <1>3
<1>5. \E x \in S : \A y \in S : x >= y
  BY <1>4
<1> QED BY <1>5 DEF Max

(* A number that is looked for is a natural number.                        *)
LEMMA LatestType == RowType => Latest \in Nat
<1> SUFFICES ASSUME RowType PROVE Latest \in Nat
  OBVIOUS
<1> DEFINE S == {0} \cup {x.number : x \in {y \in requests : y.number < PadLimit}}
<1>1. S \in SUBSET Nat /\ S # {} /\ \A x \in S : x <= PadLimit
  BY BoundAssumption DEF RowType
<1>2. PadLimit \in Nat
  BY BoundAssumption
<1> HIDE DEF S
<1>3. Max(S) \in S
  BY <1>1, <1>2, BoundedMax
<1>4. Latest = Max(S)
  BY DEF Latest, S
<1> QED BY <1>1, <1>3, <1>4

(* A retry of a temporary failure stays below the limit.                   *)
LEMMA RetriesBelowLimit ==
  ASSUME NEW n \in 0 .. GiveUp
  PROVE  RetriesLeft(n) \in 0 .. GiveUp /\ RetriesLeft(n) # GiveUp
<1> DEFINE S == {n + 1, GiveUp - 1}
<1>1. \E x \in S : \A y \in S : x =< y
  BY BoundAssumption
<1>2. Min(S) \in S /\ \A y \in S : Min(S) =< y
  BY <1>1 DEF Min
<1> QED BY <1>2, BoundAssumption DEF RetriesLeft

(* Tabs and calls as they begin.                                           *)
LEMMA ClosedType == Closed \in Tab /\ Ready \in Tab
<1>1. [r \in Reports |-> 0] \in [Reports -> 0 .. GiveUp]
  BY BoundAssumption
<1>2. Closed \in Tab
  BY <1>1 DEF Closed, Tab
<1> QED BY <1>2 DEF Ready, Tab

LEMMA IdleCallType == IdleCall \in Call
<1>1. SomeTab \in Tabs
  BY TabsAssumption DEF SomeTab
<1> QED BY <1>1, BoundAssumption DEF IdleCall, Call, Answers

(* Calls that are answered, or go to another statement, are calls.         *)
LEMMA AnswerType ==
  ASSUME CallType, NEW c \in Calls, NEW a \in Answers
  PROVE  [call EXCEPT ![c] = [@ EXCEPT !.step = "answer", !.answer = a,
                                       !.number = 0, !.attempt = 0]] \in [Calls -> Call]
<1>1. call[c] \in Call
  BY DEF CallType
<1>2. [call[c] EXCEPT !.step = "answer", !.answer = a, !.number = 0, !.attempt = 0] \in Call
  <2> DEFINE x == [call[c] EXCEPT !.step = "answer", !.answer = a]
  <2>1. x \in Call
    BY <1>1 DEF Call
  <2> HIDE DEF x
  <2>2. [x EXCEPT !.number = 0, !.attempt = 0] \in Call
    <3>1. 0 \in Nat /\ 0 \in 0 .. Attempts
      BY BoundAssumption
    <3>2. [x EXCEPT !.number = 0] \in Call
      BY <2>1, <3>1 DEF Call
    <3> QED BY <3>1, <3>2, Zenon DEF Call
  <2> QED BY <2>2 DEF x
<1> QED BY <1>2 DEF CallType

LEMMA CallStepType ==
  ASSUME CallType, NEW c \in Calls, NEW s \in {"number", "raced"}
  PROVE  [call EXCEPT ![c].step = s] \in [Calls -> Call]
<1>1. call[c] \in Call
  BY DEF CallType
<1>2. [call[c] EXCEPT !.step = s] \in Call
  BY <1>1 DEF Call
<1> QED BY <1>2 DEF CallType

(* The fields of a call that is under way.                                 *)
LEMMA CallFields ==
  ASSUME CallType, AnswerInv, NEW c \in Calls, call[c].step # "idle"
  PROVE  /\ call[c].report \in Reports /\ call[c].by \in Users \cup {NoUser}
         /\ call[c].number \in Nat
BY DEF CallType, Call, AnswerInv

(* What an answer, the way to the next statement and the end of a call     *)
(* change.                                                                 *)
LEMMA AnswerFields ==
  ASSUME CallType, NEW c \in Calls, NEW a \in Answers, Answer(c, a)
  PROVE  /\ call'[c].step = "answer" /\ call'[c].answer = a
         /\ call'[c].report = call[c].report
         /\ \A d \in Calls \ {c} : call'[d] = call[d]
BY DEF CallType, Call, Answer

LEMMA GotoFields ==
  ASSUME CallType, NEW c \in Calls, NEW s \in {"number", "raced"}, Goto(c, s)
  PROVE  /\ call'[c].step = s /\ call'[c].answer = call[c].answer
         /\ call'[c].report = call[c].report /\ call'[c].attempt = call[c].attempt
         /\ \A d \in Calls \ {c} : call'[d] = call[d]
BY DEF CallType, Call, Goto

(* What is being sent, and the count it was read with.                     *)
LEMMA SendingFields ==
  ASSUME TabType, CountInv, NEW t \in Tabs, tab[t].step = "wait"
  PROVE  tab[t].sending \in Reports /\ tab[t].read[tab[t].sending] \in 0 .. GiveUp
BY DEF TabType, Tab, CountInv

(* A closed tab has read and sends nothing.                                *)
LEMMA ClosedReads ==
  /\ Closed.step = "rest" /\ Ready.step = "hydrate" /\ Ready.read = Closed.read
  /\ \A r \in Reports : Closed.read[r] # GiveUp
BY BoundAssumption DEF Closed, Ready

(* What the replayer does with a tab keeps its type, what it has read or   *)
(* nothing, and sends nothing.                                             *)
LEMMA ReplayType ==
  ASSUME NEW x \in Tab
  PROVE  Replay(x) \in Tab /\ Replay(x).read = x.read
         /\ (Replay(x).step = "wait" => x.step = "wait" /\ Replay(x).sending = x.sending)
BY DEF Replay, Tab

LEMMA NextItemType ==
  ASSUME NEW x \in Tab
  PROVE  NextItem(x) \in Tab /\ NextItem(x).step # "wait"
         /\ NextItem(x).read \in {x.read, Closed.read}
<1>1. Closed.read \in [Reports -> 0 .. GiveUp]
  BY ClosedType DEF Tab
<1> QED BY <1>1 DEF NextItem, Tab

LEMMA BreakType ==
  ASSUME NEW x \in Tab, NEW b \in BOOLEAN
  PROVE  Break(x, b) \in Tab /\ Break(x, b).step # "wait"
         /\ Break(x, b).read \in {x.read, Closed.read}
<1> DEFINE timer == x.timer \/ b
           y == [x EXCEPT !.items = {}, !.timer = timer]
<1>1. timer \in BOOLEAN
  BY Zenon
<1>2. Break(x, b) = NextItem(y)
  BY Zenon DEF Break
<1> HIDE DEF timer
<1>3. y \in Tab /\ y.read = x.read
  BY <1>1 DEF Tab
<1> HIDE DEF y
<1> QED BY <1>2, <1>3, NextItemType

(* Every step keeps the types: those of the device,                        *)
LEMMA DeviceTypes ==
  ASSUME DeviceType, [Next]_vars
  PROVE  DeviceType'
<1> USE BoundAssumption DEF device, queue, bounds, Fault, DeviceType
<1>1. CASE GoOffline
  <2>1. onLine' \in BOOLEAN BY <1>1, Zenon DEF GoOffline
  <2>2. user' \in Users \cup {NoUser} BY <1>1 DEF GoOffline
  <2>3. outages' \in 0 .. MaxOutages /\ faults' \in 0 .. MaxFaults
    BY <1>1, BoundAssumption DEF GoOffline
  <2> QED BY <2>1, <2>2, <2>3
<1>2. CASE GoOnline
  <2>1. onLine' \in BOOLEAN BY <1>2, Zenon DEF GoOnline
  <2>2. user' \in Users \cup {NoUser} BY <1>2 DEF GoOnline
  <2>3. outages' \in 0 .. MaxOutages /\ faults' \in 0 .. MaxFaults
    BY <1>2, BoundAssumption DEF GoOnline
  <2> QED BY <2>1, <2>2, <2>3
<1>3. ASSUME NEW u \in Users, SignIn(u) PROVE DeviceType'
  <2>1. onLine' \in BOOLEAN BY <1>3, Zenon DEF SignIn
  <2>2. user' \in Users \cup {NoUser} BY <1>3 DEF SignIn
  <2>3. outages' \in 0 .. MaxOutages /\ faults' \in 0 .. MaxFaults
    BY <1>3, BoundAssumption DEF SignIn
  <2> QED BY <2>1, <2>2, <2>3
<1>4. ASSUME NEW t \in Tabs, NEW c \in Calls, isAwaitingSignIn(t, c) PROVE
      DeviceType'
  <2>1. onLine' \in BOOLEAN BY <1>4, Zenon DEF isAwaitingSignIn
  <2>2. user' \in Users \cup {NoUser} BY <1>4 DEF isAwaitingSignIn
  <2>3. outages' \in 0 .. MaxOutages /\ faults' \in 0 .. MaxFaults
    BY <1>4, BoundAssumption DEF isAwaitingSignIn
  <2> QED BY <2>1, <2>2, <2>3
<1>5. ASSUME NEW t \in Tabs, CloseTab(t) PROVE DeviceType'
  <2>1. onLine' \in BOOLEAN BY <1>5, Zenon DEF CloseTab
  <2>2. user' \in Users \cup {NoUser} BY <1>5 DEF CloseTab
  <2>3. outages' \in 0 .. MaxOutages /\ faults' \in 0 .. MaxFaults
    BY <1>5, BoundAssumption DEF CloseTab
  <2> QED BY <2>1, <2>2, <2>3
<1>6. ASSUME NEW t \in Tabs, logout(t) PROVE DeviceType'
  <2>1. onLine' \in BOOLEAN BY <1>6, Zenon DEF logout
  <2>2. user' \in Users \cup {NoUser} BY <1>6 DEF logout
  <2>3. outages' \in 0 .. MaxOutages /\ faults' \in 0 .. MaxFaults
    BY <1>6, BoundAssumption DEF logout
  <2> QED BY <2>1, <2>2, <2>3
<1>7. ASSUME NEW t \in Tabs, NEW c \in Calls, NetworkError(t, c) PROVE
      DeviceType'
  <2>1. onLine' \in BOOLEAN BY <1>7, Zenon DEF NetworkError
  <2>2. user' \in Users \cup {NoUser} BY <1>7 DEF NetworkError
  <2>3. outages' \in 0 .. MaxOutages /\ faults' \in 0 .. MaxFaults
    BY <1>7, BoundAssumption DEF NetworkError
  <2> QED BY <2>1, <2>2, <2>3
<1>8. ASSUME NEW c \in Calls, Forbidden(c) PROVE DeviceType'
  <2>1. onLine' \in BOOLEAN BY <1>8, Zenon DEF Forbidden
  <2>2. user' \in Users \cup {NoUser} BY <1>8 DEF Forbidden
  <2>3. outages' \in 0 .. MaxOutages /\ faults' \in 0 .. MaxFaults
    BY <1>8, BoundAssumption DEF Forbidden
  <2> QED BY <2>1, <2>2, <2>3
<1>9. ASSUME NEW c \in Calls, ServerFails(c) PROVE DeviceType'
  <2>1. onLine' \in BOOLEAN BY <1>9, Zenon DEF ServerFails
  <2>2. user' \in Users \cup {NoUser} BY <1>9 DEF ServerFails
  <2>3. outages' \in 0 .. MaxOutages /\ faults' \in 0 .. MaxFaults
    BY <1>9, BoundAssumption DEF ServerFails
  <2> QED BY <2>1, <2>2, <2>3
<1>10. CASE OtherRequest
  BY <1>10 DEF OtherRequest
<1>11. ASSUME NEW t \in Tabs,
             \/ Retry(t) \/ ReadItems(t) \/ OpenTab(t) \/ Reload(t)
      PROVE  DeviceType'
  BY <1>11 DEF Retry, ReadItems, OpenTab, Reload
<1>12. ASSUME NEW t \in Tabs, NEW r \in Reports, NEW c \in Calls, Send(t, r, c) PROVE DeviceType'
  BY <1>12 DEF Send
<1>13. ASSUME NEW t \in Tabs, NEW c \in Calls,
             \/ Sent(t, c) \/ isPermanentFailure(t, c)
             \/ AnsweredTemporary(t, c)
      PROVE  DeviceType'
  BY <1>13 DEF Sent, isPermanentFailure, AnsweredTemporary
<1>14. ASSUME NEW t \in Tabs, NEW r \in Reports, enqueueOfflineAction(t, r) PROVE DeviceType'
  BY <1>14 DEF enqueueOfflineAction
<1>15. ASSUME NEW c \in Calls,
             \/ FindExisting(c) \/ nextRequestNumber(c)
             \/ createWithNumberRetry(c) \/ FindRaced(c) \/ Unheard(c)
      PROVE  DeviceType'
  BY <1>15 DEF FindExisting, nextRequestNumber, createWithNumberRetry,
    FindRaced, Unheard
<1>16. CASE UNCHANGED vars
  BY <1>16 DEF vars
<1> QED BY <1>1, <1>2, <1>3, <1>4, <1>5, <1>6, <1>7, <1>8, <1>9, <1>10, <1>11,
  <1>12, <1>13, <1>14, <1>15, <1>16 DEF Next, TabStep, ServerStep

(* The items of the queue.                                                 *)
LEMMA QueueTypes ==
  ASSUME DeviceType, QueueType, TabType, CountInv, [Next]_vars
  PROVE  QueueType'
<1> USE DEF device, queue, bounds, Fault, QueueType, Update, Status, Waiting
<1>1. ASSUME NEW t \in Tabs, ReadItems(t) PROVE QueueType'
  BY <1>1 DEF ReadItems
<1>2. ASSUME NEW t \in Tabs, NEW r \in Reports, NEW c \in Calls, Send(t, r, c)
      PROVE QueueType'
  BY <1>2 DEF Send
<1>3. ASSUME NEW t \in Tabs, NEW c \in Calls, Sent(t, c) PROVE QueueType'
  BY <1>3, SendingFields DEF Sent, Awaits
<1>4. ASSUME NEW t \in Tabs, NEW c \in Calls, isPermanentFailure(t, c) PROVE
      QueueType'
  BY <1>4, SendingFields, BoundAssumption DEF isPermanentFailure, Awaits
<1>5. ASSUME NEW t \in Tabs, NEW c \in Calls, isAwaitingSignIn(t, c) PROVE
      QueueType'
  BY <1>5, SendingFields DEF isAwaitingSignIn, Awaits
<1>6. ASSUME NEW t \in Tabs, NEW c \in Calls, AnsweredTemporary(t, c) PROVE
      QueueType'
  BY <1>6, SendingFields, RetriesBelowLimit DEF AnsweredTemporary, Awaits,
    TemporaryFailure
<1>7. ASSUME NEW t \in Tabs, NEW r \in Reports, enqueueOfflineAction(t, r)
      PROVE QueueType'
  BY <1>7, BoundAssumption DEF enqueueOfflineAction, DeviceType
<1>8. ASSUME NEW t \in Tabs, NEW c \in Calls, NetworkError(t, c) PROVE
      QueueType'
  BY <1>8, SendingFields, RetriesBelowLimit DEF NetworkError, Awaits,
    TemporaryFailure
<1>9. CASE \/ GoOffline \/ GoOnline \/ OtherRequest
  BY <1>9 DEF GoOffline, GoOnline, OtherRequest
<1>10. ASSUME NEW u \in Users, SignIn(u) PROVE QueueType'
  BY <1>10 DEF SignIn
<1>11. ASSUME NEW t \in Tabs,
             \/ Retry(t) \/ OpenTab(t) \/ CloseTab(t) \/ Reload(t)
             \/ logout(t)
      PROVE  QueueType'
  BY <1>11 DEF Retry, OpenTab, CloseTab, Reload, logout
<1>12. ASSUME NEW c \in Calls,
             \/ FindExisting(c) \/ nextRequestNumber(c)
             \/ createWithNumberRetry(c) \/ FindRaced(c) \/ Unheard(c)
             \/ Forbidden(c) \/ ServerFails(c)
      PROVE  QueueType'
  BY <1>12 DEF FindExisting, nextRequestNumber, createWithNumberRetry,
    FindRaced, Unheard, Forbidden, ServerFails
<1>13. CASE UNCHANGED vars
  BY <1>13 DEF vars
<1> QED BY <1>1, <1>2, <1>3, <1>4, <1>5, <1>6, <1>7, <1>8, <1>9, <1>10, <1>11,
  <1>12, <1>13 DEF Next, TabStep, ServerStep

(* The tabs.                                                               *)
LEMMA TabTypes ==
  ASSUME DeviceType, QueueType, TabType, [Next]_vars
  PROVE  TabType'
<1> USE DEF device, queue, bounds, Fault, TabType
<1>1. CASE GoOnline
  BY <1>1, ReplayType DEF GoOnline
<1>2. ASSUME NEW t \in Tabs, Retry(t) PROVE TabType'
  <2> DEFINE x == [tab[t] EXCEPT !.timer = FALSE]
  <2>1. x \in Tab BY DEF Tab
  <2>2. tab' = [tab EXCEPT ![t] = IF onLine THEN Replay(x) ELSE x] BY <1>2 DEF Retry
  <2> HIDE DEF x
  <2> QED BY <2>1, <2>2, ReplayType
<1>3. ASSUME NEW t \in Tabs, ReadItems(t) PROVE TabType'
  <2> DEFINE x == [tab[t] EXCEPT !.items = replayableOfflineActions, !.read = retryCount]
  <2>1. replayableOfflineActions \subseteq Reports BY DEF replayableOfflineActions
  <2>2. x \in Tab BY <2>1 DEF Tab, QueueType
  <2>3. tab' = [tab EXCEPT ![t] = NextItem(x)] BY <1>3 DEF ReadItems
  <2> HIDE DEF x
  <2> QED BY <2>2, <2>3, NextItemType
<1>4. ASSUME NEW t \in Tabs, NEW r \in Reports, NEW c \in Calls, Send(t, r, c)
      PROVE TabType'
  <2> DEFINE x == [tab[t] EXCEPT !.step = "wait", !.sending = r, !.items = tab[t].items \ {r}]
  <2>1. x \in Tab BY DEF Tab
  <2>2. tab' = [tab EXCEPT ![t] = x] BY <1>4 DEF Send
  <2> QED BY <2>1, <2>2
<1>5. ASSUME NEW t \in Tabs, NEW c \in Calls, Sent(t, c) PROVE TabType'
  <2>1. tab[t] \in Tab OBVIOUS
  <2> QED BY <1>5, <2>1, NextItemType DEF Sent
<1>6. ASSUME NEW t \in Tabs, NEW c \in Calls, isPermanentFailure(t, c) PROVE
      TabType'
  <2>1. tab[t] \in Tab OBVIOUS
  <2> QED BY <1>6, <2>1, NextItemType DEF isPermanentFailure
<1>7. ASSUME NEW t \in Tabs, NEW c \in Calls, isAwaitingSignIn(t, c) PROVE
      TabType'
  <2>1. tab[t] \in Tab OBVIOUS
  <2> QED BY <1>7, <2>1, BreakType, ClosedType DEF isAwaitingSignIn
<1>8. ASSUME NEW t \in Tabs, NEW c \in Calls, AnsweredTemporary(t, c) PROVE
      TabType'
  <2>1. tab[t] \in Tab OBVIOUS
  <2> QED BY <1>8, <2>1, BreakType DEF AnsweredTemporary, TemporaryFailure
<1>9. ASSUME NEW t \in Tabs, OpenTab(t) PROVE TabType'
  BY <1>9, ClosedType DEF OpenTab
<1>10. ASSUME NEW t \in Tabs, CloseTab(t) PROVE TabType'
  BY <1>10, ClosedType DEF CloseTab
<1>11. ASSUME NEW t \in Tabs, Reload(t) PROVE TabType'
  BY <1>11, ClosedType DEF Reload
<1>12. ASSUME NEW t \in Tabs, logout(t) PROVE TabType'
  BY <1>12, ClosedType DEF logout
<1>13. ASSUME NEW t \in Tabs, NEW c \in Calls, NetworkError(t, c) PROVE
      TabType'
  <2>1. tab[t] \in Tab OBVIOUS
  <2> QED BY <1>13, <2>1, BreakType DEF NetworkError, TemporaryFailure
<1>14. CASE \/ GoOffline \/ OtherRequest
  BY <1>14 DEF GoOffline, OtherRequest
<1>15. ASSUME NEW u \in Users, SignIn(u) PROVE TabType'
  BY <1>15 DEF SignIn
<1>16. ASSUME NEW t \in Tabs, NEW r \in Reports, enqueueOfflineAction(t, r) PROVE TabType'
  BY <1>16 DEF enqueueOfflineAction
<1>17. ASSUME NEW c \in Calls,
             \/ FindExisting(c) \/ nextRequestNumber(c)
             \/ createWithNumberRetry(c) \/ FindRaced(c) \/ Unheard(c)
             \/ Forbidden(c) \/ ServerFails(c)
      PROVE  TabType'
  BY <1>17 DEF FindExisting, nextRequestNumber, createWithNumberRetry,
    FindRaced, Unheard, Forbidden, ServerFails
<1>18. CASE UNCHANGED vars
  BY <1>18 DEF vars
<1> QED BY <1>1, <1>2, <1>3, <1>4, <1>5, <1>6, <1>7, <1>8, <1>9, <1>10, <1>11,
  <1>12, <1>13, <1>14, <1>15, <1>16, <1>17, <1>18 DEF Next, TabStep,
  ServerStep

(* The calls on the server.                                               *)
LEMMA CallTypes ==
  ASSUME DeviceType, CallType, RowType, AttemptInv, [Next]_vars
  PROVE  CallType'
<1> USE DEF device, queue, bounds, Fault, CallType, Goto, Answer
<1>1. ASSUME NEW t \in Tabs, NEW r \in Reports, NEW c \in Calls, Send(t, r, c)
      PROVE CallType'
  <2> DEFINE x == [IdleCall EXCEPT !.step = "find", !.report = r, !.by = user, !.for = t]
  <2>1. x \in Call BY IdleCallType DEF Call, DeviceType
  <2>2. call' = [call EXCEPT ![c] = x] BY <1>1 DEF Send
  <2> QED BY <2>1, <2>2
<1>2. ASSUME NEW t \in Tabs, NEW c \in Calls, Sent(t, c) PROVE CallType'
  BY <1>2, IdleCallType DEF Sent
<1>3. ASSUME NEW t \in Tabs, NEW c \in Calls, isPermanentFailure(t, c) PROVE
      CallType'
  BY <1>3, IdleCallType DEF isPermanentFailure
<1>4. ASSUME NEW t \in Tabs, NEW c \in Calls, isAwaitingSignIn(t, c) PROVE
      CallType'
  BY <1>4, IdleCallType DEF isAwaitingSignIn
<1>5. ASSUME NEW t \in Tabs, NEW c \in Calls, AnsweredTemporary(t, c) PROVE
      CallType'
  BY <1>5, IdleCallType DEF AnsweredTemporary
<1>6. ASSUME NEW t \in Tabs, NEW c \in Calls, NetworkError(t, c) PROVE
      CallType'
  BY <1>6, IdleCallType DEF NetworkError
<1>7. ASSUME NEW c \in Calls, FindExisting(c) PROVE CallType'
  <2>1. \A x \in Answers : [call EXCEPT ![c] = [@ EXCEPT !.step = "answer", !.answer = x,
                             !.number = 0, !.attempt = 0]] \in [Calls -> Call]
    BY AnswerType
  <2> QED BY <1>7, <2>1, CallStepType DEF FindExisting, Answers
<1>8. ASSUME NEW c \in Calls, nextRequestNumber(c) PROVE CallType'
  <2> DEFINE x == [call[c] EXCEPT !.step = "insert", !.number = Latest + 1, !.attempt = @ + 1]
  <2>1. call[c] \in Call /\ call[c].attempt < Attempts
    BY <1>8 DEF nextRequestNumber, AttemptInv
  <2>2. call[c].attempt + 1 \in 0 .. Attempts
    BY <2>1, BoundAssumption DEF Call
  <2>3. Latest + 1 \in Nat
    BY LatestType
  <2>4. x \in Call
    BY <2>1, <2>2, <2>3 DEF Call
  <2>5. call' = [call EXCEPT ![c] = x]
    BY <1>8 DEF nextRequestNumber
  <2> QED BY <2>4, <2>5
<1>9. ASSUME NEW c \in Calls, createWithNumberRetry(c) PROVE CallType'
  <2>1. \A x \in Answers : [call EXCEPT ![c] = [@ EXCEPT !.step = "answer", !.answer = x,
                             !.number = 0, !.attempt = 0]] \in [Calls -> Call]
    BY AnswerType
  <2>2. CASE Answer(c, "created")
    BY <2>1, <2>2 DEF Answers
  <2>3. CASE Goto(c, IF AttemptsLeft(c) THEN "number" ELSE "raced")
    <3>1. PICK s \in {"number", "raced"} : call' = [call EXCEPT ![c].step = s]
      BY <2>3
    <3> QED BY <3>1, CallStepType
  <2> QED BY <1>9, <2>2, <2>3 DEF createWithNumberRetry
<1>10. ASSUME NEW c \in Calls, FindRaced(c) PROVE CallType'
  <2>1. \A x \in Answers : [call EXCEPT ![c] = [@ EXCEPT !.step = "answer", !.answer = x,
                             !.number = 0, !.attempt = 0]] \in [Calls -> Call]
    BY AnswerType
  <2> QED BY <1>10, <2>1, CallStepType DEF FindRaced, Answers
<1>11. ASSUME NEW c \in Calls, Unheard(c) PROVE CallType'
  BY <1>11, IdleCallType DEF Unheard
<1>12. ASSUME NEW c \in Calls, Forbidden(c) PROVE CallType'
  <2>1. \A x \in Answers : [call EXCEPT ![c] = [@ EXCEPT !.step = "answer", !.answer = x,
                             !.number = 0, !.attempt = 0]] \in [Calls -> Call]
    BY AnswerType
  <2> QED BY <1>12, <2>1, CallStepType DEF Forbidden, Answers
<1>13. ASSUME NEW c \in Calls, ServerFails(c) PROVE CallType'
  <2>1. \A x \in Answers : [call EXCEPT ![c] = [@ EXCEPT !.step = "answer", !.answer = x,
                             !.number = 0, !.attempt = 0]] \in [Calls -> Call]
    BY AnswerType
  <2> QED BY <1>13, <2>1, CallStepType DEF ServerFails, Answers
<1>14. CASE \/ GoOffline \/ GoOnline \/ OtherRequest
  BY <1>14 DEF GoOffline, GoOnline, OtherRequest
<1>15. ASSUME NEW u \in Users, SignIn(u) PROVE CallType'
  BY <1>15 DEF SignIn
<1>16. ASSUME NEW t \in Tabs,
             \/ Retry(t) \/ ReadItems(t) \/ OpenTab(t) \/ CloseTab(t)
             \/ Reload(t) \/ logout(t)
      PROVE  CallType'
  BY <1>16 DEF Retry, ReadItems, OpenTab, CloseTab, Reload, logout
<1>17. ASSUME NEW t \in Tabs, NEW r \in Reports, enqueueOfflineAction(t, r) PROVE CallType'
  BY <1>17 DEF enqueueOfflineAction
<1>18. CASE UNCHANGED vars
  BY <1>18 DEF vars
<1> QED BY <1>1, <1>2, <1>3, <1>4, <1>5, <1>6, <1>7, <1>8, <1>9, <1>10, <1>11,
  <1>12, <1>13, <1>14, <1>15, <1>16, <1>17, <1>18 DEF Next, TabStep,
  ServerStep

(* The requests, and the reports refused.                                  *)
LEMMA RowTypes ==
  ASSUME DeviceType, CallType, RowType, AnswerInv, [Next]_vars
  PROVE  RowType'
<1> USE DEF device, queue, bounds, Fault, RowType
<1>1. CASE OtherRequest
  <2>1. Latest + 1 \in Nat
    BY LatestType
  <2> QED BY <1>1, <2>1 DEF OtherRequest, OtherRow
<1>2. ASSUME NEW c \in Calls, FindExisting(c) PROVE RowType'
  BY <1>2, CallFields DEF FindExisting
<1>3. ASSUME NEW c \in Calls, createWithNumberRetry(c) PROVE RowType'
  BY <1>3, CallFields DEF createWithNumberRetry
<1>4. ASSUME NEW c \in Calls, FindRaced(c) PROVE RowType'
  BY <1>4, CallFields DEF FindRaced
<1>5. CASE \/ GoOffline \/ GoOnline
  BY <1>5 DEF GoOffline, GoOnline
<1>6. ASSUME NEW u \in Users, SignIn(u) PROVE RowType'
  BY <1>6 DEF SignIn
<1>7. ASSUME NEW t \in Tabs,
             \/ Retry(t) \/ ReadItems(t) \/ OpenTab(t) \/ CloseTab(t)
             \/ Reload(t) \/ logout(t)
      PROVE  RowType'
  BY <1>7 DEF Retry, ReadItems, OpenTab, CloseTab, Reload, logout
<1>8. ASSUME NEW t \in Tabs, NEW r \in Reports, NEW c \in Calls, Send(t, r, c) PROVE RowType'
  BY <1>8 DEF Send
<1>9. ASSUME NEW t \in Tabs, NEW c \in Calls,
             \/ Sent(t, c) \/ isPermanentFailure(t, c)
             \/ isAwaitingSignIn(t, c) \/ AnsweredTemporary(t, c)
             \/ NetworkError(t, c)
      PROVE  RowType'
  BY <1>9 DEF Sent, isPermanentFailure, isAwaitingSignIn, AnsweredTemporary,
    NetworkError
<1>10. ASSUME NEW t \in Tabs, NEW r \in Reports, enqueueOfflineAction(t, r) PROVE RowType'
  BY <1>10 DEF enqueueOfflineAction
<1>11. ASSUME NEW c \in Calls,
             \/ nextRequestNumber(c) \/ Unheard(c) \/ Forbidden(c)
             \/ ServerFails(c)
      PROVE  RowType'
  BY <1>11 DEF nextRequestNumber, Unheard, Forbidden, ServerFails
<1>12. CASE UNCHANGED vars
  BY <1>12 DEF vars
<1> QED BY <1>1, <1>2, <1>3, <1>4, <1>5, <1>6, <1>7, <1>8, <1>9, <1>10, <1>11,
  <1>12 DEF Next, TabStep, ServerStep

(* A call looks for a number only with an attempt left.                    *)
LEMMA AttemptsKept ==
  ASSUME CallType, AttemptInv, [Next]_vars
  PROVE  AttemptInv'
<1> USE BoundAssumption DEF device, queue, bounds, Fault, CallType, Answers,
        AttemptInv
<1>1. ASSUME NEW t \in Tabs, NEW r \in Reports, NEW c \in Calls, Send(t, r, c)
      PROVE AttemptInv'
  BY <1>1 DEF Send, IdleCall, Call
<1>2. ASSUME NEW t \in Tabs, NEW c \in Calls, Sent(t, c) PROVE AttemptInv'
  BY <1>2 DEF Sent, IdleCall, Call
<1>3. ASSUME NEW t \in Tabs, NEW c \in Calls, isPermanentFailure(t, c) PROVE
      AttemptInv'
  BY <1>3 DEF isPermanentFailure, IdleCall, Call
<1>4. ASSUME NEW t \in Tabs, NEW c \in Calls, isAwaitingSignIn(t, c) PROVE
      AttemptInv'
  BY <1>4 DEF isAwaitingSignIn, IdleCall, Call
<1>5. ASSUME NEW t \in Tabs, NEW c \in Calls, AnsweredTemporary(t, c) PROVE
      AttemptInv'
  BY <1>5 DEF AnsweredTemporary, IdleCall, Call
<1>6. ASSUME NEW t \in Tabs, NEW c \in Calls, NetworkError(t, c) PROVE
      AttemptInv'
  BY <1>6 DEF NetworkError, IdleCall, Call
<1>7. ASSUME NEW c \in Calls, FindExisting(c) PROVE AttemptInv'
  BY <1>7, AnswerFields, GotoFields DEF FindExisting
<1>8. ASSUME NEW c \in Calls, nextRequestNumber(c) PROVE AttemptInv'
  BY <1>8 DEF nextRequestNumber, Call
<1>9. ASSUME NEW c \in Calls, createWithNumberRetry(c) PROVE AttemptInv'
  BY <1>9, AnswerFields, GotoFields DEF createWithNumberRetry, AttemptsLeft
<1>10. ASSUME NEW c \in Calls, FindRaced(c) PROVE AttemptInv'
  BY <1>10, AnswerFields, GotoFields DEF FindRaced
<1>11. ASSUME NEW c \in Calls, Unheard(c) PROVE AttemptInv'
  BY <1>11 DEF Unheard, IdleCall, Call
<1>12. ASSUME NEW c \in Calls, Forbidden(c) PROVE AttemptInv'
  BY <1>12, AnswerFields, GotoFields DEF Forbidden
<1>13. ASSUME NEW c \in Calls, ServerFails(c) PROVE AttemptInv'
  BY <1>13, AnswerFields, GotoFields DEF ServerFails
<1>14. CASE \/ GoOffline \/ GoOnline \/ OtherRequest
  BY <1>14 DEF GoOffline, GoOnline, OtherRequest
<1>15. ASSUME NEW u \in Users, SignIn(u) PROVE AttemptInv'
  BY <1>15 DEF SignIn
<1>16. ASSUME NEW t \in Tabs,
             \/ Retry(t) \/ ReadItems(t) \/ OpenTab(t) \/ CloseTab(t)
             \/ Reload(t) \/ logout(t)
      PROVE  AttemptInv'
  BY <1>16 DEF Retry, ReadItems, OpenTab, CloseTab, Reload, logout
<1>17. ASSUME NEW t \in Tabs, NEW r \in Reports, enqueueOfflineAction(t, r) PROVE AttemptInv'
  BY <1>17 DEF enqueueOfflineAction
<1>18. CASE UNCHANGED vars
  BY <1>18 DEF vars
<1> QED BY <1>1, <1>2, <1>3, <1>4, <1>5, <1>6, <1>7, <1>8, <1>9, <1>10, <1>11,
  <1>12, <1>13, <1>14, <1>15, <1>16, <1>17, <1>18 DEF Next, TabStep,
  ServerStep

(* The index keeps the key of a report unique.                             *)
LEMMA KeysKept ==
  ASSUME CallType, AnswerInv, KeyInv, [Next]_vars
  PROVE  KeyInv'
<1> USE NullAssumption DEF device, queue, bounds, Fault, Goto, Answer, KeyInv
<1>1. CASE OtherRequest
  BY <1>1 DEF OtherRequest, OtherRow
<1>2. ASSUME NEW c \in Calls, createWithNumberRetry(c) PROVE KeyInv'
  BY <1>2 DEF createWithNumberRetry, UniqueConflict
<1>3. CASE \/ GoOffline \/ GoOnline
  BY <1>3 DEF GoOffline, GoOnline
<1>4. ASSUME NEW u \in Users, SignIn(u) PROVE KeyInv'
  BY <1>4 DEF SignIn
<1>5. ASSUME NEW t \in Tabs,
             \/ Retry(t) \/ ReadItems(t) \/ OpenTab(t) \/ CloseTab(t)
             \/ Reload(t) \/ logout(t)
      PROVE  KeyInv'
  BY <1>5 DEF Retry, ReadItems, OpenTab, CloseTab, Reload, logout
<1>6. ASSUME NEW t \in Tabs, NEW r \in Reports, NEW c \in Calls, Send(t, r, c) PROVE KeyInv'
  BY <1>6 DEF Send
<1>7. ASSUME NEW t \in Tabs, NEW c \in Calls,
             \/ Sent(t, c) \/ isPermanentFailure(t, c)
             \/ isAwaitingSignIn(t, c) \/ AnsweredTemporary(t, c)
             \/ NetworkError(t, c)
      PROVE  KeyInv'
  BY <1>7 DEF Sent, isPermanentFailure, isAwaitingSignIn, AnsweredTemporary,
    NetworkError
<1>8. ASSUME NEW t \in Tabs, NEW r \in Reports, enqueueOfflineAction(t, r) PROVE KeyInv'
  BY <1>8 DEF enqueueOfflineAction
<1>9. ASSUME NEW c \in Calls,
             \/ FindExisting(c) \/ nextRequestNumber(c) \/ FindRaced(c)
             \/ Unheard(c) \/ Forbidden(c) \/ ServerFails(c)
      PROVE  KeyInv'
  BY <1>9 DEF FindExisting, nextRequestNumber, FindRaced, Unheard, Forbidden,
    ServerFails
<1>10. CASE UNCHANGED vars
  BY <1>10 DEF vars
<1> QED BY <1>1, <1>2, <1>3, <1>4, <1>5, <1>6, <1>7, <1>8, <1>9, <1>10 DEF
  Next, TabStep, ServerStep

(* An answer stays true.                                                   *)
LEMMA AnswersKept ==
  ASSUME CallType, RowType, AnswerInv, [Next]_vars
  PROVE  AnswerInv'
<1> USE DEF device, queue, bounds, Fault, CallType, Answers, AnswerInv, Row
<1>1. CASE OtherRequest
  BY <1>1 DEF OtherRequest
<1>2. ASSUME NEW t \in Tabs, NEW r \in Reports, NEW c \in Calls, Send(t, r, c)
      PROVE AnswerInv'
  BY <1>2 DEF Send, IdleCall, Call
<1>3. ASSUME NEW t \in Tabs, NEW c \in Calls, Sent(t, c) PROVE AnswerInv'
  BY <1>3 DEF Sent, IdleCall, Call
<1>4. ASSUME NEW t \in Tabs, NEW c \in Calls, isPermanentFailure(t, c) PROVE
      AnswerInv'
  BY <1>4 DEF isPermanentFailure, IdleCall, Call
<1>5. ASSUME NEW t \in Tabs, NEW c \in Calls, isAwaitingSignIn(t, c) PROVE
      AnswerInv'
  BY <1>5 DEF isAwaitingSignIn, IdleCall, Call
<1>6. ASSUME NEW t \in Tabs, NEW c \in Calls, AnsweredTemporary(t, c) PROVE
      AnswerInv'
  BY <1>6 DEF AnsweredTemporary, IdleCall, Call
<1>7. ASSUME NEW t \in Tabs, NEW c \in Calls, NetworkError(t, c) PROVE
      AnswerInv'
  BY <1>7 DEF NetworkError, IdleCall, Call
<1>8. ASSUME NEW c \in Calls, FindExisting(c) PROVE AnswerInv'
  BY <1>8, AnswerFields, GotoFields DEF FindExisting
<1>9. ASSUME NEW c \in Calls, nextRequestNumber(c) PROVE AnswerInv'
  BY <1>9 DEF nextRequestNumber, Call
<1>10. ASSUME NEW c \in Calls, createWithNumberRetry(c) PROVE AnswerInv'
  <2>1. CASE ~ UniqueConflict(c)
    <3> DEFINE x == [report |-> call[c].report, number |-> call[c].number, by |-> call[c].by]
    <3>1. requests' = requests \cup {x} /\ Answer(c, "created") /\ x.report = call[c].report
      BY <1>10, <2>1 DEF createWithNumberRetry
    <3>2. call[c].step = "insert" /\ refused' = refused
      BY <1>10 DEF createWithNumberRetry
    <3> HIDE DEF x
    <3> QED BY <3>1, <3>2, AnswerFields
  <2>2. CASE UniqueConflict(c)
    <3>1. PICK s \in {"number", "raced"} : Goto(c, s)
      BY <1>10, <2>2 DEF createWithNumberRetry
    <3>2. call[c].step = "insert" /\ requests' = requests /\ refused' = refused
      BY <1>10, <2>2 DEF createWithNumberRetry
    <3> QED BY <3>1, <3>2, GotoFields
  <2> QED BY <2>1, <2>2
<1>11. ASSUME NEW c \in Calls, FindRaced(c) PROVE AnswerInv'
  BY <1>11, AnswerFields, GotoFields DEF FindRaced
<1>12. ASSUME NEW c \in Calls, Unheard(c) PROVE AnswerInv'
  BY <1>12 DEF Unheard, IdleCall, Call
<1>13. ASSUME NEW c \in Calls, Forbidden(c) PROVE AnswerInv'
  BY <1>13, AnswerFields, GotoFields DEF Forbidden
<1>14. ASSUME NEW c \in Calls, ServerFails(c) PROVE AnswerInv'
  BY <1>14, AnswerFields, GotoFields DEF ServerFails
<1>15. CASE \/ GoOffline \/ GoOnline
  BY <1>15 DEF GoOffline, GoOnline
<1>16. ASSUME NEW u \in Users, SignIn(u) PROVE AnswerInv'
  BY <1>16 DEF SignIn
<1>17. ASSUME NEW t \in Tabs,
             \/ Retry(t) \/ ReadItems(t) \/ OpenTab(t) \/ CloseTab(t)
             \/ Reload(t) \/ logout(t)
      PROVE  AnswerInv'
  BY <1>17 DEF Retry, ReadItems, OpenTab, CloseTab, Reload, logout
<1>18. ASSUME NEW t \in Tabs, NEW r \in Reports, enqueueOfflineAction(t, r) PROVE AnswerInv'
  BY <1>18 DEF enqueueOfflineAction
<1>19. CASE UNCHANGED vars
  BY <1>19 DEF vars
<1> QED BY <1>1, <1>2, <1>3, <1>4, <1>5, <1>6, <1>7, <1>8, <1>9, <1>10, <1>11,
  <1>12, <1>13, <1>14, <1>15, <1>16, <1>17, <1>18, <1>19 DEF Next, TabStep,
  ServerStep

(* Only a refused report reaches the limit of the retries.                 *)
LEMMA CountsKept ==
  ASSUME QueueType, TabType, CallType, AnswerInv, CountInv, [Next]_vars
  PROVE  CountInv'
<1> USE BoundAssumption DEF device, queue, bounds, Fault, QueueType, TabType,
        CountInv, GivenUpWasRefused
<1>1. CASE GoOnline
  BY <1>1, ReplayType DEF GoOnline
<1>2. ASSUME NEW t \in Tabs, Retry(t) PROVE CountInv'
  <2> DEFINE x == [tab[t] EXCEPT !.timer = FALSE]
  <2>1. x \in Tab /\ x.read = tab[t].read /\ x.step = tab[t].step /\ x.sending = tab[t].sending
    BY DEF Tab
  <2>2. tab' = [tab EXCEPT ![t] = IF onLine THEN Replay(x) ELSE x]
    BY <1>2 DEF Retry
  <2> HIDE DEF x
  <2>3. \A s \in Tabs :
          /\ tab'[s].step = "wait" => tab[s].step = "wait" /\ tab'[s].sending = tab[s].sending
          /\ tab'[s].read = tab[s].read
    BY <2>1, <2>2, ReplayType
  <2> QED BY <1>2, <2>3 DEF Retry
<1>3. ASSUME NEW t \in Tabs, ReadItems(t) PROVE CountInv'
  <2> DEFINE x == [tab[t] EXCEPT !.items = replayableOfflineActions, !.read = retryCount]
  <2>1. x \in Tab /\ x.read = retryCount
    BY DEF Tab, replayableOfflineActions
  <2>2. tab' = [tab EXCEPT ![t] = NextItem(x)]
    BY <1>3 DEF ReadItems
  <2> HIDE DEF x
  <2>3. \A s \in Tabs :
          /\ tab'[s].step = "wait" => tab[s].step = "wait" /\ tab'[s].sending = tab[s].sending
          /\ tab'[s].read \in {tab[s].read, Closed.read, retryCount}
    BY <2>1, <2>2, NextItemType
  <2>4. retryCount' = retryCount /\ refused' = refused
    BY <1>3 DEF ReadItems
  <2>5. \A r \in Reports : status'[r] \in {status[r], "pruned"}
    BY <1>3 DEF ReadItems
  <2> QED BY <2>3, <2>4, <2>5, ClosedReads
<1>4. ASSUME NEW t \in Tabs, NEW r \in Reports, NEW c \in Calls, Send(t, r, c)
      PROVE CountInv'
  <2>1. /\ tab'[t].step = "wait" /\ tab'[t].sending = r /\ tab'[t].read = tab[t].read
        /\ \A s \in Tabs \ {t} : tab'[s] = tab[s]
    BY <1>4 DEF Send, Tab
  <2>2. GivenUpWasRefused'
    BY <1>4 DEF Send, Update
  <2> QED BY <1>4, <2>1, <2>2 DEF Send
<1>5. ASSUME NEW t \in Tabs, NEW c \in Calls, Sent(t, c) PROVE CountInv'
  <2>1. tab[t] \in Tab
    OBVIOUS
  <2>2. tab[t].step = "wait" /\ tab[t].sending \in Reports
    BY <1>5 DEF Sent, Awaits
  <2>3. GivenUpWasRefused'
    BY <1>5, <2>2, RetriesBelowLimit, SendingFields DEF Sent, Awaits,
       Update, AnswerInv, TemporaryFailure
  <2>4. \A s \in Tabs :
          /\ tab'[s].step = "wait" => tab[s].step = "wait" /\ tab'[s].sending = tab[s].sending
          /\ tab'[s].read \in {tab[s].read, Closed.read}
    BY <1>5, <2>1, NextItemType, BreakType, ClosedReads DEF Sent, TemporaryFailure
  <2> QED BY <1>5, <2>3, <2>4, ClosedReads DEF Sent
<1>6. ASSUME NEW t \in Tabs, NEW c \in Calls, isPermanentFailure(t, c) PROVE
      CountInv'
  <2>1. tab[t] \in Tab
    OBVIOUS
  <2>2. tab[t].step = "wait" /\ tab[t].sending \in Reports
    BY <1>6 DEF isPermanentFailure, Awaits
  <2>3. GivenUpWasRefused'
    BY <1>6, <2>2, RetriesBelowLimit, SendingFields DEF isPermanentFailure, Awaits,
       Update, AnswerInv, TemporaryFailure
  <2>4. \A s \in Tabs :
          /\ tab'[s].step = "wait" => tab[s].step = "wait" /\ tab'[s].sending = tab[s].sending
          /\ tab'[s].read \in {tab[s].read, Closed.read}
    BY <1>6, <2>1, NextItemType, BreakType, ClosedReads DEF isPermanentFailure, TemporaryFailure
  <2> QED BY <1>6, <2>3, <2>4, ClosedReads DEF isPermanentFailure
<1>7. ASSUME NEW t \in Tabs, NEW c \in Calls, isAwaitingSignIn(t, c) PROVE
      CountInv'
  <2>1. tab[t] \in Tab
    OBVIOUS
  <2>2. tab[t].step = "wait" /\ tab[t].sending \in Reports
    BY <1>7 DEF isAwaitingSignIn, Awaits
  <2>3. GivenUpWasRefused'
    BY <1>7, <2>2, RetriesBelowLimit, SendingFields DEF isAwaitingSignIn, Awaits,
       Update, AnswerInv, TemporaryFailure
  <2>4. \A s \in Tabs :
          /\ tab'[s].step = "wait" => tab[s].step = "wait" /\ tab'[s].sending = tab[s].sending
          /\ tab'[s].read \in {tab[s].read, Closed.read}
    BY <1>7, <2>1, NextItemType, BreakType, ClosedReads DEF isAwaitingSignIn, TemporaryFailure
  <2> QED BY <1>7, <2>3, <2>4, ClosedReads DEF isAwaitingSignIn
<1>8. ASSUME NEW t \in Tabs, NEW c \in Calls, AnsweredTemporary(t, c) PROVE
      CountInv'
  <2>1. tab[t] \in Tab
    OBVIOUS
  <2>2. tab[t].step = "wait" /\ tab[t].sending \in Reports
    BY <1>8 DEF AnsweredTemporary, Awaits
  <2>3. GivenUpWasRefused'
    BY <1>8, <2>2, RetriesBelowLimit, SendingFields DEF AnsweredTemporary, Awaits,
       Update, AnswerInv, TemporaryFailure
  <2>4. \A s \in Tabs :
          /\ tab'[s].step = "wait" => tab[s].step = "wait" /\ tab'[s].sending = tab[s].sending
          /\ tab'[s].read \in {tab[s].read, Closed.read}
    BY <1>8, <2>1, NextItemType, BreakType, ClosedReads DEF AnsweredTemporary, TemporaryFailure
  <2> QED BY <1>8, <2>3, <2>4, ClosedReads DEF AnsweredTemporary
<1>9. ASSUME NEW t \in Tabs, OpenTab(t) PROVE CountInv'
  BY <1>9, ClosedReads DEF OpenTab
<1>10. ASSUME NEW t \in Tabs, CloseTab(t) PROVE CountInv'
  BY <1>10, ClosedReads DEF CloseTab
<1>11. ASSUME NEW t \in Tabs, Reload(t) PROVE CountInv'
  BY <1>11, ClosedReads DEF Reload
<1>12. ASSUME NEW t \in Tabs, logout(t) PROVE CountInv'
  BY <1>12, ClosedReads DEF logout
<1>13. ASSUME NEW t \in Tabs, NEW r \in Reports, enqueueOfflineAction(t, r)
      PROVE CountInv'
  BY <1>13 DEF enqueueOfflineAction
<1>14. ASSUME NEW t \in Tabs, NEW c \in Calls, NetworkError(t, c) PROVE
      CountInv'
  <2>1. tab[t] \in Tab
    OBVIOUS
  <2>2. tab[t].step = "wait" /\ tab[t].sending \in Reports
    BY <1>14 DEF NetworkError, Awaits
  <2>3. GivenUpWasRefused'
    BY <1>14, <2>2, RetriesBelowLimit, SendingFields DEF NetworkError, Awaits,
       Update, AnswerInv, TemporaryFailure
  <2>4. \A s \in Tabs :
          /\ tab'[s].step = "wait" => tab[s].step = "wait" /\ tab'[s].sending = tab[s].sending
          /\ tab'[s].read \in {tab[s].read, Closed.read}
    BY <1>14, <2>1, NextItemType, BreakType, ClosedReads DEF NetworkError, TemporaryFailure
  <2> QED BY <1>14, <2>3, <2>4, ClosedReads DEF NetworkError
<1>15. ASSUME NEW c \in Calls, FindExisting(c) PROVE CountInv'
  BY <1>15 DEF FindExisting
<1>16. ASSUME NEW c \in Calls, FindRaced(c) PROVE CountInv'
  BY <1>16 DEF FindRaced
<1>17. CASE \/ GoOffline \/ OtherRequest
  BY <1>17 DEF GoOffline, OtherRequest
<1>18. ASSUME NEW u \in Users, SignIn(u) PROVE CountInv'
  BY <1>18 DEF SignIn
<1>19. ASSUME NEW c \in Calls,
             \/ nextRequestNumber(c) \/ createWithNumberRetry(c)
             \/ Unheard(c) \/ Forbidden(c) \/ ServerFails(c)
      PROVE  CountInv'
  BY <1>19 DEF nextRequestNumber, createWithNumberRetry, Unheard, Forbidden,
    ServerFails
<1>20. CASE UNCHANGED vars
  BY <1>20 DEF vars
<1> QED BY <1>1, <1>2, <1>3, <1>4, <1>5, <1>6, <1>7, <1>8, <1>9, <1>10, <1>11,
  <1>12, <1>13, <1>14, <1>15, <1>16, <1>17, <1>18, <1>19, <1>20 DEF Next,
  TabStep, ServerStep

(* What is marked as sent stays on the server.                             *)
LEMMA SentStaysTrue ==
  ASSUME QueueType, TabType, CallType, RowType, AnswerInv, CountInv,
         SentIsTrue, [Next]_vars
  PROVE  SentIsTrue'
<1> USE DEF device, queue, bounds, Fault, QueueType, SentIsTrue, Row
<1>1. CASE OtherRequest
  BY <1>1 DEF OtherRequest
<1>2. ASSUME NEW t \in Tabs, ReadItems(t) PROVE SentIsTrue'
  BY <1>2 DEF ReadItems
<1>3. ASSUME NEW t \in Tabs, NEW r \in Reports, NEW c \in Calls, Send(t, r, c)
      PROVE SentIsTrue'
  BY <1>3 DEF Send, Update
<1>4. ASSUME NEW t \in Tabs, NEW c \in Calls, Sent(t, c) PROVE SentIsTrue'
  BY <1>4, SendingFields DEF Sent, Awaits, Update, AnswerInv, Row
<1>5. ASSUME NEW t \in Tabs, NEW c \in Calls, isPermanentFailure(t, c) PROVE
      SentIsTrue'
  BY <1>5, SendingFields DEF isPermanentFailure, Awaits, Update, AnswerInv,
    Row
<1>6. ASSUME NEW t \in Tabs, NEW c \in Calls, isAwaitingSignIn(t, c) PROVE
      SentIsTrue'
  BY <1>6, SendingFields DEF isAwaitingSignIn, Awaits, Update, AnswerInv, Row
<1>7. ASSUME NEW t \in Tabs, NEW c \in Calls, AnsweredTemporary(t, c) PROVE
      SentIsTrue'
  BY <1>7, SendingFields DEF AnsweredTemporary, Awaits, Update,
    TemporaryFailure
<1>8. ASSUME NEW t \in Tabs, NEW r \in Reports, enqueueOfflineAction(t, r)
      PROVE SentIsTrue'
  BY <1>8 DEF enqueueOfflineAction
<1>9. ASSUME NEW t \in Tabs, NEW c \in Calls, NetworkError(t, c) PROVE
      SentIsTrue'
  BY <1>9, SendingFields DEF NetworkError, Awaits, Update, TemporaryFailure
<1>10. ASSUME NEW c \in Calls, createWithNumberRetry(c) PROVE SentIsTrue'
  BY <1>10 DEF createWithNumberRetry
<1>11. CASE \/ GoOffline \/ GoOnline
  BY <1>11 DEF GoOffline, GoOnline
<1>12. ASSUME NEW u \in Users, SignIn(u) PROVE SentIsTrue'
  BY <1>12 DEF SignIn
<1>13. ASSUME NEW t \in Tabs,
             \/ Retry(t) \/ OpenTab(t) \/ CloseTab(t) \/ Reload(t)
             \/ logout(t)
      PROVE  SentIsTrue'
  BY <1>13 DEF Retry, OpenTab, CloseTab, Reload, logout
<1>14. ASSUME NEW c \in Calls,
             \/ FindExisting(c) \/ nextRequestNumber(c) \/ FindRaced(c)
             \/ Unheard(c) \/ Forbidden(c) \/ ServerFails(c)
      PROVE  SentIsTrue'
  BY <1>14 DEF FindExisting, nextRequestNumber, FindRaced, Unheard, Forbidden,
    ServerFails
<1>15. CASE UNCHANGED vars
  BY <1>15 DEF vars
<1> QED BY <1>1, <1>2, <1>3, <1>4, <1>5, <1>6, <1>7, <1>8, <1>9, <1>10, <1>11,
  <1>12, <1>13, <1>14, <1>15 DEF Next, TabStep, ServerStep

(* The initial state, and the steps together.                              *)
LEMMA InitInv == Init => IInv
<1> SUFFICES ASSUME Init PROVE IInv
  OBVIOUS
<1>1. DeviceType /\ QueueType
  BY BoundAssumption DEF Init, DeviceType, QueueType, Status
<1>2. TabType /\ CallType
  BY ClosedType, IdleCallType DEF Init, TabType, CallType
<1>3. RowType
  BY DEF Init, RowType, OtherRow
<1>4. AttemptInv /\ AnswerInv
  BY DEF Init, AttemptInv, AnswerInv, IdleCall
<1>5. KeyInv /\ SentIsTrue
  BY NullAssumption DEF Init, KeyInv, SentIsTrue, OtherRow
<1>6. CountInv
  BY ClosedReads, BoundAssumption DEF Init, CountInv, GivenUpWasRefused
<1> QED BY <1>1, <1>2, <1>3, <1>4, <1>5, <1>6 DEF IInv, Types

LEMMA StepInv == IInv /\ [Next]_vars => IInv'
BY DeviceTypes, QueueTypes, TabTypes, CallTypes, RowTypes, AttemptsKept, KeysKept,
   AnswersKept, CountsKept, SentStaysTrue DEF IInv, Types

----------------------------------------------------------------------------
(* The theorems.                                                           *)

\* The inductive invariant holds in every reachable state.
THEOREM ReportInvariant == Spec => []IInv
<1>1. Init => IInv BY InitInv
<1>2. IInv /\ [Next]_vars => IInv' BY StepInv
<1> QED BY <1>1, <1>2, PTL DEF Spec

\* The queue, the tabs, the calls and the rows are well formed; a call never
\* tries more numbers than it may.
THEOREM ReportTypes == Spec => []TypeOK
<1>1. IInv => TypeOK
  BY DEF IInv, Types, DeviceType, QueueType, TabType, CallType, RowType, TypeOK
<1> QED BY <1>1, ReportInvariant, PTL

\* A report becomes at most one request, with any number of tabs and of calls
\* that go on unheard (create).
THEOREM OneRequest == Spec => []OneRequestPerReport
<1>1. IInv => OneRequestPerReport
  <2> SUFFICES ASSUME IInv, NEW r \in Reports PROVE Cardinality(Row(r)) <= 1
    BY DEF OneRequestPerReport
  <2>1. CASE Row(r) = {}
    BY <2>1, FS_EmptySet
  <2>2. CASE Row(r) # {}
    <3>1. PICK x \in Row(r) : TRUE
      BY <2>2
    <3>2. Row(r) = {x}
      BY <3>1 DEF Row, IInv, KeyInv
    <3> QED BY <3>2, FS_Singleton
  <2> QED BY <2>1, <2>2
<1> QED BY <1>1, ReportInvariant, PTL

\* What a device shows as sent is on the server, whichever answers were lost
\* (offline-request-replayer.tsx, create).
THEOREM SentReports == Spec => []SentIsTrue
BY ReportInvariant, PTL DEF IInv

\* The queue gives up only what the server has refused, also when tabs count
\* retries from old readings (replayableOfflineActions).
THEOREM GivenUpReports == Spec => []GivenUpWasRefused
BY ReportInvariant, PTL DEF IInv, CountInv

=============================================================================
