---------------------------- MODULE Replication ----------------------------
(***************************************************************************)
(* The copy of the primary database kept in the backup database: the       *)
(* Prisma middleware that captures each write as ReplicationOutbox events  *)
(* (prisma.service.ts), the strict mode that applies them inside the       *)
(* request, and the worker of every API process that applies what is due   *)
(* (replication-sync.service.ts).  The middleware opens no transaction of  *)
(* its own, so the read before the write, the write, the read of the       *)
(* payload and each outbox insert are separate actions.                    *)
(***************************************************************************)
EXTENDS Integers, FiniteSets

CONSTANTS Requests,       \* requests; each makes one write
          Ids,            \* record ids of the replicated models
          Users,          \* the ids that belong to model User
          Processes,      \* API processes; each runs one worker
          Inputs,         \* the writes requests make
          InitialIds,     \* rows both databases hold at the start
          Seed,           \* the content of those rows
          NoRow, NoPayload, NoEvent,
          Strict,         \* mode = "strict_dual_write", else "async_outbox"
          BackupRequired, \* backupRequiredForStrictMode
          RetryAttempts,  \* retryAttempts
          BatchSize,      \* batchSize
          PrefetchLimit,  \* REPLICATION_PREFETCH_LIMIT
          MaxFailures,    \* bound on failed database calls
          MaxCrashes      \* bound on requests and workers that die

\* The content of a row: the request that wrote it last.
Values == Requests \cup {Seed}
Events == Requests \X Ids

SingleOps == {"create", "update", "upsert", "delete"}
ManyOps == {"updateMany", "deleteMany"}
DeleteOps == {"delete", "deleteMany"}
\* createMany with ids in its data, and with ids the database assigns.
BulkOps == {"createMany", "createManyNoId"}

\* A write names one row, by its id or by another unique key, or the contents
\* its where clause matches; returnsId says that what it selects to return has
\* the id, tx that it is made inside an interactive $transaction.
InputType == [op: SingleOps \cup ManyOps \cup BulkOps, id: Ids,
              byId: BOOLEAN, where: SUBSET Values, returnsId: BOOLEAN,
              tx: BOOLEAN]

ASSUME ReplicationAssumption ==
  /\ IsFiniteSet(Requests) /\ IsFiniteSet(Ids)
  /\ Users \subseteq Ids /\ InitialIds \subseteq Ids
  /\ Inputs \subseteq InputType
  /\ NoRow \notin Values /\ NoPayload \notin Values /\ NoEvent \notin Events
  /\ Strict \in BOOLEAN /\ BackupRequired \in BOOLEAN
  /\ RetryAttempts \in Nat \ {0}
  /\ BatchSize \in Nat \ {0} /\ PrefetchLimit \in Nat \ {0}
  /\ MaxFailures \in Nat /\ MaxCrashes \in Nat

VARIABLES
  stage, call, before, hit, toRead, candidates, strictEvent,  \* requests
  primary, backup,                                            \* databases
  status, content, attemptCount, createdAt, due,              \* outbox rows
  step, batch, seenAttempts, working,                         \* workers
  attempts, applied,      \* history: outcomes recorded, events applied
  failures, crashes       \* how much of the bounds is used

requestVars == <<stage, call, before, hit, toRead, candidates, strictEvent>>
outboxVars == <<status, content, attemptCount, createdAt, due>>
workerVars == <<step, batch, seenAttempts, working>>
vars == <<requestVars, primary, backup, outboxVars, workerVars, attempts,
          applied, failures, crashes>>

Candidate == [id: Ids, operation: {"UPSERT", "DELETE"},
              payload: Values \cup {NoPayload}]
Statuses == {"NONE", "PENDING", "PROCESSING", "SYNCED", "FAILED",
             "DEAD_LETTER"}
\* Fault: a row that is SYNCED can be fetched and claimed again.
Open_Synced == {"PENDING", "FAILED", "PROCESSING", "SYNCED"}

\* The statuses a worker fetches and claims.
Open == {"PENDING", "FAILED", "PROCESSING"}
Ended == {"ok", "failed", "lost"}

Init ==
  /\ stage = [r \in Requests |-> "start"]
  /\ call \in [Requests -> Inputs]
  /\ before = [r \in Requests |-> {}]
  /\ hit = [r \in Requests |-> {}]
  /\ toRead = [r \in Requests |-> {}]
  /\ candidates = [r \in Requests |-> {}]
  /\ strictEvent = [r \in Requests |-> NoEvent]
  /\ primary = [i \in Ids |-> IF i \in InitialIds THEN Seed ELSE NoRow]
  /\ backup = primary
  /\ status = [e \in Events |-> "NONE"]
  /\ content = [e \in Events |-> NoPayload]
  /\ attemptCount = [e \in Events |-> 0]
  /\ createdAt = [e \in Events |-> 0]
  /\ due = {}
  /\ step = [p \in Processes |-> "idle"]
  /\ batch = [p \in Processes |-> {}]
  /\ seenAttempts = [p \in Processes |-> [e \in Events |-> 0]]
  /\ working = [p \in Processes |-> NoEvent]
  /\ attempts = [e \in Events |-> 0]
  /\ applied = {}
  /\ failures = 0 /\ crashes = 0

----------------------------------------------------------------------------
(* Capture: the middleware around one write.                               *)

Matching(c) == {i \in Ids : primary[i] \in c.where}

\* What the read before the write can return: of a where clause, at most
\* PrefetchLimit rows; before a delete the row, when there is one.  The other
\* operations make no use of what it returns.
Prefetched(c) ==
  IF c.op \in ManyOps
  THEN {S \in SUBSET Matching(c) :
          \/ Cardinality(S) = PrefetchLimit
          \/ S = Matching(c) /\ Cardinality(S) <= PrefetchLimit}
  ELSE {IF c.op = "delete" /\ primary[c.id] # NoRow THEN {c.id} ELSE {}}

\* Rows an open interactive transaction has written.
Locked(i) == \E r \in Requests : /\ call[r].tx /\ i \in hit[r]
                                 /\ stage[r] \in {"read", "commit"}

\* Where a request stands once these reads and outbox inserts are left.
StageAfter(r, committed, reads, inserts) ==
  IF reads # {} THEN "read"
  ELSE IF call[r].tx /\ ~committed THEN "commit"
  ELSE IF inserts # {} THEN "queue" ELSE "ok"

Written(r, rows) ==
  [i \in Ids |-> IF i \notin rows THEN primary[i]
                 ELSE IF call[r].op \in DeleteOps THEN NoRow ELSE r]

\* A read that fails is only logged.
ReadBefore(r) ==
  /\ stage[r] = "start"
  /\ stage' = [stage EXCEPT ![r] = "write"]
  /\ \/ /\ \E S \in Prefetched(call[r]) : before' = [before EXCEPT ![r] = S]
        /\ UNCHANGED failures
     \/ /\ call[r].op \in ManyOps \cup {"delete"}
        /\ failures < MaxFailures
        /\ failures' = failures + 1
        /\ UNCHANGED before
  /\ UNCHANGED <<call, hit, toRead, candidates, strictEvent, primary, backup,
                 outboxVars, workerVars, attempts, applied, crashes>>

\* Does the statement itself fail: unique id taken, record not found?
Refused(c) ==
  \/ c.op \in {"create"} \cup BulkOps /\ primary[c.id] # NoRow
  \/ c.op \in {"update", "delete"} /\ primary[c.id] = NoRow

\* The rows the statement changes.
Rows(r) == IF call[r].op \in ManyOps THEN Matching(call[r]) ELSE {call[r].id}

\* Of a write that names one row, whether its id is found: in the result, in
\* the where clause, or, of a delete, in the row read before.
IdIsFound(r) ==
  \/ call[r].op \in {"create", "update", "upsert"} /\ call[r].returnsId
  \/ call[r].op \in {"update", "upsert", "delete"} /\ call[r].byId
  \/ call[r].op = "delete" /\ before[r] # {}
  \/ call[r].op = "createMany"

\* The rows that become candidates: with a where clause the ones read before,
\* not the ones it hit; without an id there is no candidate.
Captured(r) == IF call[r].op \in ManyOps THEN before[r]
               ELSE IF IdIsFound(r) THEN {call[r].id} ELSE {}

\* The candidates whose row is read once more, for its payload.
ToRead(r) ==
  IF \/ call[r].op \in {"create", "update", "upsert"} /\ call[r].returnsId
     \/ call[r].op = "updateMany"
  THEN Captured(r) ELSE {}

\* The candidates made without another read: deletes, createMany, whose
\* payload is the data of the call, and writes whose result has no id, which
\* have no payload.
Direct(r) ==
  IF ToRead(r) # {} THEN {}
  ELSE [id: Captured(r),
        operation: {IF call[r].op \in DeleteOps THEN "DELETE" ELSE "UPSERT"},
        payload: {IF call[r].op \in BulkOps THEN r ELSE NoPayload}]

Write(r) ==
  /\ stage[r] = "write"
  /\ ~Refused(call[r])
  /\ \A i \in Rows(r) : ~Locked(i)
  /\ primary' = IF call[r].tx THEN primary ELSE Written(r, Rows(r))
  /\ hit' = [hit EXCEPT ![r] = Rows(r)]
  /\ toRead' = [toRead EXCEPT ![r] = ToRead(r)]
  /\ candidates' = [candidates EXCEPT ![r] = Direct(r)]
  /\ stage' = [stage EXCEPT ![r] = StageAfter(r, FALSE, ToRead(r), Direct(r))]
  /\ UNCHANGED <<call, before, strictEvent, backup, outboxVars, workerVars,
                 attempts, applied, failures, crashes>>

WriteRefused(r) ==
  /\ stage[r] = "write"
  /\ Refused(call[r]) /\ ~Locked(call[r].id)
  /\ stage' = [stage EXCEPT ![r] = "failed"]
  /\ UNCHANGED <<call, before, hit, toRead, candidates, strictEvent, primary,
                 backup, outboxVars, workerVars, attempts, applied, failures,
                 crashes>>

\* findCurrentReplicationPayload: the committed row as it is NOW.  When it is
\* gone, the result of the write; updateMany only has the id, so nothing.
CurrentPayload(r, i) ==
  IF primary[i] # NoRow THEN primary[i]
  ELSE IF call[r].op \in ManyOps THEN NoPayload ELSE r

BuildCandidate(r) ==
  /\ stage[r] = "read"
  /\ \E i \in toRead[r] :
       LET reads == toRead[r] \ {i}
           found == [id |-> i, operation |-> "UPSERT",
                     payload |-> CurrentPayload(r, i)]
           inserts == candidates[r] \cup {found}
       IN /\ toRead' = [toRead EXCEPT ![r] = reads]
          /\ candidates' = [candidates EXCEPT ![r] = inserts]
          /\ stage' = [stage EXCEPT
                         ![r] = StageAfter(r, FALSE, reads, inserts)]
  /\ UNCHANGED <<call, before, hit, strictEvent, primary, backup, outboxVars,
                 workerVars, attempts, applied, failures, crashes>>

\* The payload is read outside the transaction.  Where a read waits for the
\* transaction's own lock, the transaction times out and is rolled back.
TransactionTimesOut(r) ==
  /\ stage[r] = "read" /\ call[r].tx
  /\ toRead[r] \cap hit[r] # {}
  /\ stage' = [stage EXCEPT ![r] = "failed"]
  /\ toRead' = [toRead EXCEPT ![r] = {}]
  /\ candidates' = [candidates EXCEPT ![r] = {}]
  /\ hit' = [hit EXCEPT ![r] = {}]
  /\ UNCHANGED <<call, before, strictEvent, primary, backup, outboxVars,
                 workerVars, attempts, applied, failures, crashes>>

Commit(r) ==
  /\ stage[r] = "commit"
  /\ primary' = Written(r, hit[r])
  /\ stage' = [stage EXCEPT ![r] = StageAfter(r, TRUE, {}, candidates[r])]
  /\ UNCHANGED <<call, before, hit, toRead, candidates, strictEvent, backup,
                 outboxVars, workerVars, attempts, applied, failures, crashes>>

\* persistReplicationCandidates: the outbox row, due at once.
Persist(r) ==
  /\ stage[r] = "queue"
  /\ \E k \in candidates[r] :
       LET e == <<r, k.id>>
           rest == candidates[r] \ {k}
       IN /\ status' = [status EXCEPT ![e] = "PENDING"]
          /\ content' = [content EXCEPT
                           ![e] = IF k.operation = "DELETE" THEN NoRow
                                  ELSE k.payload]
          /\ createdAt' = [createdAt EXCEPT
               ![e] = 1 + Cardinality({f \in Events : status[f] # "NONE"})]
          /\ due' = due \cup {e}
          /\ candidates' = [candidates EXCEPT ![r] = rest]
          /\ strictEvent' = [strictEvent EXCEPT
                               ![r] = IF Strict THEN e ELSE NoEvent]
          /\ stage' = [stage EXCEPT
                         ![r] = IF Strict THEN "apply"
                                ELSE StageAfter(r, TRUE, {}, rest)]
  /\ UNCHANGED <<call, before, hit, toRead, primary, backup, attemptCount,
                 workerVars, attempts, applied, failures, crashes>>

\* The request dies, or an outbox insert fails: what it has not persisted is
\* gone, and an open transaction is rolled back.
RequestDies(r) ==
  /\ stage[r] \notin Ended \cup {"start", "write"}
  /\ crashes < MaxCrashes
  /\ crashes' = crashes + 1
  /\ stage' = [stage EXCEPT ![r] = "lost"]
  /\ hit' = [hit EXCEPT
       ![r] = IF call[r].tx /\ stage[r] \in {"read", "commit"} THEN {} ELSE @]
  /\ UNCHANGED <<call, before, toRead, candidates, strictEvent, primary,
                 backup, outboxVars, workerVars, attempts, applied, failures>>

----------------------------------------------------------------------------
(* applyReplicationEventToBackup, as the request and the worker call it.   *)

\* Fault: a delete of a row the backup lacks is an error.
Broken_MissingRow(e) ==
  \/ content[e] = NoPayload
  \/ content[e] = NoRow /\ backup[e[2]] = NoRow

\* Fault: a missing payload is not noticed.
Broken_Never(e) == FALSE

\* An upsert whose payload is missing is an error every time.
Broken(e) == content[e] = NoPayload

\* The password hash is never in a payload: a User is not upserted but looked
\* up, skipped when the backup lacks it, which succeeds, and updated otherwise.
IsUser(e) == content[e] \in Values /\ e[2] \in Users

\* A delete of a missing row succeeds.
Applied(e) == [backup EXCEPT ![e[2]] = content[e]]

ApplySucceeds(e) ==
  /\ ~Broken(e)
  /\ IF IsUser(e)
     THEN backup[e[2]] = NoRow /\ UNCHANGED backup
     ELSE backup' = Applied(e)
  /\ applied' = applied \cup {e}
  /\ UNCHANGED failures

FindsUser(e) ==
  /\ IsUser(e) /\ backup[e[2]] # NoRow
  /\ UNCHANGED <<backup, applied, failures>>

\* The call fails, having changed the backup or not.
ApplyFails(e) ==
  \/ /\ Broken(e)
     /\ UNCHANGED <<backup, applied, failures>>
  \/ /\ ~Broken(e)
     /\ failures < MaxFailures
     /\ failures' = failures + 1
     /\ \/ UNCHANGED <<backup, applied>>
        \/ ~IsUser(e) /\ backup' = Applied(e) /\ applied' = applied \cup {e}

\* The User that was found may be gone: then the update is an error.
UpdateSucceeds(e) ==
  /\ backup[e[2]] # NoRow
  /\ backup' = Applied(e) /\ applied' = applied \cup {e}
  /\ UNCHANGED failures

UpdateFails(e) ==
  \/ /\ backup[e[2]] = NoRow
     /\ UNCHANGED <<backup, applied, failures>>
  \/ /\ backup[e[2]] # NoRow
     /\ failures < MaxFailures
     /\ failures' = failures + 1
     /\ \/ UNCHANGED <<backup, applied>>
        \/ backup' = Applied(e) /\ applied' = applied \cup {e}

----------------------------------------------------------------------------
(* applyStrictReplication, inside the request.                             *)

StrictApply(r) ==
  /\ stage[r] = "apply"
  /\ \/ /\ ApplySucceeds(strictEvent[r])
        /\ stage' = [stage EXCEPT ![r] = "synced"]
     \/ /\ FindsUser(strictEvent[r])
        /\ stage' = [stage EXCEPT ![r] = "update"]
     \/ /\ ApplyFails(strictEvent[r])
        /\ stage' = [stage EXCEPT ![r] = "unsynced"]
  /\ UNCHANGED <<call, before, hit, toRead, candidates, strictEvent, primary,
                 outboxVars, workerVars, attempts, crashes>>

StrictUpdateUser(r) ==
  /\ stage[r] = "update"
  /\ \/ /\ UpdateSucceeds(strictEvent[r])
        /\ stage' = [stage EXCEPT ![r] = "synced"]
     \/ /\ UpdateFails(strictEvent[r])
        /\ stage' = [stage EXCEPT ![r] = "unsynced"]
  /\ UNCHANGED <<call, before, hit, toRead, candidates, strictEvent, primary,
                 outboxVars, workerVars, attempts, crashes>>

StrictSynced(r) ==
  LET e == strictEvent[r]
  IN /\ stage[r] = "synced"
     /\ status' = [status EXCEPT ![e] = "SYNCED"]
     /\ attemptCount' = [attemptCount EXCEPT ![e] = @ + 1]
     /\ attempts' = [attempts EXCEPT ![e] = @ + 1]
     /\ stage' = [stage EXCEPT ![r] = StageAfter(r, TRUE, {}, candidates[r])]
     /\ UNCHANGED <<call, before, hit, toRead, candidates, strictEvent,
                    primary, backup, content, createdAt, due, workerVars,
                    applied, failures, crashes>>

\* Fault: the failure is recorded and not thrown.
StrictFailed_Swallowed(r) ==
  LET e == strictEvent[r]
  IN /\ stage[r] = "unsynced"
     /\ status' = [status EXCEPT ![e] = "FAILED"]
     /\ attemptCount' = [attemptCount EXCEPT ![e] = @ + 1]
     /\ attempts' = [attempts EXCEPT ![e] = @ + 1]
     /\ due' = due \ {e}
     /\ stage' = [stage EXCEPT ![r] = StageAfter(r, TRUE, {}, candidates[r])]
     /\ UNCHANGED <<call, before, hit, toRead, candidates, strictEvent,
                    primary, backup, content, createdAt, workerVars, applied,
                    failures, crashes>>

\* Where the backup is required the error leaves the loop over the
\* candidates: the ones that are left are never inserted.
StrictFailed(r) ==
  LET e == strictEvent[r]
  IN /\ stage[r] = "unsynced"
     /\ status' = [status EXCEPT ![e] = "FAILED"]
     /\ attemptCount' = [attemptCount EXCEPT ![e] = @ + 1]
     /\ attempts' = [attempts EXCEPT ![e] = @ + 1]
     /\ due' = due \ {e}
     /\ stage' = [stage EXCEPT
                    ![r] = IF BackupRequired THEN "failed"
                           ELSE StageAfter(r, TRUE, {}, candidates[r])]
     /\ UNCHANGED <<call, before, hit, toRead, candidates, strictEvent,
                    primary, backup, content, createdAt, workerVars, applied,
                    failures, crashes>>

----------------------------------------------------------------------------
(* ReplicationSyncService: the worker of one process.                      *)

\* Fault: newest first.
Older_Newest(e, f) == createdAt[e] > createdAt[f]

Older(e, f) == createdAt[e] < createdAt[f]

\* Fault: stale PROCESSING rows are not fetched again.
TimePasses_FailedOnly(e) ==
  /\ status[e] = "FAILED" /\ e \notin due
  /\ due' = due \cup {e}
  /\ UNCHANGED <<requestVars, primary, backup, status, content, attemptCount,
                 createdAt, workerVars, attempts, applied, failures, crashes>>

\* nextRetryAt has come, or a PROCESSING row was not touched for as long.
TimePasses(e) ==
  /\ status[e] \in {"FAILED", "PROCESSING"} /\ e \notin due
  /\ due' = due \cup {e}
  /\ UNCHANGED <<requestVars, primary, backup, status, content, attemptCount,
                 createdAt, workerVars, attempts, applied, failures, crashes>>

Due == {e \in due : status[e] \in Open}

Oldest(S, n) == {e \in S : Cardinality({f \in S : Older(f, e)}) < n}

\* findMany: the oldest due rows, as they are now.  One batch at a time.
Fetch(p) ==
  /\ step[p] = "idle" /\ Due # {}
  /\ batch' = [batch EXCEPT ![p] = Oldest(Due, BatchSize)]
  /\ seenAttempts' = [seenAttempts EXCEPT
       ![p] = [e \in Events |-> IF e \in Oldest(Due, BatchSize)
                                THEN attemptCount[e] ELSE 0]]
  /\ step' = [step EXCEPT ![p] = "claim"]
  /\ UNCHANGED <<requestVars, primary, backup, outboxVars, working, attempts,
                 applied, failures, crashes>>

StepAfter(rest) == IF rest = {} THEN "idle" ELSE "claim"

Claimable(e) == status[e] \in Open

\* claimEvent; a row that cannot be claimed any more is skipped.
Claim(p) ==
  /\ step[p] = "claim"
  /\ \E e \in batch[p] :
       /\ \A f \in batch[p] : ~Older(f, e)
       /\ batch' = [batch EXCEPT ![p] = @ \ {e}]
       /\ IF Claimable(e)
          THEN /\ status' = [status EXCEPT ![e] = "PROCESSING"]
               /\ due' = due \ {e}
               /\ working' = [working EXCEPT ![p] = e]
               /\ step' = [step EXCEPT ![p] = "apply"]
          ELSE /\ step' = [step EXCEPT ![p] = StepAfter(batch[p] \ {e})]
               /\ UNCHANGED <<status, due, working>>
  /\ UNCHANGED <<requestVars, primary, backup, content, attemptCount,
                 createdAt, seenAttempts, attempts, applied, failures,
                 crashes>>

\* Fault: an error of the backup is only logged.
Apply_LogsError(p) ==
  /\ step[p] = "apply"
  /\ ApplySucceeds(working[p]) \/ ApplyFails(working[p])
  /\ step' = [step EXCEPT ![p] = "synced"]
  /\ UNCHANGED <<requestVars, primary, outboxVars, batch, seenAttempts,
                 working, attempts, crashes>>

Apply(p) ==
  /\ step[p] = "apply"
  /\ \/ /\ ApplySucceeds(working[p])
        /\ step' = [step EXCEPT ![p] = "synced"]
     \/ /\ FindsUser(working[p])
        /\ step' = [step EXCEPT ![p] = "update"]
     \/ /\ ApplyFails(working[p])
        /\ step' = [step EXCEPT ![p] = "unsynced"]
  /\ UNCHANGED <<requestVars, primary, outboxVars, batch, seenAttempts,
                 working, attempts, crashes>>

UpdateUser(p) ==
  /\ step[p] = "update"
  /\ \/ /\ UpdateSucceeds(working[p])
        /\ step' = [step EXCEPT ![p] = "synced"]
     \/ /\ UpdateFails(working[p])
        /\ step' = [step EXCEPT ![p] = "unsynced"]
  /\ UNCHANGED <<requestVars, primary, outboxVars, batch, seenAttempts,
                 working, attempts, crashes>>

markSynced(p) ==
  LET e == working[p]
  IN /\ step[p] = "synced"
     /\ status' = [status EXCEPT ![e] = "SYNCED"]
     /\ attemptCount' = [attemptCount EXCEPT ![e] = @ + 1]
     /\ attempts' = [attempts EXCEPT ![e] = @ + 1]
     /\ working' = [working EXCEPT ![p] = NoEvent]
     /\ step' = [step EXCEPT ![p] = StepAfter(batch[p])]
     /\ UNCHANGED <<requestVars, primary, backup, content, createdAt, due,
                    batch, seenAttempts, applied, failures, crashes>>

\* markSynced is inside the try: when it fails, the event is marked failed.
MarkSyncedFails(p) ==
  /\ step[p] = "synced"
  /\ failures < MaxFailures
  /\ failures' = failures + 1
  /\ step' = [step EXCEPT ![p] = "unsynced"]
  /\ UNCHANGED <<requestVars, primary, backup, outboxVars, batch,
                 seenAttempts, working, attempts, applied, crashes>>

\* Fault: the attempt is counted twice.
NextAttempt_CountsTwice(p) == seenAttempts[p][working[p]] + 2

\* The attempt count is the one of the row as it was fetched.
NextAttempt(p) == seenAttempts[p][working[p]] + 1

markFailed(p) ==
  LET e == working[p]
  IN /\ step[p] = "unsynced"
     /\ status' = [status EXCEPT
                     ![e] = IF NextAttempt(p) >= RetryAttempts
                            THEN "DEAD_LETTER" ELSE "FAILED"]
     /\ attemptCount' = [attemptCount EXCEPT ![e] = NextAttempt(p)]
     /\ attempts' = [attempts EXCEPT ![e] = @ + 1]
     /\ due' = due \ {e}
     /\ working' = [working EXCEPT ![p] = NoEvent]
     /\ step' = [step EXCEPT ![p] = StepAfter(batch[p])]
     /\ UNCHANGED <<requestVars, primary, backup, content, createdAt, batch,
                    seenAttempts, applied, failures, crashes>>

\* The process restarts, or markFailed throws and ends the batch.
WorkerDies(p) ==
  /\ step[p] # "idle"
  /\ crashes < MaxCrashes
  /\ crashes' = crashes + 1
  /\ step' = [step EXCEPT ![p] = "idle"]
  /\ batch' = [batch EXCEPT ![p] = {}]
  /\ working' = [working EXCEPT ![p] = NoEvent]
  /\ UNCHANGED <<requestVars, primary, backup, outboxVars, seenAttempts,
                 attempts, applied, failures>>

----------------------------------------------------------------------------
Request(r) ==
  \/ ReadBefore(r) \/ Write(r) \/ WriteRefused(r) \/ BuildCandidate(r)
  \/ TransactionTimesOut(r) \/ Commit(r) \/ Persist(r)
  \/ StrictApply(r) \/ StrictUpdateUser(r)
  \/ StrictSynced(r) \/ StrictFailed(r)

Worker(p) ==
  \/ Fetch(p) \/ Claim(p) \/ Apply(p) \/ UpdateUser(p) \/ markSynced(p)
  \/ MarkSyncedFails(p) \/ markFailed(p)

Next ==
  \/ \E r \in Requests : Request(r) \/ RequestDies(r)
  \/ \E p \in Processes : Worker(p) \/ WorkerDies(p)
  \/ \E e \in Events : TimePasses(e)

Spec == Init /\ [][Next]_vars

\* The interval timer starts the next batch, database calls return or fail,
\* and the clock reaches nextRetryAt.  Nothing makes a request go on.
Fairness ==
  /\ \A p \in Processes : WF_vars(Worker(p))
  /\ \A e \in Events : WF_vars(TimePasses(e))

FairSpec == Spec /\ Fairness

----------------------------------------------------------------------------
(* Properties.                                                             *)

\* Every variable has its type.
TypeOK ==
  /\ stage \in [Requests -> {"start", "write", "read", "commit", "queue",
                             "apply", "update", "synced", "unsynced"}
                            \cup Ended]
  /\ call \in [Requests -> InputType]
  /\ before \in [Requests -> SUBSET Ids]
  /\ hit \in [Requests -> SUBSET Ids]
  /\ toRead \in [Requests -> SUBSET Ids]
  /\ candidates \in [Requests -> SUBSET Candidate]
  /\ strictEvent \in [Requests -> Events \cup {NoEvent}]
  /\ primary \in [Ids -> Values \cup {NoRow}]
  /\ backup \in [Ids -> Values \cup {NoRow}]
  /\ status \in [Events -> Statuses]
  /\ content \in [Events -> Values \cup {NoRow, NoPayload}]
  /\ attemptCount \in [Events -> Nat]
  /\ createdAt \in [Events -> Nat]
  /\ due \in SUBSET Events
  /\ step \in [Processes -> {"idle", "claim", "apply", "update", "synced",
                           "unsynced"}]
  /\ batch \in [Processes -> SUBSET Events]
  /\ seenAttempts \in [Processes -> [Events -> Nat]]
  /\ working \in [Processes -> Events \cup {NoEvent}]
  /\ attempts \in [Events -> Nat]
  /\ applied \in SUBSET Events
  /\ failures \in Nat /\ crashes \in Nat

\* An event is marked SYNCED only when its effect reached the backup, whoever
\* marks it: a worker, another worker that claimed the same row, or a strict
\* request (replication-sync.service.ts markSynced, applyStrictReplication).
SyncedWasApplied == \A e \in Events : status[e] = "SYNCED" => e \in applied

\* No event is given up early: a DEAD_LETTER row has had at least
\* retryAttempts recorded outcomes, although markFailed counts from a row that
\* may be out of date (replication-sync.service.ts markFailed).
DeadLetterEarned ==
  \A e \in Events : status[e] = "DEAD_LETTER" => attempts[e] >= RetryAttempts

\* In strict mode with a required backup, a request that reports success has
\* had every row its write was captured for applied to the backup, however
\* many rows those are: the loop over the candidates that a failure stops ends
\* in an error.  Of a User that the backup lacks, applying is skipping
\* (persistReplicationCandidates, applyStrictReplication).
StrictSuccessAppliesAll ==
  \A r \in Requests :
    Strict /\ BackupRequired /\ stage[r] = "ok"
      => \A i \in Captured(r) : <<r, i>> \in applied

\* A crash makes the worker apply events again.  That never fails: as long as
\* no call to a database has, only an event that carries no payload, or one of
\* a User, who may be deleted between the look-up and the update, can end
\* FAILED or DEAD_LETTER (applyReplicationEventToBackup is idempotent).
RedeliveryNeverFails ==
  failures = 0 => \A e \in Events :
    status[e] \in {"FAILED", "DEAD_LETTER"}
      => content[e] = NoPayload \/ e[2] \in Users

\* With one worker that neither fails nor dies, the backup follows the order
\* of the outbox: once every event of a row is SYNCED, the backup holds what
\* the newest of them carries (processPendingBatch, orderBy createdAt).
BackupFollowsOutbox ==
  \A i \in Ids \ Users : \A r \in Requests :
    /\ failures = 0 /\ crashes = 0
    /\ status[<<r, i>>] = "SYNCED"
    /\ \A q \in Requests : /\ status[<<q, i>>] \in {"NONE", "SYNCED"}
                           /\ createdAt[<<q, i>>] <= createdAt[<<r, i>>]
    => backup[i] = content[<<r, i>>]

\* Every outbox row is settled in the end, whatever fails or crashes on the
\* way (processPendingBatch with its clause for stale PROCESSING rows).
EveryEventSettles ==
  \A e \in Events :
    status[e] \in Open ~> status[e] \in {"SYNCED", "DEAD_LETTER"}

\* A worker retries an event only until it has succeeded.
NoRetryAfterSuccess ==
  [][\A e \in Events : status[e] = "SYNCED" => status'[e] = "SYNCED"]_vars

----------------------------------------------------------------------------
(* What the repository says and the code does not do.                      *)

\* Once every request has ended and every event is SYNCED, the backup holds
\* the current state of the primary.
BackupIsCurrent ==
  (\A r \in Requests : stage[r] \in Ended)
    /\ (\A e \in Events : status[e] \in {"NONE", "SYNCED"})
    => \A i \in Ids \ Users : backup[i] = primary[i]

\* "strict_dual_write: the API writes the primary record, queues the outbox
\* event, then applies the event to the backup before returning"
\* (DUAL_DATABASE_REPLICATION.md): every row a write changed is then applied.
StrictSuccessIsCopied ==
  \A r \in Requests :
    Strict /\ BackupRequired /\ stage[r] = "ok"
      => \A i \in hit[r] : <<r, i>> \in applied
=============================================================================
