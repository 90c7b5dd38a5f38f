------------------------- MODULE ReplicationProofs -------------------------
(***************************************************************************)
(* Replication for every set of requests, rows and processes, every mode,  *)
(* batch size and retry limit, and any number of failures and crashes.     *)
(***************************************************************************)
EXTENDS Replication, FiniteSetTheorems, TLAPS

----------------------------------------------------------------------------
(* The inductive invariant.                                                *)

Busy == {"apply", "update", "synced", "unsynced"}

\* Whoever is between claim and record holds an event, has applied it by the
\* time it goes to record a success, and looks up users only.
WorkInv ==
  /\ \A p \in Processes : step[p] \in Busy => working[p] \in Events
  /\ \A p \in Processes : step[p] = "synced" => working[p] \in applied
  /\ \A r \in Requests : stage[r] \in Busy => strictEvent[r] \in Events
  /\ \A r \in Requests : stage[r] = "synced" => strictEvent[r] \in applied
  /\ \A p \in Processes : step[p] = "update" => IsUser(working[p])
  /\ \A r \in Requests : stage[r] = "update" => IsUser(strictEvent[r])

\* Outbox rows are inserted once, and only inserted rows are worked on.
FreshInv ==
  /\ \A p \in Processes : \A e \in batch[p] : status[e] # "NONE"
  /\ \A p \in Processes : step[p] \in Busy => status[working[p]] # "NONE"
  /\ \A r \in Requests : stage[r] \in Busy => status[strictEvent[r]] # "NONE"
  /\ \A r \in Requests : stage[r] \in {"start", "write"} =>
       toRead[r] = {} /\ candidates[r] = {} /\ \A i \in Ids : status[<<r, i>>] = "NONE"
  /\ \A r \in Requests : \A i \in toRead[r] : status[<<r, i>>] = "NONE"
  /\ \A r \in Requests : \A k \in candidates[r] :
       /\ status[<<r, k.id>>] = "NONE" /\ k.id \notin toRead[r]
       /\ \A l \in candidates[r] : l.id = k.id => l = k

\* The attempt count of a row, and any copy of it that a worker still holds,
\* is at most the number of outcomes recorded.
CountInv ==
  /\ \A e \in Events : attemptCount[e] <= attempts[e]
  /\ \A p \in Processes : \A e \in Events : seenAttempts[p][e] <= attempts[e]
  /\ DeadLetterEarned

\* A row that a write was captured for is still to be read, still to be
\* inserted, being applied, or applied; unless the request ended in an error.
Pending(r, i) ==
  \/ i \in toRead[r]
  \/ \E k \in candidates[r] : k.id = i
  \/ stage[r] \in Busy /\ strictEvent[r] = <<r, i>>
  \/ <<r, i>> \in applied
  \/ stage[r] \in {"failed", "lost"}

CopyInv ==
  \A r \in Requests :
    /\ stage[r] \in Busy \cup {"commit", "queue", "ok"} => toRead[r] = {}
    /\ stage[r] = "ok" => candidates[r] = {}
    /\ Strict /\ BackupRequired /\ stage[r] \notin {"start", "write"} =>
         \A i \in Captured(r) : Pending(r, i)

IInv == TypeOK /\ WorkInv /\ FreshInv /\ CountInv /\ SyncedWasApplied /\ CopyInv

----------------------------------------------------------------------------
LEMMA EventCount ==
  Cardinality({f \in Events : status[f] # "NONE"}) \in Nat
<1>1. IsFiniteSet(Events) BY FS_Product, ReplicationAssumption DEF Events
<1>2. IsFiniteSet({f \in Events : status[f] # "NONE"}) BY <1>1, FS_Subset
<1> QED BY <1>2, FS_CardinalityType

(* The fields of a request's write.                                        *)
LEMMA CallFields ==
  ASSUME TypeOK, NEW r \in Requests
  PROVE  /\ call[r].op \in SingleOps \cup ManyOps \cup BulkOps /\ call[r].id \in Ids
         /\ call[r].tx \in BOOLEAN
BY DEF TypeOK, InputType

(* Each captured row is either read once more or a candidate at once.      *)
LEMMA CaptureFacts ==
  ASSUME TypeOK, NEW r \in Requests
  PROVE  /\ Captured(r) \subseteq Ids /\ ToRead(r) \subseteq Ids
         /\ Direct(r) \subseteq Candidate
         /\ ToRead(r) = {} \/ Direct(r) = {}
         /\ \A k \in Direct(r) : \A l \in Direct(r) : l.id = k.id => l = k
         /\ \A i \in Captured(r) : i \in ToRead(r) \/ \E k \in Direct(r) : k.id = i
<1>1. call[r].id \in Ids /\ before[r] \subseteq Ids
  BY CallFields DEF TypeOK
<1>2. Captured(r) \subseteq Ids
  BY <1>1 DEF Captured
<1>3. ToRead(r) = Captured(r) \/ ToRead(r) = {}
  BY DEF ToRead
<1> DEFINE op == IF call[r].op \in DeleteOps THEN "DELETE" ELSE "UPSERT"
           content_ == IF call[r].op \in BulkOps THEN r ELSE NoPayload
<1>4. op \in {"UPSERT", "DELETE"} /\ content_ \in Values \cup {NoPayload}
  BY DEF Values
<1>5. Direct(r) = IF ToRead(r) # {} THEN {}
                  ELSE [id: Captured(r), operation: {op}, payload: {content_}]
  BY DEF Direct
<1> HIDE DEF op, content_
<1>6. CASE ToRead(r) # {}
  BY <1>2, <1>3, <1>5, <1>6
<1>7. CASE ToRead(r) = {}
  <2>1. Direct(r) = [id: Captured(r), operation: {op}, payload: {content_}]
    BY <1>5, <1>7
  <2>2. Direct(r) \subseteq Candidate
    BY <1>2, <1>4, <2>1 DEF Candidate
  <2>3. \A k \in Direct(r) : k = [id |-> k.id, operation |-> op, payload |-> content_]
    BY <2>1
  <2>4. ASSUME NEW i \in Captured(r) PROVE \E k \in Direct(r) : k.id = i
    <3>1. [id |-> i, operation |-> op, payload |-> content_] \in Direct(r)
      BY <2>1
    <3> QED BY <3>1
  <2> QED BY <1>2, <1>7, <2>2, <2>3, <2>4
<1> QED BY <1>6, <1>7

(* Nothing captures again.                                                 *)
LEMMA CaptureStays ==
  ASSUME NEW r, call'[r] = call[r], before'[r] = before[r]
  PROVE  Captured(r)' = Captured(r)
BY DEF Captured, IdIsFound

LEMMA RequestFresh ==
  ASSUME TypeOK, WorkInv, FreshInv, NEW r \in Requests, Request(r) \/ RequestDies(r)
  PROVE  FreshInv'
<1> USE ReplicationAssumption
    DEF TypeOK, FreshInv, Busy, Ended, StageAfter, outboxVars, workerVars
<1>1. CASE ReadBefore(r)
  BY <1>1 DEF ReadBefore
<1>2. CASE Write(r)
  <2> DEFINE rd == ToRead(r)
             dl == Direct(r)
  <2>1. /\ stage[r] = "write"
        /\ toRead' = [toRead EXCEPT ![r] = rd]
        /\ candidates' = [candidates EXCEPT ![r] = dl]
        /\ stage' = [stage EXCEPT ![r] = StageAfter(r, FALSE, rd, dl)]
        /\ UNCHANGED <<strictEvent, outboxVars, workerVars>>
    BY <1>2 DEF Write
  <2>3. /\ rd = {} \/ dl = {}
        /\ \A k \in dl : k.id \in Ids
        /\ \A k \in dl : \A l \in dl : l.id = k.id => l = k
    <3>1. /\ dl \subseteq Candidate /\ (rd = {} \/ dl = {})
          /\ \A k \in dl : \A l \in dl : l.id = k.id => l = k
      BY CaptureFacts
    <3> HIDE DEF rd, dl
    <3>2. \A k \in dl : k.id \in Ids
      BY <3>1 DEF Candidate
    <3> QED BY <3>1, <3>2
  <2>4. rd \subseteq Ids BY CaptureFacts
  <2> HIDE DEF rd, dl
  <2>5. \A k \in dl : k.id \notin rd BY <2>3
  <2>6. StageAfter(r, FALSE, rd, dl) \in {"read", "commit", "queue", "ok"} OBVIOUS
  <2>7. \A i \in Ids : status'[<<r, i>>] = "NONE" BY <2>1
  <2> QED BY <2>1, <2>3, <2>4, <2>5, <2>6, <2>7
<1>3. CASE WriteRefused(r)
  BY <1>3 DEF WriteRefused
<1>4. CASE BuildCandidate(r)
  <2>1. PICK i \in toRead[r], n \in Candidate :
          /\ n.id = i
          /\ toRead' = [toRead EXCEPT ![r] = toRead[r] \ {i}]
          /\ candidates' = [candidates EXCEPT ![r] = candidates[r] \cup {n}]
          /\ stage' = [stage EXCEPT
               ![r] = StageAfter(r, FALSE, toRead[r] \ {i}, candidates[r] \cup {n})]
    <3>1. PICK i \in toRead[r] :
            LET n == [id |-> i, operation |-> "UPSERT", payload |-> CurrentPayload(r, i)]
            IN /\ toRead' = [toRead EXCEPT ![r] = toRead[r] \ {i}]
               /\ candidates' = [candidates EXCEPT ![r] = candidates[r] \cup {n}]
               /\ stage' = [stage EXCEPT
                    ![r] = StageAfter(r, FALSE, toRead[r] \ {i}, candidates[r] \cup {n})]
      BY <1>4 DEF BuildCandidate
    <3>2. [id |-> i, operation |-> "UPSERT", payload |-> CurrentPayload(r, i)] \in Candidate
      BY DEF Candidate, CurrentPayload, Values
    <3> QED BY <3>1, <3>2
  <2>2. stage[r] = "read" /\ UNCHANGED <<strictEvent, outboxVars, workerVars>>
    BY <1>4 DEF BuildCandidate
  <2> QED BY <2>1, <2>2
<1>5. CASE TransactionTimesOut(r)
  BY <1>5 DEF TransactionTimesOut
<1>6. CASE Commit(r)
  BY <1>6 DEF Commit
<1>7. CASE Persist(r)
  <2>1. PICK k \in candidates[r] :
          /\ status' = [status EXCEPT ![<<r, k.id>>] = "PENDING"]
          /\ candidates' = [candidates EXCEPT ![r] = candidates[r] \ {k}]
          /\ strictEvent' = [strictEvent EXCEPT
                               ![r] = IF Strict THEN <<r, k.id>> ELSE NoEvent]
          /\ stage' = [stage EXCEPT
                         ![r] = IF Strict THEN "apply"
                                ELSE StageAfter(r, TRUE, {}, candidates[r] \ {k})]
    BY <1>7 DEF Persist
  <2>2. stage[r] = "queue" /\ UNCHANGED <<toRead, workerVars>>
    BY <1>7 DEF Persist
  <2>3. k.id \in Ids /\ <<r, k.id>> \in Events BY DEF Candidate, Events
  <2>4. \A e \in Events : e # <<r, k.id>> => status'[e] = status[e]
    BY <2>1, <2>3
  <2>5. \A q \in Requests : \A i \in Ids : <<q, i>> \in Events BY DEF Events
  <2>6. \A q \in Requests : \A l \in candidates[q] : l.id \in Ids BY DEF Candidate
  <2>7. \A q \in Requests : \A i \in Ids : <<q, i>> = <<r, k.id>> => q = r /\ i = k.id
    OBVIOUS
  <2>8. status'[<<r, k.id>>] = "PENDING" BY <2>1, <2>3
  <2>9. \A e \in Events : status[e] # "NONE" => status'[e] # "NONE" BY <2>4, <2>8
  <2>10. /\ \A p \in Processes : \A e \in batch'[p] : status'[e] # "NONE"
         /\ \A p \in Processes : step'[p] \in Busy => status'[working'[p]] # "NONE"
    BY <2>2, <2>9 DEF WorkInv
  <2>11. \A q \in Requests : stage'[q] \in Busy => status'[strictEvent'[q]] # "NONE"
    BY <2>1, <2>8, <2>9 DEF WorkInv
  <2>12. \A q \in Requests : stage'[q] \in {"start", "write"} =>
           toRead'[q] = {} /\ candidates'[q] = {} /\ \A i \in Ids : status'[<<q, i>>] = "NONE"
    <3> TAKE q \in Requests
    <3>1. SUFFICES ASSUME stage'[q] \in {"start", "write"}
                   PROVE  toRead'[q] = {} /\ candidates'[q] = {}
                          /\ \A i \in Ids : status'[<<q, i>>] = "NONE"
      OBVIOUS
    <3>2. q # r BY <2>1, <3>1
    <3>3. stage[q] \in {"start", "write"} /\ candidates'[q] = candidates[q]
      BY <2>1, <3>1, <3>2
    <3>4. toRead'[q] = {} /\ candidates'[q] = {} BY <2>2, <3>3
    <3>5. ASSUME NEW i \in Ids PROVE status'[<<q, i>>] = "NONE"
      BY <2>4, <2>5, <2>7, <3>2, <3>3
    <3> QED BY <3>4, <3>5
  <2>13. \A q \in Requests : \A i \in toRead'[q] : status'[<<q, i>>] = "NONE"
    <3> SUFFICES ASSUME NEW q \in Requests, NEW i \in toRead'[q]
                 PROVE  status'[<<q, i>>] = "NONE"
      OBVIOUS
    <3>1. i \in Ids /\ i \in toRead[q] BY <2>2
    <3>2. i # k.id \/ q # r BY <3>1
    <3>3. <<q, i>> # <<r, k.id>> BY <3>2
    <3> QED BY <2>4, <2>5, <3>1, <3>3
  <2>14. \A q \in Requests : \A l \in candidates'[q] :
           l \in candidates[q] /\ <<q, l.id>> # <<r, k.id>>
    BY <2>1, <2>6, <2>7
  <2>15. \A q \in Requests : \A l \in candidates'[q] :
           /\ status'[<<q, l.id>>] = "NONE" /\ l.id \notin toRead'[q]
           /\ \A m \in candidates'[q] : m.id = l.id => m = l
    BY <2>2, <2>4, <2>5, <2>6, <2>14
  <2> QED BY <2>10, <2>11, <2>12, <2>13, <2>15
<1>8. CASE StrictApply(r) \/ StrictUpdateUser(r)
  <2>1. /\ stage[r] \in Busy
        /\ \E s \in Busy : stage' = [stage EXCEPT ![r] = s]
        /\ UNCHANGED <<toRead, candidates, strictEvent, outboxVars, workerVars>>
    BY <1>8 DEF StrictApply, StrictUpdateUser
  <2> QED BY <2>1
<1>9. CASE StrictSynced(r) \/ StrictFailed(r)
  <2>1. /\ stage[r] \in Busy
        /\ \E s \in {"SYNCED", "FAILED"} : status' = [status EXCEPT ![strictEvent[r]] = s]
        /\ stage' = [stage EXCEPT ![r] = stage'[r]]
        /\ stage'[r] \in {"failed", "queue", "ok"}
        /\ UNCHANGED <<toRead, candidates, strictEvent, workerVars>>
    BY <1>9 DEF StrictSynced, StrictFailed
  <2>2. \A e \in Events : status'[e] = "NONE" <=> status[e] = "NONE" BY <2>1 DEF WorkInv
  <2>3. \A q \in Requests : \A i \in Ids : <<q, i>> \in Events BY DEF Events
  <2>4. \A q \in Requests : \A l \in candidates[q] : l.id \in Ids BY DEF Candidate
  <2>5. /\ \A p \in Processes : \A e \in batch'[p] : status'[e] # "NONE"
        /\ \A p \in Processes : step'[p] \in Busy => status'[working'[p]] # "NONE"
        /\ \A q \in Requests : stage'[q] \in Busy => status'[strictEvent'[q]] # "NONE"
    BY <2>1, <2>2 DEF WorkInv
  <2>6. \A q \in Requests : stage'[q] \in {"start", "write"} => stage[q] \in {"start", "write"}
    BY <2>1
  <2>7. \A q \in Requests : stage'[q] \in {"start", "write"} =>
          toRead'[q] = {} /\ candidates'[q] = {} /\ \A i \in Ids : status'[<<q, i>>] = "NONE"
    <3> SUFFICES ASSUME NEW q \in Requests, stage'[q] \in {"start", "write"}
                 PROVE  toRead'[q] = {} /\ candidates'[q] = {}
                        /\ \A i \in Ids : status'[<<q, i>>] = "NONE"
      OBVIOUS
    <3>1. toRead[q] = {} /\ candidates[q] = {} /\ \A i \in Ids : status[<<q, i>>] = "NONE"
      BY <2>6
    <3> QED BY <2>1, <2>2, <2>3, <3>1
  <2>8. \A q \in Requests : \A i \in toRead'[q] : status'[<<q, i>>] = "NONE"
    <3> SUFFICES ASSUME NEW q \in Requests, NEW i \in toRead'[q]
                 PROVE  status'[<<q, i>>] = "NONE"
      OBVIOUS
    <3>1. i \in Ids /\ i \in toRead[q] BY <2>1
    <3> QED BY <2>2, <2>3, <3>1
  <2>9. \A q \in Requests : \A k \in candidates'[q] :
          /\ status'[<<q, k.id>>] = "NONE" /\ k.id \notin toRead'[q]
          /\ \A l \in candidates'[q] : l.id = k.id => l = k
    BY <2>1, <2>2, <2>3, <2>4
  <2> QED BY <2>5, <2>7, <2>8, <2>9
<1>10. CASE RequestDies(r)
  BY <1>10 DEF RequestDies
<1> QED BY <1>1, <1>2, <1>3, <1>4, <1>5, <1>6, <1>7, <1>8, <1>9, <1>10 DEF Request

(* A step that inserts no outbox row and leaves the requests alone.        *)
LEMMA FreshFrame ==
  ASSUME TypeOK, FreshInv, UNCHANGED requestVars,
         \A e \in Events : status'[e] = "NONE" <=> status[e] = "NONE",
         \A p \in Processes : \A e \in batch'[p] : e \in Events /\ status[e] # "NONE",
         \A p \in Processes : step'[p] \in Busy =>
           working'[p] \in Events /\ status[working'[p]] # "NONE",
         \A r \in Requests : stage[r] \in Busy => strictEvent[r] \in Events
  PROVE  FreshInv'
<1> USE DEF TypeOK, FreshInv, requestVars
<1>1. \A r \in Requests : \A i \in Ids : <<r, i>> \in Events BY DEF Events
<1>2. \A r \in Requests : \A k \in candidates[r] : k.id \in Ids BY DEF Candidate
<1>3. /\ \A p \in Processes : \A e \in batch'[p] : status'[e] # "NONE"
      /\ \A p \in Processes : step'[p] \in Busy => status'[working'[p]] # "NONE"
      /\ \A r \in Requests : stage'[r] \in Busy => status'[strictEvent'[r]] # "NONE"
  OBVIOUS
<1>4. \A r \in Requests : stage'[r] \in {"start", "write"} =>
        toRead'[r] = {} /\ candidates'[r] = {} /\ \A i \in Ids : status'[<<r, i>>] = "NONE"
  BY <1>1
<1>5. \A r \in Requests : \A i \in toRead'[r] : status'[<<r, i>>] = "NONE"
  <2> SUFFICES ASSUME NEW r \in Requests, NEW i \in toRead'[r]
               PROVE  status'[<<r, i>>] = "NONE"
    OBVIOUS
  <2>1. i \in Ids /\ i \in toRead[r] OBVIOUS
  <2> QED BY <1>1, <2>1
<1>6. \A r \in Requests : \A k \in candidates'[r] :
        /\ status'[<<r, k.id>>] = "NONE" /\ k.id \notin toRead'[r]
        /\ \A l \in candidates'[r] : l.id = k.id => l = k
  BY <1>1, <1>2
<1> QED BY <1>3, <1>4, <1>5, <1>6

LEMMA WorkerFresh ==
  ASSUME TypeOK, WorkInv, FreshInv, NEW p \in Processes, Worker(p) \/ WorkerDies(p)
  PROVE  FreshInv'
<1> USE DEF TypeOK, WorkInv, Busy, StepAfter, outboxVars, requestVars
<1>0. /\ \A q \in Processes : \A e \in batch[q] : e \in Events /\ status[e] # "NONE"
      /\ \A q \in Processes : step[q] \in Busy => status[working[q]] # "NONE"
  BY DEF FreshInv
<1>1. CASE Fetch(p)
  <2>1. /\ batch' = [batch EXCEPT ![p] = Oldest(Due, BatchSize)]
        /\ step' = [step EXCEPT ![p] = "claim"]
        /\ UNCHANGED <<requestVars, status, working>>
    BY <1>1 DEF Fetch
  <2>2. \A e \in Oldest(Due, BatchSize) : e \in Events /\ status[e] # "NONE"
    BY DEF Oldest, Due, Open
  <2> QED BY <1>0, <2>1, <2>2, FreshFrame
<1>2. CASE Claim(p)
  <2>1. PICK e \in batch[p] :
          /\ batch' = [batch EXCEPT ![p] = @ \ {e}]
          /\ \/ /\ status' = [status EXCEPT ![e] = "PROCESSING"]
                /\ working' = [working EXCEPT ![p] = e]
                /\ step' = [step EXCEPT ![p] = "apply"]
             \/ /\ step' = [step EXCEPT ![p] = StepAfter(batch[p] \ {e})]
                /\ UNCHANGED <<status, working>>
    BY <1>2 DEF Claim
  <2>2. UNCHANGED requestVars BY <1>2 DEF Claim
  <2>3. e \in Events /\ status[e] # "NONE" BY <1>0
  <2>4. \A f \in Events : status'[f] = "NONE" <=> status[f] = "NONE" BY <2>1, <2>3
  <2>5. \A q \in Processes : \A f \in batch'[q] : f \in Events /\ status[f] # "NONE"
    BY <1>0, <2>1
  <2>6. \A q \in Processes : step'[q] \in Busy =>
          working'[q] \in Events /\ status[working'[q]] # "NONE"
    BY <1>0, <2>1, <2>3
  <2> QED BY <2>2, <2>4, <2>5, <2>6, FreshFrame
<1>3. CASE Apply(p) \/ UpdateUser(p) \/ MarkSyncedFails(p) \/ WorkerDies(p)
  <2>1. /\ UNCHANGED <<requestVars, status>>
        /\ \A q \in Processes : batch'[q] \subseteq batch[q]
        /\ \A q \in Processes : step'[q] \in Busy => step[q] \in Busy /\ working'[q] = working[q]
    BY <1>3 DEF Apply, UpdateUser, MarkSyncedFails, WorkerDies
  <2> QED BY <1>0, <2>1, FreshFrame
<1>4. CASE markSynced(p) \/ markFailed(p)
  <2>1. /\ step[p] \in Busy
        /\ \E s \in {"SYNCED", "DEAD_LETTER", "FAILED"} :
             status' = [status EXCEPT ![working[p]] = s]
        /\ working' = [working EXCEPT ![p] = NoEvent]
        /\ step' = [step EXCEPT ![p] = StepAfter(batch[p])]
        /\ UNCHANGED <<requestVars, batch>>
    BY <1>4 DEF markSynced, markFailed
  <2>2. \A f \in Events : status'[f] = "NONE" <=> status[f] = "NONE" BY <1>0, <2>1
  <2>3. \A q \in Processes : step'[q] \in Busy => q # p /\ step[q] \in Busy /\ working'[q] = working[q]
    BY <2>1
  <2> QED BY <1>0, <2>1, <2>2, <2>3, FreshFrame
<1> QED BY <1>1, <1>2, <1>3, <1>4 DEF Worker

(* What applying an event does to the backup.                              *)
LEMMA ApplyTypes ==
  ASSUME TypeOK, NEW e \in Events, ApplySucceeds(e) \/ FindsUser(e) \/ ApplyFails(e)
  PROVE  /\ backup' \in [Ids -> Values \cup {NoRow}]
         /\ applied' \in SUBSET Events /\ applied \subseteq applied'
         /\ failures' \in Nat
         /\ ApplySucceeds(e) => e \in applied'
<1> USE DEF TypeOK
<1>1. e[2] \in Ids BY DEF Events
<1>2. ~Broken(e) => Applied(e) \in [Ids -> Values \cup {NoRow}]
  BY <1>1 DEF Broken, Applied
<1>3. CASE ApplySucceeds(e)
  <2>1. backup' = backup \/ backup' = Applied(e)
    BY <1>3 DEF ApplySucceeds
  <2> QED BY <1>2, <1>3, <2>1 DEF ApplySucceeds
<1>4. CASE FindsUser(e) /\ ~ApplySucceeds(e)
  BY <1>4 DEF FindsUser
<1>5. CASE ApplyFails(e)
  <2>1. failures' \in Nat BY <1>5, ReplicationAssumption DEF ApplyFails
  <2>2. \/ UNCHANGED <<backup, applied>>
        \/ ~Broken(e) /\ backup' = Applied(e) /\ applied' = applied \cup {e}
    BY <1>5 DEF ApplyFails
  <2>3. ApplySucceeds(e) => e \in applied' BY DEF ApplySucceeds
  <2> QED BY <1>2, <2>1, <2>2, <2>3
<1> QED BY <1>3, <1>4, <1>5

LEMMA UpdateTypes ==
  ASSUME TypeOK, NEW e \in Events, IsUser(e), UpdateSucceeds(e) \/ UpdateFails(e)
  PROVE  /\ backup' \in [Ids -> Values \cup {NoRow}]
         /\ applied' \in SUBSET Events /\ applied \subseteq applied'
         /\ failures' \in Nat
         /\ UpdateSucceeds(e) => e \in applied'
<1> USE DEF TypeOK
<1>1. e[2] \in Ids BY DEF Events
<1>2. Applied(e) \in [Ids -> Values \cup {NoRow}]
  BY <1>1 DEF IsUser, Applied
<1>3. failures' \in Nat BY ReplicationAssumption DEF UpdateSucceeds, UpdateFails
<1>4. \/ UNCHANGED <<backup, applied>>
      \/ backup' = Applied(e) /\ applied' = applied \cup {e}
  BY DEF UpdateSucceeds, UpdateFails
<1>5. UpdateSucceeds(e) => e \in applied' BY DEF UpdateSucceeds
<1> QED BY <1>2, <1>3, <1>4, <1>5

(* A step of a request keeps types and the events in hand.                 *)
LEMMA RequestTypes ==
  ASSUME TypeOK, WorkInv, FreshInv, NEW r \in Requests, Request(r) \/ RequestDies(r)
  PROVE  TypeOK' /\ WorkInv'
<1> USE ReplicationAssumption DEF TypeOK, WorkInv, Busy, Ended, outboxVars, workerVars,
        StageAfter, IsUser
<1>c. call[r].op \in SingleOps \cup ManyOps \cup BulkOps /\ call[r].id \in Ids BY CallFields
<1>1. CASE ReadBefore(r)
  <2>1. Prefetched(call[r]) \subseteq SUBSET Ids BY <1>c DEF Prefetched, Matching
  <2>2. before' \in [Requests -> SUBSET Ids] /\ failures' \in Nat
    <3>1. CASE UNCHANGED before /\ failures' = failures + 1
      BY <3>1
    <3>2. CASE UNCHANGED failures /\ before' # before
      <4>1. PICK S \in Prefetched(call[r]) : before' = [before EXCEPT ![r] = S]
        BY <1>1, <3>2 DEF ReadBefore
      <4>2. S \in SUBSET Ids
        BY <2>1
      <4> QED BY <3>2, <4>1, <4>2
    <3>3. CASE UNCHANGED failures /\ before' = before
      BY <3>3
    <3>4. \/ UNCHANGED before /\ failures' = failures + 1
          \/ UNCHANGED failures
      BY <1>1 DEF ReadBefore
    <3> QED BY <3>1, <3>2, <3>3, <3>4
  <2> QED BY <1>1, <2>2 DEF ReadBefore
<1>2. CASE Write(r)
  <2>1. Rows(r) \subseteq Ids
    BY <1>c DEF Rows, Matching
  <2>2. ToRead(r) \subseteq Ids /\ Direct(r) \subseteq Candidate BY CaptureFacts
  <2>4. Written(r, Rows(r)) \in [Ids -> Values \cup {NoRow}] BY DEF Written, Values
  <2> QED BY <1>2, <2>1, <2>2, <2>4 DEF Write
<1>3. CASE WriteRefused(r)
  BY <1>3 DEF WriteRefused
<1>4. CASE BuildCandidate(r)
  <2>1. PICK i \in toRead[r] :
          /\ toRead' = [toRead EXCEPT ![r] = toRead[r] \ {i}]
          /\ candidates' = [candidates EXCEPT
               ![r] = candidates[r] \cup {[id |-> i, operation |-> "UPSERT",
                                           payload |-> CurrentPayload(r, i)]}]
          /\ stage' = [stage EXCEPT
               ![r] = StageAfter(r, FALSE, toRead[r] \ {i},
                        candidates[r] \cup {[id |-> i, operation |-> "UPSERT",
                                             payload |-> CurrentPayload(r, i)]})]
    BY <1>4 DEF BuildCandidate
  <2>2. CurrentPayload(r, i) \in Values \cup {NoPayload} BY DEF CurrentPayload, Values
  <2>3. [id |-> i, operation |-> "UPSERT", payload |-> CurrentPayload(r, i)] \in Candidate
    BY <2>2 DEF Candidate
  <2>4. UNCHANGED <<call, before, hit, strictEvent, primary, backup, outboxVars,
                    workerVars, attempts, applied, failures, crashes>>
    BY <1>4 DEF BuildCandidate
  <2> QED BY <2>1, <2>3, <2>4
<1>5. CASE TransactionTimesOut(r)
  BY <1>5 DEF TransactionTimesOut
<1>6. CASE Commit(r)
  <2>1. Written(r, hit[r]) \in [Ids -> Values \cup {NoRow}] BY DEF Written, Values
  <2> QED BY <1>6, <2>1 DEF Commit
<1>7. CASE Persist(r)
  <2>1. PICK k \in candidates[r] :
          /\ status' = [status EXCEPT ![<<r, k.id>>] = "PENDING"]
          /\ content' = [content EXCEPT ![<<r, k.id>>] =
                           IF k.operation = "DELETE" THEN NoRow ELSE k.payload]
          /\ createdAt' = [createdAt EXCEPT ![<<r, k.id>>] =
               1 + Cardinality({f \in Events : status[f] # "NONE"})]
          /\ due' = due \cup {<<r, k.id>>}
          /\ candidates' = [candidates EXCEPT ![r] = candidates[r] \ {k}]
          /\ strictEvent' = [strictEvent EXCEPT
                               ![r] = IF Strict THEN <<r, k.id>> ELSE NoEvent]
          /\ stage' = [stage EXCEPT
                         ![r] = IF Strict THEN "apply"
                                ELSE StageAfter(r, TRUE, {}, candidates[r] \ {k})]
    BY <1>7 DEF Persist
  <2>2. k \in Candidate OBVIOUS
  <2>3. /\ k.payload \in Values \cup {NoPayload} /\ <<r, k.id>> \in Events
    BY <2>2 DEF Candidate, Events
  <2>4. UNCHANGED <<call, before, hit, toRead, primary, backup, attemptCount,
                    workerVars, attempts, applied, failures, crashes>>
    BY <1>7 DEF Persist
  <2>5. 1 + Cardinality({f \in Events : status[f] # "NONE"}) \in Nat BY EventCount
  <2>6. createdAt' \in [Events -> Nat] BY <2>1, <2>3, <2>5
  <2>7. /\ status' \in [Events -> Statuses] /\ due' \in SUBSET Events
        /\ content' \in [Events -> Values \cup {NoRow, NoPayload}]
    BY <2>1, <2>3 DEF Statuses
  <2>8. /\ candidates' \in [Requests -> SUBSET Candidate]
        /\ strictEvent' \in [Requests -> Events \cup {NoEvent}]
    BY <2>1, <2>3
  <2>9. TypeOK'
    BY <1>7, <2>1, <2>3, <2>4, <2>6, <2>7, <2>8 DEF Persist
  <2>10. status[<<r, k.id>>] = "NONE"
    BY DEF FreshInv
  <2>11. \A e \in Events : status[e] # "NONE" => content'[e] = content[e]
    BY <2>1, <2>3, <2>10
  <2>12. ASSUME NEW p \in Processes, step'[p] \in Busy
         PROVE  /\ working'[p] \in Events
                /\ step'[p] = "synced" => working'[p] \in applied'
                /\ step'[p] = "update" => IsUser(working[p])'
    <3>1. step[p] \in Busy /\ working'[p] = working[p] /\ working[p] \in Events
      BY <2>4, <2>12
    <3>2. content'[working[p]] = content[working[p]]
      BY <2>11, <3>1 DEF FreshInv
    <3> QED BY <2>4, <3>1, <3>2
  <2>13. ASSUME NEW q \in Requests, stage'[q] \in Busy
         PROVE  /\ strictEvent'[q] \in Events
                /\ stage'[q] = "synced" => strictEvent'[q] \in applied'
                /\ stage'[q] = "update" => IsUser(strictEvent[q])'
    <3>1. CASE q = r
      <4>1. stage'[r] = "apply" /\ strictEvent'[r] = <<r, k.id>>
        BY <2>1, <2>13, <3>1
      <4> QED BY <2>3, <3>1, <4>1
    <3>2. CASE q # r
      <4>1. stage[q] = stage'[q] /\ strictEvent'[q] = strictEvent[q] /\ strictEvent[q] \in Events
        BY <2>1, <2>13, <3>2
      <4>2. content'[strictEvent[q]] = content[strictEvent[q]]
        BY <2>11, <2>13, <4>1 DEF FreshInv
      <4> QED BY <2>4, <2>13, <4>1, <4>2
    <3> QED BY <3>1, <3>2
  <2>14. WorkInv'
    BY <2>12, <2>13
  <2> QED BY <2>9, <2>14
<1>8. CASE StrictApply(r)
  <2>1. strictEvent[r] \in Events BY <1>8 DEF StrictApply
  <2>2. /\ stage[r] = "apply"
        /\ \/ ApplySucceeds(strictEvent[r]) /\ stage' = [stage EXCEPT ![r] = "synced"]
           \/ FindsUser(strictEvent[r]) /\ stage' = [stage EXCEPT ![r] = "update"]
           \/ ApplyFails(strictEvent[r]) /\ stage' = [stage EXCEPT ![r] = "unsynced"]
        /\ UNCHANGED <<call, before, hit, toRead, candidates, strictEvent, primary,
                       outboxVars, workerVars, attempts, crashes>>
    BY <1>8 DEF StrictApply
  <2>3. /\ backup' \in [Ids -> Values \cup {NoRow}]
        /\ applied' \in SUBSET Events /\ applied \subseteq applied'
        /\ failures' \in Nat
        /\ ApplySucceeds(strictEvent[r]) => strictEvent[r] \in applied'
        /\ FindsUser(strictEvent[r]) => IsUser(strictEvent[r])
    BY <2>1, <2>2, ApplyTypes DEF FindsUser
  <2>4. \E s \in {"synced", "update", "unsynced"} : stage' = [stage EXCEPT ![r] = s]
    BY <2>2
  <2>5. TypeOK' BY <2>2, <2>3, <2>4
  <2>6. WorkInv' BY <2>1, <2>2, <2>3
  <2> QED BY <2>5, <2>6
<1>12. CASE StrictUpdateUser(r)
  <2>1. strictEvent[r] \in Events /\ IsUser(strictEvent[r]) BY <1>12 DEF StrictUpdateUser
  <2>2. /\ stage[r] = "update"
        /\ \/ UpdateSucceeds(strictEvent[r]) /\ stage' = [stage EXCEPT ![r] = "synced"]
           \/ UpdateFails(strictEvent[r]) /\ stage' = [stage EXCEPT ![r] = "unsynced"]
        /\ UNCHANGED <<call, before, hit, toRead, candidates, strictEvent, primary,
                       outboxVars, workerVars, attempts, crashes>>
    BY <1>12 DEF StrictUpdateUser
  <2>3. /\ backup' \in [Ids -> Values \cup {NoRow}]
        /\ applied' \in SUBSET Events /\ applied \subseteq applied'
        /\ failures' \in Nat
        /\ UpdateSucceeds(strictEvent[r]) => strictEvent[r] \in applied'
    BY <2>1, <2>2, UpdateTypes
  <2> QED BY <2>2, <2>3
<1>9. CASE StrictSynced(r)
  BY <1>9 DEF StrictSynced, Statuses
<1>10. CASE StrictFailed(r)
  BY <1>10 DEF StrictFailed, Statuses
<1>11. CASE RequestDies(r)
  BY <1>11 DEF RequestDies
<1> QED BY <1>1, <1>2, <1>3, <1>4, <1>5, <1>6, <1>7, <1>8, <1>9, <1>10, <1>11, <1>12
    DEF Request

(* So does a step of a worker.                                             *)
LEMMA WorkerTypes ==
  ASSUME TypeOK, WorkInv, NEW p \in Processes, Worker(p) \/ WorkerDies(p)
  PROVE  TypeOK' /\ WorkInv'
<1> USE ReplicationAssumption DEF TypeOK, WorkInv, Busy, Ended, requestVars, outboxVars,
        StepAfter, Statuses, IsUser
<1>1. CASE Fetch(p)
  <2>1. Oldest(Due, BatchSize) \subseteq Events BY DEF Oldest, Due
  <2>2. [e \in Events |-> IF e \in Oldest(Due, BatchSize) THEN attemptCount[e] ELSE 0]
          \in [Events -> Nat]
    OBVIOUS
  <2> QED BY <1>1, <2>1, <2>2 DEF Fetch
<1>2. CASE Claim(p)
  <2>1. PICK e \in batch[p] :
          /\ batch' = [batch EXCEPT ![p] = @ \ {e}]
          /\ \/ /\ status' = [status EXCEPT ![e] = "PROCESSING"]
                /\ due' = due \ {e}
                /\ working' = [working EXCEPT ![p] = e]
                /\ step' = [step EXCEPT ![p] = "apply"]
             \/ /\ step' = [step EXCEPT ![p] = StepAfter(batch[p] \ {e})]
                /\ UNCHANGED <<status, due, working>>
    BY <1>2 DEF Claim
  <2>2. /\ step[p] = "claim"
        /\ UNCHANGED <<requestVars, primary, backup, content, attemptCount,
                       createdAt, seenAttempts, attempts, applied, failures, crashes>>
    BY <1>2 DEF Claim
  <2>3. e \in Events OBVIOUS
  <2>4. batch' \in [Processes -> SUBSET Events]
    BY <2>1
  <2>5. CASE /\ status' = [status EXCEPT ![e] = "PROCESSING"]
             /\ due' = due \ {e}
             /\ working' = [working EXCEPT ![p] = e]
             /\ step' = [step EXCEPT ![p] = "apply"]
    <3>1. TypeOK' BY <2>2, <2>3, <2>4, <2>5
    <3>2. WorkInv' BY <2>2, <2>3, <2>5
    <3> QED BY <3>1, <3>2
  <2>6. CASE /\ step' = [step EXCEPT ![p] = StepAfter(batch[p] \ {e})]
             /\ UNCHANGED <<status, due, working>>
    <3>1. TypeOK' BY <2>2, <2>4, <2>6
    <3>2. WorkInv' BY <2>2, <2>6
    <3> QED BY <3>1, <3>2
  <2> QED BY <2>1, <2>5, <2>6
<1>3. CASE Apply(p)
  <2>1. working[p] \in Events BY <1>3 DEF Apply
  <2>2. /\ step[p] = "apply"
        /\ \/ ApplySucceeds(working[p]) /\ step' = [step EXCEPT ![p] = "synced"]
           \/ FindsUser(working[p]) /\ step' = [step EXCEPT ![p] = "update"]
           \/ ApplyFails(working[p]) /\ step' = [step EXCEPT ![p] = "unsynced"]
        /\ UNCHANGED <<requestVars, primary, outboxVars, batch, seenAttempts,
                       working, attempts, crashes>>
    BY <1>3 DEF Apply
  <2>3. /\ backup' \in [Ids -> Values \cup {NoRow}]
        /\ applied' \in SUBSET Events /\ applied \subseteq applied'
        /\ failures' \in Nat
        /\ ApplySucceeds(working[p]) => working[p] \in applied'
        /\ FindsUser(working[p]) => IsUser(working[p])
    BY <2>1, <2>2, ApplyTypes DEF FindsUser
  <2>4. TypeOK' BY <2>2, <2>3
  <2>5. WorkInv' BY <2>1, <2>2, <2>3
  <2> QED BY <2>4, <2>5
<1>8. CASE UpdateUser(p)
  <2>1. working[p] \in Events /\ IsUser(working[p]) BY <1>8 DEF UpdateUser
  <2>2. /\ step[p] = "update"
        /\ \/ UpdateSucceeds(working[p]) /\ step' = [step EXCEPT ![p] = "synced"]
           \/ UpdateFails(working[p]) /\ step' = [step EXCEPT ![p] = "unsynced"]
        /\ UNCHANGED <<requestVars, primary, outboxVars, batch, seenAttempts,
                       working, attempts, crashes>>
    BY <1>8 DEF UpdateUser
  <2>3. /\ backup' \in [Ids -> Values \cup {NoRow}]
        /\ applied' \in SUBSET Events /\ applied \subseteq applied'
        /\ failures' \in Nat
        /\ UpdateSucceeds(working[p]) => working[p] \in applied'
    BY <2>1, <2>2, UpdateTypes
  <2> QED BY <2>2, <2>3
<1>4. CASE markSynced(p)
  BY <1>4 DEF markSynced
<1>5. CASE MarkSyncedFails(p)
  BY <1>5 DEF MarkSyncedFails
<1>6. CASE markFailed(p)
  BY <1>6 DEF markFailed, NextAttempt
<1>7. CASE WorkerDies(p)
  BY <1>7 DEF WorkerDies
<1> QED BY <1>1, <1>2, <1>3, <1>4, <1>5, <1>6, <1>7, <1>8 DEF Worker

(* What has been applied stays applied.                                    *)
LEMMA StrictApplies ==
  ASSUME TypeOK, WorkInv, NEW r \in Requests, StrictApply(r) \/ StrictUpdateUser(r)
  PROVE  applied \subseteq applied'
<1>1. CASE StrictApply(r)
  <2>1. strictEvent[r] \in Events BY <1>1 DEF StrictApply, WorkInv, Busy
  <2>2. \/ ApplySucceeds(strictEvent[r]) \/ FindsUser(strictEvent[r])
        \/ ApplyFails(strictEvent[r])
    BY <1>1 DEF StrictApply
  <2> QED BY <2>1, <2>2, ApplyTypes
<1>2. CASE StrictUpdateUser(r)
  BY <1>2 DEF StrictUpdateUser, UpdateSucceeds, UpdateFails
<1> QED BY <1>1, <1>2

LEMMA WorkerApplies ==
  ASSUME TypeOK, WorkInv, NEW p \in Processes, Apply(p) \/ UpdateUser(p)
  PROVE  applied \subseteq applied'
<1>1. CASE Apply(p)
  <2>1. working[p] \in Events BY <1>1 DEF Apply, WorkInv, Busy
  <2>2. ApplySucceeds(working[p]) \/ FindsUser(working[p]) \/ ApplyFails(working[p])
    BY <1>1 DEF Apply
  <2> QED BY <2>1, <2>2, ApplyTypes
<1>2. CASE UpdateUser(p)
  BY <1>2 DEF UpdateUser, UpdateSucceeds, UpdateFails
<1> QED BY <1>1, <1>2

(* Outcomes are counted, and SYNCED is earned, whoever records it.         *)
LEMMA RequestCounts ==
  ASSUME TypeOK, WorkInv, CountInv, SyncedWasApplied,
         NEW r \in Requests, Request(r) \/ RequestDies(r)
  PROVE  CountInv' /\ SyncedWasApplied'
<1> USE ReplicationAssumption DEF TypeOK, WorkInv, Busy, CountInv, DeadLetterEarned,
        SyncedWasApplied, outboxVars, workerVars
<1>1. CASE \/ ReadBefore(r) \/ Write(r) \/ WriteRefused(r) \/ BuildCandidate(r)
           \/ TransactionTimesOut(r) \/ Commit(r) \/ RequestDies(r)
  <2>1. UNCHANGED <<outboxVars, workerVars, attempts, applied>>
    BY <1>1 DEF ReadBefore, Write, WriteRefused, BuildCandidate, TransactionTimesOut,
       Commit, RequestDies
  <2> QED BY <2>1
<1>2. CASE Persist(r)
  <2>1. PICK k \in candidates[r] : status' = [status EXCEPT ![<<r, k.id>>] = "PENDING"]
    BY <1>2 DEF Persist
  <2>2. UNCHANGED <<attemptCount, workerVars, attempts, applied>>
    BY <1>2 DEF Persist
  <2> QED BY <2>1, <2>2
<1>3. CASE StrictApply(r) \/ StrictUpdateUser(r)
  <2>1. applied \subseteq applied'
    BY <1>3, StrictApplies
  <2>2. UNCHANGED <<outboxVars, workerVars, attempts>>
    BY <1>3 DEF StrictApply, StrictUpdateUser
  <2> QED BY <2>1, <2>2
<1>4. CASE StrictSynced(r)
  BY <1>4 DEF StrictSynced
<1>5. CASE StrictFailed(r)
  BY <1>5 DEF StrictFailed
<1> QED BY <1>1, <1>2, <1>3, <1>4, <1>5 DEF Request

LEMMA WorkerCounts ==
  ASSUME TypeOK, WorkInv, CountInv, SyncedWasApplied,
         NEW p \in Processes, Worker(p) \/ WorkerDies(p)
  PROVE  CountInv' /\ SyncedWasApplied'
<1> USE ReplicationAssumption DEF TypeOK, WorkInv, Busy, CountInv, DeadLetterEarned,
        SyncedWasApplied, requestVars, outboxVars
<1>1. CASE Fetch(p)
  <2>1. seenAttempts' = [seenAttempts EXCEPT
          ![p] = [e \in Events |-> IF e \in Oldest(Due, BatchSize)
                                   THEN attemptCount[e] ELSE 0]]
    BY <1>1 DEF Fetch
  <2>2. UNCHANGED <<outboxVars, attempts, applied>> BY <1>1 DEF Fetch
  <2> QED BY <2>1, <2>2
<1>2. CASE Claim(p)
  <2>1. /\ \/ UNCHANGED status
           \/ \E e \in Events : status' = [status EXCEPT ![e] = "PROCESSING"]
        /\ UNCHANGED <<attemptCount, seenAttempts, attempts, applied>>
    BY <1>2 DEF Claim
  <2> QED BY <2>1
<1>3. CASE Apply(p) \/ UpdateUser(p)
  <2>1. applied \subseteq applied'
    BY <1>3, WorkerApplies
  <2>2. UNCHANGED <<outboxVars, seenAttempts, attempts>> BY <1>3 DEF Apply, UpdateUser
  <2> QED BY <2>1, <2>2
<1>4. CASE markSynced(p)
  BY <1>4 DEF markSynced
<1>5. CASE MarkSyncedFails(p) \/ WorkerDies(p)
  <2>1. UNCHANGED <<outboxVars, seenAttempts, attempts, applied>>
    BY <1>5 DEF MarkSyncedFails, WorkerDies
  <2> QED BY <2>1
<1>6. CASE markFailed(p)
  BY <1>6 DEF markFailed, NextAttempt
<1> QED BY <1>1, <1>2, <1>3, <1>4, <1>5, <1>6 DEF Worker

(* The rows a write was captured for on their way to the backup.           *)
LEMMA RequestCopies ==
  ASSUME TypeOK, WorkInv, CopyInv, NEW r \in Requests, Request(r) \/ RequestDies(r)
  PROVE  CopyInv'
<1> USE ReplicationAssumption DEF TypeOK, CopyInv, Pending, Busy, Ended, StageAfter
<1>c. ~ReadBefore(r) => \A q \in Requests : Captured(q)' = Captured(q)
  <2>1. ASSUME ~ReadBefore(r) PROVE UNCHANGED <<call, before>>
    BY <2>1 DEF Request, Write, WriteRefused, BuildCandidate, TransactionTimesOut, Commit,
       Persist, StrictApply, StrictUpdateUser, StrictSynced, StrictFailed, RequestDies
  <2> QED BY <2>1, CaptureStays
<1>1. CASE ReadBefore(r)
  <2>1. /\ stage[r] = "start" /\ stage' = [stage EXCEPT ![r] = "write"]
        /\ \A q \in Requests : q # r => before'[q] = before[q]
        /\ UNCHANGED <<call, toRead, candidates, strictEvent, applied>>
    BY <1>1 DEF ReadBefore
  <2>2. \A q \in Requests : q # r => Captured(q)' = Captured(q)
    BY <2>1, CaptureStays
  <2> HIDE DEF Pending
  <2>3. \A q \in Requests : \A i : q # r /\ Pending(q, i) => Pending(q, i)'
    BY <2>1 DEF Pending
  <2> QED BY <2>1, <2>2, <2>3
<1>2. CASE Write(r)
  <2>1. /\ stage[r] = "write"
        /\ toRead' = [toRead EXCEPT ![r] = ToRead(r)]
        /\ candidates' = [candidates EXCEPT ![r] = Direct(r)]
        /\ stage' = [stage EXCEPT ![r] = StageAfter(r, FALSE, ToRead(r), Direct(r))]
        /\ UNCHANGED <<call, before, strictEvent, applied>>
    BY <1>2 DEF Write
  <2>2. \A q \in Requests : Captured(q)' = Captured(q)
    BY <2>1, CaptureStays
  <2>3. \A i \in Captured(r) : i \in ToRead(r) \/ \E k \in Direct(r) : k.id = i
    BY CaptureFacts
  <2>4. \A i \in Captured(r) : Pending(r, i)'
    BY <2>1, <2>3
  <2> HIDE DEF Pending
  <2>5. \A q \in Requests : \A i : q # r /\ Pending(q, i) => Pending(q, i)'
    BY <2>1 DEF Pending
  <2> QED BY <2>1, <2>2, <2>4, <2>5
<1>3. CASE WriteRefused(r)
  BY <1>3, <1>c DEF WriteRefused, ReadBefore
<1>4. CASE BuildCandidate(r)
  <2>1. PICK i \in toRead[r], n \in Candidate :
          /\ n.id = i
          /\ toRead' = [toRead EXCEPT ![r] = toRead[r] \ {i}]
          /\ candidates' = [candidates EXCEPT ![r] = candidates[r] \cup {n}]
          /\ stage' = [stage EXCEPT
               ![r] = StageAfter(r, FALSE, toRead[r] \ {i}, candidates[r] \cup {n})]
    <3>1. PICK i \in toRead[r] :
            LET n == [id |-> i, operation |-> "UPSERT", payload |-> CurrentPayload(r, i)]
            IN /\ toRead' = [toRead EXCEPT ![r] = toRead[r] \ {i}]
               /\ candidates' = [candidates EXCEPT ![r] = candidates[r] \cup {n}]
               /\ stage' = [stage EXCEPT
                    ![r] = StageAfter(r, FALSE, toRead[r] \ {i}, candidates[r] \cup {n})]
      BY <1>4 DEF BuildCandidate
    <3> DEFINE n == [id |-> i, operation |-> "UPSERT", payload |-> CurrentPayload(r, i)]
    <3>2. n \in Candidate /\ n.id = i
      BY DEF Candidate, CurrentPayload, Values
    <3>3. /\ toRead' = [toRead EXCEPT ![r] = toRead[r] \ {i}]
          /\ candidates' = [candidates EXCEPT ![r] = candidates[r] \cup {n}]
          /\ stage' = [stage EXCEPT
               ![r] = StageAfter(r, FALSE, toRead[r] \ {i}, candidates[r] \cup {n})]
      BY <3>1
    <3> HIDE DEF n
    <3> QED BY <3>2, <3>3
  <2>2. /\ stage[r] = "read" /\ UNCHANGED <<strictEvent, applied>>
        /\ \A q \in Requests : Captured(q)' = Captured(q)
    BY <1>4, <1>c DEF BuildCandidate, ReadBefore
  <2> QED BY <2>1, <2>2
<1>5. CASE TransactionTimesOut(r)
  BY <1>5, <1>c DEF TransactionTimesOut, ReadBefore
<1>6. CASE Commit(r)
  BY <1>6, <1>c DEF Commit, ReadBefore
<1>7. CASE Persist(r)
  <2>1. PICK k \in candidates[r] :
          /\ candidates' = [candidates EXCEPT ![r] = candidates[r] \ {k}]
          /\ strictEvent' = [strictEvent EXCEPT
                               ![r] = IF Strict THEN <<r, k.id>> ELSE NoEvent]
          /\ stage' = [stage EXCEPT
                         ![r] = IF Strict THEN "apply"
                                ELSE StageAfter(r, TRUE, {}, candidates[r] \ {k})]
    BY <1>7 DEF Persist
  <2>2. /\ stage[r] = "queue" /\ UNCHANGED <<toRead, applied>>
        /\ \A q \in Requests : Captured(q)' = Captured(q)
    BY <1>7, <1>c DEF Persist, ReadBefore
  <2> QED BY <2>1, <2>2
<1>8. CASE StrictApply(r) \/ StrictUpdateUser(r)
  <2>1. applied \subseteq applied'
    BY <1>8, StrictApplies
  <2>2. /\ stage[r] \in Busy
        /\ \E s \in Busy : stage' = [stage EXCEPT ![r] = s]
        /\ UNCHANGED <<toRead, candidates, strictEvent>>
    BY <1>8 DEF StrictApply, StrictUpdateUser
  <2>3. \A q \in Requests : Captured(q)' = Captured(q)
    BY <1>c, <2>2 DEF ReadBefore
  <2> QED BY <2>1, <2>2, <2>3
<1>9. CASE StrictSynced(r)
  <2>1. /\ stage[r] = "synced"
        /\ stage' = [stage EXCEPT ![r] = StageAfter(r, TRUE, {}, candidates[r])]
        /\ UNCHANGED <<toRead, candidates, strictEvent, applied>>
        /\ \A q \in Requests : Captured(q)' = Captured(q)
    BY <1>9, <1>c DEF StrictSynced, ReadBefore
  <2>2. strictEvent[r] \in applied BY <2>1 DEF WorkInv
  <2>3. ASSUME NEW i, Pending(r, i)
        PROVE  Pending(r, i)'
    BY <2>1, <2>2, <2>3
  <2> HIDE DEF Pending
  <2>4. ASSUME NEW q \in Requests \ {r}, NEW i, Pending(q, i)
        PROVE  Pending(q, i)'
    BY <2>1, <2>4 DEF Pending
  <2> QED BY <2>1, <2>3, <2>4
<1>10. CASE StrictFailed(r)
  BY <1>10, <1>c DEF StrictFailed, ReadBefore
<1>11. CASE RequestDies(r)
  BY <1>11, <1>c DEF RequestDies, ReadBefore
<1> QED BY <1>1, <1>2, <1>3, <1>4, <1>5, <1>6, <1>7, <1>8, <1>9, <1>10, <1>11 DEF Request

(* A worker and the clock leave the requests alone.                        *)
LEMMA OthersCopy ==
  ASSUME TypeOK, CopyInv, UNCHANGED requestVars, applied \subseteq applied'
  PROVE  CopyInv'
BY CaptureStays DEF CopyInv, Pending, requestVars

(* So do the clock and a step that does nothing leave the outbox.          *)
LEMMA FreshStays ==
  ASSUME TypeOK, WorkInv, FreshInv, UNCHANGED <<requestVars, status, workerVars>>
  PROVE  FreshInv'
<1>1. \A p \in Processes : \A e \in batch[p] : e \in Events /\ status[e] # "NONE"
  BY DEF TypeOK, FreshInv
<1>2. \A p \in Processes : step[p] \in Busy => working[p] \in Events /\ status[working[p]] # "NONE"
  BY DEF WorkInv, FreshInv
<1> QED BY <1>1, <1>2, FreshFrame DEF workerVars, WorkInv

LEMMA InitIInv == Init => IInv
<1> SUFFICES ASSUME Init PROVE IInv OBVIOUS
<1> USE ReplicationAssumption DEF Init
<1>1. TypeOK BY DEF TypeOK, Ended, Values, Statuses, Candidate
<1>2. WorkInv BY DEF WorkInv, Busy
<1>3. CountInv /\ SyncedWasApplied BY DEF CountInv, DeadLetterEarned, SyncedWasApplied
<1>4. CopyInv BY DEF CopyInv, Busy
<1>5. FreshInv BY DEF FreshInv, Busy, Events
<1> QED BY <1>1, <1>2, <1>3, <1>4, <1>5 DEF IInv

LEMMA NextIInv == IInv /\ [Next]_vars => IInv'
<1> SUFFICES ASSUME IInv, [Next]_vars PROVE IInv' OBVIOUS
<1> USE DEF IInv
<1>1. ASSUME NEW r \in Requests, Request(r) \/ RequestDies(r) PROVE IInv'
  BY <1>1, RequestTypes, RequestFresh, RequestCounts, RequestCopies
<1>2. ASSUME NEW p \in Processes, Worker(p) \/ WorkerDies(p) PROVE IInv'
  <2>1. UNCHANGED requestVars
    BY <1>2 DEF Worker, WorkerDies, Fetch, Claim, Apply, UpdateUser, markSynced,
       MarkSyncedFails, markFailed
  <2>2. applied \subseteq applied'
    <3>1. CASE Apply(p) \/ UpdateUser(p)
      BY <3>1, WorkerApplies
    <3>2. CASE ~(Apply(p) \/ UpdateUser(p))
      BY <1>2, <3>2 DEF Worker, WorkerDies, Fetch, Claim, markSynced, MarkSyncedFails, markFailed
    <3> QED BY <3>1, <3>2
  <2> QED BY <1>2, <2>1, <2>2, WorkerTypes, WorkerFresh, WorkerCounts, OthersCopy
<1>3. ASSUME NEW e \in Events, TimePasses(e) PROVE IInv'
  <2>1. /\ due' = due \cup {e}
        /\ UNCHANGED <<requestVars, primary, backup, status, content, attemptCount,
                       createdAt, workerVars, attempts, applied, failures, crashes>>
    BY <1>3 DEF TimePasses
  <2>2. TypeOK' BY <2>1 DEF TypeOK, requestVars, workerVars
  <2>3. WorkInv' /\ CountInv' /\ SyncedWasApplied'
    BY <2>1 DEF WorkInv, IsUser, CountInv, DeadLetterEarned, SyncedWasApplied, requestVars,
       workerVars
  <2>4. CopyInv' BY <2>1, OthersCopy
  <2>5. FreshInv' BY <2>1, FreshStays
  <2> QED BY <2>2, <2>3, <2>4, <2>5
<1>4. CASE UNCHANGED vars
  <2> USE <1>4 DEF vars, requestVars, outboxVars, workerVars
  <2>1. TypeOK' BY DEF TypeOK
  <2>2. WorkInv' /\ CountInv' /\ SyncedWasApplied'
    BY DEF WorkInv, IsUser, CountInv, DeadLetterEarned, SyncedWasApplied
  <2>3. CopyInv' BY OthersCopy
  <2>4. FreshInv' BY FreshStays
  <2> QED BY <2>1, <2>2, <2>3, <2>4
<1> QED BY <1>1, <1>2, <1>3, <1>4 DEF Next

----------------------------------------------------------------------------
(* Every reachable state of every instance satisfies the invariant.        *)
THEOREM ReplicationInvariant == Spec => []IInv
<1> QED BY InitIInv, NextIInv, PTL DEF Spec

(* Requests, databases, outbox and workers keep their types: no payload is *)
(* ever missing from a row that was written to the backup.                 *)
THEOREM ReplicationTypes == Spec => []TypeOK
<1>1. IInv => TypeOK BY DEF IInv
<1> QED BY <1>1, ReplicationInvariant, PTL

(* markSynced and applyStrictReplication never mark an event SYNCED that   *)
(* has not been applied, with any number of workers, crashes and failures. *)
THEOREM SyncedEventsWereApplied == Spec => []SyncedWasApplied
<1>1. IInv => SyncedWasApplied BY DEF IInv
<1> QED BY <1>1, ReplicationInvariant, PTL

(* markFailed gives no event up before retryAttempts outcomes.             *)
THEOREM DeadLettersAreEarned == Spec => []DeadLetterEarned
<1>1. IInv => DeadLetterEarned BY DEF IInv, CountInv
<1> QED BY <1>1, ReplicationInvariant, PTL

(* A strict request that reports success has applied every row its write   *)
(* was captured for, one or many: persistReplicationCandidates leaves no   *)
(* candidate behind without an error.                                      *)
THEOREM StrictWritesAreApplied == Spec => []StrictSuccessAppliesAll
<1>1. IInv => StrictSuccessAppliesAll
  BY DEF IInv, CopyInv, Pending, StrictSuccessAppliesAll, Busy
<1> QED BY <1>1, ReplicationInvariant, PTL

----------------------------------------------------------------------------
(* One worker and no strict requests: whoever holds an event holds it      *)
(* alone, and the row says PROCESSING until the outcome is recorded.       *)

OneWorker == \A p, q \in Processes : p = q

SoloInv ==
  /\ \A r \in Requests : stage[r] \notin Busy
  /\ \A p \in Processes : step[p] \in Busy => status[working[p]] = "PROCESSING"

Kept == \A e \in Events : status[e] = "SYNCED" => status'[e] = "SYNCED"

LEMMA SoloStep ==
  ASSUME OneWorker, ~Strict, IInv, SoloInv, [Next]_vars
  PROVE  SoloInv' /\ Kept
<1> USE ReplicationAssumption DEF IInv, TypeOK, WorkInv, SoloInv, Kept, Busy, Ended,
        StageAfter, outboxVars, workerVars, requestVars, OneWorker
<1>1. ASSUME NEW r \in Requests, Request(r) \/ RequestDies(r) PROVE SoloInv' /\ Kept
  <2>1. CASE Persist(r)
    <3>1. PICK k \in candidates[r] :
            /\ status' = [status EXCEPT ![<<r, k.id>>] = "PENDING"]
            /\ stage' = [stage EXCEPT ![r] = StageAfter(r, TRUE, {}, candidates[r] \ {k})]
      BY <2>1 DEF Persist
    <3>2. <<r, k.id>> \in Events /\ status[<<r, k.id>>] = "NONE" BY DEF FreshInv, Candidate, Events
    <3>3. UNCHANGED workerVars BY <2>1 DEF Persist
    <3> QED BY <3>1, <3>2, <3>3
  <2>2. CASE ~Persist(r)
    <3>1. UNCHANGED <<status, step, working>>
      BY <1>1, <2>2 DEF Request, RequestDies, ReadBefore, Write, WriteRefused, BuildCandidate,
         TransactionTimesOut, Commit, StrictApply, StrictUpdateUser, StrictSynced, StrictFailed
    <3>2. \A q \in Requests : stage'[q] \notin Busy
      <4>1. CASE BuildCandidate(r) \/ Write(r) \/ Commit(r)
        <5>1. \E reads, inserts : \E c \in BOOLEAN :
                stage' = [stage EXCEPT ![r] = StageAfter(r, c, reads, inserts)]
          BY <4>1 DEF BuildCandidate, Write, Commit
        <5> QED BY <5>1
      <4>2. CASE ~(BuildCandidate(r) \/ Write(r) \/ Commit(r))
        BY <1>1, <2>2, <4>2 DEF Request, RequestDies, ReadBefore, WriteRefused,
           TransactionTimesOut, StrictApply, StrictUpdateUser, StrictSynced, StrictFailed
      <4> QED BY <4>1, <4>2
    <3> QED BY <3>1, <3>2
  <2> QED BY <2>1, <2>2
<1>2. ASSUME NEW p \in Processes, Worker(p) \/ WorkerDies(p) PROVE SoloInv' /\ Kept
  <2>1. CASE Claim(p)
    <3>1. PICK e \in batch[p] :
            \/ /\ status[e] \in Open
               /\ status' = [status EXCEPT ![e] = "PROCESSING"]
               /\ working' = [working EXCEPT ![p] = e]
               /\ step' = [step EXCEPT ![p] = "apply"]
            \/ /\ step' = [step EXCEPT ![p] = StepAfter(batch[p] \ {e})]
               /\ UNCHANGED <<status, working>>
      BY <2>1 DEF Claim, Claimable
    <3>2. UNCHANGED stage /\ e \in Events BY <2>1 DEF Claim
    <3> QED BY <3>1, <3>2 DEF StepAfter, Open
  <2>2. CASE markSynced(p) \/ markFailed(p)
    <3>1. /\ step[p] \in Busy
          /\ \E s \in Statuses : status' = [status EXCEPT ![working[p]] = s]
          /\ step' = [step EXCEPT ![p] = StepAfter(batch[p])]
          /\ UNCHANGED stage
      BY <2>2 DEF markSynced, markFailed, Statuses
    <3>2. \A q \in Processes : step'[q] \notin Busy BY <3>1 DEF StepAfter
    <3> QED BY <3>1, <3>2
  <2>3. CASE Fetch(p) \/ Apply(p) \/ UpdateUser(p) \/ MarkSyncedFails(p) \/ WorkerDies(p)
    <3>1. /\ UNCHANGED <<status, stage>>
          /\ \A q \in Processes : step'[q] \in Busy => step[q] \in Busy /\ working'[q] = working[q]
      BY <2>3 DEF Fetch, Apply, UpdateUser, MarkSyncedFails, WorkerDies
    <3> QED BY <3>1
  <2> QED BY <1>2, <2>1, <2>2, <2>3 DEF Worker
<1>3. ASSUME NEW e \in Events, TimePasses(e) PROVE SoloInv' /\ Kept
  BY <1>3 DEF TimePasses
<1>4. CASE UNCHANGED vars
  BY <1>4 DEF vars
<1> QED BY <1>1, <1>2, <1>3, <1>4 DEF Next

(* With one API process in async_outbox mode an event that has succeeded   *)
(* is never retried, whatever crashes or fails.                            *)
THEOREM OneWorkerNeverRetries ==
  ASSUME OneWorker, ~Strict
  PROVE  Spec => NoRetryAfterSuccess
<1>1. Init => SoloInv BY DEF Init, SoloInv, Busy
<1>2. IInv /\ SoloInv /\ [Next]_vars => SoloInv' BY SoloStep
<1>3. IInv /\ SoloInv /\ [Next]_vars
        => [\A e \in Events : status[e] = "SYNCED" => status'[e] = "SYNCED"]_vars
  BY SoloStep DEF Kept
<1> QED BY <1>1, <1>2, <1>3, ReplicationInvariant, PTL
    DEF Spec, NoRetryAfterSuccess

----------------------------------------------------------------------------
(* While no database call has failed, under any number of crashes: an      *)
(* event is on its way to FAILED only when it carries no payload, or is    *)
(* one of a User.                                                          *)

MayFail(e) == content[e] = NoPayload \/ e[2] \in Users

Healthy ==
  /\ \A p \in Processes : step[p] = "unsynced" => MayFail(working[p])
  /\ \A r \in Requests : stage[r] = "unsynced" => MayFail(strictEvent[r])
  /\ RedeliveryNeverFails

HealthyInv == failures = 0 => Healthy

(* Failed calls are only ever counted up.                                  *)
LEMMA FailuresGrow ==
  ASSUME failures \in Nat, [Next]_vars
  PROVE  failures' \in Nat /\ failures' >= failures
<1>1. ASSUME NEW r \in Requests, Request(r) \/ RequestDies(r)
      PROVE  failures' \in {failures, failures + 1}
  BY <1>1 DEF Request, ReadBefore, Write, WriteRefused, BuildCandidate,
     TransactionTimesOut, Commit, Persist, StrictApply, StrictUpdateUser, StrictSynced, StrictFailed,
     RequestDies, ApplySucceeds, FindsUser, ApplyFails, UpdateSucceeds, UpdateFails,
     outboxVars, workerVars, requestVars
<1>2. ASSUME NEW p \in Processes, Worker(p) \/ WorkerDies(p)
      PROVE  failures' \in {failures, failures + 1}
  BY <1>2 DEF Worker, WorkerDies, Fetch, Claim, Apply, UpdateUser, markSynced, MarkSyncedFails,
     markFailed, ApplySucceeds, FindsUser, ApplyFails, UpdateSucceeds, UpdateFails
<1>3. ASSUME NEW e \in Events, TimePasses(e) PROVE failures' = failures
  BY <1>3 DEF TimePasses
<1>4. CASE UNCHANGED vars
  BY <1>4 DEF vars
<1> QED BY <1>1, <1>2, <1>3, <1>4 DEF Next

LEMMA HealthyStep ==
  ASSUME IInv, HealthyInv, [Next]_vars
  PROVE  HealthyInv'
<1> SUFFICES ASSUME failures' = 0 PROVE Healthy'
  BY DEF HealthyInv
<1>0. failures = 0 /\ Healthy
  BY FailuresGrow DEF IInv, TypeOK, HealthyInv
<1> USE <1>0, ReplicationAssumption DEF IInv, TypeOK, WorkInv, Healthy, MayFail, RedeliveryNeverFails,
        Busy, Ended, StageAfter, outboxVars, workerVars, requestVars
<1>1. ASSUME NEW r \in Requests, Request(r) \/ RequestDies(r) PROVE Healthy'
  <2>1. CASE Persist(r)
    <3>1. PICK k \in candidates[r] :
            /\ status' = [status EXCEPT ![<<r, k.id>>] = "PENDING"]
            /\ content' = [content EXCEPT ![<<r, k.id>>] =
                             IF k.operation = "DELETE" THEN NoRow ELSE k.payload]
            /\ strictEvent' = [strictEvent EXCEPT
                                 ![r] = IF Strict THEN <<r, k.id>> ELSE NoEvent]
            /\ stage' = [stage EXCEPT
                           ![r] = IF Strict THEN "apply"
                                  ELSE StageAfter(r, TRUE, {}, candidates[r] \ {k})]
      BY <2>1 DEF Persist
    <3>2. <<r, k.id>> \in Events /\ status[<<r, k.id>>] = "NONE" BY DEF FreshInv, Candidate, Events
    <3>3. UNCHANGED <<workerVars, failures>> BY <2>1 DEF Persist
    <3>4. \A e \in Events : e # <<r, k.id>> => content'[e] = content[e] /\ status'[e] = status[e]
      BY <3>1, <3>2
    <3>5. \A p \in Processes : step'[p] = "unsynced" => MayFail(working[p])'
      BY <3>2, <3>3, <3>4 DEF FreshInv
    <3>6. \A q \in Requests : stage'[q] = "unsynced" => MayFail(strictEvent[q])'
      <4> SUFFICES ASSUME NEW q \in Requests, stage'[q] = "unsynced"
                   PROVE  MayFail(strictEvent[q])'
        OBVIOUS
      <4>1. q # r /\ stage[q] = "unsynced" /\ strictEvent'[q] = strictEvent[q] BY <3>1
      <4>2. strictEvent[q] \in Events
        BY <4>1
      <4>3. status[strictEvent[q]] # "NONE"
        BY <4>1 DEF FreshInv
      <4>4. strictEvent[q] # <<r, k.id>>
        BY <3>2, <4>3
      <4> QED BY <3>4, <4>1, <4>2, <4>4
    <3>7. RedeliveryNeverFails' BY <3>1, <3>2, <3>4
    <3> QED BY <3>3, <3>5, <3>6, <3>7
  <2>2. CASE StrictApply(r) \/ StrictUpdateUser(r)
    <3>1. /\ stage[r] \in Busy
          /\ \E s \in Busy : /\ stage' = [stage EXCEPT ![r] = s]
                             /\ s = "unsynced" => MayFail(strictEvent[r])
          /\ UNCHANGED <<strictEvent, outboxVars, workerVars>> /\ failures' = 0
      <4>1. CASE StrictApply(r)
        BY <4>1 DEF StrictApply, ApplySucceeds, FindsUser, ApplyFails, Broken
      <4>2. CASE StrictUpdateUser(r)
        BY <4>2 DEF StrictUpdateUser, UpdateSucceeds, UpdateFails, IsUser
      <4> QED BY <2>2, <4>1, <4>2
    <3> QED BY <3>1
  <2>3. CASE StrictSynced(r)
    BY <2>3 DEF StrictSynced
  <2>4. CASE StrictFailed(r)
    BY <2>4 DEF StrictFailed
  <2>5. CASE Write(r) \/ BuildCandidate(r) \/ Commit(r)
    <3>1. \E reads, inserts : \E c \in BOOLEAN :
            stage' = [stage EXCEPT ![r] = StageAfter(r, c, reads, inserts)]
      BY <2>5 DEF BuildCandidate, Write, Commit
    <3>2. UNCHANGED <<strictEvent, outboxVars, workerVars, failures>>
      BY <2>5 DEF BuildCandidate, Write, Commit
    <3> QED BY <3>1, <3>2
  <2>6. CASE ReadBefore(r) \/ WriteRefused(r) \/ TransactionTimesOut(r) \/ RequestDies(r)
    <3>1. \E s \in {"write", "failed", "lost"} : stage' = [stage EXCEPT ![r] = s]
      BY <2>6 DEF ReadBefore, WriteRefused, TransactionTimesOut, RequestDies
    <3>2. UNCHANGED <<strictEvent, outboxVars, workerVars>> /\ failures' = 0
      BY <2>6 DEF ReadBefore, WriteRefused, TransactionTimesOut, RequestDies
    <3> QED BY <3>1, <3>2
  <2> QED BY <1>1, <2>1, <2>2, <2>3, <2>4, <2>5, <2>6 DEF Request
<1>2. ASSUME NEW p \in Processes, Worker(p) \/ WorkerDies(p) PROVE Healthy'
  <2>1. CASE Claim(p)
    <3>1. PICK e \in batch[p] :
            \/ /\ status' = [status EXCEPT ![e] = "PROCESSING"]
               /\ working' = [working EXCEPT ![p] = e]
               /\ step' = [step EXCEPT ![p] = "apply"]
            \/ /\ step' = [step EXCEPT ![p] = StepAfter(batch[p] \ {e})]
               /\ UNCHANGED <<status, working>>
      BY <2>1 DEF Claim
    <3>2. UNCHANGED <<requestVars, content, failures>> BY <2>1 DEF Claim
    <3> QED BY <3>1, <3>2 DEF StepAfter
  <2>2. CASE Apply(p) \/ UpdateUser(p)
    <3>1. /\ \E s \in Busy : /\ step' = [step EXCEPT ![p] = s]
                             /\ s = "unsynced" => MayFail(working[p])
          /\ UNCHANGED <<requestVars, status, content, working>> /\ failures' = 0
      <4>1. CASE Apply(p)
        BY <4>1 DEF Apply, ApplySucceeds, FindsUser, ApplyFails, Broken
      <4>2. CASE UpdateUser(p)
        BY <4>2 DEF UpdateUser, UpdateSucceeds, UpdateFails, IsUser
      <4> QED BY <2>2, <4>1, <4>2
    <3> QED BY <3>1
  <2>3. CASE markSynced(p)
    BY <2>3 DEF markSynced, StepAfter
  <2>4. CASE markFailed(p)
    BY <2>4 DEF markFailed, StepAfter
  <2>5. CASE Fetch(p) \/ MarkSyncedFails(p) \/ WorkerDies(p)
    <3>1. /\ UNCHANGED <<requestVars, status, content>> /\ failures' = 0
          /\ \A q \in Processes : step'[q] = "unsynced" =>
               step[q] = "unsynced" /\ working'[q] = working[q]
      BY <2>5 DEF Fetch, MarkSyncedFails, WorkerDies
    <3> QED BY <3>1
  <2> QED BY <1>2, <2>1, <2>2, <2>3, <2>4, <2>5 DEF Worker
<1>3. ASSUME NEW e \in Events, TimePasses(e) PROVE Healthy'
  BY <1>3 DEF TimePasses
<1>4. CASE UNCHANGED vars
  BY <1>4 DEF vars
<1> QED BY <1>1, <1>2, <1>3, <1>4 DEF Next

(* applyReplicationEventToBackup can be repeated: before the first failed  *)
(* call, no event with a payload is FAILED or dead, however often workers  *)
(* and strict requests die and events are applied again; a User may be     *)
(* deleted between its look-up and its update.                             *)
THEOREM HealthyRedelivery == Spec => []RedeliveryNeverFails
<1>1. Init => HealthyInv BY DEF Init, HealthyInv, Healthy, MayFail, RedeliveryNeverFails
<1>2. IInv /\ HealthyInv /\ [Next]_vars => HealthyInv' BY HealthyStep
<1>3. HealthyInv => RedeliveryNeverFails BY DEF HealthyInv, Healthy, RedeliveryNeverFails
<1> QED BY <1>1, <1>2, <1>3, ReplicationInvariant, PTL DEF Spec

----------------------------------------------------------------------------
(* The order of the outbox: every row is inserted once, and is newer than  *)
(* all the rows before it.                                                 *)

Inserted == {e \in Events : status[e] # "NONE"}

OrderInv ==
  /\ \A e \in Inserted : createdAt[e] <= Cardinality(Inserted)
  /\ \A e, f \in Inserted : createdAt[e] = createdAt[f] => e = f

\* An event whose effect one healthy worker has brought to the backup, and
\* one that it has yet to bring there.  Users may be skipped: they do not count.
Counts(e) == ~Broken(e) /\ e[2] \notin Users

Done(e) ==
  \/ status[e] = "SYNCED"
  \/ \E p \in Processes : step[p] = "synced" /\ working[p] = e

Waiting(e) ==
  /\ Counts(e)
  /\ \/ status[e] = "PENDING"
     \/ \E p \in Processes : step[p] = "apply" /\ working[p] = e

\* Nothing is left in hand, and a batch holds the oldest of what waits.
BatchInv ==
  /\ \A e \in Events : status[e] = "PENDING" => e \in due
  /\ \A e \in Events : status[e] = "PROCESSING" =>
       \E p \in Processes : step[p] \in Busy /\ working[p] = e
  /\ \A p \in Processes : \A e \in batch[p] : \A f \in Events :
       status[f] = "PENDING" /\ f \notin batch[p] => Older(e, f)

\* What is being applied is older than what waits, and what has been applied
\* is older than both: only the newest of it can be seen in the backup.
TurnInv ==
  /\ \A p \in Processes : \A f \in Events :
       /\ step[p] = "apply" /\ Counts(working[p])
       /\ status[f] = "PENDING" /\ Counts(f)
       => Older(working[p], f)
  /\ \A e, f \in Events : e[2] \notin Users /\ Done(e) /\ Waiting(f) => Older(e, f)
  /\ \A i \in Ids \ Users : \A r \in Requests :
       /\ Done(<<r, i>>)
       /\ \A q \in Requests : Done(<<q, i>>) =>
            createdAt[<<q, i>>] <= createdAt[<<r, i>>]
       => backup[i] = content[<<r, i>>]

Calm == failures = 0 /\ crashes = 0

TurnsKept == Calm => BatchInv /\ TurnInv

LEMMA InsertedFinite == IsFiniteSet(Inserted) /\ Cardinality(Inserted) \in Nat
<1>1. IsFiniteSet(Events) BY FS_Product, ReplicationAssumption DEF Events
<1>2. IsFiniteSet(Inserted) BY <1>1, FS_Subset DEF Inserted
<1> QED BY <1>2, FS_CardinalityType

(* Only an insert makes a row, and only of an event that has none.         *)
LEMMA InsertsOnly ==
  ASSUME TypeOK, WorkInv, FreshInv, [Next]_vars,
         ~ \E r \in Requests : Persist(r)
  PROVE  /\ createdAt' = createdAt /\ content' = content
         /\ \A e \in Events : status'[e] = "NONE" <=> status[e] = "NONE"
<1> USE DEF TypeOK, WorkInv, FreshInv, Busy, outboxVars
<1>1. ASSUME NEW r \in Requests, Request(r) \/ RequestDies(r), ~Persist(r)
      PROVE  /\ createdAt' = createdAt /\ content' = content
             /\ \A e \in Events : status'[e] = "NONE" <=> status[e] = "NONE"
  <2>1. CASE StrictSynced(r) \/ StrictFailed(r)
    <3>1. /\ stage[r] \in Busy
          /\ \E s \in {"SYNCED", "FAILED"} : status' = [status EXCEPT ![strictEvent[r]] = s]
          /\ createdAt' = createdAt /\ content' = content
      BY <2>1 DEF StrictSynced, StrictFailed
    <3> QED BY <3>1
  <2>2. CASE ~(StrictSynced(r) \/ StrictFailed(r))
    BY <1>1, <2>2 DEF Request, RequestDies, ReadBefore, Write, WriteRefused, BuildCandidate,
       TransactionTimesOut, Commit, StrictApply, StrictUpdateUser
  <2> QED BY <2>1, <2>2
<1>2. ASSUME NEW p \in Processes, Worker(p) \/ WorkerDies(p)
      PROVE  /\ createdAt' = createdAt /\ content' = content
             /\ \A e \in Events : status'[e] = "NONE" <=> status[e] = "NONE"
  <2>1. CASE Claim(p)
    <3>1. PICK e \in batch[p] :
            status' = [status EXCEPT ![e] = "PROCESSING"] \/ status' = status
      BY <2>1 DEF Claim
    <3>2. status[e] # "NONE" OBVIOUS
    <3> QED BY <2>1, <3>1, <3>2 DEF Claim
  <2>2. CASE markSynced(p) \/ markFailed(p)
    <3>1. /\ step[p] \in Busy
          /\ \E s \in {"SYNCED", "DEAD_LETTER", "FAILED"} :
               status' = [status EXCEPT ![working[p]] = s]
          /\ createdAt' = createdAt /\ content' = content
      BY <2>2 DEF markSynced, markFailed
    <3> QED BY <3>1
  <2>3. CASE Fetch(p) \/ Apply(p) \/ UpdateUser(p) \/ MarkSyncedFails(p) \/ WorkerDies(p)
    BY <2>3 DEF Fetch, Apply, UpdateUser, MarkSyncedFails, WorkerDies
  <2> QED BY <1>2, <2>1, <2>2, <2>3 DEF Worker
<1>3. ASSUME NEW e \in Events, TimePasses(e)
      PROVE  createdAt' = createdAt /\ content' = content /\ status' = status
  BY <1>3 DEF TimePasses
<1>4. CASE UNCHANGED vars
  BY <1>4 DEF vars
<1> QED BY <1>1, <1>2, <1>3, <1>4 DEF Next

(* An insert: the event had no row, and its row is the newest.             *)
LEMMA InsertFacts ==
  ASSUME TypeOK, WorkInv, FreshInv, OrderInv, NEW r \in Requests, Persist(r)
  PROVE  \E e \in Events :
           /\ status[e] = "NONE"
           /\ status' = [status EXCEPT ![e] = "PENDING"]
           /\ due' = due \cup {e}
           /\ createdAt' = [createdAt EXCEPT ![e] = 1 + Cardinality(Inserted)]
           /\ Inserted' = Inserted \cup {e}
           /\ \A f \in Inserted : f # e /\ createdAt'[f] = createdAt[f] /\ Older(f, e)'
           /\ \A f \in Events : f # e => content'[f] = content[f]
           /\ UNCHANGED <<backup, workerVars, failures, crashes>>
<1> USE DEF TypeOK, WorkInv, FreshInv
<1>1. PICK k \in candidates[r] :
        /\ status' = [status EXCEPT ![<<r, k.id>>] = "PENDING"]
        /\ content' = [content EXCEPT ![<<r, k.id>>] =
                         IF k.operation = "DELETE" THEN NoRow ELSE k.payload]
        /\ createdAt' = [createdAt EXCEPT ![<<r, k.id>>] =
             1 + Cardinality({f \in Events : status[f] # "NONE"})]
        /\ due' = due \cup {<<r, k.id>>}
  BY DEF Persist
<1>2. UNCHANGED <<backup, workerVars, failures, crashes>> BY DEF Persist
<1> DEFINE e == <<r, k.id>>
<1>3. e \in Events /\ status[e] = "NONE" BY DEF Candidate, Events
<1>4. createdAt' = [createdAt EXCEPT ![e] = 1 + Cardinality(Inserted)]
  BY <1>1 DEF Inserted
<1>5. Inserted' = Inserted \cup {e}
  <2>1. \A f \in Events : status'[f] # "NONE" <=> status[f] # "NONE" \/ f = e
    BY <1>1, <1>3
  <2> QED BY <2>1, <1>3 DEF Inserted
<1>6. ASSUME NEW f \in Inserted
      PROVE  f # e /\ createdAt'[f] = createdAt[f] /\ Older(f, e)'
  <2>1. f \in Events /\ f # e BY <1>3 DEF Inserted
  <2>2. createdAt'[f] = createdAt[f] /\ createdAt'[e] = 1 + Cardinality(Inserted)
    BY <1>3, <1>4, <2>1
  <2>3. createdAt[f] <= Cardinality(Inserted) /\ createdAt[f] \in Nat
    BY <2>1 DEF OrderInv
  <2> QED BY <2>1, <2>2, <2>3, InsertedFinite DEF Older
<1>7. \A f \in Events : f # e => content'[f] = content[f] BY <1>1, <1>3
<1> HIDE DEF e
<1> QED BY <1>1, <1>2, <1>3, <1>4, <1>5, <1>6, <1>7 DEF e

LEMMA OrderKept ==
  ASSUME TypeOK, WorkInv, FreshInv, OrderInv, [Next]_vars
  PROVE  OrderInv'
<1>1. CASE \E r \in Requests : Persist(r)
  <2>1. PICK e \in Events :
          /\ status[e] = "NONE"
          /\ createdAt' = [createdAt EXCEPT ![e] = 1 + Cardinality(Inserted)]
          /\ Inserted' = Inserted \cup {e}
          /\ \A f \in Inserted : f # e /\ createdAt'[f] = createdAt[f] /\ Older(f, e)'
    BY <1>1, InsertFacts
  <2>2. e \notin Inserted BY <2>1 DEF Inserted
  <2>3. Cardinality(Inserted') = Cardinality(Inserted) + 1
    BY <2>1, <2>2, InsertedFinite, FS_AddElement
  <2>4. createdAt'[e] = 1 + Cardinality(Inserted) BY <2>1 DEF TypeOK
  <2>5. \A f \in Inserted : createdAt[f] \in Nat BY DEF TypeOK, Inserted
  <2>6. \A f \in Inserted' : createdAt'[f] <= Cardinality(Inserted')
    BY <2>1, <2>3, <2>4, <2>5, InsertedFinite DEF OrderInv
  <2>7. \A f \in Inserted : createdAt'[f] < createdAt'[e] /\ createdAt'[f] \in Nat
    BY <2>1, <2>5 DEF Older
  <2>8. \A f, g \in Inserted' : createdAt'[f] = createdAt'[g] => f = g
    BY <2>1, <2>7, <2>4, InsertedFinite DEF OrderInv
  <2> QED BY <2>6, <2>8 DEF OrderInv
<1>2. CASE ~ \E r \in Requests : Persist(r)
  <2>1. /\ createdAt' = createdAt
        /\ \A e \in Events : status'[e] = "NONE" <=> status[e] = "NONE"
    BY <1>2, InsertsOnly
  <2>2. Inserted' = Inserted BY <2>1 DEF Inserted
  <2> QED BY <2>1, <2>2 DEF OrderInv
<1> QED BY <1>1, <1>2

(* The oldest n of a set are older than the rest of it.                    *)
LEMMA OldestAreOlder ==
  ASSUME TypeOK, OrderInv, NEW S, S \subseteq Inserted, NEW n \in Nat,
         NEW e \in Oldest(S, n), NEW f \in S \ Oldest(S, n)
  PROVE  Older(e, f)
<1> DEFINE Before(g) == {h \in S : Older(h, g)}
<1>1. IsFiniteSet(S) BY InsertedFinite, FS_Subset
<1>2. \A g : IsFiniteSet(Before(g)) /\ Cardinality(Before(g)) \in Nat
  BY <1>1, FS_Subset, FS_CardinalityType
<1>3. Cardinality(Before(e)) < n /\ ~(Cardinality(Before(f)) < n)
  BY DEF Oldest
<1>4. e \in S /\ f \in S /\ e # f BY DEF Oldest
<1>5. \A g \in S : g \in Inserted /\ createdAt[g] \in Nat BY DEF Inserted, TypeOK
<1>6. SUFFICES ASSUME ~Older(e, f) PROVE FALSE OBVIOUS
<1>7. createdAt[f] <= createdAt[e] BY <1>4, <1>5, <1>6 DEF Older
<1>8. Before(f) \subseteq Before(e) BY <1>4, <1>5, <1>7 DEF Older
<1>9. Cardinality(Before(f)) <= Cardinality(Before(e)) BY <1>2, <1>8, FS_Subset
<1> QED BY <1>2, <1>3, <1>9

(* Failed calls and deaths are only ever counted up.                       *)
LEMMA CalmBefore ==
  ASSUME TypeOK, [Next]_vars, Calm'
  PROVE  Calm
<1>1. failures = 0 BY FailuresGrow DEF TypeOK, Calm
<1>2. crashes' \in {crashes, crashes + 1}
  <2>1. ASSUME NEW r \in Requests, Request(r) \/ RequestDies(r)
        PROVE  crashes' \in {crashes, crashes + 1}
    BY <2>1 DEF Request, ReadBefore, Write, WriteRefused, BuildCandidate,
       TransactionTimesOut, Commit, Persist, StrictApply, StrictUpdateUser, StrictSynced, StrictFailed,
       RequestDies
  <2>2. ASSUME NEW p \in Processes, Worker(p) \/ WorkerDies(p)
        PROVE  crashes' \in {crashes, crashes + 1}
    BY <2>2 DEF Worker, WorkerDies, Fetch, Claim, Apply, UpdateUser, markSynced, MarkSyncedFails,
       markFailed
  <2>3. ASSUME NEW e \in Events, TimePasses(e) PROVE crashes' = crashes
    BY <2>3 DEF TimePasses
  <2>4. CASE UNCHANGED vars
    BY <2>4 DEF vars
  <2> QED BY <2>1, <2>2, <2>3, <2>4 DEF Next
<1> QED BY <1>1, <1>2 DEF TypeOK, Calm

(* A step that does no more than make rows due.                            *)
LEMMA TurnFrame ==
  ASSUME BatchInv, TurnInv, due \subseteq due',
         UNCHANGED <<status, content, createdAt, backup, step, batch, working>>
  PROVE  BatchInv' /\ TurnInv'
BY DEF BatchInv, TurnInv, Done, Waiting, Counts, Broken, Older

(* A new row is newer than all that is in hand or done.                    *)
LEMMA TurnInsert ==
  ASSUME TypeOK, WorkInv, FreshInv, OrderInv, BatchInv, TurnInv,
         NEW r \in Requests, Persist(r)
  PROVE  BatchInv' /\ TurnInv'
<1> USE DEF TypeOK, WorkInv, Busy
<1>1. PICK e \in Events :
        /\ status[e] = "NONE"
        /\ status' = [status EXCEPT ![e] = "PENDING"]
        /\ due' = due \cup {e}
        /\ \A f \in Inserted : f # e /\ createdAt'[f] = createdAt[f] /\ Older(f, e)'
        /\ \A f \in Events : f # e => content'[f] = content[f]
        /\ UNCHANGED <<backup, workerVars, failures, crashes>>
  BY InsertFacts
<1>2. /\ status'[e] = "PENDING"
      /\ \A f \in Events : f # e => status'[f] = status[f]
  BY <1>1
<1>3. UNCHANGED <<step, batch, working>> BY <1>1 DEF workerVars
<1>4. \A p \in Processes : \A f \in batch[p] : f \in Inserted
  BY DEF FreshInv, Inserted
<1>5. \A p \in Processes : step[p] \in Busy => working[p] \in Inserted
  BY DEF FreshInv, Inserted
<1>6. \A f \in Inserted : f \in Events /\ f # e /\ createdAt'[f] = createdAt[f]
                          /\ createdAt'[f] < createdAt'[e]
                          /\ content'[f] = content[f] /\ status'[f] = status[f]
  BY <1>1, <1>2 DEF Inserted, Older
<1>7. \A f \in Events : status[f] \in {"PENDING", "SYNCED"} => f \in Inserted
  BY DEF Inserted
<1>8. \A f \in Events : Done(f)' <=> Done(f)
  BY <1>1, <1>2, <1>3 DEF Done
<1>9. \A f \in Events : Done(f) => f \in Inserted
  BY <1>5, <1>7 DEF Done
<1>10. \A f \in Events : Waiting(f)' => f = e \/ (Waiting(f) /\ f \in Inserted)
  BY <1>2, <1>3, <1>5, <1>6, <1>7 DEF Waiting, Counts, Broken
<1>11. BatchInv'
  <2>1. \A f \in Events : status'[f] = "PENDING" => f \in due'
    BY <1>1, <1>2 DEF BatchInv
  <2>2. \A f \in Events : status'[f] = "PROCESSING" =>
          \E p \in Processes : step'[p] \in Busy /\ working'[p] = f
    BY <1>2, <1>3 DEF BatchInv
  <2>3. ASSUME NEW p \in Processes, NEW g \in batch'[p], NEW f \in Events,
               status'[f] = "PENDING", f \notin batch'[p]
        PROVE  Older(g, f)'
    <3>1. g \in batch[p] /\ g \in Inserted /\ f \notin batch[p] BY <1>3, <1>4, <2>3
    <3>2. CASE f = e BY <1>6, <3>1, <3>2 DEF Older
    <3>3. CASE f # e
      <4>1. status[f] = "PENDING" /\ f \in Inserted BY <1>2, <1>7, <2>3, <3>3
      <4>2. Older(g, f) BY <3>1, <4>1 DEF BatchInv
      <4> QED BY <1>6, <3>1, <4>1, <4>2 DEF Older
    <3> QED BY <3>2, <3>3
  <2> QED BY <2>1, <2>2, <2>3 DEF BatchInv
<1>12. TurnInv'
  <2>1. ASSUME NEW p \in Processes, NEW f \in Events, step'[p] = "apply",
               Counts(working[p])', status'[f] = "PENDING", Counts(f)'
        PROVE  Older(working[p], f)'
    <3>1. /\ step[p] = "apply" /\ working'[p] = working[p] /\ working[p] \in Inserted
      BY <1>3, <1>5, <2>1
    <3>2. CASE f = e BY <1>6, <3>1, <3>2 DEF Older
    <3>3. CASE f # e
      <4>1. status[f] = "PENDING" /\ f \in Inserted BY <1>2, <1>7, <2>1, <3>3
      <4>2. Counts(working[p]) /\ Counts(f) BY <1>6, <2>1, <3>1, <4>1 DEF Counts, Broken
      <4>3. Older(working[p], f) BY <3>1, <4>1, <4>2 DEF TurnInv
      <4> QED BY <1>6, <3>1, <4>1, <4>3 DEF Older
    <3> QED BY <3>2, <3>3
  <2>2. ASSUME NEW g \in Events, NEW f \in Events, g[2] \notin Users,
               Done(g)', Waiting(f)'
        PROVE  Older(g, f)'
    <3>1. Done(g) /\ g \in Inserted BY <1>8, <1>9, <2>2
    <3>2. CASE f = e BY <1>6, <3>1, <3>2 DEF Older
    <3>3. CASE f # e
      <4>1. Waiting(f) /\ f \in Inserted BY <1>10, <2>2, <3>3
      <4>2. Older(g, f) BY <2>2, <3>1, <4>1 DEF TurnInv
      <4> QED BY <1>6, <3>1, <4>1, <4>2 DEF Older
    <3> QED BY <3>2, <3>3
  <2>3. ASSUME NEW i \in Ids \ Users, NEW q \in Requests, Done(<<q, i>>)',
               \A s \in Requests : Done(<<s, i>>)' =>
                 createdAt'[<<s, i>>] <= createdAt'[<<q, i>>]
        PROVE  backup'[i] = content'[<<q, i>>]
    <3>1. \A s \in Requests : <<s, i>> \in Events BY DEF Events
    <3>2. Done(<<q, i>>) /\ <<q, i>> \in Inserted BY <1>8, <1>9, <2>3, <3>1
    <3>3. ASSUME NEW s \in Requests, Done(<<s, i>>)
          PROVE  createdAt[<<s, i>>] <= createdAt[<<q, i>>]
      BY <1>6, <1>8, <1>9, <2>3, <3>1, <3>2, <3>3
    <3>4. backup[i] = content[<<q, i>>] BY <3>2, <3>3 DEF TurnInv
    <3> QED BY <1>1, <1>6, <3>2, <3>4
  <2> QED BY <2>1, <2>2, <2>3 DEF TurnInv
<1> QED BY <1>11, <1>12

(* While the one worker records nothing SYNCED, what is done and what      *)
(* waits can be read off the statuses.                                     *)
LEMMA SoloDone ==
  ASSUME OneWorker, NEW p \in Processes
  PROVE  /\ \A f : Done(f) <=> status[f] = "SYNCED" \/ (step[p] = "synced" /\ working[p] = f)
         /\ \A f : Done(f)' <=> status'[f] = "SYNCED" \/ (step'[p] = "synced" /\ working'[p] = f)
         /\ \A f : Waiting(f) <=> Counts(f) /\ (status[f] = "PENDING"
                                                 \/ (step[p] = "apply" /\ working[p] = f))
         /\ \A f : Waiting(f)' <=> Counts(f)' /\ (status'[f] = "PENDING"
                                                   \/ (step'[p] = "apply" /\ working'[p] = f))
BY DEF OneWorker, Done, Waiting

(* A new batch takes the oldest of all that waits.                         *)
LEMMA TurnFetch ==
  ASSUME OneWorker, TypeOK, OrderInv, BatchInv, TurnInv, NEW p \in Processes, Fetch(p)
  PROVE  BatchInv' /\ TurnInv'
<1> USE DEF TypeOK, Busy, OneWorker
<1>1. /\ step[p] = "idle" /\ step' = [step EXCEPT ![p] = "claim"]
      /\ batch' = [batch EXCEPT ![p] = Oldest(Due, BatchSize)]
      /\ UNCHANGED <<status, content, createdAt, due, backup, working>>
  BY DEF Fetch, outboxVars
<1>2. /\ \A f : Done(f)' <=> Done(f)
      /\ \A f : Waiting(f)' <=> Waiting(f)
  BY <1>1, SoloDone DEF Counts, Broken
<1>3. TurnInv' BY <1>1, <1>2 DEF TurnInv, Older, Counts, Broken
<1>4. Due \subseteq Inserted BY DEF Due, Inserted, Open
<1>5. ASSUME NEW g \in batch'[p], NEW f \in Events, status'[f] = "PENDING", f \notin batch'[p]
      PROVE  Older(g, f)'
  <2>1. g \in Oldest(Due, BatchSize) /\ f \notin Oldest(Due, BatchSize) BY <1>1, <1>5
  <2>2. f \in Due BY <1>1, <1>5 DEF BatchInv, Due, Open
  <2>3. Older(g, f) BY <1>4, <2>1, <2>2, OldestAreOlder, ReplicationAssumption
  <2> QED BY <1>1, <2>3 DEF Older
<1>6. BatchInv' BY <1>1, <1>5 DEF BatchInv
<1> QED BY <1>3, <1>6

(* The worker takes the oldest of its batch, thus of all that waits.       *)
LEMMA TurnClaim ==
  ASSUME OneWorker, TypeOK, Healthy, failures = 0, FreshInv, OrderInv, BatchInv, TurnInv,
         NEW p \in Processes, Claim(p)
  PROVE  BatchInv' /\ TurnInv'
<1> USE DEF TypeOK, Busy, OneWorker
<1>1. PICK e \in batch[p] :
        /\ \A f \in batch[p] : ~Older(f, e)
        /\ batch' = [batch EXCEPT ![p] = @ \ {e}]
        /\ \/ /\ Claimable(e)
              /\ status' = [status EXCEPT ![e] = "PROCESSING"]
              /\ due' = due \ {e}
              /\ working' = [working EXCEPT ![p] = e]
              /\ step' = [step EXCEPT ![p] = "apply"]
           \/ /\ ~Claimable(e)
              /\ step' = [step EXCEPT ![p] = StepAfter(batch[p] \ {e})]
              /\ UNCHANGED <<status, due, working>>
  BY DEF Claim
<1>2. /\ step[p] = "claim"
      /\ UNCHANGED <<content, createdAt, backup>>
  BY DEF Claim
<1>3. e \in Events /\ e \in Inserted BY DEF FreshInv, Inserted
<1>4. \A f \in Events : status[f] # "PROCESSING" BY <1>2 DEF BatchInv
<1>5. batch'[p] = batch[p] \ {e} BY <1>1
<1>6. \A f \in Events : status[f] = "PENDING" /\ f # e => Older(e, f)
  <2> SUFFICES ASSUME NEW f \in Events, status[f] = "PENDING", f # e PROVE Older(e, f)
    OBVIOUS
  <2>1. CASE f \in batch[p]
    <3>1. f \in Inserted BY DEF Inserted
    <3>2. createdAt[e] # createdAt[f] BY <1>3, <3>1 DEF OrderInv
    <3>3. ~(createdAt[f] < createdAt[e]) BY <1>1, <2>1 DEF Older
    <3>4. createdAt[e] \in Nat /\ createdAt[f] \in Nat BY <1>3
    <3> QED BY <3>2, <3>3, <3>4, SMTT(30) DEF Older
  <2>2. CASE f \notin batch[p] BY <2>2 DEF BatchInv
  <2> QED BY <2>1, <2>2
<1>7. CASE ~Claimable(e)
  <2>1. /\ UNCHANGED <<status, due, working>>
        /\ step'[p] \in {"idle", "claim"}
    BY <1>1, <1>7 DEF StepAfter
  <2>2. /\ \A f : Done(f)' <=> Done(f)
        /\ \A f : Waiting(f)' <=> Waiting(f)
    BY <1>2, <2>1, SoloDone DEF Counts, Broken
  <2>3. TurnInv' BY <1>2, <2>1, <2>2 DEF TurnInv, Older, Counts, Broken
  <2>4. status[e] # "PENDING" BY <1>7 DEF Claimable, Open
  <2>5. BatchInv' BY <1>2, <1>4, <1>5, <2>1, <2>4 DEF BatchInv, Older
  <2> QED BY <2>3, <2>5
<1>8. CASE Claimable(e)
  <2>1. /\ status' = [status EXCEPT ![e] = "PROCESSING"]
        /\ due' = due \ {e}
        /\ working'[p] = e /\ step'[p] = "apply"
    BY <1>1, <1>8
  <2>2. /\ status'[e] = "PROCESSING"
        /\ \A f \in Events : f # e => status'[f] = status[f]
    BY <1>3, <2>1
  <2>3. status[e] \in {"PENDING", "FAILED"} BY <1>3, <1>4, <1>8 DEF Claimable, Open
  <2>4. Counts(e) => Waiting(e)
    BY <1>3, <2>3 DEF Waiting, Counts, Healthy, RedeliveryNeverFails, Broken
  <2>5. \A f \in Events : Done(f)' <=> Done(f)
    BY <1>2, <2>1, <2>2, <2>3, SoloDone
  <2>6. \A f \in Events : Waiting(f)' => Waiting(f)
    BY <1>2, <2>1, <2>2, <2>4, SoloDone DEF Counts, Broken
  <2>7. BatchInv'
    <3>1. \A f \in Events : status'[f] = "PENDING" => f \in due'
      BY <2>1, <2>2 DEF BatchInv
    <3>2. \A f \in Events : status'[f] = "PROCESSING" =>
            \E q \in Processes : step'[q] \in Busy /\ working'[q] = f
      BY <1>4, <2>1, <2>2
    <3>3. \A g \in batch'[p] : \A f \in Events :
            status'[f] = "PENDING" /\ f \notin batch'[p] => Older(g, f)'
      BY <1>2, <1>5, <2>2 DEF BatchInv, Older
    <3> QED BY <3>1, <3>2, <3>3 DEF BatchInv
  <2>8. TurnInv'
    <3>1. \A f \in Events : status'[f] = "PENDING" => Older(working[p], f)'
      BY <1>2, <1>6, <2>1, <2>2 DEF Older
    <3>2. \A g, f \in Events : g[2] \notin Users /\ Done(g)' /\ Waiting(f)' => Older(g, f)'
      BY <1>2, <2>5, <2>6 DEF TurnInv, Older
    <3>3. ASSUME NEW i \in Ids \ Users, NEW q \in Requests, Done(<<q, i>>)',
                 \A s \in Requests : Done(<<s, i>>)' =>
                   createdAt'[<<s, i>>] <= createdAt'[<<q, i>>]
          PROVE  backup'[i] = content'[<<q, i>>]
      <4>1. \A s \in Requests : <<s, i>> \in Events BY DEF Events
      <4> QED BY <1>2, <2>5, <3>3, <4>1 DEF TurnInv
    <3> QED BY <3>1, <3>2, <3>3 DEF TurnInv
  <2> QED BY <2>7, <2>8
<1> QED BY <1>7, <1>8

(* What is applied becomes the newest of all that was applied; of a User   *)
(* that matters to no other row.                                           *)
LEMMA TurnApply ==
  ASSUME OneWorker, TypeOK, WorkInv, SoloInv, BatchInv, TurnInv,
         Calm, Calm', NEW p \in Processes, Apply(p) \/ UpdateUser(p)
  PROVE  BatchInv' /\ TurnInv'
<1> USE DEF TypeOK, Busy, OneWorker
<1> DEFINE w == working[p]
<1>1. /\ step[p] \in {"apply", "update"} /\ w \in Events /\ status[w] = "PROCESSING"
      /\ step[p] = "update" => w[2] \in Users
      /\ UNCHANGED <<status, content, createdAt, due, batch, working>>
  BY DEF Apply, UpdateUser, WorkInv, IsUser, SoloInv, outboxVars
<1>2. /\ step'[p] \in {"update", "synced", "unsynced"}
      /\ backup' \in {backup, Applied(w)}
      /\ w[2] \notin Users =>
           \/ ~Counts(w) /\ step'[p] = "unsynced" /\ backup' = backup
           \/ Counts(w) /\ step'[p] = "synced" /\ backup' = Applied(w)
  <2>1. failures' = failures BY DEF Calm
  <2>2. CASE Apply(p)
    <3>1. \/ ApplySucceeds(w) /\ step'[p] = "synced"
          \/ FindsUser(w) /\ step'[p] = "update"
          \/ ApplyFails(w) /\ step'[p] = "unsynced"
      BY <2>2 DEF Apply
    <3> QED BY <2>1, <3>1 DEF ApplySucceeds, FindsUser, ApplyFails, Counts, IsUser
  <2>3. CASE UpdateUser(p)
    BY <1>1, <2>1, <2>3 DEF UpdateUser, UpdateSucceeds, UpdateFails
  <2> QED BY <2>2, <2>3
<1>3. BatchInv' BY <1>1, <1>2 DEF BatchInv, Older
<1>4. \A r \in Processes : step'[r] # "apply" BY <1>2
<1>5. \A f : Waiting(f)' => Waiting(f) /\ status[f] = "PENDING" /\ Counts(f)
  BY <1>1, <1>2, SoloDone DEF Counts, Broken
<1>6. \A f : f # w => (Done(f)' <=> Done(f))
  BY <1>1, <1>2, SoloDone
<1>7. ASSUME NEW g \in Events, NEW f \in Events, g[2] \notin Users, Done(g)', Waiting(f)'
      PROVE  Older(g, f)'
  <2>1. CASE g # w BY <1>1, <1>5, <1>6, <1>7, <2>1 DEF TurnInv, Older
  <2>2. CASE g = w
    <3>1. step'[p] = "synced" \/ status'[w] = "SYNCED"
      BY <1>7, <2>2, SoloDone
    <3>2. Counts(w) /\ step[p] = "apply" BY <1>1, <1>2, <1>7, <2>2, <3>1
    <3> QED BY <1>1, <1>5, <1>7, <2>2, <3>2 DEF TurnInv, Older
  <2> QED BY <2>1, <2>2
<1>8. ASSUME NEW i \in Ids \ Users, NEW q \in Requests, Done(<<q, i>>)',
             \A s \in Requests : Done(<<s, i>>)' =>
               createdAt'[<<s, i>>] <= createdAt'[<<q, i>>]
      PROVE  backup'[i] = content'[<<q, i>>]
  <2>1. \A s \in Requests : <<s, i>> \in Events BY DEF Events
  <2>2. PICK s \in Requests, j \in Ids : w = <<s, j>> BY <1>1 DEF Events
  <2>3. CASE i = j
    <3>1. w[2] \notin Users BY <2>2, <2>3
    <3>2. CASE Counts(w) /\ step'[p] = "synced" /\ backup' = Applied(w)
      <4>1. Done(w)' BY <1>1, <3>2, SoloDone
      <4>4. backup'[i] = content[w]
        <5>1. w[2] = i /\ i \in Ids BY <2>2, <2>3
        <5> QED BY <3>2, <5>1 DEF Applied
      <4>5. w = <<s, i>> BY <2>2, <2>3
      <4>2. CASE w = <<q, i>> BY <1>1, <4>2, <4>4
      <4>3. CASE w # <<q, i>>
        <5>1. Done(<<q, i>>) /\ Waiting(w)
          BY <1>1, <1>6, <1>8, <3>1, <3>2, <4>3, SoloDone
        <5>2. createdAt[<<q, i>>] < createdAt[w]
          BY <1>1, <2>1, <5>1 DEF TurnInv, Older
        <5>3. createdAt'[w] <= createdAt'[<<q, i>>]
          <6>1. Done(<<s, i>>)' BY <1>1, <2>1, <3>2, <4>5, SoloDone
          <6>2. createdAt'[<<s, i>>] <= createdAt'[<<q, i>>] BY <1>8, <6>1
          <6> QED BY <4>5, <6>2
        <5> QED BY <1>1, <2>1, <5>2, <5>3
      <4> QED BY <4>2, <4>3
    <3>3. CASE ~Counts(w) /\ step'[p] = "unsynced" /\ backup' = backup
      <4>1. \A f : Done(f)' <=> Done(f) BY <1>1, <3>3, SoloDone
      <4> QED BY <1>1, <1>8, <3>3, <4>1 DEF TurnInv
    <3> QED BY <1>2, <3>1, <3>2, <3>3
  <2>4. CASE i # j
    <3>1. backup'[i] = backup[i] BY <1>2, <2>2, <2>4 DEF Applied
    <3>2. \A t \in Requests : <<t, i>> # w BY <2>2, <2>4
    <3>3. \A t \in Requests : Done(<<t, i>>)' <=> Done(<<t, i>>) BY <1>6, <3>2
    <3> QED BY <1>1, <1>8, <3>1, <3>3 DEF TurnInv
  <2> QED BY <2>3, <2>4
<1> QED BY <1>3, <1>4, <1>7, <1>8 DEF TurnInv

(* An outcome that is recorded leaves nothing in hand.                     *)
LEMMA TurnRecord ==
  ASSUME OneWorker, TypeOK, WorkInv, SoloInv, BatchInv, TurnInv,
         NEW p \in Processes, markSynced(p) \/ markFailed(p)
  PROVE  BatchInv' /\ TurnInv'
<1> USE DEF TypeOK, Busy, OneWorker
<1> DEFINE w == working[p]
<1>1. /\ step[p] \in {"synced", "unsynced"} /\ w \in Events /\ status[w] = "PROCESSING"
      /\ step'[p] \in {"idle", "claim"}
      /\ status' = [status EXCEPT ![w] = status'[w]]
      /\ status'[w] \in {"SYNCED", "FAILED", "DEAD_LETTER"}
      /\ status'[w] = "SYNCED" <=> step[p] = "synced"
      /\ due \ {w} \subseteq due'
      /\ UNCHANGED <<content, createdAt, batch, backup>>
  BY DEF markSynced, markFailed, WorkInv, SoloInv, StepAfter
<1>2. \A f \in Events : f # w => status'[f] = status[f] BY <1>1
<1>3. \A f \in Events : Done(f)' <=> Done(f)
  BY <1>1, <1>2, SoloDone
<1>4. \A f \in Events : Waiting(f)' => Waiting(f)
  BY <1>1, <1>2, SoloDone DEF Counts, Broken
<1>5. \A f \in Events : status'[f] = "PENDING" => status[f] = "PENDING" /\ f \in due'
  BY <1>1, <1>2 DEF BatchInv
<1>6. \A f \in Events : status'[f] # "PROCESSING"
  BY <1>1, <1>2 DEF BatchInv
<1>7. BatchInv' BY <1>1, <1>5, <1>6 DEF BatchInv, Older
<1>8. TurnInv'
  <2>1. \A q \in Processes : step'[q] # "apply" BY <1>1
  <2>2. \A g, f \in Events : g[2] \notin Users /\ Done(g)' /\ Waiting(f)' => Older(g, f)'
    BY <1>1, <1>3, <1>4 DEF TurnInv, Older
  <2>3. ASSUME NEW i \in Ids \ Users, NEW q \in Requests, Done(<<q, i>>)',
               \A s \in Requests : Done(<<s, i>>)' =>
                 createdAt'[<<s, i>>] <= createdAt'[<<q, i>>]
        PROVE  backup'[i] = content'[<<q, i>>]
    <3>1. \A s \in Requests : <<s, i>> \in Events BY DEF Events
    <3> QED BY <1>1, <1>3, <2>3, <3>1 DEF TurnInv
  <2> QED BY <2>1, <2>2, <2>3 DEF TurnInv
<1> QED BY <1>7, <1>8

LEMMA TurnsStep ==
  ASSUME OneWorker, ~Strict, IInv, SoloInv, HealthyInv, OrderInv, TurnsKept,
         [Next]_vars
  PROVE  TurnsKept'
<1> SUFFICES ASSUME Calm' PROVE BatchInv' /\ TurnInv' BY DEF TurnsKept
<1>1. Calm /\ failures = 0 /\ crashes = 0 BY CalmBefore DEF IInv, Calm
<1>2. BatchInv /\ TurnInv /\ Healthy BY <1>1 DEF TurnsKept, HealthyInv, Calm
<1>3. failures' = 0 /\ crashes' = 0 BY DEF Calm
<1> USE DEF IInv
<1>4. ASSUME NEW r \in Requests, Request(r) \/ RequestDies(r) PROVE BatchInv' /\ TurnInv'
  <2>1. CASE Persist(r) BY <1>2, <2>1, TurnInsert
  <2>2. CASE ~Persist(r)
    <3>1. stage[r] \notin Busy /\ ~RequestDies(r) BY <1>1, <1>3 DEF SoloInv, RequestDies
    <3>2. UNCHANGED <<outboxVars, workerVars, backup>>
      BY <1>4, <2>2, <3>1 DEF Request, ReadBefore, Write, WriteRefused, BuildCandidate,
         TransactionTimesOut, Commit, StrictApply, StrictUpdateUser, StrictSynced, StrictFailed, Busy
    <3> QED BY <1>2, <3>2, TurnFrame DEF outboxVars, workerVars
  <2> QED BY <2>1, <2>2
<1>5. ASSUME NEW p \in Processes, Worker(p) \/ WorkerDies(p) PROVE BatchInv' /\ TurnInv'
  <2>1. ~MarkSyncedFails(p) /\ ~WorkerDies(p) BY <1>1, <1>3 DEF MarkSyncedFails, WorkerDies
  <2>2. CASE Fetch(p) BY <1>2, <2>2, TurnFetch
  <2>3. CASE Claim(p) BY <1>1, <1>2, <2>3, TurnClaim
  <2>4. CASE Apply(p) \/ UpdateUser(p) BY <1>1, <1>2, <2>4, TurnApply
  <2>5. CASE markSynced(p) \/ markFailed(p) BY <1>2, <2>5, TurnRecord
  <2> QED BY <1>5, <2>1, <2>2, <2>3, <2>4, <2>5 DEF Worker
<1>6. ASSUME NEW e \in Events, TimePasses(e) PROVE BatchInv' /\ TurnInv'
  BY <1>2, <1>6, TurnFrame DEF TimePasses, workerVars
<1>7. CASE UNCHANGED vars
  BY <1>2, <1>7, TurnFrame DEF vars, outboxVars, workerVars
<1> QED BY <1>4, <1>5, <1>6, <1>7 DEF Next

(* What has been applied of a row is older than what is not SYNCED yet, so *)
(* once all of it is SYNCED, the newest is what the backup shows.          *)
LEMMA TurnsFollow ==
  ASSUME TypeOK, OneWorker, SoloInv, TurnsKept
  PROVE  BackupFollowsOutbox
<1> SUFFICES ASSUME NEW i \in Ids \ Users, NEW r \in Requests,
                    failures = 0, crashes = 0, status[<<r, i>>] = "SYNCED",
                    \A q \in Requests : /\ status[<<q, i>>] \in {"NONE", "SYNCED"}
                                        /\ createdAt[<<q, i>>] <= createdAt[<<r, i>>]
             PROVE  backup[i] = content[<<r, i>>]
  BY DEF BackupFollowsOutbox
<1>1. TurnInv BY DEF TurnsKept, Calm
<1>2. Done(<<r, i>>) BY DEF Done
<1> QED BY <1>1, <1>2 DEF TurnInv

(* One worker that neither fails nor dies brings the rows of the outbox to *)
(* the backup in the order they were inserted in, whatever the size of a   *)
(* batch and however often events without a payload are retried in between *)
(* (processPendingBatch, orderBy createdAt).                               *)
THEOREM BackupInOrder ==
  ASSUME OneWorker, ~Strict
  PROVE  Spec => []BackupFollowsOutbox
<1>1. Init => SoloInv BY DEF Init, SoloInv, Busy
<1>2. Init => HealthyInv BY DEF Init, HealthyInv, Healthy, MayFail, RedeliveryNeverFails
<1>3. Init => OrderInv BY DEF Init, OrderInv, Inserted
<1>4. Init => TurnsKept
  BY DEF Init, TurnsKept, BatchInv, TurnInv, Done, Waiting, Busy, Events
<1>5. IInv /\ SoloInv /\ [Next]_vars => SoloInv' BY SoloStep
<1>6. IInv /\ HealthyInv /\ [Next]_vars => HealthyInv' BY HealthyStep
<1>7. IInv /\ OrderInv /\ [Next]_vars => OrderInv' BY OrderKept DEF IInv
<1>8. IInv /\ SoloInv /\ HealthyInv /\ OrderInv /\ TurnsKept /\ [Next]_vars
        => TurnsKept'
  BY TurnsStep
<1>9. IInv /\ SoloInv /\ TurnsKept => BackupFollowsOutbox BY TurnsFollow DEF IInv
<1> QED BY <1>1, <1>2, <1>3, <1>4, <1>5, <1>6, <1>7, <1>8, <1>9, ReplicationInvariant, PTL DEF Spec
=============================================================================
