---------------------------- MODULE MessageOutbox ----------------------------
(***************************************************************************)
(* The durable outbound queue: one message_dispatch_outbox row per draft    *)
(* message, drained by the outbox worker's polling loop                     *)
(* (processMessageOutbox.ts) and, for one row at a time, by API requests    *)
(* (immediate dispatch, the agent's retry button, the operator's "process   *)
(* now").  Every database transaction and the HTTP call to the connector    *)
(* are steps of their own, so a claim may outlive its holder, and a result  *)
(* may come back after the row has been reset and claimed again: nothing    *)
(* in markDispatched or markFailed checks that the caller still owns it.    *)
(*                                                                         *)
(* A send is identified by the attempt it was made under: wire[m] holds the *)
(* attempts of m whose copy WhatsApp accepted, and the external message id  *)
(* WhatsApp gave the copy of attempt k is k itself.                         *)
(*                                                                         *)
(* The conversation summary, the inbox projection and the status-event log  *)
(* the same transactions append to are derived data no guard reads and are  *)
(* left out, like the campaign recipient they update, which belongs to the  *)
(* campaign component.                                                     *)
(***************************************************************************)
EXTENDS Naturals, FiniteSets, AckStatus

CONSTANTS
  Messages,      \* draft messages, each with at most one outbox row
  Workers,       \* outbox worker processes: they run processPendingBatch
  Callers,       \* API requests: they run drainOne on one row
  AccountOf,     \* the WhatsApp account a message is sent from
  AutoReplies,   \* messages whose payload carries an auto-reply context
  Legacy,        \* drafts that have no outbox row to begin with
  Unaddressed,   \* legacy drafts whose external_chat_id is null
  MaxRetries,    \* MESSAGE_OUTBOX_WORKER_MAX_RETRIES
  BatchSize,     \* MESSAGE_OUTBOX_WORKER_BATCH_SIZE
  MaxRequeues,   \* bound: how often operators requeue rows
  NoMessage

Actors == Workers \cup Callers

ASSUME OutboxAssumption ==
  /\ MaxRetries \in Nat \ {0}
  /\ BatchSize \in Nat \ {0}
  /\ MaxRequeues \in Nat
  /\ AutoReplies \subseteq Messages
  /\ Legacy \subseteq Messages
  /\ Unaddressed \subseteq Legacy
  /\ NoMessage \notin Messages
  /\ Workers \cap Callers = {}
  /\ IsFiniteSet(Actors)

VARIABLES
  \* message_dispatch_outbox
  status,        \* processing_status, "none" without a row
  attempts,      \* attempt_count
  nextAttempt,   \* next_attempt_at: null, in the future or past
  lastError,     \* last_error is not null
  stale,         \* claimed_at is older than STALE_AFTER_MS
  \* messages
  ack,           \* ack_status
  failedAt,      \* failed_at is not null
  extId,         \* the attempt whose id the row carries, 0 for 'queued:<uuid>'
  deleted,       \* is_deleted
  \* the process memory of workers and API requests
  pc,            \* where the actor is in processPendingBatch or drainOne
  todo,          \* rows its last listing returned and it has not treated yet
  held,          \* attempt under which it claimed a row, 0 if it did not
  cur,           \* the claimed row processJob is working on
  failure,       \* the classified error processJob caught
  \* the environment
  replied,       \* auto replies another outgoing message has made obsolete
  wire,          \* attempts whose copy WhatsApp accepted
  copies,        \* number of copies WhatsApp accepted
  requeues       \* operator requeues so far

rowVars == <<status, attempts, nextAttempt, lastError, stale>>
msgVars == <<ack, failedAt, extId, deleted>>
actorVars == <<pc, todo, held, cur, failure>>
envVars == <<replied, wire, copies, requeues>>
vars == <<rowVars, msgVars, actorVars, envVars>>

RowStatuses == {"none", "pending", "processing", "dispatched", "failed"}
Phases == {"idle", "list drafts", "repair", "finalize", "claim", "run",
           "skip", "send", "sent", "caught"}

\* How processJob classifies an error: the sender account is unusable, the
\* session is up but not fully connected, or anything else.
FailureClasses == {"sender", "session", "other"}

TypeOK ==
  /\ status \in [Messages -> RowStatuses]
  /\ attempts \in [Messages -> 0..MaxRetries]
  /\ nextAttempt \in [Messages -> {"null", "future", "past"}]
  /\ lastError \in [Messages -> BOOLEAN]
  /\ stale \in [Messages -> BOOLEAN]
  /\ ack \in [Messages -> AckStatuses]
  /\ failedAt \in [Messages -> BOOLEAN]
  /\ extId \in [Messages -> 0..MaxRetries]
  /\ deleted \in [Messages -> BOOLEAN]
  /\ pc \in [Actors -> Phases]
  /\ todo \in [Actors -> SUBSET Messages]
  /\ held \in [Actors -> [Messages -> 0..MaxRetries]]
  /\ cur \in [Actors -> Messages \cup {NoMessage}]
  /\ failure \in [Actors -> FailureClasses \cup {"none"}]
  /\ replied \subseteq AutoReplies
  /\ wire \in [Messages -> SUBSET (1..MaxRetries)]
  /\ copies \in [Messages -> Nat]
  /\ requeues \in 0..MaxRequeues

Holds(a) == {m \in Messages : held[a][m] # 0}
HoldsNothing == [m \in Messages |-> 0]

-----------------------------------------------------------------------------
(***************************************************************************)
(* Rows and drafts as sendMessage's transaction leaves them: the draft and  *)
(* its outbox row are inserted together.  Legacy drafts are the ones that   *)
(* were stored before the outbox existed or whose row was deleted.          *)
(***************************************************************************)
Init ==
  /\ status = [m \in Messages |-> IF m \in Legacy THEN "none" ELSE "pending"]
  /\ attempts = [m \in Messages |-> 0]
  /\ nextAttempt = [m \in Messages |-> "null"]
  /\ lastError = [m \in Messages |-> FALSE]
  /\ stale = [m \in Messages |-> FALSE]
  /\ ack = [m \in Messages |-> "pending"]
  /\ failedAt = [m \in Messages |-> FALSE]
  /\ extId = [m \in Messages |-> 0]
  /\ deleted = [m \in Messages |-> FALSE]
  /\ pc = [a \in Actors |-> "idle"]
  /\ todo = [a \in Actors |-> {}]
  /\ held = [a \in Actors |-> HoldsNothing]
  /\ cur = [a \in Actors |-> NoMessage]
  /\ failure = [a \in Actors |-> "none"]
  /\ replied = {}
  /\ wire = [m \in Messages |-> {}]
  /\ copies = [m \in Messages |-> 0]
  /\ requeues = 0

-----------------------------------------------------------------------------
(***************************************************************************)
(* The effects of the repositories' statements on one row.                  *)
(***************************************************************************)
IsDue(m) ==
  /\ status[m] \in {"pending", "failed"}
  /\ attempts[m] < MaxRetries
  /\ nextAttempt[m] # "future"

\* Mutant of IsExhaustedOpen: only rows that failed are looked for, so that one
\* whose last attempt ended in a crash is not.
IsExhaustedOpen_FailedOnly(m) ==
  /\ status[m] = "failed"
  /\ attempts[m] >= MaxRetries
  /\ ~lastError[m] \/ nextAttempt[m] # "null"

IsExhaustedOpen(m) ==
  /\ status[m] \in {"pending", "failed"}
  /\ attempts[m] >= MaxRetries
  /\ status[m] # "failed" \/ ~lastError[m] \/ nextAttempt[m] # "null"

IsRepairableDraft(m) ==
  /\ status[m] = "none"
  /\ ack[m] = "pending"
  /\ ~deleted[m]
  /\ extId[m] = 0

\* Mutant of ClaimById: the attempt is counted when it fails, not when it starts.
ClaimById_Uncounted(a, m) ==
  /\ IsDue(m)
  /\ status' = [status EXCEPT ![m] = "processing"]
  /\ stale' = [stale EXCEPT ![m] = FALSE]
  /\ held' = [held EXCEPT ![a][m] = attempts[m] + 1]
  /\ UNCHANGED <<attempts, nextAttempt, lastError>>

\* Mutant of ClaimById: the update does not repeat the listing's condition.
ClaimById_Unconditional(a, m) ==
  /\ status[m] # "none"
  /\ status' = [status EXCEPT ![m] = "processing"]
  /\ attempts' = [attempts EXCEPT ![m] = @ + 1]
  /\ stale' = [stale EXCEPT ![m] = FALSE]
  /\ held' = [held EXCEPT ![a][m] = attempts[m] + 1]
  /\ UNCHANGED <<nextAttempt, lastError>>

\* claimById: the guard is evaluated in the same statement as the update.
ClaimById(a, m) ==
  /\ IsDue(m)
  /\ status' = [status EXCEPT ![m] = "processing"]
  /\ attempts' = [attempts EXCEPT ![m] = @ + 1]
  /\ stale' = [stale EXCEPT ![m] = FALSE]
  /\ held' = [held EXCEPT ![a][m] = attempts[m] + 1]
  /\ UNCHANGED <<nextAttempt, lastError>>

MarkDispatched(m) ==
  /\ status' = [status EXCEPT ![m] = "dispatched"]
  /\ lastError' = [lastError EXCEPT ![m] = FALSE]
  /\ stale' = [stale EXCEPT ![m] = FALSE]
  /\ UNCHANGED <<attempts, nextAttempt>>

MarkFailed(m, next) ==
  /\ status' = [status EXCEPT ![m] = "failed"]
  /\ lastError' = [lastError EXCEPT ![m] = TRUE]
  /\ nextAttempt' = [nextAttempt EXCEPT ![m] = next]
  /\ stale' = [stale EXCEPT ![m] = FALSE]
  /\ UNCHANGED attempts

UpdateAckStatus(m, next) ==
  /\ ack' = [ack EXCEPT ![m] = UpdatedAck(@, next)]
  /\ failedAt' = [failedAt EXCEPT ![m] = UpdatedFailedAt(next)]

\* A draft without a row gets one, unless another process was faster; one
\* without a recipient fails.
EnqueuePendingDraftRepair(m) ==
  \/ /\ m \notin Unaddressed
     /\ status' = [status EXCEPT ![m] = IF @ = "none" THEN "pending" ELSE @]
     /\ UNCHANGED <<ack, failedAt>>
  \/ /\ m \in Unaddressed
     /\ UpdateAckStatus(m, "failed")
     /\ UNCHANGED status

Goto(a, phase) == pc' = [pc EXCEPT ![a] = phase]

\* processJob returns: the actor lets go of the row and takes the next one.
FinishJob(a) ==
  /\ Goto(a, "run")
  /\ held' = [held EXCEPT ![a][cur[a]] = 0]
  /\ cur' = [cur EXCEPT ![a] = NoMessage]

-----------------------------------------------------------------------------
(***************************************************************************)
(* The worker's processPendingBatch, one transaction at a time.             *)
(***************************************************************************)

\* Mutant of ResetStaleProcessing: a reset gives the attempts back.
ResetStaleProcessing_Refunds(a) ==
  LET reset == {m \in Messages : status[m] = "processing" /\ stale[m]}
  IN  /\ a \in Workers
      /\ pc[a] = "idle"
      /\ status' = [m \in Messages |-> IF m \in reset THEN "pending" ELSE status[m]]
      /\ stale' = [m \in Messages |-> IF m \in reset THEN FALSE ELSE stale[m]]
      /\ attempts' = [m \in Messages |-> IF m \in reset THEN 0 ELSE attempts[m]]
      /\ Goto(a, "list drafts")
      /\ UNCHANGED <<nextAttempt, lastError, msgVars, todo, held, cur, failure, envVars>>

\* Every processing row whose claim is old goes back to pending, whoever
\* holds it.
ResetStaleProcessing(a) ==
  LET reset == {m \in Messages : status[m] = "processing" /\ stale[m]}
  IN  /\ a \in Workers
      /\ pc[a] = "idle"
      /\ status' = [m \in Messages |-> IF m \in reset THEN "pending" ELSE status[m]]
      /\ stale' = [m \in Messages |-> IF m \in reset THEN FALSE ELSE stale[m]]
      /\ Goto(a, "list drafts")
      /\ UNCHANGED <<attempts, nextAttempt, lastError, msgVars, todo, held, cur,
                     failure, envVars>>

ListRepairableDrafts(a) ==
  /\ pc[a] = "list drafts"
  /\ todo' = [todo EXCEPT ![a] = {m \in Messages : IsRepairableDraft(m)}]
  /\ Goto(a, "repair")
  /\ UNCHANGED <<rowVars, msgVars, held, cur, failure, envVars>>

RepairListedDraft(a, m) ==
  /\ pc[a] = "repair"
  /\ m \in todo[a]
  /\ todo' = [todo EXCEPT ![a] = @ \ {m}]
  /\ EnqueuePendingDraftRepair(m)
  /\ UNCHANGED <<attempts, nextAttempt, lastError, stale, extId, deleted, pc,
                 held, cur, failure, envVars>>

ListExhaustedOpenJobs(a) ==
  /\ pc[a] = "repair"
  /\ todo[a] = {}
  /\ todo' = [todo EXCEPT ![a] = {m \in Messages : IsExhaustedOpen(m)}]
  /\ Goto(a, "finalize")
  /\ UNCHANGED <<rowVars, msgVars, held, cur, failure, envVars>>

\* One transaction per listed row, which is not looked at again.
FinalizeExhaustedJob(a, m) ==
  /\ pc[a] = "finalize"
  /\ m \in todo[a]
  /\ todo' = [todo EXCEPT ![a] = @ \ {m}]
  /\ UpdateAckStatus(m, "failed")
  /\ MarkFailed(m, "null")
  /\ UNCHANGED <<extId, deleted, pc, held, cur, failure, envVars>>

ListDueJobs(a) ==
  /\ pc[a] = "finalize"
  /\ todo[a] = {}
  /\ todo' = [todo EXCEPT ![a] = {m \in Messages : IsDue(m)}]
  /\ Goto(a, "claim")
  /\ UNCHANGED <<rowVars, msgVars, held, cur, failure, envVars>>

\* A full batch, or a second row of an account already in it, is passed over.
CanJoinBatch(a, m) ==
  /\ Cardinality(Holds(a)) < BatchSize
  /\ \A n \in Holds(a) : AccountOf[n] # AccountOf[m]

ClaimListedJob(a, m) ==
  /\ pc[a] = "claim"
  /\ m \in todo[a]
  /\ todo' = [todo EXCEPT ![a] = @ \ {m}]
  /\ \/ CanJoinBatch(a, m) /\ ClaimById(a, m)
     \/ ~(CanJoinBatch(a, m) /\ IsDue(m)) /\ UNCHANGED <<rowVars, held>>
  /\ UNCHANGED <<msgVars, pc, cur, failure, envVars>>

StartBatch(a) ==
  /\ pc[a] = "claim"
  /\ todo[a] = {}
  /\ Goto(a, "run")
  /\ UNCHANGED <<rowVars, msgVars, todo, held, cur, failure, envVars>>

\* The batch is done, or the API request has its answer.
EndBatch(a) ==
  /\ pc[a] = "run"
  /\ Holds(a) = {}
  /\ Goto(a, "idle")
  /\ UNCHANGED <<rowVars, msgVars, todo, held, cur, failure, envVars>>

\* drainOne: an API request claims one row it knows by id, or gives up.
DrainOne(a, m) ==
  /\ a \in Callers
  /\ pc[a] = "idle"
  /\ ClaimById(a, m)
  /\ Goto(a, "run")
  /\ UNCHANGED <<msgVars, todo, cur, failure, envVars>>

\* retryMessage on a draft that has no row: it is repaired, then drained like
\* any other.
RetryOrphanedDraft(a, m) ==
  /\ a \in Callers
  /\ pc[a] = "idle"
  /\ IsRepairableDraft(m)
  /\ EnqueuePendingDraftRepair(m)
  /\ UNCHANGED <<attempts, nextAttempt, lastError, stale, extId, deleted,
                 actorVars, envVars>>

-----------------------------------------------------------------------------
(***************************************************************************)
(* processJob on a claimed row.                                            *)
(***************************************************************************)

\* shouldSkipAutoReply: read outside any transaction, acted on later.
StartJob(a, m) ==
  /\ pc[a] = "run"
  /\ held[a][m] # 0
  /\ cur' = [cur EXCEPT ![a] = m]
  /\ Goto(a, IF m \in replied THEN "skip" ELSE "send")
  /\ UNCHANGED <<rowVars, msgVars, todo, held, failure, envVars>>

\* The transaction that drops an auto reply a human has made obsolete.
SkipAutoReply(a) ==
  /\ pc[a] = "skip"
  /\ UpdateAckStatus(cur[a], "failed")
  /\ deleted' = [deleted EXCEPT ![cur[a]] = TRUE]
  /\ MarkDispatched(cur[a])
  /\ FinishJob(a)
  /\ UNCHANGED <<extId, todo, failure, envVars>>

PutOnWire(a) ==
  /\ wire' = [wire EXCEPT ![cur[a]] = @ \cup {held[a][cur[a]]}]
  /\ copies' = [copies EXCEPT ![cur[a]] = @ + 1]
  /\ UNCHANGED <<replied, requeues>>

\* The connector answers with the id WhatsApp gave the message.
ConnectorAccepts(a) ==
  /\ pc[a] = "send"
  /\ PutOnWire(a)
  /\ Goto(a, "sent")
  /\ UNCHANGED <<rowVars, msgVars, todo, held, cur, failure>>

\* Mutant of ConnectorRejects: the response's status code is not looked at.
ConnectorRejects_ReadAsAnswer(a, class) ==
  /\ pc[a] = "send"
  /\ Goto(a, "sent")
  /\ UNCHANGED <<rowVars, msgVars, todo, held, cur, failure, envVars>>

\* The connector refuses, or cannot be reached.
ConnectorRejects(a, class) ==
  /\ pc[a] = "send"
  /\ failure' = [failure EXCEPT ![a] = class]
  /\ Goto(a, "caught")
  /\ UNCHANGED <<rowVars, msgVars, todo, held, cur, envVars>>

\* The message is sent but its answer is lost, or is an error.
ConnectorAnswerLost(a) ==
  /\ pc[a] = "send"
  /\ PutOnWire(a)
  /\ failure' = [failure EXCEPT ![a] = "other"]
  /\ Goto(a, "caught")
  /\ UNCHANGED <<rowVars, msgVars, todo, held, cur>>

\* Mutant of CommitDispatch: the message row keeps its 'queued:' id.
CommitDispatch_Unlinked(a) ==
  LET m == cur[a]
  IN  /\ pc[a] = "sent"
      /\ UpdateAckStatus(m, "server_ack")
      /\ MarkDispatched(m)
      /\ FinishJob(a)
      /\ UNCHANGED <<extId, deleted, todo, failure, envVars>>

\* The success transaction.
CommitDispatch(a) ==
  LET m == cur[a]
  IN  /\ pc[a] = "sent"
      /\ extId' = [extId EXCEPT ![m] = held[a][m]]
      /\ UpdateAckStatus(m, "server_ack")
      /\ MarkDispatched(m)
      /\ FinishJob(a)
      /\ UNCHANGED <<deleted, todo, failure, envVars>>

\* Either transaction rolls back (a lost connection, a unique violation on the
\* external id): the catch block treats it like a failed send.
TransactionFails(a) ==
  /\ pc[a] \in {"skip", "sent"}
  /\ failure' = [failure EXCEPT ![a] = "other"]
  /\ Goto(a, "caught")
  /\ UNCHANGED <<rowVars, msgVars, todo, held, cur, envVars>>

WillRetry(a) == failure[a] # "sender" /\ held[a][cur[a]] < MaxRetries

\* Mutant of RecordFailure: a session failure keeps the message pending also on
\* the last attempt.
RecordFailure_StaysPending(a) ==
  LET m == cur[a]
  IN  /\ pc[a] = "caught"
      /\ \/ failure[a] = "session" /\ UNCHANGED <<ack, failedAt>>
         \/ failure[a] # "session" /\ UpdateAckStatus(m, "failed")
      /\ MarkFailed(m, IF WillRetry(a) THEN "future" ELSE "null")
      /\ failure' = [failure EXCEPT ![a] = "none"]
      /\ FinishJob(a)
      /\ UNCHANGED <<extId, deleted, todo, envVars>>

\* The catch block's transaction.
RecordFailure(a) ==
  LET m == cur[a]
      keepMessagePending == WillRetry(a) /\ failure[a] = "session"
  IN  /\ pc[a] = "caught"
      /\ \/ keepMessagePending /\ UNCHANGED <<ack, failedAt>>
         \/ ~keepMessagePending /\ UpdateAckStatus(m, "failed")
      /\ MarkFailed(m, IF WillRetry(a) THEN "future" ELSE "null")
      /\ failure' = [failure EXCEPT ![a] = "none"]
      /\ FinishJob(a)
      /\ UNCHANGED <<extId, deleted, todo, envVars>>

\* The process dies, or a transaction outside processJob's try block throws
\* and the batch is abandoned: the rows it holds stay in processing.  (A worker
\* that dies with nothing claimed loses only a listing.)
Crash(a) ==
  /\ Holds(a) # {}
  /\ held' = [held EXCEPT ![a] = HoldsNothing]
  /\ todo' = [todo EXCEPT ![a] = {}]
  /\ cur' = [cur EXCEPT ![a] = NoMessage]
  /\ failure' = [failure EXCEPT ![a] = "none"]
  /\ Goto(a, "idle")
  /\ UNCHANGED <<rowVars, msgVars, envVars>>

-----------------------------------------------------------------------------
(***************************************************************************)
(* Operators, the clock and WhatsApp.                                      *)
(***************************************************************************)
ToPendingNow(m) ==
  /\ status' = [status EXCEPT ![m] = "pending"]
  /\ nextAttempt' = [nextAttempt EXCEPT ![m] = "past"]
  /\ lastError' = [lastError EXCEPT ![m] = FALSE]
  /\ stale' = [stale EXCEPT ![m] = FALSE]
  /\ requeues' = requeues + 1
  /\ UNCHANGED <<attempts, msgVars, actorVars, replied, wire, copies>>

\* platformService.retryOutboundDispatch: any row, whatever its status.
RequeueById(m) ==
  /\ requeues < MaxRequeues
  /\ status[m] # "none"
  /\ ToPendingNow(m)

\* opsCenterService.retryOutboxJob: failed rows and stuck processing rows.
RetryOutboxJob(m) ==
  /\ requeues < MaxRequeues
  /\ status[m] = "failed" \/ (status[m] = "processing" /\ stale[m])
  /\ ToPendingNow(m)

\* A backoff elapses.
BackoffElapses(m) ==
  /\ nextAttempt[m] = "future"
  /\ nextAttempt' = [nextAttempt EXCEPT ![m] = "past"]
  /\ UNCHANGED <<status, attempts, lastError, stale, msgVars, actorVars, envVars>>

\* A claim grows older than STALE_AFTER_MS; its holder may well be alive.
ClaimGrowsStale(m) ==
  /\ status[m] = "processing"
  /\ ~stale[m]
  /\ stale' = [stale EXCEPT ![m] = TRUE]
  /\ UNCHANGED <<status, attempts, nextAttempt, lastError, msgVars, actorVars, envVars>>

\* Another outgoing message appears in the conversation of an auto reply.
HumanReplies(m) ==
  /\ m \in AutoReplies \ replied
  /\ replied' = replied \cup {m}
  /\ UNCHANGED <<rowVars, msgVars, actorVars, wire, copies, requeues>>

\* A delivery receipt for the copy the row is linked to.
ReceiptArrives(m, receipt) ==
  /\ extId[m] # 0
  /\ ShouldApplyStatus(ack[m], receipt)
  /\ UpdateAckStatus(m, receipt)
  /\ UNCHANGED <<rowVars, extId, deleted, actorVars, envVars>>

\* WhatsApp echoes a copy back before the success transaction: ingestion links
\* it to the queued draft and acknowledges the message.
EchoLinksDraft(m, k) ==
  /\ k \in wire[m]
  /\ extId[m] = 0
  /\ ~deleted[m]
  /\ extId' = [extId EXCEPT ![m] = k]
  /\ UpdateAckStatus(m, "server_ack")
  /\ UNCHANGED <<rowVars, deleted, actorVars, envVars>>

-----------------------------------------------------------------------------
WorkerStep(a) ==
  \/ ResetStaleProcessing(a)
  \/ ListRepairableDrafts(a)
  \/ \E m \in Messages : RepairListedDraft(a, m)
  \/ ListExhaustedOpenJobs(a)
  \/ \E m \in Messages : FinalizeExhaustedJob(a, m)
  \/ ListDueJobs(a)
  \/ \E m \in Messages : ClaimListedJob(a, m)
  \/ StartBatch(a)
  \/ EndBatch(a)

JobStep(a) ==
  \/ \E m \in Messages : StartJob(a, m)
  \/ SkipAutoReply(a)
  \/ ConnectorAccepts(a)
  \/ \E class \in FailureClasses : ConnectorRejects(a, class)
  \/ ConnectorAnswerLost(a)
  \/ CommitDispatch(a)
  \/ TransactionFails(a)
  \/ RecordFailure(a)

CallerStep(a) == \E m \in Messages : DrainOne(a, m) \/ RetryOrphanedDraft(a, m)

OperatorStep == \E m \in Messages : RequeueById(m) \/ RetryOutboxJob(m)

ClockStep == \E m \in Messages : BackoffElapses(m) \/ ClaimGrowsStale(m)

WhatsAppStep ==
  \E m \in Messages :
    \/ HumanReplies(m)
    \/ \E receipt \in AckStatuses : ReceiptArrives(m, receipt)
    \/ \E k \in 1..MaxRetries : EchoLinksDraft(m, k)

Next ==
  \/ \E a \in Actors : WorkerStep(a) \/ JobStep(a) \/ CallerStep(a) \/ Crash(a)
  \/ OperatorStep
  \/ ClockStep
  \/ WhatsAppStep

Spec == Init /\ [][Next]_vars

(***************************************************************************)
(* The worker's loop never stops by itself, a request runs to its end and   *)
(* time passes.  Nothing is assumed of the connector's answers, of crashes, *)
(* of callers, of operators or of WhatsApp.                                 *)
(***************************************************************************)
Fairness ==
  /\ \A a \in Actors : WF_vars(WorkerStep(a) \/ JobStep(a))
  /\ \A m \in Messages : WF_vars(BackoffElapses(m)) /\ WF_vars(ClaimGrowsStale(m))

FairSpec == Spec /\ Fairness

-----------------------------------------------------------------------------
(***************************************************************************)
(* Properties.                                                             *)
(***************************************************************************)

(* However claims, crashes, stale resets, late results and requeues interleave,
   a message is sent at most once per attempt and attempt_count is never given
   back, so WhatsApp gets at most MAX_RETRIES copies of it. *)
CopiesWithinBudget ==
  \A m \in Messages : copies[m] <= attempts[m] /\ attempts[m] <= MaxRetries

(* A row ends as dispatched only when WhatsApp has a copy of its message or the
   message is an auto reply that was dropped. *)
DispatchedMeansSent ==
  \A m \in Messages : status[m] = "dispatched" => copies[m] > 0 \/ deleted[m]

(* A message shows as accepted by WhatsApp exactly when its row carries the id
   of a copy WhatsApp has: receipts can find it, and none is shown for nothing. *)
AckedMeansLinked ==
  \A m \in Messages :
    /\ ack[m] \in AckedStatuses <=> extId[m] # 0
    /\ extId[m] # 0 => extId[m] \in wire[m]

\* The row is out of reach of claimById and of the finalizer.
IsClosed(m) ==
  /\ status[m] = "failed"
  /\ attempts[m] = MaxRetries
  /\ nextAttempt[m] = "null"
  /\ lastError[m]

(* A job given up for good is never still shown to the agent as pending. *)
ClosedIsReported == \A m \in Messages : IsClosed(m) => ack[m] # "pending"

(* Once WhatsApp has accepted a message, neither a late failure, nor a second
   dispatch, nor a receipt out of order takes its status back. *)
AckNeverRegresses ==
  [][\A m \in Messages :
       ack[m] \in AckedStatuses => AckRank(ack'[m]) >= AckRank(ack[m])]_vars

IsSettled(m) ==
  \/ status[m] = "dispatched"
  \/ IsClosed(m)
  \/ status[m] = "none" /\ ~IsRepairableDraft(m)

(* Every draft, also one that lost its outbox row, is eventually dispatched,
   dropped or given up, and stays so: no row is stuck in processing behind a
   dead worker, or exhausted and still open. *)
EveryDraftSettles == \A m \in Messages : <>[]IsSettled(m)

(***************************************************************************)
(* The inductive invariant behind the safety properties: an attempt number  *)
(* has one holder and is spent on at most one copy.                         *)
(***************************************************************************)
Working(a) == pc[a] \in {"skip", "send", "sent", "caught"}

CurrentIsHeld ==
  \A a \in Actors :
    IF Working(a) THEN cur[a] \in Messages /\ held[a][cur[a]] # 0
                  ELSE cur[a] = NoMessage

ClaimsAreDistinct ==
  \A a, b \in Actors : \A m \in Messages :
    held[a][m] # 0 /\ held[a][m] = held[b][m] => a = b

ClaimsWereCounted ==
  \A a \in Actors : \A m \in Messages : held[a][m] <= attempts[m]

UnsentClaimsAreFresh ==
  \A a \in Actors : \A m \in Messages :
    held[a][m] # 0 /\ ~(cur[a] = m /\ pc[a] \in {"sent", "caught"})
      => held[a][m] \notin wire[m]

CopiesAreAttempts ==
  \A m \in Messages :
    /\ wire[m] \subseteq 1..attempts[m]
    /\ copies[m] = Cardinality(wire[m])

SentIsOnWire ==
  \A a \in Actors : pc[a] = "sent" => held[a][cur[a]] \in wire[cur[a]]

DispatchedIsLinked ==
  \A m \in Messages : status[m] = "dispatched" => extId[m] # 0 \/ deleted[m]

GivenUpIsReported ==
  \A m \in Messages :
    status[m] = "failed" /\ nextAttempt[m] = "null" => ack[m] # "pending"

ClaimInv ==
  /\ CurrentIsHeld
  /\ ClaimsAreDistinct
  /\ ClaimsWereCounted
  /\ UnsentClaimsAreFresh
  /\ CopiesAreAttempts
  /\ SentIsOnWire

DisplayInv ==
  /\ AckedMeansLinked
  /\ DispatchedIsLinked
  /\ GivenUpIsReported

IInv == TypeOK /\ ClaimInv /\ DisplayInv

(***************************************************************************)
(* The outbox implements MessageDelivery: what the agent sees is a function *)
(* of ack_status, a campaign reads the row's status as well, and the copies  *)
(* are those WhatsApp accepted.                                            *)
(***************************************************************************)
ShownStatus(s) ==
  CASE s = "pending" -> "waiting"
    [] s = "failed"  -> "failed"
    [] OTHER         -> "accepted"

\* The row says that its message was sent, not that it was dropped.
IsDispatched(m) == status[m] = "dispatched" /\ ~deleted[m]

Delivery == INSTANCE MessageDelivery
  WITH Limit <- MaxRetries,
       shown <- [m \in Messages |-> ShownStatus(ack[m])],
       dispatched <- {m \in Messages : IsDispatched(m)},
       sent  <- copies

(* Every step of the outbox is a step, or no step, of the delivery promise. *)
ImplementsDelivery == Delivery!Spec
==============================================================================
