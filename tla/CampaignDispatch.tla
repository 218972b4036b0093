--------------------------- MODULE CampaignDispatch ---------------------------
(***************************************************************************)
(* One WhatsApp campaign: the worker that claims its recipients and hands   *)
(* each a draft, the outbox that sends the drafts and reports back, the     *)
(* reconciler that copies the outbox's outcome to the recipients, and the   *)
(* operators who pause, resume, retry and cancel.                           *)
(*                                                                         *)
(* A draft is what MessageOutbox models in full; here it only has the       *)
(* outcome the campaign reads.  The tempo, the daily limit and              *)
(* next_attempt_at delay a claim and are left out: a worker may take any    *)
(* time.  requeueStaleQueuedRecipientsWithoutOutbox needs an outbox row     *)
(* somebody deleted and is left out.                                        *)
(***************************************************************************)
EXTENDS Naturals, Sequences, FiniteSets

CONSTANTS
  Recipients,   \* valid rows of campaign_recipients
  Workers,      \* campaign dispatch workers
  Operators,    \* concurrent requests of operators
  Reconciler,   \* the reconciler, run by the outbox worker
  NoRecipient,
  MaxRetries,   \* CAMPAIGN_DISPATCH_WORKER_MAX_RETRIES
  MaxFaults,    \* bound: crashes and failed calls
  MaxRequests   \* bound: operators' requests

ASSUME CampaignAssumption ==
  /\ IsFiniteSet(Recipients) /\ IsFiniteSet(Workers)
  /\ NoRecipient \notin Recipients
  /\ Reconciler \notin Workers
  /\ MaxRetries \in Nat \ {0}
  /\ {MaxFaults, MaxRequests} \subseteq Nat

VARIABLES
  \* campaigns
  status,
  \* campaign_recipients
  send,         \* send_status
  attempts,     \* attempt_count
  link,         \* message_id: the number of a draft of the recipient, or 0
  old,          \* queued_at is older than ..._STALE_AFTER_MS
  sick,         \* failure_code is an issue of the sender
  \* messages and message_dispatch_outbox
  drafts,       \* the drafts made for each recipient, in order
  \* the memory of the processes
  pc, cur, made, found, issue,
  request,      \* what an operator's request is about to write
  \* the world
  blocked,      \* an outbox worker waits for itself and locks the campaign tables
  retried,      \* times an operator reset attempt_count: a history variable
  faults, requests

rowVars == <<send, attempts, link, old, sick>>
procVars == <<pc, cur, made, found, issue>>
counters == <<retried, faults, requests>>
vars == <<status, rowVars, drafts, procVars, request, blocked, counters>>

Processes == Workers \cup {Reconciler}
CampaignStatuses == {"sending", "paused", "completed", "failed", "cancelled"}
DraftStates == {"open", "failing", "accepted", "dispatched"}
Requests == {"none", "pause", "resume", "retry", "cancel", "start"}

TypeOK ==
  /\ status \in CampaignStatuses
  /\ send \in [Recipients -> {"pending", "queued", "sent", "failed", "skipped"}]
  /\ attempts \in [Recipients -> 0..MaxRetries]
  /\ link \in [Recipients -> Nat]
  /\ \A r \in Recipients : link[r] \in 0..Len(drafts[r])
  /\ old \in SUBSET Recipients
  /\ sick \in SUBSET Recipients
  /\ drafts \in [Recipients -> Seq(DraftStates)]
  /\ pc \in [Processes -> {"idle", "claiming", "claimed", "returning", "sending", "linking",
                           "failing", "pausing", "finishing", "refreshing"}]
  /\ cur \in [Workers -> Recipients \cup {NoRecipient}]
  /\ made \in [Workers -> Nat]
  /\ found \in [Workers -> CampaignStatuses]
  /\ issue \in [Workers -> BOOLEAN]
  /\ request \in [Operators -> Requests]
  /\ blocked \in BOOLEAN
  /\ retried \in [Recipients -> Nat]
  /\ {faults, requests} \subseteq Nat

\* A campaign that was just started: every recipient is pending.
Init ==
  /\ status = "sending"
  /\ send = [r \in Recipients |-> "pending"]
  /\ attempts = [r \in Recipients |-> 0]
  /\ link = [r \in Recipients |-> 0]
  /\ old = {}
  /\ sick = {}
  /\ drafts = [r \in Recipients |-> <<>>]
  /\ pc = [p \in Processes |-> "idle"]
  /\ cur = [w \in Workers |-> NoRecipient]
  /\ made = [w \in Workers |-> 0]
  /\ found = [w \in Workers |-> "sending"]
  /\ issue = [w \in Workers |-> FALSE]
  /\ request = [o \in Operators |-> "none"]
  /\ blocked = FALSE
  /\ retried = [r \in Recipients |-> 0]
  /\ faults = 0
  /\ requests = 0

-----------------------------------------------------------------------------
(* Helpers *)

With(s) == {r \in Recipients : send[r] = s}

\* A process takes its next step, which asks for the campaign tables.
At(p, from, to) == ~blocked /\ pc[p] = from /\ pc' = [pc EXCEPT ![p] = to]

\* A process is done with its recipient.
Forget(p) ==
  /\ cur' = [w \in Workers |-> IF w = p THEN NoRecipient ELSE cur[w]]
  /\ made' = [w \in Workers |-> IF w = p THEN 0 ELSE made[w]]
  /\ found' = [w \in Workers |-> IF w = p THEN "sending" ELSE found[w]]
  /\ issue' = [w \in Workers |-> IF w = p THEN FALSE ELSE issue[w]]

Fault == faults < MaxFaults /\ faults' = faults + 1

\* The draft in message_id, as the joins of the reconciler see it.
Linked(r) == link[r] # 0
DraftOf(r) == drafts[r][link[r]]

\* pauseCampaignForSenderIssue
PausedIfSending == IF status = "sending" THEN "paused" ELSE status

\* What the recipients of a campaign that has run its course make of it.
Outcome(sends) ==
  IF \E r \in Recipients : sends[r] = "sent" THEN "completed" ELSE "failed"

RunsItsCourse(sends) ==
  \A r \in Recipients :
    /\ sends[r] \notin {"pending", "queued"}
    /\ sends[r] = "failed" => attempts[r] = MaxRetries

\* refreshCampaignCompletion.  It counts what has been committed: when another
\* transaction on the campaign is open it misses its recipient, and the campaign
\* is left as it is.
Refresh(sends) ==
  \/ /\ status = "sending" /\ RunsItsCourse(sends)
     /\ status' = Outcome(sends)
  \/ UNCHANGED status

-----------------------------------------------------------------------------
(* The dispatch worker *)

ResetStaleClaims_SkipsLastAttempt(w) ==
  LET lost == {r \in old : send[r] = "queued" /\ ~Linked(r) /\ attempts[r] < MaxRetries} IN
  /\ At(w, "idle", "claiming")
  /\ send' = [r \in Recipients |-> IF r \in lost THEN "pending" ELSE send[r]]
  /\ old' = old \ lost
  /\ sick' = sick \ lost
  /\ UNCHANGED <<status, attempts, link, drafts, cur, made, found, issue, request, blocked, counters>>

ResetStaleClaims_Linked(w) ==
  LET lost == {r \in old : send[r] = "queued"} IN
  /\ At(w, "idle", "claiming")
  /\ send' = [r \in Recipients |-> IF r \in lost THEN "pending" ELSE send[r]]
  /\ old' = old \ lost
  /\ sick' = sick \ lost
  /\ UNCHANGED <<status, attempts, link, drafts, cur, made, found, issue, request, blocked, counters>>

ResetStaleClaims_Refunds(w) ==
  LET lost == {r \in old : send[r] = "queued" /\ ~Linked(r)} IN
  /\ At(w, "idle", "claiming")
  /\ send' = [r \in Recipients |-> IF r \in lost THEN "pending" ELSE send[r]]
  /\ attempts' = [r \in Recipients |-> IF r \in lost THEN attempts[r] - 1 ELSE attempts[r]]
  /\ old' = old \ lost
  /\ sick' = sick \ lost
  /\ UNCHANGED <<status, link, drafts, cur, made, found, issue, request, blocked, counters>>

\* resetStaleClaims, at the start of a batch
ResetStaleClaims(w) ==
  LET lost == {r \in old : send[r] = "queued" /\ ~Linked(r)} IN
  /\ At(w, "idle", "claiming")
  /\ send' = [r \in Recipients |-> IF r \in lost THEN "pending" ELSE send[r]]
  /\ old' = old \ lost
  /\ sick' = sick \ lost
  /\ UNCHANGED <<status, attempts, link, drafts, cur, made, found, issue, request, blocked, counters>>

Claimable(r) == status = "sending" /\ send[r] = "pending" /\ attempts[r] < MaxRetries

NothingDue(w) ==
  /\ At(w, "claiming", "idle")
  /\ \A r \in Recipients : ~Claimable(r)
  /\ UNCHANGED <<status, rowVars, drafts, cur, made, found, issue, request, blocked, counters>>

ClaimRecipient(w, r) ==
  /\ At(w, "claiming", "claimed")
  /\ Claimable(r)
  /\ send' = [send EXCEPT ![r] = "queued"]
  /\ attempts' = [attempts EXCEPT ![r] = @ + 1]
  /\ old' = old \ {r}
  /\ sick' = sick \ {r}
  /\ cur' = [cur EXCEPT ![w] = r]
  /\ UNCHANGED <<status, link, drafts, made, found, issue, request, blocked, counters>>

\* No sender is connected when the worker is about to claim.
ClaimWithoutSender(w) ==
  /\ At(w, "claiming", "idle")
  /\ \E r \in Recipients : Claimable(r)
  /\ status' = PausedIfSending
  /\ UNCHANGED <<rowVars, drafts, cur, made, found, issue, request, blocked, counters>>

\* processRecipient reads the campaign's status once, before all it does.
CheckStatus(w) ==
  /\ At(w, "claimed", IF status = "sending" THEN "sending" ELSE "returning")
  /\ found' = [found EXCEPT ![w] = status]
  /\ UNCHANGED <<status, rowVars, drafts, cur, made, issue, request, blocked, counters>>

ReturnRecipient(w) ==
  LET r == cur[w] IN
  /\ At(w, "returning", "finishing")
  /\ IF Linked(r) THEN UNCHANGED <<send, old>>
     ELSE /\ send' = [send EXCEPT ![r] = IF found[w] = "cancelled" THEN "skipped" ELSE "pending"]
          /\ old' = old \ {r}
  /\ UNCHANGED <<status, attempts, link, sick, drafts, cur, made, found, issue, request, blocked, counters>>

NoSender(w) ==
  LET r == cur[w] IN
  /\ At(w, "sending", "pausing")
  /\ IF Linked(r) THEN UNCHANGED <<send, old, sick>>
     ELSE /\ send' = [send EXCEPT ![r] = "failed"]
          /\ old' = old \ {r}
          /\ sick' = sick \cup {r}
  /\ issue' = [issue EXCEPT ![w] = TRUE]
  /\ UNCHANGED <<status, attempts, link, drafts, cur, made, found, request, blocked, counters>>

\* The draft, its outbox row and the projections, in one transaction.
AddDraft(r) == drafts' = [drafts EXCEPT ![r] = Append(@, "open")]

SendDraft(w) ==
  LET r == cur[w] IN
  /\ At(w, "sending", "linking")
  /\ AddDraft(r)
  /\ made' = [made EXCEPT ![w] = Len(drafts[r]) + 1]
  /\ UNCHANGED <<status, rowVars, cur, found, issue, request, blocked, counters>>

SendFails(w) ==
  /\ At(w, "sending", "failing")
  /\ \E b \in BOOLEAN : issue' = [issue EXCEPT ![w] = b]
  /\ UNCHANGED <<status, rowVars, drafts, cur, made, found, request, blocked, counters>>

\* The draft is committed and the worker is told it failed.
SendAnswerLost(w) ==
  /\ Fault
  /\ At(w, "sending", "failing")
  /\ AddDraft(cur[w])
  /\ issue' = [issue EXCEPT ![w] = FALSE]
  /\ UNCHANGED <<status, rowVars, cur, made, found, request, blocked, retried, requests>>

LinkDraft(w) ==
  LET r == cur[w] IN
  /\ At(w, "linking", "finishing")
  /\ send' = [send EXCEPT ![r] = "queued"]
  /\ link' = [link EXCEPT ![r] = made[w]]
  /\ sick' = sick \ {r}
  /\ UNCHANGED <<status, attempts, old, drafts, cur, made, found, issue, request, blocked, counters>>

\* A query of processRecipient throws.
CallFails(w) ==
  /\ Fault
  /\ pc[w] \in {"claimed", "returning", "linking"}
  /\ pc' = [pc EXCEPT ![w] = "failing"]
  /\ issue' = [issue EXCEPT ![w] = FALSE]
  /\ UNCHANGED <<status, rowVars, drafts, cur, made, found, request, blocked, retried, requests>>

\* The catch of processRecipient, whatever the recipient has become.
MarkFailed(w) ==
  LET r == cur[w] IN
  /\ At(w, "failing", IF issue[w] THEN "pausing" ELSE "finishing")
  /\ send' = [send EXCEPT ![r] = "failed"]
  /\ sick' = IF issue[w] THEN sick \cup {r} ELSE sick \ {r}
  /\ UNCHANGED <<status, attempts, link, old, drafts, cur, made, found, issue, request, blocked, counters>>

-----------------------------------------------------------------------------
(* What follows a processed recipient, in the worker and in the reconciler *)

PauseForSenderIssue(w) ==
  /\ At(w, "pausing", "finishing")
  /\ status' = PausedIfSending
  /\ UNCHANGED <<rowVars, drafts, cur, made, found, issue, request, blocked, counters>>

\* The failure rate that pauses a campaign is a setting, from 0 to 1.
AutoPause(p) ==
  /\ At(p, "finishing", "refreshing")
  /\ \/ With("sent") \cup With("failed") # {} /\ status' = PausedIfSending
     \/ UNCHANGED status
  /\ UNCHANGED <<rowVars, drafts, cur, made, found, issue, request, blocked, counters>>

\* A worker claims the next recipient, or ends its batch.
RefreshCompletion(p) ==
  /\ \/ At(p, "refreshing", "idle")
     \/ p \in Workers /\ At(p, "refreshing", "claiming")
  /\ Refresh(send)
  /\ Forget(p)
  /\ UNCHANGED <<rowVars, drafts, request, blocked, counters>>

\* A process dies, or an error ends its iteration.
Crash(p) ==
  /\ Fault
  /\ pc[p] # "idle"
  /\ pc' = [pc EXCEPT ![p] = "idle"]
  /\ Forget(p)
  /\ UNCHANGED <<status, rowVars, drafts, request, blocked, retried, requests>>

-----------------------------------------------------------------------------
(* The reconciler: its limit of rows covers the campaign *)

ReconcileSent_AnyLinked ==
  LET S == {r \in With("queued") : Linked(r)} IN
  /\ At(Reconciler, "idle", "pausing")
  /\ S # {}
  /\ send' = [r \in Recipients |-> IF r \in S THEN "sent" ELSE send[r]]
  /\ sick' = sick \ S
  /\ UNCHANGED <<status, attempts, link, old, drafts, cur, made, found, issue, request, blocked, counters>>

ReconcileSent ==
  LET S == {r \in With("queued") : Linked(r) /\ DraftOf(r) \in {"accepted", "dispatched"}} IN
  /\ At(Reconciler, "idle", "pausing")
  /\ S # {}
  /\ send' = [r \in Recipients |-> IF r \in S THEN "sent" ELSE send[r]]
  /\ sick' = sick \ S
  /\ UNCHANGED <<status, attempts, link, old, drafts, cur, made, found, issue, request, blocked, counters>>

\* A failed message counts as exhausted, though its row may be tried again.
ReconcileFailed ==
  LET F == {r \in With("queued") : Linked(r) /\ DraftOf(r) = "failing"} IN
  /\ At(Reconciler, "idle", "pausing")
  /\ F # {}
  /\ send' = [r \in Recipients |-> IF r \in F THEN "failed" ELSE send[r]]
  /\ \E B \in SUBSET F : sick' = (sick \ F) \cup B
  /\ UNCHANGED <<status, attempts, link, old, drafts, cur, made, found, issue, request, blocked, counters>>

\* pauseIfSenderIssue looks at the latest failure, which may be any of them.
PauseIfSenderIssue ==
  /\ At(Reconciler, "pausing", "finishing")
  /\ \/ With("failed") \cap sick # {} /\ status' = PausedIfSending
     \/ (With("failed") = {} \/ With("failed") \ sick # {}) /\ UNCHANGED status
  /\ UNCHANGED <<rowVars, drafts, cur, made, found, issue, request, blocked, counters>>

-----------------------------------------------------------------------------
(* The outbox *)

SetDraft(r, d, s) == drafts' = [drafts EXCEPT ![r][d] = s]

\* An echo or a receipt shows that WhatsApp has the message.
MessageAccepted(r, d) ==
  /\ drafts[r][d] \in {"open", "failing"}
  /\ SetDraft(r, d, "accepted")
  /\ UNCHANGED <<status, rowVars, procVars, request, blocked, counters>>

\* markCampaignRecipientSent, with the outbox row, whatever the recipient is and
\* whoever else has dispatched the row.
CommitDispatch(r, d) ==
  LET sends == [send EXCEPT ![r] = "sent"] IN
  /\ ~blocked
  /\ SetDraft(r, d, "dispatched")
  /\ send' = sends
  /\ sick' = sick \ {r}
  /\ Refresh(sends)
  /\ UNCHANGED <<attempts, link, old, procVars, request, blocked, counters>>

\* The outbox will try again; the recipient only gets the error's text.
RetryableFailure(r, d) ==
  /\ ~blocked
  /\ drafts[r][d] = "open"
  /\ SetDraft(r, d, "failing")
  /\ UNCHANGED <<status, rowVars, procVars, request, blocked, counters>>

\* The row of a dispatched draft fails for a slower holder of it, or is requeued by
\* an operator: it may be sent again, and the message stays accepted.
ReopenRow(r, d) ==
  /\ Fault
  /\ drafts[r][d] = "dispatched"
  /\ SetDraft(r, d, "accepted")
  /\ UNCHANGED <<status, rowVars, procVars, request, blocked, retried, requests>>

\* markCampaignRecipientFailed holds the recipient's row in its transaction and
\* waits for autoPauseCampaignIfNeeded, which on a connection of its own wants to
\* alter the same tables: neither ends, and no other query on them does.
FinalFailure(r, d) ==
  /\ ~blocked
  /\ blocked' = TRUE
  /\ UNCHANGED <<status, rowVars, drafts, procVars, request, counters>>

\* Both transactions roll back when the process is killed; its row is claimed
\* again later.
OutboxRestarts ==
  /\ Fault
  /\ blocked
  /\ blocked' = FALSE
  /\ UNCHANGED <<status, rowVars, drafts, procVars, request, retried, requests>>

-----------------------------------------------------------------------------
(* The operators: a request reads the campaign, then writes without a look *)

ReadFor(o, what) ==
  /\ ~blocked
  /\ requests < MaxRequests
  /\ requests' = requests + 1
  /\ request[o] = "none"
  /\ request' = [request EXCEPT ![o] = what]
  /\ UNCHANGED <<status, rowVars, drafts, procVars, blocked, retried, faults>>

ReadForPause(o) == status = "sending" /\ ReadFor(o, "pause")
ReadForResume(o) == status = "paused" /\ ReadFor(o, "resume")
ReadForRetry(o) == status \in {"paused", "failed"} /\ ReadFor(o, "retry")
ReadForCancel(o) == status \notin {"completed", "cancelled"} /\ ReadFor(o, "cancel")
ReadForStart(o) == status = "failed" /\ With("pending") # {} /\ ReadFor(o, "start")

Answer(o, what) == ~blocked /\ request[o] = what /\ request' = [request EXCEPT ![o] = "none"]

PauseCampaign(o) ==
  /\ Answer(o, "pause")
  /\ status' = "paused"
  /\ UNCHANGED <<rowVars, drafts, procVars, blocked, counters>>

StartExistingCampaign(o) ==
  /\ Answer(o, "start")
  /\ status' = "sending"
  /\ UNCHANGED <<rowVars, drafts, procVars, blocked, counters>>

\* resetResumeSafeRecipients and the status, in one transaction
ResumeCampaign(o) ==
  LET waiting == {r \in With("queued") : ~Linked(r)} IN
  /\ Answer(o, "resume")
  /\ send' = [r \in Recipients |-> IF r \in waiting THEN "pending" ELSE send[r]]
  /\ old' = old \ waiting
  /\ sick' = sick \ waiting
  /\ status' = "sending"
  /\ UNCHANGED <<attempts, link, drafts, procVars, blocked, counters>>

RetryFailedCampaign(o) ==
  \E F \in SUBSET With("failed") :
    /\ Answer(o, "retry")
    /\ F = With("failed") \/ F = With("failed") \cap sick \/ F = With("failed") \ sick
    /\ send' = [r \in Recipients |-> IF r \in F THEN "pending" ELSE send[r]]
    /\ attempts' = [r \in Recipients |-> IF r \in F THEN 0 ELSE attempts[r]]
    /\ link' = [r \in Recipients |-> IF r \in F THEN 0 ELSE link[r]]
    /\ retried' = [r \in Recipients |-> IF r \in F THEN retried[r] + 1 ELSE retried[r]]
    /\ old' = old \ F
    /\ sick' = sick \ F
    /\ UNCHANGED <<status, drafts, procVars, blocked, faults, requests>>

CancelCampaign(o) ==
  LET unsent == {r \in With("pending") \cup With("queued") \cup With("failed") : ~Linked(r)} IN
  /\ Answer(o, "cancel")
  /\ status' = "cancelled"
  /\ send' = [r \in Recipients |-> IF r \in unsent THEN "skipped" ELSE send[r]]
  /\ UNCHANGED <<attempts, link, old, sick, drafts, procVars, blocked, counters>>

-----------------------------------------------------------------------------

ClaimGrowsOld(r) ==
  /\ send[r] = "queued" /\ ~Linked(r) /\ r \notin old
  /\ old' = old \cup {r}
  /\ UNCHANGED <<status, send, attempts, link, sick, drafts, procVars, request, blocked, counters>>

WorkerStep(w) ==
  \/ ResetStaleClaims(w) \/ NothingDue(w)
  \/ \E r \in Recipients : ClaimRecipient(w, r)
  \/ ClaimWithoutSender(w) \/ CheckStatus(w) \/ ReturnRecipient(w)
  \/ NoSender(w) \/ SendDraft(w) \/ SendFails(w) \/ LinkDraft(w) \/ MarkFailed(w)
  \/ PauseForSenderIssue(w) \/ AutoPause(w) \/ RefreshCompletion(w)

ReconcilerStep ==
  \/ ReconcileSent \/ ReconcileFailed \/ PauseIfSenderIssue
  \/ AutoPause(Reconciler) \/ RefreshCompletion(Reconciler)

OutboxSettles(r, d) == CommitDispatch(r, d) \/ FinalFailure(r, d)

IsOpen(r, d) == drafts[r][d] # "dispatched"

OperatorWrites(o) ==
  \/ PauseCampaign(o) \/ StartExistingCampaign(o) \/ ResumeCampaign(o)
  \/ RetryFailedCampaign(o) \/ CancelCampaign(o)

OperatorReads(o) ==
  \/ ReadForPause(o) \/ ReadForResume(o) \/ ReadForRetry(o)
  \/ ReadForCancel(o) \/ ReadForStart(o)

OutboxStep(r) ==
  \E d \in DOMAIN drafts[r] :
    OutboxSettles(r, d) \/ MessageAccepted(r, d) \/ RetryableFailure(r, d) \/ ReopenRow(r, d)

Next ==
  \/ \E w \in Workers : WorkerStep(w) \/ SendAnswerLost(w) \/ CallFails(w)
  \/ ReconcilerStep
  \/ \E p \in Processes : Crash(p)
  \/ \E r \in Recipients : OutboxStep(r) \/ ClaimGrowsOld(r)
  \/ OutboxRestarts
  \/ \E o \in Operators : OperatorReads(o) \/ OperatorWrites(o)

Spec == Init /\ [][Next]_vars

\* The workers poll for ever and finish what they started; the outbox settles
\* every draft in the end (MessageOutbox!EveryDraftSettles); time passes.
Fairness ==
  /\ \A w \in Workers : WF_vars(WorkerStep(w))
  /\ WF_vars(ReconcilerStep)
  /\ \A r \in Recipients :
       /\ WF_vars(\E d \in DOMAIN drafts[r] : IsOpen(r, d) /\ OutboxSettles(r, d))
       /\ WF_vars(ClaimGrowsOld(r))

FairSpec == Spec /\ Fairness

-----------------------------------------------------------------------------
(* Properties *)

\* A recipient reported as sent has a message that WhatsApp took, whichever of
\* the worker, the outbox and the reconciler wrote last.
SentMeansAccepted ==
  \A r \in Recipients :
    send[r] = "sent" => \E d \in DOMAIN drafts[r] : drafts[r][d] \in {"accepted", "dispatched"}

\* A recipient who is to be written to again has no draft in message_id: whoever
\* puts one back, a stale claim's reset, a resume, a retry or a worker that found
\* the campaign paused, leaves alone the one a slower worker linked meanwhile.
PutBackMeansUnlinked == \A r \in Recipients : send[r] = "pending" => ~Linked(r)

\* However claims go stale, workers die, answers get lost and operators resume,
\* a recipient is given at most MaxRetries drafts for each time a human asked for
\* one: nothing else refunds an attempt, and no claim makes two drafts.
DraftsWithinAttempts ==
  \A r \in Recipients : Len(drafts[r]) <= MaxRetries * (1 + retried[r])

(***************************************************************************)
(* The inductive invariant behind the three: who may still make a draft      *)
(* holds an attempt for it, and who is about to link one made it.            *)
(***************************************************************************)
MemoryInv ==
  \A w \in Workers :
    /\ pc[w] \in {"claimed", "returning", "sending", "linking", "failing"} => cur[w] \in Recipients
    /\ pc[w] = "linking" => made[w] \in 1..Len(drafts[cur[w]])

MayDraft(r) == {w \in Workers : cur[w] = r /\ pc[w] \in {"claimed", "sending"}}

AttemptInv ==
  \A r \in Recipients :
    Len(drafts[r]) + Cardinality(MayDraft(r)) <= attempts[r] + MaxRetries * retried[r]

IInv ==
  /\ TypeOK /\ MemoryInv /\ AttemptInv
  /\ SentMeansAccepted /\ PutBackMeansUnlinked /\ DraftsWithinAttempts

\* While a campaign is sending no recipient is forgotten: a claim that lost its
\* worker is taken back, and a draft's outcome reaches its recipient even if it
\* was there before message_id was.  Left behind are a recipient whose last claim
\* was taken back, and everything while a final failure blocks the tables.
RecipientsSettle ==
  \A r \in Recipients :
    (status = "sending" /\ send[r] \in {"pending", "queued"}) ~>
      \/ status # "sending"
      \/ send[r] \in {"sent", "failed", "skipped"}
      \/ send[r] = "pending" /\ attempts[r] = MaxRetries
      \/ blocked

\* "Sent recipients will not be resent" (campaigns.controller.ts:1128).
ResumeSparesSent ==
  [][\A o \in Operators, r \in Recipients :
       ResumeCampaign(o) /\ (\E d \in DOMAIN drafts[r] : drafts[r][d] \in {"accepted", "dispatched"})
         => (send'[r] = "pending" => send[r] = "pending")]_vars
=============================================================================
