------------------------ MODULE CampaignDispatch_proofs ------------------------
(***************************************************************************)
(* What the writers of a campaign's recipients preserve together, for any    *)
(* number of recipients, workers, operators, attempts, faults and requests.  *)
(***************************************************************************)
EXTENDS CampaignDispatch, FiniteSetTheorems, TLAPS

(* The sets of recipients and workers are finite, and the reconciler is not a worker. *)
LEMMA Actors ==
  /\ IsFiniteSet(Workers) /\ Reconciler \notin Workers /\ NoRecipient \notin Recipients
  /\ MaxRetries \in Nat \ {0}
BY CampaignAssumption DEF CampaignAssumption

-----------------------------------------------------------------------------
(* Types *)

(* A campaign that was just started is well typed. *)
LEMMA InitType == Init => TypeOK
<1> SUFFICES ASSUME Init PROVE TypeOK
  OBVIOUS
<1>1. status \in CampaignStatuses /\ old \in SUBSET Recipients /\ sick \in SUBSET Recipients
  BY DEF Init, CampaignStatuses
<1>2. /\ send \in [Recipients -> {"pending", "queued", "sent", "failed", "skipped"}]
      /\ pc \in [Processes -> {"idle", "claiming", "claimed", "returning", "sending", "linking",
                               "failing", "pausing", "finishing", "refreshing"}]
      /\ cur \in [Workers -> Recipients \cup {NoRecipient}]
      /\ found \in [Workers -> CampaignStatuses]
      /\ request \in [Operators -> Requests]
  BY DEF Init, CampaignStatuses, Requests
<1>3. 0 \in 0..MaxRetries
  BY Actors
<1>4. /\ attempts \in [Recipients -> 0..MaxRetries]
      /\ link \in [Recipients -> Nat]
      /\ made \in [Workers -> Nat]
      /\ retried \in [Recipients -> Nat]
      /\ {faults, requests} \subseteq Nat
  BY <1>3 DEF Init
<1>5. drafts \in [Recipients -> Seq(DraftStates)]
  BY DEF Init
<1>6. \A r \in Recipients : link[r] \in 0..Len(drafts[r])
  BY DEF Init
<1>7. issue \in [Workers -> BOOLEAN] /\ blocked \in BOOLEAN
  BY Zenon DEF Init
<1> QED
  BY <1>1, <1>2, <1>4, <1>5, <1>6, <1>7 DEF TypeOK

(* The recipients' columns, without the drafts they point to. *)
RowType ==
  /\ status \in CampaignStatuses
  /\ send \in [Recipients -> {"pending", "queued", "sent", "failed", "skipped"}]
  /\ attempts \in [Recipients -> 0..MaxRetries]
  /\ old \in SUBSET Recipients /\ sick \in SUBSET Recipients
  /\ retried \in [Recipients -> Nat]

DraftType ==
  /\ link \in [Recipients -> Nat]
  /\ drafts \in [Recipients -> Seq(DraftStates)]
  /\ \A r \in Recipients : link[r] \in 0..Len(drafts[r])

MemoryType ==
  /\ pc \in [Processes -> {"idle", "claiming", "claimed", "returning", "sending", "linking",
                           "failing", "pausing", "finishing", "refreshing"}]
  /\ cur \in [Workers -> Recipients \cup {NoRecipient}]
  /\ made \in [Workers -> Nat]
  /\ found \in [Workers -> CampaignStatuses]
  /\ request \in [Operators -> Requests]

OtherType ==
  /\ issue \in [Workers -> BOOLEAN] /\ blocked \in BOOLEAN
  /\ {faults, requests} \subseteq Nat

(* The four parts are the type invariant. *)
LEMMA TypeParts == TypeOK <=> RowType /\ DraftType /\ MemoryType /\ OtherType
<1>1. TypeOK => RowType /\ DraftType /\ MemoryType /\ OtherType
  BY DEF TypeOK, RowType, DraftType, MemoryType, OtherType
<1>2. RowType /\ DraftType /\ MemoryType /\ OtherType => TypeOK
  BY Zenon DEF TypeOK, RowType, DraftType, MemoryType, OtherType
<1> QED BY <1>1, <1>2

(* The same of the next state. *)
LEMMA TypePartsNext == RowType' /\ DraftType' /\ MemoryType' /\ OtherType' => TypeOK'
BY Zenon DEF TypeOK, RowType, DraftType, MemoryType, OtherType

(* A worker's step keeps the columns of the recipients well typed. *)
LEMMA WorkerRows ==
  ASSUME RowType, MemoryInv, NEW w \in Workers, WorkerStep(w) \/ SendAnswerLost(w) \/ CallFails(w)
  PROVE  RowType'
<1> USE DEF RowType, At, CampaignStatuses
<1> HIDE DEF MemoryInv
<1>1. CASE ResetStaleClaims(w)
  BY <1>1 DEF ResetStaleClaims, counters
<1>2. CASE \E r \in Recipients : ClaimRecipient(w, r)
  <2>1. PICK r \in Recipients : ClaimRecipient(w, r)
    BY <1>2
  <2>2. attempts[r] + 1 \in 0..MaxRetries
    BY <2>1, Actors DEF ClaimRecipient, Claimable
  <2> QED
    BY <2>1, <2>2 DEF ClaimRecipient, counters
<1>3. CASE NothingDue(w) \/ CheckStatus(w) \/ SendDraft(w) \/ SendFails(w) \/ SendAnswerLost(w) \/ CallFails(w)
  BY <1>3 DEF NothingDue, CheckStatus, SendDraft, SendFails, SendAnswerLost, CallFails, rowVars, counters
<1>4. CASE ClaimWithoutSender(w) \/ PauseForSenderIssue(w) \/ AutoPause(w) \/ RefreshCompletion(w)
  BY <1>4 DEF ClaimWithoutSender, PauseForSenderIssue, AutoPause, RefreshCompletion, PausedIfSending,
              Refresh, Outcome, rowVars, counters
<1>5. CASE ReturnRecipient(w) \/ LinkDraft(w)
  BY <1>5 DEF ReturnRecipient, LinkDraft, counters
<1>6. CASE NoSender(w) \/ MarkFailed(w)
  <2>1. cur[w] \in Recipients
    BY <1>6 DEF MemoryInv, NoSender, MarkFailed
  <2> QED
    BY <1>6, <2>1 DEF NoSender, MarkFailed, counters
<1> QED
  BY <1>1, <1>2, <1>3, <1>4, <1>5, <1>6 DEF WorkerStep

(* What a worker about to send, link or give up works on is a recipient. *)
LEMMA Holding ==
  ASSUME MemoryInv, NEW w \in Workers,
         pc[w] \in {"claimed", "returning", "sending", "linking", "failing"}
  PROVE  cur[w] \in Recipients
BY DEF MemoryInv

(* A worker's step keeps message_id and the drafts it points into. *)
LEMMA WorkerDrafts ==
  ASSUME DraftType, MemoryType, MemoryInv, NEW w \in Workers,
         WorkerStep(w) \/ SendAnswerLost(w) \/ CallFails(w)
  PROVE  DraftType'
<1> USE DEF DraftType, At
<1> HIDE DEF MemoryInv
<1>1. CASE SendDraft(w) \/ SendAnswerLost(w)
  <2> DEFINE r == cur[w]
  <2>1. r \in Recipients /\ drafts' = [drafts EXCEPT ![r] = Append(@, "open")] /\ link' = link
    BY <1>1, Holding DEF SendDraft, SendAnswerLost, AddDraft, rowVars
  <2>2. "open" \in DraftStates
    BY DEF DraftStates
  <2> HIDE DEF r
  <2> QED
    BY <2>1, <2>2
<1>2. CASE LinkDraft(w)
  <2>1. cur[w] \in Recipients /\ made[w] \in 1..Len(drafts[cur[w]]) /\ made[w] \in Nat
    BY <1>2 DEF MemoryInv, MemoryType, LinkDraft
  <2> QED
    BY <1>2, <2>1 DEF LinkDraft
<1>3. CASE \E r \in Recipients : ClaimRecipient(w, r)
  BY <1>3 DEF ClaimRecipient
<1>4. CASE NothingDue(w) \/ CheckStatus(w) \/ SendFails(w) \/ CallFails(w)
           \/ ClaimWithoutSender(w) \/ PauseForSenderIssue(w) \/ AutoPause(w) \/ RefreshCompletion(w)
  BY <1>4 DEF NothingDue, CheckStatus, SendFails, CallFails, ClaimWithoutSender, PauseForSenderIssue,
              AutoPause, RefreshCompletion, rowVars
<1>5. CASE ResetStaleClaims(w) \/ ReturnRecipient(w) \/ NoSender(w) \/ MarkFailed(w)
  BY <1>5 DEF ResetStaleClaims, ReturnRecipient, NoSender, MarkFailed
<1> QED
  BY <1>1, <1>2, <1>3, <1>4, <1>5 DEF WorkerStep

(* A worker keeps its own memory well typed. *)
LEMMA WorkerMemory ==
  ASSUME RowType, DraftType, MemoryType, MemoryInv, NEW w \in Workers,
         WorkerStep(w) \/ SendAnswerLost(w) \/ CallFails(w)
  PROVE  MemoryType'
<1> USE DEF MemoryType, At, Processes, CampaignStatuses
<1> HIDE DEF MemoryInv
<1>1. CASE \E r \in Recipients : ClaimRecipient(w, r)
  BY <1>1 DEF ClaimRecipient
<1>2. CASE CheckStatus(w)
  BY <1>2 DEF CheckStatus, RowType
<1>3. CASE SendDraft(w)
  <2>1. Len(drafts[cur[w]]) + 1 \in Nat
    BY <1>3, Holding DEF SendDraft, DraftType
  <2> QED
    BY <1>3, <2>1 DEF SendDraft
<1>4. CASE RefreshCompletion(w)
  BY <1>4 DEF RefreshCompletion, Forget
<1>5. CASE SendAnswerLost(w) \/ SendFails(w) \/ CallFails(w) \/ MarkFailed(w)
  BY <1>5 DEF SendAnswerLost, SendFails, CallFails, MarkFailed
<1>6. CASE ResetStaleClaims(w) \/ NothingDue(w) \/ ClaimWithoutSender(w) \/ ReturnRecipient(w)
           \/ NoSender(w) \/ LinkDraft(w) \/ PauseForSenderIssue(w) \/ AutoPause(w)
  BY <1>6 DEF ResetStaleClaims, NothingDue, ClaimWithoutSender, ReturnRecipient, NoSender, LinkDraft,
              PauseForSenderIssue, AutoPause
<1> QED
  BY <1>1, <1>2, <1>3, <1>4, <1>5, <1>6 DEF WorkerStep

(* A worker keeps the flags and the counters well typed. *)
LEMMA WorkerOther ==
  ASSUME OtherType, NEW w \in Workers, WorkerStep(w) \/ SendAnswerLost(w) \/ CallFails(w)
  PROVE  OtherType'
<1>1. /\ \/ issue' = issue
         \/ \E b \in BOOLEAN : issue' = [issue EXCEPT ![w] = b]
         \/ issue' = [v \in Workers |-> IF v = w THEN FALSE ELSE issue[v]]
      /\ blocked' = blocked
  BY Zenon DEF WorkerStep, SendAnswerLost, CallFails, ResetStaleClaims, NothingDue, ClaimRecipient,
     ClaimWithoutSender, CheckStatus, ReturnRecipient, NoSender, SendDraft, SendFails, LinkDraft,
     MarkFailed, PauseForSenderIssue, AutoPause, RefreshCompletion, Forget, procVars
<1>2. issue' \in [Workers -> BOOLEAN] /\ blocked' \in BOOLEAN
  BY <1>1, Zenon DEF OtherType
<1>3. faults' \in {faults, faults + 1} /\ requests' = requests
  BY DEF WorkerStep, SendAnswerLost, CallFails, ResetStaleClaims, NothingDue, ClaimRecipient,
     ClaimWithoutSender, CheckStatus, ReturnRecipient, NoSender, SendDraft, SendFails, LinkDraft,
     MarkFailed, PauseForSenderIssue, AutoPause, RefreshCompletion, Fault, counters
<1>4. {faults, requests}' \subseteq Nat
  BY <1>3 DEF OtherType
<1> QED
  BY <1>2, <1>4 DEF OtherType

(* The reconciler keeps the types. *)
LEMMA ReconcilerType ==
  ASSUME TypeOK, ReconcilerStep
  PROVE  TypeOK'
<1> SUFFICES RowType' /\ DraftType' /\ MemoryType' /\ OtherType'
  BY TypePartsNext
<1>0. RowType /\ DraftType /\ MemoryType /\ OtherType
  BY TypeParts
<1> USE <1>0
<1>1. RowType'
  BY DEF RowType, ReconcilerStep, ReconcileSent, ReconcileFailed, PauseIfSenderIssue, AutoPause,
         RefreshCompletion, Refresh, Outcome, PausedIfSending, With, CampaignStatuses, rowVars, counters
<1>2. link' = link /\ drafts' = drafts
  BY DEF ReconcilerStep, ReconcileSent, ReconcileFailed, PauseIfSenderIssue, AutoPause, RefreshCompletion, rowVars
<1>3. DraftType'
  BY <1>2 DEF DraftType
<1>4. MemoryType'
  BY Actors DEF MemoryType, Processes, ReconcilerStep, ReconcileSent, ReconcileFailed, PauseIfSenderIssue,
         AutoPause, RefreshCompletion, Forget, At, CampaignStatuses
<1>5. /\ issue' = issue \/ issue' = [v \in Workers |-> IF v = Reconciler THEN FALSE ELSE issue[v]]
      /\ blocked' = blocked /\ faults' = faults /\ requests' = requests
  BY DEF ReconcilerStep, ReconcileSent, ReconcileFailed, PauseIfSenderIssue, AutoPause, RefreshCompletion,
         Forget, counters
<1>6. OtherType'
  BY <1>5, Zenon DEF OtherType
<1> QED
  BY <1>1, <1>3, <1>4, <1>6

(* A crash keeps the types. *)
LEMMA CrashType ==
  ASSUME TypeOK, NEW p \in Processes, Crash(p)
  PROVE  TypeOK'
<1> SUFFICES RowType' /\ DraftType' /\ MemoryType' /\ OtherType'
  BY TypePartsNext
<1>0. RowType /\ DraftType /\ MemoryType /\ OtherType
  BY TypeParts
<1> USE <1>0
<1>1. RowType'
  BY DEF RowType, Crash, rowVars
<1>2. DraftType'
  BY DEF DraftType, Crash, rowVars
<1>3. MemoryType'
  BY DEF MemoryType, Crash, Forget, CampaignStatuses
<1>4. issue' \in [Workers -> BOOLEAN] /\ blocked' \in BOOLEAN
  BY Zenon DEF OtherType, Crash, Forget
<1>5. {faults, requests}' \subseteq Nat
  BY DEF OtherType, Crash, Fault
<1> QED
  BY <1>1, <1>2, <1>3, <1>4, <1>5 DEF OtherType

(* A step of the outbox, or a claim that ages, keeps the types. *)
LEMMA OutboxType ==
  ASSUME TypeOK, NEW r \in Recipients, OutboxStep(r) \/ ClaimGrowsOld(r)
  PROVE  TypeOK'
<1> SUFFICES RowType' /\ DraftType' /\ MemoryType' /\ OtherType'
  BY TypePartsNext
<1>0. RowType /\ DraftType /\ MemoryType /\ OtherType
  BY TypeParts
<1> USE <1>0
<1>1. RowType'
  BY DEF RowType, OutboxStep, OutboxSettles, CommitDispatch, FinalFailure, MessageAccepted, RetryableFailure, ReopenRow,
         ClaimGrowsOld, Refresh, Outcome, CampaignStatuses, rowVars, counters
<1>2. \/ drafts' = drafts
      \/ \E d \in DOMAIN drafts[r], s \in DraftStates : drafts' = [drafts EXCEPT ![r][d] = s]
  BY DEF OutboxStep, OutboxSettles, CommitDispatch, FinalFailure, MessageAccepted, RetryableFailure, ReopenRow,
         ClaimGrowsOld, SetDraft, DraftStates
<1>3. link' = link
  BY DEF OutboxStep, OutboxSettles, CommitDispatch, FinalFailure, MessageAccepted, RetryableFailure, ReopenRow,
         ClaimGrowsOld, rowVars
<1>4. DraftType'
  <2>1. CASE drafts' = drafts
    BY <2>1, <1>3 DEF DraftType
  <2>2. CASE \E d \in DOMAIN drafts[r], s \in DraftStates : drafts' = [drafts EXCEPT ![r][d] = s]
    <3>1. PICK d \in DOMAIN drafts[r], s \in DraftStates : drafts' = [drafts EXCEPT ![r][d] = s]
      BY <2>2
    <3>2. DEFINE new == [drafts[r] EXCEPT ![d] = s]
    <3>3. new \in Seq(DraftStates) /\ Len(new) = Len(drafts[r])
      BY <3>1 DEF DraftType
    <3>4. drafts' = [drafts EXCEPT ![r] = new]
      BY <3>1
    <3> HIDE DEF new
    <3> QED
      BY <3>3, <3>4, <1>3 DEF DraftType
  <2> QED
    BY <2>1, <2>2, <1>2
<1>5. MemoryType'
  BY DEF MemoryType, OutboxStep, OutboxSettles, CommitDispatch, FinalFailure, MessageAccepted,
         RetryableFailure, ReopenRow, ClaimGrowsOld, procVars
<1>6. issue' = issue /\ (blocked' = blocked \/ blocked' = TRUE)
  BY Zenon DEF OutboxStep, OutboxSettles, CommitDispatch, FinalFailure, MessageAccepted,
         RetryableFailure, ReopenRow, ClaimGrowsOld, procVars
<1>7. issue' \in [Workers -> BOOLEAN] /\ blocked' \in BOOLEAN
  BY <1>6, Zenon DEF OtherType
<1>8. {faults, requests}' \subseteq Nat
  BY DEF OtherType, OutboxStep, OutboxSettles, Fault, CommitDispatch, FinalFailure, MessageAccepted,
         RetryableFailure, ReopenRow, ClaimGrowsOld, counters
<1> QED
  BY <1>1, <1>4, <1>5, <1>7, <1>8 DEF OtherType

(* An operator's request keeps the types. *)
LEMMA OperatorType ==
  ASSUME TypeOK, NEW o \in Operators, OperatorReads(o) \/ OperatorWrites(o)
  PROVE  TypeOK'
<1> SUFFICES RowType' /\ DraftType' /\ MemoryType' /\ OtherType'
  BY TypePartsNext
<1>0. RowType /\ DraftType /\ MemoryType /\ OtherType
  BY TypeParts
<1> USE <1>0
<1>1. CASE OperatorReads(o)
  <2>1. \E what \in Requests : ReadFor(o, what)
    BY <1>1 DEF OperatorReads, ReadForPause, ReadForResume, ReadForRetry, ReadForCancel, ReadForStart, Requests
  <2>2. RowType' /\ DraftType'
    BY <2>1 DEF RowType, DraftType, ReadFor, rowVars
  <2>3. MemoryType' /\ {faults, requests}' \subseteq Nat
    BY <2>1 DEF MemoryType, OtherType, ReadFor, procVars
  <2>4. issue' \in [Workers -> BOOLEAN] /\ blocked' \in BOOLEAN
    BY <2>1, Zenon DEF ReadFor, OtherType, procVars
  <2> QED
    BY <2>2, <2>3, <2>4 DEF OtherType
<1>2. CASE OperatorWrites(o)
  <2>1. 0 \in 0..MaxRetries
    BY Actors
  <2>2. RowType'
    BY <1>2, <2>1 DEF RowType, OperatorWrites, PauseCampaign, StartExistingCampaign, ResumeCampaign,
       RetryFailedCampaign, CancelCampaign, With, CampaignStatuses, rowVars, counters
  <2>3. /\ drafts' = drafts
        /\ \E F \in SUBSET Recipients : link' = [r \in Recipients |-> IF r \in F THEN 0 ELSE link[r]]
    <3>1. CASE RetryFailedCampaign(o)
      BY <3>1 DEF RetryFailedCampaign, With
    <3>2. CASE ~RetryFailedCampaign(o)
      <4>1. drafts' = drafts /\ link' = link
        BY <1>2, <3>2 DEF OperatorWrites, PauseCampaign, StartExistingCampaign, ResumeCampaign, CancelCampaign, rowVars
      <4>2. link' = [r \in Recipients |-> IF r \in {} THEN 0 ELSE link[r]] /\ {} \in SUBSET Recipients
        BY <4>1 DEF DraftType
      <4> HIDE DEF DraftType
      <4> QED
        BY <4>1, <4>2, Zenon
    <3> QED
      BY <3>1, <3>2
  <2>4. DraftType'
    BY <2>3 DEF DraftType
  <2>5. MemoryType' /\ {faults, requests}' \subseteq Nat
    BY <1>2 DEF MemoryType, OtherType, OperatorWrites, PauseCampaign, StartExistingCampaign, ResumeCampaign,
       RetryFailedCampaign, CancelCampaign, Answer, Requests, procVars, counters
  <2>6. issue' \in [Workers -> BOOLEAN] /\ blocked' \in BOOLEAN
    BY <1>2, Zenon DEF OtherType, OperatorWrites, PauseCampaign, StartExistingCampaign, ResumeCampaign,
       RetryFailedCampaign, CancelCampaign, procVars
  <2> QED
    BY <2>2, <2>4, <2>5, <2>6 DEF OtherType
<1> QED
  BY <1>1, <1>2

(* Every step keeps the types. *)
LEMMA TypeStep ==
  ASSUME TypeOK, MemoryInv, [Next]_vars
  PROVE  TypeOK'
<1>1. CASE \E w \in Workers : WorkerStep(w) \/ SendAnswerLost(w) \/ CallFails(w)
  BY <1>1, TypeParts, TypePartsNext, WorkerRows, WorkerDrafts, WorkerMemory, WorkerOther
<1>2. CASE ReconcilerStep
  BY <1>2, ReconcilerType
<1>3. CASE \E p \in Processes : Crash(p)
  BY <1>3, CrashType
<1>4. CASE \E r \in Recipients : OutboxStep(r) \/ ClaimGrowsOld(r)
  BY <1>4, OutboxType
<1>5. CASE \E o \in Operators : OperatorReads(o) \/ OperatorWrites(o)
  BY <1>5, OperatorType
<1>6. CASE OutboxRestarts \/ UNCHANGED vars
  <2>1. RowType /\ DraftType /\ MemoryType /\ OtherType
    BY TypeParts
  <2>2. RowType' /\ DraftType' /\ MemoryType' /\ {faults, requests}' \subseteq Nat
    BY <1>6, <2>1 DEF RowType, DraftType, MemoryType, OtherType, OutboxRestarts, Fault, vars, rowVars, procVars, counters
  <2>3. issue' \in [Workers -> BOOLEAN] /\ blocked' \in BOOLEAN
    BY <1>6, <2>1, Zenon DEF OtherType, OutboxRestarts, vars, procVars
  <2> QED
    BY <2>2, <2>3, TypePartsNext DEF OtherType
<1> HIDE DEF TypeOK
<1> QED
  BY <1>1, <1>2, <1>3, <1>4, <1>5, <1>6 DEF Next

-----------------------------------------------------------------------------
(* Drafts *)

Taken == {"accepted", "dispatched"}

Drafting(w) == SendDraft(w) \/ SendAnswerLost(w)

(* A step either leaves the drafts, or settles one, or adds one for a worker. *)
LEMMA DraftCases ==
  ASSUME [Next]_vars
  PROVE  \/ drafts' = drafts
         \/ \E r \in Recipients : \E d \in DOMAIN drafts[r], s \in DraftStates :
              /\ drafts' = [drafts EXCEPT ![r][d] = s]
              /\ drafts[r][d] \in Taken => s \in Taken
         \/ \E w \in Workers : Drafting(w)
<1>1. CASE \E w \in Workers : WorkerStep(w) \/ SendAnswerLost(w) \/ CallFails(w)
  BY <1>1 DEF WorkerStep, Drafting, CallFails, ResetStaleClaims, NothingDue, ClaimRecipient,
     ClaimWithoutSender, CheckStatus, ReturnRecipient, NoSender, SendFails, LinkDraft,
     MarkFailed, PauseForSenderIssue, AutoPause, RefreshCompletion, rowVars
<1>2. CASE ReconcilerStep \/ (\E p \in Processes : Crash(p)) \/ OutboxRestarts \/ UNCHANGED vars
  BY <1>2 DEF ReconcilerStep, ReconcileSent, ReconcileFailed, PauseIfSenderIssue, AutoPause, RefreshCompletion,
     Crash, OutboxRestarts, vars
<1>3. CASE \E r \in Recipients : OutboxStep(r) \/ ClaimGrowsOld(r)
  BY <1>3 DEF OutboxStep, OutboxSettles, CommitDispatch, FinalFailure, MessageAccepted, RetryableFailure, ReopenRow,
     ClaimGrowsOld, SetDraft, DraftStates, Taken
<1>4. CASE \E o \in Operators : OperatorReads(o) \/ OperatorWrites(o)
  BY <1>4 DEF OperatorReads, ReadForPause, ReadForResume, ReadForRetry, ReadForCancel, ReadForStart, ReadFor,
     OperatorWrites, PauseCampaign, StartExistingCampaign, ResumeCampaign, RetryFailedCampaign, CancelCampaign
<1> QED
  BY <1>1, <1>2, <1>3, <1>4 DEF Next

(* No draft is lost, and what WhatsApp took stays taken. *)
LEMMA DraftsKept ==
  ASSUME TypeOK, MemoryInv, [Next]_vars, NEW r \in Recipients
  PROVE  /\ Len(drafts'[r]) >= Len(drafts[r])
         /\ (~ \E w \in Workers : Drafting(w)) => Len(drafts'[r]) = Len(drafts[r])
         /\ \A d \in DOMAIN drafts[r] :
              d \in DOMAIN drafts'[r] /\ (drafts[r][d] \in Taken => drafts'[r][d] \in Taken)
<1>0. DraftType
  BY TypeParts
<1>1. CASE drafts' = drafts
  BY <1>0, <1>1 DEF DraftType
<1>2. CASE \E q \in Recipients : \E d \in DOMAIN drafts[q], s \in DraftStates :
              /\ drafts' = [drafts EXCEPT ![q][d] = s]
              /\ drafts[q][d] \in Taken => s \in Taken
  <2>0. PICK q \in Recipients : \E d \in DOMAIN drafts[q], s \in DraftStates :
              /\ drafts' = [drafts EXCEPT ![q][d] = s]
              /\ drafts[q][d] \in Taken => s \in Taken
    BY <1>2
  <2>1. PICK d \in DOMAIN drafts[q], s \in DraftStates :
              /\ drafts' = [drafts EXCEPT ![q][d] = s]
              /\ drafts[q][d] \in Taken => s \in Taken
    BY <2>0
  <2>2. DEFINE new == [drafts[q] EXCEPT ![d] = s]
  <2>3. /\ Len(new) = Len(drafts[q]) /\ DOMAIN new = DOMAIN drafts[q]
        /\ \A e \in DOMAIN drafts[q] : drafts[q][e] \in Taken => new[e] \in Taken
    BY <2>1, <1>0 DEF DraftType
  <2>4. drafts' = [drafts EXCEPT ![q] = new]
    BY <2>1
  <2> HIDE DEF new
  <2> QED
    BY <2>3, <2>4, <1>0 DEF DraftType
<1>3. CASE \E w \in Workers : Drafting(w)
  <2>1. PICK w \in Workers : Drafting(w)
    BY <1>3
  <2>2. cur[w] \in Recipients /\ drafts' = [drafts EXCEPT ![cur[w]] = Append(@, "open")]
    BY <2>1, Holding DEF Drafting, SendDraft, SendAnswerLost, AddDraft, At
  <2>3. "open" \in DraftStates
    BY DEF DraftStates
  <2> QED
    BY <2>1, <2>2, <2>3, <1>0 DEF DraftType
<1> QED
  BY <1>1, <1>2, <1>3, DraftCases

-----------------------------------------------------------------------------
(* Whom the workers work for *)

(* A worker's step touches only its own memory. *)
LEMMA OwnMemory ==
  ASSUME TypeOK, NEW w \in Workers, WorkerStep(w) \/ SendAnswerLost(w) \/ CallFails(w),
         NEW v \in Workers, v # w
  PROVE  pc'[v] = pc[v] /\ cur'[v] = cur[v] /\ made'[v] = made[v]
<1>1. pc \in [Processes -> {"idle", "claiming", "claimed", "returning", "sending", "linking",
                           "failing", "pausing", "finishing", "refreshing"}]
      /\ cur \in [Workers -> Recipients \cup {NoRecipient}] /\ made \in [Workers -> Nat]
  BY DEF TypeOK
<1> QED
  BY <1>1 DEF WorkerStep, SendAnswerLost, CallFails, ResetStaleClaims, NothingDue, ClaimRecipient,
     ClaimWithoutSender, CheckStatus, ReturnRecipient, NoSender, SendDraft, SendFails, LinkDraft,
     MarkFailed, PauseForSenderIssue, AutoPause, RefreshCompletion, At, Forget, Processes

(* What a worker's step does to its own memory. *)
LEMMA WorkerMoves ==
  ASSUME TypeOK, NEW w \in Workers, WorkerStep(w) \/ SendAnswerLost(w) \/ CallFails(w)
  PROVE  \/ \E r \in Recipients : ClaimRecipient(w, r) /\ pc'[w] = "claimed" /\ cur'[w] = r
         \/ /\ SendDraft(w)
            /\ pc[w] = "sending" /\ pc'[w] = "linking" /\ cur' = cur /\ made'[w] = Len(drafts[cur[w]]) + 1
         \/ /\ SendAnswerLost(w)
            /\ pc[w] = "sending" /\ pc'[w] = "failing" /\ cur' = cur
         \/ /\ ~Drafting(w) /\ cur' = cur
            /\ pc'[w] = "sending" => pc[w] = "claimed"
            /\ pc'[w] \in {"returning", "failing"} => pc[w] \in {"claimed", "returning", "sending", "linking"}
            /\ pc'[w] \notin {"claimed", "linking"}
         \/ ~Drafting(w) /\ pc'[w] \in {"idle", "claiming"}
<1>1. pc \in [Processes -> {"idle", "claiming", "claimed", "returning", "sending", "linking",
                           "failing", "pausing", "finishing", "refreshing"}]
      /\ cur \in [Workers -> Recipients \cup {NoRecipient}] /\ made \in [Workers -> Nat] /\ w \in Processes
  BY DEF TypeOK, Processes
<1> USE <1>1 DEF At
<1>2. CASE \E r \in Recipients : ClaimRecipient(w, r)
  BY <1>2 DEF ClaimRecipient
<1>3. CASE SendDraft(w) \/ SendAnswerLost(w)
  BY <1>3 DEF SendDraft, SendAnswerLost
<1>4. CASE RefreshCompletion(w) \/ ResetStaleClaims(w) \/ NothingDue(w) \/ ClaimWithoutSender(w)
  BY <1>4 DEF RefreshCompletion, ResetStaleClaims, NothingDue, ClaimWithoutSender, Drafting, SendDraft, SendAnswerLost
<1>5. CASE CheckStatus(w) \/ ReturnRecipient(w) \/ NoSender(w) \/ SendFails(w)
  BY <1>5 DEF CheckStatus, ReturnRecipient, NoSender, SendFails, Drafting, SendDraft, SendAnswerLost, AddDraft
<1>6. CASE LinkDraft(w) \/ CallFails(w) \/ MarkFailed(w) \/ PauseForSenderIssue(w) \/ AutoPause(w)
  BY <1>6 DEF LinkDraft, CallFails, MarkFailed, PauseForSenderIssue, AutoPause, Drafting, SendDraft, SendAnswerLost
<1> QED
  BY <1>2, <1>3, <1>4, <1>5, <1>6 DEF WorkerStep

(* The others leave a worker where it is, or forget it when it dies. *)
LEMMA OthersMove ==
  ASSUME TypeOK, [Next]_vars, NEW v \in Workers,
         ~ \E w \in Workers : WorkerStep(w) \/ SendAnswerLost(w) \/ CallFails(w)
  PROVE  \/ pc'[v] = pc[v] /\ cur'[v] = cur[v] /\ made'[v] = made[v]
         \/ pc'[v] = "idle"
<1>1. pc \in [Processes -> {"idle", "claiming", "claimed", "returning", "sending", "linking",
                           "failing", "pausing", "finishing", "refreshing"}]
      /\ cur \in [Workers -> Recipients \cup {NoRecipient}] /\ made \in [Workers -> Nat]
      /\ v \in Processes /\ v # Reconciler
  BY Actors DEF TypeOK, Processes
<1> USE <1>1
<1>2. CASE ReconcilerStep
  BY <1>2 DEF ReconcilerStep, ReconcileSent, ReconcileFailed, PauseIfSenderIssue, AutoPause, RefreshCompletion, At, Forget
<1>3. CASE \E p \in Processes : Crash(p)
  BY <1>3 DEF Crash, Forget
<1>4. CASE \/ \E r \in Recipients : OutboxStep(r) \/ ClaimGrowsOld(r)
           \/ OutboxRestarts \/ UNCHANGED vars
  BY <1>4 DEF OutboxStep, OutboxSettles, CommitDispatch, FinalFailure, MessageAccepted, RetryableFailure, ReopenRow,
     ClaimGrowsOld, OutboxRestarts, vars, procVars
<1>5. CASE \E o \in Operators : OperatorReads(o) \/ OperatorWrites(o)
  BY <1>5 DEF OperatorReads, ReadForPause, ReadForResume, ReadForRetry, ReadForCancel, ReadForStart, ReadFor, procVars,
     OperatorWrites, PauseCampaign, StartExistingCampaign, ResumeCampaign, RetryFailedCampaign, CancelCampaign
<1> HIDE <1>1
<1> HIDE DEF TypeOK
<1> QED
  BY <1>2, <1>3, <1>4, <1>5 DEF Next

(* Who is about to send or to link still has its recipient and its draft. *)
LEMMA MemoryStep ==
  ASSUME TypeOK, MemoryInv, [Next]_vars
  PROVE  MemoryInv'
<1> SUFFICES ASSUME NEW v \in Workers
             PROVE  /\ pc'[v] \in {"claimed", "returning", "sending", "linking", "failing"} => cur'[v] \in Recipients
                    /\ pc'[v] = "linking" => made'[v] \in 1..Len(drafts'[cur'[v]])
  BY DEF MemoryInv
<1>1. /\ pc[v] \in {"claimed", "returning", "sending", "linking", "failing"} => cur[v] \in Recipients
      /\ pc[v] = "linking" => made[v] \in 1..Len(drafts[cur[v]])
      /\ made[v] \in Nat
      /\ \A r \in Recipients : Len(drafts[r]) \in Nat /\ Len(drafts'[r]) \in Nat
    <2>1. DraftType /\ DraftType' /\ MemoryType
      BY TypeParts, TypeStep DEF TypeOK, DraftType
    <2> QED
      BY <2>1 DEF MemoryInv, DraftType, MemoryType
<1>2. \A r \in Recipients : Len(drafts'[r]) >= Len(drafts[r])
  BY DraftsKept
<1>3. CASE pc'[v] = pc[v] /\ cur'[v] = cur[v] /\ made'[v] = made[v]
  BY <1>1, <1>2, <1>3
<1>4. CASE pc'[v] \in {"idle", "claiming"}
  BY <1>4
<1>5. CASE WorkerStep(v) \/ SendAnswerLost(v) \/ CallFails(v)
  <2>1. CASE SendDraft(v)
    <3>1. cur[v] \in Recipients /\ drafts' = [drafts EXCEPT ![cur[v]] = Append(@, "open")] /\ cur'[v] = cur[v]
          /\ made'[v] = Len(drafts[cur[v]]) + 1
      BY <1>1, <2>1 DEF SendDraft, AddDraft, At, TypeOK
    <3>2. "open" \in DraftStates
      BY DEF DraftStates
    <3>3. Len(drafts'[cur[v]]) = Len(drafts[cur[v]]) + 1
      BY <3>1, <3>2 DEF TypeOK
    <3> QED
      BY <1>1, <3>1, <3>3
  <2>2. CASE ~SendDraft(v)
    BY <1>1, <1>5, <2>2, WorkerMoves
  <2> QED
    BY <2>1, <2>2
<1>6. CASE \E w \in Workers : w # v /\ (WorkerStep(w) \/ SendAnswerLost(w) \/ CallFails(w))
  BY <1>3, <1>6, OwnMemory
<1>7. CASE ~ \E w \in Workers : WorkerStep(w) \/ SendAnswerLost(w) \/ CallFails(w)
  BY <1>3, <1>4, <1>7, OthersMove
<1> QED
  BY <1>5, <1>6, <1>7

-----------------------------------------------------------------------------
(* Attempts *)

(* The workers that may still make a draft are finitely many. *)
LEMMA MayDraftFinite ==
  ASSUME NEW r \in Recipients
  PROVE  IsFiniteSet(MayDraft(r)) /\ Cardinality(MayDraft(r)) \in Nat
<1>1. MayDraft(r) \subseteq Workers
  BY DEF MayDraft
<1>2. IsFiniteSet(MayDraft(r))
  BY <1>1, Actors, FS_Subset
<1> QED
  BY <1>2, FS_CardinalityType

(* A subset of a finite set is not larger. *)
LEMMA Fewer ==
  ASSUME NEW S, NEW T, IsFiniteSet(T), S \subseteq T
  PROVE  IsFiniteSet(S) /\ Cardinality(S) \in Nat /\ Cardinality(S) <= Cardinality(T)
BY FS_Subset, FS_CardinalityType

(* One more worker counts for at most one. *)
LEMMA OneMore ==
  ASSUME NEW S, NEW T, NEW w, IsFiniteSet(T), S \subseteq T \cup {w}
  PROVE  Cardinality(S) \in Nat /\ Cardinality(S) <= Cardinality(T) + 1
<1>0. Cardinality(T) \in Nat
  BY FS_CardinalityType
<1>1. IsFiniteSet(T \cup {w}) /\ Cardinality(T \cup {w}) <= Cardinality(T) + 1
  <2>1. /\ IsFiniteSet(T \cup {w})
        /\ Cardinality(T \cup {w}) = IF w \in T THEN Cardinality(T) ELSE Cardinality(T) + 1
    BY FS_AddElement
  <2> QED
    BY <1>0, <2>1
<1>2. IsFiniteSet(S) /\ Cardinality(S) \in Nat /\ Cardinality(S) <= Cardinality(T \cup {w})
  BY <1>1, Fewer
<1> QED
  BY <1>1, <1>2, FS_CardinalityType

(* A worker that stops counting leaves one fewer. *)
LEMMA OneLess ==
  ASSUME NEW S, NEW T, NEW w \in T, IsFiniteSet(T), S \subseteq T \ {w}
  PROVE  Cardinality(S) \in Nat /\ Cardinality(S) + 1 <= Cardinality(T)
<1>1. IsFiniteSet(T \ {w}) /\ Cardinality(T \ {w}) = Cardinality(T) - 1
  BY FS_RemoveElement
<1>2. IsFiniteSet(S) /\ Cardinality(S) \in Nat /\ Cardinality(S) <= Cardinality(T \ {w})
  BY <1>1, Fewer
<1> QED
  BY <1>1, <1>2, FS_CardinalityType

(* Only a claim lets a worker draft, and who drafted may not do so again. *)
LEMMA MayDraftMoves ==
  ASSUME TypeOK, [Next]_vars, NEW r \in Recipients
  PROVE  /\ (~ \E w \in Workers : ClaimRecipient(w, r)) => MayDraft(r)' \subseteq MayDraft(r)
         /\ \A w \in Workers : ClaimRecipient(w, r) => MayDraft(r)' \subseteq MayDraft(r) \cup {w}
         /\ \A w \in Workers : Drafting(w) => w \notin MayDraft(r)'
<1>1. ASSUME NEW v \in Workers, v \in MayDraft(r)', v \notin MayDraft(r)
      PROVE  ClaimRecipient(v, r)
  <2>1. cur'[v] = r /\ pc'[v] \in {"claimed", "sending"} /\ ~(cur[v] = r /\ pc[v] \in {"claimed", "sending"})
    BY <1>1 DEF MayDraft
  <2>2. WorkerStep(v) \/ SendAnswerLost(v) \/ CallFails(v)
    BY <2>1, OwnMemory, OthersMove
  <2>3. cur \in [Workers -> Recipients \cup {NoRecipient}]
    BY DEF TypeOK
  <2> QED
    BY <2>1, <2>2, <2>3, WorkerMoves
<1>2. ASSUME NEW w \in Workers, ClaimRecipient(w, r), NEW v \in Workers, ClaimRecipient(v, r)
      PROVE  v = w
  BY <1>2 DEF ClaimRecipient, At, TypeOK, Processes
<1>3. ASSUME NEW w \in Workers, Drafting(w)
      PROVE  w \notin MayDraft(r)'
  <2>1. pc'[w] \in {"linking", "failing"}
    BY <1>3 DEF Drafting, SendDraft, SendAnswerLost, At, TypeOK, Processes
  <2> QED
    BY <2>1 DEF MayDraft
<1>4. MayDraft(r)' \subseteq Workers
  BY DEF MayDraft
<1> QED
  BY <1>1, <1>2, <1>3, <1>4

(* A claim counts an attempt, a retry counts one more human, nothing else is counted. *)
LEMMA Counting ==
  ASSUME TypeOK, [Next]_vars
  PROVE  \/ attempts' = attempts /\ retried' = retried
         \/ \E w \in Workers, r \in Recipients :
              ClaimRecipient(w, r) /\ attempts' = [attempts EXCEPT ![r] = @ + 1] /\ retried' = retried
         \/ \E o \in Operators : RetryFailedCampaign(o)
<1>1. CASE \E w \in Workers : WorkerStep(w) \/ SendAnswerLost(w) \/ CallFails(w)
  BY <1>1 DEF WorkerStep, SendAnswerLost, CallFails, ResetStaleClaims, NothingDue, ClaimRecipient,
     ClaimWithoutSender, CheckStatus, ReturnRecipient, NoSender, SendDraft, SendFails, LinkDraft,
     MarkFailed, PauseForSenderIssue, AutoPause, RefreshCompletion, rowVars, counters
<1>2. CASE ReconcilerStep \/ (\E p \in Processes : Crash(p)) \/ OutboxRestarts \/ UNCHANGED vars
  BY <1>2 DEF ReconcilerStep, ReconcileSent, ReconcileFailed, PauseIfSenderIssue, AutoPause, RefreshCompletion,
     Crash, OutboxRestarts, vars, rowVars, counters
<1>3. CASE \E r \in Recipients : OutboxStep(r) \/ ClaimGrowsOld(r)
  BY <1>3 DEF OutboxStep, OutboxSettles, CommitDispatch, FinalFailure, MessageAccepted, RetryableFailure, ReopenRow,
     ClaimGrowsOld, rowVars, counters
<1>4. CASE \E o \in Operators : OperatorReads(o) \/ OperatorWrites(o)
  BY <1>4 DEF OperatorReads, ReadForPause, ReadForResume, ReadForRetry, ReadForCancel, ReadForStart, ReadFor,
     OperatorWrites, PauseCampaign, StartExistingCampaign, ResumeCampaign, CancelCampaign, rowVars, counters
<1> HIDE DEF TypeOK
<1> QED
  BY <1>1, <1>2, <1>3, <1>4 DEF Next

(* A worker that claims or an operator who retries makes no draft in that step. *)
LEMMA NotWhileDrafting ==
  ASSUME TypeOK, NEW v \in Workers, Drafting(v)
  PROVE  /\ attempts' = attempts /\ retried' = retried
         /\ v \in MayDraft(cur[v]) /\ cur' = cur
         /\ drafts' = [drafts EXCEPT ![cur[v]] = Append(@, "open")]
         /\ \A w \in Workers, r \in Recipients : ~ClaimRecipient(w, r)
<1>1. /\ attempts' = attempts /\ retried' = retried /\ cur' = cur
      /\ pc[v] = "sending"
      /\ pc' = [pc EXCEPT ![v] = "linking"] \/ pc' = [pc EXCEPT ![v] = "failing"]
      /\ drafts' = [drafts EXCEPT ![cur[v]] = Append(@, "open")]
  <2>1. CASE SendDraft(v)
    BY <2>1 DEF SendDraft, AddDraft, At, rowVars, counters
  <2>2. CASE SendAnswerLost(v)
    BY <2>2 DEF SendAnswerLost, AddDraft, At, rowVars
  <2> QED
    BY <2>1, <2>2 DEF Drafting
<1>2. v \in MayDraft(cur[v])
  BY <1>1 DEF MayDraft
<1>3. \A w \in Workers, r \in Recipients : ~ClaimRecipient(w, r)
  BY <1>1 DEF ClaimRecipient, At, TypeOK, Processes
<1> QED
  BY <1>1, <1>2, <1>3

(* A recipient's drafts, and those still to come, stay within its attempts. *)
LEMMA AttemptStep ==
  ASSUME TypeOK, MemoryInv, AttemptInv, [Next]_vars
  PROVE  AttemptInv'
<1> SUFFICES ASSUME NEW r \in Recipients
             PROVE  Len(drafts'[r]) + Cardinality(MayDraft(r)') <= attempts'[r] + MaxRetries * retried'[r]
  BY DEF AttemptInv
<1>1. /\ Len(drafts[r]) \in Nat /\ attempts[r] \in Nat /\ attempts[r] <= MaxRetries /\ retried[r] \in Nat
      /\ MaxRetries \in Nat /\ MaxRetries * retried[r] \in Nat
      /\ Cardinality(MayDraft(r)) \in Nat /\ IsFiniteSet(MayDraft(r))
      /\ Len(drafts[r]) + Cardinality(MayDraft(r)) <= attempts[r] + MaxRetries * retried[r]
  BY Actors, MayDraftFinite DEF TypeOK, AttemptInv
<1>2. CASE \E w \in Workers : Drafting(w)
  <2>1. PICK w \in Workers : Drafting(w)
    BY <1>2
  <2>2. attempts' = attempts /\ retried' = retried /\ MayDraft(r)' \subseteq MayDraft(r) \ {w}
    BY <2>1, NotWhileDrafting, MayDraftMoves
  <2>3. CASE cur[w] = r
    <3>1. Cardinality(MayDraft(r)') \in Nat /\ Cardinality(MayDraft(r)') + 1 <= Cardinality(MayDraft(r))
      BY <1>1, <2>1, <2>2, <2>3, NotWhileDrafting, OneLess
    <3>2. Len(drafts'[r]) = Len(drafts[r]) + 1
      <4>1. drafts' = [drafts EXCEPT ![r] = Append(@, "open")] /\ "open" \in DraftStates
        BY <2>1, <2>3, NotWhileDrafting DEF DraftStates
      <4> QED
        BY <4>1 DEF TypeOK
    <3> QED
      BY <1>1, <2>2, <3>1, <3>2
  <2>4. CASE cur[w] # r
    <3>1. Cardinality(MayDraft(r)') \in Nat /\ Cardinality(MayDraft(r)') <= Cardinality(MayDraft(r))
      BY <1>1, <2>2, Fewer
    <3>2. drafts'[r] = drafts[r]
      BY <2>1, <2>4, NotWhileDrafting DEF TypeOK
    <3> QED
      BY <1>1, <2>2, <3>1, <3>2
  <2> QED
    BY <2>3, <2>4
<1>3. CASE ~ \E w \in Workers : Drafting(w)
  <2>1. Len(drafts'[r]) = Len(drafts[r])
    BY <1>3, DraftsKept
  <2>2. CASE attempts' = attempts /\ retried' = retried
    <3>1. ~ \E w \in Workers : ClaimRecipient(w, r)
      BY <2>2 DEF ClaimRecipient, TypeOK
    <3>2. Cardinality(MayDraft(r)') \in Nat /\ Cardinality(MayDraft(r)') <= Cardinality(MayDraft(r))
      BY <1>1, <3>1, MayDraftMoves, Fewer
    <3> QED
      BY <1>1, <2>1, <2>2, <3>2
  <2>3. CASE \E w \in Workers, q \in Recipients :
               ClaimRecipient(w, q) /\ attempts' = [attempts EXCEPT ![q] = @ + 1] /\ retried' = retried
    <3>1. PICK w \in Workers, q \in Recipients :
               ClaimRecipient(w, q) /\ attempts' = [attempts EXCEPT ![q] = @ + 1] /\ retried' = retried
      BY <2>3
    <3>2. CASE q = r
      <4>1. Cardinality(MayDraft(r)') \in Nat /\ Cardinality(MayDraft(r)') <= Cardinality(MayDraft(r)) + 1
        BY <1>1, <3>1, <3>2, MayDraftMoves, OneMore
      <4>2. attempts'[r] = attempts[r] + 1 /\ retried'[r] = retried[r]
        BY <3>1, <3>2 DEF TypeOK
      <4> QED
        BY <1>1, <2>1, <4>1, <4>2
    <3>3. CASE q # r
      <4>1. attempts'[r] = attempts[r]
        BY <3>1, <3>3 DEF TypeOK
      <4>2. ~ \E v \in Workers : ClaimRecipient(v, r)
        BY <1>1, <4>1 DEF ClaimRecipient, TypeOK
      <4>3. Cardinality(MayDraft(r)') \in Nat /\ Cardinality(MayDraft(r)') <= Cardinality(MayDraft(r))
        BY <1>1, <4>2, MayDraftMoves, Fewer
      <4> QED
        BY <1>1, <2>1, <3>1, <4>1, <4>3
    <3> QED
      BY <3>2, <3>3
  <2>4. CASE \E o \in Operators : RetryFailedCampaign(o)
    <3>1. /\ \/ attempts'[r] = attempts[r] /\ retried'[r] = retried[r]
             \/ attempts'[r] = 0 /\ retried'[r] = retried[r] + 1
          /\ UNCHANGED <<pc, cur>>
      BY <2>4 DEF RetryFailedCampaign, procVars
    <3>2. MayDraft(r)' = MayDraft(r)
      BY <3>1 DEF MayDraft
    <3>3. CASE attempts'[r] = attempts[r] /\ retried'[r] = retried[r]
      BY <1>1, <2>1, <3>2, <3>3
    <3>4. CASE attempts'[r] = 0 /\ retried'[r] = retried[r] + 1
      <4>1. MaxRetries * (retried[r] + 1) = MaxRetries * retried[r] + MaxRetries
        BY <1>1
      <4> QED
        BY <1>1, <2>1, <3>2, <3>4, <4>1
    <3> QED
      BY <3>1, <3>3, <3>4
  <2> QED
    BY <2>2, <2>3, <2>4, Counting
<1> QED
  BY <1>2, <1>3

(* So they stay within what the humans asked for. *)
LEMMA AttemptsBound == TypeOK /\ AttemptInv => DraftsWithinAttempts
<1> SUFFICES ASSUME TypeOK, AttemptInv, NEW r \in Recipients
             PROVE  Len(drafts[r]) <= MaxRetries * (1 + retried[r])
  BY DEF DraftsWithinAttempts
<1>1. /\ Len(drafts[r]) \in Nat /\ attempts[r] \in Nat /\ attempts[r] <= MaxRetries /\ retried[r] \in Nat
      /\ MaxRetries \in Nat /\ MaxRetries * retried[r] \in Nat
      /\ Cardinality(MayDraft(r)) \in Nat
      /\ Len(drafts[r]) + Cardinality(MayDraft(r)) <= attempts[r] + MaxRetries * retried[r]
  BY Actors, MayDraftFinite DEF TypeOK, AttemptInv
<1>2. MaxRetries * (1 + retried[r]) = MaxRetries + MaxRetries * retried[r]
  BY <1>1
<1> QED
  BY <1>1, <1>2

-----------------------------------------------------------------------------
(* What the recipients are told *)

(* Whoever puts a recipient back leaves alone one with a draft in message_id. *)
LEMMA PutBackStep ==
  ASSUME TypeOK, MemoryInv, PutBackMeansUnlinked, [Next]_vars
  PROVE  PutBackMeansUnlinked'
<1> SUFFICES ASSUME NEW r \in Recipients, send'[r] = "pending"
             PROVE  link'[r] = 0
  BY DEF PutBackMeansUnlinked, Linked
<1>0. /\ send[r] = "pending" => link[r] = 0
      /\ send \in [Recipients -> {"pending", "queued", "sent", "failed", "skipped"}]
      /\ link \in [Recipients -> Nat]
  BY DEF PutBackMeansUnlinked, Linked, TypeOK
<1> USE <1>0
<1>1. CASE \E w \in Workers : WorkerStep(w) \/ SendAnswerLost(w) \/ CallFails(w)
  <2>1. PICK w \in Workers : WorkerStep(w) \/ SendAnswerLost(w) \/ CallFails(w)
    BY <1>1
  <2>2. CASE ResetStaleClaims(w) \/ ReturnRecipient(w)
    BY <2>2 DEF ResetStaleClaims, ReturnRecipient, Linked
  <2>3. CASE LinkDraft(w)
    BY <2>3 DEF LinkDraft
  <2>4. CASE NoSender(w) \/ MarkFailed(w) \/ \E q \in Recipients : ClaimRecipient(w, q)
    BY <2>4 DEF NoSender, MarkFailed, ClaimRecipient
  <2>5. CASE \/ NothingDue(w) \/ CheckStatus(w) \/ SendDraft(w) \/ SendFails(w) \/ SendAnswerLost(w) \/ CallFails(w)
             \/ ClaimWithoutSender(w) \/ PauseForSenderIssue(w) \/ AutoPause(w) \/ RefreshCompletion(w)
    BY <2>5 DEF NothingDue, CheckStatus, SendDraft, SendFails, SendAnswerLost, CallFails, ClaimWithoutSender,
       PauseForSenderIssue, AutoPause, RefreshCompletion, rowVars
  <2> QED
    BY <2>1, <2>2, <2>3, <2>4, <2>5 DEF WorkerStep
<1>2. CASE ReconcilerStep \/ (\E p \in Processes : Crash(p)) \/ OutboxRestarts \/ UNCHANGED vars
  BY <1>2 DEF ReconcilerStep, ReconcileSent, ReconcileFailed, PauseIfSenderIssue, AutoPause, RefreshCompletion,
     Crash, OutboxRestarts, vars, rowVars
<1>3. CASE \E q \in Recipients : OutboxStep(q) \/ ClaimGrowsOld(q)
  BY <1>3 DEF OutboxStep, OutboxSettles, CommitDispatch, FinalFailure, MessageAccepted, RetryableFailure, ReopenRow,
     ClaimGrowsOld, rowVars
<1>4. CASE \E o \in Operators : OperatorReads(o)
  BY <1>4 DEF OperatorReads, ReadForPause, ReadForResume, ReadForRetry, ReadForCancel, ReadForStart, ReadFor, rowVars
<1>5. CASE \E o \in Operators : OperatorWrites(o)
  BY <1>5 DEF OperatorWrites, PauseCampaign, StartExistingCampaign, ResumeCampaign, RetryFailedCampaign,
     CancelCampaign, With, Linked, rowVars
<1> HIDE <1>0
<1> HIDE DEF TypeOK
<1> QED
  BY <1>1, <1>2, <1>3, <1>4, <1>5 DEF Next

(* A recipient becomes sent only with a draft that WhatsApp took. *)
LEMMA BecomesSent ==
  ASSUME TypeOK, MemoryInv, [Next]_vars, NEW r \in Recipients, send'[r] = "sent"
  PROVE  \/ send[r] = "sent"
         \/ \E d \in DOMAIN drafts'[r] : drafts'[r][d] \in Taken
<1>0. /\ send \in [Recipients -> {"pending", "queued", "sent", "failed", "skipped"}]
      /\ DraftType
  BY TypeParts DEF TypeOK
<1>1. CASE \E w \in Workers : WorkerStep(w) \/ SendAnswerLost(w) \/ CallFails(w)
  BY <1>0, <1>1 DEF WorkerStep, SendAnswerLost, CallFails, ResetStaleClaims, NothingDue, ClaimRecipient,
     ClaimWithoutSender, CheckStatus, ReturnRecipient, NoSender, SendDraft, SendFails, LinkDraft,
     MarkFailed, PauseForSenderIssue, AutoPause, RefreshCompletion, rowVars
<1>2. CASE ReconcileSent
  <2>1. CASE send[r] # "sent"
    <3>1. link[r] # 0 /\ drafts[r][link[r]] \in Taken /\ drafts' = drafts
      BY <1>0, <1>2, <2>1 DEF ReconcileSent, Linked, DraftOf, With, Taken
    <3>2. link[r] \in DOMAIN drafts[r]
      BY <1>0, <3>1 DEF DraftType
    <3> QED
      BY <3>1, <3>2
  <2> QED
    BY <2>1
<1>3. CASE ReconcilerStep /\ ~ReconcileSent
  BY <1>0, <1>3 DEF ReconcilerStep, ReconcileFailed, PauseIfSenderIssue, AutoPause, RefreshCompletion, rowVars
<1>4. CASE (\E p \in Processes : Crash(p)) \/ OutboxRestarts \/ UNCHANGED vars
  BY <1>4 DEF Crash, OutboxRestarts, vars, rowVars
<1>5. CASE \E q \in Recipients : \E d \in DOMAIN drafts[q] : CommitDispatch(q, d)
  <2>1. PICK q \in Recipients : \E d \in DOMAIN drafts[q] : CommitDispatch(q, d)
    BY <1>5
  <2>2. PICK d \in DOMAIN drafts[q] : CommitDispatch(q, d)
    BY <2>1
  <2>3. CASE q = r
    <3>1. drafts' = [drafts EXCEPT ![r][d] = "dispatched"]
      BY <2>2, <2>3 DEF CommitDispatch, SetDraft
    <3>2. d \in DOMAIN drafts'[r] /\ drafts'[r][d] = "dispatched"
      BY <1>0, <2>2, <2>3, <3>1 DEF DraftType
    <3> QED
      BY <3>2 DEF Taken
  <2>4. CASE q # r
    BY <1>0, <2>2, <2>4 DEF CommitDispatch
  <2> QED
    BY <2>3, <2>4
<1>6. CASE \E q \in Recipients :
             ClaimGrowsOld(q) \/ \E d \in DOMAIN drafts[q] :
                                   FinalFailure(q, d) \/ MessageAccepted(q, d)
                                   \/ RetryableFailure(q, d) \/ ReopenRow(q, d)
  BY <1>6 DEF FinalFailure, MessageAccepted, RetryableFailure, ReopenRow, ClaimGrowsOld, rowVars
<1>7. CASE \E o \in Operators : OperatorReads(o)
  BY <1>7 DEF OperatorReads, ReadForPause, ReadForResume, ReadForRetry, ReadForCancel, ReadForStart, ReadFor, rowVars
<1>8. CASE \E o \in Operators : OperatorWrites(o)
  BY <1>0, <1>8 DEF OperatorWrites, PauseCampaign, StartExistingCampaign, ResumeCampaign, RetryFailedCampaign,
     CancelCampaign, rowVars
<1> HIDE DEF TypeOK
<1> QED
  BY <1>1, <1>2, <1>3, <1>4, <1>5, <1>6, <1>7, <1>8 DEF Next, OutboxStep, OutboxSettles

(* A recipient reported as sent has a draft that WhatsApp took. *)
LEMMA SentStep ==
  ASSUME TypeOK, MemoryInv, SentMeansAccepted, [Next]_vars
  PROVE  SentMeansAccepted'
<1> SUFFICES ASSUME NEW r \in Recipients, send'[r] = "sent"
             PROVE  \E d \in DOMAIN drafts'[r] : drafts'[r][d] \in Taken
  BY DEF SentMeansAccepted, Taken
<1>1. CASE send[r] = "sent"
  <2>1. PICK d \in DOMAIN drafts[r] : drafts[r][d] \in Taken
    BY <1>1 DEF SentMeansAccepted, Taken
  <2> QED
    BY <2>1, DraftsKept
<1>2. CASE send[r] # "sent"
  BY <1>2, BecomesSent
<1> QED
  BY <1>1, <1>2

-----------------------------------------------------------------------------
(* Theorems *)

(* A campaign that was just started satisfies the invariant. *)
LEMMA InitInv == Init => IInv
<1> SUFFICES ASSUME Init PROVE IInv
  OBVIOUS
<1>1. TypeOK
  BY InitType
<1>2. MemoryInv
  BY Actors DEF Init, MemoryInv, Processes
<1>3. AttemptInv
  <2> SUFFICES ASSUME NEW r \in Recipients
               PROVE  Len(drafts[r]) + Cardinality(MayDraft(r)) <= attempts[r] + MaxRetries * retried[r]
    BY DEF AttemptInv
  <2>1. MayDraft(r) = {}
    BY DEF MayDraft, Init, Processes
  <2>2. Cardinality(MayDraft(r)) = 0
    BY <2>1, FS_EmptySet
  <2>3. drafts[r] = <<>> /\ attempts[r] = 0 /\ retried[r] = 0
    BY DEF Init
  <2>4. MaxRetries * 0 = 0
    BY Actors
  <2> QED
    BY <2>2, <2>3, <2>4
<1>4. SentMeansAccepted /\ PutBackMeansUnlinked
  BY DEF Init, SentMeansAccepted, PutBackMeansUnlinked, Linked
<1> QED
  BY <1>1, <1>2, <1>3, <1>4, AttemptsBound DEF IInv

(* Every step keeps the invariant. *)
LEMMA InvStep == IInv /\ [Next]_vars => IInv'
<1> SUFFICES ASSUME IInv, [Next]_vars PROVE IInv'
  OBVIOUS
<1>1. TypeOK /\ MemoryInv /\ AttemptInv /\ SentMeansAccepted /\ PutBackMeansUnlinked
  BY DEF IInv
<1>2. TypeOK' /\ MemoryInv' /\ AttemptInv' /\ SentMeansAccepted' /\ PutBackMeansUnlinked'
  BY <1>1, TypeStep, MemoryStep, AttemptStep, SentStep, PutBackStep
<1>3. DraftsWithinAttempts'
  BY <1>2, AttemptsBound, PTL
<1> QED
  BY <1>2, <1>3 DEF IInv

(* What the workers, the reconciler, the outbox and the operators preserve
   together holds in every reachable state, for any number of each. *)
THEOREM InductiveInvariant == Spec => []IInv
BY InitInv, InvStep, PTL DEF Spec

(* The rows and the memory of the processes keep their types. *)
THEOREM TypeCorrect == Spec => []TypeOK
<1>1. IInv => TypeOK
  BY DEF IInv
<1> QED
  BY <1>1, InductiveInvariant, PTL

(* A recipient reported as sent has a message that WhatsApp took. *)
THEOREM SentIsAccepted == Spec => []SentMeansAccepted
<1>1. IInv => SentMeansAccepted
  BY DEF IInv
<1> QED
  BY <1>1, InductiveInvariant, PTL

(* A recipient who is to be written to again has no draft in message_id. *)
THEOREM PutBackIsUnlinked == Spec => []PutBackMeansUnlinked
<1>1. IInv => PutBackMeansUnlinked
  BY DEF IInv
<1> QED
  BY <1>1, InductiveInvariant, PTL

(* However claims go stale, answers get lost and operators resume, a recipient is
   given at most MaxRetries drafts for each time a human asked for one. *)
THEOREM DraftsBounded == Spec => []DraftsWithinAttempts
<1>1. IInv => DraftsWithinAttempts
  BY DEF IInv
<1> QED
  BY <1>1, InductiveInvariant, PTL
=============================================================================
