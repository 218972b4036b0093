----------------------------- MODULE EmailCampaign -----------------------------
(***************************************************************************)
(* One e-mail campaign of an organization: its recipient list, the          *)
(* suppression list, the sender, the dispatch worker and the requests of    *)
(* operators.  A request reads what it checks in one statement and writes   *)
(* in a later one, and a request that starts the campaign goes on to        *)
(* dispatch a first batch itself, beside the worker.                        *)
(*                                                                         *)
(* A dispatcher's transaction counts the open rows as they are committed,   *)
(* with its own change: "committing" stands between that count and the      *)
(* commit.  Replacing the list deletes the rows of the version before,      *)
(* and their unsubscribe tokens with them.                                  *)
(*                                                                         *)
(* Mail texts, the invalid addresses of a list (skipped for good, like the  *)
(* suppressed ones), test mails, reports and the audit log are left out.    *)
(* The batch limit is not counted: a request's batch may end anywhere.      *)
(***************************************************************************)
EXTENDS Naturals, FiniteSets

CONSTANTS
  Emails,       \* the addresses of the audience
  Blocked,      \* addresses on the suppression list from the start
  Workers,      \* processes that run processEmailCampaignDispatch
  Operators,    \* requests of the API, one at a time each
  SenderChanges,\* statuses the requests about the sender give it
  MaxEdits,     \* bound: replacements of the recipient list
  MaxRequests,  \* bound: operators' requests and changes of lists and sender
  MaxFaults     \* bound: crashes, lost answers, failed statements

Dispatchers == Workers \cup Operators
Versions == 0..MaxEdits
Rows == Emails \X Versions
NoRow == <<"none", 0>>

ASSUME EmailAssumption ==
  /\ "none" \notin Emails
  /\ Blocked \subseteq Emails
  /\ Workers \cap Operators = {}
  /\ SenderChanges \subseteq {"draft", "verified", "failed", "disabled", "deleted"}
  /\ {MaxEdits, MaxRequests, MaxFaults} \subseteq Nat

VARIABLES
  campaign,    \* email_campaigns.status, "none" before it is created
  sender,      \* email_senders.status, "deleted" once deleted_at is set
  status,      \* email_campaign_recipients.status; "none" before the row is
               \* inserted, "gone" once it is deleted
  version,     \* how often the list has been replaced
  tokens,      \* rows that have an unsubscribe token
  suppressed,  \* email_suppression_list
  mailed,      \* mails the provider has accepted, per row
  pc,          \* where a worker or a request is
  cur,         \* the row a dispatcher has claimed
  list,        \* addresses a request has prepared as pending
  outcome,     \* what the open transaction of a dispatcher makes of its row
  verdict,     \* and of the campaign, "open" when rows are still open
  requests, faults

listVars == <<status, version, tokens>>
procVars == <<pc, cur, list, outcome, verdict>>
vars == <<campaign, sender, listVars, suppressed, mailed, procVars, requests, faults>>

CampaignStatuses == {"none", "draft", "sending", "paused", "sent", "failed", "cancelled"}
RowStatuses == {"none", "skipped", "pending", "sending", "sent", "failed", "unsubscribed", "gone"}
Dispatching == {"claimed", "mailing", "accepted", "refused", "committing"}
Checked == {"creating", "editing", "starting", "pausing", "cancelling"}

\* The counts of refreshCampaignCompletion.
Open == {"pending", "sending"}

TypeOK ==
  /\ campaign \in CampaignStatuses
  /\ sender \in {"draft", "verified", "failed", "disabled", "deleted"}
  /\ status \in [Rows -> RowStatuses]
  /\ version \in Versions
  /\ tokens \subseteq Rows
  /\ suppressed \subseteq Emails
  /\ mailed \in [Rows -> Nat]
  /\ pc \in [Dispatchers -> {"idle", "batch"} \cup Checked \cup Dispatching]
  /\ cur \in [Dispatchers -> Rows \cup {NoRow}]
  /\ \A p \in Dispatchers : pc[p] \in Dispatching => cur[p] \in Rows
  /\ list \in [Operators -> SUBSET Emails]
  /\ outcome \in [Dispatchers -> {"sent", "failed"}]
  /\ verdict \in [Dispatchers -> {"open", "sent", "failed"}]
  /\ requests \in Nat
  /\ faults \in Nat

Init ==
  /\ campaign = "none"
  /\ sender = "verified"
  /\ status = [r \in Rows |-> "none"]
  /\ version = 0
  /\ tokens = {}
  /\ suppressed = Blocked
  /\ mailed = [r \in Rows |-> 0]
  /\ pc = [p \in Dispatchers |-> "idle"]
  /\ cur = [p \in Dispatchers |-> NoRow]
  /\ list = [o \in Operators |-> {}]
  /\ outcome = [p \in Dispatchers |-> "failed"]
  /\ verdict = [p \in Dispatchers |-> "open"]
  /\ requests = 0
  /\ faults = 0

-----------------------------------------------------------------------------
(* Helpers *)

Request == requests < MaxRequests /\ requests' = requests + 1 /\ UNCHANGED faults
Fault == faults < MaxFaults /\ faults' = faults + 1 /\ UNCHANGED requests
Expected == UNCHANGED <<requests, faults>>

At(p, from, to) == pc[p] = from /\ pc' = [pc EXCEPT ![p] = to]

Present(r) == status[r] \notin {"none", "gone"}

\* getSenderForUse finds the sender, whatever its status.
Usable == sender # "deleted"

\* prepareRecipients: the suppression list is read once, before the transaction
\* that writes the rows.
Prepared == Emails \ suppressed

\* insertRecipients, as version v of the list
Insert(v, pending) ==
  status' = [r \in Rows |->
               IF r[2] = v THEN IF r[1] \in pending THEN "pending" ELSE "skipped"
               ELSE IF status[r] = "none" THEN "none" ELSE "gone"]

\* Where a dispatcher looks for its next row.
Home(p) == IF p \in Workers THEN "idle" ELSE "batch"

\* The dispatcher has no open transaction any more.
Closed(p) ==
  /\ outcome' = [outcome EXCEPT ![p] = "failed"]
  /\ verdict' = [verdict EXCEPT ![p] = "open"]

Free(p) == cur' = [cur EXCEPT ![p] = NoRow] /\ Closed(p)

-----------------------------------------------------------------------------
(* The requests of operators *)

CreateCheck(o) ==
  /\ Request
  /\ campaign = "none" /\ \A q \in Operators : pc[q] # "creating"
  /\ At(o, "idle", "creating")
  /\ Usable
  /\ list' = [list EXCEPT ![o] = Prepared]
  /\ UNCHANGED <<campaign, sender, listVars, suppressed, mailed, cur, outcome, verdict>>

CreateWrite(o) ==
  /\ Expected
  /\ At(o, "creating", "idle")
  /\ campaign' = "draft"
  /\ Insert(version, list[o])
  /\ list' = [list EXCEPT ![o] = {}]
  /\ UNCHANGED <<sender, version, tokens, suppressed, mailed, cur, outcome, verdict>>

\* updateCampaign with a new list: the check of the status is the only one.
EditCheck(o) ==
  /\ Request
  /\ campaign = "draft"
  /\ At(o, "idle", "editing")
  /\ Usable
  /\ list' = [list EXCEPT ![o] = Prepared]
  /\ UNCHANGED <<campaign, sender, listVars, suppressed, mailed, cur, outcome, verdict>>

\* The delete waits for the rows other transactions hold.
NoOpenTransaction == \A p \in Dispatchers : pc[p] # "committing"

EditWrite(o) ==
  /\ Expected
  /\ version < MaxEdits
  /\ NoOpenTransaction
  /\ At(o, "editing", "idle")
  /\ version' = version + 1
  /\ Insert(version + 1, list[o])
  /\ tokens' = {}
  /\ list' = [list EXCEPT ![o] = {}]
  /\ UNCHANGED <<campaign, sender, suppressed, mailed, cur, outcome, verdict>>

StartCheck(o) ==
  /\ Request
  /\ campaign # "none"
  /\ sender = "verified"
  /\ \E r \in Rows : status[r] = "pending"
  /\ At(o, "idle", "starting")
  /\ UNCHANGED <<campaign, sender, listVars, suppressed, mailed, cur, list, outcome, verdict>>

\* The request goes on to processPendingBatch.
StartWrite(o) ==
  /\ Expected
  /\ At(o, "starting", "batch")
  /\ campaign' = "sending"
  /\ UNCHANGED <<sender, listVars, suppressed, mailed, cur, list, outcome, verdict>>

PauseCheck(o) ==
  /\ Request
  /\ campaign = "sending"
  /\ At(o, "idle", "pausing")
  /\ UNCHANGED <<campaign, sender, listVars, suppressed, mailed, cur, list, outcome, verdict>>

PauseWrite(o) ==
  /\ Expected
  /\ At(o, "pausing", "idle")
  /\ campaign' = "paused"
  /\ UNCHANGED <<sender, listVars, suppressed, mailed, cur, list, outcome, verdict>>

CancelCheck(o) ==
  /\ Request
  /\ campaign \in {"draft", "sending", "paused"}
  /\ At(o, "idle", "cancelling")
  /\ UNCHANGED <<campaign, sender, listVars, suppressed, mailed, cur, list, outcome, verdict>>

CancelWrite(o) ==
  /\ Expected
  /\ At(o, "cancelling", "idle")
  /\ campaign' = "cancelled"
  /\ UNCHANGED <<sender, listVars, suppressed, mailed, cur, list, outcome, verdict>>

\* addSuppression: the entry of the address is replaced.
AddSuppression(e) ==
  /\ Request
  /\ e \notin suppressed
  /\ suppressed' = suppressed \cup {e}
  /\ UNCHANGED <<campaign, sender, listVars, mailed, procVars>>

RemoveSuppression(e) ==
  /\ Request
  /\ e \in suppressed
  /\ suppressed' = suppressed \ {e}
  /\ UNCHANGED <<campaign, sender, listVars, mailed, procVars>>

\* updateSender, testSender, disableSender and deleteSender
SetSender(s) ==
  /\ Request
  /\ Usable /\ s # sender
  /\ s = "draft" => sender # "disabled"
  /\ sender' = s
  /\ UNCHANGED <<campaign, listVars, suppressed, mailed, procVars>>

\* unsubscribeByToken: the recipient follows the link of a mail it got.  The
\* update waits for a transaction that holds the row.
Unsubscribe(r) ==
  /\ Expected
  /\ mailed[r] > 0 /\ r \in tokens
  /\ \A p \in Dispatchers : ~(pc[p] = "committing" /\ cur[p] = r)
  /\ suppressed' = suppressed \cup {r[1]}
  /\ status' = [status EXCEPT ![r] = "unsubscribed"]
  /\ UNCHANGED <<campaign, sender, version, tokens, mailed, procVars>>

-----------------------------------------------------------------------------
(* Dispatch: the worker, and a request that has started the campaign *)

Claim_FirstList(p, r) ==
  /\ Expected
  /\ campaign = "sending" /\ status[r] = "pending" /\ r[2] = 0
  /\ At(p, Home(p), "claimed")
  /\ status' = [status EXCEPT ![r] = "sending"]
  /\ cur' = [cur EXCEPT ![p] = r]
  /\ UNCHANGED <<campaign, sender, version, tokens, suppressed, mailed, list, outcome, verdict>>

\* claimNextRecipient
Claim(p, r) ==
  /\ Expected
  /\ campaign = "sending" /\ status[r] = "pending"
  /\ At(p, Home(p), "claimed")
  /\ status' = [status EXCEPT ![r] = "sending"]
  /\ cur' = [cur EXCEPT ![p] = r]
  /\ UNCHANGED <<campaign, sender, version, tokens, suppressed, mailed, list, outcome, verdict>>

\* The request's batch is over.
EndBatch(p) ==
  /\ Expected
  /\ At(p, "batch", "idle")
  /\ UNCHANGED <<campaign, sender, listVars, suppressed, mailed, cur, list, outcome, verdict>>

\* An exception ends the batch; the row stays as it is.
Abandon(p) ==
  /\ pc' = [pc EXCEPT ![p] = "idle"]
  /\ Free(p)
  /\ UNCHANGED <<campaign, sender, listVars, suppressed, mailed, list>>

CreateToken_NotStored(p) ==
  /\ Expected
  /\ At(p, "claimed", "mailing")
  /\ Usable /\ Present(cur[p])
  /\ UNCHANGED <<campaign, sender, listVars, suppressed, mailed, cur, list, outcome, verdict>>

\* createUnsubscribeToken refers to the row.
CreateToken(p) ==
  /\ Expected
  /\ At(p, "claimed", "mailing")
  /\ Usable /\ Present(cur[p])
  /\ tokens' = tokens \cup {cur[p]}
  /\ UNCHANGED <<campaign, sender, status, version, suppressed, mailed, cur, list, outcome, verdict>>

\* The sender or the row is gone: nothing catches the error.
PreparationFails(p) ==
  /\ Expected
  /\ pc[p] = "claimed" /\ ~(Usable /\ Present(cur[p]))
  /\ Abandon(p)

SendMail(p) ==
  /\ Expected
  /\ At(p, "mailing", "accepted")
  /\ mailed' = [mailed EXCEPT ![cur[p]] = @ + 1]
  /\ UNCHANGED <<campaign, sender, listVars, suppressed, cur, list, outcome, verdict>>

\* The provider refuses the mail.
MailRefused(p) ==
  /\ Expected
  /\ At(p, "mailing", "refused")
  /\ UNCHANGED <<campaign, sender, listVars, suppressed, mailed, cur, list, outcome, verdict>>

\* The provider accepts the mail and its answer is lost.
MailAnswerLost(p) ==
  /\ Fault
  /\ At(p, "mailing", "refused")
  /\ mailed' = [mailed EXCEPT ![cur[p]] = @ + 1]
  /\ UNCHANGED <<campaign, sender, listVars, suppressed, cur, list, outcome, verdict>>

Completion_PendingOnly(r, s) ==
  LET seen == [status EXCEPT ![r] = s]
  IN  CASE \E x \in Rows : seen[x] = "pending" -> "open"
        [] \A x \in Rows : seen[x] \notin Open \cup {"sent"} -> "failed"
        [] OTHER -> "sent"

\* What refreshCampaignCompletion makes of the campaign when row r has become s:
\* it reads what is committed, and the change of its own transaction.
Completion(r, s) ==
  LET seen == [status EXCEPT ![r] = s]
  IN  CASE \E x \in Rows : seen[x] \in Open -> "open"
        [] \A x \in Rows : seen[x] \notin Open \cup {"sent"} -> "failed"
        [] OTHER -> "sent"

Record_AlwaysSent(p) ==
  /\ Expected
  /\ pc[p] \in {"accepted", "refused"}
  /\ Present(cur[p])
  /\ pc' = [pc EXCEPT ![p] = "committing"]
  /\ outcome' = [outcome EXCEPT ![p] = "sent"]
  /\ verdict' = [verdict EXCEPT ![p] = Completion(cur[p], "sent")]
  /\ UNCHANGED <<campaign, sender, listVars, suppressed, mailed, cur, list>>

\* The transaction that records the outcome has counted and is not committed.
Record(p) ==
  LET s == IF pc[p] = "accepted" THEN "sent" ELSE "failed" IN
  /\ Expected
  /\ pc[p] \in {"accepted", "refused"}
  /\ Present(cur[p])
  /\ pc' = [pc EXCEPT ![p] = "committing"]
  /\ outcome' = [outcome EXCEPT ![p] = s]
  /\ verdict' = [verdict EXCEPT ![p] = Completion(cur[p], s)]
  /\ UNCHANGED <<campaign, sender, listVars, suppressed, mailed, cur, list>>

Commit_Retries(p) ==
  /\ Expected
  /\ At(p, "committing", Home(p))
  /\ status' = [status EXCEPT ![cur[p]] = IF outcome[p] = "failed" THEN "pending" ELSE "sent"]
  /\ campaign' = IF campaign = "sending" /\ verdict[p] # "open" THEN verdict[p] ELSE campaign
  /\ Free(p)
  /\ UNCHANGED <<sender, version, tokens, suppressed, mailed, list>>

Commit(p) ==
  /\ Expected
  /\ At(p, "committing", Home(p))
  /\ status' = [status EXCEPT ![cur[p]] = outcome[p]]
  /\ campaign' = IF campaign = "sending" /\ verdict[p] # "open" THEN verdict[p] ELSE campaign
  /\ Free(p)
  /\ UNCHANGED <<sender, version, tokens, suppressed, mailed, list>>

\* The row is gone, so that email_send_events cannot refer to it: the first
\* transaction's error is caught and the second one's is not.
RecordRejected(p) ==
  /\ Expected
  /\ pc[p] \in {"accepted", "refused"} /\ ~Present(cur[p])
  /\ \/ /\ At(p, "accepted", "refused")
        /\ UNCHANGED <<campaign, sender, listVars, suppressed, mailed, cur, list, outcome, verdict>>
     \/ pc[p] = "refused" /\ Abandon(p)

\* A transaction fails: a mail that went out is then recorded as failed.
RecordFails(p) ==
  /\ Fault
  /\ \/ /\ pc[p] = "committing" /\ outcome[p] = "sent"
        /\ pc' = [pc EXCEPT ![p] = "refused"]
        /\ Closed(p)
        /\ UNCHANGED <<campaign, sender, listVars, suppressed, mailed, cur, list>>
     \/ pc[p] = "committing" /\ outcome[p] = "failed" /\ Abandon(p)

\* A worker or the API dies, at any point of what it does.
Crash(p) ==
  /\ Fault
  /\ pc[p] # "idle"
  /\ pc' = [pc EXCEPT ![p] = "idle"]
  /\ Free(p)
  /\ list' = [o \in Operators |-> IF o = p THEN {} ELSE list[o]]
  /\ UNCHANGED <<campaign, sender, listVars, suppressed, mailed>>

-----------------------------------------------------------------------------
Operate(o) ==
  \/ CreateCheck(o)
  \/ CreateWrite(o)
  \/ EditCheck(o)
  \/ EditWrite(o)
  \/ StartCheck(o)
  \/ StartWrite(o)
  \/ PauseCheck(o)
  \/ PauseWrite(o)
  \/ CancelCheck(o)
  \/ CancelWrite(o)

\* What a dispatcher does with the row it has claimed, faults apart.
Process(p) ==
  \/ CreateToken(p)
  \/ PreparationFails(p)
  \/ SendMail(p)
  \/ MailRefused(p)
  \/ Record(p)
  \/ Commit(p)
  \/ RecordRejected(p)

Next ==
  \/ \E o \in Operators : Operate(o)
  \/ \E e \in Emails : AddSuppression(e)
  \/ \E e \in Emails : RemoveSuppression(e)
  \/ \E s \in SenderChanges : SetSender(s)
  \/ \E r \in Rows : Unsubscribe(r)
  \/ \E p \in Dispatchers, r \in Rows : Claim(p, r)
  \/ \E p \in Operators : EndBatch(p)
  \/ \E p \in Dispatchers : Process(p)
  \/ \E p \in Dispatchers : MailAnswerLost(p)
  \/ \E p \in Dispatchers : RecordFails(p)
  \/ \E p \in Dispatchers : Crash(p)

\* The worker polls for ever and is restarted when it dies.  Of a request only
\* the part that holds rows is fair: an operator may never ask for anything.
Fairness ==
  /\ \A w \in Workers : WF_vars(\E r \in Rows : Claim(w, r))
  /\ \A p \in Dispatchers : WF_vars(Process(p))

Spec == Init /\ [][Next]_vars
FairSpec == Spec /\ Fairness

-----------------------------------------------------------------------------
(* Properties *)

\* Whatever two dispatchers, lost answers, failed transactions, crashes,
\* restarts of the campaign and replacements of its list do, a row is mailed
\* once at most: nothing puts a claimed row back (claimNextRecipient).
MailedOnce == \A r \in Rows : mailed[r] <= 1

\* A row recorded as sent has been accepted by the provider (processRecipient
\* records after sendMail, and never the answer of another row).
SentMeansMailed == \A r \in Rows : status[r] = "sent" => mailed[r] = 1

\* The unsubscribe link of every mail that went out works, for as long as the
\* recipient's row is there: its token was committed before the mail was sent.
LinksWork == \A r \in Rows : mailed[r] > 0 /\ Present(r) => r \in tokens

\* A dispatcher completes a campaign only when no row is left to mail, though it
\* counted in a transaction that sees neither the other dispatchers' open
\* transactions nor a replaced list (refreshCampaignCompletion).
CompletesWhenSettled ==
  [][ campaign = "sending" /\ campaign' \in {"sent", "failed"} =>
        \A r \in Rows : status'[r] \notin Open ]_vars

\* The recipients of a campaign that is sending are all taken up, unless it is
\* stopped: neither a failing batch nor a crash, nor a sender or a row that has
\* gone, keeps the dispatchers from the rows that are left (processPendingBatch).
PendingAreClaimed ==
  campaign = "sending" ~>
    (campaign # "sending" \/ \A r \in Rows : status[r] # "pending")

\* The strengthening of the three invariants above: one dispatcher per claimed
\* row, no claimed row ever open again, and how often a row has been mailed at
\* each point of its dispatch.
Unclaimed == {"none", "pending", "skipped"}

RowInv ==
  \A r \in Rows :
    /\ mailed[r] <= 1
    /\ status[r] \in Unclaimed => mailed[r] = 0
    /\ status[r] = "sent" => mailed[r] = 1
    /\ mailed[r] = 1 /\ Present(r) => r \in tokens
    /\ status[r] # "none" => r[2] <= version

HolderInv ==
  \A p \in Dispatchers :
    pc[p] \in Dispatching =>
      /\ status[cur[p]] \notin Unclaimed \cup {"sent"}
      /\ pc[p] \in {"claimed", "mailing"} => mailed[cur[p]] = 0
      /\ pc[p] = "accepted" => mailed[cur[p]] = 1
      /\ pc[p] # "claimed" /\ Present(cur[p]) => cur[p] \in tokens
      /\ pc[p] = "committing" =>
           /\ Present(cur[p])
           /\ outcome[p] = "sent" => mailed[cur[p]] = 1

OneHolder ==
  \A p, q \in Dispatchers :
    pc[p] \in Dispatching /\ pc[q] \in Dispatching /\ cur[p] = cur[q] => p = q

\* A count that found nothing open still holds when it is committed.
CountInv ==
  \A p \in Dispatchers :
    pc[p] = "committing" /\ verdict[p] # "open" =>
      \A r \in Rows : r # cur[p] => status[r] \notin Open

\* Only the creation finds no campaign, and there is no row before it.
CreationInv ==
  /\ campaign = "none" => \A r \in Rows : status[r] = "none"
  /\ \A o \in Operators : pc[o] = "creating" => campaign = "none"
  /\ \A o, q \in Operators : pc[o] = "creating" /\ pc[q] = "creating" => o = q
  /\ \A p \in Dispatchers : pc[p] \notin {"idle", "creating"} => campaign # "none"

IInv == TypeOK /\ RowInv /\ HolderInv /\ OneHolder /\ CountInv /\ CreationInv

List == INSTANCE Mailing
  WITH Recipients <- Rows, row <- status, links <- tokens, stage <- campaign

\* Through every order of checks and writes, dispatchers, faults and transactions,
\* the campaign keeps the promise of Mailing: nobody is mailed twice, recorded as
\* sent without a mail or mailed without a link, and it ends with nobody waiting.
ImplementsMailing == List!Spec

\* EmailCampaignPage.tsx:1582: "Contacts on the suppression list are skipped
\* before send".
SuppressedAreSkipped ==
  [][ \A r \in Rows : mailed'[r] > mailed[r] => r[1] \notin suppressed ]_vars
================================================================================
