------------------------------- MODULE AutoReply -------------------------------
(****************************************************************************)
(* Automatic replies in one WhatsApp conversation.  The ingestion of a       *)
(* customer's message starts an evaluation in the memory of its process: it   *)
(* reads the settings, the number of messages and the cooldown, queues a      *)
(* draft in the outbox, and records an auto_reply_event in a transaction      *)
(* after that.  Whoever claims the draft's job first looks for a newer        *)
(* outgoing message of the conversation, and then either deletes the draft or  *)
(* sends it and records that.                                               *)
(*                                                                          *)
(* None of these reads is in the transaction that acts on it, so each is an   *)
(* action of its own.  A claim may be taken back while its attempt goes on, an *)
(* attempt may fail or die after WhatsApp has accepted the message, and         *)
(* WhatsApp echoes what it accepted; an attempt is identified by the           *)
(* attempt_count its claim returned.  All replies of a conversation have the   *)
(* text of the one template, so an echo may be taken for another reply's.      *)
(****************************************************************************)
EXTENDS Integers, FiniteSets

CONSTANTS
    Inbounds,        \* the customer's messages
    MaxTime,         \* bound on the clock
    Seconds,         \* the times WhatsApp's timestamps can tell apart
    MaxUpsets,       \* bound on failures, claims taken back and messages people send
    MaxTries,        \* MESSAGE_OUTBOX_WORKER_MAX_RETRIES
    OpenHours,       \* times within business hours
    OutsideEnabled, FirstEnabled, NoReplyEnabled,   \* auto_reply_settings
    Cooldown,        \* cooldown_minutes; 0 means any earlier event
    Delay,           \* no_reply_delay_minutes
    EchoWindow,      \* how far apart a draft and its echo may be
    QueuedId,        \* the external id of a draft, queued:...
    OtherId          \* an external id that is no copy's of an auto reply

Times == 0..MaxTime
Tries == 1..MaxTries
Triggers == {"outside_hours", "first_message", "no_reply"}

ASSUME AutoReplyAssumption ==
    /\ MaxTime \in Nat \ {0} /\ MaxUpsets \in Nat /\ MaxTries \in Nat
    /\ Cooldown \in Nat /\ Delay \in Nat /\ EchoWindow \in Nat /\ OpenHours \subseteq Times
    /\ Seconds \subseteq Times /\ 0 \in Seconds
    /\ {OutsideEnabled, FirstEnabled, NoReplyEnabled} \subseteq BOOLEAN
    /\ {QueuedId, OtherId} \cap (Inbounds \X Tries) = {} /\ QueuedId # OtherId

VARIABLES
    clock,
    sentAt,        \* when the customer sent the message, as WhatsApp tells it
    phase,         \* its ingestion and evaluation
    trigger,       \* what the evaluation decided
    draftAt,       \* when the auto reply was drafted
    stamp,         \* messages.sent_at of the auto reply
    link,          \* messages.external_message_id of the auto reply
    deleted,       \* the auto replies with messages.is_deleted
    outbox,        \* message_dispatch_outbox.processing_status
    due,           \* message_dispatch_outbox.available_at
    tries,         \* message_dispatch_outbox.attempt_count
    attempt,       \* each attempt's progress in its process
    copy,          \* the attempt's request to WhatsApp, then the copy and its echo
    copyAt,        \* when WhatsApp accepted the copy; 0 if it did not
    mark,          \* auto_reply_events.status
    markAt,        \* auto_reply_events.created_at
    manual,        \* times of the messages people sent
    overlapped,    \* history: two replies were being dropped at once
    adopted,       \* history: replies a message that is not theirs was linked to
    upsets

evalVars == <<sentAt, phase, trigger>>
draftVars == <<draftAt, stamp, link, deleted>>
jobVars == <<outbox, due, tries>>
attemptVars == <<attempt, copy, copyAt>>
markVars == <<mark, markAt>>
historyVars == <<overlapped, adopted>>
avars == <<clock, evalVars, draftVars, jobVars, attemptVars, markVars, manual,
           historyVars, upsets>>

\* A timestamp of WhatsApp for what happens at time t.
IsSecondOf(s, t) == s \in Seconds /\ s <= t /\ \A r \in Seconds : r <= t => r <= s

\* Time t is in a later second than timestamp s, so that its timestamp is later.
InLaterSecond(t, s) == \E r \in Seconds : s < r /\ r <= t

-------------------------------------------------------------------------------

AutoReplyInit ==
    /\ clock = 1
    /\ sentAt = [i \in Inbounds |-> 0]
    /\ phase = [i \in Inbounds |-> "unsent"]
    /\ trigger = [i \in Inbounds |-> "none"]
    /\ draftAt = [i \in Inbounds |-> 0]
    /\ stamp = [i \in Inbounds |-> 0]
    /\ link = [i \in Inbounds |-> QueuedId]
    /\ deleted = {}
    /\ outbox = [i \in Inbounds |-> "none"]
    /\ due = [i \in Inbounds |-> 0]
    /\ tries = [i \in Inbounds |-> 0]
    /\ attempt = [i \in Inbounds |-> [n \in Tries |-> "none"]]
    /\ copy = [i \in Inbounds |-> [n \in Tries |-> "none"]]
    /\ copyAt = [i \in Inbounds |-> [n \in Tries |-> 0]]
    /\ mark = [i \in Inbounds |-> "none"]
    /\ markAt = [i \in Inbounds |-> 0]
    /\ manual = {}
    /\ overlapped = FALSE
    /\ adopted = {}
    /\ upsets = 0

Tick ==
    /\ clock < MaxTime
    /\ clock' = clock + 1
    /\ UNCHANGED <<evalVars, draftVars, jobVars, attemptVars, markVars, manual,
                   historyVars, upsets>>

CustomerWrites(i) ==
    /\ phase[i] = "unsent"
    /\ \E s \in Seconds : IsSecondOf(s, clock) /\ sentAt' = [sentAt EXCEPT ![i] = s]
    /\ phase' = [phase EXCEPT ![i] = "sent"]
    /\ UNCHANGED <<clock, trigger, draftVars, jobVars, attemptVars, markVars, manual,
                   historyVars, upsets>>

\* The ingestion commits, possibly long after the message was sent and in another
\* order.  Only the transaction that inserts the message starts an evaluation.
IngestMessage(i) ==
    /\ phase[i] = "sent"
    /\ phase' = [phase EXCEPT ![i] = "ingested"]
    /\ UNCHANGED <<clock, sentAt, trigger, draftVars, jobVars, attemptVars, markVars,
                   manual, historyVars, upsets>>

-------------------------------------------------------------------------------
(* evaluateInboundMessage and sendAutoReply.                                 *)

Stored(i) == phase[i] \notin {"unsent", "sent"}
OutsideHours(i) == OutsideEnabled /\ sentAt[i] \notin OpenHours

\* The three triggers in the order the code tries them.  Only the second needs the
\* number of the customer's messages, which is read before the cooldown.
Count(i) ==
    LET isFirst == Cardinality({j \in Inbounds : Stored(j)}) <= 1
    IN /\ phase[i] = "ingested"
       /\ trigger' = [trigger EXCEPT ![i] =
            CASE OutsideHours(i) -> "outside_hours"
              [] ~OutsideHours(i) /\ FirstEnabled /\ isFirst -> "first_message"
              [] ~OutsideHours(i) /\ ~(FirstEnabled /\ isFirst) /\ NoReplyEnabled -> "no_reply"
              [] OTHER -> "none"]
       /\ phase' = [phase EXCEPT ![i] = "counted"]
       /\ UNCHANGED <<clock, sentAt, draftVars, jobVars, attemptVars, markVars, manual,
                      historyVars, upsets>>

CoolingDown ==
    \E j \in Inbounds :
        /\ mark[j] \in {"queued", "sent"}
        /\ Cooldown = 0 \/ markAt[j] >= clock - Cooldown

CheckCooldown(i) ==
    /\ phase[i] = "counted"
    /\ phase' = [phase EXCEPT ![i] =
                    IF CoolingDown \/ trigger[i] = "none" THEN "over" ELSE "replying"]
    /\ UNCHANGED <<clock, sentAt, trigger, draftVars, jobVars, attemptVars, markVars,
                   manual, historyVars, upsets>>

\* Mutant: The draft has the time of the message it answers.
QueueDraft_InboundTime(i) ==
    /\ phase[i] = "replying"
    /\ draftAt' = [draftAt EXCEPT ![i] = clock]
    /\ stamp' = [stamp EXCEPT ![i] = sentAt[i]]
    /\ due' = [due EXCEPT ![i] = IF trigger[i] = "no_reply" THEN sentAt[i] + Delay ELSE clock]
    /\ outbox' = [outbox EXCEPT ![i] = "pending"]
    /\ phase' = [phase EXCEPT ![i] = "drafted"]
    /\ UNCHANGED <<clock, sentAt, trigger, link, deleted, tries, attemptVars, markVars,
                   manual, historyVars, upsets>>

\* SendMessageService.send commits the draft and its outbox row.
QueueDraft(i) ==
    /\ phase[i] = "replying"
    /\ draftAt' = [draftAt EXCEPT ![i] = clock]
    /\ stamp' = [stamp EXCEPT ![i] = clock]
    /\ due' = [due EXCEPT ![i] = IF trigger[i] = "no_reply" THEN sentAt[i] + Delay ELSE clock]
    /\ outbox' = [outbox EXCEPT ![i] = "pending"]
    /\ phase' = [phase EXCEPT ![i] = "drafted"]
    /\ UNCHANGED <<clock, sentAt, trigger, link, deleted, tries, attemptVars, markVars,
                   manual, historyVars, upsets>>

\* The event is inserted as queued, whatever has become of the draft by then.
RecordEvent(i) ==
    /\ phase[i] = "drafted"
    /\ mark' = [mark EXCEPT ![i] = "queued"]
    /\ markAt' = [markAt EXCEPT ![i] = clock]
    /\ phase' = [phase EXCEPT ![i] = "over"]
    /\ UNCHANGED <<clock, sentAt, trigger, draftVars, jobVars, attemptVars, manual,
                   historyVars, upsets>>

-------------------------------------------------------------------------------
(* processJob for an auto reply, in a process that has claimed the job.        *)

HasDraft(i) == outbox[i] # "none"

\* claimById, by the worker or a request.  A failed job is due again after its delay.
ClaimJob(i) ==
    /\ outbox[i] \in {"pending", "failed"} /\ tries[i] < MaxTries /\ due[i] <= clock
    /\ outbox' = [outbox EXCEPT ![i] = "processing"]
    /\ tries' = [tries EXCEPT ![i] = @ + 1]
    /\ attempt' = [attempt EXCEPT ![i][tries[i] + 1] = "claimed"]
    /\ UNCHANGED <<clock, evalVars, draftVars, due, copy, copyAt, markVars, manual,
                   historyVars, upsets>>

\* resetStaleProcessing: the claim is old, whether or not its attempt goes on.
ResetStale(i) ==
    /\ outbox[i] = "processing" /\ upsets < MaxUpsets
    /\ outbox' = [outbox EXCEPT ![i] = "pending"]
    /\ upsets' = upsets + 1
    /\ UNCHANGED <<clock, evalVars, draftVars, due, tries, attemptVars, markVars,
                   manual, historyVars>>

\* Mutant: Only replies already sent make another one superfluous.
OutgoingAfter_SentOnly(i) ==
    \/ \E t \in manual : t > sentAt[i]
    \/ \E j \in Inbounds \ {i} :
        outbox[j] = "dispatched" /\ j \notin deleted /\ stamp[j] > sentAt[i]
    \/ \E j \in Inbounds, n \in Tries :
        copy[j][n] = "stray" /\ InLaterSecond(copyAt[j][n], sentAt[i])

\* Mutant: The look without is_deleted = false.
OutgoingAfter_Deleted(i) ==
    \/ \E t \in manual : t > sentAt[i]
    \/ \E j \in Inbounds \ {i} : HasDraft(j) /\ stamp[j] > sentAt[i]
    \/ \E j \in Inbounds, n \in Tries :
        copy[j][n] = "stray" /\ InLaterSecond(copyAt[j][n], sentAt[i])

\* shouldSkipAutoReply: another outgoing message, not deleted, newer than the
\* customer's.  A draft that waits or has failed counts like a message sent, and so
\* does an echo stored as a message of its own, be it this reply's.
OutgoingAfter(i) ==
    \/ \E t \in manual : t > sentAt[i]
    \/ \E j \in Inbounds \ {i} : HasDraft(j) /\ j \notin deleted /\ stamp[j] > sentAt[i]
    \/ \E j \in Inbounds, n \in Tries :
        copy[j][n] = "stray" /\ InLaterSecond(copyAt[j][n], sentAt[i])

\* The look decides what the attempt goes on to do.
LookAndSend(i, n) ==
    /\ attempt[i][n] = "claimed" /\ ~OutgoingAfter(i)
    /\ attempt' = [attempt EXCEPT ![i][n] = "sending"]
    /\ copy' = [copy EXCEPT ![i][n] = "asked"]
    /\ UNCHANGED <<clock, evalVars, draftVars, jobVars, copyAt, markVars, manual,
                   historyVars, upsets>>

LookAndDrop(i, n) ==
    /\ attempt[i][n] = "claimed" /\ OutgoingAfter(i)
    /\ attempt' = [attempt EXCEPT ![i][n] = "dropping"]
    /\ overlapped' = (overlapped \/
                        \E j \in Inbounds \ {i}, m \in Tries : attempt[j][m] = "dropping")
    /\ UNCHANGED <<clock, evalVars, draftVars, jobVars, copy, copyAt, markVars, manual,
                   adopted, upsets>>

\* The message is deleted, the event, if it is there yet, is skipped, and the job is
\* closed, whoever has claimed it by now.
Drop(i, n) ==
    /\ attempt[i][n] = "dropping"
    /\ attempt' = [attempt EXCEPT ![i][n] = "dropped"]
    /\ deleted' = deleted \cup {i}
    /\ outbox' = [outbox EXCEPT ![i] = "dispatched"]
    /\ mark' = [mark EXCEPT ![i] = IF @ = "none" THEN "none" ELSE "skipped"]
    /\ UNCHANGED <<clock, evalVars, draftAt, stamp, link, due, tries, copy, copyAt,
                   markAt, manual, historyVars, upsets>>

\* WhatsApp accepts the message, perhaps when nobody waits for the answer any more.
WhatsAppAccepts(i, n) ==
    /\ copy[i][n] = "asked"
    /\ copy' = [copy EXCEPT ![i][n] = "accepted"]
    /\ copyAt' = [copyAt EXCEPT ![i][n] = clock]
    /\ attempt' = [attempt EXCEPT ![i][n] = IF @ = "sending" THEN "answered" ELSE @]
    /\ UNCHANGED <<clock, evalVars, draftVars, jobVars, markVars, manual, historyVars,
                   upsets>>

\* Another message has the copy's id, which is unique.
HeldElsewhere(i, n) ==
    copy[i][n] = "stray" \/ \E j \in Inbounds \ {i} : link[j] = <<i, n>>

\* The reply gets the copy's id and the time of the answer.
CommitSent(i, n) ==
    /\ attempt[i][n] = "answered" /\ ~HeldElsewhere(i, n)
    /\ attempt' = [attempt EXCEPT ![i][n] = "over"]
    /\ link' = [link EXCEPT ![i] = <<i, n>>]
    /\ \E t \in Times :
        copyAt[i][n] <= t /\ t <= clock /\ stamp' = [stamp EXCEPT ![i] = t]
    /\ outbox' = [outbox EXCEPT ![i] = "dispatched"]
    /\ mark' = [mark EXCEPT ![i] = IF @ = "none" THEN "none" ELSE "sent"]
    /\ UNCHANGED <<clock, evalVars, draftAt, deleted, due, tries, copy, copyAt, markAt,
                   manual, historyVars, upsets>>

\* The transaction that would record the answer fails on the unique id.
CommitClashes(i, n) ==
    /\ attempt[i][n] = "answered" /\ HeldElsewhere(i, n)
    /\ attempt' = [attempt EXCEPT ![i][n] = "failing"]
    /\ UNCHANGED <<clock, evalVars, draftVars, jobVars, copy, copyAt, markVars, manual,
                   historyVars, upsets>>

InProgress == {"claimed", "sending", "answered", "dropping"}

\* An answer is lost or a statement fails, whatever WhatsApp has accepted or will; a
\* message it refuses is one it never accepts.  A process that dies is an attempt, or
\* an evaluation, that takes no further step.
AttemptFails(i, n) ==
    /\ attempt[i][n] \in InProgress /\ upsets < MaxUpsets
    /\ attempt' = [attempt EXCEPT ![i][n] = "failing"]
    /\ upsets' = upsets + 1
    /\ UNCHANGED <<clock, evalVars, draftVars, jobVars, copy, copyAt, markVars, manual,
                   historyVars>>

\* markFailed, by id alone: it reopens a job another attempt has closed.
RecordFailedAttempt(i, n) ==
    /\ attempt[i][n] = "failing"
    /\ attempt' = [attempt EXCEPT ![i][n] = "over"]
    /\ outbox' = [outbox EXCEPT ![i] = "failed"]
    /\ UNCHANGED <<clock, evalVars, draftVars, due, tries, copy, copyAt, markVars,
                   manual, historyVars, upsets>>

-------------------------------------------------------------------------------
(* Messages of WhatsApp that the ingestion stores as outgoing.                *)

TimeBetween(t, u) == IF t < u THEN u - t ELSE t - u

\* The drafts an echo of time t may be linked to: not deleted, not linked, near.
Linkable(t) ==
    {j \in Inbounds : /\ HasDraft(j) /\ j \notin deleted /\ link[j] = QueuedId
                      /\ TimeBetween(stamp[j], t) <= EchoWindow}

Nearest(t) ==
    {j \in Linkable(t) : \A k \in Linkable(t) : TimeBetween(stamp[j], t) <= TimeBetween(stamp[k], t)}

\* The nearest draft of that text becomes the message, its own or another reply's.
EchoLinks(i, n, j) ==
    /\ copy[i][n] = "accepted" /\ \A k \in Inbounds : link[k] # <<i, n>>
    /\ \E s \in Seconds :
        /\ IsSecondOf(s, copyAt[i][n]) /\ j \in Nearest(s)
        /\ stamp' = [stamp EXCEPT ![j] = s]
    /\ link' = [link EXCEPT ![j] = <<i, n>>]
    /\ copy' = [copy EXCEPT ![i][n] = "echoed"]
    /\ adopted' = adopted \cup ({j} \ {i})
    /\ UNCHANGED <<clock, evalVars, draftAt, deleted, jobVars, attempt, copyAt, markVars,
                   manual, overlapped, upsets>>

\* Without such a draft, the echo is inserted as a message of its own.
EchoStored(i, n) ==
    /\ copy[i][n] = "accepted" /\ \A k \in Inbounds : link[k] # <<i, n>>
    /\ \E s \in Seconds : IsSecondOf(s, copyAt[i][n]) /\ Linkable(s) = {}
    /\ copy' = [copy EXCEPT ![i][n] = "stray"]
    /\ UNCHANGED <<clock, evalVars, draftVars, jobVars, attempt, copyAt, markVars,
                   manual, historyVars, upsets>>

\* Somebody answers, from the inbox or from the phone; the latter is stored later.
PersonReplies ==
    /\ upsets < MaxUpsets
    /\ \E t \in Times : t <= clock /\ manual' = manual \cup {t}
    /\ upsets' = upsets + 1
    /\ UNCHANGED <<clock, evalVars, draftVars, jobVars, attemptVars, markVars,
                   historyVars>>

\* What somebody sends from the phone without words is linked to any draft near.
PersonSendsMedia(j) ==
    /\ upsets < MaxUpsets
    /\ \E s \in Seconds :
        /\ s <= clock /\ j \in Nearest(s)
        /\ stamp' = [stamp EXCEPT ![j] = s]
    /\ link' = [link EXCEPT ![j] = OtherId]
    /\ adopted' = adopted \cup {j}
    /\ upsets' = upsets + 1
    /\ UNCHANGED <<clock, evalVars, draftAt, deleted, jobVars, attemptVars, markVars,
                   manual, overlapped>>

-------------------------------------------------------------------------------

AttemptStep(i, n) ==
    \/ LookAndSend(i, n) \/ LookAndDrop(i, n) \/ Drop(i, n)
    \/ WhatsAppAccepts(i, n) \/ CommitSent(i, n) \/ CommitClashes(i, n)
    \/ AttemptFails(i, n) \/ RecordFailedAttempt(i, n)

EchoArrives(i, n) ==
    EchoStored(i, n) \/ \E j \in Inbounds : EchoLinks(i, n, j)

AutoReplyNext ==
    \/ Tick \/ PersonReplies
    \/ \E i \in Inbounds :
        \/ CustomerWrites(i) \/ IngestMessage(i) \/ Count(i) \/ CheckCooldown(i)
        \/ QueueDraft(i) \/ RecordEvent(i)
        \/ ClaimJob(i) \/ ResetStale(i) \/ PersonSendsMedia(i)
        \/ \E n \in Tries : AttemptStep(i, n) \/ EchoArrives(i, n)

AutoReplySpec == AutoReplyInit /\ [][AutoReplyNext]_avars

-------------------------------------------------------------------------------
(* Properties.                                                              *)

\* The rows and the local variables have the values the code gives them.
AutoReplyTypeOK ==
    /\ clock \in Times \ {0}
    /\ sentAt \in [Inbounds -> Times] /\ draftAt \in [Inbounds -> Times]
    /\ stamp \in [Inbounds -> Times] /\ markAt \in [Inbounds -> Times]
    /\ due \in [Inbounds -> Nat]
    /\ phase \in [Inbounds -> {"unsent", "sent", "ingested", "counted", "replying",
                               "drafted", "over"}]
    /\ trigger \in [Inbounds -> Triggers \cup {"none"}]
    /\ link \in [Inbounds -> (Inbounds \X Tries) \cup {QueuedId, OtherId}]
    /\ deleted \subseteq Inbounds /\ adopted \subseteq Inbounds
    /\ outbox \in [Inbounds -> {"none", "pending", "processing", "dispatched", "failed"}]
    /\ tries \in [Inbounds -> 0..MaxTries]
    /\ attempt \in [Inbounds -> [Tries ->
                        InProgress \cup {"none", "failing", "dropped", "over"}]]
    /\ copy \in [Inbounds -> [Tries -> {"none", "asked", "accepted", "echoed", "stray"}]]
    /\ copyAt \in [Inbounds -> [Tries -> Times]]
    /\ mark \in [Inbounds -> {"none", "queued", "sent", "skipped"}]
    /\ manual \subseteq Times
    /\ overlapped \in BOOLEAN
    /\ upsets \in 0..MaxUpsets

\* Each of the two replies was drafted, by a later second, after the other's message.
InOneBurst(i, j) ==
    /\ i # j
    /\ InLaterSecond(draftAt[i], sentAt[j]) /\ InLaterSecond(draftAt[j], sentAt[i])

\* WhatsApp has accepted a copy of the reply.
WentOut(i) == \E n \in Tries : copyAt[i][n] > 0

\* Messages evaluated side by side may all pass the cooldown and each queue a reply.
\* That the customer gets two of a burst takes one of two accidents, however many
\* processes look, whichever claims are taken back and whatever answers are lost: one
\* of the two was claimed again and deleted, its copy in an attempt beside that one,
\* or the message another sent was linked to it and gave it an earlier time.
SecondReplyHasACause ==
    \A i, j \in Inbounds :
        InOneBurst(i, j) /\ WentOut(i) /\ WentOut(j) =>
            \E k \in {i, j} : (k \in deleted /\ tries[k] >= 2) \/ k \in adopted

\* Unless two replies were being dropped at once, dropped replies leave another
\* outgoing message standing: the drafts of a burst do not all give way to one
\* another, though claims are taken back and jobs closed twice.
SomeReplyStands ==
    ~overlapped /\ deleted # {} =>
        \/ manual # {}
        \/ \E j \in Inbounds : HasDraft(j) /\ j \notin deleted
        \/ \E j \in Inbounds, n \in Tries : copy[j][n] = "stray"

-------------------------------------------------------------------------------
(* The inductive invariant.                                                  *)

\* An attempt has a number its job has counted, and asks WhatsApp for a copy only if
\* it is not one that deletes the reply; a copy is not older than the draft.
AttemptInv ==
    /\ \A i \in Inbounds, n \in Tries :
        /\ attempt[i][n] # "none" => n <= tries[i]
        /\ attempt[i][n] \in {"none", "claimed", "dropping", "dropped"} => copy[i][n] = "none"
        /\ attempt[i][n] = "answered" => copyAt[i][n] > 0
        /\ copy[i][n] \in {"none", "asked"} => copyAt[i][n] = 0
        /\ copy[i][n] \notin {"none", "asked"} =>
            draftAt[i] <= copyAt[i][n] /\ copyAt[i][n] <= clock
    /\ \A i \in Inbounds : tries[i] > 0 => HasDraft(i)

\* A reply is deleted by an attempt.
DeletedInv == \A i \in deleted : \E n \in Tries : attempt[i][n] = "dropped"

\* There is no job before the draft, and a reply's time is not in an earlier second
\* than its draft unless another message was linked to it.
DraftInv ==
    \A i \in Inbounds :
        /\ phase[i] \in {"unsent", "sent", "ingested", "counted", "replying"} => ~HasDraft(i)
        /\ draftAt[i] <= clock
        /\ HasDraft(i) /\ i \notin adopted =>
            \A s \in Seconds : s <= draftAt[i] => s <= stamp[i]

\* WhatsApp has been asked to send the reply.
AskedFor(i) == \E n \in Tries : copy[i][n] # "none"

\* The look that let a reply go saw no other draft made after the message.
BurstInv ==
    \A i, j \in Inbounds :
        InOneBurst(i, j) /\ AskedFor(i) /\ AskedFor(j) =>
            \E k \in {i, j} : k \in deleted \cup adopted

\* What an attempt without company saw still stands when it drops the reply.
StandInv ==
    ~overlapped =>
        \A i \in Inbounds, n \in Tries :
            attempt[i][n] = "dropping" =>
                /\ \A j \in Inbounds \ {i}, m \in Tries : attempt[j][m] # "dropping"
                /\ \/ manual # {}
                   \/ \E j \in Inbounds \ {i} : HasDraft(j) /\ j \notin deleted
                   \/ \E j \in Inbounds, m \in Tries : copy[j][m] = "stray"

AutoReplyIInv ==
    /\ AutoReplyTypeOK /\ AttemptInv /\ DeletedInv /\ DraftInv /\ BurstInv /\ StandInv
    /\ SomeReplyStands

===============================================================================
