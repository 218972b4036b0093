# Formal model of the WhatsApp CRM's message paths

This directory holds a TLA+ development of the parts of the CRM whose correctness depends on
processes that share database rows: the durable outbound queue, the inbound event queue, the
connectors' ownership of a WhatsApp session, the dispatchers of WhatsApp and e-mail campaigns, the
inbox of the social channels, the automatic replies, the merging of contacts, and the browser's cache of
messages. Each module is translated from the code; `PROJECT.json` maps every definition to the lines it stands for, and lists the
components, the runs, the hazards behind the properties and the theorems.

Contents: [the system](#the-system), [inventory](#inventory), [modules](#modules),
[runs](#runs), [bounds](#bounds), [fairness](#fairness), [proofs](#proofs),
[disagreements](#disagreements-between-code-and-documents), [what is left out](#what-is-not-modelled),
[plan](#plan), [running it](#running-it).

## The system

Three programs share one PostgreSQL database.

* **API** (`src/apps/api`): an Express server for agents and operators, and the workers beside it
  (`src/apps/api/src/workers/*.ts`), each an endless poll loop over one table.
* **WhatsApp connector** (`src/apps/whatsapp-connector`): owns the Baileys sockets, one per WhatsApp
  account, turns what they report into `raw_channel_events` rows, and sends what the API posts to it.
* **Frontend** (`src/apps/frontend`): a React client of the API.

They talk through tables more than through calls. An agent's message is a `messages` row and a
`message_dispatch_outbox` row written together; the outbox worker claims the row, posts the message to
the connector, and writes the answer back. WhatsApp's events come in through the connector as
`raw_channel_events` rows, which the raw event worker claims and turns into messages, contacts,
conversations and acknowledgements. A campaign's worker creates outbox rows and reads their outcome.

```
 agent --> sendMessage --> messages + message_dispatch_outbox
                                 |  claim, send, mark             (MessageOutbox)
 campaign worker --------------->|
   ^ recipients                  v HTTP
   |  reconciler          connector --- one socket per account --- WhatsApp
   +--- (CampaignDispatch)    |  lease in whatsapp_accounts       (ConnectorSession)
                              v
                     raw_channel_events --> raw event worker --> messages, receipts
                                                                  (RawEvents)
```

All of it is at-least-once: a claim is a status and a time stamp, whoever finds the stamp too old takes
the row back, and no later write asks whether its author still holds the claim. That, the calls that
may have happened although they failed, and the transactions that are split in two, are where the
hazards are.

## Inventory

The state, the operations and the difficulty of each component; what makes it correct is stated as the
properties named in the last part of each entry. `PROJECT.json` has the full list with source files,
also of the parts that only store and retrieve.

**Message dispatch outbox** (`messageDispatchService.ts`, `messageDispatchOutboxRepository.ts`,
`processMessageOutbox.ts`). State: `processing_status`, `attempt_count`, `next_attempt_at`,
`last_error`, `claimed_at` of a row; the message's `ack_status`, `external_message_id`, `failed_at`. A
batch is: reset stale claims, repair drafts without a row, close rows without attempts left, list due
rows, claim one per account, send each, record the result. API requests claim single rows at the same
time; operators requeue. Hard: the batch is claimed up front and the connector call has no timeout, so
live claims go stale; answers get lost; results are written unconditionally. Correct when: copies are
bounded by attempts, what is shown as accepted is, and no draft is forgotten.

**Message acknowledgement** (`messageRepository.ts`, `messageStatusSyncService.ts`). State: `ack_status`.
Receipts come late, twice and out of order, and race the dispatch. Correct when: the status never goes
back.

**Raw event processing** (`rawEventProcessorService.ts`, `rawEventRepository.ts`,
`messageIngestionService.ts`). State: a row's status, `retry_count`, error class and
`last_attempt_at`; `processed_event_keys`; the messages, unread counts and status events that
processing leaves. Hard: a message takes two nested transactions on two connections of one pool, the
inner one commits first; a replay processes rows without a claim; WhatsApp delivers one message under
several ids. Correct when: an event that is done was applied, nothing is counted twice, and nothing is
lost or stuck.

**Connector sessions and leases** (`sessionManager.ts`, `whatsAppAccountRepository.ts`,
`connectorCommandService.ts`). State: the lease and status columns of the account's row; in every
connector, the socket, the runtime with its heartbeat, pending timers, initializations and requests.
Hard: every handler is asynchronous and reads its maps before an await and uses them after; the
lease's owner is not stopped when it expires. Correct when: a connector never has two sockets nor one
it lost track of, two consumers do not last, and a waiting connector takes over.

**Campaign dispatch and recovery** (`campaignDispatchService.ts`,
`campaignQueuedRecipientReconciler.ts`, `campaignRecoveryService.ts`, the campaigns controllers).
State: the campaign's status; a recipient's `send_status`, `attempt_count`, `message_id`, `queued_at`
and failure code; the drafts made for it. Hard: five writers (worker, outbox, reconciler, auto pause,
operators) without a common lock, and the draft is committed before the recipient names it. Correct
when: sent means sent, nobody with a linked draft is written to again, attempts bound drafts, and
no recipient is forgotten while the campaign is sending.

**Outbound echo matching** (`messageRepository.ts`, `messageIngestionService.ts`, the insert trigger of
`050_merge_outgoing_echo_with_queued_draft.sql`): WhatsApp reports what the connector sent back as a
message. Its ingestion links it to the queued draft of that chat and text that is nearest in time, within
ten minutes; if there is none the insert's trigger looks once more, for any chat of the contact and within
fifteen minutes. Hard: two equal drafts in flight; a draft that waited longer than the window. Correct when:
a copy has one bubble, and a draft shows its own copy.

**Auto replies** (`autoReplyService.ts`, and `processJob` of `messageDispatchService.ts`). State: the
settings, `auto_reply_events`, the reply's draft and outbox row, and an evaluation that lives in the
memory of the process that ingested the message. Hard: the cooldown is read before the reply is queued
and written in a transaction after it; whether a person answered is looked up outside the transaction
that drops or sends the draft. Correct when: a burst of messages gets one reply unless a lost
answer, a repeated claim or another's echo explains the second, and drafts do not give way to one another
until none is left.

**Email campaigns** (`emailCampaignService.ts`, `processEmailCampaignDispatch.ts`). State: the
campaign's and each recipient's status, the version of the recipient list, unsubscribe tokens, the
suppression list, the sender's status. Operations: create, replace the list, start (which dispatches a
first batch in the request), pause, cancel, suppress, unsubscribe; claim, prepare, send, record,
complete. Hard: requests check in one statement and write in another, two dispatchers work on one
campaign, nothing takes a claim back, and the completion is counted inside a transaction that cannot see
the others'. Correct when: nobody is mailed twice, sent means mailed, the links in the mails work, and a
campaign completes when no row is left.

**Social channels** (`socialMessageIngestionService.ts`, `socialMessageSendService.ts`,
`socialRawEventRepository.ts`, `processSocialEvents.ts`). State: `social_raw_events`,
`social_processed_event_keys`, the customer's identity, conversation and messages; requests that send a
reply. Hard: claims are never reset, a reply is recorded only after Meta accepted it and races its own
echo, and two workers store a customer's first messages at once. Correct when: a processed event is in
the inbox, a reply the customer got is too, and the identity and the thread name one contact.

**Number warmer** (`whatsAppNumberWarmerService.ts`): a schedule read without a lock that queues
messages through the outbox.

**Contacts and identities** (`contactService.ts`, `contactRepository.ts`,
`contactIdentityRepository.ts`, `conversationRepository.ts`, `contactRepairProposalService.ts`). State:
contacts with a phone and a status, the identities (WhatsApp ids) that lead to them, one conversation per
contact and account, messages that name both. Operations: find or create the contact, the identity and
the conversation of an incoming message; send into a conversation; merge a contact into another. Hard: an
ingestion reads in several statements and a merge moves rows in several others, each seeing what is
committed when it runs, and nothing locks the contact for all of it. Correct when: a message is in a
conversation of the person it was exchanged with, and a merge loses no message (it does, see
`contacts_merge`).

**Leads, sales, quick replies** (`salesService.ts`, ...): sums recomputed in the writing transaction. The sum
of an order is computed over the items the statement saw first (`salesRepository.ts:619`), so two items
added at once may leave one out.

**The browser's cache of messages** (`inboxCache.ts`, `useMessages.ts`, `useRealtimeInbox.ts`,
`ChatPanel.tsx`). State: the query cache of the open conversation, the request that sends a message, the
fetch under way. Operations: send, with a bubble of the browser's own until the answer comes; patch what
Realtime pushes; poll and merge a page; retry. Hard: the four sources come in any order, each carries a
version of the row that may be old by then, and bubbles are merged by text and time. Correct when: no
bubble takes the status of another message, and in the end the conversation shows the stored rows.

**The rest** (authentication, permissions, dashboards, exports, AI assistance, quick replies,
notifications, usage metrics, media, administration, the frontend's other pages): requests that check and
write rows nothing else races for, or only read.

### Hazards beyond the list

`PROJECT.json` lists the forty hazards that matter most, each at its line with the properties that
would show it going wrong. These were read as well and are not on it, most because no text of the
repository promises that they do not happen:

* `messageDispatchService.ts:333`: a failure that is the sender's gets `next_attempt_at` null, which the
  claim reads as due now (`messageDispatchOutboxRepository.ts:202`): it is retried without backoff.
* `messageDispatchService.ts:655` and `:173`: whether a human replied is read outside any transaction;
  an auto reply whose answer was lost is dropped on its second attempt though the customer has it, and the
  reply it was dropped for goes out too. `SecondReplyHasACause` says that a second reply takes this, or a
  message linked to the wrong draft.
* `messageDispatchOutboxRepository.ts:282`: a requeue keeps `attempt_count`, so a row without attempts
  left is closed again at the next poll and never sent.
* `messageRepository.ts:311`: a late failure stamps `failed_at` on a delivered message.
* `rawEventRepository.ts:229`: `retry_count` counts failures, not attempts: an event that kills its
  process is claimed for ever, and first.
* `rawEventProcessorService.ts:265`: an ignored outgoing message keeps its key; a later delivery with
  content would be a duplicate.
* `sessionManager.ts:813`: a failed insert into `raw_channel_events` is only logged.
* `sessionManager.ts:489` and `:1152`: the transactions of an open and of a close event are not ordered;
  a send whose wait fails writes "reconnecting" over whatever status there is.
* `sessionManager.ts:1363`: a connector that lost its lease schedules nothing.
* `campaignDispatchService.ts:810`: a failed recipient with attempts left keeps the campaign sending,
  and no code returns it to pending; `:283`: nor one whose last claim was taken back.
* `connectorCommandService.ts:59`: `getAccountStatus` writes "reconnecting" after a read that another
  transaction has made stale, over a suspected ban too.
* `messageDispatchService.ts:142`: the finalizer works through a list it read before; a row on it may have
  been requeued or claimed since (in the model, and covered by `AckNeverRegresses`).
* The browser's cache: a bubble of a send that failed stays (`inboxCache.ts:255` makes it pending, not
  failed), and a failed message with the same text can stay hidden behind it. So
  `BubblesFollowMessages` asks for the rows only once all have a WhatsApp id. Of a message that is
  dispatched more than two minutes after it was written, the optimistic bubble stays as well. Sending one
  text twice within two minutes takes the first bubble away (`:215` removes whatever matches) until a poll.
* `messageDispatchService.ts:812`: two transactions that settle the last two recipients each count the
  other's as open, so neither completes the campaign; the worker's next refresh does. `:111`: a row is
  listed by one statement and claimed by another.
* `campaigns.controller.ts:2043`: pause, resume and start check the status they read and write without a
  condition; `:1221`: a cancel leaves the drafts that are in the outbox.
* `messageIngestionService.ts:380`: the evaluation of an auto reply starts after the commit and lives in
  memory: a crash or a lost answer leaves the message without one (in `AutoReply`, an evaluation that
  takes no further step).
* `messageRepository.ts:363`: an echo is linked to the draft of the same text that is nearest in time. Of
  two equal drafts in flight it may be the other one, which is then shown as accepted before it is sent,
  and the transaction that records the first one's dispatch fails on the unique id, so that it is sent
  again. The same happens when a draft waited longer than the window and its echo, stored as a message of
  its own, comes before the dispatch is recorded: `CopiesWithinBudget` bounds the copies.
* `emailCampaignService.ts:917` and `:1025`: a recipient claimed by a worker that dies stays in
  "sending", and its campaign with it; `:938`: a mail that went out before the record failed is recorded
  as failed. `startCampaign` accepts a cancelled campaign, and an address of a replaced list that was
  mailed is mailed again as a row of the new version.
* `socialMessageIngestionService.ts:88`: claimed social events stay in "processing" when the worker dies.
  `:285`: two first messages of a customer create two contacts; identity and thread agree on the later
  one, and the earlier message stays with the other contact. `socialMessageSendService.ts:76`: a reply
  whose transaction fails was sent and is not in the inbox until its echo comes; if the echo is first,
  the agent sees an error for a reply that was sent.
* `autoReplyService.ts:250`: the event of a reply is inserted as "queued" even if the draft was dropped
  in between, and starts a cooldown. Two attempts that each look at the other's draft drop both
  (`overlapped` in `AutoReply`); `getSettings` (`:69`) returns its promise without awaiting
  it, so its client is released while the query still runs.
* `messageDispatchService.ts:267`: the transaction that links a message requeues the receipts that failed
  before it; one that is being processed at that moment has not found the message and fails afterwards, on
  its last retry for good. That no receipt is lost is promised nowhere; `InboundLog` says that none
  counts twice.
* `sessionManager.ts:422`: the socket is registered before the rest of its setup; `createSession` may
  still throw (covered by `OneSocketPerConnector`, not listed apart).
* Contacts: the unique index over phones (`030_contact_identity_quality_hardening.sql:105`) counts merged
  contacts, `findByNormalizedPhone` (`contactRepository.ts:8`) skips them: once a contact with a phone is
  merged into one without, the updates that would give the target the phone fail, and each later message
  of that customer with them. A merge of A into B and one of B into A can both be applied. A conversation
  that is kept keeps its `external_thread_key`, which refuses a new conversation for the merged contact.
  The catch blocks for 23505 query in a transaction that PostgreSQL has aborted.
* `whatsAppNumberWarmerService.ts:267`: the schedule is read without a lock.
* `projectionRepository.ts:289`: two transactions that recompute a day's metrics each miss the other's
  message; the next refresh of the day repairs it.

## Modules

| Module | Models | State and actions |
|---|---|---|
| `AckStatus` | the status order, `updateAckStatus`, `shouldApplyStatus` | pure operators on the six statuses |
| `MessageDelivery` | nothing of the code: what the outbound path promises, to the agent and to a campaign | `shown` and `sent` per message, the messages that count as `dispatched`; `Deliver`, `Accept`, `Dispatch`, `Report`, `Reopen` |
| `InboundLog` | nothing of the code: what the inbound paths promise | the `inbox`, `unread` per message, the receipts `logged`, the deliveries `closed`; `Arrive`, `Log`, `Close`, `Reopen` |
| `Mailing` | nothing of the code: what an e-mail campaign promises | `row` and `mailed` per recipient, working `links`, the campaign's `stage`; `Enlist`, `Operate`, `TakeUp`, `Link`, `Mail`, `Unsubscribe`, `Record` |
| `MessageOutbox` | the outbox row, its message, workers, requests, operators, receipts, echoes | one action per transaction or connector call, see below |
| `RawEvents` | the raw event row, the dedup keys, the pool, workers and replays | one action per commit, wait and failure |
| `ConnectorSession` | one account's row and every connector's memory of it | one action per stretch of code between two awaits |
| `CampaignDispatch` | one campaign, its recipients, the processes that write them | one action per transaction |
| `EmailCampaign` | one e-mail campaign, its list, its sender, the worker and the operators' requests | one action per statement or transaction, and per answer of the provider |
| `SocialInbox` | one connected account: event log, workers, replies and echoes | one action per statement that takes a lock, per commit and per answer of Meta |
| `AutoReply` | the automatic replies of one conversation | one action per read and per transaction |
| `ContactMerge` | contacts, identities and conversations of one account, ingestions, sends and merges | one action per statement that reads for later or takes a lock, and per commit |
| `InboxCache` | the bubbles of one open conversation in an agent's browser, and the rows they stand for | one action per callback of the browser and per transaction of the server |
| `*_proofs` | the theorems; `Inbox_proofs` holds those of `AutoReply` and `InboxCache` | |
| `MC*` | the small instances; `MCInbox` runs `SocialInbox`, `ContactMerge` or `InboxCache`, and `MCRawEvents` one of three stories of the log or `AutoReply`, one per behaviour | |

`MessageOutbox` EXTENDS `AckStatus`. Three abstract specifications stand over four detailed ones:

| Detailed | Abstract | Mapping |
|---|---|---|
| `MessageOutbox` | `MessageDelivery` | `shown` from `ack_status`, `dispatched` the messages whose outbox row says so and was not dropped, `sent` the copies on the wire |
| `RawEvents` | `InboundLog` | `inbox` the stored messages, `logged` the status events per key, `closed` the rows that are processed or ignored |
| `SocialInbox` | `InboundLog` | `inbox` the stored messages, `closed` the events with a row that is processed or ignored; there are no receipts, and what counts as unread is left out (0 of each) |
| `EmailCampaign` | `Mailing` | `row` the status of an address in a version of the list (`gone` once the list was replaced), `links` the rows with a token, `stage` the campaign's status |

`RawEvents` and `SocialInbox` keep one promise by different means: a key committed in the outer of two
transactions, of an event that may be tried again, and a key committed with the message, of an event that
is never tried again.

### MessageOutbox

`status`, `attempts`, `nextAttempt`, `lastError` and `stale` are the row's columns (`stale` says that
`claimed_at` is older than `STALE_AFTER_MS`); `ack`, `extId`, `failedAt` and `deleted` are the message's.
Each actor has a program counter, the rows its last listing returned, and per row the attempt number it
read when it claimed it. That number is what makes a late result visible: the model writes it to the
row as the code does, whoever owns the row by then. `wire[m]` is the set of attempts whose copy reached
WhatsApp; `copies[m]` counts them.

A worker's `processPendingBatch` is `ResetStaleProcessing`, `ListRepairableDrafts`,
`RepairListedDraft`\*, `ListExhaustedOpenJobs`, `FinalizeExhaustedJob`\*, `ListDueJobs`,
`ClaimListedJob`\*, `StartBatch`, then per claimed row `processJob`: `StartJob`, `SkipAutoReply` or one
of the connector's three answers (`ConnectorAccepts`, `ConnectorRejects`, `ConnectorAnswerLost`), then
`CommitDispatch`, `TransactionFails` or `RecordFailure`. Listing and claiming are separate statements
in the code and separate actions here. An API request does `DrainOne` or `RetryOrphanedDraft`.
`RequeueById` and `RetryOutboxJob` are the two operator buttons, which have different guards.

Abstractions: texts differ, so an echo is linked to the draft it is a copy of (see the hazards below the
inventory for two equal drafts), and what an echo that is stored as a message of its own does to the commit
of the dispatch is one of the failures of `TransactionFails`. `available_at` only delays a first claim and is
left out. The operations center measures
staleness in minutes rounded up from the same setting; both are `stale`. A worker that dies with nothing
claimed loses only a listing, so `Crash` asks for a claim. The campaign recipient that the same
transactions update is in `CampaignDispatch`.

### RawEvents

`status`, `retries`, `transient`, `stale` and `cooled` are the row (`transient` says that the error text
is one of those the recovery claim looks for). `keys`, `stored`, `unread` and `receipts` are what
processing leaves behind. A processor that works on a message goes through `begin`, `key`, `connect`,
`ingest`, `commit`; it holds one connection from `key` on and a second one in `ingest`, and
`ConnectionFree` compares what all processors of a pool hold with `PoolMax`. An uncommitted key makes
rivals for it wait (`CanCreateKey`), as the unique index does. `CommitIngest` is the inner transaction's
commit, `CommitEvent` the outer's; each may also be lost (`CallFails`), lose its answer, or be the last
thing the process did (`Crash`). Where an exception escapes `processEvent`, the rest of the batch is
abandoned (`Abandon`).

Abstractions: events with one dedup key are of one kind and about one message. The order of a batch is
free. What ingestion does to contacts and conversations beyond the unread count is not kept.

### ConnectorSession

`owner`, `expired` and `status` are the account's row. Every connector has `init` (which await of
`initializeSession` it is in), `registered` (the `sockets` map), `attached` (handlers), `runtime` (the
`runtimes` map, with its heartbeat), `connected`, `disabled`, `timer`, and the transactions its handlers
have started and not yet committed (`writes`, `closing`, `lost`, `releasing`, `polled`). `live[c]` counts the sockets that are
really open, whether the connector still knows them or not. A request (`send`, `reconnect`, an operator's
`confirmed` reconnect) runs through its awaits in `request`. Handlers that run between two awaits are one
action; everything after an await reads the maps again exactly where the code does.

Abstractions: the connector's accounts do not share state, so one is modelled. The credentials, the QR
image, the directory and the message handlers are left out; a disconnect's class is a free choice.

### CampaignDispatch

`status` is the campaign's, `send`, `attempts`, `link`, `old` and `sick` are the recipient's columns
(`link` is `message_id`, `old` says that `queued_at` is older than `STALE_AFTER_MS`, `sick` that the
failure code is the sender's). `drafts[r]` is the sequence of drafts made for `r` with the outcome the
campaign reads: `open`, `failing`, `accepted`, `dispatched`. They are the states of `MessageDelivery` (waiting,
failed, accepted, dispatched), and the outbox's actions here (`MessageAccepted`, `CommitDispatch`,
`RetryableFailure`, `FinalFailure`, `ReopenRow`) are its steps. So `CampaignDispatch` assumes of the outbox
what `OutboxImplementsDelivery` proves it to do, late answers included: an attempt whose claim went stale may
be recorded after another one was dispatched, and `ReopenRow` is the failure of such a late attempt, which
puts a dispatched row back without touching the message. A worker goes through `claiming`, `claimed`,
`returning` or `sending`, `linking` or `failing`, `pausing`, `finishing`, `refreshing`; the reconciler
shares the tail. Operators read the campaign in one step and write in another, which is what the
controllers do: the check and the update are two statements.

`FinalFailure` sets `blocked`. `markCampaignRecipientFailed` updates the recipient in its transaction and
then awaits `autoPauseCampaignIfNeeded` (`messageDispatchService.ts:808`), which takes another connection
and alters `campaign_recipients` (`campaignSafetyService.ts:138`). `alter table ... add column if not
exists` asks for an exclusive lock on the table even when there is nothing to add; the lock waits for the
first transaction and the first transaction waits for the call. PostgreSQL sees no cycle, and neither the
pool nor the queries have a statement timeout. The model keeps the fact that nothing on the campaign
tables proceeds afterwards, until the outbox worker's process is killed (`OutboxRestarts`).

Abstractions: the tempo, the daily limit and `next_attempt_at` only delay a claim. A `Refresh` counts
what is committed and may miss a concurrent transaction. The reconciler's limit of rows covers the
campaign. `requeueStaleQueuedRecipientsWithoutOutbox` needs a linked draft whose outbox row was deleted by hand,
and is left out.

### EmailCampaign

A recipient is `<<address, version>>`: `editCampaign` deletes the rows of the list before and inserts the
next version, and the deletion cascades to their tokens. `status[r]` is the row, `tokens` the rows with an
unsubscribe token, `mailed[r]` counts what the provider accepted. A request is two actions,
`StartCheck` and `StartWrite` and so on: the write repeats none of the check's conditions. Who starts a
campaign goes on to dispatch (`batch`) like a worker. A dispatcher goes through `claimed`
(`claimNextRecipient` has committed), `mailing` (the token is there), `accepted` or `refused`, and
`committing`: between `Record`, which updates the row and counts the open ones, and `Commit`. The count
sees what was committed and its own row; `verdict[p]` keeps it. `RecordFails` leaves an accepted mail to
be recorded as failed, `Abandon` is an exception that ends the batch with its row claimed.

`EditWrite` deletes rows, and PostgreSQL lets it wait for the row a dispatcher has updated and not
committed (`NoOpenTransaction`).

### SocialInbox

A transaction's writes are its process's own until the commit applies them; what others see of it are its
locks. A worker's `pc` tells which it holds: `keyed` the entry of the event key, `identified` the row of
the customer's identity, `threaded` the conversation, `inserted` the message id; a request holds the
message id (`inserted`), then the conversation (`bumped`). The two take the last two in opposite order,
so a reply and its echo can wait for each other; PostgreSQL aborts one of them (`AbortWorker`,
`AbortReply`), and which one is free. A worker's failed transaction goes to `MarkFailed`, which is a
statement of its own and may fail as well. A contact is named by the row of the log whose transaction
created it.

### AutoReply

`phase[i]` follows a message from `CustomerWrites` through `IngestMessage`, `Count`, `CheckCooldown` and
`QueueDraft` to `RecordEvent`, each of which is a statement or a transaction of its own. The draft is a
message (`stamp` is its `sent_at`, `link` its external id, `deleted`) with a job (`outbox`, `due`, `tries`).
An attempt is what a claim starts, `attempt[i][n]` for the claim that made `attempt_count` n: `LookAndSend` or
`LookAndDrop` is the query for a newer outgoing message and what is decided on it, `Drop` the deletion,
`WhatsAppAccepts` the delivery, `CommitSent` or `CommitClashes` the transaction that records it,
`AttemptFails` and `RecordFailedAttempt` the catch block. `ResetStale` gives the job back while its attempt goes
on, so attempts at one reply overlap, and `markDispatched` and `markFailed` write by id, whoever has the job.
An answer lost after the acceptance leaves the copy with the customer: `copy[i][n]` keeps it, whatever is
recorded. Its echo (`EchoLinks`, `EchoStored`) comes before, after or instead of the commit; it takes the
draft of its text that is nearest in time, and since every reply of a conversation has the text of its one
template, that may be another reply's. What somebody sends without words is linked to a draft in the same way
(`PersonSendsMedia`).

Time is a small clock, because the rules compare time stamps; `Seconds` are the times WhatsApp's stamps can
have, so that an echo may put a reply's time before its draft's. Two history variables: `overlapped` tells
whether two replies of the conversation were ever being dropped at once, `adopted` which replies had another's
message linked to them.

An evaluation or an attempt whose process dies is one that takes no further step, which is always allowed,
and a message WhatsApp refuses is one it never accepts. Abstracted: the delay of a failed job
(`next_attempt_at`; it may be claimed at once), the finalizer that closes a job without attempts left as
failed (its draft stands either way), a person's message of exactly the template's text, and the chat
identity of the link (an echo that only the trigger of migration 050 would link is rolled back, see below). A
failed draft stands, as it does for the look.

### ContactMerge

`contactStatus` and `phoneOf` are the contacts, `jidContact` the identities, `holder` and `threadKey` the
conversations, `inThread` and `msgContact` the messages, `history` the recorded merges. What a transaction
has decided (`who`, `conv`, `plan`) is its own until `CommitMessage` or `CommitMerge` applies it. Others
meet it before that through `locks`: a row or an index entry with PostgreSQL's strengths, key share,
no-key update and update, of which two conflict when their sum exceeds three. A statement runs at one
moment, when it need not wait, and sees what is committed then, which is READ COMMITTED without a
statement that resumes on a row it waited for: such a statement is one that ran later. `Rollback` at any
point stands for every failure: refused inserts, deadlocks, lost connections.

Abstractions: a contact or a conversation is named after the message that created it, a contact entered
by hand by itself. One WhatsApp account. Names, avatars, owners, projections and the replacement of a phone
by a Malaysian one are left out, and so are the leads, orders and campaign rows the merge moves, which no
other step here reads.

### InboxCache

`log[m]` is the sequence of versions of a message's row, the last one stored: `Store`, `Accept`,
`RowFails` and `Receipt` append what their transactions write (`Accept` two versions, since the dispatch
updates the row twice and Realtime pushes changes one by one). `seen[m]` is the newest version pushed,
`page` what a fetch has read at the server and not yet delivered, `asked[m]` and `retrying` the requests
under way. `cache` is the set of bubbles; a bubble has the message it is of, the ids it carries
(`optimistic`, `queued` before WhatsApp's id, `linked` after) and a status. `Merge`, `Compacted` and
`Upserted` follow `inboxCache.ts` statement by statement, except that sorting is by a clock the model does
not have: bubbles are taken in every order, which is why `Compacted` returns the set of possible results.

Abstractions: all messages have the same text and meet within the two minutes, the case in which the
merge does something. Retries change nothing at the server here: what they do to the outbox is in
`MessageOutbox`. `device_delivered` and `played` are left out, since the merge treats them like `read`.
Incoming messages, deletions, older pages and the list of conversations are left out.

## Runs

| Run | Configuration | Shows |
|---|---|---|
| `outbox_one` | an auto reply with two attempts and a draft with neither row nor recipient, one worker, one request, one requeue | copies within the budget, dispatched means sent, acknowledged means linked, closed is reported, the status never goes back, `MessageDelivery` is implemented, every draft settles |
| `raw_events` | three stories: one message under two keys; a receipt and its duplicate, before and after the draft they are about is linked; a protocol message beside a contact snapshot. A worker and a replay on pools of their own. Or the automatic replies that ingested messages start: two messages, two attempts at each reply, every echo, one upset (a lost answer or failed statement, a claim taken back, a person's message); the two messages are symmetric | done means applied, `InboundLog` is implemented (a message enters the inbox once and counts as unread once, a receipt is logged once and after its message); a second reply has its cause, some reply stands; the inductive invariants |
| `raw_pool` | a message and an unsupported event, a worker and a replay on one pool of two connections | every message arrives although each processor waits for the other's connection, and no event stays behind a crash, an abandoned batch or a replay |
| `connector` | two connectors, a fault, an event, a request | at most one socket per connector and none lost, consumers are watched, the inductive invariant; two consumers do not last; failover |
| `connector_stopped` | two connectors, one close | violated: see below |
| `campaign_workers` | a recipient, two workers, two attempts, a fault, an operator | sent means accepted, put back means unlinked, drafts within attempts, the inductive invariant |
| `campaign_operators` | a worker and two operators whose requests overlap | no recipient is forgotten while the campaign is sending |
| `campaign_resend` | a worker and an operator | violated: see below |
| `email_campaign` | two addresses, a worker, two operators, a replacement of the list, a fault | `Mailing` is implemented (nobody is mailed twice, sent means mailed, who was taken up never waits again), links work, the inductive invariant; a campaign completes when settled; pending rows are claimed |
| `email_suppressed` | two addresses, an operator | violated: see below |
| `inbox` | social: two messages and a reply in up to three events, two workers; one failure. Contacts: two incoming messages under a LID and a phone's id, one sent, two contacts entered by hand, two merges, rollbacks at any point. Browser: a message of the agent and one of somebody else, a failure or a receipt, a retry | `InboundLog` is implemented (closed means stored), replies are stored, the identity owns the thread, messages arrive; a message's contact and its conversation's are one person; a message has one bubble with a status of its own, bubbles follow their messages; the inductive invariants but the contacts' |
| `contacts_merge` | three incoming messages, one sent, one merge | violated: see below |

Each property of a passing run has a mutant in `PROJECT.json`: a change of one definition that is a
plausible bug of the code (a dropped guard, a reset that refunds attempts, an index that is missing) and
that makes the property fail under the run's own configuration.

Type invariants are checked as the first conjunct of the inductive invariants.

The connector's, the campaigns' and the inbox's configurations turn the deadlock check off: a connector
that was told to stop, or that lost its lease, has nothing more to do, a campaign that is finished,
cancelled or blocked stops, and so does an inbox whose bounded messages are all handled. The outbox and the raw event log never stop (their workers poll), so there deadlock is
checked (a conversation whose automatic replies are all decided may rest, `AllAnswered`).

### Bounds

* `MaxRequeues`, `MaxReplays`, `MaxRequests`, `MaxEvents`, `MaxEdits`, `MaxRows`, `MaxChanges`,
  `MaxRetries` and `MaxTime` bound what people, WhatsApp and Meta do, and the clock; `MaxFaults` bounds crashes,
  failed calls and lost answers everywhere but in `MessageOutbox`. They are guards of the model, not of the code. Crashes in `MessageOutbox` need no bound:
  `attempt_count` bounds them. Delay needs none either: a claim may go stale as often as it is taken.
* Two attempts distinguish "will be retried" from "last attempt".
  Two actors per row are the least that race; the code has no step that involves three, except the
  campaign's (worker, outbox, reconciler, operator), all of which are there.
* `PoolMax = 2` is the default of `DATABASE_POOL_MAX`.
* `MaxRows = 3` is two messages and an echo, or a message delivered twice and an echo; with two workers
  and a batch of two, both may have a customer's first messages in hand.
* `MaxUpsets` bounds together the failures of attempts, the claims taken back and the messages people send
  around automatic replies. One of them is enough for either cause `SecondReplyHasACause` names; with two
  (eight million states) and with a clock to three and first-message replies (ten million) the properties
  hold as well. `Seconds = {0, 2}` with `MaxTime = 2` has a time (1) WhatsApp cannot tell from an earlier
  one, and `Delay = 1` lets a reply fall due before or after another is drafted. Nearness is decided by
  `Nearest`; `EchoWindow = 2` leaves every draft of the run within it.
* Two incoming messages, two contacts by hand and two merges are the least in which an ingestion that found
  a contact before a merge writes after it and a second merge meets what it wrote; rollbacks need no bound,
  since a transaction that rolled back leaves nothing and starts over.
* Two messages of one text are the least of which one can be taken for the other's echo; `MaxChanges = 1`
  lets one of them fail and be accepted later, or be read. (With two changes the properties hold as well;
  the run then takes twice as long.)
* Retry counters are counted up to the cap, which is all they are compared with.

The theorems below hold for every value of these constants.

## Fairness

* `MessageOutbox!Fairness`: the loop of `processMessageOutbox.ts:14-52` catches every error, sleeps and
  goes on, so a worker that can take a step takes one; a request runs to its end; backoffs and the age of
  a claim pass with time. Nothing is assumed of the connector's answers, crashes, callers, operators or
  WhatsApp.
* `RawEvents!Fairness`: the same for `processRawEvents.ts:10-44`; a wait for a connection ends after
  `connectionTimeoutMillis`. The strong fairness of `KeyStep` says that who waits for an uncommitted key
  gets its turn: PostgreSQL queues lock waiters.
* `ConnectorSession!Fairness`: heartbeats and timers are `setInterval` and `setTimeout`, pending
  transactions come back, and a lease that nobody renews runs out. Sockets need not open, and a crashed
  connector need not restart. A lease that is being renewed only expires as a fault.
* `CampaignDispatch!Fairness`: the loop of `processCampaignDispatch.ts:14-52` and the reconciler in the
  outbox worker's loop; that a draft which is not dispatched is settled by the outbox is what
  `EveryDraftSettles` of `MessageOutbox` says (nothing is assumed of one that is); time passes. Nobody need restart a blocked
  outbox worker.

* `EmailCampaign!Fairness`: the loop of `processEmailCampaignDispatch.ts` catches every error and polls
  on; nothing is assumed of operators, of the provider's answers or of a crashed worker's row.
* `SocialInbox!SocialFairness`: the workers' loop, a request once Meta has answered, and PostgreSQL's
  resolution of a deadlock. Meta need not deliver or answer.
* `InboxCache!CacheFairness`: while a conversation is open its query is fetched again every second or every
  fifteen (`InboxPage.tsx:31-33`, `:279`) and a fetch returns. Nothing is assumed of Realtime, of the
  requests, or of what the server does.

## Proofs

tlapm checks the following for every value of the constants, from the assumptions named in the modules
(`OutboxAssumption`, `RawEventsAssumption`, `ConnectorAssumption`, `CampaignAssumption`,
`EmailAssumption`, `SocialAssumption`, `AutoReplyAssumption`, `ContactAssumption`, `CacheAssumption`) and
nothing else: every safety property that a passing run checks, and each of the four refinements.

* `MessageOutbox_proofs`: lemmas about the status order (an update never lowers the rank of an accepted
  status, a failure is shown on every message that was not accepted), `TypeCorrect`, `InductiveInvariant`, then `CopiesBounded`, `AckedIsLinked`,
  `DispatchedIsSent`, `ClosedJobsAreReported`, `AckMonotone` and `OutboxImplementsDelivery`.
* `RawEvents_proofs`: `TypeCorrect`, `InductiveInvariant`, then `DoneIsApplied`, `CountedOnce`,
  `LoggedOnce` and `EventsImplementLog`.
* `ConnectorSession_proofs`: `TypeCorrect`, `SocketsAccounted`, `OneSocket`, `ConsumersWatched`.
* `CampaignDispatch_proofs`: `TypeCorrect`, `InductiveInvariant`, then `SentIsAccepted`,
  `PutBackIsUnlinked` and `DraftsBounded`.
* `EmailCampaign_proofs`: `TypeCorrect`, `InductiveInvariant`, then `AtMostOneMail`, `SentIsMailed`,
  `UnsubscribeLinksWork`, for the action property `CompletionIsSettled`, and `CampaignImplementsMailing`.
* `SocialInbox_proofs`: `SocialInductive`, then `SocialTypeCorrect`, `ClosedRowsAreStored`,
  `DeadlocksLoseNoReply`, `IdentityFollowsThread` and `SocialImplementsInboundLog`.
* `Inbox_proofs`: `AutoReplyInductive`, then `AutoReplyTypeCorrect`, `SecondRepliesExplained` and
  `DropsLeaveAReply`; `CacheInductive`, then `BubblesTruthful`.
* `ContactMerge_proofs`: `ContactInductive`, then `ContactsKeepThreads`.

**The outbox's invariant** is `IInv == TypeOK /\ ClaimInv /\ DisplayInv`. That copies stay within
`attempts` is not inductive: a step that sends a copy must know that its attempt number was not yet used.
`ClaimInv` supplies it. Numbers are handed out by `claimById`, which increments in the statement that
claims, so two actors never hold the same number of one row (`ClaimsAreDistinct`), a held number was
counted (`ClaimsWereCounted`), and one that was not sent yet is not on the wire (`UnsentClaimsAreFresh`);
then a copy is an attempt (`CopiesAreAttempts`). `DisplayInv` ties what is shown to what happened:
acknowledged exactly when linked to a copy on the wire, dispatched only when linked or dropped, given up
only when reported. It needs `SentIsOnWire` of `ClaimInv`: the id that a late `CommitDispatch` writes
is the id of a copy. The proof has a lemma per conjunct and group of actions; the
refinement (`OutboxImplementsDelivery`) uses `IInv` for the guards of `Deliver` (the budget), `Accept` and
`Dispatch` (something was sent). Its steps are split by which of the three abstract variables they change,
and most change none.

**The raw events' invariant** is `IInv == TypeOK /\ WorkInv /\ KeyInv /\ DataInv` and the three properties.
A duplicate is ignored because its key is committed, so `DoneMeansApplied` needs that a committed key
stands for an effect (`DataInv`), for every event of the key: that is where the assumption that a key
determines the kind and the message is used. The key is committed after the effect only because a
processor in `commit` has its message stored (`WorkInv`, for a receipt as for a message: a receipt is logged
after the message it is about), and by one transaction only because an open key
has a single holder and is not committed (`KeyInv`), which is what the unique index gives. The proof first
settles the steps that leave the effects alone (`StepAside`: a processor that holds no key afterwards
disturbs nobody), then the insertion of a key (`TakeKey`) and the two commits (`IngestData`, `CommitData`).
`EventsImplementLog` looks at the tables and at the rows' statuses apart: the inner commit and the link of a
draft are an `Arrive`, the outer commit of a receipt is a `Log`, what else ends a row a `Close`, and a claim, a
reset, a failure or an operator's replay at most a `Reopen`.

**The connector's invariant** is `ConnectorIInv == TypeOK /\ SocketInv`. One socket per connector is not inductive by itself: an
initialization that has passed its guards creates a socket later without another look. What saves it is
that while an initialization is in its early awaits nothing is registered, and until it ends there is
no heartbeat, whatever is dropped under it; and that a process that is down holds nothing.

**The campaign's invariant** adds `MemoryInv` and `AttemptInv` to `TypeOK` and the three properties. The
bound on drafts is not inductive: a worker that has claimed a recipient, whose claim then went stale and
was taken by another, still makes its draft. `AttemptInv` counts such workers with the drafts
(`MayDraft`): each holds an attempt that its claim took, a draft uses one up, and a retry that resets
`attempt_count` is one more request of a human. `MemoryInv` says that who sends or links still has its
recipient, and that the draft it is about to link exists; with the type of `link` that is what
`SentMeansAccepted` needs when the reconciler follows `message_id`. Drafts are never lost and one that
WhatsApp took stays so (`DraftsKept`), which carries `SentMeansAccepted` over every other step.

**The e-mail campaign's invariant** is `TypeOK /\ RowInv /\ HolderInv /\ OneHolder /\ CountInv /\
CreationInv`. That a row is mailed once needs that a claimed row has one holder (`OneHolder`), that no row
that was claimed is pending again (`HolderInv`: the row in hand is not `Unclaimed`), and how often it was
mailed at each point of the dispatch. The completion is decided from a count made in a transaction that
sees no other's, and is still right when it commits (`CountInv`): rows only leave the open statuses, except
when the list is replaced, and a replacement waits for the row the counting transaction has updated. That
no list appears after a count of nothing needs that the creation is over before any dispatch
(`CreationInv`). `CampaignImplementsMailing` follows an address through its lists: a replaced row is gone,
though a dispatcher may still mail it and record the outcome in no row, which is why `Mail` asks for a link
only of a row that is there.

**The social inbox's invariant** is `WorkInv` (no row of the log is in two hands), `LockInv` (what each lock
excludes: the order in which the statements take them is in the ranges of `pc`) and `DataInv` (a committed
key stands for a stored message), with the two properties they support. `IdentityOwnsThread` is inductive
with them because the lock on the identity is held until the commit that writes both. `RepliesAreStored`
is about behaviours without faults: a request loses its row only to a deadlock, that is to a worker that
has inserted the echo and needs only to commit. `SocialImplementsInboundLog` splits the steps by what
they close: a worker's commit is an `Arrive` that closes its delivery, or only a `Close` when the request has
stored the reply before its echo; an ignored row closes its delivery on a committed key, whose message is
stored (`DataInv`); a request's commit is an `Arrive` without a delivery, of a reply that nothing stored
while the request held its entry; `MarkFailed` after a commit whose answer was lost is a `Reopen`.

**The automatic replies' invariant** is `AttemptInv` (an attempt was counted, one that drops the reply has
asked WhatsApp for nothing, a copy is not older than its draft), `DeletedInv` (a deleted reply was dropped by
an attempt), `DraftInv`, `BurstInv` and `StandInv`. A reply goes out only after a look that saw no outgoing
message newer than the one it answers, and a draft counts as one from the moment it is there, whatever
becomes of it later but being deleted or being given an earlier time. Its own echo gives it the second of a
copy made after the draft, which is still later than any second before the draft (`DraftInv`, with `adopted`
as the exception); so of two drafts made after each other's messages the second look sees the first
(`BurstInv`, `SeenByLook`). `BurstInv` is about replies WhatsApp was asked for, not those recorded as sent,
so lost answers and taken claims do not weaken it. A reply that is deleted although it went out had two
attempts, since the one that dropped it never asked (`SentAndDeleted`), which gives
`SecondReplyHasACause`. `StandInv` carries what a look saw to the drop it justifies, which is true only while
no other reply is being dropped.

**The contacts' invariant** is `ContactIInv`: the types, `LocksExclude` (no two transactions hold locks that
conflict), `StoredWhenDone` (who is not done has stored nothing and created no conversation), a conjunct per
message under way (`MessageInHand`), three per merge (`MergeSteps`, `MergeLocks`, `MergeInHand`) and
`ThreadsKeepCustomers`. What a transaction has read may be old when it writes, and the invariant says what
is left of it: a conversation once found is of the same person for ever, though its contact may change by
merges and its row may go away. `SamePerson` is an equivalence that grows with `history` (`Linked`, defined
without recursion as membership in the same closed sets), so another merge's commit takes it along. Where
that is not enough the locks step in: a message whose row refers to a conversation holds a key share on it,
which excludes the deletion and the handing over of the conversation; a merge that has emptied one
conversation into another holds the first for update, so nothing gets in before it is deleted, and a key
share on the second, so that it is not deleted by another merge; and two merges never have the same message
in hand. The proof first treats the steps that write no row (`QuietOthers`: whoever is not the actor keeps
its part), then the two commits. `FoldThread`'s lock, the lock on the contact and those on the index
entries turn out not to be needed for it.

**The cache's invariant** is `CacheIInv`: the types, `LogInv` (a row is written as a queued draft, and is
not accepted before it is linked), `CacheInv` and `BubblesAreTrue`. That a bubble has a status of its own row
is not inductive, since `messageMatches` takes bubbles of equal text for one another. `CacheInv` adds that no
two bubbles in the cache match (`Apart`), so an unresolved bubble, which matches every other of the window, is
alone, and bubbles that stand beside one another meet only under their ids; and that an unlinked bubble is not
accepted (`Queued`), also one a fetch has under way. When bubbles of two messages are merged, the result has
the ids of the one `PreferIncoming` picks, and all it can have from the other is "pending" (or "queued", as a
retry is shown), which every row has been (`MergeTrue`). `Compacted` folds the merge over the bubbles in every
order; that its results are true and apart is shown by the least number of bubbles for which they are not
(`CompactedInTrue`), and that the fold exists in the same way (`KeptExists`), since the library's induction
theorems cannot be used.

**Only model-checked**: every liveness property (`BubblesFollowMessages`, that the conversation comes to show
the stored rows, is one), and that deadlock is absent where it is checked. Liveness under fairness and ENABLED
are out of the prover's reach.

## Disagreements between code and documents

Four are runs whose property is what the text says and whose counterexample is what the code does.

* `connector_stopped`: the dashboard says of a suspected ban that "Auto reconnect has been stopped"
  (`WhatsAppAccountDashboard.tsx:314`). The connector that saw the ban remembers it in its own memory
  and releases the lease; another connector that waits for the lease takes it and connects, since
  `initializeSession` does not read the account's status.
* `campaign_resend`: a resume says "Sent recipients will not be resent"
  (`campaigns.controller.ts:1128`). `resetResumeSafeRecipients` takes a queued recipient without
  `message_id` for unsent, but `message_id` is written in a statement of its own after the draft and its
  outbox row are committed (`campaignDispatchService.ts:429`).
* `email_suppressed`: the campaign page says "Contacts on the suppression list are skipped before send"
  (`EmailCampaignPage.tsx:1582`). The list is read when the recipients are prepared, and neither the start
  nor the dispatch reads it again (`emailCampaignService.ts:1162`).
* `contacts_merge`: the merge dialog says "Conversations, messages, WhatsApp identities, leads, activities,
  sales orders, dispatch records, and template outcomes will move to the target contact"
  (`ContactsPage.tsx:1466`). `applyDuplicateContactMerge` moves the messages it sees and then deletes the
  conversation (`contactRepairProposalService.ts:346`). An agent's message that was inserted by then and
  commits in between is deleted with it, by the foreign key's cascade, and so is its outbox row.

Others were read and have no run, because the text is too loose to be a property or the code is not modelled:

* `050_merge_outgoing_echo_with_queued_draft.sql:106` says of the echo whose insert the trigger has turned
  into an update that "insertIfAbsent can still select it in its fallback". The fallback
  (`messageRepository.ts:210`) is part of the statement that inserts and reads with its snapshot, in which
  the row still has its queued id: it finds none, `result.rows[0]` is undefined, the destructuring throws
  and the ingestion rolls back, the link included. The event is retried and succeeds once the dispatch has
  recorded the id itself.

* `README.md:136` says a *stuck* outbox row is returned to pending; a live worker's rows are too.
* `README.md:133` calls `RAW_EVENT_WORKER_MAX_RETRIES` the cap for automatic retries; the transient
  recovery (`rawEventRepository.ts:159`) has none.
* The platform's requeue takes rows of any status (`platformService.ts:341`), the operations center's only
  failed and stale ones (`opsCenterService.ts:381`).
* `docs/architecture.md:29` describes leases as ownership; an expired owner goes on until its next
  heartbeat. `EventuallyOneConsumer` is what is true.
* `connectorCommandService.test.ts:34` tests that a status poll leaves a suspected ban alone; the poll
  writes after a read that may be old (`CommitPoll`).
* Cancelling answers "Unsent recipients were skipped" (`campaigns.controller.ts:1240`); drafts already in
  the outbox are still sent.

## What is not modelled

Within the modelled components: the text of messages and errors, the choice of sender, tempo, limits
and schedules; the summaries and projections recomputed in the same transactions; media. The number of
workers is fixed, but a worker may stay idle or crash and come back. The database is taken at its word:
a statement is atomic, an index unique, a lost connection rolls back.

Two fallbacks for ids and a best effort: an answer of the connector without `key.id` gets
`dispatch:<uuid>` (`messageDispatchService.ts:255`) and one of Meta without `message_id` gets
`social-send:<uuid>` (`socialMessageSendService.ts:60`), after which receipts and echoes do not find the
row; a failure of `touchWarmupStarted` (`campaignDispatchService.ts:461`) after the link is committed. The
composer's own checks before a send (`ChatPanel.tsx:427`) are left to its callers: the browser's run has one
message of the agent's.

Whole components: see the inventory and the `note` of each component in `PROJECT.json`. Queries,
forms, exports, authentication and AI assistance keep no state that two processes race for. The
warmer, the repair of contacts and the totals of orders do, and are in the plan.

## Plan

Done, in this order, most important first: `AckStatus`; `MessageOutbox` with `MessageDelivery`
(checked, safety and refinement proved); `RawEvents`, `ConnectorSession`, `CampaignDispatch`,
`EmailCampaign`, `SocialInbox`, `AutoReply`, `ContactMerge` and `InboxCache` (checked, safety proved);
`InboundLog` and `Mailing` (refinements checked and proved).

Next:

1. `OutboundEcho`: the echoes of equal drafts (which `AutoReply` has for one template) under either id of the
   chat, the trigger and its snapshot; as a run of its own, the comment of the migration.
2. The other uses of `contactRepairProposalService.ts` (repair, recovery), the warmer and order
   totals.
3. An abstract campaign (recipients are pending, sent, failed or skipped, and what an operator may undo) that
   `CampaignDispatch` is shown to implement, with the completion and cancellation properties it needs.

## Running it

```
tlc -workers 2 -config OutboxOne.cfg MCMessageOutbox.tla
tlapm MessageOutbox_proofs.tla
```

The configurations and their modules are listed under `runs` in `PROJECT.json`; the largest
(`EmailCampaign.cfg` and `RawEvents.cfg`, more than a million states each) take some two minutes, and the proofs some minutes together.
