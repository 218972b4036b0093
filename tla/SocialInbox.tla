------------------------------ MODULE SocialInbox ------------------------------
(****************************************************************************)
(* Messages of one connected Facebook or Instagram account: the webhook     *)
(* logs what Meta delivers (social_raw_events), worker processes claim the   *)
(* log in batches and store each message once, and agents send replies       *)
(* through Meta, which Meta then delivers back as an echo with the same id.  *)
(*                                                                          *)
(* The workers and the requests of the API are separate processes on one    *)
(* Postgres at READ COMMITTED.  A transaction's writes are its process's     *)
(* own (pc, row, contact) until its commit applies them; what other          *)
(* transactions see of it before are its locks: the entry of its event key,  *)
(* the row of the customer's identity, the row of the conversation, the      *)
(* entry of the message id.  A transaction that needs one of them waits.     *)
(****************************************************************************)
EXTENDS Integers, FiniteSets

CONSTANTS
    Profiles,      \* customers, each with one conversation with the account
    Incoming,      \* ids Meta gives to the customers' messages
    Replies,       \* ids Meta gives to the agents' replies, one request each
    ProfileOf,     \* the customer a message is from or to
    Workers,       \* processes of workers/processSocialEvents.ts
    MaxRows,       \* bound on the rows of social_raw_events
    BatchSize,     \* SOCIAL_EVENT_WORKER_BATCH_SIZE
    MaxFaults,     \* bound on crashes, failed statements and lost answers
    Unsupported,   \* an event that is no message (a receipt, a change)
    NoEvent

Mids == Incoming \cup Replies
Rows == 1..MaxRows
NoContact == 0

ASSUME SocialAssumption ==
    /\ MaxRows \in Nat /\ BatchSize \in Nat \ {0} /\ MaxFaults \in Nat
    /\ Incoming \cap Replies = {}
    /\ Unsupported \notin Mids /\ NoEvent \notin Mids \cup {Unsupported}
    /\ ProfileOf \in [Mids -> Profiles]

VARIABLES
    event,         \* social_raw_events: what the row logs
    status,        \* social_raw_events.processing_status, "none" before the row
    keys,          \* social_processed_event_keys
    identity,      \* contact_identities: the customer's contact
    thread,        \* conversations: the contact of the customer's conversation
    stored,        \* messages: the external_message_ids with a row
    taken,         \* the replies Meta accepted and delivers to the customer
    request,       \* where the request that sends a reply is
    pc,            \* where a worker is
    batch,         \* rows it claimed and has not started
    row,           \* the row it processes
    contact,       \* the contact its transaction resolved
    faults         \* failures so far

dbVars == <<event, status, keys, identity, thread, stored>>
workVars == <<pc, batch, row, contact>>
svars == <<event, status, keys, identity, thread, stored, taken, request,
           pc, batch, row, contact, faults>>

-------------------------------------------------------------------------------

InTransaction == {"keyed", "found", "identified", "threaded", "inserted"}
HoldsIdentity == {"identified", "threaded", "inserted"}
HoldsThread == {"threaded", "inserted"}

\* Requests whose transaction has an uncommitted message row; they also hold
\* the row of social_channel_accounts, so there is at most one.
Uncommitted == {"inserted", "bumped"}

Mid(w) == event[row[w]]
Profile(w) == ProfileOf[Mid(w)]

SocialInit ==
    /\ event = [r \in Rows |-> NoEvent]
    /\ status = [r \in Rows |-> "none"]
    /\ keys = {} /\ stored = {} /\ taken = {}
    /\ identity = [p \in Profiles |-> NoContact]
    /\ thread = [p \in Profiles |-> NoContact]
    /\ request = [q \in Replies |-> "none"]
    /\ pc = [w \in Workers |-> "idle"]
    /\ batch = [w \in Workers |-> {}]
    /\ row = [w \in Workers |-> 0]
    /\ contact = [w \in Workers |-> NoContact]
    /\ faults = 0

\* Meta posts an event, possibly one it posted before, and the webhook logs it.
\* An echo follows the reply Meta accepted, at once or late.
Deliver(m) ==
    /\ m \in Incoming \cup taken \cup {Unsupported}
    /\ \E r \in Rows :
        /\ status[r] = "none"
        /\ \A s \in Rows : s < r => status[s] # "none"
        /\ event' = [event EXCEPT ![r] = m]
        /\ status' = [status EXCEPT ![r] = "pending"]
    /\ UNCHANGED <<keys, identity, thread, stored, taken, request, workVars, faults>>

-------------------------------------------------------------------------------
(* The worker: a batch is claimed in one transaction, then each of its rows   *)
(* is processed in a transaction of its own, in the order RETURNING gave.    *)

Oldest(S) == {r \in S : Cardinality({s \in S : s < r}) < BatchSize}

\* Mutant: A claim without "for update skip locked": rows another worker processes too.
ClaimBatch_Unlocked(w) ==
    LET open == {r \in Rows : status[r] \in {"pending", "processing"}}
    IN /\ pc[w] = "idle" /\ batch[w] = {} /\ open # {}
       /\ batch' = [batch EXCEPT ![w] = Oldest(open)]
       /\ status' = [r \in Rows |-> IF r \in Oldest(open) THEN "processing" ELSE status[r]]
       /\ UNCHANGED <<event, keys, identity, thread, stored, taken, request, pc, row,
                      contact, faults>>

ClaimBatch(w) ==
    LET pending == {r \in Rows : status[r] = "pending"}
    IN /\ pc[w] = "idle" /\ batch[w] = {} /\ pending # {}
       /\ batch' = [batch EXCEPT ![w] = Oldest(pending)]
       /\ status' = [r \in Rows |-> IF r \in Oldest(pending) THEN "processing" ELSE status[r]]
       /\ UNCHANGED <<event, keys, identity, thread, stored, taken, request, pc, row,
                      contact, faults>>

\* normalizeEvent returned null: markIgnored, in a transaction of its own.
IgnoreUnsupported(w, r) ==
    /\ pc[w] = "idle" /\ r \in batch[w] /\ event[r] = Unsupported
    /\ batch' = [batch EXCEPT ![w] = @ \ {r}]
    /\ status' = [status EXCEPT ![r] = "ignored"]
    /\ UNCHANGED <<event, keys, identity, thread, stored, taken, request, pc, row,
                   contact, faults>>

\* markIgnored failed: the loop logs it and goes on, the row stays in processing.
IgnoreFails(w, r) ==
    /\ pc[w] = "idle" /\ r \in batch[w] /\ event[r] = Unsupported
    /\ faults < MaxFaults
    /\ batch' = [batch EXCEPT ![w] = @ \ {r}]
    /\ faults' = faults + 1
    /\ UNCHANGED <<dbVars, taken, request, pc, row, contact>>

\* No other transaction has an uncommitted entry for the key of this message.
KeyIsFree(m) == \A w \in Workers : pc[w] \in InTransaction => Mid(w) # m

\* insertProcessedKey inserted nothing: the row is a duplicate and is ignored.
IgnoreDuplicate(w, r) ==
    /\ pc[w] = "idle" /\ r \in batch[w] /\ event[r] # Unsupported
    /\ KeyIsFree(event[r]) /\ event[r] \in keys
    /\ batch' = [batch EXCEPT ![w] = @ \ {r}]
    /\ status' = [status EXCEPT ![r] = "ignored"]
    /\ UNCHANGED <<event, keys, identity, thread, stored, taken, request, pc, row,
                   contact, faults>>

\* Mutant: The key is inserted in a transaction of its own.
TakeKey_Committed(w, r) ==
    /\ pc[w] = "idle" /\ r \in batch[w] /\ event[r] # Unsupported
    /\ KeyIsFree(event[r]) /\ event[r] \notin keys
    /\ batch' = [batch EXCEPT ![w] = @ \ {r}]
    /\ row' = [row EXCEPT ![w] = r]
    /\ pc' = [pc EXCEPT ![w] = "keyed"]
    /\ keys' = keys \cup {event[r]}
    /\ UNCHANGED <<event, status, identity, thread, stored, taken, request, contact, faults>>

TakeKey(w, r) ==
    /\ pc[w] = "idle" /\ r \in batch[w] /\ event[r] # Unsupported
    /\ KeyIsFree(event[r]) /\ event[r] \notin keys
    /\ batch' = [batch EXCEPT ![w] = @ \ {r}]
    /\ row' = [row EXCEPT ![w] = r]
    /\ pc' = [pc EXCEPT ![w] = "keyed"]
    /\ UNCHANGED <<dbVars, taken, request, contact, faults>>

\* The transaction does not get as far as the key, or not to the end of a duplicate.
BeginFails(w, r) ==
    /\ pc[w] = "idle" /\ r \in batch[w] /\ event[r] # Unsupported
    /\ faults < MaxFaults
    /\ batch' = [batch EXCEPT ![w] = @ \ {r}]
    /\ row' = [row EXCEPT ![w] = r]
    /\ pc' = [pc EXCEPT ![w] = "failing"]
    /\ faults' = faults + 1
    /\ UNCHANGED <<dbVars, taken, request, contact>>

\* findOrCreateSocialContact reads the committed identity; without one it
\* creates a contact (named here by the row that created it).
FindContact(w) ==
    /\ pc[w] = "keyed"
    /\ contact' = [contact EXCEPT ![w] = IF identity[Profile(w)] = NoContact
                                         THEN row[w] ELSE identity[Profile(w)]]
    /\ pc' = [pc EXCEPT ![w] = "found"]
    /\ UNCHANGED <<dbVars, taken, request, batch, row, faults>>

UpsertIdentity(w) ==
    /\ pc[w] = "found"
    /\ \A v \in Workers : pc[v] \in HoldsIdentity => Profile(v) # Profile(w)
    /\ pc' = [pc EXCEPT ![w] = "identified"]
    /\ UNCHANGED <<dbVars, taken, request, batch, row, contact, faults>>

UpsertConversation(w) ==
    /\ pc[w] = "identified"
    /\ \A v \in Workers : pc[v] \in HoldsThread => Profile(v) # Profile(w)
    /\ \A q \in Replies : request[q] = "bumped" => ProfileOf[q] # Profile(w)
    /\ pc' = [pc EXCEPT ![w] = "threaded"]
    /\ UNCHANGED <<dbVars, taken, request, batch, row, contact, faults>>

\* insertSocialMessageIfAbsent: waits for the request that has inserted the same
\* id, then inserts the message or finds it; the conversation is bumped and the
\* projections refreshed under the locks the transaction already holds.
InsertMessage(w) ==
    /\ pc[w] = "threaded"
    /\ \A q \in Replies : request[q] \in Uncommitted => q # Mid(w)
    /\ pc' = [pc EXCEPT ![w] = "inserted"]
    /\ UNCHANGED <<dbVars, taken, request, batch, row, contact, faults>>

\* Mutant: The upsert of the identity leaves the contact of an existing row.
IdentityAfter_KeepsOld(old, new) == IF old = NoContact THEN new ELSE old

\* What the transaction of processOne has written when it commits.
IdentityAfter(old, new) == new
\* Mutant: Echoes are taken for replies the API has stored itself.
StoredAfter_IncomingOnly(m) == stored \cup ({m} \cap Incoming)

StoredAfter(m) == stored \cup {m}

ApplyEvent(w) ==
    /\ keys' = keys \cup {Mid(w)}
    /\ identity' = [identity EXCEPT ![Profile(w)] = IdentityAfter(@, contact[w])]
    /\ thread' = [thread EXCEPT ![Profile(w)] = contact[w]]
    /\ stored' = StoredAfter(Mid(w))
    /\ status' = [status EXCEPT ![row[w]] = "processed"]
    /\ UNCHANGED <<event, taken, request, batch>>

CommitEvent(w) ==
    /\ pc[w] = "inserted"
    /\ ApplyEvent(w)
    /\ pc' = [pc EXCEPT ![w] = "idle"]
    /\ row' = [row EXCEPT ![w] = 0]
    /\ contact' = [contact EXCEPT ![w] = NoContact]
    /\ UNCHANGED faults

\* The transaction committed but the worker sees an error.
CommitAnswerLost(w) ==
    /\ pc[w] = "inserted" /\ faults < MaxFaults
    /\ ApplyEvent(w)
    /\ pc' = [pc EXCEPT ![w] = "failing"]
    /\ contact' = [contact EXCEPT ![w] = NoContact]
    /\ faults' = faults + 1
    /\ UNCHANGED row

TransactionFails(w) ==
    /\ pc[w] \in InTransaction /\ faults < MaxFaults
    /\ pc' = [pc EXCEPT ![w] = "failing"]
    /\ contact' = [contact EXCEPT ![w] = NoContact]
    /\ faults' = faults + 1
    /\ UNCHANGED <<dbVars, taken, request, batch, row>>

\* Mutant: processPendingBatch without its try: the first error ends the batch.
MarkFailed_EndsBatch(w) ==
    /\ pc[w] = "failing"
    /\ status' = [status EXCEPT ![row[w]] = "failed"]
    /\ pc' = [pc EXCEPT ![w] = "idle"]
    /\ row' = [row EXCEPT ![w] = 0]
    /\ batch' = [batch EXCEPT ![w] = {}]
    /\ UNCHANGED <<event, keys, identity, thread, stored, taken, request, contact, faults>>

\* The catch of processOne: "failed" is final, no statement takes the row back.
\* The loop of processPendingBatch goes on with the rest of its batch.
MarkFailed(w) ==
    /\ pc[w] = "failing"
    /\ status' = [status EXCEPT ![row[w]] = "failed"]
    /\ pc' = [pc EXCEPT ![w] = "idle"]
    /\ row' = [row EXCEPT ![w] = 0]
    /\ UNCHANGED <<event, keys, identity, thread, stored, taken, request, batch,
                   contact, faults>>

MarkFails(w) ==
    /\ pc[w] = "failing" /\ faults < MaxFaults
    /\ pc' = [pc EXCEPT ![w] = "idle"]
    /\ row' = [row EXCEPT ![w] = 0]
    /\ faults' = faults + 1
    /\ UNCHANGED <<dbVars, taken, request, batch, contact>>

\* The process dies and is started again: what it had claimed stays in processing.
Crash(w) ==
    /\ pc[w] # "idle" \/ batch[w] # {}
    /\ faults < MaxFaults
    /\ pc' = [pc EXCEPT ![w] = "idle"]
    /\ batch' = [batch EXCEPT ![w] = {}]
    /\ row' = [row EXCEPT ![w] = 0]
    /\ contact' = [contact EXCEPT ![w] = NoContact]
    /\ faults' = faults + 1
    /\ UNCHANGED <<dbVars, taken, request>>

-------------------------------------------------------------------------------
(* SocialMessageSendService.send: Meta is called outside any transaction,     *)
(* and the reply is stored after Meta has accepted it.                        *)

\* The conversation and its token are read in a transaction of their own.
Ask(q) ==
    /\ request[q] = "none" /\ thread[ProfileOf[q]] # NoContact
    /\ request' = [request EXCEPT ![q] = "calling"]
    /\ UNCHANGED <<dbVars, taken, workVars, faults>>

MetaAccepts(q) ==
    /\ request[q] = "calling"
    /\ request' = [request EXCEPT ![q] = "answered"]
    /\ taken' = taken \cup {q}
    /\ UNCHANGED <<dbVars, workVars, faults>>

MetaRefuses(q) ==
    /\ request[q] = "calling"
    /\ request' = [request EXCEPT ![q] = "failed"]
    /\ UNCHANGED <<dbVars, taken, workVars, faults>>

\* Meta sends the reply and its answer does not arrive, or is not JSON.
AnswerLost(q) ==
    /\ request[q] = "calling" /\ faults < MaxFaults
    /\ request' = [request EXCEPT ![q] = "failed"]
    /\ taken' = taken \cup {q}
    /\ faults' = faults + 1
    /\ UNCHANGED <<dbVars, workVars>>

\* The update of social_channel_accounts waits for the other replies of the
\* account, the insert for a worker that has inserted the same id.
MayInsert(q) ==
    /\ request[q] = "answered"
    /\ \A p \in Replies : request[p] \notin Uncommitted
    /\ \A w \in Workers : pc[w] = "inserted" => Mid(w) # q

InsertReply(q) ==
    /\ MayInsert(q) /\ q \notin stored
    /\ request' = [request EXCEPT ![q] = "inserted"]
    /\ UNCHANGED <<dbVars, taken, workVars, faults>>

\* The echo was stored first: the plain insert violates the unique index of the
\* message ids, and the agent is told that the reply failed.
ReplyConflicts(q) ==
    /\ MayInsert(q) /\ q \in stored
    /\ request' = [request EXCEPT ![q] = "failed"]
    /\ UNCHANGED <<dbVars, taken, workVars, faults>>

\* bumpLastMessage waits for the worker that holds the conversation's row.
BumpReply(q) ==
    /\ request[q] = "inserted"
    /\ \A w \in Workers : pc[w] \in HoldsThread => Profile(w) # ProfileOf[q]
    /\ request' = [request EXCEPT ![q] = "bumped"]
    /\ UNCHANGED <<dbVars, taken, workVars, faults>>

CommitReply(q) ==
    /\ request[q] = "bumped"
    /\ request' = [request EXCEPT ![q] = "done"]
    /\ stored' = stored \cup {q}
    /\ UNCHANGED <<event, status, keys, identity, thread, taken, workVars, faults>>

RequestFails(q) ==
    /\ request[q] \in {"answered"} \cup Uncommitted /\ faults < MaxFaults
    /\ request' = [request EXCEPT ![q] = "failed"]
    /\ faults' = faults + 1
    /\ UNCHANGED <<dbVars, taken, workVars>>

-------------------------------------------------------------------------------
(* A reply takes the message entry, then the conversation; its echo takes the  *)
(* conversation, then the message entry.  Postgres finds the cycle and aborts  *)
(* either transaction.                                                        *)

Deadlocked(w, q) ==
    pc[w] = "threaded" /\ Mid(w) = q /\ request[q] = "inserted"

AbortWorker(w, q) ==
    /\ Deadlocked(w, q)
    /\ pc' = [pc EXCEPT ![w] = "failing"]
    /\ contact' = [contact EXCEPT ![w] = NoContact]
    /\ UNCHANGED <<dbVars, taken, request, batch, row, faults>>

AbortReply(w, q) ==
    /\ Deadlocked(w, q)
    /\ request' = [request EXCEPT ![q] = "failed"]
    /\ UNCHANGED <<dbVars, taken, workVars, faults>>

-------------------------------------------------------------------------------

WorkerStep(w) ==
    \/ ClaimBatch(w) \/ FindContact(w) \/ UpsertIdentity(w) \/ UpsertConversation(w)
    \/ InsertMessage(w) \/ CommitEvent(w) \/ MarkFailed(w)
    \/ \E r \in Rows : IgnoreUnsupported(w, r) \/ IgnoreDuplicate(w, r) \/ TakeKey(w, r)

ReplyStep(q) == InsertReply(q) \/ ReplyConflicts(q) \/ BumpReply(q) \/ CommitReply(q)

Abort(w, q) == AbortWorker(w, q) \/ AbortReply(w, q)

SocialNext ==
    \/ \E m \in Mids \cup {Unsupported} : Deliver(m)
    \/ \E w \in Workers :
        \/ WorkerStep(w)
        \/ CommitAnswerLost(w) \/ TransactionFails(w) \/ MarkFails(w) \/ Crash(w)
        \/ \E r \in Rows : IgnoreFails(w, r) \/ BeginFails(w, r)
        \/ \E q \in Replies : Abort(w, q)
    \/ \E q \in Replies :
        \/ ReplyStep(q)
        \/ Ask(q) \/ MetaAccepts(q) \/ MetaRefuses(q) \/ AnswerLost(q) \/ RequestFails(q)

SocialSpec == SocialInit /\ [][SocialNext]_svars

\* A worker polls for ever and its loops catch every error; a request that has
\* Meta's answer runs to its end; Postgres resolves every deadlock.  Nothing is
\* assumed of Meta, of the agents, or of failures.
SocialFairness ==
    /\ \A w \in Workers : WF_svars(WorkerStep(w))
    /\ \A q \in Replies : WF_svars(ReplyStep(q))
    /\ \A w \in Workers, q \in Replies : WF_svars(Abort(w, q))

-------------------------------------------------------------------------------
(* Properties.                                                              *)

\* The columns and the local variables have the values the code gives them.
SocialTypeOK ==
    /\ event \in [Rows -> Mids \cup {Unsupported, NoEvent}]
    /\ status \in [Rows -> {"none", "pending", "processing", "processed", "ignored", "failed"}]
    /\ keys \subseteq Mids /\ stored \subseteq Mids /\ taken \subseteq Replies
    /\ identity \in [Profiles -> Rows \cup {NoContact}]
    /\ thread \in [Profiles -> Rows \cup {NoContact}]
    /\ request \in [Replies -> {"none", "calling", "answered", "done", "failed"} \cup Uncommitted]
    /\ pc \in [Workers -> {"idle", "failing"} \cup InTransaction]
    /\ batch \in [Workers -> SUBSET Rows]
    /\ row \in [Workers -> Rows \cup {0}]
    /\ contact \in [Workers -> Rows \cup {NoContact}]
    /\ faults \in 0..MaxFaults

\* A row of the log that is closed as processed, or ignored as a duplicate, has
\* its message in the inbox: the key that makes later deliveries duplicates is
\* never kept without the message, whatever fails between the two inserts.
ProcessedMeansStored ==
    \A r \in Rows :
        status[r] \in {"processed", "ignored"} /\ event[r] # Unsupported => event[r] \in stored

\* When nothing fails but Postgres resolving deadlocks, a reply the customer got
\* is in the inbox once its request is over, or the worker that has its echo is
\* about to store it: the request loses a deadlock only to that worker.
RepliesAreStored ==
    faults = 0 =>
        \A q \in taken :
            request[q] \in {"done", "failed"} =>
                q \in stored \/ \E w \in Workers : pc[w] \in HoldsThread /\ Mid(w) = q

\* Workers that each created a contact for the customer's first messages
\* overwrite identity and conversation one after the other: the contact that
\* later events resolve to is always the one the inbox shows the thread under.
IdentityOwnsThread ==
    \A p \in Profiles : identity[p] = thread[p]

\* In the end every logged message is in the inbox, or something failed: no
\* deadlock with a reply, duplicate or wait for another worker loses it or holds
\* it up for ever.
MessagesArrive ==
    <>[](\A m \in Mids :
           (\E r \in Rows : event[r] = m) => m \in stored \/ faults > 0)

\* The account's log and its workers implement InboundLog, with the replies the
\* agents' requests store themselves: Meta's deliveries are closed with their message
\* in the inbox, which it enters once, by its request or by one of its deliveries.
\* (No delivery is a receipt, and what counts as unread is left out: 0 of each.)
ClosedEvents == {event[r] : r \in {s \in Rows : status[s] \in {"processed", "ignored"}}}
Inbound == INSTANCE InboundLog
    WITH Messages <- Mids, Receipts <- {}, Arrivals <- Mids, Reports <- {},
         Deliveries <- Mids \cup {Unsupported},
         About <- [m \in Mids |-> m], ReceiptOf <- << >>,
         inbox <- stored, unread <- [m \in Mids |-> 0],
         logged <- [k \in {} |-> 0], closed <- ClosedEvents

SocialImplementsLog == Inbound!Spec

-------------------------------------------------------------------------------
(* The inductive invariant.                                                  *)

\* Which rows a worker has, and that no two workers have the same.
WorkInv ==
    \A w \in Workers :
        /\ pc[w] = "idle" <=> row[w] = 0
        /\ pc[w] # "idle" => row[w] \in Rows /\ event[row[w]] \in Mids
        /\ pc[w] \in InTransaction => status[row[w]] = "processing"
        /\ pc[w] = "failing" => status[row[w]] \in {"processing", "processed"}
        /\ \A r \in batch[w] : status[r] = "processing" /\ r # row[w]
        /\ \A v \in Workers \ {w} :
            /\ batch[v] \cap batch[w] = {}
            /\ row[w] \notin batch[v]
            /\ row[w] = row[v] => row[w] = 0

\* What each lock excludes.
LockInv ==
    /\ \A v, w \in Workers :
        pc[v] \in InTransaction /\ pc[w] \in InTransaction /\ Mid(v) = Mid(w) => v = w
    /\ \A v, w \in Workers :
        pc[v] \in HoldsIdentity /\ pc[w] \in HoldsIdentity /\ Profile(v) = Profile(w) => v = w
    /\ \A p, q \in Replies : request[p] \in Uncommitted /\ request[q] \in Uncommitted => p = q
    /\ \A w \in Workers, q \in Replies :
        /\ pc[w] \in HoldsThread /\ request[q] = "bumped" => Profile(w) # ProfileOf[q]
        /\ pc[w] = "inserted" /\ Mid(w) = q => request[q] \notin Uncommitted

\* What the tables say of one another.
DataInv ==
    /\ keys \subseteq stored
    /\ \A r \in Rows : status[r] = "none" <=> event[r] = NoEvent
    /\ \A r \in Rows :
        status[r] \in {"processed", "ignored"} => event[r] \in keys \cup {Unsupported}
    /\ \A w \in Workers : pc[w] \in InTransaction => Mid(w) \notin keys
    /\ \A w \in Workers :
        pc[w] \in InTransaction \ {"keyed"} => contact[w] \in Rows
    /\ \A q \in Replies :
        /\ request[q] \in Uncommitted => q \notin stored
        /\ request[q] = "done" => q \in stored
        /\ request[q] \in {"none", "calling"} => q \notin taken

SocialIInv ==
    /\ SocialTypeOK /\ WorkInv /\ LockInv /\ DataInv
    /\ IdentityOwnsThread /\ RepliesAreStored

===============================================================================
