------------------------------ MODULE RawEvents ------------------------------
(***************************************************************************)
(* The durable inbound log: the connector appends one raw_channel_events    *)
(* row per WhatsApp event, workers claim and process batches of them, and   *)
(* operators replay rows by hand without claiming them.                     *)
(*                                                                         *)
(* A message event is processed by two nested transactions on two           *)
(* connections of the same pool: the outer one inserts the event's dedup    *)
(* key and marks the row, the inner one (MessageIngestionService.ingest)    *)
(* stores the message and commits first.  So a crash may fall between the   *)
(* two commits, an uncommitted key makes its rivals wait, and processors    *)
(* that share a pool may all hold one connection and wait for another.      *)
(*                                                                         *)
(* Contacts, conversations, notifications and the ack_status a receipt      *)
(* leads to are not kept here: MessageOutbox has the last, and the others   *)
(* are read by no guard.  retry_count is counted up to MaxRetries only: the *)
(* code compares it with the cap and nothing else.                          *)
(***************************************************************************)
EXTENDS Naturals, FiniteSets

CONSTANTS
  Events,        \* raw events, numbered in the order they are received
  Externals,     \* external message ids
  Keys,          \* dedup keys
  Kind,          \* what an event is: see Kinds
  About,         \* the external message an event is about
  KeyOf,         \* the event's dedup key
  Drafts,        \* external ids of messages this CRM sends itself
  Workers,       \* processes that run processPendingBatch
  Replayers,     \* operator requests and scripts that run processEventById
  PoolOf,        \* the connection pool a processor takes its connections from
  PoolMax,       \* DATABASE_POOL_MAX
  MaxRetries,    \* RAW_EVENT_WORKER_MAX_RETRIES
  BatchSize,     \* RAW_EVENT_WORKER_BATCH_SIZE
  ErrorClasses,  \* the errors a database call may fail with
  MaxFaults,     \* bound: crashes, failed database calls, lost commits
  MaxReplays,    \* bound: how often operators replay events
  NoEvent

Processors == Workers \cup Replayers
Kinds == {"incoming", "outgoing", "protocol", "receipt", "snapshot", "unsupported"}
MessageKinds == {"incoming", "outgoing"}

ASSUME RawEventsAssumption ==
  /\ Events \subseteq Nat /\ IsFiniteSet(Events) /\ NoEvent \notin Events
  /\ Kind \in [Events -> Kinds]
  /\ About \in [Events -> Externals]
  /\ KeyOf \in [Events -> Keys]
  /\ \A e, f \in Events :
       KeyOf[e] = KeyOf[f] => About[e] = About[f] /\ Kind[e] = Kind[f]
  /\ Drafts \subseteq Externals
  /\ Workers \cap Replayers = {} /\ IsFiniteSet(Processors)
  /\ {PoolMax, MaxRetries, BatchSize} \subseteq Nat \ {0}
  /\ ErrorClasses \subseteq {"transient", "other"}
  /\ {MaxFaults, MaxReplays} \subseteq Nat

VARIABLES
  \* raw_channel_events
  status,        \* processing_status, "none" before the row is inserted
  retries,       \* retry_count, up to MaxRetries
  transient,     \* error_message is one of TRANSIENT_RAW_EVENT_ERROR_SQL
  stale,         \* last_attempt_at is older than STALE_AFTER_MS
  cooled,        \* last_attempt_at is older than the recovery cooldown
  \* what processing leaves in the database
  keys,          \* processed_event_keys
  stored,        \* external ids some messages row carries
  unread,        \* how often a message has bumped its conversation's unread count
  receipts,      \* rows of message_status_events, per receipt key
  \* the memory of the processors
  pc,            \* where the processor is in processPendingBatch or processEvent
  todo,          \* events of its batch it has not started
  cur,           \* the event it is processing
  caught,        \* the class of the error processEvent caught
  faults, replays

rowVars == <<status, retries, transient, stale, cooled>>
dataVars == <<keys, stored, unread, receipts>>
procVars == <<pc, todo, cur, caught>>
vars == <<rowVars, dataVars, procVars, faults, replays>>

Statuses == {"none", "pending", "processing", "processed", "failed", "ignored"}
Phases == {"idle", "claim", "run", "begin", "key", "connect", "ingest",
           "commit", "caught"}

TypeOK ==
  /\ status \in [Events -> Statuses]
  /\ retries \in [Events -> 0..MaxRetries]
  /\ transient \in [Events -> BOOLEAN]
  /\ stale \in [Events -> BOOLEAN]
  /\ cooled \in [Events -> BOOLEAN]
  /\ keys \subseteq Keys
  /\ stored \subseteq Externals
  /\ unread \in [Externals -> Nat]
  /\ receipts \in [Keys -> Nat]
  /\ pc \in [Processors -> Phases]
  /\ todo \in [Processors -> SUBSET Events]
  /\ cur \in [Processors -> Events \cup {NoEvent}]
  /\ caught \in [Processors -> {"none", "transient", "other"}]
  /\ faults \in 0..MaxFaults
  /\ replays \in 0..MaxReplays

Init ==
  /\ status = [e \in Events |-> "none"]
  /\ retries = [e \in Events |-> 0]
  /\ transient = [e \in Events |-> FALSE]
  /\ stale = [e \in Events |-> FALSE]
  /\ cooled = [e \in Events |-> FALSE]
  /\ keys = {} /\ stored = {}
  /\ unread = [x \in Externals |-> 0]
  /\ receipts = [k \in Keys |-> 0]
  /\ pc = [p \in Processors |-> "idle"]
  /\ todo = [p \in Processors |-> {}]
  /\ cur = [p \in Processors |-> NoEvent]
  /\ caught = [p \in Processors |-> "none"]
  /\ faults = 0 /\ replays = 0

-----------------------------------------------------------------------------
Goto(p, phase) == pc' = [pc EXCEPT ![p] = phase]

\* The processor's transaction holds one connection, and a second one while the
\* ingestion's own transaction runs.
OuterOpen(p) == pc[p] \in {"key", "connect", "ingest", "commit"}

ConnectionFree(p) ==
  LET sharing == {q \in Processors : PoolOf[q] = PoolOf[p]}
  IN  Cardinality({q \in sharing : OuterOpen(q)})
        + Cardinality({q \in sharing : pc[q] = "ingest"}) < PoolMax

\* The processor's open transaction has inserted its event's key.
HoldsKey(p) == pc[p] \in {"connect", "ingest", "commit"}

\* processEvent returns normally.
Done(p) ==
  /\ Goto(p, "run")
  /\ cur' = [cur EXCEPT ![p] = NoEvent]
  /\ caught' = [caught EXCEPT ![p] = "none"]

\* An exception leaves processEvent itself, or the process dies: what is left
\* of the batch stays as it was claimed.
Abandon(p) ==
  /\ Goto(p, "idle")
  /\ todo' = [todo EXCEPT ![p] = {}]
  /\ cur' = [cur EXCEPT ![p] = NoEvent]
  /\ caught' = [caught EXCEPT ![p] = "none"]

\* The transactions roll back and processEvent's catch block is entered.
Caught(p, class) ==
  /\ Goto(p, "caught")
  /\ caught' = [caught EXCEPT ![p] = class]
  /\ UNCHANGED <<todo, cur>>

Fault == faults < MaxFaults /\ faults' = faults + 1

Mark(e, s) ==
  /\ status' = [status EXCEPT ![e] = s]
  /\ transient' = [transient EXCEPT ![e] = FALSE]
  /\ UNCHANGED <<retries, stale, cooled>>

MarkFailed(e, class) ==
  /\ status' = [status EXCEPT ![e] = "failed"]
  /\ retries' = [retries EXCEPT ![e] = IF @ < MaxRetries THEN @ + 1 ELSE @]
  /\ transient' = [transient EXCEPT ![e] = class = "transient"]
  /\ UNCHANGED <<stale, cooled>>

-----------------------------------------------------------------------------
(***************************************************************************)
(* Batches: processPendingBatch claims rows, a replay only lists them.      *)
(***************************************************************************)
ResetStaleProcessing(p) ==
  /\ p \in Workers
  /\ pc[p] = "idle"
  /\ ConnectionFree(p)
  /\ status' = [e \in Events |->
                  IF status[e] = "processing" /\ stale[e] THEN "pending" ELSE status[e]]
  /\ Goto(p, "claim")
  /\ UNCHANGED <<retries, transient, stale, cooled, dataVars, todo, cur, caught,
                 faults, replays>>

IsClaimable(e) ==
  \/ status[e] = "pending"
  \/ status[e] = "failed" /\ retries[e] < MaxRetries

IsRecoverable(e) ==
  /\ status[e] = "failed"
  /\ retries[e] >= MaxRetries
  /\ cooled[e]
  /\ transient[e]

\* The first rows of a set, in the order they were received.
Oldest(S) == {e \in S : Cardinality({f \in S : f < e}) < BatchSize}

Claim(p, S) ==
  /\ status' = [e \in Events |-> IF e \in S THEN "processing" ELSE status[e]]
  /\ stale' = [e \in Events |-> stale[e] /\ e \notin S]
  /\ cooled' = [e \in Events |-> cooled[e] /\ e \notin S]
  /\ todo' = [todo EXCEPT ![p] = S]
  /\ Goto(p, "run")
  /\ UNCHANGED <<retries, transient, dataVars, cur, caught, faults, replays>>

\* claimPendingBatch
ClaimPendingBatch(p) ==
  LET due == {e \in Events : IsClaimable(e)}
  IN  /\ pc[p] = "claim"
      /\ ConnectionFree(p)
      /\ due # {}
      /\ Claim(p, Oldest(due))

\* claimTransientRecoveryBatch runs when the first claim came back empty, and
\* takes the rows that were attempted longest ago.
ClaimTransientRecoveryBatch(p) ==
  LET recoverable == {e \in Events : IsRecoverable(e)}
  IN  /\ pc[p] = "claim"
      /\ ConnectionFree(p)
      /\ \A e \in Events : ~IsClaimable(e)
      /\ \E S \in SUBSET recoverable :
           /\ \/ S = recoverable /\ Cardinality(S) < BatchSize
              \/ Cardinality(S) = BatchSize
           /\ Claim(p, S)

\* replayRawEvents: the rows are requeued whatever their status, and with
\* processNow each is processed as well, while a worker may claim it.
ReplayRawEvents(p, S, processNow) ==
  /\ p \in Replayers
  /\ pc[p] = "idle"
  /\ replays < MaxReplays
  /\ S # {} /\ \A e \in S : status[e] # "none"
  /\ replays' = replays + 1
  /\ status' = [e \in Events |-> IF e \in S THEN "pending" ELSE status[e]]
  /\ transient' = [e \in Events |-> transient[e] /\ e \notin S]
  /\ \/ processNow /\ todo' = [todo EXCEPT ![p] = S] /\ Goto(p, "run")
     \/ ~processNow /\ UNCHANGED <<todo, pc>>
  /\ UNCHANGED <<retries, stale, cooled, dataVars, cur, caught, faults>>

\* A replay reads the row again before it processes it, on a connection of the
\* pool; it does not look at its status.
StartEvent(p, e) ==
  /\ pc[p] = "run"
  /\ e \in todo[p]
  /\ p \in Replayers => ConnectionFree(p)
  /\ todo' = [todo EXCEPT ![p] = @ \ {e}]
  /\ cur' = [cur EXCEPT ![p] = e]
  /\ Goto(p, "begin")
  /\ UNCHANGED <<rowVars, dataVars, caught, faults, replays>>

EndBatch(p) ==
  /\ pc[p] = "run"
  /\ todo[p] = {}
  /\ Goto(p, "idle")
  /\ UNCHANGED <<rowVars, dataVars, todo, cur, caught, faults, replays>>

-----------------------------------------------------------------------------
(***************************************************************************)
(* processEvent on cur[p].                                                 *)
(***************************************************************************)
\* Mutant of MarkUnsupported: it returns without marking the row.
MarkUnsupported_Silently(p) ==
  /\ pc[p] = "begin"
  /\ Kind[cur[p]] = "unsupported"
  /\ Done(p)
  /\ UNCHANGED <<rowVars, dataVars, todo, faults, replays>>

MarkUnsupported(p) ==
  /\ pc[p] = "begin"
  /\ Kind[cur[p]] = "unsupported"
  /\ ConnectionFree(p)
  /\ Mark(cur[p], "ignored")
  /\ Done(p)
  /\ UNCHANGED <<dataVars, todo, faults, replays>>

\* contact.snapshot: one transaction, without a key.
SaveSnapshot(p) ==
  /\ pc[p] = "begin"
  /\ Kind[cur[p]] = "snapshot"
  /\ ConnectionFree(p)
  /\ Mark(cur[p], "processed")
  /\ Done(p)
  /\ UNCHANGED <<dataVars, todo, faults, replays>>

BeginTransaction(p) ==
  /\ pc[p] = "begin"
  /\ Kind[cur[p]] \in MessageKinds \cup {"protocol", "receipt"}
  /\ ConnectionFree(p)
  /\ Goto(p, "key")
  /\ UNCHANGED <<rowVars, dataVars, todo, cur, caught, faults, replays>>

\* Mutant of CanCreateKey: the key has no unique index, so rivals do not wait.
CanCreateKey_NoIndex(p) == TRUE

\* createIfAbsent waits for the transaction that has inserted the same key.
CanCreateKey(p) ==
  \A q \in Processors \ {p} :
    HoldsKey(q) => KeyOf[cur[q]] # KeyOf[cur[p]]

SkipDuplicate(p) ==
  /\ pc[p] = "key"
  /\ CanCreateKey(p)
  /\ KeyOf[cur[p]] \in keys
  /\ Mark(cur[p], "ignored")
  /\ Done(p)
  /\ UNCHANGED <<dataVars, todo, faults, replays>>

\* A message without chat content is ignored, with its key.
IgnoreProtocolMessage(p) ==
  /\ pc[p] = "key"
  /\ Kind[cur[p]] = "protocol"
  /\ CanCreateKey(p)
  /\ KeyOf[cur[p]] \notin keys
  /\ keys' = keys \cup {KeyOf[cur[p]]}
  /\ Mark(cur[p], "ignored")
  /\ Done(p)
  /\ UNCHANGED <<stored, unread, receipts, todo, faults, replays>>

\* MessageStatusSyncService.apply: a receipt for a message that is not there
\* is an error, to be tried again.
CreateReceiptKey(p) ==
  /\ pc[p] = "key"
  /\ Kind[cur[p]] = "receipt"
  /\ CanCreateKey(p)
  /\ KeyOf[cur[p]] \notin keys
  /\ \/ About[cur[p]] \in stored /\ Goto(p, "commit") /\ UNCHANGED <<todo, cur, caught>>
     \/ About[cur[p]] \notin stored /\ Caught(p, "other")
  /\ UNCHANGED <<rowVars, dataVars, faults, replays>>

\* Mutant of CreateMessageKey: the key is inserted outside the transaction.
CreateMessageKey_AtOnce(p) ==
  /\ pc[p] = "key"
  /\ Kind[cur[p]] \in MessageKinds
  /\ CanCreateKey(p)
  /\ KeyOf[cur[p]] \notin keys
  /\ keys' = keys \cup {KeyOf[cur[p]]}
  /\ Goto(p, "connect")
  /\ UNCHANGED <<rowVars, stored, unread, receipts, todo, cur, caught, faults, replays>>

CreateMessageKey(p) ==
  /\ pc[p] = "key"
  /\ Kind[cur[p]] \in MessageKinds
  /\ CanCreateKey(p)
  /\ KeyOf[cur[p]] \notin keys
  /\ Goto(p, "connect")
  /\ UNCHANGED <<rowVars, dataVars, todo, cur, caught, faults, replays>>

BeginIngest(p) ==
  /\ pc[p] = "connect"
  /\ ConnectionFree(p)
  /\ Goto(p, "ingest")
  /\ UNCHANGED <<rowVars, dataVars, todo, cur, caught, faults, replays>>

\* Mutant of Ingest: a message that is already stored bumps the counter again.
Ingest_BumpsAlways(e) ==
  /\ stored' = stored \cup {About[e]}
  /\ unread' = [unread EXCEPT ![About[e]] = IF Kind[e] = "incoming" THEN @ + 1 ELSE @]

\* insertIfAbsent decides whether the conversation is bumped.
Ingest(e) ==
  /\ stored' = stored \cup {About[e]}
  /\ unread' = [unread EXCEPT ![About[e]] =
                  IF Kind[e] = "incoming" /\ About[e] \notin stored THEN @ + 1 ELSE @]

CommitIngest(p) ==
  /\ pc[p] = "ingest"
  /\ Ingest(cur[p])
  /\ Goto(p, "commit")
  /\ UNCHANGED <<rowVars, keys, receipts, todo, cur, caught, faults, replays>>

\* insertIfAbsent returns no row when another transaction has just inserted the
\* same message under another key: destructuring it throws.
LoseInsertRace(p) ==
  /\ pc[p] = "ingest"
  /\ About[cur[p]] \in stored
  /\ \E q \in Processors \ {p} :
       pc[q] = "commit" /\ About[cur[q]] = About[cur[p]] /\ Kind[cur[q]] \in MessageKinds
  /\ Caught(p, "other")
  /\ UNCHANGED <<rowVars, dataVars, faults, replays>>

\* What the outer transaction commits.
Commit(e) ==
  /\ keys' = keys \cup {KeyOf[e]}
  /\ receipts' = [receipts EXCEPT ![KeyOf[e]] = IF Kind[e] = "receipt" THEN @ + 1 ELSE @]
  /\ Mark(e, "processed")
  /\ UNCHANGED <<stored, unread>>

CommitEvent(p) ==
  /\ pc[p] = "commit"
  /\ Commit(cur[p])
  /\ Done(p)
  /\ UNCHANGED <<todo, faults, replays>>

\* The catch block's own transaction.
RecordFailure(p) ==
  /\ pc[p] = "caught"
  /\ ConnectionFree(p)
  /\ MarkFailed(cur[p], caught[p])
  /\ Done(p)
  /\ UNCHANGED <<dataVars, todo, faults, replays>>

-----------------------------------------------------------------------------
(***************************************************************************)
(* Failures.                                                               *)
(***************************************************************************)

\* Mutant of MustWait: pool.connect has no connectionTimeoutMillis.
MustWait_Forever(p) == FALSE

\* The processor waits for a connection its pool cannot give it.
MustWait(p) == ~ConnectionFree(p)

\* The wait ends after connectionTimeoutMillis.  Outside processEvent's try
\* block, and in its catch block, the exception ends the whole batch.
ConnectTimesOut(p) ==
  /\ MustWait(p)
  /\ \/ /\ \/ pc[p] = "begin" /\ Kind[cur[p]] # "unsupported"
           \/ pc[p] = "connect"
        /\ Caught(p, "transient")
     \/ /\ \/ pc[p] \in {"claim", "caught"}
           \/ pc[p] = "begin" /\ Kind[cur[p]] = "unsupported"
           \/ pc[p] = "run" /\ p \in Replayers /\ todo[p] # {}
        /\ Abandon(p)
  /\ UNCHANGED <<rowVars, dataVars, faults, replays>>

\* A database call fails: the open transactions roll back.
CallFails(p, class) ==
  /\ Fault
  /\ OuterOpen(p)
  /\ Caught(p, class)
  /\ UNCHANGED <<rowVars, dataVars, replays>>

\* A commit succeeds but its answer is lost: the processor believes it failed.
IngestAnswerLost(p) ==
  /\ Fault
  /\ pc[p] = "ingest"
  /\ Ingest(cur[p])
  /\ Caught(p, "transient")
  /\ UNCHANGED <<rowVars, keys, receipts, replays>>

CommitAnswerLost(p) ==
  /\ Fault
  /\ pc[p] = "commit"
  /\ Commit(cur[p])
  /\ Caught(p, "transient")
  /\ UNCHANGED replays

\* The process dies; the database rolls its transactions back.
Crash(p) ==
  /\ Fault
  /\ pc[p] # "idle"
  /\ Abandon(p)
  /\ UNCHANGED <<rowVars, dataVars, replays>>

-----------------------------------------------------------------------------
(***************************************************************************)
(* The connector, the outbox and the clock.                                *)
(***************************************************************************)
Enqueue(e) ==
  /\ status[e] = "none"
  /\ status' = [status EXCEPT ![e] = "pending"]
  /\ UNCHANGED <<retries, transient, stale, cooled, dataVars, procVars, faults, replays>>

\* The outbox's success transaction gives a draft its external id and puts the
\* receipts that came too early back in the queue.
LinkDraft(x) ==
  /\ x \in Drafts \ stored
  /\ stored' = stored \cup {x}
  /\ LET early == {e \in Events : Kind[e] = "receipt" /\ About[e] = x /\ status[e] = "failed"}
     IN  /\ status' = [e \in Events |-> IF e \in early THEN "pending" ELSE status[e]]
         /\ transient' = [e \in Events |-> transient[e] /\ e \notin early]
  /\ UNCHANGED <<retries, stale, cooled, keys, unread, receipts, procVars, faults, replays>>

GrowStale(e) ==
  /\ status[e] = "processing"
  /\ ~stale[e]
  /\ stale' = [stale EXCEPT ![e] = TRUE]
  /\ UNCHANGED <<status, retries, transient, cooled, dataVars, procVars, faults, replays>>

CoolDown(e) ==
  /\ status[e] = "failed"
  /\ ~cooled[e]
  /\ cooled' = [cooled EXCEPT ![e] = TRUE]
  /\ UNCHANGED <<status, retries, transient, stale, dataVars, procVars, faults, replays>>

-----------------------------------------------------------------------------
BatchStep(p) ==
  \/ ResetStaleProcessing(p)
  \/ ClaimPendingBatch(p)
  \/ ClaimTransientRecoveryBatch(p)
  \/ \E e \in Events : StartEvent(p, e)
  \/ EndBatch(p)

KeyStep(p) ==
  \/ SkipDuplicate(p)
  \/ IgnoreProtocolMessage(p)
  \/ CreateReceiptKey(p)
  \/ CreateMessageKey(p)

EventStep(p) ==
  \/ MarkUnsupported(p)
  \/ SaveSnapshot(p)
  \/ BeginTransaction(p)
  \/ KeyStep(p)
  \/ BeginIngest(p)
  \/ CommitIngest(p)
  \/ LoseInsertRace(p)
  \/ CommitEvent(p)
  \/ RecordFailure(p)
  \/ ConnectTimesOut(p)

FaultStep(p) ==
  \/ \E class \in ErrorClasses : CallFails(p, class)
  \/ IngestAnswerLost(p)
  \/ CommitAnswerLost(p)
  \/ Crash(p)

OperatorStep(p) ==
  \E S \in SUBSET Events, processNow \in BOOLEAN : ReplayRawEvents(p, S, processNow)

EnvironmentStep ==
  \/ \E e \in Events : Enqueue(e) \/ GrowStale(e) \/ CoolDown(e)
  \/ \E x \in Externals : LinkDraft(x)

Next ==
  \/ \E p \in Processors : BatchStep(p) \/ EventStep(p) \/ FaultStep(p) \/ OperatorStep(p)
  \/ EnvironmentStep

Spec == Init /\ [][Next]_vars

(***************************************************************************)
(* Workers poll for ever, a replay runs to its end, a wait for a connection *)
(* ends, and time passes.  The database serves those that wait for a key in *)
(* turn, so none of them waits while others come and go for ever.           *)
(***************************************************************************)
Fairness ==
  /\ \A p \in Processors : WF_vars(BatchStep(p) \/ EventStep(p)) /\ SF_vars(KeyStep(p))
  /\ \A e \in Events : WF_vars(GrowStale(e)) /\ WF_vars(CoolDown(e))

FairSpec == Spec /\ Fairness

-----------------------------------------------------------------------------
(***************************************************************************)
(* Properties.                                                             *)
(***************************************************************************)

\* A message that arrived is in the inbox, a receipt is in the status log.
Applied(e) ==
  /\ Kind[e] \in MessageKinds => About[e] \in stored
  /\ Kind[e] = "receipt" => receipts[KeyOf[e]] > 0

(* An event that is done with has had its effect, whatever crashed, rolled back
   or was ignored as a duplicate on the way. *)
DoneMeansApplied ==
  \A e \in Events : status[e] \in {"processed", "ignored"} => Applied(e)

(* A message counts once as unread, although the inner transaction may commit
   several times for it: under two keys, after a crash between the commits, or
   replayed while a worker processes it. *)
UnreadOnce == \A x \in Externals : unread[x] <= 1

(* A receipt is logged once, however many processors work on its rows. *)
ReceiptsOnce == \A k \in Keys : receipts[k] <= 1

(***************************************************************************)
(* The inductive invariant behind the three: a key is committed only with    *)
(* its event's effect, and an open one has a single holder.                  *)
(***************************************************************************)
WorkInv ==
  \A p \in Processors :
    /\ pc[p] \in {"begin", "key", "connect", "ingest", "commit", "caught"} => cur[p] \in Events
    /\ pc[p] \in {"connect", "ingest"} => Kind[cur[p]] \in MessageKinds
    /\ pc[p] = "commit" => About[cur[p]] \in stored

KeyInv ==
  /\ \A p \in Processors : HoldsKey(p) => KeyOf[cur[p]] \notin keys
  /\ \A p, q \in Processors :
       HoldsKey(p) /\ HoldsKey(q) /\ KeyOf[cur[p]] = KeyOf[cur[q]] => p = q

DataInv ==
  /\ \A e \in Events : KeyOf[e] \in keys => Applied(e)
  /\ \A k \in Keys \ keys : receipts[k] = 0
  /\ \A x \in Externals \ stored : unread[x] = 0

IInv ==
  /\ TypeOK
  /\ WorkInv /\ KeyInv /\ DataInv
  /\ DoneMeansApplied /\ UnreadOnce /\ ReceiptsOnce

(***************************************************************************)
(* The events implement InboundLog: a delivery is closed where its row is    *)
(* processed or ignored.                                                   *)
(***************************************************************************)
EventsOf(kinds) == {e \in Events : Kind[e] \in kinds}

Log == INSTANCE InboundLog
  WITH Messages <- Externals, Receipts <- Keys, Deliveries <- Events, ReceiptOf <- KeyOf,
       Arrivals <- EventsOf(MessageKinds), Reports <- EventsOf({"receipt"}),
       inbox <- stored, logged <- receipts,
       closed <- {e \in Events : status[e] \in {"processed", "ignored"}}

(* Whatever crashes, rolls back, is replayed or is delivered again, a message gets
   into the inbox and the unread count once, a receipt into the log once and after
   its message, and no row is closed without its effect. *)
ImplementsInboundLog == Log!Spec

\* Nothing will touch the event any more unless an operator does.
IsSettled(e) ==
  \/ status[e] \in {"none", "processed", "ignored"}
  \/ status[e] = "failed" /\ retries[e] >= MaxRetries /\ ~transient[e]

(* No event stays behind a dead worker, an abandoned batch, or processors that
   wait for each other's connections. *)
EveryEventSettles == \A e \in Events : <>[]IsSettled(e)

(* When nothing but connections, processes and commits fail, every message that
   was logged gets into the inbox, also one that ran out of its retries. *)
EveryMessageArrives ==
  \A e \in Events :
    Kind[e] \in MessageKinds => (status[e] # "none" ~> About[e] \in stored)
==============================================================================
