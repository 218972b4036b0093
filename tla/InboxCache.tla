------------------------------ MODULE InboxCache ------------------------------
(****************************************************************************)
(* What an agent's browser shows of outgoing messages of one conversation:    *)
(* the cache of useMessages, written by the send form's optimistic bubbles and *)
(* answers, by the changes Realtime pushes, by polls and by retries, while the  *)
(* server's rows change.                                                    *)
(*                                                                          *)
(* The messages have equal texts and times within OUTGOING_ECHO_MERGE_WINDOW_MS *)
(* of each other: others meet only under their ids.  Clocks are not compared,   *)
(* so bubbles stand in any order.  A bubble is a record: the message it is of,   *)
(* which ids it carries ("optimistic" until a row is known, "queued" while the   *)
(* row has no WhatsApp id, "linked" after) and its status.  The cache is a set  *)
(* of bubbles: two equal ones would be one.  What Realtime pushes of different  *)
(* messages comes in any order, of one message in the order it was written.     *)
(*                                                                          *)
(* device_delivered and played, messages from customers, deletions, the list of *)
(* conversations and pages before the newest one are left out.                *)
(****************************************************************************)
EXTENDS Naturals, Sequences, FiniteSets
LOCAL INSTANCE SequencesExt
LOCAL INSTANCE FiniteSetsExt

CONSTANTS
    Own,        \* messages this agent sends
    Others,     \* messages other agents and workers send
    MaxChanges, \* bound: messages that ever fail, plus messages ever read
    MaxRetries  \* bound: retries asked for

Outgoing == Own \cup Others

ASSUME CacheAssumption ==
    /\ Own \cap Others = {} /\ IsFiniteSet(Outgoing)
    /\ {MaxChanges, MaxRetries} \subseteq Nat

VARIABLES
    log,       \* the versions of a message's row so far, the last is stored
    seen,      \* the newest version Realtime has delivered
    cache,
    loaded,    \* the first page is there
    page,      \* <<the rows a fetch has read at the server>>, or none
    asked,     \* where the request that sends a message is
    retrying,  \* <<the message a retry was asked for>>, or none
    retries

kvars == <<log, seen, cache, loaded, page, asked, retrying, retries>>

retryVars == <<retrying, retries>>

Bubble(m, kind, ack) == [of |-> m, kind |-> kind, ack |-> ack]

CacheInit ==
    /\ log = [m \in Outgoing |-> <<>>]
    /\ seen = [m \in Outgoing |-> 0]
    /\ cache = {}
    /\ loaded = FALSE
    /\ page = <<>>
    /\ asked = [m \in Own |-> "no"]
    /\ retrying = <<>>
    /\ retries = 0

-------------------------------------------------------------------------------
(* lib/inboxCache.ts *)

\* Mutant of Rank: a failure is taken for the latest news.
Rank_FailureLast(ack) ==
    CASE ack = "failed" -> 2
      [] ack \in {"pending", "queued"} -> 1
      [] ack = "server_ack" -> 3
      [] ack = "read" -> 4

Rank(ack) ==
    CASE ack = "failed" -> 0
      [] ack \in {"pending", "queued"} -> 1
      [] ack = "server_ack" -> 2
      [] ack = "read" -> 4

IsUnresolved(b) == b.kind # "linked" \/ b.ack \in {"pending", "queued", "failed"}

IsConfirmed(b) == b.kind = "linked"

SameId(a, b) == a.of = b.of /\ (a.kind = "optimistic" <=> b.kind = "optimistic")

\* isLikelySameOutgoingEcho: one is unresolved.
LikelySame(a, b) ==
    \/ IsUnresolved(a) /\ (IsUnresolved(b) \/ IsConfirmed(b))
    \/ IsUnresolved(b) /\ (IsUnresolved(a) \/ IsConfirmed(a))

Matches(a, b) == SameId(a, b) \/ LikelySame(a, b)

\* shouldPreferIncomingIdentity
PreferIncoming(old, new) ==
    \/ IsUnresolved(old) /\ IsConfirmed(new)
    \/ ~(IsConfirmed(old) /\ IsUnresolved(new)) /\ Rank(new.ack) >= Rank(old.ack)

\* mergeMessage; the status is the higher of the two.
Merge(old, new) ==
    [(IF PreferIncoming(old, new) THEN new ELSE old)
        EXCEPT !.ack = IF Rank(new.ack) >= Rank(old.ack) THEN new.ack ELSE old.ack]

\* What is kept takes a bubble in, where it first matches.
Absorb(kept, b) ==
    LET matching == {i \in DOMAIN kept : Matches(kept[i], b)}
    IN  IF matching = {} THEN Append(kept, b)
        ELSE [kept EXCEPT ![Min(matching)] = Merge(@, b)]

\* What is kept of the bubbles, taken in one by one in the order of sortMessages.
CompactedIn(order) ==
    LET kept[i \in 0..Len(order)] ==
            IF i = 0 THEN <<>> ELSE Absorb(kept[i - 1], order[i])
    IN  ToSet(kept[Len(order)])

\* compactOutgoingEchoDuplicates: bubbles that do not match stay as they are.
Compacted(bubbles) ==
    IF \A a, b \in bubbles : a = b \/ ~Matches(a, b) THEN {bubbles}
    ELSE {CompactedIn(order) : order \in SetToSeqs(bubbles)}

\* upsertMessageInCache: a bubble that matches takes the new one in.
Upserted(b) ==
    LET matching == {k \in cache : Matches(k, b)}
    IN  IF matching = {} THEN Compacted(cache \cup {b})
        ELSE UNION {Compacted((cache \ {k}) \cup {Merge(k, b)}) : k \in matching}

\* Nothing is patched before the first page is there.
Patch(results) == IF loaded THEN cache' \in results ELSE UNCHANGED cache

-------------------------------------------------------------------------------
(* The server *)

IsStored(m) == log[m] # <<>>

Write(m, versions) == log' = [log EXCEPT ![m] = @ \o versions]

Changes == Cardinality({c \in Outgoing \X {"failed", "read"} :
                           \E v \in DOMAIN log[c[1]] : log[c[1]][v].ack = c[2]})

clientVars == <<seen, cache, loaded, page, asked, retryVars>>

\* The draft and its outbox row are committed together.  A request the browser
\* has given up may still be served.
Store(m) ==
    /\ ~IsStored(m)
    /\ m \in Own => asked[m] # "no"
    /\ Write(m, <<Bubble(m, "queued", "pending")>>)
    /\ UNCHANGED clientVars

\* The dispatch succeeds, perhaps after a failure, or the echo links the row:
\* updateOutboundDispatch and updateAckStatus are two changes, pushed one by one.
Accept(m) ==
    /\ IsStored(m) /\ Last(log[m]).kind = "queued"
    /\ LET linked == [Last(log[m]) EXCEPT !.kind = "linked"]
       IN  Write(m, <<linked, [linked EXCEPT !.ack = "server_ack"]>>)
    /\ UNCHANGED clientVars

RowFails(m) ==
    /\ IsStored(m) /\ Last(log[m]).ack = "pending"
    /\ Changes < MaxChanges
    /\ Write(m, <<[Last(log[m]) EXCEPT !.ack = "failed"]>>)
    /\ UNCHANGED clientVars

Receipt(m) ==
    /\ IsStored(m) /\ Last(log[m]).ack = "server_ack"
    /\ Changes < MaxChanges
    /\ Write(m, <<[Last(log[m]) EXCEPT !.ack = "read"]>>)
    /\ UNCHANGED clientVars

-------------------------------------------------------------------------------
(* The browser *)

\* useMessages fetches when a conversation is selected and at every interval,
\* one fetch at a time.
Fetch ==
    /\ page = <<>>
    /\ page' = <<{Last(log[m]) : m \in {k \in Outgoing : IsStored(k)}}>>
    /\ UNCHANGED <<log, seen, cache, loaded, asked, retryVars>>

OpenConversation == ~loaded /\ Fetch

Poll == loaded /\ Fetch

\* Mutant of Overlaid: the bubble that is there wins over the row.
Overlaid_Cached(bubbles, rows) ==
    {r \in rows : \A b \in bubbles : ~SameId(b, r)} \cup bubbles

\* A row of the page replaces the bubble with its id.
Overlaid(bubbles, rows) ==
    {b \in bubbles : \A r \in rows : ~SameId(b, r)} \cup rows

\* mergeMessages of useMessages.ts; the cache may have changed since the fetch.
ReceivePage ==
    /\ page # <<>>
    /\ \E bubbles \in Compacted(cache) : cache' \in Compacted(Overlaid(bubbles, Head(page)))
    /\ loaded' = TRUE
    /\ page' = <<>>
    /\ UNCHANGED <<log, seen, asked, retryVars>>

\* A change reaches the subscription.  Some never do: a later one comes next.
Realtime(m, v) ==
    /\ v > seen[m]
    /\ seen' = [seen EXCEPT ![m] = v]
    /\ Patch(Upserted(log[m][v]))
    /\ UNCHANGED <<log, loaded, page, asked, retryVars>>

\* handleSend: one message at a time, its bubble first.
Send(m) ==
    /\ loaded
    /\ asked[m] = "no" /\ \A k \in Own : asked[k] # "sent"
    /\ asked' = [asked EXCEPT ![m] = "sent"]
    /\ Patch(Upserted(Bubble(m, "optimistic", "pending")))
    /\ UNCHANGED <<log, seen, loaded, page, retryVars>>

\* Mutant of SendAnswered: the bubble is replaced without a look at the others.
SendAnswered_Alone(m) ==
    LET draft == log[m][1]
    IN  /\ asked[m] = "sent" /\ IsStored(m)
        /\ asked' = [asked EXCEPT ![m] = "answered"]
        /\ Patch({{b \in cache : ~SameId(b, [draft EXCEPT !.kind = "optimistic"])} \cup {draft}})
        /\ UNCHANGED <<log, seen, loaded, page, retryVars>>

\* replaceOptimisticMessageInCache: the answer is the draft as it was stored.
SendAnswered(m) ==
    LET draft == log[m][1]
    IN  /\ asked[m] = "sent" /\ IsStored(m)
        /\ asked' = [asked EXCEPT ![m] = "answered"]
        /\ Patch(Compacted({b \in cache : ~SameId(b, [draft EXCEPT !.kind = "optimistic"])
                                          /\ ~Matches(b, draft)} \cup {draft}))
        /\ UNCHANGED <<log, seen, loaded, page, retryVars>>

\* Refused, or the answer is lost.  updateMessageAckInCache leaves an optimistic
\* bubble pending.
SendFails(m) ==
    /\ asked[m] = "sent"
    /\ asked' = [asked EXCEPT ![m] = "failed"]
    /\ Patch(Compacted(cache))
    /\ UNCHANGED <<log, seen, loaded, page, retryVars>>

\* The retry button is there for the latest bubble, pending or failed.  The API
\* knows no optimistic ids.
Retry(m) ==
    /\ retrying = <<>> /\ retries < MaxRetries
    /\ \E b \in cache :
         b.of = m /\ b.kind # "optimistic" /\ b.ack \in {"pending", "failed"}
    /\ retrying' = <<m>>
    /\ retries' = retries + 1
    /\ UNCHANGED <<log, seen, cache, loaded, page, asked>>

\* The bubble is shown as queued, whatever came in meanwhile.
RetryAnswered(m) ==
    /\ retrying = <<m>>
    /\ retrying' = <<>>
    /\ Patch(Compacted({IF b.of = m /\ b.kind # "optimistic" THEN [b EXCEPT !.ack = "queued"]
                        ELSE b : b \in cache}))
    /\ UNCHANGED <<log, seen, loaded, page, asked, retries>>

RetryRefused(m) ==
    /\ retrying = <<m>>
    /\ retrying' = <<>>
    /\ UNCHANGED <<log, seen, cache, loaded, page, asked, retries>>

-------------------------------------------------------------------------------
ServerStep(m) == Store(m) \/ Accept(m) \/ RowFails(m) \/ Receipt(m)

SendStep(m) == Send(m) \/ SendAnswered(m) \/ SendFails(m)

RetryStep(m) == Retry(m) \/ RetryAnswered(m) \/ RetryRefused(m)

CacheNext ==
    \/ \E m \in Outgoing : ServerStep(m) \/ RetryStep(m)
    \/ \E m \in Outgoing : \E v \in 1..Len(log[m]) : Realtime(m, v)
    \/ \E m \in Own : SendStep(m)
    \/ OpenConversation \/ Poll \/ ReceivePage

\* The interval of the query goes on while the conversation is open, and its
\* fetches return.  Nothing is assumed of Realtime, of requests, or of WhatsApp.
CacheFairness == WF_kvars(Poll) /\ WF_kvars(ReceivePage)

CacheSpec == CacheInit /\ [][CacheNext]_kvars /\ CacheFairness

-------------------------------------------------------------------------------
(* Properties.                                                              *)

\* The messages of one conversation within the window.
Kinds == {"optimistic", "queued", "linked"}
Unaccepted == {"pending", "queued", "failed"}
Acks == Unaccepted \cup {"server_ack", "read"}
Bubbles == [of : Outgoing, kind : Kinds, ack : Acks]

CacheTypeOK ==
    /\ log \in [Outgoing -> Seq([of : Outgoing, kind : {"queued", "linked"}, ack : Acks])]
    /\ seen \in [Outgoing -> Nat]
    /\ cache \subseteq Bubbles
    /\ loaded \in BOOLEAN
    /\ page \in Seq(SUBSET Bubbles)
    /\ asked \in [Own -> {"no", "sent", "answered", "failed"}]
    /\ retrying \in Seq(Outgoing)
    /\ retries \in 0..MaxRetries

\* "queued" is how a retry is shown; no row has it.
HasVersion(m, ack) == \E v \in 1..Len(log[m]) : ack \in {log[m][v].ack, "queued"}

(* Bubbles with equal texts are taken for echoes of one another and merged, late
   pushes and answers bring old versions, and some never come: still a message has
   one bubble, with a status its own row has had. *)
BubblesAreTrue ==
    \A b \in cache : b.kind # "optimistic" =>
        /\ HasVersion(b.of, b.ack)
        /\ \A c \in cache : SameId(b, c) => b = c

(***************************************************************************)
(* The inductive invariant behind it.                                        *)
(***************************************************************************)
\* A message's row, before it has a WhatsApp id, is not accepted.
Queued(b) == b.kind # "linked" => b.ack \in Unaccepted

\* A row is written as the queued draft, and only its status and kind change.
LogInv ==
    \A m \in Outgoing :
        /\ IsStored(m) => log[m][1].ack = "pending"
        /\ \A v \in 1..Len(log[m]) : log[m][v].of = m /\ Queued(log[m][v])

IsTrue(b) == Queued(b) /\ (b.kind # "optimistic" => HasVersion(b.of, b.ack))

\* An unresolved bubble matches every other, so it is alone.
Apart(bubbles) == \A a, b \in bubbles : a = b \/ ~Matches(a, b)

CacheInv ==
    /\ \A b \in cache : IsTrue(b)
    /\ Apart(cache)
    /\ page # <<>> => \A r \in Head(page) : r.kind # "optimistic" /\ IsTrue(r)

CacheIInv == CacheTypeOK /\ LogInv /\ CacheInv /\ BubblesAreTrue

ShowsStoredRows == \A m \in Outgoing : IsStored(m) => Last(log[m]) \in cache

(* Though pushes may never come and polls may be overtaken, once every message has a
   WhatsApp id the conversation comes to show all of them as they are stored. *)
BubblesFollowMessages ==
    <>[](loaded /\ (\A m \in Outgoing : IsStored(m) => Last(log[m]).kind = "linked")
            => ShowsStoredRows)

===============================================================================
