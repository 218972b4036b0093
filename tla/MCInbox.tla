-------------------------------- MODULE MCInbox --------------------------------
(* The inbox of social channels, the contacts and an agent's browser in small     *)
(* instances.  They share no state, so a behaviour runs one of them while the     *)
(* others rest, and one run explores all without multiplying their states.        *)
EXTENDS SocialInbox, ContactMerge, InboxCache

CONSTANTS m1, m2, r1, c1, n1, lid, jid, phone, e1

OneCustomer == [m \in Mids |-> c1]

\* A customer writes under a LID and under the id of a phone; of the contacts
\* entered by hand, e1 has that phone.
Writes == [m \in Received |-> IF m = n1 THEN lid ELSE jid]
JidPhone == [j \in Jids |-> IF j = jid THEN phone ELSE NoPhone]
ByHand == [c \in Entered |-> IF c = e1 THEN phone ELSE NoPhone]

VARIABLE part

vars == <<part, svars, cvars, kvars>>

InSocial == part = "social" /\ UNCHANGED <<part, cvars, kvars>>
InContacts == part = "contacts" /\ UNCHANGED <<part, svars, kvars>>
InBrowser == part = "browser" /\ UNCHANGED <<part, svars, cvars>>

Init ==
    /\ SocialInit /\ ContactInit /\ CacheInit
    /\ part \in {"social", "contacts", "browser"}

Next ==
    \/ \E m \in Mids \cup {Unsupported} : InSocial /\ Deliver(m)
    \/ \E w \in Workers : InSocial /\ ClaimBatch(w)
    \/ \E w \in Workers, r \in Rows : InSocial /\ IgnoreUnsupported(w, r)
    \/ \E w \in Workers, r \in Rows : InSocial /\ IgnoreFails(w, r)
    \/ \E w \in Workers, r \in Rows : InSocial /\ IgnoreDuplicate(w, r)
    \/ \E w \in Workers, r \in Rows : InSocial /\ TakeKey(w, r)
    \/ \E w \in Workers, r \in Rows : InSocial /\ BeginFails(w, r)
    \/ \E w \in Workers : InSocial /\ FindContact(w)
    \/ \E w \in Workers : InSocial /\ UpsertIdentity(w)
    \/ \E w \in Workers : InSocial /\ UpsertConversation(w)
    \/ \E w \in Workers : InSocial /\ InsertMessage(w)
    \/ \E w \in Workers : InSocial /\ CommitEvent(w)
    \/ \E w \in Workers : InSocial /\ CommitAnswerLost(w)
    \/ \E w \in Workers : InSocial /\ TransactionFails(w)
    \/ \E w \in Workers : InSocial /\ MarkFailed(w)
    \/ \E w \in Workers : InSocial /\ MarkFails(w)
    \/ \E w \in Workers : InSocial /\ Crash(w)
    \/ \E q \in Replies : InSocial /\ Ask(q)
    \/ \E q \in Replies : InSocial /\ MetaAccepts(q)
    \/ \E q \in Replies : InSocial /\ MetaRefuses(q)
    \/ \E q \in Replies : InSocial /\ AnswerLost(q)
    \/ \E q \in Replies : InSocial /\ InsertReply(q)
    \/ \E q \in Replies : InSocial /\ ReplyConflicts(q)
    \/ \E q \in Replies : InSocial /\ BumpReply(q)
    \/ \E q \in Replies : InSocial /\ CommitReply(q)
    \/ \E q \in Replies : InSocial /\ RequestFails(q)
    \/ \E w \in Workers, q \in Replies : InSocial /\ AbortWorker(w, q)
    \/ \E w \in Workers, q \in Replies : InSocial /\ AbortReply(w, q)
    \/ \E m \in Received : InContacts /\ FindIdentity(m)
    \/ \E m \in Received : InContacts /\ FindByPhone(m)
    \/ \E m \in Received : InContacts /\ Anchor(m)
    \/ \E m \in Received : InContacts /\ CreateContact(m)
    \/ \E m \in Received : InContacts /\ UpsertJid(m)
    \/ \E m \in Received : InContacts /\ FindThread(m)
    \/ \E m \in Received : InContacts /\ OpenThread(m)
    \/ \E m \in Sent, t \in Threads : InContacts /\ StartSend(m, t)
    \/ \E m \in Messages : InContacts /\ InsertIntoThread(m)
    \/ \E m \in Messages : InContacts /\ CommitMessage(m)
    \/ \E o \in Operators, a, b \in Contacts : InContacts /\ StartMerge(o, a, b)
    \/ \E o \in Operators : InContacts /\ MoveIdentities(o)
    \/ \E o \in Operators : InContacts /\ SelectThread(o)
    \/ \E o \in Operators : InContacts /\ SelectTarget(o)
    \/ \E o \in Operators : InContacts /\ MoveMessages(o)
    \/ \E o \in Operators : InContacts /\ FoldThread(o)
    \/ \E o \in Operators : InContacts /\ DeleteThread(o)
    \/ \E o \in Operators : InContacts /\ KeepThread(o)
    \/ \E o \in Operators : InContacts /\ MoveRest(o)
    \/ \E o \in Operators : InContacts /\ CommitMerge(o)
    \/ \E p \in Processes : InContacts /\ Rollback(p)
    \/ \E m \in Outgoing : InBrowser /\ Store(m)
    \/ \E m \in Outgoing : InBrowser /\ Accept(m)
    \/ \E m \in Outgoing : InBrowser /\ RowFails(m)
    \/ \E m \in Outgoing : InBrowser /\ Receipt(m)
    \/ InBrowser /\ OpenConversation
    \/ InBrowser /\ Poll
    \/ InBrowser /\ ReceivePage
    \/ \E m \in Outgoing : \E v \in 1..Len(log[m]) : InBrowser /\ Realtime(m, v)
    \/ \E m \in Own : InBrowser /\ Send(m)
    \/ \E m \in Own : InBrowser /\ SendAnswered(m)
    \/ \E m \in Own : InBrowser /\ SendFails(m)
    \/ \E m \in Outgoing : InBrowser /\ Retry(m)
    \/ \E m \in Outgoing : InBrowser /\ RetryAnswered(m)
    \/ \E m \in Outgoing : InBrowser /\ RetryRefused(m)

\* No fair action of a part that rests is enabled.
Spec == Init /\ [][Next]_vars /\ SocialFairness /\ CacheFairness

===============================================================================
