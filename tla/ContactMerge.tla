----------------------------- MODULE ContactMerge -----------------------------
(****************************************************************************)
(* Contacts of one organization on one WhatsApp account: incoming messages   *)
(* find or create their contact, identity and conversation, agents send into *)
(* conversations, and operators merge a contact into another.                *)
(*                                                                          *)
(* Each is one transaction on Postgres at READ COMMITTED.  Its statements    *)
(* read what is committed when they run; what it writes is its own (locals    *)
(* below) until its commit applies it, and others meet it before that only    *)
(* through the locks it holds, whose conflicts make them wait.  A statement    *)
(* runs at one moment, when it need not wait.  A transaction may roll back at  *)
(* any point, and one that a unique index or a foreign key refuses can do      *)
(* nothing else: the repositories' catch blocks for 23505 query in a           *)
(* transaction Postgres has already aborted.                                 *)
(*                                                                          *)
(* A contact or conversation is named after the message that created it.     *)
(* Names, avatars, owners, projections and the replacement of a phone by a    *)
(* Malaysian one are left out; dispatch is modelled in MessageOutbox.          *)
(****************************************************************************)
EXTENDS Naturals

CONSTANTS
    Received,      \* messages WhatsApp delivers, one event each
    Sent,          \* messages agents send
    Entered,       \* contacts entered by hand, without a conversation
    Jids,          \* the senders' WhatsApp ids
    JidOf,         \* the id a received message comes from
    PhoneOf,       \* the phone an id stands for: a LID stands for none
    EnteredPhone,  \* the phone of a contact entered by hand
    Operators,     \* requests that merge contacts, one merge each
    NoPhone,
    Nobody         \* no contact, no conversation

Messages == Received \cup Sent
Contacts == Received \cup Entered
Threads == Received
Processes == Messages \cup Operators

ASSUME ContactAssumption ==
    /\ Received \cap Sent = {} /\ Entered \cap Messages = {}
    /\ Operators \cap Messages = {}
    /\ JidOf \in [Received -> Jids]
    /\ DOMAIN PhoneOf = Jids /\ DOMAIN EnteredPhone = Entered
    /\ Nobody \notin Contacts

VARIABLES
    \* committed rows
    contactStatus, \* contacts.status, "none" before the row
    phoneOf,       \* contacts.primary_phone_normalized
    jidContact,    \* contact_identities: the contact an id belongs to
    holder,        \* conversations.contact_id, Nobody without a row
    threadKey,     \* the contact named by conversations.external_thread_key
    inThread,      \* messages.conversation_id, Nobody without a row
    msgContact,    \* messages.contact_id
    history,       \* contact_merge_history: pairs of source and target
    \* transactions
    at,            \* where it is
    who,           \* the contact of a message
    conv,          \* the conversation of a message
    plan,          \* what a merge has decided so far
    locks

rows == <<contactStatus, phoneOf, jidContact, holder, threadKey, inThread, msgContact, history>>
cvars == <<rows, at, who, conv, plan, locks>>

NoPlan == [source |-> Nobody, target |-> Nobody, jids |-> {}, from |-> Nobody,
           into |-> Nobody, moved |-> {}, dropped |-> {}, rest |-> {}]

ContactInit ==
    /\ contactStatus = [c \in Contacts |-> IF c \in Entered THEN "active" ELSE "none"]
    /\ phoneOf = [c \in Contacts |-> IF c \in Entered THEN EnteredPhone[c] ELSE NoPhone]
    /\ jidContact = [j \in Jids |-> Nobody]
    /\ holder = [t \in Threads |-> Nobody]
    /\ threadKey = [t \in Threads |-> Nobody]
    /\ inThread = [m \in Messages |-> Nobody]
    /\ msgContact = [m \in Messages |-> Nobody]
    /\ history = {}
    /\ at = [p \in Processes |-> "idle"]
    /\ who = [m \in Messages |-> Nobody]
    /\ conv = [m \in Messages |-> Nobody]
    /\ plan = [o \in Operators |-> NoPlan]
    /\ locks = [p \in Processes |-> {}]

-------------------------------------------------------------------------------
(* Locks are <<what, which, strength>>; the strengths are those of Postgres, and *)
(* two of them conflict when they add up to more than ForUpdate.                *)

KeyShare == 1
NoKeyUpdate == 2
ForUpdate == 3

Conflict(l, k) == l[1] = k[1] /\ l[2] = k[2] /\ l[3] + k[3] > ForUpdate

CanLock(p, L) ==
    \A q \in Processes \ {p} : \A l \in L, k \in locks[q] : ~Conflict(l, k)

Lock(p, L) == CanLock(p, L) /\ locks' = [locks EXCEPT ![p] = @ \cup L]

Goto(p, place) == at' = [at EXCEPT ![p] = place]

Exists(t) == holder[t] # Nobody

\* The conversations of a contact: a unique index allows one.
ThreadsOf(c) == {t \in Threads : holder[t] = c}

\* ContactRepository.findByNormalizedPhone skips merged contacts; the unique
\* index over phones does not.
ActiveWith(phone) ==
    {c \in Contacts : phone # NoPhone /\ contactStatus[c] = "active" /\ phoneOf[c] = phone}

PhoneIsFree(phone) ==
    \A c \in Contacts : contactStatus[c] # "none" => phoneOf[c] # phone

\* Inserting or updating a row of an index entry waits for whoever has an
\* uncommitted one.
PhoneEntry(phone) == IF phone = NoPhone THEN {} ELSE {<<"phone", phone, ForUpdate>>}
ThreadEntry(c) == <<"thread of", c, ForUpdate>>

Rollback(p) ==
    /\ at[p] \notin {"idle", "done"}
    /\ Goto(p, "idle")
    /\ locks' = [locks EXCEPT ![p] = {}]
    /\ who' = [m \in Messages |-> IF m = p THEN Nobody ELSE who[m]]
    /\ conv' = [m \in Messages |-> IF m = p THEN Nobody ELSE conv[m]]
    /\ plan' = [o \in Operators |-> IF o = p THEN NoPlan ELSE plan[o]]
    /\ UNCHANGED rows

-------------------------------------------------------------------------------
(* ContactService.findOrCreateCanonicalContact *)

Phone(m) == PhoneOf[JidOf[m]]

\* The identity of the id, or else one of the same phone, leads to a contact,
\* a merged one too.
FindIdentity(m) ==
    LET own == {jidContact[JidOf[m]]} \ {Nobody}
        kin == {jidContact[j] : j \in {k \in Jids : PhoneOf[k] = Phone(m) /\ Phone(m) # NoPhone}}
                  \ {Nobody}
        found == IF own # {} THEN own ELSE kin
    IN  /\ at[m] = "idle"
        /\ who' = [who EXCEPT ![m] = IF found = {} THEN Nobody ELSE CHOOSE c \in found : TRUE]
        /\ Goto(m, "identity")
        /\ UNCHANGED <<rows, conv, plan, locks>>

\* An active contact with the phone is preferred.
FindByPhone(m) ==
    LET found == ActiveWith(Phone(m))
    IN  /\ at[m] = "identity"
        /\ who' = [who EXCEPT ![m] = IF found = {} THEN @ ELSE CHOOSE c \in found : TRUE]
        /\ Goto(m, "contact")
        /\ UNCHANGED <<rows, conv, plan, locks>>

\* The update of the contact gives it the phone when it has none.
Anchor(m) ==
    LET new == IF who[m] # Nobody /\ phoneOf[who[m]] = NoPhone THEN Phone(m) ELSE NoPhone
    IN  /\ at[m] = "contact"
        /\ who[m] # Nobody
        /\ Lock(m, {<<"contact", who[m], NoKeyUpdate>>} \cup PhoneEntry(new))
        /\ new # NoPhone => PhoneIsFree(new)
        /\ Goto(m, "anchored")
        /\ UNCHANGED <<rows, who, conv, plan>>

\* ContactRepository.create looks for the phone once more before it inserts.
CreateContact(m) ==
    /\ at[m] = "contact"
    /\ who[m] = Nobody
    /\ \/ \E c \in ActiveWith(Phone(m)) :
            who' = [who EXCEPT ![m] = c] /\ UNCHANGED <<at, locks>>
       \/ /\ Phone(m) # NoPhone => PhoneIsFree(Phone(m))
          /\ Lock(m, PhoneEntry(Phone(m)))
          /\ who' = [who EXCEPT ![m] = m]
          /\ Goto(m, "anchored")
    /\ UNCHANGED <<rows, conv, plan>>

\* ContactIdentityRepository.upsert: the id belongs to the contact from now on.
UpsertJid(m) ==
    /\ at[m] = "anchored"
    /\ Lock(m, {<<"jid", JidOf[m], NoKeyUpdate>>})
    /\ Goto(m, "identified")
    /\ UNCHANGED <<rows, who, conv, plan>>

-------------------------------------------------------------------------------
(* ConversationRepository.findOrCreate, and the message itself *)

FindThread(m) ==
    /\ at[m] = "identified"
    /\ \/ \E t \in ThreadsOf(who[m]) :
            conv' = [conv EXCEPT ![m] = t] /\ Goto(m, "threaded")
       \/ ThreadsOf(who[m]) = {} /\ Goto(m, "unthreaded") /\ UNCHANGED conv
    /\ UNCHANGED <<rows, who, plan, locks>>

OpenThread(m) ==
    /\ at[m] = "unthreaded"
    /\ Lock(m, {ThreadEntry(who[m])})
    /\ \A t \in Threads : Exists(t) => who[m] \notin {holder[t], threadKey[t]}
    /\ conv' = [conv EXCEPT ![m] = m]
    /\ Goto(m, "threaded")
    /\ UNCHANGED <<rows, who, plan>>

\* SendMessageService.send reads a conversation with its contact, and needs an
\* identity of that contact to send to.
StartSend(m, t) ==
    /\ m \in Sent
    /\ at[m] = "idle"
    /\ Exists(t)
    /\ \E j \in Jids : jidContact[j] = holder[t]
    /\ who' = [who EXCEPT ![m] = holder[t]]
    /\ conv' = [conv EXCEPT ![m] = t]
    /\ Goto(m, "threaded")
    /\ UNCHANGED <<rows, plan, locks>>

\* The foreign key needs the conversation to be there and stay.
InsertIntoThread(m) ==
    /\ at[m] = "threaded"
    /\ conv[m] # m => Exists(conv[m])
    /\ Lock(m, {<<"thread", conv[m], KeyShare>>})
    /\ Goto(m, "inserted")
    /\ UNCHANGED <<rows, who, conv, plan>>

\* bumpLastMessage updates the conversation before the commit.
CommitMessage(m) ==
    LET c == who[m]
        stamps == m \in Received /\ phoneOf[c] = NoPhone
    IN  /\ at[m] = "inserted"
        /\ CanLock(m, {<<"thread", conv[m], NoKeyUpdate>>})
        /\ contactStatus' = [contactStatus EXCEPT ![c] = IF c = m THEN "active" ELSE @]
        /\ phoneOf' = [phoneOf EXCEPT ![c] = IF stamps THEN Phone(m) ELSE @]
        /\ jidContact' = [j \in Jids |-> IF m \in Received /\ j = JidOf[m] THEN c ELSE jidContact[j]]
        /\ holder' = [t \in Threads |-> IF t = conv[m] /\ t = m THEN c ELSE holder[t]]
        /\ threadKey' = [t \in Threads |-> IF t = conv[m] /\ t = m THEN c ELSE threadKey[t]]
        /\ inThread' = [inThread EXCEPT ![m] = conv[m]]
        /\ msgContact' = [msgContact EXCEPT ![m] = c]
        /\ Goto(m, "done")
        /\ locks' = [locks EXCEPT ![m] = {}]
        /\ who' = [who EXCEPT ![m] = Nobody]
        /\ conv' = [conv EXCEPT ![m] = Nobody]
        /\ UNCHANGED <<history, plan>>

-------------------------------------------------------------------------------
(* applyDuplicateContactMerge.  Neither contact's status is checked. *)

StartMerge(o, a, b) ==
    /\ at[o] = "idle"
    /\ a # b /\ "none" \notin {contactStatus[a], contactStatus[b]}
    /\ plan' = [plan EXCEPT ![o] = [NoPlan EXCEPT !.source = a, !.target = b]]
    /\ Goto(o, "checked")
    /\ UNCHANGED <<rows, who, conv, locks>>

MoveIdentities(o) ==
    LET moving == {j \in Jids : jidContact[j] = plan[o].source}
    IN  /\ at[o] = "checked"
        /\ Lock(o, {<<"jid", j, NoKeyUpdate>> : j \in moving})
        /\ plan' = [plan EXCEPT ![o].jids = moving]
        /\ Goto(o, "moved identities")
        /\ UNCHANGED <<rows, who, conv>>

SelectThread(o) ==
    /\ at[o] = "moved identities"
    /\ \/ /\ ThreadsOf(plan[o].source) = {}
          /\ Goto(o, "moved threads")
          /\ UNCHANGED plan
       \/ \E t \in ThreadsOf(plan[o].source) :
            /\ plan' = [plan EXCEPT ![o].from = t]
            /\ Goto(o, "selected")
    /\ UNCHANGED <<rows, who, conv, locks>>

\* Mutant of TargetThreads: the lookup forgets the contact.
TargetThreads_OfAnyone(o) == {t \in Threads : Exists(t) /\ t # plan[o].from}

TargetThreads(o) == ThreadsOf(plan[o].target) \ {plan[o].from}

SelectTarget(o) ==
    /\ at[o] = "selected"
    /\ \/ TargetThreads(o) = {} /\ Goto(o, "keep") /\ UNCHANGED plan
       \/ \E t \in TargetThreads(o) :
            plan' = [plan EXCEPT ![o].into = t] /\ Goto(o, "fold")
    /\ UNCHANGED <<rows, who, conv, locks>>

MessageRows(S) == {<<"message", m, NoKeyUpdate>> : m \in S}

\* update messages ... where conversation_id = the source's
MoveMessages(o) ==
    LET moving == {m \in Messages : inThread[m] = plan[o].from}
    IN  /\ at[o] = "fold"
        /\ moving # {} => Exists(plan[o].into)
        /\ Lock(o, MessageRows(moving)
                     \cup {<<"thread", t, KeyShare>> : t \in IF moving = {} THEN {} ELSE {plan[o].into}})
        /\ plan' = [plan EXCEPT ![o].moved = moving]
        /\ Goto(o, "moved messages")
        /\ UNCHANGED <<rows, who, conv>>

\* The target's counters and times take the source's in.
FoldThread(o) ==
    /\ at[o] = "moved messages"
    /\ Lock(o, {<<"thread", plan[o].into, NoKeyUpdate>>})
    /\ Goto(o, "folded")
    /\ UNCHANGED <<rows, who, conv, plan>>

\* delete from conversations, with the messages that are in it by now.
DeleteThread(o) ==
    LET p == plan[o]
        left == {m \in Messages : inThread[m] = p.from} \ p.moved
    IN  /\ at[o] = "folded"
        /\ Lock(o, {<<"thread", p.from, ForUpdate>>, ThreadEntry(p.source)} \cup MessageRows(left))
        /\ plan' = [plan EXCEPT ![o].dropped = left]
        /\ Goto(o, "moved threads")
        /\ UNCHANGED <<rows, who, conv>>

\* The target has no conversation with the account: the source's becomes its.
KeepThread(o) ==
    LET p == plan[o]
    IN  /\ at[o] = "keep"
        /\ Lock(o, {<<"thread", p.from, ForUpdate>>, ThreadEntry(p.source), ThreadEntry(p.target)})
        /\ Exists(p.from) => ThreadsOf(p.target) \subseteq {p.from}
        /\ Goto(o, "moved threads")
        /\ UNCHANGED <<rows, who, conv, plan>>

\* update messages ... where contact_id = the source
MoveRest(o) ==
    LET left == {m \in Messages : msgContact[m] = plan[o].source}
                  \ (plan[o].moved \cup plan[o].dropped)
    IN  /\ at[o] = "moved threads"
        /\ Lock(o, MessageRows(left))
        /\ plan' = [plan EXCEPT ![o].rest = left]
        /\ Goto(o, "moved rest")
        /\ UNCHANGED <<rows, who, conv>>

\* The source is marked as merged and the merge is recorded.
CommitMerge(o) ==
    LET p == plan[o]
        folded == p.into # Nobody
        kept == p.from # Nobody /\ ~folded
    IN  /\ at[o] = "moved rest"
        /\ CanLock(o, {<<"contact", p.source, NoKeyUpdate>>})
        /\ contactStatus' = [contactStatus EXCEPT ![p.source] = "merged"]
        /\ jidContact' = [j \in Jids |-> IF j \in p.jids THEN p.target ELSE jidContact[j]]
        /\ holder' = [t \in Threads |->
             IF t # p.from \/ ~Exists(t) THEN holder[t] ELSE IF kept THEN p.target ELSE Nobody]
        /\ inThread' = [m \in Messages |->
             IF m \in p.moved THEN p.into ELSE IF m \in p.dropped THEN Nobody ELSE inThread[m]]
        /\ msgContact' = [m \in Messages |->
             IF m \in p.moved \cup p.rest THEN p.target
             ELSE IF m \in p.dropped THEN Nobody ELSE msgContact[m]]
        /\ history' = history \cup {<<p.source, p.target>>}
        /\ Goto(o, "done")
        /\ locks' = [locks EXCEPT ![o] = {}]
        /\ plan' = [plan EXCEPT ![o] = NoPlan]
        /\ UNCHANGED <<phoneOf, threadKey, who, conv>>

-------------------------------------------------------------------------------
IngestStep(m) ==
    \/ FindIdentity(m)
    \/ FindByPhone(m)
    \/ Anchor(m)
    \/ CreateContact(m)
    \/ UpsertJid(m)
    \/ FindThread(m)
    \/ OpenThread(m)

MergeStep(o) ==
    \/ \E a, b \in Contacts : StartMerge(o, a, b)
    \/ MoveIdentities(o)
    \/ SelectThread(o)
    \/ SelectTarget(o)
    \/ MoveMessages(o)
    \/ FoldThread(o)
    \/ DeleteThread(o)
    \/ KeepThread(o)
    \/ MoveRest(o)
    \/ CommitMerge(o)

ContactNext ==
    \/ \E m \in Received : IngestStep(m)
    \/ \E m \in Sent, t \in Threads : StartSend(m, t)
    \/ \E m \in Messages : InsertIntoThread(m) \/ CommitMessage(m)
    \/ \E o \in Operators : MergeStep(o)
    \/ \E p \in Processes : Rollback(p)

ContactSpec == ContactInit /\ [][ContactNext]_cvars

-------------------------------------------------------------------------------
\* No set that holds source and target of each merge together tells them apart:
\* they are connected by the merges.
Linked(merges, c, d) ==
    \A S \in SUBSET Contacts :
        (\A e \in merges : e[1] \in S <=> e[2] \in S) => (c \in S <=> d \in S)

(* Two contacts are the same person as far as the merges tell. *)
SamePerson(c, d) == Linked(history, c, d)

(* However merges, ingestions and sends interleave, a message is in a
   conversation of the person it was exchanged with: the contact of the message
   and the contact of its conversation may differ only by recorded merges. *)
ThreadsKeepCustomers ==
    \A m \in Messages :
        inThread[m] # Nobody =>
            /\ Exists(inThread[m])
            /\ SamePerson(msgContact[m], holder[inThread[m]])

(* What the merge dialog says: messages move to the target contact.  So none
   that is stored goes away. *)
MergeMovesMessages ==
    [][\A m \in Messages : inThread[m] # Nobody => inThread'[m] # Nobody]_cvars

-------------------------------------------------------------------------------
(* The inductive invariant.  It follows the conversations and the messages: how  *)
(* an ingestion finds its contact matters to it only in that it finds one.       *)

Plans ==
    [source : Contacts \cup {Nobody}, target : Contacts \cup {Nobody}, jids : SUBSET Jids,
     from : Threads \cup {Nobody}, into : Threads \cup {Nobody},
     moved : SUBSET Messages, dropped : SUBSET Messages, rest : SUBSET Messages]

ContactTypeOK ==
    /\ jidContact \in [Jids -> Contacts \cup {Nobody}]
    /\ holder \in [Threads -> Contacts \cup {Nobody}]
    /\ inThread \in [Messages -> Threads \cup {Nobody}]
    /\ msgContact \in [Messages -> Contacts \cup {Nobody}]
    /\ DOMAIN at = Processes
    /\ who \in [Messages -> Contacts \cup {Nobody}]
    /\ conv \in [Messages -> Threads \cup {Nobody}]
    /\ plan \in [Operators -> Plans]
    /\ DOMAIN locks = Processes
    /\ \A p \in Processes : \A l \in locks[p] : l[3] \in KeyShare..ForUpdate

\* No two transactions hold locks that conflict.
LocksExclude ==
    \A p, q \in Processes : p # q => \A l \in locks[p], k \in locks[q] : ~Conflict(l, k)

\* Who is not done has stored nothing, and has created no conversation.
StoredWhenDone ==
    /\ \A m \in Messages :
         inThread[m] # Nobody \/ msgContact[m] # Nobody => at[m] = "done"
    /\ \A t \in Threads : Exists(t) => at[t] = "done"

\* A message under way has a contact, and a conversation of that person, which
\* stays once the message's row refers to it.
MessageInHand(m) ==
    /\ at[m] \in {"anchored", "identified", "unthreaded", "threaded", "inserted"}
         => who[m] \in Contacts
    /\ at[m] \in {"threaded", "inserted"} =>
         /\ conv[m] \in Threads
         /\ conv[m] # m =>
              /\ at[conv[m]] = "done"
              /\ Exists(conv[m]) => SamePerson(who[m], holder[conv[m]])
    /\ at[m] = "inserted" =>
         /\ conv[m] # m => Exists(conv[m])
         /\ <<"thread", conv[m], KeyShare>> \in locks[m]

\* Which steps of a merge have been taken where it is.
MergeSteps(o) ==
    LET p == plan[o]
    IN  /\ at[o] \notin {"idle", "done"} => {p.source, p.target} \subseteq Contacts
        /\ at[o] \in {"idle", "checked", "moved identities", "done"} => p.from = Nobody
        /\ at[o] \in {"selected", "keep", "fold", "moved messages", "folded"} => p.from # Nobody
        /\ at[o] \in {"idle", "checked", "moved identities", "selected", "keep", "done"}
             => p.into = Nobody
        /\ at[o] \in {"fold", "moved messages", "folded"} => p.into # Nobody
        /\ p.into # Nobody => p.from # Nobody /\ p.into # p.from
        /\ p.into = Nobody => p.moved = {} /\ p.dropped = {}

\* What a merge holds where it is.
MergeLocks(o) ==
    LET p == plan[o]
    IN  /\ MessageRows(p.moved \cup p.dropped \cup p.rest) \subseteq locks[o]
        /\ p.moved # {} => <<"thread", p.into, KeyShare>> \in locks[o]
        /\ at[o] \in {"moved threads", "moved rest"} /\ p.from # Nobody
             => <<"thread", p.from, ForUpdate>> \in locks[o]

\* What a merge has read stays true of the persons, as long as the rows are there.
MergeInHand(o) ==
    LET p == plan[o]
    IN  /\ p.from # Nobody => /\ at[p.from] = "done"
                              /\ Exists(p.from) => SamePerson(p.source, holder[p.from])
        /\ p.into # Nobody => /\ at[p.into] = "done"
                              /\ Exists(p.into) => SamePerson(p.target, holder[p.into])
        /\ p.moved # {} => Exists(p.into)
        /\ \A m \in p.moved : at[m] = "done"
        /\ \A m \in p.rest : msgContact[m] = p.source /\ p.source # Nobody
        /\ at[o] \in {"moved threads", "moved rest"} /\ p.into # Nobody =>
             \A m \in Messages : inThread[m] = p.from => m \in p.moved \cup p.dropped

ContactIInv ==
    /\ ContactTypeOK
    /\ LocksExclude
    /\ StoredWhenDone
    /\ \A m \in Messages : MessageInHand(m)
    /\ \A o \in Operators : MergeSteps(o) /\ MergeLocks(o) /\ MergeInHand(o)
    /\ ThreadsKeepCustomers

================================================================================
