-------------------------- MODULE ContactMerge_proofs --------------------------
(****************************************************************************)
(* Merges keep every message in a conversation of its person, for any number *)
(* of contacts, ids, messages and merges.                                    *)
(****************************************************************************)
EXTENDS ContactMerge, TLAPS

(* The constants as the proofs use them. *)
LEMMA ContactConstants ==
    /\ Threads \subseteq Received /\ Received \subseteq Contacts /\ Received \subseteq Messages
    /\ Sent \subseteq Messages /\ Messages \subseteq Processes /\ Operators \subseteq Processes
    /\ \A p \in Operators : p \notin Messages
    /\ Nobody \notin Contacts /\ Nobody \notin Threads
    /\ JidOf \in [Received -> Jids]
BY ContactAssumption DEF ContactAssumption, Threads, Contacts, Messages, Processes

-------------------------------------------------------------------------------
(* Linked is an equivalence that grows with the merges.                      *)

(* Everybody is the person he is. *)
LEMMA LinkedReflexive == ASSUME NEW h, NEW c PROVE Linked(h, c, c)
BY DEF Linked

LEMMA LinkedSymmetric == ASSUME NEW h, NEW c, NEW d, Linked(h, c, d) PROVE Linked(h, d, c)
BY DEF Linked

LEMMA LinkedTransitive ==
    ASSUME NEW h, NEW c, NEW d, NEW e, Linked(h, c, d), Linked(h, d, e) PROVE Linked(h, c, e)
BY DEF Linked

(* Merges are never taken back. *)
LEMMA LinkedGrows ==
    ASSUME NEW h, NEW g, h \subseteq g, NEW c, NEW d, Linked(h, c, d) PROVE Linked(g, c, d)
BY DEF Linked

(* A merge makes source and target one person. *)
LEMMA LinkedByMerge == ASSUME NEW h, NEW c, NEW d PROVE Linked(h \cup {<<c, d>>}, c, d)
<1> SUFFICES ASSUME NEW S \in SUBSET Contacts,
                    \A e \in h \cup {<<c, d>>} : e[1] \in S <=> e[2] \in S
             PROVE  c \in S <=> d \in S
  BY DEF Linked
<1>1. <<c, d>> \in h \cup {<<c, d>>}
  OBVIOUS
<1> QED BY <1>1

-------------------------------------------------------------------------------
(* No transaction runs and nothing is stored. *)
LEMMA ContactInitInv == ContactInit => ContactIInv
<1> SUFFICES ASSUME ContactInit PROVE ContactIInv
  OBVIOUS
<1> USE ContactConstants DEF ContactInit, NoPlan, Exists
<1>1. ContactTypeOK
  BY DEF ContactTypeOK, Plans
<1>2. LocksExclude
  BY DEF LocksExclude
<1>3. StoredWhenDone /\ \A m \in Messages : MessageInHand(m)
  BY DEF StoredWhenDone, MessageInHand
<1>4. ASSUME NEW o \in Operators PROVE MergeSteps(o) /\ MergeLocks(o) /\ MergeInHand(o)
  BY DEF MergeSteps, MergeLocks, MessageRows, MergeInHand
<1>5. ThreadsKeepCustomers
  BY DEF ThreadsKeepCustomers
<1> QED BY <1>1, <1>2, <1>3, <1>4, <1>5 DEF ContactIInv

(* The steps one by one. *)
LEMMA ContactSteps ==
    ASSUME [ContactNext]_cvars
    PROVE  \/ UNCHANGED cvars
           \/ \E m \in Received : FindIdentity(m) \/ FindByPhone(m) \/ Anchor(m)
                                  \/ CreateContact(m) \/ UpsertJid(m) \/ FindThread(m) \/ OpenThread(m)
           \/ \E m \in Sent, t \in Threads : StartSend(m, t)
           \/ \E m \in Messages : InsertIntoThread(m)
           \/ \E m \in Messages : CommitMessage(m)
           \/ \E o \in Operators, a, b \in Contacts : StartMerge(o, a, b)
           \/ \E o \in Operators : MoveIdentities(o) \/ SelectThread(o) \/ SelectTarget(o)
                \/ MoveMessages(o) \/ FoldThread(o) \/ DeleteThread(o) \/ KeepThread(o) \/ MoveRest(o)
           \/ \E o \in Operators : CommitMerge(o)
           \/ \E p \in Processes : Rollback(p)
BY DEF ContactNext, IngestStep, MergeStep

(* No step but the two commits writes a row. *)
LEMMA OnlyCommitsWrite ==
    ASSUME [ContactNext]_cvars
    PROVE  \/ UNCHANGED rows
           \/ \E m \in Messages : CommitMessage(m)
           \/ \E o \in Operators : CommitMerge(o)
<1> USE DEF rows
<1>1. ASSUME NEW m \in Received, FindIdentity(m) \/ FindByPhone(m) \/ Anchor(m)
                 \/ CreateContact(m) \/ UpsertJid(m) \/ FindThread(m) \/ OpenThread(m)
      PROVE  UNCHANGED rows
  BY <1>1 DEF FindIdentity, FindByPhone, Anchor, CreateContact, UpsertJid, FindThread, OpenThread
<1>2. ASSUME NEW o \in Operators, MoveIdentities(o) \/ SelectThread(o) \/ SelectTarget(o)
                \/ MoveMessages(o) \/ FoldThread(o) \/ DeleteThread(o) \/ KeepThread(o) \/ MoveRest(o)
      PROVE  UNCHANGED rows
  BY <1>2 DEF MoveIdentities, SelectThread, SelectTarget, MoveMessages, FoldThread, DeleteThread,
              KeepThread, MoveRest
<1> QED
  BY ContactSteps, <1>1, <1>2 DEF StartSend, InsertIntoThread, StartMerge, Rollback, cvars

-------------------------------------------------------------------------------
\* Locks have a strength.
Strong(L) == \A l \in L : l[3] \in KeyShare..ForUpdate

(* The strengths are three. *)
LEMMA StrengthOfLocks ==
    ASSUME NEW a, NEW b, NEW s \in {KeyShare, NoKeyUpdate, ForUpdate}
    PROVE  <<a, b, s>>[3] \in KeyShare..ForUpdate
BY DEF KeyShare, NoKeyUpdate, ForUpdate

LEMMA StrongLocks ==
    /\ \A s \in {KeyShare, NoKeyUpdate, ForUpdate} :
         /\ \A a, b : Strong({<<a, b, s>>})
         /\ \A a, B : Strong({<<a, b, s>> : b \in B})
    /\ \A L, M : Strong(L) /\ Strong(M) => Strong(L \cup M)
    /\ \A S : Strong(MessageRows(S))
<1>1. ASSUME NEW s \in {KeyShare, NoKeyUpdate, ForUpdate}, NEW a, NEW b
      PROVE  Strong({<<a, b, s>>})
  BY StrengthOfLocks DEF Strong
<1>2. ASSUME NEW s \in {KeyShare, NoKeyUpdate, ForUpdate}, NEW a, NEW B
      PROVE  Strong({<<a, b, s>> : b \in B})
  BY StrengthOfLocks DEF Strong
<1>3. ASSUME NEW L, NEW M, Strong(L), Strong(M) PROVE Strong(L \cup M)
  BY <1>3 DEF Strong
<1>4. ASSUME NEW S PROVE Strong(MessageRows(S))
  BY <1>2 DEF MessageRows
<1> QED BY <1>1, <1>2, <1>3, <1>4

(* A step takes locks, all of a strength, that nobody excludes, or lets one transaction's locks go. *)
LEMMA LockSteps ==
    ASSUME [ContactNext]_cvars
    PROVE  \/ UNCHANGED locks
           \/ \E p \in Processes : locks' = [locks EXCEPT ![p] = {}]
           \/ \E p \in Processes : \E L : Lock(p, L) /\ Strong(L)
<1> USE ContactConstants, StrongLocks
<1>1. ASSUME NEW m \in Received, Anchor(m) \/ UpsertJid(m) \/ OpenThread(m) \/ CreateContact(m)
      PROVE  UNCHANGED locks \/ \E p \in Processes : \E L : Lock(p, L) /\ Strong(L)
  <2>1. \A n : Strong(PhoneEntry(n))
    <3>1. Strong({})
      BY DEF Strong
    <3> QED BY <3>1 DEF PhoneEntry
  <2>2. CASE Anchor(m)
    <3> DEFINE new == IF who[m] # Nobody /\ phoneOf[who[m]] = NoPhone THEN Phone(m) ELSE NoPhone
               taken == {<<"contact", who[m], NoKeyUpdate>>} \cup PhoneEntry(new)
    <3>1. Lock(m, taken)
      BY <2>2 DEF Anchor
    <3>2. Strong(taken)
      BY <2>1
    <3> QED BY <3>1, <3>2
  <2>3. CASE UpsertJid(m)
    <3>1. Lock(m, {<<"jid", JidOf[m], NoKeyUpdate>>})
      BY <2>3 DEF UpsertJid
    <3> QED BY <3>1
  <2>4. CASE OpenThread(m)
    <3>1. Lock(m, {ThreadEntry(who[m])})
      BY <2>4 DEF OpenThread
    <3>2. Strong({ThreadEntry(who[m])})
      BY DEF ThreadEntry
    <3> QED BY <3>1, <3>2
  <2>5. CASE CreateContact(m)
    BY <2>1, <2>5 DEF CreateContact
  <2> QED BY <1>1, <2>2, <2>3, <2>4, <2>5
<1>3. ASSUME NEW m \in Received, FindIdentity(m) \/ FindByPhone(m) \/ FindThread(m)
      PROVE  UNCHANGED locks
  BY <1>3 DEF FindIdentity, FindByPhone, FindThread
<1>4. ASSUME NEW m \in Messages, InsertIntoThread(m)
      PROVE  \E p \in Processes : \E L : Lock(p, L) /\ Strong(L)
  <2>1. Lock(m, {<<"thread", conv[m], KeyShare>>})
    BY <1>4 DEF InsertIntoThread
  <2> QED BY <2>1
<1>5. ASSUME NEW o \in Operators, MoveIdentities(o) \/ MoveMessages(o) \/ FoldThread(o)
                 \/ DeleteThread(o) \/ KeepThread(o) \/ MoveRest(o)
      PROVE  \E L : Lock(o, L) /\ Strong(L)
  <2>1. CASE MoveIdentities(o)
    <3> DEFINE moving == {j \in Jids : jidContact[j] = plan[o].source}
               taken == {<<"jid", j, NoKeyUpdate>> : j \in moving}
    <3>1. Lock(o, taken)
      BY <2>1 DEF MoveIdentities
    <3>2. Strong(taken)
      OBVIOUS
    <3> QED BY <3>1, <3>2
  <2>2. CASE MoveMessages(o)
    <3> DEFINE moving == {m \in Messages : inThread[m] = plan[o].from}
               targets == IF moving = {} THEN {} ELSE {plan[o].into}
               threads == {<<"thread", t, KeyShare>> : t \in targets}
    <3>1. Lock(o, MessageRows(moving) \cup threads)
      BY <2>2 DEF MoveMessages
    <3> HIDE DEF moving, targets
    <3>2. Strong(threads)
      OBVIOUS
    <3>3. Strong(MessageRows(moving) \cup threads)
      BY <3>2
    <3> QED BY <3>1, <3>3
  <2>3. CASE FoldThread(o)
    <3>1. Lock(o, {<<"thread", plan[o].into, NoKeyUpdate>>})
      BY <2>3 DEF FoldThread
    <3> QED BY <3>1
  <2>4. CASE DeleteThread(o)
    <3> DEFINE left == {m \in Messages : inThread[m] = plan[o].from} \ plan[o].moved
               thread == {<<"thread", plan[o].from, ForUpdate>>}
               entry == {ThreadEntry(plan[o].source)}
    <3>1. Lock(o, thread \cup entry \cup MessageRows(left))
      <4>1. {<<"thread", plan[o].from, ForUpdate>>, ThreadEntry(plan[o].source)} = thread \cup entry
        OBVIOUS
      <4> QED BY <2>4, <4>1 DEF DeleteThread
    <3>2. Strong(thread) /\ Strong(entry)
      BY DEF ThreadEntry
    <3> HIDE DEF thread, entry, left
    <3>3. Strong(thread \cup entry \cup MessageRows(left))
      BY <3>2
    <3> QED BY <3>1, <3>3
  <2>5. CASE KeepThread(o)
    <3> DEFINE thread == {<<"thread", plan[o].from, ForUpdate>>}
               entry == {ThreadEntry(plan[o].source)}
               new == {ThreadEntry(plan[o].target)}
    <3>1. Lock(o, thread \cup entry \cup new)
      <4>1. {<<"thread", plan[o].from, ForUpdate>>, ThreadEntry(plan[o].source),
              ThreadEntry(plan[o].target)} = thread \cup entry \cup new
        OBVIOUS
      <4> QED BY <2>5, <4>1 DEF KeepThread
    <3>2. Strong(thread) /\ Strong(entry) /\ Strong(new)
      BY DEF ThreadEntry
    <3> HIDE DEF thread, entry, new
    <3>3. Strong(thread \cup entry \cup new)
      BY <3>2
    <3> QED BY <3>1, <3>3
  <2>6. CASE MoveRest(o)
    <3> DEFINE left == {m \in Messages : msgContact[m] = plan[o].source}
                         \ (plan[o].moved \cup plan[o].dropped)
    <3>1. Lock(o, MessageRows(left))
      BY <2>6 DEF MoveRest
    <3> QED BY <3>1
  <2> QED BY <1>5, <2>1, <2>2, <2>3, <2>4, <2>5, <2>6
<1>6. ASSUME NEW o \in Operators, SelectThread(o) \/ SelectTarget(o)
      PROVE  UNCHANGED locks
  BY <1>6 DEF SelectThread, SelectTarget
<1>7. ASSUME NEW m \in Messages, CommitMessage(m)
      PROVE  \E p \in Processes : locks' = [locks EXCEPT ![p] = {}]
  BY <1>7 DEF CommitMessage
<1>8. ASSUME NEW o \in Operators, CommitMerge(o)
      PROVE  \E p \in Processes : locks' = [locks EXCEPT ![p] = {}]
  BY <1>8 DEF CommitMerge
<1> QED
  BY <1>1, <1>3, <1>4, <1>5, <1>6, <1>7, <1>8, ContactSteps
  DEF StartSend, StartMerge, Rollback, cvars

(* Filling in a field of a plan leaves a plan. *)
LEMMA PlanFields ==
    ASSUME NEW p \in Plans
    PROVE  /\ \A c, d \in Contacts : [p EXCEPT !.source = c, !.target = d] \in Plans
           /\ \A J \in SUBSET Jids : [p EXCEPT !.jids = J] \in Plans
           /\ \A t \in Threads : [p EXCEPT !.from = t] \in Plans /\ [p EXCEPT !.into = t] \in Plans
           /\ \A M \in SUBSET Messages : /\ [p EXCEPT !.moved = M] \in Plans
                                         /\ [p EXCEPT !.dropped = M] \in Plans
                                         /\ [p EXCEPT !.rest = M] \in Plans
<1> USE DEF Plans
<1>1. ASSUME NEW c \in Contacts, NEW d \in Contacts
      PROVE  [p EXCEPT !.source = c, !.target = d] \in Plans
  OBVIOUS
<1>2. ASSUME NEW J \in SUBSET Jids PROVE [p EXCEPT !.jids = J] \in Plans
  OBVIOUS
<1>3. ASSUME NEW t \in Threads PROVE [p EXCEPT !.from = t] \in Plans
  OBVIOUS
<1>4. ASSUME NEW t \in Threads PROVE [p EXCEPT !.into = t] \in Plans
  OBVIOUS
<1>5. ASSUME NEW M \in SUBSET Messages PROVE [p EXCEPT !.moved = M] \in Plans
  OBVIOUS
<1>6. ASSUME NEW M \in SUBSET Messages PROVE [p EXCEPT !.dropped = M] \in Plans
  OBVIOUS
<1>7. ASSUME NEW M \in SUBSET Messages PROVE [p EXCEPT !.rest = M] \in Plans
  OBVIOUS
<1> QED BY <1>1, <1>2, <1>3, <1>4, <1>5, <1>6, <1>7

(* Tables, locals and locks keep their types. *)
LEMMA ContactTypeStep == ContactTypeOK /\ [ContactNext]_cvars => ContactTypeOK'
<1> SUFFICES ASSUME ContactTypeOK, [ContactNext]_cvars PROVE ContactTypeOK'
  OBVIOUS
<1>a. NoPlan \in Plans
  BY DEF NoPlan, Plans
<1>l. DOMAIN locks' = Processes /\ \A p \in Processes : \A l \in locks'[p] : l[3] \in KeyShare..ForUpdate
  <2> USE DEF ContactTypeOK
  <2>1. CASE UNCHANGED locks
    BY <2>1
  <2>2. ASSUME NEW p \in Processes, locks' = [locks EXCEPT ![p] = {}]
        PROVE  /\ DOMAIN locks' = Processes
               /\ \A q \in Processes : \A l \in locks'[q] : l[3] \in KeyShare..ForUpdate
    BY <2>2
  <2>3. ASSUME NEW p \in Processes, NEW L, Lock(p, L), Strong(L)
        PROVE  /\ DOMAIN locks' = Processes
               /\ \A q \in Processes : \A l \in locks'[q] : l[3] \in KeyShare..ForUpdate
    BY <2>3 DEF Lock, Strong
  <2> QED BY <2>1, <2>2, <2>3, LockSteps
<1>b. ASSUME UNCHANGED <<rows, who, conv>>, DOMAIN at' = Processes,
             NEW o \in Operators, NEW p \in Plans, plan' = [plan EXCEPT ![o] = p]
      PROVE  ContactTypeOK'
  <2>1. plan \in [Operators -> Plans]
    BY DEF ContactTypeOK
  <2>2. plan' \in [Operators -> Plans]
    BY ONLY <1>b, <2>1
  <2> QED BY <1>b, <1>l, <2>2 DEF ContactTypeOK, rows
<1> USE <1>l, ContactConstants
    DEF ContactTypeOK, rows, Goto
<1>0. CASE UNCHANGED cvars
  BY <1>0 DEF cvars
<1>1. ASSUME NEW m \in Received, FindIdentity(m) PROVE ContactTypeOK'
  <2> DEFINE own == {jidContact[JidOf[m]]} \ {Nobody}
             kin == {jidContact[j] : j \in {k \in Jids : PhoneOf[k] = Phone(m) /\ Phone(m) # NoPhone}}
                      \ {Nobody}
             found == IF own # {} THEN own ELSE kin
  <2>1. found \subseteq Contacts
    OBVIOUS
  <2>2. found # {} => (CHOOSE c \in found : TRUE) \in Contacts
    BY <2>1
  <2>3. who' = [who EXCEPT ![m] = IF found = {} THEN Nobody ELSE CHOOSE c \in found : TRUE]
    BY <1>1 DEF FindIdentity
  <2> HIDE DEF found
  <2>4. who' \in [Messages -> Contacts \cup {Nobody}]
    BY <2>2, <2>3
  <2> QED BY <1>1, <2>4 DEF FindIdentity
<1>2. ASSUME NEW m \in Received, FindByPhone(m) PROVE ContactTypeOK'
  <2>1. ActiveWith(Phone(m)) # {} => (CHOOSE c \in ActiveWith(Phone(m)) : TRUE) \in Contacts
    BY DEF ActiveWith
  <2> QED BY <1>2, <2>1 DEF FindByPhone
<1>3. ASSUME NEW m \in Received, Anchor(m) PROVE ContactTypeOK'
  BY <1>3 DEF Anchor
<1>4. ASSUME NEW m \in Received, CreateContact(m) PROVE ContactTypeOK'
  BY <1>4 DEF CreateContact, ActiveWith
<1>5. ASSUME NEW m \in Received, UpsertJid(m) PROVE ContactTypeOK'
  BY <1>5 DEF UpsertJid
<1>6. ASSUME NEW m \in Received, FindThread(m) PROVE ContactTypeOK'
  BY <1>6 DEF FindThread, ThreadsOf
<1>7. ASSUME NEW m \in Received, OpenThread(m) PROVE ContactTypeOK'
  BY <1>7 DEF OpenThread, Threads
<1>8. ASSUME NEW m \in Sent, NEW t \in Threads, StartSend(m, t) PROVE ContactTypeOK'
  BY <1>8 DEF StartSend
<1>9. ASSUME NEW m \in Messages, InsertIntoThread(m) PROVE ContactTypeOK'
  BY <1>9 DEF InsertIntoThread
<1>10. ASSUME NEW m \in Messages, CommitMessage(m) PROVE ContactTypeOK'
  BY <1>10 DEF CommitMessage
<1>11. ASSUME NEW o \in Operators, NEW a \in Contacts, NEW b \in Contacts, StartMerge(o, a, b)
       PROVE  ContactTypeOK'
  <2>1. [NoPlan EXCEPT !.source = a, !.target = b] \in Plans
    BY <1>a, PlanFields
  <2>2. UNCHANGED <<rows, who, conv>> /\ DOMAIN at' = Processes
    BY <1>11 DEF StartMerge
  <2> QED BY <1>b, <1>11, <2>1, <2>2 DEF StartMerge
<1>12. ASSUME NEW o \in Operators, MoveIdentities(o) PROVE ContactTypeOK'
  <2> DEFINE moving == {j \in Jids : jidContact[j] = plan[o].source}
  <2>1. plan[o] \in Plans
    OBVIOUS
  <2>2. [plan[o] EXCEPT !.jids = moving] \in Plans
    BY <2>1, PlanFields
  <2>3. /\ plan' = [plan EXCEPT ![o] = [plan[o] EXCEPT !.jids = moving]]
        /\ UNCHANGED <<rows, who, conv>> /\ DOMAIN at' = Processes
    BY <1>12 DEF MoveIdentities
  <2> QED BY <1>b, <2>2, <2>3
<1>13. ASSUME NEW o \in Operators, SelectThread(o) PROVE ContactTypeOK'
  <2>1. ASSUME NEW t \in ThreadsOf(plan[o].source), plan' = [plan EXCEPT ![o].from = t] PROVE ContactTypeOK'
    <3>1. t \in Threads /\ plan[o] \in Plans
      BY DEF ThreadsOf
    <3>2. [plan[o] EXCEPT !.from = t] \in Plans
      BY <3>1, PlanFields
    <3>3. /\ plan' = [plan EXCEPT ![o] = [plan[o] EXCEPT !.from = t]]
          /\ UNCHANGED <<rows, who, conv>> /\ DOMAIN at' = Processes
      BY <1>13, <2>1 DEF SelectThread
    <3> QED BY <1>b, <3>2, <3>3
  <2> QED BY <1>13, <2>1 DEF SelectThread
<1>14. ASSUME NEW o \in Operators, SelectTarget(o) PROVE ContactTypeOK'
  <2>1. ASSUME NEW t \in TargetThreads(o), plan' = [plan EXCEPT ![o].into = t] PROVE ContactTypeOK'
    <3>1. t \in Threads /\ plan[o] \in Plans
      BY DEF TargetThreads, ThreadsOf
    <3>2. [plan[o] EXCEPT !.into = t] \in Plans
      BY <3>1, PlanFields
    <3>3. /\ plan' = [plan EXCEPT ![o] = [plan[o] EXCEPT !.into = t]]
          /\ UNCHANGED <<rows, who, conv>> /\ DOMAIN at' = Processes
      BY <1>14, <2>1 DEF SelectTarget
    <3> QED BY <1>b, <3>2, <3>3
  <2> QED BY <1>14, <2>1 DEF SelectTarget
<1>15. ASSUME NEW o \in Operators, MoveMessages(o) PROVE ContactTypeOK'
  <2> DEFINE moving == {m \in Messages : inThread[m] = plan[o].from}
  <2>1. plan[o] \in Plans
    OBVIOUS
  <2>2. [plan[o] EXCEPT !.moved = moving] \in Plans
    BY <2>1, PlanFields
  <2>3. /\ plan' = [plan EXCEPT ![o] = [plan[o] EXCEPT !.moved = moving]]
        /\ UNCHANGED <<rows, who, conv>> /\ DOMAIN at' = Processes
    BY <1>15 DEF MoveMessages
  <2> QED BY <1>b, <2>2, <2>3
<1>16. ASSUME NEW o \in Operators, FoldThread(o) PROVE ContactTypeOK'
  BY <1>16 DEF FoldThread
<1>17. ASSUME NEW o \in Operators, DeleteThread(o) PROVE ContactTypeOK'
  <2> DEFINE left == {m \in Messages : inThread[m] = plan[o].from} \ plan[o].moved
  <2>1. plan[o] \in Plans
    OBVIOUS
  <2>2. [plan[o] EXCEPT !.dropped = left] \in Plans
    BY <2>1, PlanFields
  <2>3. /\ plan' = [plan EXCEPT ![o] = [plan[o] EXCEPT !.dropped = left]]
        /\ UNCHANGED <<rows, who, conv>> /\ DOMAIN at' = Processes
    BY <1>17 DEF DeleteThread
  <2> QED BY <1>b, <2>2, <2>3
<1>18. ASSUME NEW o \in Operators, KeepThread(o) PROVE ContactTypeOK'
  BY <1>18 DEF KeepThread
<1>19. ASSUME NEW o \in Operators, MoveRest(o) PROVE ContactTypeOK'
  <2> DEFINE left == {m \in Messages : msgContact[m] = plan[o].source}
                       \ (plan[o].moved \cup plan[o].dropped)
  <2>1. plan[o] \in Plans
    OBVIOUS
  <2>2. [plan[o] EXCEPT !.rest = left] \in Plans
    BY <2>1, PlanFields
  <2>3. /\ plan' = [plan EXCEPT ![o] = [plan[o] EXCEPT !.rest = left]]
        /\ UNCHANGED <<rows, who, conv>> /\ DOMAIN at' = Processes
    BY <1>19 DEF MoveRest
  <2> QED BY <1>b, <2>2, <2>3
<1>20. ASSUME NEW o \in Operators, CommitMerge(o) PROVE ContactTypeOK'
  <2>1. plan[o] \in Plans
    OBVIOUS
  <2>3. jidContact' \in [Jids -> Contacts \cup {Nobody}]
    BY <1>20, <2>1 DEF CommitMerge, Plans
  <2>4. holder' \in [Threads -> Contacts \cup {Nobody}]
    BY <1>20, <2>1 DEF CommitMerge, Plans
  <2>5. /\ inThread' \in [Messages -> Threads \cup {Nobody}]
        /\ msgContact' \in [Messages -> Contacts \cup {Nobody}]
    BY <1>20, <2>1 DEF CommitMerge, Plans
  <2>6. plan' \in [Operators -> Plans]
    BY <1>20, <1>a DEF CommitMerge
  <2> QED BY <1>20, <2>3, <2>4, <2>5, <2>6 DEF CommitMerge
<1>21. ASSUME NEW p \in Processes, Rollback(p) PROVE ContactTypeOK'
  <2>1. plan' \in [Operators -> Plans]
    BY <1>21, <1>a DEF Rollback
  <2>2. who' \in [Messages -> Contacts \cup {Nobody}] /\ conv' \in [Messages -> Threads \cup {Nobody}]
    BY <1>21 DEF Rollback
  <2> QED BY <1>21, <2>1, <2>2 DEF Rollback
<1> QED
  BY <1>0, <1>1, <1>2, <1>3, <1>4, <1>5, <1>6, <1>7, <1>8, <1>9, <1>10, <1>11, <1>12, <1>13, <1>14,
     <1>15, <1>16, <1>17, <1>18, <1>19, <1>20, <1>21, ContactSteps

(* A lock is granted when no other transaction has a conflicting one. *)
LEMMA LocksExcludeStep ==
    ContactTypeOK /\ LocksExclude /\ [ContactNext]_cvars => LocksExclude'
<1> SUFFICES ASSUME ContactTypeOK, ContactTypeOK', LocksExclude, [ContactNext]_cvars
             PROVE  LocksExclude'
  BY ContactTypeStep
<1>1. CASE UNCHANGED locks
  BY <1>1 DEF LocksExclude
<1>2. ASSUME NEW p \in Processes, locks' = [locks EXCEPT ![p] = {}] PROVE LocksExclude'
  BY <1>2 DEF LocksExclude, ContactTypeOK
<1>3. ASSUME NEW p \in Processes, NEW L, Lock(p, L) PROVE LocksExclude'
  <2> SUFFICES ASSUME NEW q \in Processes, NEW r \in Processes, q # r,
                      NEW l \in locks'[q], NEW k \in locks'[r]
               PROVE  ~Conflict(l, k)
    BY DEF LocksExclude
  <2>1. l[3] \in KeyShare..ForUpdate /\ k[3] \in KeyShare..ForUpdate /\ (Conflict(l, k) <=> Conflict(k, l))
    BY DEF ContactTypeOK, Conflict, KeyShare, ForUpdate
  <2>2. /\ locks'[p] = locks[p] \cup L
        /\ \A x \in Processes : x # p => locks'[x] = locks[x]
    BY <1>3 DEF Lock, ContactTypeOK
  <2> QED BY <1>3, <2>1, <2>2 DEF Lock, CanLock, LocksExclude
<1> QED BY <1>1, <1>2, <1>3, LockSteps

-------------------------------------------------------------------------------
(* A step that writes no row.                                                *)

\* All but p are where they were, with what they had.
OthersRest(p) ==
    \A q \in Processes : q # p =>
        /\ at'[q] = at[q] /\ locks'[q] = locks[q]
        /\ q \in Messages => who'[q] = who[q] /\ conv'[q] = conv[q]
        /\ q \in Operators => plan'[q] = plan[q]

(* Who is done stays done. *)
LEMMA DoneStays ==
    ASSUME ContactTypeOK, [ContactNext]_cvars, NEW p \in Processes, at[p] = "done"
    PROVE  at'[p] = "done"
<1> USE ContactConstants DEF ContactTypeOK, Goto
<1>1. ASSUME NEW m \in Received, FindIdentity(m) \/ FindByPhone(m) \/ Anchor(m)
                 \/ CreateContact(m) \/ UpsertJid(m) \/ FindThread(m) \/ OpenThread(m)
      PROVE  at'[p] = "done"
  BY <1>1 DEF FindIdentity, FindByPhone, Anchor, CreateContact, UpsertJid, FindThread, OpenThread
<1>2. ASSUME NEW o \in Operators, MoveIdentities(o) \/ SelectThread(o) \/ SelectTarget(o)
                \/ MoveMessages(o) \/ FoldThread(o) \/ DeleteThread(o) \/ KeepThread(o) \/ MoveRest(o)
      PROVE  at'[p] = "done"
  BY <1>2 DEF MoveIdentities, SelectThread, SelectTarget, MoveMessages, FoldThread, DeleteThread,
              KeepThread, MoveRest
<1>3. ASSUME NEW m \in Messages, InsertIntoThread(m) \/ CommitMessage(m) PROVE at'[p] = "done"
  BY <1>3 DEF InsertIntoThread, CommitMessage
<1>4. ASSUME NEW o \in Operators, CommitMerge(o) PROVE at'[p] = "done"
  BY <1>4 DEF CommitMerge
<1>5. ASSUME NEW q \in Processes, Rollback(q) PROVE at'[p] = "done"
  BY <1>5 DEF Rollback
<1> QED
  BY ContactSteps, <1>1, <1>2, <1>3, <1>4, <1>5 DEF StartSend, StartMerge, cvars

(* What is stored stays stored by who is done. *)
LEMMA QuietStored ==
    ASSUME ContactTypeOK, StoredWhenDone, [ContactNext]_cvars, UNCHANGED rows
    PROVE  StoredWhenDone'
BY DoneStays, ContactConstants DEF StoredWhenDone, rows, Exists, Threads

(* The others' part of the invariant. *)
LEMMA QuietOthers ==
    ASSUME ContactIInv, [ContactNext]_cvars, UNCHANGED rows, NEW p, OthersRest(p)
    PROVE  /\ \A m \in Messages : m # p => MessageInHand(m)'
           /\ \A o \in Operators : o # p => MergeSteps(o)' /\ MergeLocks(o)' /\ MergeInHand(o)'
<1> USE ContactConstants DEF ContactIInv
<1>1. ASSUME NEW m \in Messages, m # p PROVE MessageInHand(m)'
  <2>1. /\ MessageInHand(m) /\ m \in Processes
        /\ \A q \in Processes : at[q] = "done" => at'[q] = "done"
    BY DoneStays
  <2>2. at'[m] = at[m] /\ who'[m] = who[m] /\ conv'[m] = conv[m] /\ locks'[m] = locks[m]
    BY <1>1, <2>1 DEF OthersRest
  <2>3. UNCHANGED <<holder, history>>
    BY DEF rows
  <2> QED BY <2>1, <2>2, <2>3 DEF MessageInHand, Exists, SamePerson
<1>2. ASSUME NEW o \in Operators, o # p PROVE MergeSteps(o)' /\ MergeLocks(o)' /\ MergeInHand(o)'
  <2>1. at'[o] = at[o] /\ plan'[o] = plan[o] /\ locks'[o] = locks[o]
    BY <1>2 DEF OthersRest
  <2>2. MergeSteps(o)'
    <3>1. MergeSteps(o)
      OBVIOUS
    <3> QED BY ONLY <2>1, <3>1 DEF MergeSteps
  <2>3. MergeLocks(o)'
    BY <2>1 DEF MergeLocks
  <2>4. MergeInHand(o)'
    <3>1. /\ MergeInHand(o) /\ plan[o] \in Plans
          /\ \A q \in Processes : at[q] = "done" => at'[q] = "done"
      BY DoneStays DEF ContactTypeOK
    <3>2. UNCHANGED <<holder, history, inThread, msgContact>>
      BY DEF rows
    <3> QED BY <2>1, <3>1, <3>2 DEF MergeInHand, Exists, SamePerson, Plans
  <2> QED BY <2>2, <2>3, <2>4
<1> QED BY <1>1, <1>2

(* The rows are as they were, and so are the conversations' persons. *)
LEMMA QuietThreads ==
    ThreadsKeepCustomers /\ UNCHANGED rows => ThreadsKeepCustomers'
BY DEF ThreadsKeepCustomers, rows, Exists, SamePerson

(* A message that looks for its contact and conversation. *)
LEMMA MessageSteps ==
    ASSUME ContactIInv, [ContactNext]_cvars, NEW m \in Messages,
           \/ m \in Received /\ (\/ FindIdentity(m) \/ FindByPhone(m) \/ Anchor(m) \/ CreateContact(m)
                                 \/ UpsertJid(m) \/ FindThread(m) \/ OpenThread(m))
           \/ \E t \in Threads : StartSend(m, t)
           \/ InsertIntoThread(m)
    PROVE  OthersRest(m) /\ MessageInHand(m)'
<1> USE ContactConstants DEF ContactIInv, Goto, Exists
<1>0. MessageInHand(m) /\ m \notin Operators /\ ContactTypeOK
  OBVIOUS
<1>1. CASE m \in Received /\ (FindIdentity(m) \/ FindByPhone(m))
  BY <1>0, <1>1 DEF FindIdentity, FindByPhone, OthersRest, MessageInHand, ContactTypeOK
<1>2. CASE m \in Received /\ Anchor(m)
  BY <1>0, <1>2 DEF Anchor, Lock, OthersRest, MessageInHand, ContactTypeOK
<1>3. CASE m \in Received /\ CreateContact(m)
  BY <1>0, <1>3 DEF CreateContact, Lock, OthersRest, MessageInHand, ContactTypeOK
<1>4. CASE m \in Received /\ UpsertJid(m)
  BY <1>0, <1>4 DEF UpsertJid, Lock, OthersRest, MessageInHand, ContactTypeOK
<1>5. CASE m \in Received /\ FindThread(m)
  <2>1. OthersRest(m)
    BY <1>0, <1>5 DEF FindThread, OthersRest, ContactTypeOK
  <2>2. who'[m] = who[m] /\ who[m] \in Contacts /\ UNCHANGED rows
    BY <1>0, <1>5 DEF FindThread, MessageInHand
  <2>3. CASE at'[m] = "unthreaded"
    BY <2>1, <2>2, <2>3 DEF MessageInHand
  <2>4. ASSUME NEW t \in ThreadsOf(who[m]), conv' = [conv EXCEPT ![m] = t], at' = [at EXCEPT ![m] = "threaded"]
        PROVE  MessageInHand(m)'
    <3>1. t \in Threads /\ holder[t] = who[m] /\ conv'[m] = t /\ at'[m] = "threaded" /\ t \in Processes
      BY <1>0, <2>4 DEF ThreadsOf, ContactTypeOK
    <3>2. at[t] = "done"
      BY <2>2, <3>1 DEF StoredWhenDone
    <3>3. at'[t] = "done"
      BY <3>1, <3>2, DoneStays
    <3>4. SamePerson(who[m], holder[t])'
      BY <2>2, <3>1, LinkedReflexive DEF SamePerson, rows
    <3> QED BY <2>2, <3>1, <3>3, <3>4 DEF MessageInHand
  <2> QED BY <1>0, <1>5, <2>1, <2>3, <2>4 DEF FindThread, ContactTypeOK
<1>6. CASE m \in Received /\ OpenThread(m)
  BY <1>0, <1>6 DEF OpenThread, Lock, OthersRest, MessageInHand, ContactTypeOK, Threads
<1>7. ASSUME NEW t \in Threads, StartSend(m, t) PROVE OthersRest(m) /\ MessageInHand(m)'
  <2>1. OthersRest(m)
    BY <1>0, <1>7 DEF StartSend, OthersRest, ContactTypeOK
  <2>2. /\ who'[m] = holder[t] /\ conv'[m] = t /\ at'[m] = "threaded" /\ UNCHANGED rows
        /\ holder[t] \in Contacts /\ t \in Processes /\ at[t] = "done"
    BY <1>0, <1>7 DEF StartSend, ContactTypeOK, StoredWhenDone
  <2>3. at'[t] = "done"
    BY <2>2, DoneStays
  <2>4. SamePerson(holder[t], holder[t])'
    BY LinkedReflexive DEF SamePerson
  <2> QED BY <2>1, <2>2, <2>3, <2>4 DEF MessageInHand, rows
<1>8. CASE InsertIntoThread(m)
  <2>1. OthersRest(m)
    BY <1>0, <1>8 DEF InsertIntoThread, Lock, OthersRest, ContactTypeOK
  <2>2. /\ at[m] = "threaded" /\ at'[m] = "inserted" /\ UNCHANGED <<rows, who, conv>>
        /\ conv[m] # m => Exists(conv[m])
        /\ <<"thread", conv[m], KeyShare>> \in locks'[m]
    BY <1>0, <1>8 DEF InsertIntoThread, Lock, ContactTypeOK
  <2>3. conv[m] # m => at'[conv[m]] = "done"
    BY <1>0, <2>2, DoneStays DEF MessageInHand
  <2> QED BY <1>0, <2>1, <2>2, <2>3 DEF MessageInHand, rows, SamePerson
<1> QED BY <1>1, <1>2, <1>3, <1>4, <1>5, <1>6, <1>7, <1>8

(* A merge that reads, decides and takes its locks. *)
LEMMA MergeReads ==
    ASSUME ContactIInv, [ContactNext]_cvars, NEW o \in Operators,
           \/ \E a, b \in Contacts : StartMerge(o, a, b)
           \/ MoveIdentities(o) \/ SelectThread(o) \/ SelectTarget(o) \/ MoveMessages(o) \/ FoldThread(o)
           \/ DeleteThread(o) \/ KeepThread(o) \/ MoveRest(o)
    PROVE  OthersRest(o) /\ MergeSteps(o)' /\ MergeLocks(o)' /\ MergeInHand(o)'
<1>0. /\ MergeSteps(o) /\ MergeLocks(o) /\ MergeInHand(o) /\ plan[o] \in Plans /\ o \in Processes
      /\ o \notin Messages /\ ContactTypeOK /\ StoredWhenDone
  BY ContactConstants DEF ContactIInv, ContactTypeOK
<1>d. /\ \A t \in Threads : at[t] = "done" => at'[t] = "done"
      /\ \A m \in Messages : at[m] = "done" => at'[m] = "done"
      /\ plan[o].from # Nobody => at'[plan[o].from] = "done"
      /\ plan[o].into # Nobody => at'[plan[o].into] = "done"
      /\ \A m \in plan[o].moved : at'[m] = "done"
  BY <1>0, DoneStays, ContactConstants DEF MergeInHand, Plans
<1>1. ASSUME NEW a \in Contacts, NEW b \in Contacts, StartMerge(o, a, b)
      PROVE  OthersRest(o) /\ MergeSteps(o)' /\ MergeLocks(o)' /\ MergeInHand(o)'
  <2>1. OthersRest(o)
    BY <1>0, <1>1, ContactConstants DEF StartMerge, Goto, OthersRest, ContactTypeOK
  <2>2. at'[o] = "checked" /\ plan'[o] = [NoPlan EXCEPT !.source = a, !.target = b]
    BY <1>0, <1>1 DEF StartMerge, Goto, ContactTypeOK
  <2>3. /\ plan'[o].source = a /\ plan'[o].target = b /\ plan'[o].from = Nobody /\ plan'[o].into = Nobody
        /\ plan'[o].moved = {} /\ plan'[o].dropped = {} /\ plan'[o].rest = {}
    BY <2>2 DEF NoPlan
  <2> QED BY <2>1, <2>2, <2>3 DEF MergeSteps, MergeLocks, MergeInHand, MessageRows
<1>2. CASE MoveIdentities(o)
  <2>1. OthersRest(o)
    BY <1>0, <1>2, ContactConstants DEF MoveIdentities, Lock, Goto, OthersRest, ContactTypeOK
  <2>2. /\ at[o] = "checked" /\ at'[o] = "moved identities" /\ UNCHANGED rows /\ locks[o] \subseteq locks'[o]
        /\ plan'[o].source = plan[o].source /\ plan'[o].target = plan[o].target
        /\ plan'[o].from = plan[o].from /\ plan'[o].into = plan[o].into
        /\ plan'[o].moved = plan[o].moved /\ plan'[o].dropped = plan[o].dropped /\ plan'[o].rest = plan[o].rest
    BY <1>0, <1>2 DEF MoveIdentities, Lock, Goto, ContactTypeOK, Plans
  <2> QED BY <1>0, <1>d, <2>1, <2>2
          DEF MergeSteps, MergeLocks, MergeInHand, rows, SamePerson, Exists
<1>3. CASE SelectThread(o)
  <2>1. OthersRest(o)
    BY <1>0, <1>3, ContactConstants DEF SelectThread, Goto, OthersRest, ContactTypeOK
  <2>2. CASE at'[o] = "moved threads"
    <3>1. at[o] = "moved identities" /\ plan' = plan /\ locks' = locks /\ UNCHANGED rows
      BY <1>0, <1>3, <2>2 DEF SelectThread, Goto, ContactTypeOK
    <3> QED BY <1>0, <1>d, <2>1, <2>2, <3>1
            DEF MergeSteps, MergeLocks, MergeInHand, rows, SamePerson, Exists
  <2>3. ASSUME NEW t \in ThreadsOf(plan[o].source), plan' = [plan EXCEPT ![o].from = t], Goto(o, "selected")
        PROVE  MergeSteps(o)' /\ MergeLocks(o)' /\ MergeInHand(o)'
    <3>1. /\ at[o] = "moved identities" /\ at'[o] = "selected" /\ locks' = locks /\ UNCHANGED rows
          /\ plan'[o].source = plan[o].source /\ plan'[o].target = plan[o].target
          /\ plan'[o].from = t /\ plan'[o].into = plan[o].into
          /\ plan'[o].moved = plan[o].moved /\ plan'[o].dropped = plan[o].dropped
          /\ plan'[o].rest = plan[o].rest
      BY <1>0, <1>3, <2>3 DEF SelectThread, Goto, ContactTypeOK, Plans
    <3>2. t \in Threads /\ holder[t] = plan[o].source /\ holder[t] \in Contacts /\ t # Nobody
      BY <1>0, <2>3, <3>1, ContactConstants DEF ThreadsOf, MergeSteps
    <3>3. at'[t] = "done"
      BY <1>0, <1>d, <3>2, ContactConstants DEF StoredWhenDone, Exists
    <3>4. SamePerson(plan[o].source, holder[t])'
      BY <3>1, <3>2, LinkedReflexive DEF SamePerson, rows
    <3> QED BY <1>0, <1>d, <3>1, <3>2, <3>3, <3>4
            DEF MergeSteps, MergeLocks, MergeInHand, rows, SamePerson, Exists
  <2> QED BY <1>0, <1>3, <2>1, <2>2, <2>3 DEF SelectThread, Goto, ContactTypeOK
<1>4. CASE SelectTarget(o)
  <2>1. OthersRest(o)
    BY <1>0, <1>4, ContactConstants DEF SelectTarget, Goto, OthersRest, ContactTypeOK
  <2>2. CASE at'[o] = "keep"
    <3>1. at[o] = "selected" /\ plan' = plan /\ locks' = locks /\ UNCHANGED rows
      BY <1>0, <1>4, <2>2 DEF SelectTarget, Goto, ContactTypeOK
    <3> QED BY <1>0, <1>d, <2>1, <2>2, <3>1
            DEF MergeSteps, MergeLocks, MergeInHand, rows, SamePerson, Exists
  <2>3. ASSUME NEW t \in TargetThreads(o), plan' = [plan EXCEPT ![o].into = t], Goto(o, "fold")
        PROVE  MergeSteps(o)' /\ MergeLocks(o)' /\ MergeInHand(o)'
    <3>1. /\ at[o] = "selected" /\ at'[o] = "fold" /\ locks' = locks /\ UNCHANGED rows
          /\ plan'[o].source = plan[o].source /\ plan'[o].target = plan[o].target
          /\ plan'[o].from = plan[o].from /\ plan'[o].into = t
          /\ plan'[o].moved = plan[o].moved /\ plan'[o].dropped = plan[o].dropped
          /\ plan'[o].rest = plan[o].rest
      BY <1>0, <1>4, <2>3 DEF SelectTarget, Goto, ContactTypeOK, Plans
    <3>2. /\ t \in Threads /\ holder[t] = plan[o].target /\ holder[t] \in Contacts /\ t # Nobody
          /\ t # plan[o].from
      BY <1>0, <2>3, <3>1, ContactConstants DEF TargetThreads, ThreadsOf, MergeSteps
    <3>3. at'[t] = "done"
      BY <1>0, <1>d, <3>2, ContactConstants DEF StoredWhenDone, Exists
    <3>4. SamePerson(plan[o].target, holder[t])'
      BY <3>1, <3>2, LinkedReflexive DEF SamePerson, rows
    <3>5. plan[o].moved = {} /\ plan[o].dropped = {}
      BY <1>0, <3>1 DEF MergeSteps
    <3> QED BY <1>0, <1>d, <3>1, <3>2, <3>3, <3>4, <3>5
            DEF MergeSteps, MergeLocks, MergeInHand, rows, SamePerson, Exists
  <2> QED BY <1>0, <1>4, <2>1, <2>2, <2>3 DEF SelectTarget, Goto, ContactTypeOK
<1>5. CASE MoveMessages(o)
  <2> DEFINE moving == {m \in Messages : inThread[m] = plan[o].from}
             targets == IF moving = {} THEN {} ELSE {plan[o].into}
             taken == MessageRows(moving) \cup {<<"thread", t, KeyShare>> : t \in targets}
  <2>1. OthersRest(o)
    BY <1>0, <1>5, ContactConstants DEF MoveMessages, Lock, Goto, OthersRest, ContactTypeOK
  <2>2. /\ at[o] = "fold" /\ at'[o] = "moved messages" /\ UNCHANGED rows
        /\ locks'[o] = locks[o] \cup taken
        /\ moving # {} => Exists(plan[o].into)
    BY <1>0, <1>5 DEF MoveMessages, Lock, Goto, ContactTypeOK
  <2>3. /\ plan'[o].source = plan[o].source /\ plan'[o].target = plan[o].target
        /\ plan'[o].from = plan[o].from /\ plan'[o].into = plan[o].into
        /\ plan'[o].moved = moving /\ plan'[o].dropped = plan[o].dropped /\ plan'[o].rest = plan[o].rest
    BY <1>0, <1>5 DEF MoveMessages, ContactTypeOK, Plans
  <2>4. /\ plan[o].from # Nobody /\ \A m \in moving : at[m] = "done" /\ at'[m] = "done"
        /\ moving # {} => <<"thread", plan[o].into, KeyShare>> \in taken
    BY <1>0, <1>d, <2>2 DEF MergeSteps, StoredWhenDone
  <2>5. MergeLocks(o)'
    <3>1. MessageRows(plan[o].moved \cup plan[o].dropped \cup plan[o].rest) \subseteq locks[o]
      BY <1>0 DEF MergeLocks
    <3>2. MessageRows(moving) \subseteq taken
      OBVIOUS
    <3>3. MessageRows(moving \cup plan[o].dropped \cup plan[o].rest) \subseteq locks'[o]
      BY <2>2, <3>1, <3>2 DEF MessageRows
    <3> QED BY <2>2, <2>3, <2>4, <3>3 DEF MergeLocks
  <2>6. MergeSteps(o)'
    BY <1>0, <2>2, <2>3 DEF MergeSteps
  <2>7. MergeInHand(o)'
    <3>1. at[o] = "fold" => plan'[o].rest = plan[o].rest
      BY <2>3
    <3> HIDE DEF moving
    <3> QED BY <1>0, <1>d, <2>2, <2>3, <2>4 DEF MergeInHand, rows, SamePerson, Exists
  <2> QED BY <2>1, <2>5, <2>6, <2>7
<1>6. CASE FoldThread(o)
  <2>1. OthersRest(o)
    BY <1>0, <1>6, ContactConstants DEF FoldThread, Lock, Goto, OthersRest, ContactTypeOK
  <2>2. /\ at[o] = "moved messages" /\ at'[o] = "folded" /\ plan' = plan /\ UNCHANGED rows
        /\ locks[o] \subseteq locks'[o]
    BY <1>0, <1>6 DEF FoldThread, Lock, Goto, ContactTypeOK
  <2> QED BY <1>0, <1>d, <2>1, <2>2 DEF MergeSteps, MergeLocks, MergeInHand, rows, SamePerson, Exists
<1>7. CASE DeleteThread(o)
  <2> DEFINE left == {m \in Messages : inThread[m] = plan[o].from} \ plan[o].moved
             thread == <<"thread", plan[o].from, ForUpdate>>
  <2>1. OthersRest(o)
    BY <1>0, <1>7, ContactConstants DEF DeleteThread, Lock, Goto, OthersRest, ContactTypeOK
  <2>2. /\ at[o] = "folded" /\ at'[o] = "moved threads" /\ UNCHANGED rows
        /\ locks'[o] = locks[o] \cup ({thread, ThreadEntry(plan[o].source)} \cup MessageRows(left))
    BY <1>0, <1>7 DEF DeleteThread, Lock, Goto, ContactTypeOK
  <2>3. /\ plan'[o].source = plan[o].source /\ plan'[o].target = plan[o].target
        /\ plan'[o].from = plan[o].from /\ plan'[o].into = plan[o].into
        /\ plan'[o].moved = plan[o].moved /\ plan'[o].dropped = left /\ plan'[o].rest = plan[o].rest
    BY <1>0, <1>7 DEF DeleteThread, ContactTypeOK, Plans
  <2>4. MergeLocks(o)'
    <3>1. MessageRows(plan[o].moved \cup plan[o].dropped \cup plan[o].rest) \subseteq locks[o]
      BY <1>0 DEF MergeLocks
    <3>2. MessageRows(left) \subseteq locks'[o] /\ thread \in locks'[o]
      BY <2>2
    <3>3. MessageRows(plan[o].moved \cup left \cup plan[o].rest) \subseteq locks'[o]
      BY <2>2, <3>1, <3>2 DEF MessageRows
    <3>4. plan[o].moved # {} => <<"thread", plan[o].into, KeyShare>> \in locks'[o]
      BY <1>0, <2>2 DEF MergeLocks
    <3> QED BY <2>3, <3>2, <3>3, <3>4 DEF MergeLocks
  <2>5. MergeSteps(o)'
    BY <1>0, <2>2, <2>3 DEF MergeSteps
  <2>6. MergeInHand(o)'
    <3>1. \A m \in Messages : inThread[m] = plan[o].from => m \in plan[o].moved \cup left
      OBVIOUS
    <3> HIDE DEF left
    <3> QED BY <1>0, <1>d, <2>2, <2>3, <3>1 DEF MergeInHand, rows, SamePerson, Exists
  <2> QED BY <2>1, <2>4, <2>5, <2>6
<1>8. CASE KeepThread(o)
  <2>1. OthersRest(o)
    BY <1>0, <1>8, ContactConstants DEF KeepThread, Lock, Goto, OthersRest, ContactTypeOK
  <2>2. /\ at[o] = "keep" /\ at'[o] = "moved threads" /\ plan' = plan /\ UNCHANGED rows
        /\ locks[o] \subseteq locks'[o] /\ <<"thread", plan[o].from, ForUpdate>> \in locks'[o]
    BY <1>0, <1>8 DEF KeepThread, Lock, Goto, ContactTypeOK
  <2> QED BY <1>0, <1>d, <2>1, <2>2 DEF MergeSteps, MergeLocks, MergeInHand, rows, SamePerson, Exists
<1>9. CASE MoveRest(o)
  <2> DEFINE left == {m \in Messages : msgContact[m] = plan[o].source}
                       \ (plan[o].moved \cup plan[o].dropped)
  <2>1. OthersRest(o)
    BY <1>0, <1>9, ContactConstants DEF MoveRest, Lock, Goto, OthersRest, ContactTypeOK
  <2>2. /\ at[o] = "moved threads" /\ at'[o] = "moved rest" /\ UNCHANGED rows
        /\ locks'[o] = locks[o] \cup MessageRows(left)
    BY <1>0, <1>9 DEF MoveRest, Lock, Goto, ContactTypeOK
  <2>3. /\ plan'[o].source = plan[o].source /\ plan'[o].target = plan[o].target
        /\ plan'[o].from = plan[o].from /\ plan'[o].into = plan[o].into
        /\ plan'[o].moved = plan[o].moved /\ plan'[o].dropped = plan[o].dropped /\ plan'[o].rest = left
    BY <1>0, <1>9 DEF MoveRest, ContactTypeOK, Plans
  <2>4. MergeLocks(o)'
    <3>1. MessageRows(plan[o].moved \cup plan[o].dropped \cup plan[o].rest) \subseteq locks[o]
      BY <1>0 DEF MergeLocks
    <3>2. MessageRows(plan[o].moved \cup plan[o].dropped \cup left) \subseteq locks'[o]
      BY <2>2, <3>1 DEF MessageRows
    <3> QED BY <1>0, <2>2, <2>3, <3>2 DEF MergeLocks
  <2>5. MergeSteps(o)'
    BY <1>0, <2>2, <2>3 DEF MergeSteps
  <2>6. MergeInHand(o)'
    <3>1. \A m \in left : msgContact[m] = plan[o].source /\ plan[o].source # Nobody
      BY <1>0, <2>2, ContactConstants DEF MergeSteps
    <3> HIDE DEF left
    <3> QED BY <1>0, <1>d, <2>2, <2>3, <3>1 DEF MergeInHand, rows, SamePerson, Exists
  <2> QED BY <2>1, <2>4, <2>5, <2>6
<1> QED BY <1>1, <1>2, <1>3, <1>4, <1>5, <1>6, <1>7, <1>8, <1>9

(* A rollback lets go of everything and writes nothing. *)
LEMMA RollbackStep ==
    ASSUME ContactIInv, [ContactNext]_cvars, NEW p \in Processes, Rollback(p)
    PROVE  /\ OthersRest(p)
           /\ p \in Messages => MessageInHand(p)'
           /\ p \in Operators => MergeSteps(p)' /\ MergeLocks(p)' /\ MergeInHand(p)'
<1>1. OthersRest(p) /\ at'[p] = "idle"
  BY ContactConstants DEF ContactIInv, ContactTypeOK, Rollback, Goto, OthersRest
<1>2. p \in Messages => MessageInHand(p)'
  BY <1>1 DEF MessageInHand
<1>3. ASSUME p \in Operators PROVE MergeSteps(p)' /\ MergeLocks(p)' /\ MergeInHand(p)'
  <2>1. plan'[p] = NoPlan
    BY <1>3 DEF Rollback
  <2> QED BY <1>1, <2>1 DEF NoPlan, MergeSteps, MergeLocks, MergeInHand, MessageRows
<1> QED BY <1>1, <1>2, <1>3

-------------------------------------------------------------------------------
(* The commits.                                                              *)

(* A key share on a conversation and its deletion exclude each other, and so do two updates of a message. *)
LEMMA LocksConflict ==
    ASSUME LocksExclude, NEW p \in Processes, NEW q \in Processes, p # q
    PROVE  /\ \A t : <<"thread", t, ForUpdate>> \in locks[p] => <<"thread", t, KeyShare>> \notin locks[q]
           /\ \A m : <<"message", m, NoKeyUpdate>> \in locks[p]
                      => <<"message", m, NoKeyUpdate>> \notin locks[q]
BY DEF LocksExclude, Conflict, KeyShare, NoKeyUpdate, ForUpdate

(* The messages a merge changes are locked by it. *)
LEMMA RowsOf ==
    ASSUME NEW o, MergeLocks(o)
    PROVE  \A m \in plan[o].moved \cup plan[o].dropped \cup plan[o].rest :
               <<"message", m, NoKeyUpdate>> \in locks[o]
BY DEF MergeLocks, MessageRows

(* A message that commits is in a conversation of its person, its own when it created it, and disturbs nobody. *)
LEMMA CommitMessageStep ==
    ASSUME ContactIInv, ContactTypeOK', [ContactNext]_cvars, NEW m \in Messages, CommitMessage(m)
    PROVE  /\ StoredWhenDone' /\ ThreadsKeepCustomers'
           /\ \A n \in Messages : MessageInHand(n)'
           /\ \A o \in Operators : MergeSteps(o)' /\ MergeLocks(o)' /\ MergeInHand(o)'
<1> DEFINE c == who[m]
           thread == conv[m]
<1>0. /\ ContactTypeOK /\ LocksExclude /\ StoredWhenDone /\ ThreadsKeepCustomers
      /\ \A n \in Messages : MessageInHand(n) /\ n \in Processes
      /\ \A o \in Operators : /\ MergeSteps(o) /\ MergeLocks(o) /\ MergeInHand(o)
                              /\ plan[o] \in Plans /\ o \in Processes /\ o # m
      /\ \A p \in Processes : at[p] = "done" => at'[p] = "done"
  BY ContactConstants, DoneStays DEF ContactIInv, ContactTypeOK
<1>1. /\ at[m] = "inserted" /\ at'[m] = "done" /\ OthersRest(m)
      /\ UNCHANGED <<history, plan>>
  BY <1>0, ContactConstants DEF CommitMessage, Goto, OthersRest, ContactTypeOK
<1>2. /\ c \in Contacts /\ c # Nobody /\ thread \in Threads /\ thread # Nobody
      /\ thread # m => Exists(thread) /\ SamePerson(c, holder[thread])
      /\ <<"thread", thread, KeyShare>> \in locks[m]
  BY <1>0, <1>1, ContactConstants DEF MessageInHand
<1>3. \A t \in Threads : Exists(t) => t # m /\ holder'[t] = holder[t] /\ Exists(t)'
  BY <1>0, <1>1 DEF CommitMessage, StoredWhenDone, Exists
<1>4. \A t \in Threads : t # m => holder'[t] = holder[t]
  BY DEF CommitMessage
<1>5. /\ inThread'[m] = thread /\ msgContact'[m] = c
      /\ \A n \in Messages : n # m => inThread'[n] = inThread[n] /\ msgContact'[n] = msgContact[n]
      /\ thread = m => holder'[m] = c
  BY <1>0, <1>2 DEF CommitMessage, ContactTypeOK
<1>6. StoredWhenDone'
  <2>1. \A n \in Messages : inThread'[n] # Nobody \/ msgContact'[n] # Nobody => at'[n] = "done"
    BY <1>0, <1>1, <1>5 DEF StoredWhenDone
  <2>2. \A t \in Threads : Exists(t)' => at'[t] = "done"
    BY <1>0, <1>1, <1>4, ContactConstants DEF StoredWhenDone, Exists
  <2> QED BY <2>1, <2>2 DEF StoredWhenDone
<1>7. ThreadsKeepCustomers'
  <2> SUFFICES ASSUME NEW n \in Messages, inThread'[n] # Nobody
               PROVE  Exists(inThread[n])' /\ SamePerson(msgContact[n], holder[inThread[n]])'
    BY DEF ThreadsKeepCustomers
  <2>1. CASE n # m
    <3>1. /\ inThread[n] \in Threads /\ inThread'[n] = inThread[n] /\ msgContact'[n] = msgContact[n]
          /\ Exists(inThread[n]) /\ SamePerson(msgContact[n], holder[inThread[n]])
      BY <1>0, <1>5, <2>1 DEF ThreadsKeepCustomers, ContactTypeOK
    <3> QED BY <1>1, <1>3, <3>1 DEF SamePerson
  <2>2. CASE n = m /\ thread = m
    <3>1. holder'[m] = c /\ inThread'[m] = m /\ msgContact'[m] = c
      BY <1>5, <2>2
    <3>2. Linked(history', c, c)
      BY LinkedReflexive
    <3> QED BY <1>2, <2>2, <3>1, <3>2 DEF Exists, SamePerson
  <2>3. CASE n = m /\ thread # m
    BY <1>1, <1>2, <1>3, <1>5, <2>3 DEF SamePerson
  <2> QED BY <2>1, <2>2, <2>3
<1>8. ASSUME NEW n \in Messages PROVE MessageInHand(n)'
  <2>1. CASE n = m
    BY <1>1, <2>1 DEF MessageInHand
  <2>2. CASE n # m
    <3>1. /\ MessageInHand(n) /\ at'[n] = at[n] /\ who'[n] = who[n] /\ conv'[n] = conv[n]
          /\ locks'[n] = locks[n]
      BY <1>0, <1>1, <2>2 DEF OthersRest
    <3>2. \A t \in Threads : at[t] = "done" => at'[t] = "done" /\ holder'[t] = holder[t]
      BY <1>0, <1>1, <1>4, ContactConstants
    <3> QED BY <1>1, <3>1, <3>2 DEF MessageInHand, Exists, SamePerson
  <2> QED BY <2>1, <2>2
<1>9. ASSUME NEW o \in Operators PROVE MergeSteps(o)' /\ MergeLocks(o)' /\ MergeInHand(o)'
  <2>1. at'[o] = at[o] /\ plan'[o] = plan[o] /\ locks'[o] = locks[o]
    BY <1>0, <1>1 DEF OthersRest
  <2>2. MergeSteps(o) /\ MergeLocks(o) /\ MergeInHand(o) /\ plan[o] \in Plans
    BY <1>0
  <2>3. MergeSteps(o)' /\ MergeLocks(o)'
    <3>1. MergeSteps(o)'
      BY ONLY <2>1, <2>2 DEF MergeSteps
    <3>2. MergeLocks(o)'
      BY ONLY <2>1, <2>2 DEF MergeLocks
    <3> QED BY <3>1, <3>2
  <2>4. \A t \in Threads : at[t] = "done" => at'[t] = "done" /\ holder'[t] = holder[t]
    BY <1>0, <1>1, <1>4, ContactConstants
  <2>5. \A n \in plan[o].rest : n # m
    <3>1. \A n \in plan[o].rest : n \in Messages /\ msgContact[n] # Nobody
      BY <2>2 DEF MergeInHand, Plans
    <3> QED BY <1>0, <1>1, <3>1 DEF StoredWhenDone
  <2>6. at[o] \in {"moved threads", "moved rest"} /\ plan[o].from # Nobody => thread # plan[o].from
    BY <1>0, <1>2, <2>2, LocksConflict DEF MergeLocks
  <2>7. plan[o].into # Nobody => plan[o].from # Nobody
    BY <2>2 DEF MergeSteps
  <2>8. \A n \in plan[o].moved : at'[n] = "done"
    BY <1>0, <2>2 DEF MergeInHand, Plans
  <2>9. MergeInHand(o)'
    <3>1. plan[o].from # Nobody =>
            /\ at'[plan[o].from] = "done"
            /\ Exists(plan[o].from)' => SamePerson(plan[o].source, holder[plan[o].from])'
      BY <1>1, <2>1, <2>2, <2>4 DEF MergeInHand, Plans, Exists, SamePerson
    <3>2. plan[o].into # Nobody =>
            /\ at'[plan[o].into] = "done"
            /\ Exists(plan[o].into)' => SamePerson(plan[o].target, holder[plan[o].into])'
      BY <1>1, <2>1, <2>2, <2>4 DEF MergeInHand, Plans, Exists, SamePerson
    <3>3. plan[o].moved # {} => Exists(plan[o].into)'
      BY <1>3, <2>1, <2>2, ContactConstants DEF MergeInHand, Plans, MergeSteps
    <3>4. \A n \in plan[o].rest : msgContact'[n] = plan[o].source /\ plan[o].source # Nobody
      <4>1. \A n \in plan[o].rest : n \in Messages /\ msgContact[n] = plan[o].source /\ plan[o].source # Nobody
        BY <2>2 DEF MergeInHand, Plans
      <4> QED BY <1>5, <2>5, <4>1
    <3>5. at[o] \in {"moved threads", "moved rest"} /\ plan[o].into # Nobody =>
            \A n \in Messages : inThread'[n] = plan[o].from => n \in plan[o].moved \cup plan[o].dropped
      BY <1>5, <2>2, <2>6, <2>7 DEF MergeInHand
    <3> QED BY <2>1, <2>8, <3>1, <3>2, <3>3, <3>4, <3>5 DEF MergeInHand, Exists, SamePerson
  <2> QED BY <2>3, <2>9
<1> QED BY <1>6, <1>7, <1>8, <1>9

(* A merge that commits takes messages and conversations along with the person, and disturbs nobody. *)
LEMMA CommitMergeStep ==
    ASSUME ContactIInv, ContactTypeOK', [ContactNext]_cvars, NEW o \in Operators, CommitMerge(o)
    PROVE  /\ StoredWhenDone' /\ ThreadsKeepCustomers'
           /\ \A m \in Messages : MessageInHand(m)'
           /\ \A q \in Operators : MergeSteps(q)' /\ MergeLocks(q)' /\ MergeInHand(q)'
<1> DEFINE source == plan[o].source
           target == plan[o].target
           from == plan[o].from
           into == plan[o].into
           moved == plan[o].moved
           dropped == plan[o].dropped
           rest == plan[o].rest
<1>0. /\ ContactTypeOK /\ LocksExclude /\ StoredWhenDone /\ ThreadsKeepCustomers
      /\ \A m \in Messages : MessageInHand(m) /\ m \in Processes /\ m # o
      /\ \A q \in Operators : /\ MergeSteps(q) /\ MergeLocks(q) /\ MergeInHand(q)
                              /\ plan[q] \in Plans /\ q \in Processes
      /\ \A p \in Processes : at[p] = "done" => at'[p] = "done"
  BY ContactConstants, DoneStays DEF ContactIInv, ContactTypeOK
<1>1. /\ at[o] = "moved rest" /\ at'[o] = "done" /\ OthersRest(o)
      /\ plan'[o] = NoPlan /\ UNCHANGED <<who, conv>>
  BY <1>0, ContactConstants DEF CommitMerge, Goto, OthersRest, ContactTypeOK
<1>2. /\ from \in Threads \cup {Nobody} /\ into \in Threads \cup {Nobody}
      /\ moved \subseteq Messages /\ dropped \subseteq Messages /\ rest \subseteq Messages
      /\ {source, target} \subseteq Contacts /\ target # Nobody
      /\ into # Nobody => from # Nobody /\ into # from
      /\ into = Nobody => moved = {} /\ dropped = {}
  BY <1>0, <1>1, ContactConstants DEF MergeSteps, Plans
<1>3. /\ from # Nobody /\ Exists(from) => SamePerson(source, holder[from])
      /\ into # Nobody /\ Exists(into) => SamePerson(target, holder[into])
      /\ moved # {} => Exists(into)
      /\ \A m \in moved : at[m] = "done"
      /\ \A m \in rest : msgContact[m] = source /\ at[m] = "done"
      /\ into # Nobody => \A m \in Messages : inThread[m] = from => m \in moved \cup dropped
  <2>1. \A m \in rest : msgContact[m] = source /\ source # Nobody
    BY <1>0 DEF MergeInHand
  <2>2. \A m \in rest : at[m] = "done"
    BY <1>0, <1>2, <2>1 DEF StoredWhenDone
  <2> QED BY <1>0, <1>1, <2>1, <2>2 DEF MergeInHand
<1>4. /\ from # Nobody => <<"thread", from, ForUpdate>> \in locks[o]
      /\ moved # {} => <<"thread", into, KeyShare>> \in locks[o]
      /\ \A m \in moved \cup dropped \cup rest : <<"message", m, NoKeyUpdate>> \in locks[o]
  BY <1>0, <1>1, RowsOf DEF MergeLocks
<1>5. /\ \A t \in Threads : t # from => holder'[t] = holder[t]
      /\ from # Nobody => /\ ~Exists(from) => holder'[from] = Nobody
                          /\ Exists(from) /\ into = Nobody => holder'[from] = target
                          /\ Exists(from) /\ into # Nobody => holder'[from] = Nobody
  BY <1>2 DEF CommitMerge, Exists
<1>6. /\ \A m \in Messages : m \notin moved \cup dropped \cup rest =>
              inThread'[m] = inThread[m] /\ msgContact'[m] = msgContact[m]
      /\ \A m \in Messages : m \in moved => inThread'[m] = into /\ msgContact'[m] = target
      /\ \A m \in Messages : m \in dropped /\ m \notin moved => inThread'[m] = Nobody
      /\ \A m \in Messages : m \in dropped /\ m \notin moved \cup rest => msgContact'[m] = Nobody
      /\ \A m \in Messages : m \in rest /\ m \notin moved \cup dropped =>
              inThread'[m] = inThread[m] /\ msgContact'[m] = target
  BY DEF CommitMerge
<1>7. /\ \A c, d : SamePerson(c, d) => Linked(history', c, d)
      /\ Linked(history', source, target)
  <2>1. history' = history \cup {<<source, target>>}
    BY DEF CommitMerge
  <2>2. history \subseteq history'
    BY <2>1
  <2>3. \A c, d : SamePerson(c, d) => Linked(history', c, d)
    BY <2>2, LinkedGrows DEF SamePerson
  <2>4. Linked(history', source, target)
    BY <2>1, LinkedByMerge
  <2> QED BY <2>3, <2>4
\* Who was of the person of a conversation still is.
<1>8. ASSUME NEW t \in Threads, Exists(t)', NEW c, SamePerson(c, holder[t])
      PROVE  Exists(t) /\ Linked(history', c, holder'[t])
  <2>1. CASE t # from
    BY <1>5, <1>7, <1>8, <2>1 DEF Exists
  <2>2. CASE t = from
    <3>1. from # Nobody /\ Exists(from) /\ into = Nobody /\ holder'[t] = target
      BY <1>5, <1>8, <2>2, ContactConstants DEF Exists
    <3>2. Linked(history', source, holder[t]) /\ Linked(history', c, holder[t])
      BY <1>3, <1>7, <1>8, <2>2, <3>1
    <3>3. Linked(history', c, source)
      BY <3>2, LinkedSymmetric, LinkedTransitive
    <3>4. Linked(history', c, target)
      BY <1>7, <3>3, LinkedTransitive
    <3> QED BY <2>2, <3>1, <3>4
  <2> QED BY <2>1, <2>2
<1>9. \A t \in Threads : Exists(t)' => Exists(t)
  BY <1>5, ContactConstants DEF Exists
<1> HIDE DEF source, target, from, into, moved, dropped, rest
<1>10. StoredWhenDone'
  <2>1. ASSUME NEW m \in Messages, inThread'[m] # Nobody \/ msgContact'[m] # Nobody
        PROVE  at'[m] = "done"
    <3>1. at[m] = "done"
      BY <1>0, <1>3, <1>6, <2>1 DEF StoredWhenDone
    <3> QED BY <1>0, <3>1
  <2>2. \A t \in Threads : Exists(t)' => at'[t] = "done"
    BY <1>0, <1>9, ContactConstants DEF StoredWhenDone
  <2> QED BY <2>1, <2>2 DEF StoredWhenDone
<1>11. ThreadsKeepCustomers'
  <2> SUFFICES ASSUME NEW m \in Messages, inThread'[m] # Nobody
               PROVE  holder'[inThread'[m]] # Nobody
                      /\ Linked(history', msgContact'[m], holder'[inThread'[m]])
    BY DEF ThreadsKeepCustomers, Exists, SamePerson
  <2>1. CASE m \in moved
    <3>1. into # Nobody /\ Exists(into) /\ into \in Threads /\ into # from
      BY <1>2, <1>3, <2>1
    <3>2. holder'[into] = holder[into] /\ Linked(history', target, holder[into])
      BY <1>3, <1>5, <1>7, <3>1
    <3> QED BY <1>6, <2>1, <3>1, <3>2 DEF Exists
  <2>2. CASE m \notin moved
    <3>1. m \notin dropped /\ inThread'[m] = inThread[m] /\ inThread[m] # Nobody
      BY <1>6, <2>2
    <3>2. inThread[m] \in Threads
      BY <1>0, <3>1 DEF ContactTypeOK
    <3>3. Exists(inThread[m]) /\ SamePerson(msgContact[m], holder[inThread[m]])
      BY <1>0, <3>1 DEF ThreadsKeepCustomers
    <3>4. Exists(inThread[m])' => holder'[inThread'[m]] # Nobody
      BY <3>1 DEF Exists
    <3>5. holder'[inThread[m]] # Nobody
      BY <1>2, <1>3, <1>5, <2>2, <3>1, <3>2, <3>3, ContactConstants DEF Exists
    <3>6. Linked(history', msgContact[m], holder'[inThread[m]])
      BY <1>8, <3>1, <3>2, <3>3, <3>5 DEF Exists
    <3>7. CASE m \in rest
      <4>1. msgContact[m] = source /\ msgContact'[m] = target
        BY <1>3, <1>6, <2>2, <3>1, <3>7
      <4>2. Linked(history', target, source)
        BY <1>7, LinkedSymmetric
      <4> QED BY <3>1, <3>5, <3>6, <4>1, <4>2, LinkedTransitive
    <3>8. CASE m \notin rest
      BY <1>6, <2>2, <3>1, <3>5, <3>6, <3>8
    <3> QED BY <3>7, <3>8
  <2> QED BY <2>1, <2>2
<1>12. ASSUME NEW m \in Messages PROVE MessageInHand(m)'
  <2>1. /\ MessageInHand(m) /\ at'[m] = at[m] /\ who'[m] = who[m] /\ conv'[m] = conv[m]
        /\ locks'[m] = locks[m] /\ m \in Processes /\ o \in Processes /\ m # o
    BY <1>0, <1>1 DEF OthersRest
  <2>2. ASSUME at[m] \in {"threaded", "inserted"}, conv[m] # m
        PROVE  /\ conv[m] \in Threads /\ at'[conv[m]] = "done"
               /\ Exists(conv[m])' => Linked(history', who[m], holder'[conv[m]])
               /\ at[m] = "inserted" => Exists(conv[m])'
    <3>1. /\ conv[m] \in Threads /\ at[conv[m]] = "done"
          /\ Exists(conv[m]) => SamePerson(who[m], holder[conv[m]])
          /\ at[m] = "inserted" => Exists(conv[m]) /\ <<"thread", conv[m], KeyShare>> \in locks[m]
      BY <2>1, <2>2 DEF MessageInHand
    <3>2. at'[conv[m]] = "done"
      BY <1>0, <3>1, ContactConstants
    <3>3. holder'[conv[m]] # Nobody => Linked(history', who[m], holder'[conv[m]])
      BY <1>8, <1>9, <3>1 DEF Exists
    <3>4. at[m] = "inserted" => conv[m] # from
      BY <1>0, <1>4, <2>1, <3>1, LocksConflict, ContactConstants
    <3>5. at[m] = "inserted" => holder'[conv[m]] # Nobody
      BY <1>5, <3>1, <3>4 DEF Exists
    <3> QED BY <2>1, <3>1, <3>2, <3>3, <3>5 DEF Exists
  <2> QED BY <2>1, <2>2 DEF MessageInHand, Exists, SamePerson
<1>13. MergeSteps(o)' /\ MergeLocks(o)' /\ MergeInHand(o)'
  <2>1. at'[o] = "done" /\ plan'[o] = NoPlan
    BY <1>1
  <2> QED BY ONLY <2>1 DEF NoPlan, MergeSteps, MergeLocks, MergeInHand, MessageRows
<1>14. ASSUME NEW q \in Operators, q # o PROVE MergeSteps(q)' /\ MergeLocks(q)' /\ MergeInHand(q)'
  <2>1. /\ at'[q] = at[q] /\ plan'[q] = plan[q] /\ locks'[q] = locks[q]
        /\ q \in Processes /\ o \in Processes
    BY <1>0, <1>1, <1>14 DEF OthersRest
  <2>2. MergeSteps(q) /\ MergeLocks(q) /\ MergeInHand(q) /\ plan[q] \in Plans
    BY <1>0
  <2>3. MergeSteps(q)' /\ MergeLocks(q)'
    <3>1. MergeSteps(q)'
      BY ONLY <2>1, <2>2 DEF MergeSteps
    <3>2. MergeLocks(q)'
      BY ONLY <2>1, <2>2 DEF MergeLocks
    <3> QED BY <3>1, <3>2
  <2>4. plan[q].from # Nobody =>
          /\ at'[plan[q].from] = "done"
          /\ holder'[plan[q].from] # Nobody => Linked(history', plan[q].source, holder'[plan[q].from])
    <3> SUFFICES ASSUME plan[q].from # Nobody
                 PROVE  /\ at'[plan[q].from] = "done"
                        /\ holder'[plan[q].from] # Nobody
                             => Linked(history', plan[q].source, holder'[plan[q].from])
      OBVIOUS
    <3>1. /\ plan[q].from \in Threads /\ at[plan[q].from] = "done"
          /\ Exists(plan[q].from) => SamePerson(plan[q].source, holder[plan[q].from])
      BY <2>2 DEF MergeInHand, Plans
    <3> QED BY <1>0, <1>8, <1>9, <3>1, ContactConstants DEF Exists
  <2>5. plan[q].into # Nobody =>
          /\ at'[plan[q].into] = "done"
          /\ holder'[plan[q].into] # Nobody => Linked(history', plan[q].target, holder'[plan[q].into])
    <3> SUFFICES ASSUME plan[q].into # Nobody
                 PROVE  /\ at'[plan[q].into] = "done"
                        /\ holder'[plan[q].into] # Nobody
                             => Linked(history', plan[q].target, holder'[plan[q].into])
      OBVIOUS
    <3>1. /\ plan[q].into \in Threads /\ at[plan[q].into] = "done"
          /\ Exists(plan[q].into) => SamePerson(plan[q].target, holder[plan[q].into])
      BY <2>2 DEF MergeInHand, Plans
    <3> QED BY <1>0, <1>8, <1>9, <3>1, ContactConstants DEF Exists
  <2>6. plan[q].moved # {} => holder'[plan[q].into] # Nobody
    <3> SUFFICES ASSUME plan[q].moved # {} PROVE holder'[plan[q].into] # Nobody
      OBVIOUS
    <3>1. plan[q].into \in Threads /\ Exists(plan[q].into) /\ <<"thread", plan[q].into, KeyShare>> \in locks[q]
      BY <2>2 DEF MergeInHand, MergeSteps, MergeLocks, Plans
    <3>2. plan[q].into # from
      BY <1>0, <1>4, <1>14, <2>1, <3>1, LocksConflict, ContactConstants
    <3> QED BY <1>5, <3>1, <3>2 DEF Exists
  <2>7. \A m \in plan[q].moved : at'[m] = "done"
    BY <1>0, <2>2 DEF MergeInHand, Plans
  <2>8. \A m \in plan[q].rest : msgContact'[m] = plan[q].source /\ plan[q].source # Nobody
    <3> SUFFICES ASSUME NEW m \in plan[q].rest
                 PROVE  msgContact'[m] = plan[q].source /\ plan[q].source # Nobody
      OBVIOUS
    <3>1. m \in Messages /\ msgContact[m] = plan[q].source /\ plan[q].source # Nobody
      BY <2>2 DEF MergeInHand, Plans
    <3>2. <<"message", m, NoKeyUpdate>> \in locks[q]
      BY <2>2, RowsOf
    <3>3. m \notin moved \cup dropped \cup rest
      BY <1>0, <1>4, <1>14, <2>1, <3>2, LocksConflict
    <3> QED BY <1>6, <3>1, <3>3
  <2>9. at[q] \in {"moved threads", "moved rest"} /\ plan[q].into # Nobody =>
          \A m \in Messages : inThread'[m] = plan[q].from => m \in plan[q].moved \cup plan[q].dropped
    <3> SUFFICES ASSUME at[q] \in {"moved threads", "moved rest"}, plan[q].into # Nobody,
                        NEW m \in Messages, inThread'[m] = plan[q].from
                 PROVE  m \in plan[q].moved \cup plan[q].dropped
      OBVIOUS
    <3>1. /\ plan[q].from # Nobody /\ <<"thread", plan[q].from, ForUpdate>> \in locks[q]
          /\ inThread[m] = plan[q].from => m \in plan[q].moved \cup plan[q].dropped
      BY <2>2 DEF MergeInHand, MergeSteps, MergeLocks
    <3>2. moved # {} => plan[q].from # into
      BY <1>0, <1>4, <1>14, <2>1, <3>1, LocksConflict
    <3>3. inThread'[m] = inThread[m]
      BY <1>6, <3>1, <3>2
    <3> QED BY <3>1, <3>3
  <2>10. MergeInHand(q)'
    BY <2>1, <2>4, <2>5, <2>6, <2>7, <2>8, <2>9 DEF MergeInHand, Exists, SamePerson
  <2> QED BY <2>3, <2>10
<1> QED BY <1>10, <1>11, <1>12, <1>13, <1>14

-------------------------------------------------------------------------------
(* Every step keeps the invariant. *)
LEMMA ContactStepInv == ContactIInv /\ [ContactNext]_cvars => ContactIInv'
<1> SUFFICES ASSUME ContactIInv, [ContactNext]_cvars PROVE ContactIInv'
  OBVIOUS
<1>1. ContactTypeOK' /\ LocksExclude'
  BY ContactTypeStep, LocksExcludeStep DEF ContactIInv
<1>2. ASSUME NEW m \in Messages, CommitMessage(m) PROVE ContactIInv'
  BY <1>1, <1>2, CommitMessageStep DEF ContactIInv
<1>3. ASSUME NEW o \in Operators, CommitMerge(o) PROVE ContactIInv'
  BY <1>1, <1>3, CommitMergeStep DEF ContactIInv
<1>4. CASE UNCHANGED rows
  <2>1. StoredWhenDone' /\ ThreadsKeepCustomers'
    BY <1>4, QuietStored, QuietThreads DEF ContactIInv
  <2>2. ASSUME NEW p \in Processes, OthersRest(p),
               p \in Messages => MessageInHand(p)',
               p \in Operators => MergeSteps(p)' /\ MergeLocks(p)' /\ MergeInHand(p)'
        PROVE  ContactIInv'
    BY <1>1, <1>4, <2>1, <2>2, QuietOthers DEF ContactIInv
  <2>3. ASSUME NEW m \in Messages, OthersRest(m), MessageInHand(m)' PROVE ContactIInv'
    BY <2>2, <2>3, ContactConstants
  <2>4. ASSUME NEW o \in Operators, OthersRest(o), MergeSteps(o)', MergeLocks(o)', MergeInHand(o)'
        PROVE  ContactIInv'
    BY <2>2, <2>4, ContactConstants
  <2>5. CASE UNCHANGED cvars
    <3>1. PICK p : p \notin Processes
      BY NoSetContainsEverything
    <3>2. OthersRest(p)
      BY <2>5 DEF cvars, OthersRest
    <3> QED BY <1>1, <1>4, <2>1, <3>1, <3>2, QuietOthers, ContactConstants DEF ContactIInv
  <2>6. ASSUME NEW m \in Received, \/ FindIdentity(m) \/ FindByPhone(m) \/ Anchor(m) \/ CreateContact(m)
                                   \/ UpsertJid(m) \/ FindThread(m) \/ OpenThread(m)
        PROVE  ContactIInv'
    BY <2>3, <2>6, MessageSteps, ContactConstants
  <2>7. ASSUME NEW m \in Sent, NEW t \in Threads, StartSend(m, t) PROVE ContactIInv'
    BY <2>3, <2>7, MessageSteps, ContactConstants
  <2>8. ASSUME NEW m \in Messages, InsertIntoThread(m) PROVE ContactIInv'
    BY <2>3, <2>8, MessageSteps
  <2>9. ASSUME NEW o \in Operators,
               \/ \E a, b \in Contacts : StartMerge(o, a, b)
               \/ MoveIdentities(o) \/ SelectThread(o) \/ SelectTarget(o) \/ MoveMessages(o) \/ FoldThread(o)
               \/ DeleteThread(o) \/ KeepThread(o) \/ MoveRest(o)
        PROVE  ContactIInv'
    BY <2>4, <2>9, MergeReads
  <2>10. ASSUME NEW p \in Processes, Rollback(p) PROVE ContactIInv'
    BY <2>2, <2>10, RollbackStep
  <2> QED BY <1>2, <1>3, <2>5, <2>6, <2>7, <2>8, <2>9, <2>10, ContactSteps
<1> QED BY <1>2, <1>3, <1>4, OnlyCommitsWrite

(* The invariant holds however ingestions, sends and merges interleave and fail. *)
THEOREM ContactInductive == ContactSpec => []ContactIInv
<1> QED BY ContactInitInv, ContactStepInv, PTL DEF ContactSpec

(* Messages stay with the person they were exchanged with, whatever is merged meanwhile. *)
THEOREM ContactsKeepThreads == ContactSpec => []ThreadsKeepCustomers
<1>1. ContactIInv => ThreadsKeepCustomers
  BY DEF ContactIInv
<1> QED BY <1>1, ContactInductive, PTL

===============================================================================
