-------------------------- MODULE SocialInbox_proofs --------------------------
(****************************************************************************)
(* What holds of the social inbox for any number of customers, messages,     *)
(* replies, workers, events and faults.                                      *)
(****************************************************************************)
EXTENDS SocialInbox, TLAPS

(* The constants as the proofs use them. *)
LEMMA SocialConstants ==
    /\ MaxRows \in Nat /\ MaxFaults \in Nat
    /\ Unsupported \notin Mids /\ NoEvent \notin Mids /\ NoEvent # Unsupported
    /\ \A m \in Mids : ProfileOf[m] \in Profiles
    /\ Replies \subseteq Mids /\ Incoming \subseteq Mids
    /\ Rows \subseteq Nat /\ 0 \notin Rows
BY SocialAssumption DEF SocialAssumption, Mids, Rows

(* The tables are empty and every process is idle. *)
LEMMA SocialInitInv == SocialInit => SocialIInv
<1> SUFFICES ASSUME SocialInit PROVE SocialIInv
  OBVIOUS
<1> USE SocialConstants DEF SocialInit, NoContact
<1>1. SocialTypeOK
  BY DEF SocialTypeOK, Mids
<1>2. WorkInv
  BY DEF WorkInv, InTransaction
<1>3. LockInv
  BY DEF LockInv, InTransaction, HoldsIdentity, HoldsThread, Uncommitted
<1>4. DataInv
  BY DEF DataInv, InTransaction, Uncommitted
<1>5. IdentityOwnsThread /\ RepliesAreStored
  BY DEF IdentityOwnsThread, RepliesAreStored
<1> QED
  BY <1>1, <1>2, <1>3, <1>4, <1>5 DEF SocialIInv

(* Every step of a worker, a request or Postgres keeps the types. *)
LEMMA TypeStep == SocialIInv /\ [SocialNext]_svars => SocialTypeOK'
<1> SUFFICES ASSUME SocialIInv, [SocialNext]_svars PROVE SocialTypeOK'
  OBVIOUS
<1> USE SocialConstants DEF dbVars, workVars, ApplyEvent, Mid, SocialIInv, SocialTypeOK, WorkInv, InTransaction, Uncommitted, NoContact, Oldest,
            StoredAfter, IdentityAfter, Profile
<1>1. ASSUME NEW m \in Mids \cup {Unsupported}, Deliver(m) PROVE SocialTypeOK'
  BY <1>1 DEF Deliver
<1>2. ASSUME NEW w \in Workers, ClaimBatch(w) PROVE SocialTypeOK'
  BY <1>2 DEF ClaimBatch
<1>3. ASSUME NEW w \in Workers, FindContact(w) PROVE SocialTypeOK'
  BY <1>3 DEF FindContact
<1>4. ASSUME NEW w \in Workers, UpsertIdentity(w) PROVE SocialTypeOK'
  BY <1>4 DEF UpsertIdentity
<1>5. ASSUME NEW w \in Workers, UpsertConversation(w) PROVE SocialTypeOK'
  BY <1>5 DEF UpsertConversation
<1>6. ASSUME NEW w \in Workers, InsertMessage(w) PROVE SocialTypeOK'
  BY <1>6 DEF InsertMessage
<1>7. ASSUME NEW w \in Workers, CommitEvent(w) PROVE SocialTypeOK'
  BY <1>7 DEF CommitEvent
<1>8. ASSUME NEW w \in Workers, MarkFailed(w) PROVE SocialTypeOK'
  BY <1>8 DEF MarkFailed
<1>9. ASSUME NEW w \in Workers, CommitAnswerLost(w) PROVE SocialTypeOK'
  BY <1>9 DEF CommitAnswerLost
<1>10. ASSUME NEW w \in Workers, TransactionFails(w) PROVE SocialTypeOK'
  BY <1>10 DEF TransactionFails
<1>11. ASSUME NEW w \in Workers, MarkFails(w) PROVE SocialTypeOK'
  BY <1>11 DEF MarkFails
<1>12. ASSUME NEW w \in Workers, Crash(w) PROVE SocialTypeOK'
  BY <1>12 DEF Crash
<1>13. ASSUME NEW w \in Workers, NEW r \in Rows, IgnoreUnsupported(w, r) PROVE SocialTypeOK'
  BY <1>13 DEF IgnoreUnsupported
<1>14. ASSUME NEW w \in Workers, NEW r \in Rows, IgnoreFails(w, r) PROVE SocialTypeOK'
  BY <1>14 DEF IgnoreFails
<1>15. ASSUME NEW w \in Workers, NEW r \in Rows, IgnoreDuplicate(w, r) PROVE SocialTypeOK'
  BY <1>15 DEF IgnoreDuplicate
<1>16. ASSUME NEW w \in Workers, NEW r \in Rows, TakeKey(w, r) PROVE SocialTypeOK'
  BY <1>16 DEF TakeKey
<1>17. ASSUME NEW w \in Workers, NEW r \in Rows, BeginFails(w, r) PROVE SocialTypeOK'
  BY <1>17 DEF BeginFails
<1>18. ASSUME NEW q \in Replies, InsertReply(q) PROVE SocialTypeOK'
  BY <1>18 DEF InsertReply
<1>19. ASSUME NEW q \in Replies, ReplyConflicts(q) PROVE SocialTypeOK'
  BY <1>19 DEF ReplyConflicts
<1>20. ASSUME NEW q \in Replies, BumpReply(q) PROVE SocialTypeOK'
  BY <1>20 DEF BumpReply
<1>21. ASSUME NEW q \in Replies, CommitReply(q) PROVE SocialTypeOK'
  BY <1>21 DEF CommitReply
<1>22. ASSUME NEW q \in Replies, Ask(q) PROVE SocialTypeOK'
  BY <1>22 DEF Ask
<1>23. ASSUME NEW q \in Replies, MetaAccepts(q) PROVE SocialTypeOK'
  BY <1>23 DEF MetaAccepts
<1>24. ASSUME NEW q \in Replies, MetaRefuses(q) PROVE SocialTypeOK'
  BY <1>24 DEF MetaRefuses
<1>25. ASSUME NEW q \in Replies, AnswerLost(q) PROVE SocialTypeOK'
  BY <1>25 DEF AnswerLost
<1>26. ASSUME NEW q \in Replies, RequestFails(q) PROVE SocialTypeOK'
  BY <1>26 DEF RequestFails
<1>27. ASSUME NEW w \in Workers, NEW q \in Replies, AbortWorker(w, q) PROVE SocialTypeOK'
  BY <1>27 DEF AbortWorker
<1>28. ASSUME NEW w \in Workers, NEW q \in Replies, AbortReply(w, q) PROVE SocialTypeOK'
  BY <1>28 DEF AbortReply
<1>29. CASE UNCHANGED svars
  BY <1>29 DEF svars
<1> HIDE DEF dbVars, workVars, ApplyEvent, Mid, SocialIInv, SocialTypeOK, WorkInv, InTransaction, Uncommitted, NoContact, Oldest,
            StoredAfter, IdentityAfter, Profile
<1> QED
  BY <1>1, <1>2, <1>3, <1>4, <1>5, <1>6, <1>7, <1>8, <1>9, <1>10, <1>11, <1>12,
     <1>13, <1>14, <1>15, <1>16, <1>17, <1>18, <1>19, <1>20, <1>21, <1>22,
     <1>23, <1>24, <1>25, <1>26, <1>27, <1>28, <1>29
  DEF SocialNext, WorkerStep, ReplyStep, Abort

(* No step gives a row to two workers or leaves one with a row that is closed. *)
LEMMA WorkStep == SocialIInv /\ [SocialNext]_svars => WorkInv'
<1> SUFFICES ASSUME SocialIInv, [SocialNext]_svars PROVE WorkInv'
  OBVIOUS
<1> USE SocialConstants DEF dbVars, workVars, ApplyEvent, Mid, SocialIInv, SocialTypeOK, WorkInv, DataInv, InTransaction, Deadlocked
<1>1. ASSUME NEW m \in Mids \cup {Unsupported}, Deliver(m) PROVE WorkInv'
  BY <1>1 DEF Deliver
<1>2. ASSUME NEW w \in Workers, ClaimBatch(w) PROVE WorkInv'
  <2> DEFINE open == {r \in Rows : status[r] = "pending"}
  <2>1. Oldest(open) \subseteq open /\ open \subseteq Rows
    BY DEF Oldest
  <2>2. /\ batch' = [batch EXCEPT ![w] = Oldest(open)]
        /\ \A r \in Rows : status'[r] = IF r \in Oldest(open) THEN "processing" ELSE status[r]
        /\ UNCHANGED <<event, pc, row>> /\ pc[w] = "idle"
    BY <1>2 DEF ClaimBatch
  <2>3. \A v \in Workers :
            /\ \A r \in batch[v] : r \in Rows /\ status[r] = "processing" /\ r # row[v] /\ r \notin open
            /\ pc[v] # "idle" => row[v] \in Rows /\ row[v] \notin open
            /\ pc[v] = "idle" => row[v] = 0
    OBVIOUS
  <2>4. row[w] = 0
    BY <2>2
  <2> HIDE DEF open, WorkInv, DataInv, SocialTypeOK
  <2>5. \A r \in Rows : r \notin open => status'[r] = status[r]
    BY <2>1, <2>2
  <2>6. batch'[w] = Oldest(open) /\ \A v \in Workers : v # w => batch'[v] = batch[v]
    BY <2>2 DEF SocialTypeOK
  <2>7. \A v \in Workers : \A r \in batch'[v] : status'[r] = "processing" /\ r # row[v]
    <3>1. ASSUME NEW r \in batch'[w] PROVE status'[r] = "processing" /\ r # row[w]
      BY <3>1, <2>1, <2>2, <2>4, <2>6
    <3>2. ASSUME NEW v \in Workers, v # w, NEW r \in batch'[v]
          PROVE  status'[r] = "processing" /\ r # row[v]
      BY <3>2, <2>3, <2>5, <2>6
    <3> QED
      BY <3>1, <3>2
  <2>8. \A u, v \in Workers : u # v => batch'[u] \cap batch'[v] = {} /\ row[u] \notin batch'[v]
    <3>1. \A u, v \in Workers : u # v => batch[u] \cap batch[v] = {} /\ row[u] \notin batch[v]
      BY DEF WorkInv
    <3>2. \A u \in Workers : batch[u] \cap open = {}
      BY <2>3
    <3>3. \A u \in Workers : row[u] \notin open
      BY <2>1, <2>3
    <3>4. ASSUME NEW u \in Workers, u # w
          PROVE  /\ batch'[u] \cap batch'[w] = {} /\ row[u] \notin batch'[w]
                 /\ row[w] \notin batch'[u]
      BY <3>4, <3>1, <3>2, <3>3, <2>1, <2>6
    <3> QED
      BY <3>1, <3>4, <2>6
  <2>9. \A v \in Workers : pc[v] # "idle" => status'[row[v]] = status[row[v]]
    BY <2>3, <2>5
  <2> QED
    BY <2>2, <2>7, <2>8, <2>9 DEF WorkInv
<1>3. ASSUME NEW w \in Workers, FindContact(w) PROVE WorkInv'
  BY <1>3 DEF FindContact
<1>4. ASSUME NEW w \in Workers, UpsertIdentity(w) PROVE WorkInv'
  BY <1>4 DEF UpsertIdentity
<1>5. ASSUME NEW w \in Workers, UpsertConversation(w) PROVE WorkInv'
  BY <1>5 DEF UpsertConversation
<1>6. ASSUME NEW w \in Workers, InsertMessage(w) PROVE WorkInv'
  BY <1>6 DEF InsertMessage
<1>7. ASSUME NEW w \in Workers, CommitEvent(w) PROVE WorkInv'
  BY <1>7 DEF CommitEvent
<1>8. ASSUME NEW w \in Workers, MarkFailed(w) PROVE WorkInv'
  BY <1>8 DEF MarkFailed
<1>9. ASSUME NEW w \in Workers, CommitAnswerLost(w) PROVE WorkInv'
  BY <1>9 DEF CommitAnswerLost
<1>10. ASSUME NEW w \in Workers, TransactionFails(w) PROVE WorkInv'
  BY <1>10 DEF TransactionFails
<1>11. ASSUME NEW w \in Workers, MarkFails(w) PROVE WorkInv'
  BY <1>11 DEF MarkFails
<1>12. ASSUME NEW w \in Workers, Crash(w) PROVE WorkInv'
  BY <1>12 DEF Crash
<1>13. ASSUME NEW w \in Workers, NEW r \in Rows, IgnoreUnsupported(w, r) PROVE WorkInv'
  BY <1>13 DEF IgnoreUnsupported
<1>14. ASSUME NEW w \in Workers, NEW r \in Rows, IgnoreFails(w, r) PROVE WorkInv'
  BY <1>14 DEF IgnoreFails
<1>15. ASSUME NEW w \in Workers, NEW r \in Rows, IgnoreDuplicate(w, r) PROVE WorkInv'
  BY <1>15 DEF IgnoreDuplicate
<1>16. ASSUME NEW w \in Workers, NEW r \in Rows, TakeKey(w, r) PROVE WorkInv'
  BY <1>16 DEF TakeKey
<1>17. ASSUME NEW w \in Workers, NEW r \in Rows, BeginFails(w, r) PROVE WorkInv'
  BY <1>17 DEF BeginFails
<1>18. ASSUME NEW q \in Replies, InsertReply(q) PROVE WorkInv'
  BY <1>18 DEF InsertReply
<1>19. ASSUME NEW q \in Replies, ReplyConflicts(q) PROVE WorkInv'
  BY <1>19 DEF ReplyConflicts
<1>20. ASSUME NEW q \in Replies, BumpReply(q) PROVE WorkInv'
  BY <1>20 DEF BumpReply
<1>21. ASSUME NEW q \in Replies, CommitReply(q) PROVE WorkInv'
  BY <1>21 DEF CommitReply
<1>22. ASSUME NEW q \in Replies, Ask(q) PROVE WorkInv'
  BY <1>22 DEF Ask
<1>23. ASSUME NEW q \in Replies, MetaAccepts(q) PROVE WorkInv'
  BY <1>23 DEF MetaAccepts
<1>24. ASSUME NEW q \in Replies, MetaRefuses(q) PROVE WorkInv'
  BY <1>24 DEF MetaRefuses
<1>25. ASSUME NEW q \in Replies, AnswerLost(q) PROVE WorkInv'
  BY <1>25 DEF AnswerLost
<1>26. ASSUME NEW q \in Replies, RequestFails(q) PROVE WorkInv'
  BY <1>26 DEF RequestFails
<1>27. ASSUME NEW w \in Workers, NEW q \in Replies, AbortWorker(w, q) PROVE WorkInv'
  BY <1>27 DEF AbortWorker
<1>28. ASSUME NEW w \in Workers, NEW q \in Replies, AbortReply(w, q) PROVE WorkInv'
  BY <1>28 DEF AbortReply
<1>29. CASE UNCHANGED svars
  BY <1>29 DEF svars
<1> HIDE DEF dbVars, workVars, ApplyEvent, Mid, SocialIInv, SocialTypeOK, WorkInv, DataInv, InTransaction, Deadlocked
<1> QED
  BY <1>1, <1>2, <1>3, <1>4, <1>5, <1>6, <1>7, <1>8, <1>9, <1>10, <1>11, <1>12,
     <1>13, <1>14, <1>15, <1>16, <1>17, <1>18, <1>19, <1>20, <1>21, <1>22,
     <1>23, <1>24, <1>25, <1>26, <1>27, <1>28, <1>29
  DEF SocialNext, WorkerStep, ReplyStep, Abort

(* Every step that takes a lock waits for it. *)
LEMMA LockStep == SocialIInv /\ [SocialNext]_svars => LockInv'
<1> SUFFICES ASSUME SocialIInv, [SocialNext]_svars PROVE LockInv'
  OBVIOUS
<1> USE SocialConstants DEF dbVars, workVars, ApplyEvent, Mid, SocialIInv, SocialTypeOK, WorkInv, LockInv, DataInv, InTransaction, HoldsIdentity,
            HoldsThread, Uncommitted, Profile, KeyIsFree, MayInsert, Deadlocked, Oldest
<1>1. ASSUME NEW m \in Mids \cup {Unsupported}, Deliver(m) PROVE LockInv'
  BY <1>1 DEF Deliver
<1>2. ASSUME NEW w \in Workers, ClaimBatch(w) PROVE LockInv'
  BY <1>2 DEF ClaimBatch
<1>3. ASSUME NEW w \in Workers, FindContact(w) PROVE LockInv'
  BY <1>3 DEF FindContact
<1>4. ASSUME NEW w \in Workers, UpsertIdentity(w) PROVE LockInv'
  BY <1>4 DEF UpsertIdentity
<1>5. ASSUME NEW w \in Workers, UpsertConversation(w) PROVE LockInv'
  BY <1>5 DEF UpsertConversation
<1>6. ASSUME NEW w \in Workers, InsertMessage(w) PROVE LockInv'
  BY <1>6 DEF InsertMessage
<1>7. ASSUME NEW w \in Workers, CommitEvent(w) PROVE LockInv'
  BY <1>7 DEF CommitEvent
<1>8. ASSUME NEW w \in Workers, MarkFailed(w) PROVE LockInv'
  BY <1>8 DEF MarkFailed
<1>9. ASSUME NEW w \in Workers, CommitAnswerLost(w) PROVE LockInv'
  BY <1>9 DEF CommitAnswerLost
<1>10. ASSUME NEW w \in Workers, TransactionFails(w) PROVE LockInv'
  BY <1>10 DEF TransactionFails
<1>11. ASSUME NEW w \in Workers, MarkFails(w) PROVE LockInv'
  BY <1>11 DEF MarkFails
<1>12. ASSUME NEW w \in Workers, Crash(w) PROVE LockInv'
  BY <1>12 DEF Crash
<1>13. ASSUME NEW w \in Workers, NEW r \in Rows, IgnoreUnsupported(w, r) PROVE LockInv'
  BY <1>13 DEF IgnoreUnsupported
<1>14. ASSUME NEW w \in Workers, NEW r \in Rows, IgnoreFails(w, r) PROVE LockInv'
  BY <1>14 DEF IgnoreFails
<1>15. ASSUME NEW w \in Workers, NEW r \in Rows, IgnoreDuplicate(w, r) PROVE LockInv'
  BY <1>15 DEF IgnoreDuplicate
<1>16. ASSUME NEW w \in Workers, NEW r \in Rows, TakeKey(w, r) PROVE LockInv'
  BY <1>16 DEF TakeKey
<1>17. ASSUME NEW w \in Workers, NEW r \in Rows, BeginFails(w, r) PROVE LockInv'
  BY <1>17 DEF BeginFails
<1>18. ASSUME NEW q \in Replies, InsertReply(q) PROVE LockInv'
  BY <1>18 DEF InsertReply
<1>19. ASSUME NEW q \in Replies, ReplyConflicts(q) PROVE LockInv'
  BY <1>19 DEF ReplyConflicts
<1>20. ASSUME NEW q \in Replies, BumpReply(q) PROVE LockInv'
  BY <1>20 DEF BumpReply
<1>21. ASSUME NEW q \in Replies, CommitReply(q) PROVE LockInv'
  BY <1>21 DEF CommitReply
<1>22. ASSUME NEW q \in Replies, Ask(q) PROVE LockInv'
  BY <1>22 DEF Ask
<1>23. ASSUME NEW q \in Replies, MetaAccepts(q) PROVE LockInv'
  BY <1>23 DEF MetaAccepts
<1>24. ASSUME NEW q \in Replies, MetaRefuses(q) PROVE LockInv'
  BY <1>24 DEF MetaRefuses
<1>25. ASSUME NEW q \in Replies, AnswerLost(q) PROVE LockInv'
  BY <1>25 DEF AnswerLost
<1>26. ASSUME NEW q \in Replies, RequestFails(q) PROVE LockInv'
  BY <1>26 DEF RequestFails
<1>27. ASSUME NEW w \in Workers, NEW q \in Replies, AbortWorker(w, q) PROVE LockInv'
  BY <1>27 DEF AbortWorker
<1>28. ASSUME NEW w \in Workers, NEW q \in Replies, AbortReply(w, q) PROVE LockInv'
  BY <1>28 DEF AbortReply
<1>29. CASE UNCHANGED svars
  BY <1>29 DEF svars
<1> HIDE DEF dbVars, workVars, ApplyEvent, Mid, SocialIInv, SocialTypeOK, WorkInv, LockInv, DataInv, InTransaction, HoldsIdentity,
            HoldsThread, Uncommitted, Profile, KeyIsFree, MayInsert, Deadlocked, Oldest
<1> QED
  BY <1>1, <1>2, <1>3, <1>4, <1>5, <1>6, <1>7, <1>8, <1>9, <1>10, <1>11, <1>12,
     <1>13, <1>14, <1>15, <1>16, <1>17, <1>18, <1>19, <1>20, <1>21, <1>22,
     <1>23, <1>24, <1>25, <1>26, <1>27, <1>28, <1>29
  DEF SocialNext, WorkerStep, ReplyStep, Abort

(* Keys are kept with their messages, and closed rows with their keys. *)
LEMMA DataStep == SocialIInv /\ [SocialNext]_svars => DataInv'
<1> SUFFICES ASSUME SocialIInv, [SocialNext]_svars PROVE DataInv'
  OBVIOUS
<1> USE SocialConstants DEF dbVars, workVars, ApplyEvent, Mid, SocialIInv, SocialTypeOK, WorkInv, LockInv, DataInv, InTransaction, Uncommitted,
            NoContact, StoredAfter, MayInsert, Deadlocked, KeyIsFree, Oldest, Profile
<1>1. ASSUME NEW m \in Mids \cup {Unsupported}, Deliver(m) PROVE DataInv'
  BY <1>1 DEF Deliver
<1>2. ASSUME NEW w \in Workers, ClaimBatch(w) PROVE DataInv'
  BY <1>2 DEF ClaimBatch
<1>3. ASSUME NEW w \in Workers, FindContact(w) PROVE DataInv'
  BY <1>3 DEF FindContact
<1>4. ASSUME NEW w \in Workers, UpsertIdentity(w) PROVE DataInv'
  BY <1>4 DEF UpsertIdentity
<1>5. ASSUME NEW w \in Workers, UpsertConversation(w) PROVE DataInv'
  BY <1>5 DEF UpsertConversation
<1>6. ASSUME NEW w \in Workers, InsertMessage(w) PROVE DataInv'
  BY <1>6 DEF InsertMessage
<1>7. ASSUME NEW w \in Workers, CommitEvent(w) PROVE DataInv'
  BY <1>7 DEF CommitEvent
<1>8. ASSUME NEW w \in Workers, MarkFailed(w) PROVE DataInv'
  BY <1>8 DEF MarkFailed
<1>9. ASSUME NEW w \in Workers, CommitAnswerLost(w) PROVE DataInv'
  BY <1>9 DEF CommitAnswerLost
<1>10. ASSUME NEW w \in Workers, TransactionFails(w) PROVE DataInv'
  BY <1>10 DEF TransactionFails
<1>11. ASSUME NEW w \in Workers, MarkFails(w) PROVE DataInv'
  BY <1>11 DEF MarkFails
<1>12. ASSUME NEW w \in Workers, Crash(w) PROVE DataInv'
  BY <1>12 DEF Crash
<1>13. ASSUME NEW w \in Workers, NEW r \in Rows, IgnoreUnsupported(w, r) PROVE DataInv'
  BY <1>13 DEF IgnoreUnsupported
<1>14. ASSUME NEW w \in Workers, NEW r \in Rows, IgnoreFails(w, r) PROVE DataInv'
  BY <1>14 DEF IgnoreFails
<1>15. ASSUME NEW w \in Workers, NEW r \in Rows, IgnoreDuplicate(w, r) PROVE DataInv'
  BY <1>15 DEF IgnoreDuplicate
<1>16. ASSUME NEW w \in Workers, NEW r \in Rows, TakeKey(w, r) PROVE DataInv'
  BY <1>16 DEF TakeKey
<1>17. ASSUME NEW w \in Workers, NEW r \in Rows, BeginFails(w, r) PROVE DataInv'
  BY <1>17 DEF BeginFails
<1>18. ASSUME NEW q \in Replies, InsertReply(q) PROVE DataInv'
  BY <1>18 DEF InsertReply
<1>19. ASSUME NEW q \in Replies, ReplyConflicts(q) PROVE DataInv'
  BY <1>19 DEF ReplyConflicts
<1>20. ASSUME NEW q \in Replies, BumpReply(q) PROVE DataInv'
  BY <1>20 DEF BumpReply
<1>21. ASSUME NEW q \in Replies, CommitReply(q) PROVE DataInv'
  BY <1>21 DEF CommitReply
<1>22. ASSUME NEW q \in Replies, Ask(q) PROVE DataInv'
  BY <1>22 DEF Ask
<1>23. ASSUME NEW q \in Replies, MetaAccepts(q) PROVE DataInv'
  BY <1>23 DEF MetaAccepts
<1>24. ASSUME NEW q \in Replies, MetaRefuses(q) PROVE DataInv'
  BY <1>24 DEF MetaRefuses
<1>25. ASSUME NEW q \in Replies, AnswerLost(q) PROVE DataInv'
  BY <1>25 DEF AnswerLost
<1>26. ASSUME NEW q \in Replies, RequestFails(q) PROVE DataInv'
  BY <1>26 DEF RequestFails
<1>27. ASSUME NEW w \in Workers, NEW q \in Replies, AbortWorker(w, q) PROVE DataInv'
  BY <1>27 DEF AbortWorker
<1>28. ASSUME NEW w \in Workers, NEW q \in Replies, AbortReply(w, q) PROVE DataInv'
  BY <1>28 DEF AbortReply
<1>29. CASE UNCHANGED svars
  BY <1>29 DEF svars
<1> HIDE DEF dbVars, workVars, ApplyEvent, Mid, SocialIInv, SocialTypeOK, WorkInv, LockInv, DataInv, InTransaction, Uncommitted,
            NoContact, StoredAfter, MayInsert, Deadlocked, KeyIsFree, Oldest, Profile
<1> QED
  BY <1>1, <1>2, <1>3, <1>4, <1>5, <1>6, <1>7, <1>8, <1>9, <1>10, <1>11, <1>12,
     <1>13, <1>14, <1>15, <1>16, <1>17, <1>18, <1>19, <1>20, <1>21, <1>22,
     <1>23, <1>24, <1>25, <1>26, <1>27, <1>28, <1>29
  DEF SocialNext, WorkerStep, ReplyStep, Abort

(* Identity and conversation are written by the same transaction. *)
LEMMA IdentityStep == SocialIInv /\ [SocialNext]_svars => IdentityOwnsThread'
<1> SUFFICES ASSUME SocialIInv, [SocialNext]_svars PROVE IdentityOwnsThread'
  OBVIOUS
<1> USE SocialConstants DEF dbVars, workVars, ApplyEvent, Mid, SocialIInv, SocialTypeOK, WorkInv, IdentityOwnsThread, IdentityAfter, InTransaction, Profile
<1>1. ASSUME NEW m \in Mids \cup {Unsupported}, Deliver(m) PROVE IdentityOwnsThread'
  BY <1>1 DEF Deliver
<1>2. ASSUME NEW w \in Workers, ClaimBatch(w) PROVE IdentityOwnsThread'
  BY <1>2 DEF ClaimBatch
<1>3. ASSUME NEW w \in Workers, FindContact(w) PROVE IdentityOwnsThread'
  BY <1>3 DEF FindContact
<1>4. ASSUME NEW w \in Workers, UpsertIdentity(w) PROVE IdentityOwnsThread'
  BY <1>4 DEF UpsertIdentity
<1>5. ASSUME NEW w \in Workers, UpsertConversation(w) PROVE IdentityOwnsThread'
  BY <1>5 DEF UpsertConversation
<1>6. ASSUME NEW w \in Workers, InsertMessage(w) PROVE IdentityOwnsThread'
  BY <1>6 DEF InsertMessage
<1>7. ASSUME NEW w \in Workers, CommitEvent(w) PROVE IdentityOwnsThread'
  BY <1>7 DEF CommitEvent
<1>8. ASSUME NEW w \in Workers, MarkFailed(w) PROVE IdentityOwnsThread'
  BY <1>8 DEF MarkFailed
<1>9. ASSUME NEW w \in Workers, CommitAnswerLost(w) PROVE IdentityOwnsThread'
  BY <1>9 DEF CommitAnswerLost
<1>10. ASSUME NEW w \in Workers, TransactionFails(w) PROVE IdentityOwnsThread'
  BY <1>10 DEF TransactionFails
<1>11. ASSUME NEW w \in Workers, MarkFails(w) PROVE IdentityOwnsThread'
  BY <1>11 DEF MarkFails
<1>12. ASSUME NEW w \in Workers, Crash(w) PROVE IdentityOwnsThread'
  BY <1>12 DEF Crash
<1>13. ASSUME NEW w \in Workers, NEW r \in Rows, IgnoreUnsupported(w, r) PROVE IdentityOwnsThread'
  BY <1>13 DEF IgnoreUnsupported
<1>14. ASSUME NEW w \in Workers, NEW r \in Rows, IgnoreFails(w, r) PROVE IdentityOwnsThread'
  BY <1>14 DEF IgnoreFails
<1>15. ASSUME NEW w \in Workers, NEW r \in Rows, IgnoreDuplicate(w, r) PROVE IdentityOwnsThread'
  BY <1>15 DEF IgnoreDuplicate
<1>16. ASSUME NEW w \in Workers, NEW r \in Rows, TakeKey(w, r) PROVE IdentityOwnsThread'
  BY <1>16 DEF TakeKey
<1>17. ASSUME NEW w \in Workers, NEW r \in Rows, BeginFails(w, r) PROVE IdentityOwnsThread'
  BY <1>17 DEF BeginFails
<1>18. ASSUME NEW q \in Replies, InsertReply(q) PROVE IdentityOwnsThread'
  BY <1>18 DEF InsertReply
<1>19. ASSUME NEW q \in Replies, ReplyConflicts(q) PROVE IdentityOwnsThread'
  BY <1>19 DEF ReplyConflicts
<1>20. ASSUME NEW q \in Replies, BumpReply(q) PROVE IdentityOwnsThread'
  BY <1>20 DEF BumpReply
<1>21. ASSUME NEW q \in Replies, CommitReply(q) PROVE IdentityOwnsThread'
  BY <1>21 DEF CommitReply
<1>22. ASSUME NEW q \in Replies, Ask(q) PROVE IdentityOwnsThread'
  BY <1>22 DEF Ask
<1>23. ASSUME NEW q \in Replies, MetaAccepts(q) PROVE IdentityOwnsThread'
  BY <1>23 DEF MetaAccepts
<1>24. ASSUME NEW q \in Replies, MetaRefuses(q) PROVE IdentityOwnsThread'
  BY <1>24 DEF MetaRefuses
<1>25. ASSUME NEW q \in Replies, AnswerLost(q) PROVE IdentityOwnsThread'
  BY <1>25 DEF AnswerLost
<1>26. ASSUME NEW q \in Replies, RequestFails(q) PROVE IdentityOwnsThread'
  BY <1>26 DEF RequestFails
<1>27. ASSUME NEW w \in Workers, NEW q \in Replies, AbortWorker(w, q) PROVE IdentityOwnsThread'
  BY <1>27 DEF AbortWorker
<1>28. ASSUME NEW w \in Workers, NEW q \in Replies, AbortReply(w, q) PROVE IdentityOwnsThread'
  BY <1>28 DEF AbortReply
<1>29. CASE UNCHANGED svars
  BY <1>29 DEF svars
<1> HIDE DEF dbVars, workVars, ApplyEvent, Mid, SocialIInv, SocialTypeOK, WorkInv, IdentityOwnsThread, IdentityAfter, InTransaction, Profile
<1> QED
  BY <1>1, <1>2, <1>3, <1>4, <1>5, <1>6, <1>7, <1>8, <1>9, <1>10, <1>11, <1>12,
     <1>13, <1>14, <1>15, <1>16, <1>17, <1>18, <1>19, <1>20, <1>21, <1>22,
     <1>23, <1>24, <1>25, <1>26, <1>27, <1>28, <1>29
  DEF SocialNext, WorkerStep, ReplyStep, Abort

(* A request that loses a deadlock loses it to the worker that has the echo. *)
LEMMA ReplyKept == SocialIInv /\ [SocialNext]_svars => RepliesAreStored'
<1> SUFFICES ASSUME SocialIInv, [SocialNext]_svars PROVE RepliesAreStored'
  OBVIOUS
<1> USE SocialConstants DEF dbVars, workVars, ApplyEvent, Mid, SocialIInv, SocialTypeOK, WorkInv, LockInv, DataInv, RepliesAreStored, InTransaction,
            HoldsThread, Uncommitted, StoredAfter, MayInsert, Deadlocked, Oldest
<1>1. ASSUME NEW m \in Mids \cup {Unsupported}, Deliver(m) PROVE RepliesAreStored'
  BY <1>1 DEF Deliver
<1>2. ASSUME NEW w \in Workers, ClaimBatch(w) PROVE RepliesAreStored'
  BY <1>2 DEF ClaimBatch
<1>3. ASSUME NEW w \in Workers, FindContact(w) PROVE RepliesAreStored'
  BY <1>3 DEF FindContact
<1>4. ASSUME NEW w \in Workers, UpsertIdentity(w) PROVE RepliesAreStored'
  BY <1>4 DEF UpsertIdentity
<1>5. ASSUME NEW w \in Workers, UpsertConversation(w) PROVE RepliesAreStored'
  BY <1>5 DEF UpsertConversation
<1>6. ASSUME NEW w \in Workers, InsertMessage(w) PROVE RepliesAreStored'
  BY <1>6 DEF InsertMessage
<1>7. ASSUME NEW w \in Workers, CommitEvent(w) PROVE RepliesAreStored'
  BY <1>7 DEF CommitEvent
<1>8. ASSUME NEW w \in Workers, MarkFailed(w) PROVE RepliesAreStored'
  BY <1>8 DEF MarkFailed
<1>9. ASSUME NEW w \in Workers, CommitAnswerLost(w) PROVE RepliesAreStored'
  BY <1>9 DEF CommitAnswerLost
<1>10. ASSUME NEW w \in Workers, TransactionFails(w) PROVE RepliesAreStored'
  BY <1>10 DEF TransactionFails
<1>11. ASSUME NEW w \in Workers, MarkFails(w) PROVE RepliesAreStored'
  BY <1>11 DEF MarkFails
<1>12. ASSUME NEW w \in Workers, Crash(w) PROVE RepliesAreStored'
  BY <1>12 DEF Crash
<1>13. ASSUME NEW w \in Workers, NEW r \in Rows, IgnoreUnsupported(w, r) PROVE RepliesAreStored'
  BY <1>13 DEF IgnoreUnsupported
<1>14. ASSUME NEW w \in Workers, NEW r \in Rows, IgnoreFails(w, r) PROVE RepliesAreStored'
  BY <1>14 DEF IgnoreFails
<1>15. ASSUME NEW w \in Workers, NEW r \in Rows, IgnoreDuplicate(w, r) PROVE RepliesAreStored'
  BY <1>15 DEF IgnoreDuplicate
<1>16. ASSUME NEW w \in Workers, NEW r \in Rows, TakeKey(w, r) PROVE RepliesAreStored'
  BY <1>16 DEF TakeKey
<1>17. ASSUME NEW w \in Workers, NEW r \in Rows, BeginFails(w, r) PROVE RepliesAreStored'
  BY <1>17 DEF BeginFails
<1>18. ASSUME NEW q \in Replies, InsertReply(q) PROVE RepliesAreStored'
  BY <1>18 DEF InsertReply
<1>19. ASSUME NEW q \in Replies, ReplyConflicts(q) PROVE RepliesAreStored'
  BY <1>19 DEF ReplyConflicts
<1>20. ASSUME NEW q \in Replies, BumpReply(q) PROVE RepliesAreStored'
  BY <1>20 DEF BumpReply
<1>21. ASSUME NEW q \in Replies, CommitReply(q) PROVE RepliesAreStored'
  BY <1>21 DEF CommitReply
<1>22. ASSUME NEW q \in Replies, Ask(q) PROVE RepliesAreStored'
  BY <1>22 DEF Ask
<1>23. ASSUME NEW q \in Replies, MetaAccepts(q) PROVE RepliesAreStored'
  BY <1>23 DEF MetaAccepts
<1>24. ASSUME NEW q \in Replies, MetaRefuses(q) PROVE RepliesAreStored'
  BY <1>24 DEF MetaRefuses
<1>25. ASSUME NEW q \in Replies, AnswerLost(q) PROVE RepliesAreStored'
  BY <1>25 DEF AnswerLost
<1>26. ASSUME NEW q \in Replies, RequestFails(q) PROVE RepliesAreStored'
  BY <1>26 DEF RequestFails
<1>27. ASSUME NEW w \in Workers, NEW q \in Replies, AbortWorker(w, q) PROVE RepliesAreStored'
  BY <1>27 DEF AbortWorker
<1>28. ASSUME NEW w \in Workers, NEW q \in Replies, AbortReply(w, q) PROVE RepliesAreStored'
  BY <1>28 DEF AbortReply
<1>29. CASE UNCHANGED svars
  BY <1>29 DEF svars
<1> HIDE DEF dbVars, workVars, ApplyEvent, Mid, SocialIInv, SocialTypeOK, WorkInv, LockInv, DataInv, RepliesAreStored, InTransaction,
            HoldsThread, Uncommitted, StoredAfter, MayInsert, Deadlocked, Oldest
<1> QED
  BY <1>1, <1>2, <1>3, <1>4, <1>5, <1>6, <1>7, <1>8, <1>9, <1>10, <1>11, <1>12,
     <1>13, <1>14, <1>15, <1>16, <1>17, <1>18, <1>19, <1>20, <1>21, <1>22,
     <1>23, <1>24, <1>25, <1>26, <1>27, <1>28, <1>29
  DEF SocialNext, WorkerStep, ReplyStep, Abort

(* The strengthening of the five properties is inductive. *)
THEOREM SocialInductive == SocialSpec => []SocialIInv
<1>1. SocialIInv /\ [SocialNext]_svars => SocialIInv'
  <2> SUFFICES ASSUME SocialIInv, [SocialNext]_svars PROVE SocialIInv'
    OBVIOUS
  <2> QED
    BY TypeStep, WorkStep, LockStep, DataStep, IdentityStep, ReplyKept DEF SocialIInv
<1> QED
  BY SocialInitInv, <1>1, PTL DEF SocialSpec

(* Type correctness. *)
THEOREM SocialTypeCorrect == SocialSpec => []SocialTypeOK
<1>1. SocialIInv => SocialTypeOK
  BY DEF SocialIInv
<1> QED
  BY SocialInductive, <1>1, PTL

(* A row of the log closed as processed, or ignored as a duplicate, has its    *)
(* message in the inbox: processOne never keeps a key without the message.     *)
THEOREM ClosedRowsAreStored == SocialSpec => []ProcessedMeansStored
<1>1. SocialIInv => ProcessedMeansStored
  BY DEF SocialIInv, DataInv, ProcessedMeansStored
<1> QED
  BY SocialInductive, <1>1, PTL

(* While nothing fails but deadlocks, a reply the customer got is stored once   *)
(* its request is over, or about to be stored by the worker with its echo.      *)
THEOREM DeadlocksLoseNoReply == SocialSpec => []RepliesAreStored
<1>1. SocialIInv => RepliesAreStored
  BY DEF SocialIInv
<1> QED
  BY SocialInductive, <1>1, PTL

(* Workers that overwrite one another's contact overwrite it in both tables.    *)
THEOREM IdentityFollowsThread == SocialSpec => []IdentityOwnsThread
<1>1. SocialIInv => IdentityOwnsThread
  BY DEF SocialIInv
<1> QED
  BY SocialInductive, <1>1, PTL

(* A step that closes no row, and adds no message, takes InboundLog no further. *)
LEMMA NothingClosed ==
    ASSUME stored' = stored,
           \A r \in Rows : status'[r] \in {"processed", "ignored"} =>
                            status[r] \in {"processed", "ignored"} /\ event'[r] = event[r]
    PROVE  Inbound!Reopen
<1>1. ClosedEvents' \subseteq ClosedEvents
  BY DEF ClosedEvents
<1> QED
  BY <1>1 DEF Inbound!Reopen

(* A step that closes one row closes the delivery the row logs. *)
LEMMA OneClosed ==
    ASSUME NEW r \in Rows, NEW s \in {"processed", "ignored"},
           status \in [Rows -> {"none", "pending", "processing", "processed", "ignored", "failed"}],
           event' = event, status' = [status EXCEPT ![r] = s]
    PROVE  ClosedEvents' = ClosedEvents \cup {event[r]}
<1>1. \A t \in Rows : status'[t] \in {"processed", "ignored"} <=>
                       t = r \/ status[t] \in {"processed", "ignored"}
  OBVIOUS
<1> QED
  BY <1>1 DEF ClosedEvents

(* A row that is ignored closes its delivery with the message in the inbox. *)
LEMMA IgnoredCloses ==
    ASSUME SocialIInv, NEW w \in Workers, NEW r \in Rows,
           IgnoreUnsupported(w, r) \/ IgnoreDuplicate(w, r)
    PROVE  \E d \in Mids \cup {Unsupported} : Inbound!Close(d)
<1>1. /\ event' = event /\ stored' = stored
      /\ status' = [status EXCEPT ![r] = "ignored"]
      /\ event[r] \in stored \cup {Unsupported}
  BY DEF IgnoreUnsupported, IgnoreDuplicate, SocialIInv, DataInv
<1>2. ClosedEvents' = ClosedEvents \cup {event[r]}
  BY <1>1, OneClosed DEF SocialIInv, SocialTypeOK
<1>3. event[r] \in Mids \cup {Unsupported}
  BY <1>1 DEF SocialIInv, SocialTypeOK
<1>4. event[r] \in Mids => [m \in Mids |-> m][event[r]] \in stored
  BY <1>1, SocialConstants
<1>5. Inbound!Close(event[r])
  BY <1>1, <1>2, <1>4 DEF Inbound!Close
<1> QED
  BY <1>3, <1>5

(* What counts as unread is not modelled here: arriving counts nothing. *)
LEMMA NoneUnread ==
    ASSUME NEW m \in Mids
    PROVE  \E count \in {0, 1} :
               [n \in Mids |-> 0] = [[n \in Mids |-> 0] EXCEPT ![m] = @ + count]
<1>1. [n \in Mids |-> 0] = [[n \in Mids |-> 0] EXCEPT ![m] = @ + 0]
  OBVIOUS
<1> QED
  BY <1>1

(* A worker's commit stores the message and closes one of its deliveries, or    *)
(* closes a delivery of a reply that its request has stored.                    *)
LEMMA EventEnters ==
    ASSUME SocialIInv, NEW w \in Workers, pc[w] = "inserted", ApplyEvent(w)
    PROVE  Inbound!Next
<1> DEFINE m == Mid(w)
<1>1. row[w] \in Rows /\ m \in Mids
  BY DEF SocialIInv, WorkInv, Mid
<1>2. /\ event' = event /\ stored' = stored \cup {m}
      /\ status' = [status EXCEPT ![row[w]] = "processed"]
  BY DEF ApplyEvent, StoredAfter
<1>3. ClosedEvents' = ClosedEvents \cup {m}
  BY <1>1, <1>2, OneClosed DEF SocialIInv, SocialTypeOK, Mid
<1> HIDE DEF m
<1>4. CASE m \in stored
  <2>1. stored' = stored
    BY <1>2, <1>4
  <2>2. Inbound!Close(m)
    BY <2>1, <1>1, <1>3, <1>4 DEF Inbound!Close
  <2> QED
    BY <2>2, <1>1 DEF Inbound!Next
<1>5. CASE m \notin stored
  <2>1. Inbound!Arrive(m)
    BY <1>1, <1>2, <1>3, <1>5, NoneUnread DEF Inbound!Arrive
  <2> QED
    BY <2>1, <1>1 DEF Inbound!Next
<1> QED
  BY <1>4, <1>5

(* The commit of a request stores a reply nothing has stored before. *)
LEMMA ReplyEnters ==
    ASSUME SocialIInv, NEW q \in Replies, CommitReply(q)
    PROVE  Inbound!Next
<1>1. q \in Mids /\ q \notin stored /\ stored' = stored \cup {q}
  BY SocialConstants DEF CommitReply, SocialIInv, DataInv, Uncommitted
<1>2. ClosedEvents' = ClosedEvents
  BY DEF CommitReply, ClosedEvents
<1>3. Inbound!Arrive(q)
  BY <1>1, <1>2, NoneUnread DEF Inbound!Arrive
<1> QED
  BY <1>1, <1>3 DEF Inbound!Next

(* The other steps store nothing and close nothing. *)
LEMMA OthersCloseNothing ==
    ASSUME SocialIInv, [SocialNext]_svars
    PROVE  \/ \E w \in Workers, r \in Rows : IgnoreUnsupported(w, r) \/ IgnoreDuplicate(w, r)
           \/ \E w \in Workers : pc[w] = "inserted" /\ ApplyEvent(w)
           \/ \E q \in Replies : CommitReply(q)
           \/ Inbound!Reopen
<1>1. ASSUME NEW m \in Mids \cup {Unsupported}, Deliver(m) PROVE Inbound!Reopen
  <2>1. PICK r \in Rows : /\ status[r] = "none"
                          /\ event' = [event EXCEPT ![r] = m]
                          /\ status' = [status EXCEPT ![r] = "pending"]
    BY <1>1 DEF Deliver
  <2> QED
    BY <1>1, <2>1, NothingClosed DEF Deliver, SocialIInv, SocialTypeOK
<1>2. ASSUME NEW w \in Workers, ClaimBatch(w) PROVE Inbound!Reopen
  BY <1>2, NothingClosed DEF ClaimBatch, Oldest
<1>3. ASSUME NEW w \in Workers, MarkFailed(w) PROVE Inbound!Reopen
  BY <1>3, NothingClosed DEF MarkFailed, SocialIInv, SocialTypeOK
<1>4. ASSUME NEW w \in Workers, CommitEvent(w) \/ CommitAnswerLost(w)
      PROVE  pc[w] = "inserted" /\ ApplyEvent(w)
  BY <1>4 DEF CommitEvent, CommitAnswerLost
<1>5. CASE UNCHANGED dbVars
  BY <1>5, NothingClosed DEF dbVars
<1>6. ASSUME NEW w \in Workers,
             \/ FindContact(w) \/ UpsertIdentity(w) \/ UpsertConversation(w)
             \/ InsertMessage(w) \/ TransactionFails(w) \/ MarkFails(w) \/ Crash(w)
             \/ \E r \in Rows : IgnoreFails(w, r) \/ TakeKey(w, r) \/ BeginFails(w, r)
             \/ \E q \in Replies : AbortWorker(w, q) \/ AbortReply(w, q)
      PROVE  UNCHANGED dbVars
  BY <1>6 DEF FindContact, UpsertIdentity, UpsertConversation, InsertMessage,
       TransactionFails, MarkFails, Crash, IgnoreFails, TakeKey, BeginFails,
       AbortWorker, AbortReply
<1>7. ASSUME NEW q \in Replies,
             \/ InsertReply(q) \/ ReplyConflicts(q) \/ BumpReply(q) \/ Ask(q)
             \/ MetaAccepts(q) \/ MetaRefuses(q) \/ AnswerLost(q) \/ RequestFails(q)
      PROVE  UNCHANGED dbVars
  BY <1>7 DEF InsertReply, ReplyConflicts, BumpReply, Ask, MetaAccepts,
       MetaRefuses, AnswerLost, RequestFails
<1>8. CASE UNCHANGED svars
  BY <1>5, <1>8 DEF svars, dbVars
<1> QED
  BY <1>1, <1>2, <1>3, <1>4, <1>5, <1>6, <1>7, <1>8
  DEF SocialNext, WorkerStep, ReplyStep, Abort

(* Meta's deliveries are closed with their message in the inbox, which it       *)
(* enters once, by its request or by one of its deliveries: the workers and the *)
(* requests of the API implement InboundLog.                                    *)
THEOREM SocialImplementsInboundLog == SocialSpec => SocialImplementsLog
<1>1. SocialInit => Inbound!Init
  BY DEF SocialInit, Inbound!Init, ClosedEvents
<1>2. SocialIInv /\ [SocialNext]_svars => [Inbound!Next]_(Inbound!vars)
  <2> SUFFICES ASSUME SocialIInv, [SocialNext]_svars PROVE Inbound!Next
    OBVIOUS
  <2> QED
    BY OthersCloseNothing, IgnoredCloses, EventEnters, ReplyEnters DEF Inbound!Next
<1> QED
  BY <1>1, <1>2, SocialInductive, PTL DEF SocialSpec, SocialImplementsLog, Inbound!Spec

===============================================================================
