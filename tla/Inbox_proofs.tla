----------------------------- MODULE Inbox_proofs -----------------------------
(****************************************************************************)
(* What holds of automatic replies for any number of messages, attempts,      *)
(* failures and settings, and of the browser's cache for any messages of a   *)
(* conversation, changes and retries.                                        *)
(****************************************************************************)
EXTENDS AutoReply, InboxCache, TLAPS, FiniteSetTheorems
LOCAL INSTANCE SequencesExt
LOCAL INSTANCE FiniteSetsExt

(* Named, for its theorems are about relations of its own. *)
Order == INSTANCE WellFoundedInduction

-------------------------------------------------------------------------------
(* Facts about numbers and finite sets.                                      *)

(* A set of numbers has a smallest one. *)
LEMMA SmallestNumber ==
    ASSUME NEW S \in SUBSET Nat, S # {}
    PROVE  \E n \in S : \A k \in S : ~(k < n)
<1>1. \E n \in S : \A k \in S : ~(<<k, n>> \in Order!OpToRel(<, Nat))
  BY Order!WFMin, Order!NatLessThanWellFounded
<1> QED
  BY <1>1 DEF Order!OpToRel

(* Min of the community modules is that one. *)
LEMMA SmallestIn ==
    ASSUME NEW S \in SUBSET Nat, S # {}
    PROVE  Min(S) \in S
<1>1. PICK n \in S : \A k \in S : ~(k < n)
  BY SmallestNumber
<1>2. \A k \in S : n =< k
  BY <1>1
<1> QED
  BY <1>2 DEF Min

(* What a finite set maps onto is finite. *)
LEMMA FiniteImage ==
    ASSUME NEW S, IsFiniteSet(S), NEW T, NEW f \in [S -> T], \A y \in T : \E x \in S : f[x] = y
    PROVE  IsFiniteSet(T)
<1>1. PICK order \in Seq(S) : \A x \in S : \E n \in 1..Len(order) : order[n] = x
  BY DEF IsFiniteSet
<1> DEFINE image == [n \in 1..Len(order) |-> f[order[n]]]
<1>2. image \in Seq(T) /\ Len(image) = Len(order)
  OBVIOUS
<1>3. \A y \in T : \E n \in 1..Len(image) : image[n] = y
  BY <1>1, <1>2
<1> QED
  BY <1>2, <1>3 DEF IsFiniteSet

-------------------------------------------------------------------------------
(* Automatic replies.                                                        *)

(* The constants as the proofs use them. *)
LEMMA AutoReplyConstants ==
    /\ MaxTime \in Nat \ {0} /\ MaxUpsets \in Nat /\ MaxTries \in Nat
    /\ Cooldown \in Nat /\ Delay \in Nat
    /\ Times \subseteq Nat /\ Seconds \subseteq Times /\ Tries \subseteq Nat \ {0}
    /\ \A t \in Nat : t \in Times <=> t <= MaxTime
BY AutoReplyAssumption DEF AutoReplyAssumption, Times, Tries

(* Nothing has been drafted and no attempt has been made. *)
LEMMA AutoReplyInitInv == AutoReplyInit => AutoReplyIInv
<1> SUFFICES ASSUME AutoReplyInit PROVE AutoReplyIInv
  OBVIOUS
<1> USE AutoReplyConstants DEF AutoReplyInit
<1>1. AutoReplyTypeOK
  <2>1. 0 \in Times /\ 1 \in Times /\ 0 \in 0..MaxTries
    OBVIOUS
  <2>2. overlapped \in BOOLEAN
    OBVIOUS
  <2> QED
    BY <2>1, <2>2 DEF AutoReplyTypeOK
<1>2. AttemptInv
  BY DEF AttemptInv
<1>3. DeletedInv /\ DraftInv
  BY DEF DeletedInv, DraftInv, HasDraft
<1>4. BurstInv
  BY DEF BurstInv, AskedFor
<1>5. StandInv /\ SomeReplyStands
  BY DEF StandInv, SomeReplyStands
<1> QED
  BY <1>1, <1>2, <1>3, <1>4, <1>5 DEF AutoReplyIInv

(* Every step keeps the types. *)
LEMMA AutoTypeStep == AutoReplyIInv /\ [AutoReplyNext]_avars => AutoReplyTypeOK'
<1> SUFFICES ASSUME AutoReplyIInv, [AutoReplyNext]_avars PROVE AutoReplyTypeOK'
  OBVIOUS
<1> USE AutoReplyConstants DEF evalVars, draftVars, jobVars, attemptVars, markVars, historyVars,
        AutoReplyIInv, AutoReplyTypeOK, InProgress
<1>1. ASSUME Tick PROVE AutoReplyTypeOK'
  BY <1>1 DEF Tick
<1>2. ASSUME PersonReplies PROVE AutoReplyTypeOK'
  BY <1>2 DEF PersonReplies
<1>3. ASSUME NEW i \in Inbounds, CustomerWrites(i) PROVE AutoReplyTypeOK'
  BY <1>3 DEF CustomerWrites, IsSecondOf
<1>4. ASSUME NEW i \in Inbounds, IngestMessage(i) PROVE AutoReplyTypeOK'
  BY <1>4 DEF IngestMessage
<1>5. ASSUME NEW i \in Inbounds, Count(i) PROVE AutoReplyTypeOK'
  BY <1>5 DEF Count, Triggers
<1>6. ASSUME NEW i \in Inbounds, CheckCooldown(i) PROVE AutoReplyTypeOK'
  BY <1>6 DEF CheckCooldown
<1>7. ASSUME NEW i \in Inbounds, QueueDraft(i) PROVE AutoReplyTypeOK'
  <2>1. due' \in [Inbounds -> Nat]
    <3>1. clock \in Nat /\ sentAt[i] \in Nat
      OBVIOUS
    <3>2. sentAt[i] + Delay \in Nat
      BY <3>1
    <3> QED
      BY <1>7, <3>1, <3>2 DEF QueueDraft
  <2> QED
    BY <1>7, <2>1 DEF QueueDraft
<1>8. ASSUME NEW i \in Inbounds, RecordEvent(i) PROVE AutoReplyTypeOK'
  BY <1>8 DEF RecordEvent
<1>9. ASSUME NEW i \in Inbounds, ClaimJob(i) PROVE AutoReplyTypeOK'
  <2>1. tries[i] + 1 \in Tries /\ tries[i] + 1 \in 0..MaxTries
    BY <1>9 DEF ClaimJob, Tries
  <2> QED
    BY <1>9, <2>1 DEF ClaimJob
<1>10. ASSUME NEW i \in Inbounds, ResetStale(i) PROVE AutoReplyTypeOK'
  BY <1>10 DEF ResetStale
<1>11. ASSUME NEW i \in Inbounds, PersonSendsMedia(i) PROVE AutoReplyTypeOK'
  BY <1>11 DEF PersonSendsMedia, Nearest, Linkable
<1>12. ASSUME NEW i \in Inbounds, NEW n \in Tries, LookAndSend(i, n) PROVE AutoReplyTypeOK'
  BY <1>12 DEF LookAndSend
<1>13. ASSUME NEW i \in Inbounds, NEW n \in Tries, LookAndDrop(i, n) PROVE AutoReplyTypeOK'
  <2>1. overlapped' \in BOOLEAN
    BY <1>13, Zenon DEF LookAndDrop
  <2> QED
    BY <1>13, <2>1 DEF LookAndDrop
<1>14. ASSUME NEW i \in Inbounds, NEW n \in Tries, Drop(i, n) PROVE AutoReplyTypeOK'
  BY <1>14 DEF Drop
<1>15. ASSUME NEW i \in Inbounds, NEW n \in Tries, WhatsAppAccepts(i, n) PROVE AutoReplyTypeOK'
  BY <1>15 DEF WhatsAppAccepts
<1>16. ASSUME NEW i \in Inbounds, NEW n \in Tries, CommitSent(i, n) PROVE AutoReplyTypeOK'
  BY <1>16 DEF CommitSent
<1>17. ASSUME NEW i \in Inbounds, NEW n \in Tries, CommitClashes(i, n) PROVE AutoReplyTypeOK'
  BY <1>17 DEF CommitClashes
<1>18. ASSUME NEW i \in Inbounds, NEW n \in Tries, AttemptFails(i, n) PROVE AutoReplyTypeOK'
  BY <1>18 DEF AttemptFails
<1>19. ASSUME NEW i \in Inbounds, NEW n \in Tries, RecordFailedAttempt(i, n) PROVE AutoReplyTypeOK'
  BY <1>19 DEF RecordFailedAttempt
<1>20. ASSUME NEW i \in Inbounds, NEW n \in Tries, EchoStored(i, n) PROVE AutoReplyTypeOK'
  BY <1>20 DEF EchoStored
<1>21. ASSUME NEW i \in Inbounds, NEW n \in Tries, NEW j \in Inbounds, EchoLinks(i, n, j)
       PROVE  AutoReplyTypeOK'
  BY <1>21 DEF EchoLinks
<1>22. CASE UNCHANGED avars
  BY <1>22 DEF avars
<1> HIDE DEF evalVars, draftVars, jobVars, attemptVars, markVars, historyVars, AutoReplyIInv,
        AutoReplyTypeOK, InProgress
<1> QED
  BY <1>1, <1>2, <1>3, <1>4, <1>5, <1>6, <1>7, <1>8, <1>9, <1>10, <1>11, <1>12, <1>13, <1>14,
     <1>15, <1>16, <1>17, <1>18, <1>19, <1>20, <1>21, <1>22
  DEF AutoReplyNext, AttemptStep, EchoArrives

(* The clock and the times of copies are natural numbers. *)
LEMMA TimesAreNatural ==
    ASSUME AutoReplyTypeOK
    PROVE  clock \in Nat /\ \A i \in Inbounds, n \in Tries : copyAt[i][n] \in Nat
BY AutoReplyConstants DEF AutoReplyTypeOK

(* An attempt has a draft to send. *)
LEMMA AttemptHasDraft ==
    ASSUME AutoReplyTypeOK, AttemptInv, NEW i \in Inbounds, NEW n \in Tries,
           attempt[i][n] # "none"
    PROVE  HasDraft(i)
<1>1. n <= tries[i] /\ n \in Nat \ {0} /\ tries[i] \in Nat
  BY AutoReplyConstants DEF AttemptInv, AutoReplyTypeOK
<1>2. tries[i] > 0
  BY <1>1
<1> QED
  BY <1>2 DEF AttemptInv

(* Nothing has been tried before the draft. *)
LEMMA UndraftedAtRest ==
    ASSUME AutoReplyTypeOK, AttemptInv, NEW i \in Inbounds, ~HasDraft(i), NEW n \in Tries
    PROVE  attempt[i][n] = "none" /\ copy[i][n] = "none"
<1>1. attempt[i][n] = "none"
  BY AttemptHasDraft
<1> QED
  BY <1>1 DEF AttemptInv

(* An attempt is counted before it does anything, and only one that sends asks for a copy. *)
LEMMA AttemptsStep == AutoReplyIInv /\ [AutoReplyNext]_avars => AttemptInv'
<1> SUFFICES ASSUME AutoReplyIInv, [AutoReplyNext]_avars PROVE AttemptInv'
  OBVIOUS
<1> USE AutoReplyConstants DEF evalVars, draftVars, jobVars, attemptVars, markVars, historyVars,
        AutoReplyIInv, AutoReplyTypeOK, AttemptInv, HasDraft, InProgress
<1>1. ASSUME UNCHANGED <<clock, draftAt, outbox, tries, attempt, copy, copyAt>> PROVE AttemptInv'
  BY <1>1
<1>2. ASSUME Tick PROVE AttemptInv'
  <2>1. clock \in Nat /\ clock' = clock + 1 /\ \A j \in Inbounds,
     m \in Tries : copyAt[j][m] \in Nat
    <3>1. clock' = clock + 1
      BY <1>2 DEF Tick
    <3>2. clock \in Nat /\ \A j \in Inbounds, m \in Tries : copyAt[j][m] \in Nat
      BY TimesAreNatural
    <3> QED
      BY <3>1, <3>2
  <2>2. UNCHANGED <<draftAt, outbox, tries, attempt, copy, copyAt>> /\ AttemptInv
    BY <1>2 DEF Tick
  <2>3. \A j \in Inbounds, m \in Tries : copyAt[j][m] <= clock => copyAt[j][m] <= clock'
    BY <2>1
  <2> HIDE AutoReplyConstants DEF AutoReplyTypeOK
  <2> QED
    BY <2>2, <2>3
<1>3. ASSUME NEW i \in Inbounds, QueueDraft(i) PROVE AttemptInv'
  <2>1. ~HasDraft(i)
    BY <1>3 DEF QueueDraft, DraftInv
  <2>2. \A m \in Tries : attempt[i][m] = "none" /\ copy[i][m] = "none"
    BY <2>1, UndraftedAtRest
  <2>3. UNCHANGED <<clock, tries, attempt, copy, copyAt>>
    BY <1>3 DEF QueueDraft
  <2>4. /\ \A j \in Inbounds : HasDraft(j) => outbox'[j] # "none"
        /\ \A j \in Inbounds : j # i => draftAt'[j] = draftAt[j]
    BY <1>3 DEF QueueDraft
  <2> HIDE AutoReplyConstants DEF AutoReplyTypeOK
  <2> QED
    BY <2>2, <2>3, <2>4
<1>4. ASSUME NEW i \in Inbounds, ClaimJob(i) PROVE AttemptInv'
  BY <1>4 DEF ClaimJob
<1>5. ASSUME NEW i \in Inbounds, ResetStale(i) PROVE AttemptInv'
  BY <1>5 DEF ResetStale
<1>6. ASSUME NEW i \in Inbounds, NEW n \in Tries, LookAndSend(i, n) PROVE AttemptInv'
  BY <1>6 DEF LookAndSend
<1>7. ASSUME NEW i \in Inbounds, NEW n \in Tries, LookAndDrop(i, n) PROVE AttemptInv'
  BY <1>7 DEF LookAndDrop
<1>8. ASSUME NEW i \in Inbounds, NEW n \in Tries, Drop(i, n) PROVE AttemptInv'
  BY <1>8 DEF Drop
<1>9. ASSUME NEW i \in Inbounds, NEW n \in Tries, WhatsAppAccepts(i, n) PROVE AttemptInv'
  <2>1. copy[i][n] = "asked" /\ clock > 0 /\ draftAt[i] <= clock
    BY <1>9 DEF WhatsAppAccepts, DraftInv
  <2>2. /\ attempt[i][n] \notin {"none", "claimed", "dropping", "dropped"}
        /\ attempt'[i][n] \notin {"none", "claimed", "dropping", "dropped"}
        /\ n <= tries[i]
    BY <1>9, <2>1 DEF WhatsAppAccepts
  <2>3. /\ UNCHANGED <<clock, draftAt, outbox, tries>>
        /\ copy'[i][n] = "accepted" /\ copyAt'[i][n] = clock
        /\ \A j \in Inbounds, m \in Tries : <<j, m>> # <<i, n>> =>
              /\ copy'[j][m] = copy[j][m] /\ copyAt'[j][m] = copyAt[j][m]
              /\ attempt'[j][m] = attempt[j][m]
    BY <1>9 DEF WhatsAppAccepts
  <2>4. clock <= clock
    OBVIOUS
  <2> HIDE AutoReplyConstants DEF AutoReplyTypeOK
  <2> QED
    BY <2>1, <2>2, <2>3, <2>4
<1>10. ASSUME NEW i \in Inbounds, NEW n \in Tries, CommitSent(i, n) PROVE AttemptInv'
  BY <1>10 DEF CommitSent
<1>11. ASSUME NEW i \in Inbounds, NEW n \in Tries, CommitClashes(i, n) PROVE AttemptInv'
  BY <1>11 DEF CommitClashes
<1>12. ASSUME NEW i \in Inbounds, NEW n \in Tries, AttemptFails(i, n) PROVE AttemptInv'
  BY <1>12 DEF AttemptFails
<1>13. ASSUME NEW i \in Inbounds, NEW n \in Tries, RecordFailedAttempt(i, n) PROVE AttemptInv'
  BY <1>13 DEF RecordFailedAttempt
<1>14. ASSUME NEW i \in Inbounds, NEW n \in Tries, EchoStored(i, n) PROVE AttemptInv'
  BY <1>14 DEF EchoStored
<1>15. ASSUME NEW i \in Inbounds, NEW n \in Tries, NEW j \in Inbounds, EchoLinks(i, n, j)
       PROVE  AttemptInv'
  BY <1>15 DEF EchoLinks
<1>16. ASSUME \/ PersonReplies
              \/ \E i \in Inbounds : CustomerWrites(i) \/ IngestMessage(i) \/ Count(i)
                   \/ CheckCooldown(i) \/ RecordEvent(i) \/ PersonSendsMedia(i)
              \/ UNCHANGED avars
      PROVE  UNCHANGED <<clock, draftAt, outbox, tries, attempt, copy, copyAt>>
  BY <1>16 DEF avars, evalVars, draftVars, jobVars, attemptVars, markVars, historyVars,
     PersonReplies, CustomerWrites, IngestMessage, Count, CheckCooldown, RecordEvent, PersonSendsMedia
<1> HIDE DEF evalVars, draftVars, jobVars, attemptVars, markVars, historyVars, AutoReplyIInv,
        AutoReplyTypeOK, AttemptInv, HasDraft, InProgress
<1> QED
  BY <1>1, <1>2, <1>3, <1>4, <1>5, <1>6, <1>7, <1>8, <1>9, <1>10, <1>11, <1>12, <1>13, <1>14,
     <1>15, <1>16
  DEF AutoReplyNext, AttemptStep, EchoArrives

(* Only a dropping attempt deletes the reply, and it stays dropped. *)
LEMMA DeletedStep == AutoReplyIInv /\ [AutoReplyNext]_avars => DeletedInv'
<1> SUFFICES ASSUME AutoReplyIInv, [AutoReplyNext]_avars PROVE DeletedInv'
  OBVIOUS
<1> USE AutoReplyConstants DEF evalVars, draftVars, jobVars, attemptVars, markVars, historyVars,
        AutoReplyIInv, AutoReplyTypeOK, AttemptInv, DeletedInv, InProgress
<1>1. ASSUME UNCHANGED <<deleted, attempt>> PROVE DeletedInv'
  BY <1>1
<1>2. ASSUME NEW i \in Inbounds, ClaimJob(i) PROVE DeletedInv'
  BY <1>2 DEF ClaimJob
<1>3. ASSUME NEW i \in Inbounds, NEW n \in Tries, LookAndSend(i, n) PROVE DeletedInv'
  BY <1>3 DEF LookAndSend
<1>4. ASSUME NEW i \in Inbounds, NEW n \in Tries, LookAndDrop(i, n) PROVE DeletedInv'
  BY <1>4 DEF LookAndDrop
<1>5. ASSUME NEW i \in Inbounds, NEW n \in Tries, Drop(i, n) PROVE DeletedInv'
  BY <1>5 DEF Drop
<1>6. ASSUME NEW i \in Inbounds, NEW n \in Tries, WhatsAppAccepts(i, n) PROVE DeletedInv'
  BY <1>6 DEF WhatsAppAccepts
<1>7. ASSUME NEW i \in Inbounds, NEW n \in Tries, CommitSent(i, n) PROVE DeletedInv'
  BY <1>7 DEF CommitSent
<1>8. ASSUME NEW i \in Inbounds, NEW n \in Tries, CommitClashes(i, n) PROVE DeletedInv'
  BY <1>8 DEF CommitClashes
<1>9. ASSUME NEW i \in Inbounds, NEW n \in Tries, AttemptFails(i, n) PROVE DeletedInv'
  BY <1>9 DEF AttemptFails
<1>10. ASSUME NEW i \in Inbounds, NEW n \in Tries, RecordFailedAttempt(i, n) PROVE DeletedInv'
  BY <1>10 DEF RecordFailedAttempt
<1>11. ASSUME \/ Tick \/ PersonReplies
              \/ \E i \in Inbounds : CustomerWrites(i) \/ IngestMessage(i) \/ Count(i)
                   \/ CheckCooldown(i) \/ QueueDraft(i) \/ RecordEvent(i) \/ ResetStale(i)
                   \/ PersonSendsMedia(i)
              \/ \E i \in Inbounds, n \in Tries : EchoStored(i, n)
              \/ \E i, j \in Inbounds, n \in Tries : EchoLinks(i, n, j)
              \/ UNCHANGED avars
      PROVE  UNCHANGED <<deleted, attempt>>
  BY <1>11 DEF avars, evalVars, draftVars, jobVars, attemptVars, markVars, historyVars, Tick,
     PersonReplies, CustomerWrites, IngestMessage, Count, CheckCooldown, QueueDraft, RecordEvent,
     ResetStale, PersonSendsMedia, EchoStored, EchoLinks
<1> HIDE DEF evalVars, draftVars, jobVars, attemptVars, markVars, historyVars, AutoReplyIInv,
        AutoReplyTypeOK, AttemptInv, DeletedInv, InProgress
<1> QED
  BY <1>1, <1>2, <1>3, <1>4, <1>5, <1>6, <1>7, <1>8, <1>9, <1>10, <1>11
  DEF AutoReplyNext, AttemptStep, EchoArrives

(* A reply's time only falls behind its draft's second by another's message. *)
LEMMA DraftStep == AutoReplyIInv /\ [AutoReplyNext]_avars => DraftInv'
<1> SUFFICES ASSUME AutoReplyIInv, [AutoReplyNext]_avars PROVE DraftInv'
  OBVIOUS
<1> USE AutoReplyConstants DEF evalVars, draftVars, jobVars, attemptVars, markVars, historyVars,
        AutoReplyIInv, AutoReplyTypeOK, DraftInv, HasDraft
<1>1. ASSUME UNCHANGED <<clock, phase, outbox, adopted, draftAt, stamp>> PROVE DraftInv'
  BY <1>1
<1>2. ASSUME Tick PROVE DraftInv'
  <2>1. \A j \in Inbounds : draftAt[j] \in Nat /\ draftAt[j] <= clock => draftAt[j] <= clock'
    BY <1>2 DEF Tick
  <2>2. UNCHANGED <<phase, outbox, adopted, draftAt, stamp>> /\ DraftInv
    BY <1>2 DEF Tick
  <2>3. \A j \in Inbounds : draftAt[j] \in Nat
    OBVIOUS
  <2> HIDE AutoReplyConstants DEF AutoReplyTypeOK
  <2> QED
    BY <2>1, <2>2, <2>3
<1>3. ASSUME NEW i \in Inbounds, CustomerWrites(i) PROVE DraftInv'
  BY <1>3 DEF CustomerWrites
<1>4. ASSUME NEW i \in Inbounds, IngestMessage(i) PROVE DraftInv'
  BY <1>4 DEF IngestMessage
<1>5. ASSUME NEW i \in Inbounds, Count(i) PROVE DraftInv'
  BY <1>5 DEF Count
<1>6. ASSUME NEW i \in Inbounds, CheckCooldown(i) PROVE DraftInv'
  BY <1>6 DEF CheckCooldown
<1>7. ASSUME NEW i \in Inbounds, QueueDraft(i) PROVE DraftInv'
  BY <1>7 DEF QueueDraft
<1>8. ASSUME NEW i \in Inbounds, RecordEvent(i) PROVE DraftInv'
  BY <1>8 DEF RecordEvent
<1>9. ASSUME NEW i \in Inbounds, ClaimJob(i) PROVE DraftInv'
  BY <1>9 DEF ClaimJob
<1>10. ASSUME NEW i \in Inbounds, ResetStale(i) PROVE DraftInv'
  BY <1>10 DEF ResetStale
<1>11. ASSUME NEW i \in Inbounds, PersonSendsMedia(i) PROVE DraftInv'
  BY <1>11 DEF PersonSendsMedia
<1>12. ASSUME NEW i \in Inbounds, NEW n \in Tries, Drop(i, n) PROVE DraftInv'
  <2>1. HasDraft(i)
    BY <1>12, AttemptHasDraft DEF Drop
  <2> QED
    BY <1>12, <2>1 DEF Drop
<1>13. ASSUME NEW i \in Inbounds, NEW n \in Tries, CommitSent(i, n) PROVE DraftInv'
  <2>1. HasDraft(i)
    BY <1>13, AttemptHasDraft DEF CommitSent
  <2>2. draftAt[i] <= copyAt[i][n]
    BY <1>13 DEF CommitSent, AttemptInv
  <2>3. PICK t \in Times : copyAt[i][n] <= t /\ stamp' = [stamp EXCEPT ![i] = t]
    BY <1>13 DEF CommitSent
  <2>4. \A s \in Seconds : s <= draftAt[i] => s <= t
    <3>1. Seconds \subseteq Nat /\ draftAt[i] \in Nat /\ copyAt[i][n] \in Nat /\ t \in Nat
      BY AutoReplyConstants DEF AutoReplyTypeOK
    <3> QED
      BY <2>2, <2>3, <3>1
  <2>5. UNCHANGED <<clock, phase, draftAt, adopted>> /\ outbox' = [outbox EXCEPT ![i] = "dispatched"]
    BY <1>13 DEF CommitSent
  <2> QED
    BY <2>1, <2>3, <2>4, <2>5
<1>14. ASSUME NEW i \in Inbounds, NEW n \in Tries, RecordFailedAttempt(i, n) PROVE DraftInv'
  <2>1. HasDraft(i)
    BY <1>14, AttemptHasDraft DEF RecordFailedAttempt
  <2> QED
    BY <1>14, <2>1 DEF RecordFailedAttempt
<1>15. ASSUME NEW i \in Inbounds, NEW n \in Tries, NEW j \in Inbounds, EchoLinks(i, n, j)
       PROVE  DraftInv'
  <2>1. PICK s \in Seconds : IsSecondOf(s, copyAt[i][n]) /\ j \in Nearest(s)
                            /\ stamp' = [stamp EXCEPT ![j] = s]
    BY <1>15 DEF EchoLinks
  <2>2. draftAt[i] <= copyAt[i][n] /\ draftAt[i] \in Nat /\ copyAt[i][n] \in Nat
    <3>1. copy[i][n] = "accepted"
      BY <1>15 DEF EchoLinks
    <3>2. draftAt[i] <= copyAt[i][n]
      BY <3>1 DEF AttemptInv
    <3>3. draftAt[i] \in Nat /\ copyAt[i][n] \in Nat
      BY AutoReplyConstants DEF AutoReplyTypeOK
    <3> QED
      BY <3>2, <3>3
  <2>3. \A r \in Seconds : r <= draftAt[i] => r <= s
    BY <2>1, <2>2 DEF IsSecondOf
  <2>4. adopted' = adopted \cup ({j} \ {i})
    BY <1>15 DEF EchoLinks
  <2>5. UNCHANGED <<clock, phase, outbox, draftAt>>
    BY <1>15 DEF EchoLinks
  <2>6. \A k \in Inbounds : k \notin adopted' => k \notin adopted /\ (k = j => j = i)
    BY <2>4
  <2>7. \A k \in Inbounds : stamp'[k] = IF k = j THEN s ELSE stamp[k]
    BY <2>1
  <2> QED
    BY <2>3, <2>5, <2>6, <2>7
<1>16. ASSUME \/ PersonReplies
              \/ \E i \in Inbounds, n \in Tries : LookAndSend(i, n) \/ LookAndDrop(i, n)
                   \/ WhatsAppAccepts(i, n) \/ CommitClashes(i, n) \/ AttemptFails(i, n)
                   \/ EchoStored(i, n)
              \/ UNCHANGED avars
      PROVE  UNCHANGED <<clock, phase, outbox, adopted, draftAt, stamp>>
  BY <1>16 DEF avars, evalVars, draftVars, jobVars, attemptVars, markVars, historyVars,
     PersonReplies, LookAndSend, LookAndDrop, WhatsAppAccepts, CommitClashes, AttemptFails,
     EchoStored
<1> HIDE DEF evalVars, draftVars, jobVars, attemptVars, markVars, historyVars, AutoReplyIInv,
        AutoReplyTypeOK, DraftInv, HasDraft
<1> QED
  BY <1>1, <1>2, <1>3, <1>4, <1>5, <1>6, <1>7, <1>8, <1>9, <1>10, <1>11, <1>12, <1>13, <1>14,
     <1>15, <1>16
  DEF AutoReplyNext, AttemptStep, EchoArrives

(* A deleted reply stays deleted, and one linked to another's message stays so. *)
LEMMA AccidentsStay ==
    [AutoReplyNext]_avars =>
        deleted \cup adopted \subseteq (deleted \cup adopted)'
<1> SUFFICES ASSUME [AutoReplyNext]_avars
             PROVE  deleted \cup adopted \subseteq (deleted \cup adopted)'
  OBVIOUS
<1>1. ASSUME NEW i \in Inbounds, NEW n \in Tries, Drop(i, n)
      PROVE  deleted \subseteq deleted' /\ adopted' = adopted
  BY <1>1 DEF Drop, historyVars
<1>2. ASSUME \/ \E i \in Inbounds : PersonSendsMedia(i)
             \/ \E i, j \in Inbounds, n \in Tries : EchoLinks(i, n, j)
      PROVE  deleted' = deleted /\ adopted \subseteq adopted'
  BY <1>2 DEF PersonSendsMedia, EchoLinks
<1>3. ASSUME \/ Tick \/ PersonReplies
             \/ \E i \in Inbounds :
                  CustomerWrites(i) \/ IngestMessage(i) \/ Count(i) \/ CheckCooldown(i)
                  \/ QueueDraft(i) \/ RecordEvent(i) \/ ClaimJob(i) \/ ResetStale(i)
             \/ UNCHANGED avars
      PROVE  UNCHANGED <<deleted, adopted>>
  BY <1>3 DEF avars, draftVars, historyVars, Tick, PersonReplies, CustomerWrites, IngestMessage,
     Count, CheckCooldown, QueueDraft, RecordEvent, ClaimJob, ResetStale
<1>4. ASSUME NEW i \in Inbounds, NEW n \in Tries,
             LookAndSend(i, n) \/ LookAndDrop(i, n) \/ WhatsAppAccepts(i, n)
             \/ CommitSent(i, n) \/ CommitClashes(i, n) \/ AttemptFails(i, n)
             \/ RecordFailedAttempt(i, n) \/ EchoStored(i, n)
      PROVE  UNCHANGED <<deleted, adopted>>
  BY <1>4 DEF draftVars, historyVars, LookAndSend, LookAndDrop, WhatsAppAccepts, CommitSent,
     CommitClashes, AttemptFails, RecordFailedAttempt, EchoStored
<1> QED
  BY <1>1, <1>2, <1>3, <1>4 DEF AutoReplyNext, AttemptStep, EchoArrives

(* A reply is asked for by a look alone, and keeps its draft's time and its message's. *)
LEMMA AskedStep ==
    ASSUME AutoReplyIInv, [AutoReplyNext]_avars, NEW k \in Inbounds, AskedFor(k)'
    PROVE  /\ draftAt'[k] = draftAt[k] /\ sentAt'[k] = sentAt[k]
           /\ AskedFor(k) \/ \E n \in Tries : LookAndSend(k, n)
<1> USE AutoReplyConstants DEF evalVars, draftVars, attemptVars, AskedFor
<1>1. AutoReplyTypeOK /\ AttemptInv /\ DraftInv
  BY DEF AutoReplyIInv
<1> DEFINE Goal == /\ draftAt'[k] = draftAt[k] /\ sentAt'[k] = sentAt[k]
                   /\ AskedFor(k) \/ \E n \in Tries : LookAndSend(k, n)
<1>2. ASSUME NEW i \in Inbounds, CustomerWrites(i) \/ QueueDraft(i) PROVE Goal
  <2>1. ~HasDraft(i) /\ UNCHANGED copy
    BY <1>1, <1>2 DEF CustomerWrites, QueueDraft, DraftInv
  <2>2. i # k
    BY <1>1, <2>1, UndraftedAtRest
  <2> QED
    BY <1>1, <1>2, <2>1, <2>2 DEF CustomerWrites, QueueDraft, AutoReplyTypeOK
<1>3. ASSUME NEW i \in Inbounds, NEW n \in Tries, LookAndSend(i, n) PROVE Goal
  <2>1. CASE i = k
    BY <1>3, <2>1 DEF LookAndSend
  <2>2. CASE i # k
    <3>1. copy'[k] = copy[k]
      BY <1>1, <1>3, <2>2 DEF LookAndSend, AutoReplyTypeOK
    <3> QED
      BY <1>3, <3>1 DEF LookAndSend
  <2> QED
    BY <2>1, <2>2
<1>4. ASSUME NEW i \in Inbounds, NEW n \in Tries, copy[i][n] # "none",
             \E v \in {"accepted", "stray", "echoed"} : copy' = [copy EXCEPT ![i][n] = v],
             UNCHANGED <<draftAt, sentAt>>
      PROVE  Goal
  <2>1. \A m \in Tries : copy'[k][m] # "none" => copy[k][m] # "none"
    BY <1>1, <1>4 DEF AutoReplyTypeOK
  <2> QED
    BY <1>4, <2>1
<1>5. ASSUME NEW i \in Inbounds, NEW n \in Tries,
             WhatsAppAccepts(i, n) \/ EchoStored(i, n)
              \/ \E j \in Inbounds : EchoLinks(i, n, j)
      PROVE  Goal
  <2>1. /\ copy[i][n] # "none" /\ UNCHANGED <<draftAt, sentAt>>
        /\ \E v \in {"accepted", "stray", "echoed"} : copy' = [copy EXCEPT ![i][n] = v]
    BY <1>5 DEF WhatsAppAccepts, EchoStored, EchoLinks
  <2> HIDE DEF Goal
  <2> QED
    BY <1>4, <2>1
<1>6. ASSUME UNCHANGED <<draftAt, sentAt, copy>> PROVE Goal
  BY <1>6
<1>7. ASSUME \/ Tick \/ PersonReplies
             \/ \E i \in Inbounds :
                  IngestMessage(i) \/ Count(i) \/ CheckCooldown(i) \/ RecordEvent(i) \/ ClaimJob(i)
                  \/ ResetStale(i) \/ PersonSendsMedia(i)
             \/ \E i \in Inbounds, n \in Tries :
                  LookAndDrop(i, n) \/ Drop(i, n) \/ CommitSent(i, n) \/ CommitClashes(i, n)
                  \/ AttemptFails(i, n) \/ RecordFailedAttempt(i, n)
             \/ UNCHANGED avars
      PROVE  UNCHANGED <<draftAt, sentAt, copy>>
  BY <1>7 DEF avars, Tick, PersonReplies, IngestMessage, Count, CheckCooldown, RecordEvent,
     ClaimJob, ResetStale, PersonSendsMedia, LookAndDrop, Drop, CommitSent, CommitClashes,
     AttemptFails, RecordFailedAttempt
<1> HIDE DEF Goal
<1>8. Goal
  BY <1>2, <1>3, <1>5, <1>6, <1>7 DEF AutoReplyNext, AttemptStep, EchoArrives
<1> QED
  BY <1>8 DEF Goal

(* The look that lets i go has seen every other reply asked for after i's message, *)
(* unless that one is deleted or another's message gave it an earlier time.        *)
LEMMA SeenByLook ==
    ASSUME AutoReplyIInv, NEW i \in Inbounds, NEW j \in Inbounds, i # j,
           ~OutgoingAfter(i), AskedFor(j), InLaterSecond(draftAt[j], sentAt[i])
    PROVE  j \in deleted \cup adopted
<1> USE AutoReplyConstants
<1>1. AutoReplyTypeOK /\ AttemptInv /\ DraftInv
  BY DEF AutoReplyIInv
<1>2. HasDraft(j)
  BY <1>1, UndraftedAtRest DEF AskedFor
<1>3. PICK r \in Seconds : sentAt[i] < r /\ r <= draftAt[j]
  BY DEF InLaterSecond
<1>4. SUFFICES ASSUME j \notin deleted, j \notin adopted PROVE FALSE
  OBVIOUS
<1>5. r <= stamp[j]
  BY <1>1, <1>2, <1>3, <1>4 DEF DraftInv
<1>6. stamp[j] > sentAt[i]
  <2>1. r \in Nat /\ stamp[j] \in Nat /\ sentAt[i] \in Nat
    BY <1>1 DEF AutoReplyTypeOK
  <2> QED
    BY <1>3, <1>5, <2>1
<1> QED
  BY <1>2, <1>4, <1>6 DEF OutgoingAfter

(* Two replies of a burst are not both asked for without an accident. *)
LEMMA BurstStep == AutoReplyIInv /\ [AutoReplyNext]_avars => BurstInv'
<1> SUFFICES ASSUME AutoReplyIInv, [AutoReplyNext]_avars,
                    NEW i \in Inbounds, NEW j \in Inbounds,
                    InOneBurst(i, j)', AskedFor(i)', AskedFor(j)'
             PROVE  \E k \in {i, j} : k \in (deleted \cup adopted)'
  BY DEF BurstInv
<1>1. SUFFICES \E k \in {i, j} : k \in deleted \cup adopted
  BY AccidentsStay
<1>2. /\ draftAt'[i] = draftAt[i] /\ sentAt'[i] = sentAt[i]
      /\ draftAt'[j] = draftAt[j] /\ sentAt'[j] = sentAt[j]
  BY AskedStep
<1>3. InOneBurst(i, j) /\ i # j
  BY <1>2 DEF InOneBurst, InLaterSecond
<1>4. CASE AskedFor(i) /\ AskedFor(j)
  BY <1>3, <1>4 DEF AutoReplyIInv, BurstInv
<1>5. ASSUME NEW k \in {i, j}, NEW n \in Tries, LookAndSend(k, n)
      PROVE  \E l \in {i, j} : l \in deleted \cup adopted
  <2>1. PICK l \in {i, j} : l # k
    BY <1>3
  <2>2. AskedFor(l)
    <3>1. copy'[l] = copy[l]
      BY <1>5, <2>1 DEF LookAndSend, AutoReplyIInv, AutoReplyTypeOK
    <3>2. AskedFor(l)'
      BY <2>1
    <3> QED
      BY <3>1, <3>2 DEF AskedFor
  <2>3. InLaterSecond(draftAt[l], sentAt[k])
    BY <1>3, <2>1 DEF InOneBurst
  <2>4. ~OutgoingAfter(k)
    BY <1>5 DEF LookAndSend
  <2> QED
    BY <2>1, <2>2, <2>3, <2>4, SeenByLook
<1>6. (AskedFor(i) \/ \E n \in Tries : LookAndSend(i, n))
      /\ (AskedFor(j) \/ \E n \in Tries : LookAndSend(j, n))
  BY AskedStep
<1> QED
  BY <1>4, <1>5, <1>6

(* What was seen before a drop stands until the drop, without company. *)
LEMMA StandStep == AutoReplyIInv /\ [AutoReplyNext]_avars => StandInv'
<1> SUFFICES ASSUME AutoReplyIInv, [AutoReplyNext]_avars PROVE StandInv'
  OBVIOUS
<1> USE AutoReplyConstants DEF evalVars, draftVars, jobVars, attemptVars, markVars, historyVars,
        AutoReplyIInv, AutoReplyTypeOK, AttemptInv, DraftInv, StandInv, HasDraft, InProgress
<1>1. ASSUME UNCHANGED <<overlapped, attempt, manual, outbox, deleted, copy>> PROVE StandInv'
  BY <1>1
<1>2. ASSUME PersonReplies PROVE StandInv'
  BY <1>2 DEF PersonReplies
<1>3. ASSUME NEW i \in Inbounds, QueueDraft(i) PROVE StandInv'
  <2>1. UNCHANGED <<overlapped, attempt, manual, deleted, copy>>
    BY <1>3 DEF QueueDraft
  <2>2. \A j \in Inbounds : HasDraft(j) => HasDraft(j)'
    BY <1>3 DEF QueueDraft
  <2> HIDE AutoReplyConstants DEF AutoReplyTypeOK, HasDraft
  <2> QED
    BY <2>1, <2>2
<1>4. ASSUME NEW i \in Inbounds, ClaimJob(i) PROVE StandInv'
  BY <1>4 DEF ClaimJob
<1>5. ASSUME NEW i \in Inbounds, ResetStale(i) PROVE StandInv'
  <2>1. UNCHANGED <<overlapped, attempt, manual, deleted, copy>>
    BY <1>5 DEF ResetStale
  <2>2. \A j \in Inbounds : HasDraft(j) => HasDraft(j)'
    BY <1>5 DEF ResetStale
  <2> HIDE AutoReplyConstants DEF AutoReplyTypeOK, HasDraft
  <2> QED
    BY <2>1, <2>2
<1>6. ASSUME NEW i \in Inbounds, NEW n \in Tries, LookAndSend(i, n) PROVE StandInv'
  BY <1>6 DEF LookAndSend
<1>7. ASSUME NEW i \in Inbounds, NEW n \in Tries, LookAndDrop(i, n) PROVE StandInv'
  <2> SUFFICES ASSUME ~overlapped' PROVE StandInv'
    BY DEF StandInv
  <2>1. ~overlapped /\ \A j \in Inbounds \ {i}, m \in Tries : attempt[j][m] # "dropping"
    <3>1. overlapped' = (overlapped \/
                           \E j \in Inbounds \ {i}, m \in Tries : attempt[j][m] = "dropping")
      BY <1>7, Zenon DEF LookAndDrop
    <3> HIDE AutoReplyConstants DEF AutoReplyTypeOK, AutoReplyIInv, StandInv, AttemptInv, DraftInv
    <3> QED
      BY <3>1, Zenon
  <2>2. UNCHANGED <<manual, outbox, deleted, copy>>
    BY <1>7 DEF LookAndDrop
  <2>3. /\ attempt'[i][n] = "dropping"
        /\ \A k \in Inbounds \ {i}, m \in Tries : attempt'[k][m] # "dropping"
    BY <1>7, <2>1 DEF LookAndDrop
  <2>4. \/ manual # {}
        \/ \E j \in Inbounds \ {i} : HasDraft(j) /\ j \notin deleted
        \/ \E j \in Inbounds, m \in Tries : copy[j][m] = "stray"
    BY <1>7 DEF LookAndDrop, OutgoingAfter
  <2> HIDE AutoReplyConstants DEF AutoReplyTypeOK
  <2> QED
    BY <2>2, <2>3, <2>4
<1>8. ASSUME NEW i \in Inbounds, NEW n \in Tries, Drop(i, n) PROVE StandInv'
  <2> SUFFICES ASSUME ~overlapped', NEW k \in Inbounds, NEW m \in Tries,
                      attempt'[k][m] = "dropping"
               PROVE  /\ \A j \in Inbounds \ {k}, l \in Tries : attempt'[j][l] # "dropping"
                      /\ \/ manual' # {}
                         \/ \E j \in Inbounds \ {k} : HasDraft(j)' /\ j \notin deleted'
                         \/ \E j \in Inbounds, l \in Tries : copy'[j][l] = "stray"
    BY DEF StandInv
  <2>1. overlapped' = overlapped
    BY <1>8 DEF Drop
  <2>2. ~overlapped
    BY <2>1
  <2>3. /\ attempt[i][n] = "dropping" /\ attempt[k][m] = "dropping"
        /\ \A j \in Inbounds,
           l \in Tries : attempt'[j][l] = "dropping" => attempt[j][l] = "dropping"
    BY <1>8 DEF Drop
  <2>4. k = i
    BY <2>2, <2>3
  <2>5. UNCHANGED <<manual, copy>> /\ deleted' = deleted \cup {i}
    BY <1>8 DEF Drop
  <2>6. \A j \in Inbounds : HasDraft(j) => HasDraft(j)'
    BY <1>8 DEF Drop
  <2>7. AutoReplyIInv /\ StandInv
    OBVIOUS
  <2> HIDE AutoReplyConstants DEF AutoReplyTypeOK, HasDraft, AutoReplyIInv
  <2> QED
    BY <2>2, <2>3, <2>4, <2>5, <2>6, <2>7
<1>9. ASSUME NEW i \in Inbounds, NEW n \in Tries, WhatsAppAccepts(i, n) PROVE StandInv'
  BY <1>9 DEF WhatsAppAccepts
<1>10. ASSUME NEW i \in Inbounds, NEW n \in Tries, CommitSent(i, n) PROVE StandInv'
  BY <1>10 DEF CommitSent
<1>11. ASSUME NEW i \in Inbounds, NEW n \in Tries, CommitClashes(i, n) PROVE StandInv'
  BY <1>11 DEF CommitClashes
<1>12. ASSUME NEW i \in Inbounds, NEW n \in Tries, AttemptFails(i, n) PROVE StandInv'
  BY <1>12 DEF AttemptFails
<1>13. ASSUME NEW i \in Inbounds, NEW n \in Tries, RecordFailedAttempt(i, n) PROVE StandInv'
  BY <1>13 DEF RecordFailedAttempt
<1>14. ASSUME NEW i \in Inbounds, NEW n \in Tries, EchoStored(i, n) PROVE StandInv'
  BY <1>14 DEF EchoStored
<1>15. ASSUME NEW i \in Inbounds, NEW n \in Tries, NEW j \in Inbounds, EchoLinks(i, n, j)
       PROVE  StandInv'
  <2>1. UNCHANGED <<overlapped, attempt, manual, deleted, outbox>>
    BY <1>15 DEF EchoLinks
  <2>2. \A k \in Inbounds, m \in Tries : copy[k][m] = "stray" => copy'[k][m] = "stray"
    BY <1>15 DEF EchoLinks
  <2> HIDE AutoReplyConstants DEF AutoReplyTypeOK
  <2> QED
    BY <2>1, <2>2
<1>16. ASSUME \/ Tick
              \/ \E i \in Inbounds : CustomerWrites(i) \/ IngestMessage(i) \/ Count(i)
                   \/ CheckCooldown(i) \/ RecordEvent(i) \/ PersonSendsMedia(i)
              \/ UNCHANGED avars
      PROVE  UNCHANGED <<overlapped, attempt, manual, outbox, deleted, copy>>
  BY <1>16 DEF avars, evalVars, draftVars, jobVars, attemptVars, markVars, historyVars, Tick,
     CustomerWrites, IngestMessage, Count, CheckCooldown, RecordEvent, PersonSendsMedia
<1> HIDE DEF evalVars, draftVars, jobVars, attemptVars, markVars, historyVars, AutoReplyIInv,
        AutoReplyTypeOK, AttemptInv, DraftInv, StandInv, HasDraft, InProgress
<1> QED
  BY <1>1, <1>2, <1>3, <1>4, <1>5, <1>6, <1>7, <1>8, <1>9, <1>10, <1>11, <1>12, <1>13, <1>14,
     <1>15, <1>16
  DEF AutoReplyNext, AttemptStep, EchoArrives

(* A drop leaves what it saw. *)
LEMMA SomeStep == AutoReplyIInv /\ [AutoReplyNext]_avars => SomeReplyStands'
<1> SUFFICES ASSUME AutoReplyIInv, [AutoReplyNext]_avars PROVE SomeReplyStands'
  OBVIOUS
<1> USE AutoReplyConstants DEF evalVars, draftVars, jobVars, attemptVars, markVars, historyVars,
        AutoReplyIInv, AutoReplyTypeOK, AttemptInv, DraftInv, StandInv, SomeReplyStands,
        HasDraft, InProgress
<1>1. ASSUME UNCHANGED <<overlapped, manual, outbox, deleted, copy>> PROVE SomeReplyStands'
  BY <1>1
<1>2. ASSUME PersonReplies PROVE SomeReplyStands'
  BY <1>2 DEF PersonReplies
<1>3. ASSUME NEW i \in Inbounds, QueueDraft(i) PROVE SomeReplyStands'
  BY <1>3 DEF QueueDraft
<1>4. ASSUME NEW i \in Inbounds, ClaimJob(i) PROVE SomeReplyStands'
  BY <1>4 DEF ClaimJob
<1>5. ASSUME NEW i \in Inbounds, ResetStale(i) PROVE SomeReplyStands'
  BY <1>5 DEF ResetStale
<1>6. ASSUME NEW i \in Inbounds, NEW n \in Tries, LookAndSend(i, n) PROVE SomeReplyStands'
  BY <1>6 DEF LookAndSend
<1>7. ASSUME NEW i \in Inbounds, NEW n \in Tries, LookAndDrop(i, n) PROVE SomeReplyStands'
  BY <1>7 DEF LookAndDrop
<1>8. ASSUME NEW i \in Inbounds, NEW n \in Tries, Drop(i, n) PROVE SomeReplyStands'
  BY <1>8 DEF Drop
<1>9. ASSUME NEW i \in Inbounds, NEW n \in Tries, WhatsAppAccepts(i, n) PROVE SomeReplyStands'
  BY <1>9 DEF WhatsAppAccepts
<1>10. ASSUME NEW i \in Inbounds, NEW n \in Tries, CommitSent(i, n) PROVE SomeReplyStands'
  BY <1>10 DEF CommitSent
<1>11. ASSUME NEW i \in Inbounds, NEW n \in Tries, RecordFailedAttempt(i, n) PROVE SomeReplyStands'
  BY <1>11 DEF RecordFailedAttempt
<1>12. ASSUME NEW i \in Inbounds, NEW n \in Tries, EchoStored(i, n) PROVE SomeReplyStands'
  BY <1>12 DEF EchoStored
<1>13. ASSUME NEW i \in Inbounds, NEW n \in Tries, NEW j \in Inbounds, EchoLinks(i, n, j)
       PROVE  SomeReplyStands'
  BY <1>13 DEF EchoLinks
<1>14. ASSUME \/ Tick
              \/ \E i \in Inbounds : CustomerWrites(i) \/ IngestMessage(i) \/ Count(i)
                   \/ CheckCooldown(i) \/ RecordEvent(i) \/ PersonSendsMedia(i)
              \/ \E i \in Inbounds, n \in Tries : CommitClashes(i, n) \/ AttemptFails(i, n)
              \/ UNCHANGED avars
      PROVE  UNCHANGED <<overlapped, manual, outbox, deleted, copy>>
  BY <1>14 DEF avars, evalVars, draftVars, jobVars, attemptVars, markVars, historyVars, Tick,
     CustomerWrites, IngestMessage, Count, CheckCooldown, RecordEvent, PersonSendsMedia, CommitClashes,
     AttemptFails
<1> HIDE DEF evalVars, draftVars, jobVars, attemptVars, markVars, historyVars, AutoReplyIInv,
        AutoReplyTypeOK, AttemptInv, DraftInv, StandInv, SomeReplyStands, HasDraft, InProgress
<1> QED
  BY <1>1, <1>2, <1>3, <1>4, <1>5, <1>6, <1>7, <1>8, <1>9, <1>10, <1>11, <1>12, <1>13, <1>14
  DEF AutoReplyNext, AttemptStep, EchoArrives

(* The strengthening of the properties is inductive. *)
THEOREM AutoReplyInductive == AutoReplySpec => []AutoReplyIInv
<1>1. AutoReplyIInv /\ [AutoReplyNext]_avars => AutoReplyIInv'
  <2> SUFFICES ASSUME AutoReplyIInv, [AutoReplyNext]_avars PROVE AutoReplyIInv'
    OBVIOUS
  <2> QED
    BY AutoTypeStep, AttemptsStep, DeletedStep, DraftStep, BurstStep, StandStep, SomeStep
    DEF AutoReplyIInv
<1> QED
  BY AutoReplyInitInv, <1>1, PTL DEF AutoReplySpec

(* Type correctness. *)
THEOREM AutoReplyTypeCorrect == AutoReplySpec => []AutoReplyTypeOK
<1>1. AutoReplyIInv => AutoReplyTypeOK
  BY DEF AutoReplyIInv
<1> QED
  BY AutoReplyInductive, <1>1, PTL

(* A reply that WhatsApp has accepted was asked for, and if it is deleted too, an *)
(* attempt deleted it that is not the one that asked.                           *)
LEMMA SentAndDeleted ==
    ASSUME AutoReplyTypeOK, AttemptInv, DeletedInv, NEW k \in Inbounds, WentOut(k)
    PROVE  AskedFor(k) /\ (k \in deleted => tries[k] >= 2)
<1>1. PICK n \in Tries : copyAt[k][n] > 0
  BY DEF WentOut
<1>2. copy[k][n] # "none"
  BY <1>1, AutoReplyConstants DEF AttemptInv, AutoReplyTypeOK
<1>3. ASSUME k \in deleted PROVE tries[k] >= 2
  <2>1. PICK m \in Tries : attempt[k][m] = "dropped"
    BY <1>3 DEF DeletedInv
  <2>2. copy[k][m] = "none" /\ m <= tries[k]
    BY <2>1 DEF AttemptInv
  <2>3. attempt[k][n] # "none"
    BY <1>2 DEF AttemptInv
  <2>4. n <= tries[k]
    BY <2>3 DEF AttemptInv
  <2>5. m # n /\ m \in Nat \ {0} /\ n \in Nat \ {0} /\ tries[k] \in Nat
    BY <1>2, <2>2, AutoReplyConstants DEF AutoReplyTypeOK
  <2> QED
    BY <2>2, <2>4, <2>5
<1> QED
  BY <1>2, <1>3 DEF AskedFor

(* Of two auto replies each drafted after the message the other answers, the     *)
(* look of the later one's attempt sees the other, unless that one is deleted or  *)
(* another's message has put it into an earlier second; and one that is deleted    *)
(* although it went out was claimed twice.                                       *)
THEOREM SecondRepliesExplained == AutoReplySpec => []SecondReplyHasACause
<1>1. AutoReplyIInv => SecondReplyHasACause
  BY SentAndDeleted DEF AutoReplyIInv, BurstInv, SecondReplyHasACause
<1> QED
  BY AutoReplyInductive, <1>1, PTL

(* While no two replies are dropped at once, the drafts of a burst do not all    *)
(* give way to one another, whichever claims are taken back.                      *)
THEOREM DropsLeaveAReply == AutoReplySpec => []SomeReplyStands
<1>1. AutoReplyIInv => SomeReplyStands
  BY DEF AutoReplyIInv
<1> QED
  BY AutoReplyInductive, <1>1, PTL

-------------------------------------------------------------------------------
(* The browser's cache.                                                      *)

(* An unresolved bubble matches whatever stands beside it. *)
LEMMA UnresolvedMatches ==
    ASSUME NEW a \in Bubbles, NEW b \in Bubbles, IsUnresolved(a)
    PROVE  Matches(a, b) /\ Matches(b, a)
BY DEF Bubbles, Kinds, Matches, LikelySame, IsUnresolved, IsConfirmed

(* Resolved bubbles match when they are of one message. *)
LEMMA ResolvedMatch ==
    ASSUME NEW a \in Bubbles, NEW b \in Bubbles, ~IsUnresolved(a), ~IsUnresolved(b)
    PROVE  Matches(a, b) <=> a.of = b.of
BY DEF Bubbles, Matches, SameId, LikelySame, IsUnresolved

(* A merge keeps one of the two bubbles and one of the two statuses. *)
LEMMA MergeShape ==
    ASSUME NEW a \in Bubbles, NEW b \in Bubbles
    PROVE  /\ Merge(a, b) \in Bubbles
           /\ Merge(a, b).of = (IF PreferIncoming(a, b) THEN b.of ELSE a.of)
           /\ Merge(a, b).kind = (IF PreferIncoming(a, b) THEN b.kind ELSE a.kind)
           /\ Merge(a, b).ack = (IF Rank(b.ack) >= Rank(a.ack) THEN b.ack ELSE a.ack)
BY DEF Merge, Bubbles

(* What holds of a row that is stored holds of every row with a version. *)
LEMMA FirstVersion ==
    ASSUME CacheTypeOK, LogInv, NEW m \in Outgoing, NEW ack, HasVersion(m, ack)
    PROVE  HasVersion(m, "pending") /\ HasVersion(m, "queued")
<1>1. log[m] \in Seq([of : Outgoing, kind : {"queued", "linked"}, ack : Acks])
  BY DEF CacheTypeOK
<1>2. log[m] # <<>> /\ 1 \in 1..Len(log[m])
  BY <1>1 DEF HasVersion
<1>3. log[m][1].ack = "pending"
  BY <1>2 DEF LogInv, IsStored
<1> QED
  BY <1>2, <1>3 DEF HasVersion

(* Two bubbles that match and are true of their messages leave one that is, although
   it may have the identity of the one and the status of the other. *)
LEMMA MergeTrue ==
    ASSUME CacheTypeOK, LogInv,
           NEW a \in Bubbles, NEW b \in Bubbles, IsTrue(a), IsTrue(b), Matches(a, b)
    PROVE  IsTrue(Merge(a, b))
<1> DEFINE c == Merge(a, b)
<1>1. /\ c.of = (IF PreferIncoming(a, b) THEN b.of ELSE a.of)
      /\ c.kind = (IF PreferIncoming(a, b) THEN b.kind ELSE a.kind)
      /\ c.ack = (IF Rank(b.ack) >= Rank(a.ack) THEN b.ack ELSE a.ack)
  BY MergeShape
<1>2. /\ a.kind # "optimistic" => HasVersion(a.of, "pending") /\ HasVersion(a.of, "queued")
      /\ b.kind # "optimistic" => HasVersion(b.of, "pending") /\ HasVersion(b.of, "queued")
  <2>1. a.of \in Outgoing /\ b.of \in Outgoing
    BY DEF Bubbles
  <2> QED
    BY <2>1, FirstVersion DEF IsTrue
<1>3. Queued(c)
  BY <1>1 DEF IsTrue, Queued, Bubbles, Kinds, Acks, Unaccepted, PreferIncoming, IsUnresolved,
     IsConfirmed, Rank
<1>4. c.kind # "optimistic" => HasVersion(c.of, c.ack)
  <2> SUFFICES ASSUME c.kind # "optimistic" PROVE HasVersion(c.of, c.ack)
    OBVIOUS
  <2>1. CASE ~IsUnresolved(a) /\ ~IsUnresolved(b)
    <3>1. a.of = b.of
      BY <2>1, ResolvedMatch
    <3> QED
      BY <1>1, <2>1, <3>1 DEF IsTrue, IsUnresolved
  <2>2. CASE IsUnresolved(a) \/ IsUnresolved(b)
    <3>1. \/ PreferIncoming(a, b) /\ c.ack \in {b.ack, "pending", "queued"}
          \/ ~PreferIncoming(a, b) /\ c.ack \in {a.ack, "pending", "queued"}
      BY <1>1, <2>2 DEF IsTrue, Queued, Bubbles, Kinds, Acks, Unaccepted, PreferIncoming,
         IsUnresolved, IsConfirmed, Rank
    <3> QED
      BY <1>1, <1>2, <3>1 DEF IsTrue
  <2> QED
    BY <2>1, <2>2
<1> QED
  BY <1>3, <1>4 DEF IsTrue

(* Bubbles of which no two match, in a sequence. *)
Distinct(kept) ==
    /\ kept \in Seq(Bubbles)
    /\ \A i \in DOMAIN kept : IsTrue(kept[i])
    /\ \A i, j \in DOMAIN kept : i # j => ~Matches(kept[i], kept[j])

(* What is taken in keeps the bubbles true and apart. *)
LEMMA AbsorbDistinct ==
    ASSUME CacheTypeOK, LogInv, NEW kept, Distinct(kept), NEW b \in Bubbles, IsTrue(b)
    PROVE  Distinct(Absorb(kept, b))
<1> DEFINE matching == {i \in DOMAIN kept : Matches(kept[i], b)}
<1> USE DEF Distinct
<1>0. \A x, y \in Bubbles : Matches(x, y) <=> Matches(y, x)
  BY DEF Matches, SameId, LikelySame
<1>1. CASE matching = {}
  <2>1. Absorb(kept, b) = Append(kept, b)
    BY <1>1 DEF Absorb
  <2>2. \A i \in DOMAIN kept : kept[i] \in Bubbles /\ ~Matches(kept[i], b) /\ ~Matches(b, kept[i])
    BY <1>0, <1>1
  <2> QED
    BY <2>1, <2>2
<1>2. CASE matching # {}
  <2> DEFINE first == Min(matching)
             c == Merge(kept[first], b)
  <2>1. first \in matching
    <3>1. matching \in SUBSET Nat
      OBVIOUS
    <3> QED
      BY <1>2, <3>1, SmallestIn
  <2>2. Absorb(kept, b) = [kept EXCEPT ![first] = c]
    BY <1>2 DEF Absorb
  <2>3. kept[first] \in Bubbles /\ Matches(kept[first], b) /\ IsTrue(kept[first])
    BY <2>1
  <2>4. c \in Bubbles /\ IsTrue(c)
    BY <2>3, MergeShape, MergeTrue
  <2>5. ASSUME NEW i \in DOMAIN kept, i # first PROVE ~Matches(c, kept[i])
    <3>1. kept[i] \in Bubbles /\ ~Matches(kept[first], kept[i]) /\ ~Matches(kept[i], kept[first])
      BY <2>1, <2>5
    <3>2. ~IsUnresolved(kept[i]) /\ ~IsUnresolved(kept[first])
      BY <2>3, <3>1, UnresolvedMatches
    <3>3. \/ ~PreferIncoming(kept[first], b) /\ IsUnresolved(b)
          \/ b.of = kept[first].of /\ ~IsUnresolved(b)
      <4>1. CASE IsUnresolved(b)
        BY <3>2, <4>1 DEF PreferIncoming, IsUnresolved, IsConfirmed
      <4>2. CASE ~IsUnresolved(b)
        BY <2>3, <3>2, <4>2, ResolvedMatch
      <4> QED
        BY <4>1, <4>2
    <3>4. c.of = kept[first].of /\ c.kind = "linked"
      BY <2>3, <3>2, <3>3, MergeShape DEF IsUnresolved
    <3>5. ~(c.ack \in {"pending", "queued", "failed"})
      BY <2>3, <3>2, <3>3, MergeShape DEF IsUnresolved, Bubbles, Acks, Unaccepted, Rank
    <3> QED
      BY <2>3, <2>4, <3>1, <3>2, <3>4, <3>5, ResolvedMatch DEF IsUnresolved
  <2> HIDE DEF matching, first, c
  <2>6. \A i \in DOMAIN kept : i # first => ~Matches(c, kept[i]) /\ ~Matches(kept[i], c)
    BY <1>0, <2>4, <2>5
  <2>7. first \in DOMAIN kept
    BY <2>1 DEF matching
  <2> QED
    BY <2>2, <2>4, <2>6, <2>7
<1> QED
  BY <1>1, <1>2

(* The bubbles can be taken in one by one: the recursive function exists. *)
LEMMA KeptExists ==
    ASSUME NEW order, NEW n \in Nat
    PROVE  \E h : h = [i \in 0..n |-> IF i = 0 THEN <<>> ELSE Absorb(h[i - 1], order[i])]
<1> DEFINE Is(h, k) == h = [i \in 0..k |-> IF i = 0 THEN <<>> ELSE Absorb(h[i - 1], order[i])]
           Bad == {k \in Nat : ~ \E h : Is(h, k)}
<1> SUFFICES ASSUME Bad # {} PROVE FALSE
  OBVIOUS
<1>1. PICK k \in Bad : \A j \in Bad : ~(j < k)
  BY SmallestNumber
<1>2. CASE k = 0
  <2>1. Is([i \in 0..0 |-> <<>>], 0)
    OBVIOUS
  <2> QED
    BY <1>2, <2>1
<1>3. CASE k # 0
  <2>1. k - 1 \in Nat /\ k - 1 \notin Bad
    BY <1>1, <1>3
  <2>2. PICK h : Is(h, k - 1)
    BY <2>1
  <2> DEFINE g == [i \in 0..k |-> IF i = k THEN Absorb(h[k - 1], order[k]) ELSE h[i]]
  <2>3. ASSUME NEW i \in 0..k
        PROVE  g[i] = IF i = 0 THEN <<>> ELSE Absorb(g[i - 1], order[i])
    <3>1. CASE i = 0
      BY <1>3, <2>1, <2>2, <3>1
    <3>2. CASE i # 0 /\ i # k
      <4>1. i \in 0..(k - 1) /\ i - 1 \in 0..(k - 1) /\ i - 1 # k /\ i - 1 \in 0..k
        BY <2>1, <3>2
      <4>2. g[i] = h[i] /\ g[i - 1] = h[i - 1]
        BY <3>2, <4>1
      <4>3. h[i] = Absorb(h[i - 1], order[i])
        BY <2>2, <3>2, <4>1
      <4> QED
        BY <3>2, <4>2, <4>3
    <3>3. CASE i = k
      <4>1. k - 1 \in 0..k /\ k - 1 # k /\ k \in 0..k
        BY <2>1
      <4>2. g[k] = Absorb(h[k - 1], order[k]) /\ g[k - 1] = h[k - 1]
        BY <4>1
      <4> QED
        BY <1>3, <3>3, <4>2
    <3> QED
      BY <3>1, <3>2, <3>3
  <2>4. g = [i \in 0..k |-> g[i]]
    OBVIOUS
  <2> HIDE DEF g
  <2>5. Is(g, k)
    BY <2>3, <2>4
  <2> QED
    BY <1>1, <2>5
<1> QED
  BY <1>2, <1>3

(* What is left of true bubbles, in whatever order they are taken in, is true and
   apart. *)
LEMMA CompactedInTrue ==
    ASSUME CacheTypeOK, LogInv,
           NEW n \in Nat, NEW bubbles \in SUBSET Bubbles, \A b \in bubbles : IsTrue(b),
           NEW order \in [1..n -> bubbles]
    PROVE  /\ CompactedIn(order) \subseteq Bubbles
           /\ \A b \in CompactedIn(order) : IsTrue(b)
           /\ Apart(CompactedIn(order))
<1>1. Len(order) = n
  OBVIOUS
<1> DEFINE kept[i \in 0..n] == IF i = 0 THEN <<>> ELSE Absorb(kept[i - 1], order[i])
<1>2. CompactedIn(order) = ToSet(kept[n])
  BY <1>1 DEF CompactedIn
<1>3. kept = [i \in 0..n |-> IF i = 0 THEN <<>> ELSE Absorb(kept[i - 1], order[i])]
  BY KeptExists
<1> HIDE DEF kept
<1>4. \A i \in 0..n : Distinct(kept[i])
  <2> DEFINE Bad == {i \in 0..n : ~Distinct(kept[i])}
  <2> SUFFICES ASSUME Bad # {} PROVE FALSE
    OBVIOUS
  <2>1. PICK i \in Bad : \A j \in Bad : ~(j < i)
    <3>1. Bad \in SUBSET Nat
      OBVIOUS
    <3> QED
      BY <3>1, SmallestNumber
  <2>2. CASE i = 0
    <3>1. kept[i] = <<>>
      BY <1>3, <2>2
    <3>2. Distinct(<<>>)
      BY DEF Distinct
    <3> QED
      BY <2>1, <3>1, <3>2
  <2>3. CASE i # 0
    <3>1. i - 1 \in 0..n /\ i - 1 < i /\ i \in 1..n
      BY <2>3
    <3>2. Distinct(kept[i - 1])
      BY <2>1, <3>1
    <3>3. kept[i] = Absorb(kept[i - 1], order[i])
      BY <1>3, <2>3
    <3>4. order[i] \in Bubbles /\ IsTrue(order[i])
      BY <3>1
    <3> QED
      BY <2>1, <3>2, <3>3, <3>4, AbsorbDistinct
  <2> QED
    BY <2>2, <2>3
<1>5. Distinct(kept[n])
  BY <1>4
<1> QED
  BY <1>2, <1>5 DEF Distinct, Apart, ToSet

(* There are finitely many bubbles. *)
LEMMA FinitelyManyBubbles ==
    ASSUME NEW bubbles \in SUBSET Bubbles
    PROVE  IsFiniteSet(bubbles)
<1>1. IsFiniteSet(Outgoing)
  BY CacheAssumption DEF CacheAssumption
<1>2. IsFiniteSet(Kinds)
  <2> DEFINE order == <<"optimistic", "queued", "linked">>
  <2>1. order \in Seq(Kinds) /\ Len(order) = 3
    BY DEF Kinds
  <2>2. order[1] = "optimistic" /\ order[2] = "queued" /\ order[3] = "linked"
    OBVIOUS
  <2>3. \A x \in Kinds : \E n \in 1..3 : order[n] = x
    BY <2>2 DEF Kinds
  <2> QED
    BY <2>1, <2>3 DEF IsFiniteSet
<1>3. IsFiniteSet(Acks)
  <2> DEFINE order == <<"pending", "queued", "failed", "server_ack", "read">>
  <2>1. order \in Seq(Acks) /\ Len(order) = 5
    BY DEF Acks, Unaccepted
  <2>2. order[1] = "pending" /\ order[2] = "queued" /\ order[3] = "failed" /\ order[4] = "server_ack" /\ order[5] = "read"
    OBVIOUS
  <2>3. \A x \in Acks : \E n \in 1..5 : order[n] = x
    BY <2>2 DEF Acks, Unaccepted
  <2> QED
    BY <2>1, <2>3 DEF IsFiniteSet
<1> DEFINE Triples == (Outgoing \X Kinds) \X Acks
           f == [t \in Triples |-> [of |-> t[1][1], kind |-> t[1][2], ack |-> t[2]]]
<1>4. IsFiniteSet(Triples)
  <2>1. IsFiniteSet(Outgoing \X Kinds)
    BY <1>1, <1>2, FS_Product
  <2> QED
    BY <1>3, <2>1, FS_Product
<1>5. f \in [Triples -> Bubbles]
  BY DEF Bubbles
<1>6. ASSUME NEW b \in Bubbles PROVE \E t \in Triples : f[t] = b
  <2>1. <<<<b.of, b.kind>>, b.ack>> \in Triples
    BY DEF Bubbles
  <2>2. f[<<<<b.of, b.kind>>, b.ack>>] = b
    BY <2>1 DEF Bubbles
  <2> QED
    BY <2>1, <2>2
<1> HIDE DEF f, Triples
<1>7. IsFiniteSet(Bubbles)
  BY <1>4, <1>5, <1>6, FiniteImage
<1> QED
  BY <1>7, FS_Subset

(* Bubbles that are true of their messages, no two of them matching. *)
Good(bubbles) == bubbles \subseteq Bubbles /\ (\A b \in bubbles : IsTrue(b)) /\ Apart(bubbles)

(* compactOutgoingEchoDuplicates makes true bubbles good. *)
LEMMA CompactedGood ==
    ASSUME CacheTypeOK, LogInv,
           NEW bubbles \in SUBSET Bubbles, \A b \in bubbles : IsTrue(b),
           NEW left \in Compacted(bubbles)
    PROVE  Good(left)
<1>1. CASE Apart(bubbles)
  BY <1>1 DEF Compacted, Apart, Good
<1>2. CASE ~Apart(bubbles)
  <2>1. PICK order \in SetToSeqs(bubbles) : left = CompactedIn(order)
    BY <1>2 DEF Compacted, Apart
  <2>2. Cardinality(bubbles) \in Nat
    BY FinitelyManyBubbles, FS_CardinalityType
  <2>3. order \in [1..Cardinality(bubbles) -> bubbles]
    BY <2>1 DEF SetToSeqs
  <2> QED
    BY <2>1, <2>2, <2>3, CompactedInTrue DEF Good
<1> QED
  BY <1>1, <1>2

(* upsertMessageInCache *)
LEMMA UpsertedGood ==
    ASSUME CacheIInv, NEW b \in Bubbles, IsTrue(b), NEW left \in Upserted(b)
    PROVE  Good(left)
<1> USE DEF CacheIInv
<1>0. cache \subseteq Bubbles /\ \A k \in cache : IsTrue(k)
  BY DEF CacheTypeOK, CacheInv
<1> DEFINE matching == {k \in cache : Matches(k, b)}
<1>1. CASE matching = {}
  <2>1. left \in Compacted(cache \cup {b})
    BY <1>1 DEF Upserted
  <2> QED
    BY <1>0, <2>1, CompactedGood
<1>2. CASE matching # {}
  <2>1. PICK k \in matching : left \in Compacted((cache \ {k}) \cup {Merge(k, b)})
    BY <1>2 DEF Upserted
  <2>2. Merge(k, b) \in Bubbles /\ IsTrue(Merge(k, b))
    BY <1>0, MergeShape, MergeTrue
  <2> QED
    BY <1>0, <2>1, <2>2, CompactedGood
<1> QED
  BY <1>1, <1>2

(* Nothing is stored and nothing is shown. *)
LEMMA CacheInitInv == CacheInit => CacheIInv
<1> SUFFICES ASSUME CacheInit PROVE CacheIInv
  OBVIOUS
<1>1. CacheTypeOK
  <2>1. retries \in 0..MaxRetries
    BY CacheAssumption DEF CacheAssumption, CacheInit
  <2>2. page \in Seq(SUBSET Bubbles) /\ retrying \in Seq(Outgoing)
    BY DEF CacheInit
  <2>3. log \in [Outgoing -> Seq([of : Outgoing, kind : {"queued", "linked"}, ack : Acks])]
    BY DEF CacheInit
  <2>4. /\ seen \in [Outgoing -> Nat] /\ cache \subseteq Bubbles /\ loaded \in BOOLEAN
        /\ asked \in [Own -> {"no", "sent", "answered", "failed"}]
    BY DEF CacheInit
  <2> QED
    BY <2>1, <2>2, <2>3, <2>4 DEF CacheTypeOK
<1>2. LogInv
  BY DEF CacheInit, LogInv, IsStored
<1>3. CacheInv /\ BubblesAreTrue
  BY DEF CacheInit, CacheInv, BubblesAreTrue, Apart
<1> QED
  BY <1>1, <1>2, <1>3 DEF CacheIInv

(* What a server writes behind a row leaves every bubble as true as it was. *)
LEMMA WriteStep ==
    ASSUME CacheIInv, NEW m \in Outgoing,
           NEW versions \in Seq([of : Outgoing, kind : {"queued", "linked"}, ack : Acks]),
           Write(m, versions), UNCHANGED clientVars,
           \A v \in 1..Len(versions) : versions[v].of = m /\ Queued(versions[v]),
           ~IsStored(m) => versions # <<>> /\ versions[1].ack = "pending"
    PROVE  CacheIInv'
<1> DEFINE Rows == [of : Outgoing, kind : {"queued", "linked"}, ack : Acks]
<1> USE DEF CacheIInv, clientVars, retryVars
<1>0. log \in [Outgoing -> Seq(Rows)] /\ log[m] \in Seq(Rows)
  BY DEF CacheTypeOK
<1>1. /\ log' = [log EXCEPT ![m] = log[m] \o versions]
      /\ log[m] \o versions \in Seq(Rows)
      /\ Len(log[m] \o versions) = Len(log[m]) + Len(versions)
      /\ \A v \in 1..Len(log[m]) : (log[m] \o versions)[v] = log[m][v]
      /\ \A v \in 1..Len(versions) : (log[m] \o versions)[Len(log[m]) + v] = versions[v]
  BY <1>0 DEF Write
<1>2. CacheTypeOK'
  <2>1. log' \in [Outgoing -> Seq(Rows)]
    BY <1>0, <1>1
  <2> QED
    BY <2>1 DEF CacheTypeOK
<1>3. \A k \in Outgoing, v \in Nat :
         v \in 1..Len(log[k]) => v \in 1..Len(log'[k]) /\ log'[k][v] = log[k][v]
  BY <1>0, <1>1
<1>4. LogInv'
  <2>1. ASSUME NEW k \in Outgoing, IsStored(k)' PROVE log'[k][1].ack = "pending"
    <3>1. CASE IsStored(k)
      <4>1. log[k] \in Seq(Rows) /\ 1 \in 1..Len(log[k])
        BY <1>0, <3>1 DEF IsStored
      <4> QED
        BY <1>3, <3>1, <4>1 DEF LogInv
    <3>2. CASE ~IsStored(k)
      <4>1. k = m
        BY <1>0, <1>1, <2>1, <3>2 DEF IsStored
      <4>2. log[m] = <<>> /\ Len(log[m]) = 0
        BY <3>2, <4>1 DEF IsStored
      <4>3. 1 \in 1..Len(versions)
        BY <3>2, <4>1
      <4>4. (log[m] \o versions)[1] = versions[1]
        BY <1>1, <4>2, <4>3
      <4> QED
        BY <1>0, <1>1, <3>2, <4>1, <4>4
    <3> QED
      BY <3>1, <3>2
  <2>2. ASSUME NEW k \in Outgoing, NEW v \in 1..Len(log'[k])
        PROVE  log'[k][v].of = k /\ Queued(log'[k][v])
    <3>1. CASE v \in 1..Len(log[k])
      BY <1>3, <3>1 DEF LogInv
    <3>2. CASE v \notin 1..Len(log[k])
      <4>1. k = m
        BY <1>0, <1>1, <2>2, <3>2
      <4>2. v - Len(log[m]) \in 1..Len(versions) /\ v = Len(log[m]) + (v - Len(log[m]))
        BY <1>0, <1>1, <2>2, <3>2, <4>1
      <4>3. log'[k][v] = versions[v - Len(log[m])]
        BY <1>0, <1>1, <4>1, <4>2
      <4> QED
        BY <4>1, <4>2, <4>3
    <3> QED
      BY <3>1, <3>2
  <2> QED
    BY <2>1, <2>2 DEF LogInv, Queued
<1>5. ASSUME NEW k \in Outgoing, NEW ack, HasVersion(k, ack) PROVE HasVersion(k, ack)'
  BY <1>3, <1>5 DEF HasVersion
<1>6. ASSUME NEW b \in Bubbles, IsTrue(b) PROVE IsTrue(b)'
  <2>1. b.of \in Outgoing
    BY DEF Bubbles
  <2> QED
    BY <1>5, <1>6, <2>1 DEF IsTrue, Queued
<1>7. CacheInv'
  <2>1. \A b \in cache' : IsTrue(b)'
    BY <1>6 DEF CacheInv, CacheTypeOK
  <2>2. page' # <<>> => \A r \in Head(page') : r.kind # "optimistic" /\ IsTrue(r)'
    BY <1>6 DEF CacheInv, CacheTypeOK
  <2> QED
    BY <2>1, <2>2 DEF CacheInv, Apart, Matches, SameId, LikelySame, IsUnresolved, IsConfirmed
<1>8. BubblesAreTrue'
  <2>1. ASSUME NEW b \in cache, b.kind # "optimistic" PROVE HasVersion(b.of, b.ack)'
    BY <1>5, <2>1 DEF BubblesAreTrue, CacheTypeOK, Bubbles
  <2> QED
    BY <2>1 DEF BubblesAreTrue, SameId
<1> QED
  BY <1>2, <1>4, <1>7, <1>8

(* A stored row's versions are bubbles that are true. *)
LEMMA VersionsTrue ==
    ASSUME CacheIInv, NEW m \in Outgoing, NEW v \in 1..Len(log[m])
    PROVE  log[m][v] \in Bubbles /\ IsTrue(log[m][v]) /\ log[m][v].kind # "optimistic"
<1> DEFINE Rows == [of : Outgoing, kind : {"queued", "linked"}, ack : Acks]
<1>1. log[m] \in Seq(Rows)
  BY DEF CacheIInv, CacheTypeOK
<1> HIDE DEF Rows
<1>2. log[m][v] \in Rows
  BY <1>1
<1>3. log[m][v].of = m /\ Queued(log[m][v])
  BY DEF CacheIInv, LogInv
<1> QED
  BY <1>2, <1>3 DEF Rows, Bubbles, Kinds, IsTrue, HasVersion

(* A server's step writes true versions behind a row. *)
LEMMA ServerKeeps == ASSUME CacheIInv, NEW m \in Outgoing, ServerStep(m) PROVE CacheIInv'
<1> DEFINE Rows == [of : Outgoing, kind : {"queued", "linked"}, ack : Acks]
<1>1. ASSUME Store(m) PROVE CacheIInv'
  <2> DEFINE versions == <<Bubble(m, "queued", "pending")>>
  <2>1. /\ versions \in Seq(Rows) /\ Len(versions) = 1 /\ versions # <<>>
        /\ versions[1].of = m /\ versions[1].ack = "pending" /\ Queued(versions[1])
    BY DEF Bubble, Acks, Unaccepted, Queued
  <2>2. Write(m, versions) /\ UNCHANGED clientVars
    BY <1>1 DEF Store
  <2> HIDE DEF versions
  <2>3. \A v \in 1..Len(versions) : versions[v].of = m /\ Queued(versions[v])
    BY <2>1
  <2> QED
    BY <2>1, <2>2, <2>3, WriteStep
<1> DEFINE row == Last(log[m])
<1>2. ASSUME IsStored(m)
      PROVE  row \in Rows /\ row.of = m /\ Queued(row)
  <2>1. log[m] \in Seq(Rows)
    BY DEF CacheIInv, CacheTypeOK
  <2>2. row = log[m][Len(log[m])]
    BY DEF Last
  <2> HIDE DEF Rows, row
  <2>3. Len(log[m]) \in 1..Len(log[m])
    BY <1>2, <2>1 DEF IsStored
  <2>4. row \in Rows
    BY <2>1, <2>2, <2>3
  <2> QED
    BY <2>2, <2>3, <2>4 DEF CacheIInv, LogInv
<1> HIDE DEF row
<1>3. ASSUME Accept(m) PROVE CacheIInv'
  <2> DEFINE linked == [row EXCEPT !.kind = "linked"]
             versions == <<linked, [linked EXCEPT !.ack = "server_ack"]>>
  <2>1. IsStored(m) /\ Write(m, versions) /\ UNCHANGED clientVars
    BY <1>3 DEF Accept, row
  <2>2. /\ versions[1] \in Rows /\ versions[1].of = m /\ Queued(versions[1])
        /\ versions[2] \in Rows /\ versions[2].of = m /\ Queued(versions[2])
    BY <1>2, <2>1 DEF Queued, Acks
  <2>3. versions \in Seq(Rows) /\ Len(versions) = 2
    BY <2>2
  <2> HIDE DEF versions, linked
  <2>4. \A v \in 1..Len(versions) : versions[v].of = m /\ Queued(versions[v])
    BY <2>2, <2>3
  <2> QED
    BY <2>1, <2>3, <2>4, WriteStep
<1>4. ASSUME NEW ack \in Acks, IsStored(m), Write(m, <<[row EXCEPT !.ack = ack]>>),
             UNCHANGED clientVars, row.kind = "linked" \/ ack \in Unaccepted
      PROVE  CacheIInv'
  <2> DEFINE versions == <<[row EXCEPT !.ack = ack]>>
  <2>1. versions[1] \in Rows /\ versions[1].of = m /\ Queued(versions[1])
    BY <1>2, <1>4 DEF Queued
  <2>2. versions \in Seq(Rows) /\ Len(versions) = 1
    BY <2>1
  <2>3. Write(m, versions)
    BY <1>4
  <2> HIDE DEF versions
  <2>4. \A v \in 1..Len(versions) : versions[v].of = m /\ Queued(versions[v])
    BY <2>1, <2>2
  <2> QED
    BY <1>4, <2>2, <2>3, <2>4, WriteStep
<1>5. ASSUME RowFails(m) PROVE CacheIInv'
  <2>1. /\ "failed" \in Acks /\ "failed" \in Unaccepted /\ IsStored(m)
        /\ Write(m, <<[row EXCEPT !.ack = "failed"]>>) /\ UNCHANGED clientVars
    BY <1>5 DEF RowFails, row, Acks, Unaccepted
  <2> QED
    BY <1>4, <2>1
<1>6. ASSUME Receipt(m) PROVE CacheIInv'
  <2>1. /\ "read" \in Acks /\ IsStored(m) /\ row.ack = "server_ack"
        /\ Write(m, <<[row EXCEPT !.ack = "read"]>>) /\ UNCHANGED clientVars
    BY <1>6 DEF Receipt, row, Acks
  <2>2. row.kind = "linked"
    BY <1>2, <2>1 DEF Queued, Unaccepted
  <2> QED
    BY <1>4, <2>1, <2>2
<1> QED
  BY <1>1, <1>3, <1>5, <1>6 DEF ServerStep

(* Whatever good bubbles a step leaves in the cache, the server's rows being as they were. *)
LEMMA ShownStep ==
    ASSUME CacheIInv, CacheTypeOK', log' = log, Good(cache'), page' = page \/ page' = <<>>
    PROVE  CacheIInv'
<1>1. \A b : IsTrue(b)' <=> IsTrue(b)
  BY DEF IsTrue, Queued, HasVersion
<1>2. LogInv'
  BY DEF CacheIInv, LogInv, IsStored, Queued
<1>3. CacheInv'
  <2>1. Apart(cache')
    BY DEF Good
  <2>2. Apart(cache)'
    BY <2>1 DEF Apart, Matches, SameId, LikelySame, IsUnresolved, IsConfirmed
  <2>3. \A b \in cache' : IsTrue(b)'
    BY <1>1 DEF Good
  <2>4. page' # <<>> => \A r \in Head(page') : r.kind # "optimistic" /\ IsTrue(r)'
    BY <1>1 DEF CacheIInv, CacheInv
  <2> QED
    BY <2>2, <2>3, <2>4 DEF CacheInv
<1>4. BubblesAreTrue'
  <2>1. \A b \in cache' : IsTrue(b)' /\ \A c \in cache' : SameId(b, c) => b = c
    BY <1>1 DEF Good, Apart, Matches
  <2> QED
    BY <2>1 DEF BubblesAreTrue, IsTrue, SameId
<1> QED
  BY <1>2, <1>3, <1>4 DEF CacheIInv

(* A patch of the cache. *)
LEMMA PatchStep ==
    ASSUME CacheIInv, NEW results, \A left \in results : Good(left), Patch(results)
    PROVE  Good(cache')
<1>1. Good(cache)
  BY DEF Good, CacheIInv, CacheTypeOK, CacheInv
<1> QED
  BY <1>1 DEF Patch

(* A fetch reads the rows as they are. *)
LEMMA FetchKeeps == ASSUME CacheIInv, Fetch PROVE CacheIInv'
<1> DEFINE rows == {Last(log[m]) : m \in {k \in Outgoing : IsStored(k)}}
<1>1. \A r \in rows : r \in Bubbles /\ IsTrue(r) /\ r.kind # "optimistic"
  <2>1. ASSUME NEW m \in Outgoing, IsStored(m)
        PROVE  Last(log[m]) \in Bubbles /\ IsTrue(Last(log[m])) /\ Last(log[m]).kind # "optimistic"
    <3>1. log[m] \in Seq([of : Outgoing, kind : {"queued", "linked"}, ack : Acks])
      BY DEF CacheIInv, CacheTypeOK
    <3>2. Len(log[m]) \in 1..Len(log[m])
      BY <2>1, <3>1 DEF IsStored
    <3> QED
      BY <3>2, VersionsTrue DEF Last
  <2> QED
    BY <2>1
<1>2. /\ page' = <<rows>>
      /\ UNCHANGED <<log, seen, cache, loaded, asked, retrying, retries>>
  BY DEF Fetch, retryVars
<1> HIDE DEF rows
<1>3. page' \in Seq(SUBSET Bubbles) /\ Head(page') = rows
  BY <1>1, <1>2
<1>4. CacheTypeOK'
  BY <1>2, <1>3 DEF CacheIInv, CacheTypeOK
<1>5. LogInv' /\ BubblesAreTrue'
  BY <1>2 DEF CacheIInv, LogInv, IsStored, Queued, BubblesAreTrue, HasVersion, SameId
<1>6. \A b : IsTrue(b)' <=> IsTrue(b)
  BY <1>2 DEF IsTrue, Queued, HasVersion
<1>7. CacheInv'
  BY <1>1, <1>2, <1>3, <1>6
  DEF CacheIInv, CacheInv, Apart, Matches, SameId, LikelySame, IsUnresolved, IsConfirmed
<1> QED
  BY <1>4, <1>5, <1>7 DEF CacheIInv

(* The cache is good before a step. *)
LEMMA CacheIsGood == CacheIInv => Good(cache)
BY DEF Good, CacheIInv, CacheTypeOK, CacheInv

(* mergeMessages of useMessages.ts *)
LEMMA ReceiveKeeps == ASSUME CacheIInv, ReceivePage PROVE CacheIInv'
<1>1. PICK bubbles \in Compacted(cache) : cache' \in Compacted(Overlaid(bubbles, Head(page)))
  BY DEF ReceivePage
<1>2. /\ page # <<>> /\ page' = <<>> /\ loaded' = TRUE
      /\ UNCHANGED <<log, seen, asked, retrying, retries>>
  BY DEF ReceivePage, retryVars
<1>3. Good(bubbles)
  BY <1>1, CacheIsGood, CompactedGood DEF Good, CacheIInv
<1>4. Head(page) \in SUBSET Bubbles /\ \A r \in Head(page) : IsTrue(r)
  BY <1>2 DEF CacheIInv, CacheTypeOK, CacheInv
<1>5. Good(cache')
  <2>1. Overlaid(bubbles, Head(page)) \in SUBSET Bubbles
    BY <1>3, <1>4 DEF Overlaid, Good
  <2>2. \A b \in Overlaid(bubbles, Head(page)) : IsTrue(b)
    BY <1>3, <1>4 DEF Overlaid, Good
  <2> QED
    BY <1>1, <2>1, <2>2, CompactedGood DEF CacheIInv
<1>6. CacheTypeOK'
  <2>1. page' \in Seq(SUBSET Bubbles)
    BY <1>2
  <2> QED
    BY <1>2, <1>5, <2>1 DEF CacheIInv, CacheTypeOK, Good
<1> QED
  BY <1>2, <1>5, <1>6, ShownStep

(* A step of the browser that patches the cache, or leaves it. *)
LEMMA PatchKeeps ==
    ASSUME CacheIInv, NEW results, \A left \in results : Good(left), Patch(results),
           UNCHANGED <<log, loaded, page>>,
           seen' \in [Outgoing -> Nat], asked' \in [Own -> {"no", "sent", "answered", "failed"}],
           retrying' \in Seq(Outgoing), retries' \in 0..MaxRetries
    PROVE  CacheIInv'
<1>1. Good(cache')
  BY PatchStep
<1>2. CacheTypeOK'
  BY <1>1 DEF CacheIInv, CacheTypeOK, Good
<1> QED
  BY <1>1, <1>2, ShownStep

(* A push of Realtime. *)
LEMMA RealtimeKeeps ==
    ASSUME CacheIInv, NEW m \in Outgoing, NEW v \in 1..Len(log[m]), Realtime(m, v)
    PROVE  CacheIInv'
<1>1. \A left \in Upserted(log[m][v]) : Good(left)
  BY VersionsTrue, UpsertedGood
<1>2. /\ seen' = [seen EXCEPT ![m] = v] /\ Patch(Upserted(log[m][v]))
      /\ UNCHANGED <<log, loaded, page, asked, retrying, retries>>
  BY DEF Realtime, retryVars
<1>3. seen' \in [Outgoing -> Nat]
  BY <1>2 DEF CacheIInv, CacheTypeOK
<1> QED
  BY <1>1, <1>2, <1>3, PatchKeeps DEF CacheIInv, CacheTypeOK

(* The send form: the bubble, the answer, the failure. *)
LEMMA SendKeeps == ASSUME CacheIInv, NEW m \in Own, SendStep(m) PROVE CacheIInv'
<1>0. m \in Outgoing
  BY DEF Outgoing
<1>1. ASSUME Send(m) PROVE CacheIInv'
  <2> DEFINE bubble == Bubble(m, "optimistic", "pending")
  <2>1. bubble \in Bubbles /\ IsTrue(bubble)
    BY <1>0 DEF Bubble, Bubbles, Kinds, Acks, Unaccepted, IsTrue, Queued
  <2>2. /\ asked' = [asked EXCEPT ![m] = "sent"] /\ Patch(Upserted(bubble))
        /\ UNCHANGED <<log, seen, loaded, page, retrying, retries>>
    BY <1>1 DEF Send, retryVars
  <2> HIDE DEF bubble
  <2>3. \A left \in Upserted(bubble) : Good(left)
    BY <2>1, UpsertedGood
  <2>4. asked' \in [Own -> {"no", "sent", "answered", "failed"}]
    BY <2>2 DEF CacheIInv, CacheTypeOK
  <2> QED
    BY <2>2, <2>3, <2>4, PatchKeeps DEF CacheIInv, CacheTypeOK
<1>2. ASSUME SendAnswered(m) PROVE CacheIInv'
  <2> DEFINE draft == log[m][1]
             bubbles == {b \in cache : ~SameId(b, [draft EXCEPT !.kind = "optimistic"])
                                       /\ ~Matches(b, draft)} \cup {draft}
  <2>1. /\ IsStored(m) /\ asked' = [asked EXCEPT ![m] = "answered"] /\ Patch(Compacted(bubbles))
        /\ UNCHANGED <<log, seen, loaded, page, retrying, retries>>
    BY <1>2 DEF SendAnswered, retryVars
  <2>2. draft \in Bubbles /\ IsTrue(draft)
    <3>1. log[m] \in Seq([of : Outgoing, kind : {"queued", "linked"}, ack : Acks])
      BY <1>0 DEF CacheIInv, CacheTypeOK
    <3>2. 1 \in 1..Len(log[m])
      BY <2>1, <3>1 DEF IsStored
    <3> QED
      BY <1>0, <3>2, VersionsTrue
  <2>3. bubbles \in SUBSET Bubbles /\ \A b \in bubbles : IsTrue(b)
    BY <2>2, CacheIsGood DEF Good
  <2> HIDE DEF bubbles
  <2>4. \A left \in Compacted(bubbles) : Good(left)
    BY <2>3, CompactedGood DEF CacheIInv
  <2>5. asked' \in [Own -> {"no", "sent", "answered", "failed"}]
    BY <2>1 DEF CacheIInv, CacheTypeOK
  <2> QED
    BY <2>1, <2>4, <2>5, PatchKeeps DEF CacheIInv, CacheTypeOK
<1>3. ASSUME SendFails(m) PROVE CacheIInv'
  <2>1. /\ asked' = [asked EXCEPT ![m] = "failed"] /\ Patch(Compacted(cache))
        /\ UNCHANGED <<log, seen, loaded, page, retrying, retries>>
    BY <1>3 DEF SendFails, retryVars
  <2>2. \A left \in Compacted(cache) : Good(left)
    BY CacheIsGood, CompactedGood DEF Good, CacheIInv
  <2>3. asked' \in [Own -> {"no", "sent", "answered", "failed"}]
    BY <2>1 DEF CacheIInv, CacheTypeOK
  <2> QED
    BY <2>1, <2>2, <2>3, PatchKeeps DEF CacheIInv, CacheTypeOK
<1> QED
  BY <1>1, <1>2, <1>3 DEF SendStep

(* The retry button. *)
LEMMA RetryKeeps == ASSUME CacheIInv, NEW m \in Outgoing, RetryStep(m) PROVE CacheIInv'
<1>1. ASSUME UNCHANGED <<log, seen, cache, loaded, page, asked>>,
             retrying' \in Seq(Outgoing), retries' \in 0..MaxRetries
      PROVE  CacheIInv'
  <2>1. CacheTypeOK'
    BY <1>1 DEF CacheIInv, CacheTypeOK
  <2>2. Good(cache')
    BY <1>1, CacheIsGood
  <2> QED
    BY <1>1, <2>1, <2>2, ShownStep
<1>2. ASSUME Retry(m) PROVE CacheIInv'
  <2>1. /\ retrying' = <<m>> /\ retries < MaxRetries /\ retries' = retries + 1
        /\ UNCHANGED <<log, seen, cache, loaded, page, asked>>
    BY <1>2 DEF Retry
  <2>2. retries' \in 0..MaxRetries
    BY <2>1, CacheAssumption DEF CacheAssumption, CacheIInv, CacheTypeOK
  <2>3. retrying' \in Seq(Outgoing)
    BY <2>1
  <2> QED
    BY <1>1, <2>1, <2>2, <2>3
<1>3. ASSUME RetryRefused(m) PROVE CacheIInv'
  <2>1. retrying' = <<>> /\ UNCHANGED <<log, seen, cache, loaded, page, asked, retries>>
    BY <1>3 DEF RetryRefused
  <2>2. retrying' \in Seq(Outgoing)
    BY <2>1
  <2> QED
    BY <1>1, <2>1, <2>2 DEF CacheIInv, CacheTypeOK
<1>4. ASSUME RetryAnswered(m) PROVE CacheIInv'
  <2> DEFINE shown(b) == IF b.of = m /\ b.kind # "optimistic" THEN [b EXCEPT !.ack = "queued"]
                         ELSE b
             bubbles == {shown(b) : b \in cache}
  <2>1. /\ retrying' = <<>> /\ Patch(Compacted(bubbles))
        /\ UNCHANGED <<log, seen, loaded, page, asked, retries>>
    BY <1>4 DEF RetryAnswered
  <2>2. ASSUME NEW b \in cache PROVE shown(b) \in Bubbles /\ IsTrue(shown(b))
    <3>1. b \in Bubbles /\ IsTrue(b)
      BY CacheIsGood DEF Good
    <3>2. CASE b.of = m /\ b.kind # "optimistic"
      <4>1. HasVersion(b.of, "queued")
        BY <3>1, <3>2, FirstVersion DEF IsTrue, CacheIInv
      <4>2. /\ shown(b) \in Bubbles /\ shown(b).ack = "queued"
            /\ shown(b).of = b.of /\ shown(b).kind = b.kind
        BY <3>1, <3>2 DEF Bubbles, Acks, Unaccepted
      <4> QED
        BY <4>1, <4>2 DEF IsTrue, Queued, Unaccepted
    <3> QED
      BY <3>1, <3>2
  <2>3. bubbles \in SUBSET Bubbles /\ \A b \in bubbles : IsTrue(b)
    BY <2>2
  <2> HIDE DEF bubbles
  <2>4. \A left \in Compacted(bubbles) : Good(left)
    BY <2>3, CompactedGood DEF CacheIInv
  <2>5. retrying' \in Seq(Outgoing)
    BY <2>1
  <2> QED
    BY <2>1, <2>4, <2>5, PatchKeeps DEF CacheIInv, CacheTypeOK
<1> QED
  BY <1>2, <1>3, <1>4 DEF RetryStep

(* Whatever the server, Realtime, the polls, the send form and the retry button do and
   in whatever order, the cache stays true to the rows. *)
LEMMA CacheStep == CacheIInv /\ [CacheNext]_kvars => CacheIInv'
<1> SUFFICES ASSUME CacheIInv, [CacheNext]_kvars PROVE CacheIInv'
  OBVIOUS
<1>1. ASSUME OpenConversation \/ Poll PROVE CacheIInv'
  BY <1>1, FetchKeeps DEF OpenConversation, Poll
<1>2. CASE UNCHANGED kvars
  <2>1. UNCHANGED <<log, seen, cache, loaded, page, asked, retrying, retries>>
    BY <1>2 DEF kvars
  <2>2. CacheTypeOK'
    BY <2>1 DEF CacheIInv, CacheTypeOK
  <2> QED
    BY <2>1, <2>2, CacheIsGood, ShownStep
<1> QED
  BY <1>1, <1>2, ServerKeeps, RetryKeeps, RealtimeKeeps, SendKeeps, ReceiveKeeps DEF CacheNext

(* The inductive invariant of the browser's cache. *)
THEOREM CacheInductive == CacheSpec => []CacheIInv
<1>1. CacheInit => CacheIInv
  BY CacheInitInv
<1>2. CacheIInv /\ [CacheNext]_kvars => CacheIInv'
  BY CacheStep
<1> QED
  BY <1>1, <1>2, PTL DEF CacheSpec

(* BubblesAreTrue: a message has one bubble, with a status its own row has had. *)
THEOREM BubblesTruthful == CacheSpec => []BubblesAreTrue
<1>1. CacheIInv => BubblesAreTrue
  BY DEF CacheIInv
<1> QED
  BY <1>1, CacheInductive, PTL

===============================================================================
