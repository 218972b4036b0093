------------------------- MODULE MessageOutbox_proofs -------------------------
(***************************************************************************)
(* Proofs about the outbox, for any number of messages, workers, requests   *)
(* and retries.  The inductive invariant has two parts besides the types:   *)
(* ClaimInv, about who may send which attempt, and DisplayInv, about what   *)
(* the message row shows.  The lemmas start with the status order of the     *)
(* message row and follow that split: first what each kind of step does to    *)
(* the claims, then what it does to the display.                             *)
(***************************************************************************)
EXTENDS MessageOutbox, FiniteSetTheorems, TLAPS

(***************************************************************************)
(* What updateAckStatus does to a status, whatever the two statuses are.    *)
(***************************************************************************)

(* The ranks, and which statuses count as accepted. *)
LEMMA AckRanks ==
  /\ \A s \in AckStatuses : AckRank(s) \in 0..5
  /\ AckedStatuses = {"server_ack", "device_delivered", "read", "played"}
  /\ AckRank("server_ack") = 2
BY DEF AckStatuses, AckRank, AckedStatuses

(* updateAckStatus writes a status. *)
LEMMA UpdatedAckType ==
  ASSUME NEW c \in AckStatuses, NEW n \in AckStatuses
  PROVE  UpdatedAck(c, n) \in AckStatuses
BY DEF UpdatedAck

(* No update takes an accepted message back: its rank never falls and it stays
   accepted. *)
LEMMA UpdatedAckMonotone ==
  ASSUME NEW c \in AckedStatuses, NEW n \in AckStatuses
  PROVE  /\ UpdatedAck(c, n) \in AckedStatuses
         /\ AckRank(UpdatedAck(c, n)) >= AckRank(c)
<1>1. c \in AckStatuses /\ c # "failed" /\ c # "pending"
  BY AckRanks DEF AckStatuses
<1>2. AckRank(c) >= 2
  BY AckRanks DEF AckedStatuses
<1>3. AckRank(c) \in Nat /\ AckRank(n) \in Nat
  BY <1>1, AckRanks
<1>4. CASE AckRank(c) <= AckRank(n)
  <2>1. UpdatedAck(c, n) = n
    BY <1>4 DEF UpdatedAck
  <2>2. AckRank(n) >= AckRank("server_ack")
    BY <1>2, <1>3, <1>4, AckRanks
  <2>3. QED
    BY <2>1, <2>2, <1>3, <1>4 DEF AckedStatuses
<1>5. CASE ~(AckRank(c) <= AckRank(n))
  <2>1. UpdatedAck(c, n) = c
    BY <1>1, <1>5 DEF UpdatedAck
  <2>2. QED
    BY <2>1, <1>3
<1>6. QED
  BY <1>4, <1>5

(* A failure is reported on every message that was not accepted. *)
LEMMA FailureIsShown ==
  ASSUME NEW c \in AckStatuses
  PROVE  /\ UpdatedAck(c, "failed") # "pending"
         /\ c \notin AckedStatuses => UpdatedAck(c, "failed") = "failed"
         /\ c \in AckedStatuses => UpdatedAck(c, "failed") = c
BY AckRanks DEF UpdatedAck, AckStatuses, AckRank

(* An accepting status leaves every message accepted. *)
LEMMA AckedIsAccepted ==
  ASSUME NEW c \in AckStatuses, NEW n \in AckedStatuses
  PROVE  UpdatedAck(c, n) \in AckedStatuses
BY AckRanks DEF UpdatedAck, AckStatuses, AckRank

(* A server acknowledgement leaves every message accepted. *)
LEMMA ServerAckIsAccepted ==
  ASSUME NEW c \in AckStatuses
  PROVE  UpdatedAck(c, "server_ack") \in AckedStatuses
BY AckRanks DEF UpdatedAck, AckStatuses, AckRank

-----------------------------------------------------------------------------
(* The initial state satisfies the inductive invariant. *)
LEMMA InitIInv == Init => IInv
<1> SUFFICES ASSUME Init PROVE IInv
  OBVIOUS
<1>1. TypeOK
  BY OutboxAssumption DEF Init, TypeOK, RowStatuses, Phases, HoldsNothing, AckStatuses
<1>2. CopiesAreAttempts
  BY FS_EmptySet, OutboxAssumption DEF Init, CopiesAreAttempts
<1>3. AckedMeansLinked
  BY AckRanks DEF Init, AckedMeansLinked
<1>4. ClaimInv
  BY <1>2, OutboxAssumption
  DEF Init, ClaimInv, CurrentIsHeld, Working, ClaimsAreDistinct, ClaimsWereCounted,
      UnsentClaimsAreFresh, SentIsOnWire, HoldsNothing
<1>5. QED
  BY <1>1, <1>3, <1>4 DEF Init, IInv, DisplayInv, DispatchedIsLinked, GivenUpIsReported

(***************************************************************************)
(* Claims.                                                                 *)
(***************************************************************************)

(* A step that leaves the claims, the attempt counters and the wire alone, and
   moves an actor between phases in which it works on no row, keeps ClaimInv. *)
LEMMA IdlePhaseKeepsClaims ==
  ASSUME TypeOK, ClaimInv, NEW a \in Actors, NEW p \in Phases,
         ~Working(a), p \notin {"skip", "send", "sent", "caught"},
         pc' = [pc EXCEPT ![a] = p],
         UNCHANGED <<held, cur, attempts, wire, copies>>
  PROVE  ClaimInv'
<1>1. CurrentIsHeld'
  BY DEF TypeOK, ClaimInv, CurrentIsHeld, Working
<1>2. UnsentClaimsAreFresh' /\ SentIsOnWire'
  BY DEF TypeOK, ClaimInv, CurrentIsHeld, Working, UnsentClaimsAreFresh, SentIsOnWire
<1>3. QED
  BY <1>1, <1>2 DEF ClaimInv, ClaimsAreDistinct, ClaimsWereCounted, CopiesAreAttempts

(* Nothing ClaimInv speaks of changes. *)
LEMMA FrameKeepsClaims ==
  ASSUME ClaimInv, UNCHANGED <<pc, held, cur, attempts, wire, copies>>
  PROVE  ClaimInv'
BY DEF ClaimInv, CurrentIsHeld, Working, ClaimsAreDistinct, ClaimsWereCounted,
   UnsentClaimsAreFresh, CopiesAreAttempts, SentIsOnWire

(* A claim takes a fresh attempt number: nobody holds it and no copy was sent
   under it. *)
LEMMA ClaimByIdKeepsClaims ==
  ASSUME TypeOK, ClaimInv, NEW a \in Actors, NEW m \in Messages, NEW p \in Phases,
         ~Working(a), p \notin {"skip", "send", "sent", "caught"},
         ClaimById(a, m), pc' = [pc EXCEPT ![a] = p],
         UNCHANGED <<cur, wire, copies>>
  PROVE  ClaimInv'
<1> USE OutboxAssumption
<1>1. /\ attempts[m] \in Nat /\ attempts[m] < MaxRetries
      /\ attempts' = [attempts EXCEPT ![m] = @ + 1]
      /\ held' = [held EXCEPT ![a][m] = attempts[m] + 1]
  BY DEF TypeOK, ClaimById, IsDue
<1>2. \A b \in Actors, n \in Messages :
         held'[b][n] = IF b = a /\ n = m THEN attempts[m] + 1 ELSE held[b][n]
  BY <1>1 DEF TypeOK
<1>3. \A n \in Messages : /\ attempts[n] \in Nat
                          /\ attempts'[n] \in Nat
                          /\ attempts'[n] >= attempts[n]
                          /\ attempts'[m] = attempts[m] + 1
  BY <1>1 DEF TypeOK
<1>4. \A b \in Actors, n \in Messages : held[b][n] \in Nat /\ held[b][n] <= attempts[n]
  BY DEF TypeOK, ClaimInv, ClaimsWereCounted
<1>5. ClaimsAreDistinct'
  BY <1>1, <1>2, <1>4 DEF ClaimInv, ClaimsAreDistinct
<1>6. ClaimsWereCounted'
  BY <1>2, <1>3, <1>4 DEF ClaimsWereCounted
<1>7. CurrentIsHeld'
  <2>1. \A b \in Actors : Working(b)' <=> Working(b)
    BY DEF TypeOK, Working
  <2>2. QED
    BY <1>1, <1>2, <2>1 DEF ClaimInv, CurrentIsHeld
<1>8. UnsentClaimsAreFresh'
  <2>1. attempts[m] + 1 \notin wire[m]
    BY <1>1 DEF ClaimInv, CopiesAreAttempts
  <2>2. \A b \in Actors : (pc'[b] \in {"sent", "caught"}) <=> (pc[b] \in {"sent", "caught"})
    BY DEF TypeOK, Working
  <2>3. QED
    BY <1>2, <2>1, <2>2 DEF ClaimInv, UnsentClaimsAreFresh
<1>9. CopiesAreAttempts'
  BY <1>3 DEF TypeOK, ClaimInv, CopiesAreAttempts
<1>10. SentIsOnWire'
  <2>1. \A b \in Actors : pc'[b] = "sent" => b # a /\ pc[b] = "sent"
    BY DEF TypeOK
  <2>2. \A b \in Actors : b # a => held'[b] = held[b]
    BY <1>1 DEF TypeOK
  <2>3. QED
    BY <2>1, <2>2 DEF ClaimInv, SentIsOnWire
<1>11. QED
  BY <1>5, <1>6, <1>7, <1>8, <1>9, <1>10 DEF ClaimInv

(* A send spends the attempt number it was made under, which no copy had been
   sent under before. *)
LEMMA PutOnWireKeepsClaims ==
  ASSUME TypeOK, ClaimInv, NEW a \in Actors, NEW p \in {"sent", "caught"},
         pc[a] = "send", PutOnWire(a), pc' = [pc EXCEPT ![a] = p],
         UNCHANGED <<held, cur, attempts>>
  PROVE  ClaimInv'
<1> DEFINE m == cur[a]
           k == held[a][m]
<1> USE OutboxAssumption
<1>1. m \in Messages /\ k # 0 /\ k \in 1..MaxRetries /\ k <= attempts[m] /\ k \notin wire[m]
  <2>1. m \in Messages /\ k # 0
    BY DEF ClaimInv, CurrentIsHeld, Working
  <2>2. k \in 1..MaxRetries
    BY <2>1 DEF TypeOK
  <2>3. QED
    BY <2>1, <2>2 DEF ClaimInv, ClaimsWereCounted, UnsentClaimsAreFresh
<1>2. /\ wire' = [wire EXCEPT ![m] = @ \cup {k}]
      /\ copies' = [copies EXCEPT ![m] = @ + 1]
  BY DEF PutOnWire
<1> HIDE DEF m, k
<1>3. \A n \in Messages : wire'[n] = IF n = m THEN wire[m] \cup {k} ELSE wire[n]
  BY <1>1, <1>2 DEF TypeOK
<1>4. CopiesAreAttempts'
  <2>1. ASSUME NEW n \in Messages, n = m
        PROVE  wire'[n] \subseteq 1..attempts'[n] /\ copies'[n] = Cardinality(wire'[n])
    <3>1. wire[m] \subseteq 1..attempts[m] /\ copies[m] = Cardinality(wire[m])
      BY <1>1 DEF ClaimInv, CopiesAreAttempts
    <3>2. attempts[m] \in Nat
      BY <1>1 DEF TypeOK
    <3>3. IsFiniteSet(wire[m])
      <4>1. IsFiniteSet(1..attempts[m])
        BY <3>2, FS_Interval
      <4>2. QED
        BY <3>1, <4>1, FS_Subset
    <3>4. Cardinality(wire[m] \cup {k}) = Cardinality(wire[m]) + 1
      BY <1>1, <3>3, FS_AddElement
    <3>5. copies'[n] = copies[m] + 1
      BY <1>1, <1>2, <2>1 DEF TypeOK
    <3>6. QED
      BY <1>1, <1>3, <2>1, <3>1, <3>2, <3>4, <3>5
  <2>2. ASSUME NEW n \in Messages, n # m
        PROVE  wire'[n] \subseteq 1..attempts'[n] /\ copies'[n] = Cardinality(wire'[n])
    <3>1. copies'[n] = copies[n]
      BY <1>2, <2>2 DEF TypeOK
    <3>2. QED
      BY <1>3, <2>2, <3>1 DEF ClaimInv, CopiesAreAttempts
  <2>3. QED
    BY <2>1, <2>2 DEF CopiesAreAttempts
<1>5. UnsentClaimsAreFresh'
  <2> SUFFICES ASSUME NEW b \in Actors, NEW n \in Messages,
                      held[b][n] # 0, ~(cur[b] = n /\ pc'[b] \in {"sent", "caught"})
               PROVE  held[b][n] \notin wire'[n]
    BY DEF UnsentClaimsAreFresh
  <2>1. ~(cur[b] = n /\ pc[b] \in {"sent", "caught"})
    BY DEF TypeOK
  <2>2. held[b][n] \notin wire[n]
    BY <2>1 DEF ClaimInv, UnsentClaimsAreFresh
  <2>3. CASE b = a /\ n = m
    BY <2>3 DEF TypeOK, m
  <2>4. CASE b # a /\ n = m
    <3>1. held[b][n] # k
      BY <1>1, <2>4 DEF ClaimInv, ClaimsAreDistinct, k
    <3>2. QED
      BY <1>3, <2>2, <2>4, <3>1
  <2>5. CASE n # m
    BY <1>3, <2>2, <2>5
  <2>6. QED
    BY <2>3, <2>4, <2>5
<1>6. SentIsOnWire'
  <2> SUFFICES ASSUME NEW b \in Actors, pc'[b] = "sent"
               PROVE  held[b][cur[b]] \in wire'[cur[b]]
    BY DEF SentIsOnWire
  <2>1. CASE b = a
    BY <1>1, <1>3, <2>1 DEF m, k
  <2>2. CASE b # a
    <3>1. pc[b] = "sent"
      BY <2>2 DEF TypeOK
    <3>2. cur[b] \in Messages /\ held[b][cur[b]] \in wire[cur[b]]
      BY <3>1 DEF ClaimInv, CurrentIsHeld, Working, SentIsOnWire
    <3>3. QED
      BY <1>3, <3>2
  <2>3. QED
    BY <2>1, <2>2
<1>7. CurrentIsHeld'
  BY DEF TypeOK, ClaimInv, CurrentIsHeld, Working
<1>8. QED
  BY <1>4, <1>5, <1>6, <1>7 DEF ClaimInv, ClaimsAreDistinct, ClaimsWereCounted

(* processJob returns, whatever became of the row. *)
LEMMA FinishJobKeepsClaims ==
  ASSUME TypeOK, ClaimInv, NEW a \in Actors, Working(a), FinishJob(a),
         UNCHANGED <<attempts, wire, copies>>
  PROVE  ClaimInv'
<1> USE OutboxAssumption
<1>1. cur[a] \in Messages
  BY DEF ClaimInv, CurrentIsHeld
<1>2. /\ pc' = [pc EXCEPT ![a] = "run"]
      /\ held' = [held EXCEPT ![a][cur[a]] = 0]
      /\ cur' = [cur EXCEPT ![a] = NoMessage]
  BY DEF FinishJob, Goto
<1>3. \A b \in Actors, n \in Messages :
         held'[b][n] = IF b = a /\ n = cur[a] THEN 0 ELSE held[b][n]
  BY <1>1, <1>2 DEF TypeOK
<1>4. \A b \in Actors : b # a => pc'[b] = pc[b] /\ cur'[b] = cur[b] /\ held'[b] = held[b]
  BY <1>2 DEF TypeOK
<1>5. pc'[a] = "run" /\ cur'[a] = NoMessage
  BY <1>2 DEF TypeOK
<1>6. CurrentIsHeld' /\ SentIsOnWire'
  BY <1>4, <1>5 DEF ClaimInv, CurrentIsHeld, Working, SentIsOnWire
<1>7. ClaimsAreDistinct'
  BY <1>3 DEF ClaimInv, ClaimsAreDistinct
<1>8. ClaimsWereCounted'
  BY <1>3 DEF TypeOK, ClaimInv, ClaimsWereCounted
<1>9. UnsentClaimsAreFresh'
  BY <1>3, <1>4, <1>5 DEF ClaimInv, UnsentClaimsAreFresh
<1>10. QED
  BY <1>6, <1>7, <1>8, <1>9 DEF ClaimInv, CopiesAreAttempts

(* processJob moves on with the row it works on, without a send. *)
LEMMA JobPhaseKeepsClaims ==
  ASSUME TypeOK, ClaimInv, NEW a \in Actors,
         pc[a] \in {"skip", "send", "sent"}, pc' = [pc EXCEPT ![a] = "caught"],
         UNCHANGED <<held, cur, attempts, wire, copies>>
  PROVE  ClaimInv'
<1>1. CurrentIsHeld' /\ SentIsOnWire'
  BY DEF TypeOK, ClaimInv, CurrentIsHeld, Working, SentIsOnWire
<1>2. UnsentClaimsAreFresh'
  BY DEF TypeOK, ClaimInv, UnsentClaimsAreFresh
<1>3. QED
  BY <1>1, <1>2 DEF ClaimInv, ClaimsAreDistinct, ClaimsWereCounted, CopiesAreAttempts

(* processJob starts on a row the actor holds. *)
LEMMA StartJobKeepsClaims ==
  ASSUME TypeOK, ClaimInv, NEW a \in Actors, NEW m \in Messages, StartJob(a, m)
  PROVE  ClaimInv'
<1>1. /\ pc[a] = "run" /\ held[a][m] # 0
      /\ cur' = [cur EXCEPT ![a] = m]
      /\ \E p \in {"skip", "send"} : pc' = [pc EXCEPT ![a] = p]
      /\ UNCHANGED <<held, attempts, wire, copies>>
  BY DEF StartJob, Goto, rowVars, envVars
<1>2. CurrentIsHeld' /\ SentIsOnWire'
  BY <1>1 DEF TypeOK, ClaimInv, CurrentIsHeld, Working, SentIsOnWire
<1>3. UnsentClaimsAreFresh'
  <2>1. \A b \in Actors : b # a => pc'[b] = pc[b] /\ cur'[b] = cur[b]
    BY <1>1 DEF TypeOK
  <2>2. \A n \in Messages : held[a][n] # 0 => held[a][n] \notin wire[n]
    BY <1>1 DEF ClaimInv, UnsentClaimsAreFresh
  <2>3. QED
    BY <1>1, <2>1, <2>2 DEF ClaimInv, UnsentClaimsAreFresh
<1>4. QED
  BY <1>1, <1>2, <1>3 DEF ClaimInv, ClaimsAreDistinct, ClaimsWereCounted, CopiesAreAttempts

(* A crash drops the claims an actor held; their attempt numbers are lost. *)
LEMMA CrashKeepsClaims ==
  ASSUME TypeOK, ClaimInv, NEW a \in Actors, Crash(a)
  PROVE  ClaimInv'
<1>1. /\ held' = [held EXCEPT ![a] = HoldsNothing]
      /\ cur' = [cur EXCEPT ![a] = NoMessage]
      /\ pc' = [pc EXCEPT ![a] = "idle"]
      /\ UNCHANGED <<attempts, wire, copies>>
  BY DEF Crash, Goto, rowVars, envVars
<1>2. /\ \A n \in Messages : held'[a][n] = 0
      /\ pc'[a] = "idle" /\ cur'[a] = NoMessage
      /\ \A b \in Actors : b # a => pc'[b] = pc[b] /\ cur'[b] = cur[b] /\ held'[b] = held[b]
  BY <1>1 DEF TypeOK, HoldsNothing
<1>3. CurrentIsHeld' /\ SentIsOnWire'
  BY <1>1, <1>2 DEF ClaimInv, CurrentIsHeld, Working, SentIsOnWire
<1>4. ClaimsAreDistinct' /\ UnsentClaimsAreFresh'
  BY <1>1, <1>2 DEF ClaimInv, ClaimsAreDistinct, UnsentClaimsAreFresh
<1>5. ClaimsWereCounted'
  BY <1>1, <1>2, OutboxAssumption DEF TypeOK, ClaimInv, ClaimsWereCounted
<1>6. QED
  BY <1>1, <1>3, <1>4, <1>5 DEF ClaimInv, CopiesAreAttempts

(***************************************************************************)
(* The display.                                                            *)
(***************************************************************************)

(* The rows stay as they are; WhatsApp may get more copies. *)
LEMMA FrameKeepsDisplay ==
  ASSUME DisplayInv, UNCHANGED <<status, nextAttempt, ack, extId, deleted>>,
         \A m \in Messages : wire[m] \subseteq wire'[m]
  PROVE  DisplayInv'
BY DEF DisplayInv, AckedMeansLinked, DispatchedIsLinked, GivenUpIsReported

(* Reporting a failure, and closing or rescheduling the row. *)
LEMMA ReportedFailureKeepsDisplay ==
  ASSUME TypeOK, DisplayInv, NEW m \in Messages, NEW next \in {"null", "future"},
         MarkFailed(m, next), UpdateAckStatus(m, "failed"),
         UNCHANGED <<extId, deleted, wire>>
  PROVE  DisplayInv'
<1>1. \A n \in Messages : /\ ack'[n] \in AckedStatuses <=> ack[n] \in AckedStatuses
                          /\ n # m => ack'[n] = ack[n]
                          /\ ack'[m] # "pending"
  BY FailureIsShown, AckRanks DEF TypeOK, UpdateAckStatus
<1>2. QED
  BY <1>1 DEF TypeOK, MarkFailed, DisplayInv, AckedMeansLinked, DispatchedIsLinked,
     GivenUpIsReported

(* The row is linked to a copy WhatsApp has and acknowledged. *)
LEMMA LinkKeepsDisplay ==
  ASSUME TypeOK, DisplayInv, NEW m \in Messages, NEW k \in wire[m],
         extId' = [extId EXCEPT ![m] = k], UpdateAckStatus(m, "server_ack"),
         MarkDispatched(m) \/ UNCHANGED <<status, nextAttempt>>,
         UNCHANGED <<deleted, wire>>
  PROVE  DisplayInv'
<1>1. k # 0
  BY OutboxAssumption DEF TypeOK
<1>2. ack'[m] \in AckedStatuses /\ \A n \in Messages : n # m => ack'[n] = ack[n]
  BY ServerAckIsAccepted DEF TypeOK, UpdateAckStatus
<1>3. extId'[m] = k /\ \A n \in Messages : n # m => extId'[n] = extId[n]
  BY DEF TypeOK
<1>4. /\ \A n \in Messages : n # m => status'[n] = status[n]
      /\ \A n \in Messages : nextAttempt'[n] = nextAttempt[n]
  BY DEF TypeOK, MarkDispatched
<1>5. AckedMeansLinked'
  BY <1>1, <1>2, <1>3 DEF DisplayInv, AckedMeansLinked
<1>6. DispatchedIsLinked'
  BY <1>1, <1>3, <1>4 DEF DisplayInv, DispatchedIsLinked
<1>7. GivenUpIsReported'
  BY <1>2, <1>4, AckRanks DEF DisplayInv, GivenUpIsReported
<1>8. QED
  BY <1>5, <1>6, <1>7 DEF DisplayInv

(***************************************************************************)
(* Types: what the repositories' statements leave in the columns.           *)
(***************************************************************************)
RowTypes ==
  /\ status \in [Messages -> RowStatuses]
  /\ attempts \in [Messages -> 0..MaxRetries]
  /\ nextAttempt \in [Messages -> {"null", "future", "past"}]
  /\ lastError \in [Messages -> BOOLEAN]
  /\ stale \in [Messages -> BOOLEAN]

(* updateAckStatus. *)
LEMMA UpdateAckStatusType ==
  ASSUME TypeOK, NEW m \in Messages, NEW next \in AckStatuses, UpdateAckStatus(m, next)
  PROVE  ack' \in [Messages -> AckStatuses] /\ failedAt' \in [Messages -> BOOLEAN]
<1>1. ack[m] \in AckStatuses
  BY DEF TypeOK
<1>2. UpdatedAck(ack[m], next) \in AckStatuses /\ UpdatedFailedAt(next) \in BOOLEAN
  BY <1>1, UpdatedAckType DEF UpdatedFailedAt
<1>3. QED
  BY <1>2 DEF TypeOK, UpdateAckStatus

(* claimById, markDispatched and markFailed. *)
LEMMA RowUpdateType ==
  ASSUME TypeOK, NEW m \in Messages, NEW a \in Actors,
         \/ ClaimById(a, m)
         \/ MarkDispatched(m)
         \/ MarkFailed(m, "null")
         \/ MarkFailed(m, "future")
  PROVE  RowTypes'
<1>1. CASE ClaimById(a, m)
  <2>1. attempts[m] + 1 \in 0..MaxRetries
    BY <1>1, OutboxAssumption DEF TypeOK, ClaimById, IsDue
  <2>2. attempts' \in [Messages -> 0..MaxRetries]
    BY <1>1, <2>1 DEF TypeOK, ClaimById
  <2>3. status' \in [Messages -> RowStatuses] /\ stale' \in [Messages -> BOOLEAN]
    BY <1>1 DEF TypeOK, RowStatuses, ClaimById
  <2>4. nextAttempt' = nextAttempt /\ lastError' = lastError
    BY <1>1 DEF ClaimById
  <2>5. QED
    BY <2>2, <2>3, <2>4 DEF TypeOK, RowTypes
<1>2. CASE MarkDispatched(m)
  BY <1>2 DEF TypeOK, RowTypes, RowStatuses, MarkDispatched
<1>3. ASSUME NEW next \in {"null", "future"}, MarkFailed(m, next)
      PROVE  RowTypes'
  BY <1>3 DEF TypeOK, RowTypes, RowStatuses, MarkFailed
<1>4. QED
  BY <1>1, <1>2, <1>3

(* The end of processJob. *)
LEMMA FinishJobType ==
  ASSUME TypeOK, NEW a \in Actors, cur[a] \in Messages, FinishJob(a)
  PROVE  /\ pc' \in [Actors -> Phases]
         /\ held' \in [Actors -> [Messages -> 0..MaxRetries]]
         /\ cur' \in [Actors -> Messages \cup {NoMessage}]
<1>1. pc' \in [Actors -> Phases]
  BY DEF TypeOK, FinishJob, Goto, Phases
<1>2. held' \in [Actors -> [Messages -> 0..MaxRetries]]
  <2>1. [held[a] EXCEPT ![cur[a]] = 0] \in [Messages -> 0..MaxRetries]
    BY OutboxAssumption DEF TypeOK
  <2>2. QED
    BY <2>1 DEF TypeOK, FinishJob
<1>3. cur' \in [Actors -> Messages \cup {NoMessage}]
  BY DEF TypeOK, FinishJob
<1>4. QED
  BY <1>1, <1>2, <1>3

(* The attempt number a claim hands out. *)
LEMMA ClaimedHeldType ==
  ASSUME TypeOK, NEW a \in Actors, NEW m \in Messages, ClaimById(a, m)
  PROVE  held' \in [Actors -> [Messages -> 0..MaxRetries]]
<1>1. attempts[m] + 1 \in 0..MaxRetries
  BY OutboxAssumption DEF TypeOK, ClaimById, IsDue
<1>2. [held[a] EXCEPT ![m] = attempts[m] + 1] \in [Messages -> 0..MaxRetries]
  BY <1>1 DEF TypeOK
<1>3. QED
  BY <1>2 DEF TypeOK, ClaimById

(* A claim shows nothing. *)
LEMMA ClaimByIdKeepsDisplay ==
  ASSUME TypeOK, DisplayInv, NEW a \in Actors, NEW m \in Messages, ClaimById(a, m),
         UNCHANGED <<ack, extId, deleted, wire>>
  PROVE  DisplayInv'
BY DEF TypeOK, ClaimById, DisplayInv, AckedMeansLinked, DispatchedIsLinked, GivenUpIsReported

(* enqueuePendingDraftRepair. *)
LEMMA DraftRepairType ==
  ASSUME TypeOK, NEW m \in Messages, EnqueuePendingDraftRepair(m)
  PROVE  /\ status' \in [Messages -> RowStatuses]
         /\ ack' \in [Messages -> AckStatuses] /\ failedAt' \in [Messages -> BOOLEAN]
<1>1. CASE m \notin Unaddressed
  BY <1>1 DEF TypeOK, EnqueuePendingDraftRepair, RowStatuses
<1>2. CASE m \in Unaddressed
  <2>1. UpdateAckStatus(m, "failed") /\ status' = status
    BY <1>2 DEF EnqueuePendingDraftRepair
  <2>2. QED
    BY <2>1, UpdateAckStatusType DEF TypeOK, AckStatuses
<1>3. QED
  BY <1>1, <1>2

(* A repaired draft shows as pending, a lost one as failed. *)
LEMMA DraftRepairKeepsDisplay ==
  ASSUME TypeOK, DisplayInv, NEW m \in Messages, EnqueuePendingDraftRepair(m),
         UNCHANGED <<nextAttempt, extId, deleted, wire>>
  PROVE  DisplayInv'
<1>1. \A n \in Messages : /\ ack'[n] \in AckedStatuses <=> ack[n] \in AckedStatuses
                          /\ ack'[n] = "pending" => ack[n] = "pending"
  BY FailureIsShown, AckRanks DEF TypeOK, EnqueuePendingDraftRepair, UpdateAckStatus
<1>2. \A n \in Messages : status'[n] = status[n] \/ status'[n] = "pending"
  BY DEF TypeOK, EnqueuePendingDraftRepair
<1>3. QED
  BY <1>1, <1>2 DEF DisplayInv, AckedMeansLinked, DispatchedIsLinked, GivenUpIsReported

(***************************************************************************)
(* Steps: types, claims and display, one action at a time.                 *)
(***************************************************************************)

(* The worker's loop. *)
LEMMA WorkerStepKeepsIInv ==
  ASSUME IInv, NEW a \in Actors, WorkerStep(a)
  PROVE  IInv'
<1> USE OutboxAssumption
<1>0. TypeOK /\ ClaimInv /\ DisplayInv
  BY DEF IInv
<1>1. CASE ResetStaleProcessing(a)
  <2>1. TypeOK'
    BY <1>0, <1>1 DEF TypeOK, ResetStaleProcessing, Goto, Phases, RowStatuses, msgVars, envVars
  <2>2. ClaimInv'
    BY <1>0, <1>1, IdlePhaseKeepsClaims
    DEF ResetStaleProcessing, Goto, Phases, Working, envVars
  <2>3. DisplayInv'
    BY <1>0, <1>1 DEF TypeOK, ResetStaleProcessing, DisplayInv, AckedMeansLinked,
       DispatchedIsLinked, GivenUpIsReported, msgVars, envVars
  <2>4. QED
    BY <2>1, <2>2, <2>3 DEF IInv
<1>2. ASSUME NEW m \in Messages, RepairListedDraft(a, m)
      PROVE  IInv'
  <2>1. EnqueuePendingDraftRepair(m)
    BY <1>2 DEF RepairListedDraft
  <2>2. TypeOK'
    <3>1. /\ status' \in [Messages -> RowStatuses]
          /\ ack' \in [Messages -> AckStatuses] /\ failedAt' \in [Messages -> BOOLEAN]
      BY <1>0, <2>1, DraftRepairType
    <3>2. QED
      BY <1>0, <1>2, <3>1 DEF TypeOK, RepairListedDraft, envVars
  <2>3. ClaimInv'
    BY <1>0, <1>2, FrameKeepsClaims DEF RepairListedDraft, envVars
  <2>4. DisplayInv'
    BY <1>0, <1>2, <2>1, DraftRepairKeepsDisplay DEF RepairListedDraft, envVars
  <2>5. QED
    BY <2>2, <2>3, <2>4 DEF IInv
<1>3. CASE \/ ListRepairableDrafts(a) \/ ListExhaustedOpenJobs(a) \/ ListDueJobs(a)
           \/ StartBatch(a) \/ EndBatch(a)
  <2>1. /\ UNCHANGED <<rowVars, msgVars, held, cur, failure, envVars>>
        /\ todo' \in [Actors -> SUBSET Messages]
        /\ pc[a] \notin {"skip", "send", "sent", "caught"}
        /\ \E p \in {"repair", "finalize", "claim", "run", "idle"} : pc' = [pc EXCEPT ![a] = p]
    <3>1. CASE ListExhaustedOpenJobs(a)
      BY <1>0, <3>1 DEF TypeOK, ListExhaustedOpenJobs, Goto
    <3>2. CASE ListDueJobs(a)
      BY <1>0, <3>2 DEF TypeOK, ListDueJobs, Goto
    <3>3. CASE StartBatch(a)
      BY <1>0, <3>3 DEF TypeOK, StartBatch, Goto
    <3>4. CASE EndBatch(a)
      BY <1>0, <3>4 DEF TypeOK, EndBatch, Goto
    <3>5. CASE ListRepairableDrafts(a)
      BY <1>0, <3>5 DEF TypeOK, ListRepairableDrafts, Goto
    <3>6. QED
      BY <1>3, <3>1, <3>2, <3>3, <3>4, <3>5
  <2>2. TypeOK'
    BY <1>0, <2>1 DEF TypeOK, Phases, rowVars, msgVars, envVars
  <2>3. ClaimInv'
    BY <1>0, <2>1, IdlePhaseKeepsClaims DEF Working, Phases, rowVars, envVars
  <2>4. DisplayInv'
    BY <1>0, <2>1, FrameKeepsDisplay DEF rowVars, msgVars, envVars
  <2>5. QED
    BY <2>2, <2>3, <2>4 DEF IInv
<1>4. ASSUME NEW m \in Messages, FinalizeExhaustedJob(a, m)
      PROVE  IInv'
  <2>1. TypeOK'
    <3>1. ack' \in [Messages -> AckStatuses] /\ failedAt' \in [Messages -> BOOLEAN]
      BY <1>0, <1>4, UpdateAckStatusType DEF FinalizeExhaustedJob, AckStatuses
    <3>2. RowTypes'
      BY <1>0, <1>4, RowUpdateType DEF FinalizeExhaustedJob
    <3>3. QED
      BY <1>0, <1>4, <3>1, <3>2 DEF TypeOK, RowTypes, FinalizeExhaustedJob, envVars
  <2>2. ClaimInv'
    BY <1>0, <1>4, FrameKeepsClaims DEF FinalizeExhaustedJob, MarkFailed, envVars
  <2>3. DisplayInv'
    BY <1>0, <1>4, ReportedFailureKeepsDisplay DEF FinalizeExhaustedJob, envVars
  <2>4. QED
    BY <2>1, <2>2, <2>3 DEF IInv
<1>5. ASSUME NEW m \in Messages, ClaimListedJob(a, m)
      PROVE  IInv'
  <2>1. CASE ClaimById(a, m)
    <3>1. TypeOK'
      <4>1. RowTypes' /\ held' \in [Actors -> [Messages -> 0..MaxRetries]]
        BY <1>0, <2>1, RowUpdateType, ClaimedHeldType
      <4>2. QED
        BY <1>0, <1>5, <4>1 DEF TypeOK, RowTypes, ClaimListedJob, msgVars, envVars
    <3>2. ClaimInv'
      <4>1. pc' = [pc EXCEPT ![a] = "claim"] /\ ~Working(a) /\ "claim" \in Phases
        BY <1>0, <1>5 DEF TypeOK, ClaimListedJob, Working, Phases
      <4>2. UNCHANGED <<cur, wire, copies>>
        BY <1>5 DEF ClaimListedJob, envVars
      <4>3. QED
        BY <1>0, <2>1, <4>1, <4>2, ClaimByIdKeepsClaims
    <3>3. DisplayInv'
      BY <1>0, <1>5, <2>1, ClaimByIdKeepsDisplay DEF ClaimListedJob, msgVars, envVars
    <3>4. QED
      BY <3>1, <3>2, <3>3 DEF IInv
  <2>2. CASE UNCHANGED <<rowVars, held>>
    <3>1. TypeOK'
      BY <1>0, <1>5, <2>2 DEF TypeOK, ClaimListedJob, rowVars, msgVars, envVars
    <3>2. ClaimInv'
      BY <1>0, <1>5, <2>2, FrameKeepsClaims DEF ClaimListedJob, rowVars, envVars
    <3>3. DisplayInv'
      BY <1>0, <1>5, <2>2, FrameKeepsDisplay DEF ClaimListedJob, rowVars, msgVars, envVars
    <3>4. QED
      BY <3>1, <3>2, <3>3 DEF IInv
  <2>3. QED
    BY <1>5, <2>1, <2>2 DEF ClaimListedJob
<1>6. QED
  BY <1>1, <1>2, <1>3, <1>4, <1>5 DEF WorkerStep

(* processJob. *)
LEMMA JobStepKeepsIInv ==
  ASSUME IInv, NEW a \in Actors, JobStep(a)
  PROVE  IInv'
<1> USE OutboxAssumption
<1>0. TypeOK /\ ClaimInv /\ DisplayInv
  BY DEF IInv
<1>1. Working(a) => cur[a] \in Messages /\ held[a][cur[a]] # 0
  BY <1>0 DEF ClaimInv, CurrentIsHeld
<1>2. ASSUME NEW m \in Messages, StartJob(a, m)
      PROVE  IInv'
  <2>1. TypeOK'
    BY <1>0, <1>2 DEF TypeOK, StartJob, Goto, Phases, rowVars, msgVars, envVars
  <2>2. ClaimInv'
    BY <1>0, <1>2, StartJobKeepsClaims
  <2>3. DisplayInv'
    BY <1>0, <1>2, FrameKeepsDisplay DEF StartJob, rowVars, msgVars, envVars
  <2>4. QED
    BY <2>1, <2>2, <2>3 DEF IInv
<1>3. CASE SkipAutoReply(a)
  <2>1. Working(a) /\ cur[a] \in Messages
    BY <1>1, <1>3 DEF SkipAutoReply, Working
  <2>2. TypeOK'
    <3>1. ack' \in [Messages -> AckStatuses] /\ failedAt' \in [Messages -> BOOLEAN]
      BY <1>0, <1>3, <2>1, UpdateAckStatusType DEF SkipAutoReply, AckStatuses
    <3>2. RowTypes'
      BY <1>0, <1>3, <2>1, RowUpdateType DEF SkipAutoReply
    <3>3. /\ pc' \in [Actors -> Phases]
          /\ held' \in [Actors -> [Messages -> 0..MaxRetries]]
          /\ cur' \in [Actors -> Messages \cup {NoMessage}]
      BY <1>0, <1>3, <2>1, FinishJobType DEF SkipAutoReply
    <3>4. QED
      BY <1>0, <1>3, <2>1, <3>1, <3>2, <3>3 DEF TypeOK, RowTypes, SkipAutoReply, envVars
  <2>3. ClaimInv'
    BY <1>0, <1>3, <2>1, FinishJobKeepsClaims DEF SkipAutoReply, MarkDispatched, envVars
  <2>4. DisplayInv'
    <3>1. \A n \in Messages : /\ ack'[n] \in AckedStatuses <=> ack[n] \in AckedStatuses
                              /\ ack'[n] = "pending" => ack[n] = "pending"
      BY <1>0, <1>3, <2>1, FailureIsShown, AckRanks DEF TypeOK, SkipAutoReply, UpdateAckStatus
    <3>2. QED
      BY <1>0, <1>3, <2>1, <3>1 DEF TypeOK, SkipAutoReply, MarkDispatched, DisplayInv,
         AckedMeansLinked, DispatchedIsLinked, GivenUpIsReported, envVars
  <2>5. QED
    BY <2>2, <2>3, <2>4 DEF IInv
<1>4. CASE ConnectorAccepts(a) \/ ConnectorAnswerLost(a)
  <2>1. /\ pc[a] = "send" /\ PutOnWire(a)
        /\ \E p \in {"sent", "caught"} : pc' = [pc EXCEPT ![a] = p]
        /\ failure' \in [Actors -> FailureClasses \cup {"none"}]
        /\ UNCHANGED <<rowVars, msgVars, todo, held, cur>>
    BY <1>0, <1>4 DEF TypeOK, ConnectorAccepts, ConnectorAnswerLost, Goto, FailureClasses
  <2>2. cur[a] \in Messages /\ held[a][cur[a]] \in 1..MaxRetries
    <3>1. cur[a] \in Messages /\ held[a][cur[a]] # 0
      BY <1>1, <2>1 DEF Working
    <3>2. QED
      BY <1>0, <3>1 DEF TypeOK
  <2>3. TypeOK'
    <3>1. wire' \in [Messages -> SUBSET (1..MaxRetries)] /\ copies' \in [Messages -> Nat]
      BY <1>0, <2>1, <2>2 DEF TypeOK, PutOnWire
    <3>2. pc' \in [Actors -> Phases]
      BY <1>0, <2>1 DEF TypeOK, Phases
    <3>3. QED
      BY <1>0, <2>1, <3>1, <3>2 DEF TypeOK, PutOnWire, rowVars, msgVars
  <2>4. ClaimInv'
    BY <1>0, <2>1, PutOnWireKeepsClaims DEF rowVars
  <2>5. DisplayInv'
    <3>1. \A m \in Messages : wire[m] \subseteq wire'[m]
      BY <1>0, <2>1, <2>2 DEF TypeOK, PutOnWire
    <3>2. QED
      BY <1>0, <2>1, <3>1, FrameKeepsDisplay DEF rowVars, msgVars
  <2>6. QED
    BY <2>3, <2>4, <2>5 DEF IInv
<1>5. CASE (\E class \in FailureClasses : ConnectorRejects(a, class)) \/ TransactionFails(a)
  <2>1. /\ pc[a] \in {"skip", "send", "sent"}
        /\ pc' = [pc EXCEPT ![a] = "caught"]
        /\ failure' \in [Actors -> FailureClasses \cup {"none"}]
        /\ UNCHANGED <<rowVars, msgVars, todo, held, cur, envVars>>
    BY <1>0, <1>5 DEF TypeOK, ConnectorRejects, TransactionFails, Goto, FailureClasses
  <2>2. TypeOK'
    BY <1>0, <2>1 DEF TypeOK, Phases, rowVars, msgVars, envVars
  <2>3. ClaimInv'
    BY <1>0, <2>1, JobPhaseKeepsClaims DEF rowVars, envVars
  <2>4. DisplayInv'
    BY <1>0, <2>1, FrameKeepsDisplay DEF rowVars, msgVars, envVars
  <2>5. QED
    BY <2>2, <2>3, <2>4 DEF IInv
<1>6. CASE CommitDispatch(a)
  <2>1. /\ Working(a) /\ cur[a] \in Messages
        /\ held[a][cur[a]] \in wire[cur[a]]
    BY <1>0, <1>1, <1>6 DEF CommitDispatch, Working, ClaimInv, SentIsOnWire
  <2>2. TypeOK'
    <3>1. ack' \in [Messages -> AckStatuses] /\ failedAt' \in [Messages -> BOOLEAN]
      BY <1>0, <1>6, <2>1, UpdateAckStatusType DEF CommitDispatch, AckStatuses
    <3>2. RowTypes'
      BY <1>0, <1>6, <2>1, RowUpdateType DEF CommitDispatch
    <3>3. /\ pc' \in [Actors -> Phases]
          /\ held' \in [Actors -> [Messages -> 0..MaxRetries]]
          /\ cur' \in [Actors -> Messages \cup {NoMessage}]
      BY <1>0, <1>6, <2>1, FinishJobType DEF CommitDispatch
    <3>4. extId' \in [Messages -> 0..MaxRetries]
      <4>1. held[a][cur[a]] \in 0..MaxRetries
        BY <1>0, <2>1 DEF TypeOK
      <4>2. QED
        BY <1>0, <1>6, <2>1, <4>1 DEF TypeOK, CommitDispatch
    <3>5. /\ deleted' = deleted /\ todo' = todo /\ failure' = failure
          /\ UNCHANGED <<replied, wire, copies, requeues>>
      BY <1>6 DEF CommitDispatch, envVars
    <3>6. QED
      BY <1>0, <3>1, <3>2, <3>3, <3>4, <3>5 DEF TypeOK, RowTypes
  <2>3. ClaimInv'
    BY <1>0, <1>6, <2>1, FinishJobKeepsClaims DEF CommitDispatch, MarkDispatched, envVars
  <2>4. DisplayInv'
    BY <1>0, <1>6, <2>1, LinkKeepsDisplay DEF CommitDispatch, envVars
  <2>5. QED
    BY <2>2, <2>3, <2>4 DEF IInv
<1>7. CASE RecordFailure(a)
  <2> DEFINE next == IF WillRetry(a) THEN "future" ELSE "null"
  <2>1. Working(a) /\ cur[a] \in Messages
    BY <1>1, <1>7 DEF RecordFailure, Working
  <2>2. /\ MarkFailed(cur[a], next) /\ next \in {"null", "future"}
        /\ FinishJob(a)
        /\ failure' \in [Actors -> FailureClasses \cup {"none"}]
        /\ UNCHANGED <<extId, deleted, todo, envVars>>
        /\ \/ next = "future" /\ UNCHANGED <<ack, failedAt>>
           \/ UpdateAckStatus(cur[a], "failed")
    BY <1>0, <1>7 DEF TypeOK, RecordFailure
  <2> HIDE DEF next
  <2>3. TypeOK'
    <3>1. ack' \in [Messages -> AckStatuses] /\ failedAt' \in [Messages -> BOOLEAN]
      <4>1. CASE UNCHANGED <<ack, failedAt>>
        BY <1>0, <4>1 DEF TypeOK
      <4>2. CASE UpdateAckStatus(cur[a], "failed")
        BY <1>0, <2>1, <4>2, UpdateAckStatusType DEF AckStatuses
      <4>3. QED
        BY <2>2, <4>1, <4>2
    <3>2. RowTypes'
      BY <1>0, <2>1, <2>2, RowUpdateType
    <3>3. /\ pc' \in [Actors -> Phases]
          /\ held' \in [Actors -> [Messages -> 0..MaxRetries]]
          /\ cur' \in [Actors -> Messages \cup {NoMessage}]
      BY <1>0, <2>1, <2>2, FinishJobType
    <3>4. QED
      BY <1>0, <2>2, <3>1, <3>2, <3>3 DEF TypeOK, RowTypes, envVars
  <2>4. ClaimInv'
    BY <1>0, <2>1, <2>2, FinishJobKeepsClaims DEF MarkFailed, envVars
  <2>5. DisplayInv'
    <3>1. CASE next = "future" /\ UNCHANGED <<ack, failedAt>>
      BY <1>0, <2>1, <2>2, <3>1 DEF TypeOK, MarkFailed, DisplayInv, AckedMeansLinked,
         DispatchedIsLinked, GivenUpIsReported, envVars
    <3>2. CASE UpdateAckStatus(cur[a], "failed")
      BY <1>0, <2>1, <2>2, <3>2, ReportedFailureKeepsDisplay DEF envVars
    <3>3. QED
      BY <2>2, <3>1, <3>2
  <2>6. QED
    BY <2>3, <2>4, <2>5 DEF IInv
<1>8. QED
  BY <1>2, <1>3, <1>4, <1>5, <1>6, <1>7 DEF JobStep

(* The API requests. *)
LEMMA CallerStepKeepsIInv ==
  ASSUME IInv, NEW a \in Actors, CallerStep(a)
  PROVE  IInv'
<1> USE OutboxAssumption
<1>0. TypeOK /\ ClaimInv /\ DisplayInv
  BY DEF IInv
<1>1. ASSUME NEW m \in Messages, DrainOne(a, m)
      PROVE  IInv'
  <2>1. pc' = [pc EXCEPT ![a] = "run"] /\ ~Working(a) /\ "run" \in Phases
    BY <1>0, <1>1 DEF TypeOK, DrainOne, Goto, Working, Phases
  <2>2. ClaimById(a, m) /\ UNCHANGED <<msgVars, todo, cur, failure, envVars>>
    BY <1>1 DEF DrainOne
  <2>3. TypeOK'
    <3>1. RowTypes'
      BY <1>0, <2>2, RowUpdateType
    <3>2. held' \in [Actors -> [Messages -> 0..MaxRetries]]
      BY <1>0, <2>2, ClaimedHeldType
    <3>3. pc' \in [Actors -> Phases]
      BY <1>0, <2>1 DEF TypeOK
    <3>4. QED
      BY <1>0, <2>2, <3>1, <3>2, <3>3 DEF TypeOK, RowTypes, msgVars, envVars
  <2>4. ClaimInv'
    BY <1>0, <2>1, <2>2, ClaimByIdKeepsClaims DEF envVars
  <2>5. DisplayInv'
    BY <1>0, <2>2, ClaimByIdKeepsDisplay DEF msgVars, envVars
  <2>6. QED
    BY <2>3, <2>4, <2>5 DEF IInv
<1>2. ASSUME NEW m \in Messages, RetryOrphanedDraft(a, m)
      PROVE  IInv'
  <2>1. EnqueuePendingDraftRepair(m)
    BY <1>2 DEF RetryOrphanedDraft
  <2>2. TypeOK'
    <3>1. /\ status' \in [Messages -> RowStatuses]
          /\ ack' \in [Messages -> AckStatuses] /\ failedAt' \in [Messages -> BOOLEAN]
      BY <1>0, <2>1, DraftRepairType
    <3>2. QED
      BY <1>0, <1>2, <3>1 DEF TypeOK, RetryOrphanedDraft, actorVars, envVars
  <2>3. ClaimInv'
    BY <1>0, <1>2, FrameKeepsClaims DEF RetryOrphanedDraft, actorVars, envVars
  <2>4. DisplayInv'
    BY <1>0, <1>2, <2>1, DraftRepairKeepsDisplay DEF RetryOrphanedDraft, envVars
  <2>5. QED
    BY <2>2, <2>3, <2>4 DEF IInv
<1>3. QED
  BY <1>1, <1>2 DEF CallerStep

(* A crash. *)
LEMMA CrashKeepsIInv ==
  ASSUME IInv, NEW a \in Actors, Crash(a)
  PROVE  IInv'
<1>0. TypeOK /\ ClaimInv /\ DisplayInv
  BY DEF IInv
<1>1. TypeOK'
  <2>1. HoldsNothing \in [Messages -> 0..MaxRetries]
    BY OutboxAssumption DEF HoldsNothing
  <2>2. QED
    BY <1>0, <2>1 DEF TypeOK, Crash, Goto, Phases, rowVars, msgVars, envVars
<1>2. ClaimInv'
  BY <1>0, CrashKeepsClaims
<1>3. DisplayInv'
  BY <1>0, FrameKeepsDisplay DEF Crash, rowVars, msgVars, envVars
<1>4. QED
  BY <1>1, <1>2, <1>3 DEF IInv

(* An operator's requeue, through either service. *)
LEMMA OperatorStepKeepsIInv ==
  ASSUME IInv, OperatorStep
  PROVE  IInv'
<1> USE OutboxAssumption
<1>0. TypeOK /\ ClaimInv /\ DisplayInv
  BY DEF IInv
<1>1. PICK m \in Messages : ToPendingNow(m) /\ requeues < MaxRequeues
  BY DEF OperatorStep, RequeueById, RetryOutboxJob
<1>2. TypeOK'
  <2>1. requeues' \in 0..MaxRequeues
    BY <1>0, <1>1 DEF TypeOK, ToPendingNow
  <2>2. QED
    BY <1>0, <1>1, <2>1 DEF TypeOK, ToPendingNow, RowStatuses, msgVars, actorVars
<1>3. ClaimInv'
  BY <1>0, <1>1, FrameKeepsClaims DEF ToPendingNow, actorVars
<1>4. DisplayInv'
  BY <1>0, <1>1 DEF TypeOK, ToPendingNow, DisplayInv, AckedMeansLinked,
     DispatchedIsLinked, GivenUpIsReported, msgVars
<1>5. QED
  BY <1>2, <1>3, <1>4 DEF IInv

(* Time passes. *)
LEMMA ClockStepKeepsIInv ==
  ASSUME IInv, ClockStep
  PROVE  IInv'
<1>0. TypeOK /\ ClaimInv /\ DisplayInv
  BY DEF IInv
<1>1. PICK m \in Messages : BackoffElapses(m) \/ ClaimGrowsStale(m)
  BY DEF ClockStep
<1>2. /\ UNCHANGED <<status, attempts, lastError, msgVars, actorVars, envVars>>
      /\ \/ nextAttempt' = [nextAttempt EXCEPT ![m] = "past"] /\ stale' = stale
         \/ stale' = [stale EXCEPT ![m] = TRUE] /\ nextAttempt' = nextAttempt
  BY <1>1 DEF BackoffElapses, ClaimGrowsStale
<1>3. TypeOK'
  BY <1>0, <1>2 DEF TypeOK, msgVars, actorVars, envVars
<1>4. ClaimInv'
  BY <1>0, <1>2, FrameKeepsClaims DEF actorVars, envVars
<1>5. DisplayInv'
  BY <1>0, <1>2 DEF TypeOK, DisplayInv, AckedMeansLinked, DispatchedIsLinked,
     GivenUpIsReported, msgVars, envVars
<1>6. QED
  BY <1>3, <1>4, <1>5 DEF IInv

(* What WhatsApp and other senders of the conversation do. *)
LEMMA WhatsAppStepKeepsIInv ==
  ASSUME IInv, WhatsAppStep
  PROVE  IInv'
<1> USE OutboxAssumption
<1>0. TypeOK /\ ClaimInv /\ DisplayInv
  BY DEF IInv
<1>1. ASSUME NEW m \in Messages, HumanReplies(m)
      PROVE  IInv'
  <2>1. TypeOK'
    BY <1>0, <1>1 DEF TypeOK, HumanReplies, rowVars, msgVars, actorVars
  <2>2. ClaimInv'
    BY <1>0, <1>1, FrameKeepsClaims DEF HumanReplies, rowVars, actorVars
  <2>3. DisplayInv'
    BY <1>0, <1>1, FrameKeepsDisplay DEF HumanReplies, rowVars, msgVars
  <2>4. QED
    BY <2>1, <2>2, <2>3 DEF IInv
<1>2. ASSUME NEW m \in Messages, NEW receipt \in AckStatuses, ReceiptArrives(m, receipt)
      PROVE  IInv'
  <2>1. ack[m] \in AckedStatuses
    BY <1>0, <1>2 DEF ReceiptArrives, DisplayInv, AckedMeansLinked
  <2>2. ack'[m] \in AckedStatuses /\ \A n \in Messages : n # m => ack'[n] = ack[n]
    BY <1>0, <1>2, <2>1, UpdatedAckMonotone DEF TypeOK, ReceiptArrives, UpdateAckStatus
  <2>3. TypeOK'
    <3>1. ack' \in [Messages -> AckStatuses] /\ failedAt' \in [Messages -> BOOLEAN]
      BY <1>0, <1>2, UpdateAckStatusType DEF ReceiptArrives
    <3>2. UNCHANGED <<rowVars, extId, deleted, actorVars, envVars>>
      BY <1>2 DEF ReceiptArrives
    <3>3. QED
      BY <1>0, <3>1, <3>2 DEF TypeOK, rowVars, actorVars, envVars
  <2>4. ClaimInv'
    BY <1>0, <1>2, FrameKeepsClaims DEF ReceiptArrives, rowVars, actorVars, envVars
  <2>5. DisplayInv'
    <3>1. UNCHANGED <<status, nextAttempt, extId, deleted, wire>>
      BY <1>2 DEF ReceiptArrives, rowVars, envVars
    <3>2. QED
      BY <1>0, <2>1, <2>2, <3>1, AckRanks DEF DisplayInv, AckedMeansLinked,
         DispatchedIsLinked, GivenUpIsReported
  <2>6. QED
    BY <2>3, <2>4, <2>5 DEF IInv
<1>3. ASSUME NEW m \in Messages, NEW k \in 1..MaxRetries, EchoLinksDraft(m, k)
      PROVE  IInv'
  <2>1. /\ k \in wire[m]
        /\ extId' = [extId EXCEPT ![m] = k]
        /\ UpdateAckStatus(m, "server_ack")
        /\ UNCHANGED <<rowVars, deleted, actorVars, envVars>>
    BY <1>3 DEF EchoLinksDraft
  <2>2. TypeOK'
    <3>1. ack' \in [Messages -> AckStatuses] /\ failedAt' \in [Messages -> BOOLEAN]
      BY <1>0, <2>1, UpdateAckStatusType DEF AckStatuses
    <3>2. extId' \in [Messages -> 0..MaxRetries]
      BY <1>0, <2>1 DEF TypeOK
    <3>3. QED
      BY <1>0, <2>1, <3>1, <3>2 DEF TypeOK, rowVars, actorVars, envVars
  <2>3. ClaimInv'
    BY <1>0, <2>1, FrameKeepsClaims DEF rowVars, actorVars, envVars
  <2>4. DisplayInv'
    BY <1>0, <2>1, LinkKeepsDisplay DEF rowVars, envVars
  <2>5. QED
    BY <2>2, <2>3, <2>4 DEF IInv
<1>4. QED
  BY <1>1, <1>2, <1>3 DEF WhatsAppStep

(* Every step keeps the inductive invariant. *)
LEMMA NextKeepsIInv == IInv /\ [Next]_vars => IInv'
<1> SUFFICES ASSUME IInv, [Next]_vars PROVE IInv'
  OBVIOUS
<1>1. CASE Next
  BY <1>1, WorkerStepKeepsIInv, JobStepKeepsIInv, CallerStepKeepsIInv, CrashKeepsIInv,
     OperatorStepKeepsIInv, ClockStepKeepsIInv, WhatsAppStepKeepsIInv DEF Next
<1>2. CASE UNCHANGED vars
  <2>1. TypeOK'
    BY <1>2 DEF IInv, TypeOK, vars, rowVars, msgVars, actorVars, envVars
  <2>2. ClaimInv'
    BY <1>2, FrameKeepsClaims DEF IInv, vars, rowVars, actorVars, envVars
  <2>3. DisplayInv'
    BY <1>2, FrameKeepsDisplay DEF IInv, vars, rowVars, msgVars, envVars
  <2>4. QED
    BY <2>1, <2>2, <2>3 DEF IInv
<1>3. QED
  BY <1>1, <1>2

(***************************************************************************)
(* Theorems.                                                               *)
(***************************************************************************)

(* The inductive invariant: an attempt number has one holder and is spent on at
   most one copy, and the message row shows what became of its copies. *)
THEOREM InductiveInvariant == Spec => []IInv
BY InitIInv, NextKeepsIInv, PTL DEF Spec

(* Every column and every worker's memory keep their types. *)
THEOREM TypeCorrect == Spec => []TypeOK
<1>1. IInv => TypeOK
  BY DEF IInv
<1>2. QED
  BY <1>1, InductiveInvariant, PTL

(* The attempts under which a message was sent are finitely many, and the copies
   no more than the attempts. *)
LEMMA WireIsFinite ==
  ASSUME IInv, NEW m \in Messages
  PROVE  /\ IsFiniteSet(wire[m])
         /\ copies[m] = Cardinality(wire[m])
         /\ copies[m] <= attempts[m]
<1>1. attempts[m] \in Nat
  BY OutboxAssumption DEF IInv, TypeOK
<1>2. wire[m] \subseteq 1..attempts[m] /\ copies[m] = Cardinality(wire[m])
  BY DEF IInv, ClaimInv, CopiesAreAttempts
<1>3. ASSUME NEW n \in Nat
      PROVE  IsFiniteSet(1..n) /\ Cardinality(1..n) = n
  BY FS_Interval
<1>4. ASSUME NEW n \in Nat, NEW S \in SUBSET (1..n)
      PROVE  IsFiniteSet(S) /\ Cardinality(S) <= n
  <2>1. IsFiniteSet(1..n) /\ Cardinality(1..n) = n
    BY <1>3
  <2>2. IsFiniteSet(S) /\ Cardinality(S) <= Cardinality(1..n)
    BY <2>1, FS_Subset
  <2>3. QED
    BY <2>1, <2>2
<1>5. QED
  BY <1>1, <1>2, <1>4

(* Whatever claims, crashes, stale resets, late results and requeues do, WhatsApp
   gets at most one copy of a message per counted attempt. *)
THEOREM CopiesBounded == Spec => []CopiesWithinBudget
<1>1. IInv => CopiesWithinBudget
  <2> SUFFICES ASSUME IInv, NEW m \in Messages
               PROVE  copies[m] <= attempts[m] /\ attempts[m] <= MaxRetries
    BY DEF CopiesWithinBudget
  <2>1. attempts[m] <= MaxRetries
    BY OutboxAssumption DEF IInv, TypeOK
  <2>2. QED
    BY <2>1, WireIsFinite
<1>2. QED
  BY <1>1, InductiveInvariant, PTL

(* A message shows as accepted exactly when its row is linked to a copy WhatsApp
   has. *)
THEOREM AckedIsLinked == Spec => []AckedMeansLinked
<1>1. IInv => AckedMeansLinked
  BY DEF IInv, DisplayInv
<1>2. QED
  BY <1>1, InductiveInvariant, PTL

(* A dispatched row's message was sent, or was an auto reply that was dropped. *)
THEOREM DispatchedIsSent == Spec => []DispatchedMeansSent
<1>1. IInv => DispatchedMeansSent
  <2> SUFFICES ASSUME IInv, NEW m \in Messages, status[m] = "dispatched", ~deleted[m]
               PROVE  copies[m] > 0
    BY DEF DispatchedMeansSent
  <2>1. extId[m] # 0 /\ extId[m] \in wire[m]
    BY DEF IInv, DisplayInv, DispatchedIsLinked, AckedMeansLinked
  <2>2. IsFiniteSet(wire[m]) /\ copies[m] = Cardinality(wire[m])
    BY WireIsFinite
  <2>3. Cardinality(wire[m]) \in Nat /\ Cardinality(wire[m]) # 0
    BY <2>1, <2>2, FS_CardinalityType, FS_EmptySet
  <2>4. QED
    BY <2>2, <2>3
<1>2. QED
  BY <1>1, InductiveInvariant, PTL

(* A job given up for good is not shown as pending. *)
THEOREM ClosedJobsAreReported == Spec => []ClosedIsReported
<1>1. IInv => ClosedIsReported
  BY DEF IInv, DisplayInv, GivenUpIsReported, ClosedIsReported, IsClosed
<1>2. QED
  BY <1>1, InductiveInvariant, PTL

(***************************************************************************)
(* What a step does to the status an agent sees, to the rows that count as   *)
(* dispatched, and to the copies: the case split behind both the action       *)
(* property and the refinement.                                             *)
(***************************************************************************)
KeptBeside(m) == \A n \in Messages \ {m} : IsDispatched(n)' <=> IsDispatched(n)

Kept == \A n \in Messages : IsDispatched(n)' <=> IsDispatched(n)

Silent == UNCHANGED <<ack, copies>>

Reopens(m) == Silent /\ KeptBeside(m) /\ ~IsDispatched(m)'

Sends(m) == copies' = [copies EXCEPT ![m] = @ + 1] /\ ack' = ack

Fails(m) == UpdateAckStatus(m, "failed") /\ copies' = copies

Acknowledges(m, s) ==
  /\ extId'[m] # 0
  /\ s \in AckedStatuses \/ ack[m] \in AckedStatuses
  /\ UpdateAckStatus(m, s)
  /\ UNCHANGED <<copies, wire>>

VisibleStep ==
  \/ Silent /\ Kept
  \/ \E m \in Messages : Reopens(m)
  \/ \E m \in Messages : Sends(m) /\ Kept
  \/ \E m \in Messages : Fails(m) /\ KeptBeside(m) /\ (IsDispatched(m)' => IsDispatched(m))
  \/ \E m \in Messages, s \in AckStatuses :
       Acknowledges(m, s) /\ KeptBeside(m) /\ (IsDispatched(m) => IsDispatched(m)')

(* Statements that leave the rows, or their messages, leave what counts as dispatched. *)
LEMMA RowsKept == UNCHANGED <<status, deleted>> => Kept
BY DEF Kept, IsDispatched

(* Every step is one of these. *)
LEMMA NextIsVisibleStep == IInv /\ [Next]_vars => VisibleStep
<1> SUFFICES ASSUME IInv, [Next]_vars PROVE VisibleStep
  OBVIOUS
<1>0. \A a \in Actors : Working(a) => cur[a] \in Messages /\ held[a][cur[a]] \in 0..MaxRetries \ {0}
  BY DEF IInv, TypeOK, ClaimInv, CurrentIsHeld
<1>01. status \in [Messages -> RowStatuses] /\ deleted \in [Messages -> BOOLEAN]
  BY DEF IInv, TypeOK
<1>02. ASSUME UNCHANGED <<status, deleted, ack, copies>> PROVE VisibleStep
  BY <1>02, RowsKept DEF VisibleStep, Silent
<1>03. ASSUME NEW m \in Messages, NEW s, s # "dispatched",
              status' = [status EXCEPT ![m] = s], deleted' = deleted
       PROVE  KeptBeside(m) /\ ~IsDispatched(m)'
  BY <1>01, <1>03 DEF KeptBeside, IsDispatched
<1>04. ASSUME NEW m \in Messages, NEW s, s # "dispatched",
              status' = [status EXCEPT ![m] = s], deleted' = deleted, UNCHANGED <<ack, copies>>
       PROVE  VisibleStep
  BY <1>03, <1>04 DEF VisibleStep, Reopens, Silent
<1>05. ASSUME NEW m \in Messages, NEW s, s # "dispatched", Fails(m),
              status' = [status EXCEPT ![m] = s], deleted' = deleted
       PROVE  VisibleStep
  BY <1>03, <1>05 DEF VisibleStep
<1>07. ASSUME NEW m \in Messages, status' = [status EXCEPT ![m] = "dispatched"],
              \A n \in Messages \ {m} : deleted'[n] = deleted[n]
       PROVE  KeptBeside(m)
  BY <1>01, <1>07 DEF KeptBeside, IsDispatched
<1>08. ASSUME NEW m \in Messages, status' = [status EXCEPT ![m] = "dispatched"], deleted' = deleted
       PROVE  IsDispatched(m) => IsDispatched(m)'
  BY <1>01, <1>08 DEF IsDispatched
<1>06. ASSUME NEW m \in Messages, EnqueuePendingDraftRepair(m), UNCHANGED <<deleted, copies>>
       PROVE  VisibleStep
  <2>1. CASE /\ status' = [status EXCEPT ![m] = IF @ = "none" THEN "pending" ELSE @]
             /\ UNCHANGED <<ack, failedAt>>
    <3>1. Kept
      BY <1>01, <1>06, <2>1 DEF Kept, IsDispatched
    <3> QED
      BY <1>06, <2>1, <3>1 DEF VisibleStep, Silent
  <2>2. CASE UpdateAckStatus(m, "failed") /\ status' = status
    <3>1. Fails(m) /\ KeptBeside(m) /\ (IsDispatched(m)' => IsDispatched(m))
      BY <1>06, <2>2 DEF Fails, KeptBeside, IsDispatched
    <3> QED
      BY <3>1 DEF VisibleStep
  <2> QED
    BY <1>06, <2>1, <2>2 DEF EnqueuePendingDraftRepair
<1>1. ASSUME NEW a \in Actors, WorkerStep(a) PROVE VisibleStep
  <2>1. ASSUME NEW m \in Messages, RepairListedDraft(a, m) PROVE VisibleStep
    BY <1>06, <2>1 DEF RepairListedDraft, envVars
  <2>2. ASSUME NEW m \in Messages, FinalizeExhaustedJob(a, m) PROVE VisibleStep
    BY <1>05, <2>2 DEF FinalizeExhaustedJob, Fails, MarkFailed, envVars
  <2>3. ASSUME NEW m \in Messages, ClaimListedJob(a, m) PROVE VisibleStep
    BY <1>02, <1>04, <2>3 DEF ClaimListedJob, ClaimById, rowVars, msgVars, envVars
  <2>4. CASE ResetStaleProcessing(a)
    <3>1. Kept
      BY <1>01, <2>4 DEF ResetStaleProcessing, Kept, IsDispatched, msgVars
    <3> QED
      BY <2>4, <3>1 DEF ResetStaleProcessing, VisibleStep, Silent, msgVars, envVars
  <2>5. CASE ListRepairableDrafts(a) \/ ListExhaustedOpenJobs(a) \/ ListDueJobs(a)
             \/ StartBatch(a) \/ EndBatch(a)
    BY <1>02, <2>5 DEF ListRepairableDrafts, ListExhaustedOpenJobs, ListDueJobs, StartBatch,
       EndBatch, rowVars, msgVars, envVars
  <2>6. QED
    BY <1>1, <2>1, <2>2, <2>3, <2>4, <2>5 DEF WorkerStep
<1>2. ASSUME NEW a \in Actors, JobStep(a) PROVE VisibleStep
  <2>1. CASE \/ \E m \in Messages : StartJob(a, m)
             \/ \E class \in FailureClasses : ConnectorRejects(a, class)
             \/ TransactionFails(a)
    BY <1>02, <2>1 DEF StartJob, ConnectorRejects, TransactionFails, rowVars, msgVars, envVars
  <2>2. CASE ConnectorAccepts(a) \/ ConnectorAnswerLost(a)
    <3>1. Sends(cur[a])
      BY <2>2 DEF ConnectorAccepts, ConnectorAnswerLost, PutOnWire, Sends, msgVars
    <3>2. cur[a] \in Messages
      BY <1>0, <2>2 DEF ConnectorAccepts, ConnectorAnswerLost, Working
    <3>3. Kept
      BY <2>2, RowsKept DEF ConnectorAccepts, ConnectorAnswerLost, rowVars, msgVars
    <3>4. QED
      BY <3>1, <3>2, <3>3 DEF VisibleStep
  <2>3. CASE SkipAutoReply(a)
    <3>1. PICK m \in Messages : m = cur[a]
      BY <1>0, <2>3 DEF SkipAutoReply, Working
    <3>2. Fails(m)
      BY <2>3, <3>1 DEF SkipAutoReply, Fails, envVars
    <3>3. status' = [status EXCEPT ![m] = "dispatched"] /\ deleted' = [deleted EXCEPT ![m] = TRUE]
      BY <2>3, <3>1 DEF SkipAutoReply, MarkDispatched
    <3>4. KeptBeside(m)
      BY <1>01, <1>07, <3>3
    <3>5. ~IsDispatched(m)'
      BY <1>01, <3>3 DEF IsDispatched
    <3> QED
      BY <3>2, <3>4, <3>5 DEF VisibleStep
  <2>4. CASE RecordFailure(a)
    <3>1. cur[a] \in Messages
      BY <1>0, <2>4 DEF RecordFailure, Working
    <3>2. /\ status' = [status EXCEPT ![cur[a]] = "failed"] /\ deleted' = deleted
          /\ UNCHANGED <<ack, copies>> \/ Fails(cur[a])
      BY <2>4 DEF RecordFailure, MarkFailed, Fails, envVars
    <3>3. QED
      BY <1>04, <1>05, <3>1, <3>2
  <2>5. CASE CommitDispatch(a)
    <3>1. PICK m \in Messages : m = cur[a] /\ held[a][m] # 0
      BY <1>0, <2>5 DEF CommitDispatch, Working
    <3>2. extId'[m] # 0
      BY <2>5, <3>1 DEF CommitDispatch, IInv, TypeOK
    <3>3. Acknowledges(m, "server_ack")
      BY <2>5, <3>1, <3>2, AckRanks DEF CommitDispatch, Acknowledges, envVars
    <3>4. status' = [status EXCEPT ![m] = "dispatched"] /\ deleted' = deleted
      BY <2>5, <3>1 DEF CommitDispatch, MarkDispatched
    <3>5. KeptBeside(m)
      BY <1>07, <3>4
    <3>6. IsDispatched(m) => IsDispatched(m)'
      BY <1>08, <3>4
    <3>7. "server_ack" \in AckStatuses
      BY DEF AckStatuses
    <3>8. QED
      BY <3>3, <3>5, <3>6, <3>7 DEF VisibleStep
  <2>6. QED
    BY <1>2, <2>1, <2>2, <2>3, <2>4, <2>5 DEF JobStep
<1>3. ASSUME NEW a \in Actors, CallerStep(a) PROVE VisibleStep
  <2>1. ASSUME NEW m \in Messages, DrainOne(a, m) PROVE VisibleStep
    BY <1>04, <2>1 DEF DrainOne, ClaimById, msgVars, envVars
  <2>2. ASSUME NEW m \in Messages, RetryOrphanedDraft(a, m) PROVE VisibleStep
    BY <1>06, <2>2 DEF RetryOrphanedDraft, envVars
  <2>3. QED
    BY <1>3, <2>1, <2>2 DEF CallerStep
<1>4. ASSUME NEW a \in Actors, Crash(a) PROVE VisibleStep
  BY <1>02, <1>4 DEF Crash, rowVars, msgVars, envVars
<1>5. CASE OperatorStep
  BY <1>04, <1>5 DEF OperatorStep, RequeueById, RetryOutboxJob, ToPendingNow, msgVars
<1>6. CASE ClockStep
  BY <1>02, <1>6 DEF ClockStep, BackoffElapses, ClaimGrowsStale, msgVars, envVars
<1>7. CASE WhatsAppStep
  <2>1. ASSUME NEW m \in Messages, HumanReplies(m) PROVE VisibleStep
    BY <1>02, <2>1 DEF HumanReplies, rowVars, msgVars
  <2>2. ASSUME NEW m \in Messages, NEW s \in AckStatuses, Acknowledges(m, s),
               UNCHANGED <<status, deleted>>
        PROVE  VisibleStep
    BY <2>2 DEF VisibleStep, KeptBeside, IsDispatched
  <2>3. ASSUME NEW m \in Messages, NEW s \in AckStatuses, ReceiptArrives(m, s) PROVE VisibleStep
    BY <2>2, <2>3 DEF ReceiptArrives, Acknowledges, IInv, DisplayInv, AckedMeansLinked, rowVars, envVars
  <2>4. ASSUME NEW m \in Messages, NEW k \in 1..MaxRetries, EchoLinksDraft(m, k)
        PROVE  VisibleStep
    <3>1. extId'[m] # 0
      BY <2>4, OutboxAssumption DEF EchoLinksDraft, IInv, TypeOK
    <3>2. Acknowledges(m, "server_ack") /\ UNCHANGED <<status, deleted>>
      BY <2>4, <3>1, AckRanks DEF EchoLinksDraft, Acknowledges, rowVars, envVars
    <3>3. QED
      BY <2>2, <3>2 DEF AckStatuses
  <2>5. QED
    BY <1>7, <2>1, <2>3, <2>4 DEF WhatsAppStep
<1>8. CASE UNCHANGED vars
  BY <1>02, <1>8 DEF vars, rowVars, msgVars, envVars
<1>9. QED
  BY <1>1, <1>2, <1>3, <1>4, <1>5, <1>6, <1>7, <1>8 DEF Next

(* Once WhatsApp has accepted a message, no step takes its status back. *)
THEOREM AckMonotone == Spec => AckNeverRegresses
<1>1. IInv /\ [Next]_vars
        => [\A m \in Messages :
              ack[m] \in AckedStatuses => AckRank(ack'[m]) >= AckRank(ack[m])]_vars
  <2> SUFFICES ASSUME IInv, [Next]_vars, NEW m \in Messages, ack[m] \in AckedStatuses
               PROVE  AckRank(ack'[m]) >= AckRank(ack[m])
    OBVIOUS
  <2>1. ack'[m] = ack[m] \/ \E s \in AckStatuses : ack'[m] = UpdatedAck(ack[m], s)
    <3>1. VisibleStep
      BY NextIsVisibleStep
    <3>2. CASE Silent \/ \E n \in Messages : Sends(n) \/ Reopens(n)
      BY <3>2 DEF Silent, Sends, Reopens
    <3>3. ASSUME NEW n \in Messages, NEW s \in AckStatuses, UpdateAckStatus(n, s)
          PROVE  ack'[m] = ack[m] \/ ack'[m] = UpdatedAck(ack[m], s)
      BY <3>3 DEF UpdateAckStatus, IInv, TypeOK
    <3>4. CASE \E n \in Messages : Fails(n)
      BY <3>3, <3>4 DEF Fails, AckStatuses
    <3>5. CASE \E n \in Messages, s \in AckStatuses : Acknowledges(n, s)
      BY <3>3, <3>5 DEF Acknowledges
    <3>6. QED
      BY <3>1, <3>2, <3>4, <3>5 DEF VisibleStep
  <2>2. ack[m] \in AckStatuses /\ AckRank(ack[m]) \in Nat
    BY AckRanks DEF AckedStatuses
  <2>3. QED
    BY <2>1, <2>2, UpdatedAckMonotone
<1>2. QED
  BY <1>1, InductiveInvariant, PTL DEF Spec, AckNeverRegresses

(***************************************************************************)
(* The outbox implements the promise of MessageDelivery.                   *)
(***************************************************************************)

(* A row that carries an external id belongs to a message WhatsApp has. *)
LinkedMeansSent == \A m \in Messages : extId[m] # 0 => copies[m] \in Nat \ {0}

LEMMA LinkedIsSent == IInv => LinkedMeansSent
<1> SUFFICES ASSUME IInv, NEW m \in Messages, extId[m] # 0
             PROVE  copies[m] \in Nat \ {0}
  BY DEF LinkedMeansSent
<1>1. extId[m] \in wire[m]
  BY DEF IInv, DisplayInv, AckedMeansLinked
<1>2. IsFiniteSet(wire[m]) /\ copies[m] = Cardinality(wire[m])
  BY WireIsFinite
<1>3. Cardinality(wire[m]) \in Nat /\ Cardinality(wire[m]) # 0
  BY <1>1, <1>2, FS_CardinalityType, FS_EmptySet
<1>4. QED
  BY <1>2, <1>3

(* How the statuses are shown. *)
LEMMA ShownStatuses ==
  \A s \in AckStatuses : /\ ShownStatus(s) = "waiting" <=> s = "pending"
                         /\ ShownStatus(s) = "failed" <=> s = "failed"
                         /\ ShownStatus(s) = "accepted" <=> s \in AckedStatuses
BY AckRanks DEF AckStatuses, ShownStatus

(* An acknowledged status is not overwritten by a failure. *)
LEMMA FailureIsHidden ==
  ASSUME IInv, NEW m \in Messages, Fails(m), ack[m] # "pending"
  PROVE  ack' = ack
<1>1. ack[m] \in AckStatuses
  BY DEF IInv, TypeOK
<1>2. UpdatedAck(ack[m], "failed") = ack[m]
  BY <1>1, FailureIsShown, AckRanks DEF AckStatuses
<1> QED
  BY <1>2 DEF Fails, UpdateAckStatus, IInv, TypeOK

(* A row that counts as dispatched is one of a message that shows as accepted. *)
LEMMA DispatchedIsAccepted ==
  ASSUME IInv, NEW m \in Messages, IsDispatched(m)
  PROVE  ack[m] \in AckedStatuses /\ ack[m] # "pending"
<1>1. extId[m] # 0
  BY DEF IInv, DisplayInv, DispatchedIsLinked, IsDispatched
<1>2. ack[m] \in AckedStatuses
  BY <1>1 DEF IInv, DisplayInv, AckedMeansLinked
<1> QED
  BY <1>2, AckRanks DEF AckedStatuses

(* The set of dispatched messages after a step that concerns one of them. *)
LEMMA DispatchedSet ==
  ASSUME NEW m \in Messages, KeptBeside(m)
  PROVE  {n \in Messages : IsDispatched(n)}'
           = IF IsDispatched(m)' THEN {n \in Messages : IsDispatched(n)} \cup {m}
             ELSE {n \in Messages : IsDispatched(n)} \ {m}
BY DEF KeptBeside

(* Reopening a row maps to Reopen, or to no step where it did not count as dispatched. *)
LEMMA ReopensIsReopen ==
  ASSUME NEW m \in Messages, Silent, KeptBeside(m), ~IsDispatched(m)'
  PROVE  Delivery!Next \/ UNCHANGED Delivery!vars
<1> DEFINE done == {n \in Messages : IsDispatched(n)}
<1>1. done' = done \ {m}
  BY DispatchedSet
<1>2. m \in done <=> IsDispatched(m)
  OBVIOUS
<1> HIDE DEF done
<1>3. CASE IsDispatched(m)
  <2>1. Delivery!Reopen(m)
    BY <1>1, <1>2, <1>3 DEF Delivery!Reopen, Silent, done
  <2> QED
    BY <2>1 DEF Delivery!Next
<1>4. CASE ~IsDispatched(m)
  BY <1>1, <1>2, <1>4 DEF Delivery!vars, Silent, done
<1> QED
  BY <1>3, <1>4

(* Reporting a failure maps to Report; where it is hidden, to Reopen or to no step. *)
LEMMA FailsIsReport ==
  ASSUME IInv, NEW m \in Messages, Fails(m), KeptBeside(m), IsDispatched(m)' => IsDispatched(m)
  PROVE  Delivery!Next \/ UNCHANGED Delivery!vars
<1>1. ack[m] \in AckStatuses
  BY DEF IInv, TypeOK
<1>2. ack' = [ack EXCEPT ![m] = UpdatedAck(ack[m], "failed")] /\ copies' = copies
  BY DEF Fails, UpdateAckStatus
<1> DEFINE done == {n \in Messages : IsDispatched(n)}
<1>3. CASE ack[m] = "pending"
  <2>1. UpdatedAck(ack[m], "failed") = "failed" /\ ShownStatus("failed") = "failed"
    BY <1>1, <1>3, FailureIsShown, AckRanks DEF ShownStatus
  <2>2. ShownStatus(ack[m]) = "waiting"
    BY <1>1, <1>3, ShownStatuses
  <2>3. \A n \in Messages : ack'[n] = IF n = m THEN "failed" ELSE ack[n]
    BY <1>2, <2>1 DEF IInv, TypeOK
  <2>4. done' = done
    <3>1. ~IsDispatched(m)
      BY <1>3, DispatchedIsAccepted
    <3> QED
      BY <3>1, DispatchedSet
  <2>5. [n \in Messages |-> ShownStatus(ack'[n])]
          = [[n \in Messages |-> ShownStatus(ack[n])] EXCEPT ![m] = "failed"]
    BY <2>1, <2>3
  <2> HIDE DEF done
  <2>6. Delivery!Report(m)
    BY <1>2, <2>2, <2>4, <2>5 DEF Delivery!Report, done
  <2>7. QED
    BY <2>6 DEF Delivery!Next
<1>4. CASE ack[m] # "pending"
  <2>1. Silent
    BY <1>2, <1>4, FailureIsHidden DEF Silent
  <2>2. CASE IsDispatched(m)'
    <3>1. done' = done
      BY <2>2, DispatchedSet
    <3> HIDE DEF done
    <3> QED
      BY <2>1, <3>1 DEF Silent, Delivery!vars, done
  <2>3. CASE ~IsDispatched(m)'
    BY <2>1, <2>3, ReopensIsReopen
  <2> QED
    BY <2>2, <2>3
<1>5. QED
  BY <1>3, <1>4

(* Acknowledging a message maps to Dispatch when its row is closed with it, and to Accept
   otherwise. *)
LEMMA AcknowledgesIsAccept ==
  ASSUME IInv, IInv', NEW m \in Messages, NEW s \in AckStatuses, Acknowledges(m, s),
         KeptBeside(m), IsDispatched(m) => IsDispatched(m)'
  PROVE  Delivery!Next
<1> DEFINE done == {n \in Messages : IsDispatched(n)}
<1>1. ack[m] \in AckStatuses
  BY DEF IInv, TypeOK
<1>2. UpdatedAck(ack[m], s) \in AckedStatuses
  BY <1>1, UpdatedAckMonotone, AckedIsAccepted DEF Acknowledges
<1>3. ShownStatus(UpdatedAck(ack[m], s)) = "accepted"
  BY <1>2, ShownStatuses DEF AckedStatuses
<1>4. LinkedMeansSent'
  BY LinkedIsSent, PTL
<1>5. copies[m] > 0 /\ copies' = copies
  BY <1>4 DEF Acknowledges, LinkedMeansSent
<1>6. \A n \in Messages : ack'[n] = IF n = m THEN UpdatedAck(ack[m], s) ELSE ack[n]
  BY DEF Acknowledges, UpdateAckStatus, IInv, TypeOK
<1>7. [n \in Messages |-> ShownStatus(ack'[n])]
        = [[n \in Messages |-> ShownStatus(ack[n])] EXCEPT ![m] = "accepted"]
  BY <1>3, <1>6
<1>8. CASE IsDispatched(m)'
  <2>1. done' = done \cup {m}
    BY <1>8, DispatchedSet
  <2> HIDE DEF done
  <2>2. Delivery!Dispatch(m)
    BY <1>5, <1>7, <2>1 DEF Delivery!Dispatch, done
  <2> QED
    BY <2>2 DEF Delivery!Next
<1>9. CASE ~IsDispatched(m)'
  <2>1. done' = done
    BY <1>9, DispatchedSet
  <2> HIDE DEF done
  <2>2. Delivery!Accept(m)
    BY <1>5, <1>7, <2>1 DEF Delivery!Accept, done
  <2> QED
    BY <2>2 DEF Delivery!Next
<1> QED
  BY <1>8, <1>9

(* The outbox implements MessageDelivery: accepted is final and never shown for
   nothing, a failure is only reported on a waiting message, only accepted messages
   count as dispatched, and the copies are bounded, however the processes behind it
   interleave and fail. *)
THEOREM OutboxImplementsDelivery == Spec => ImplementsDelivery
<1>1. Init => Delivery!Init
  BY DEF Init, Delivery!Init, ShownStatus, IsDispatched
<1>2. IInv => CopiesWithinBudget
  <2>1. ASSUME IInv, NEW m \in Messages
        PROVE  copies[m] <= attempts[m] /\ attempts[m] <= MaxRetries
    <3>1. attempts[m] <= MaxRetries
      BY <2>1, OutboxAssumption DEF IInv, TypeOK
    <3>2. QED
      BY <2>1, <3>1, WireIsFinite
  <2>2. QED
    BY <2>1 DEF CopiesWithinBudget
<1>3. IInv' => CopiesWithinBudget'
  BY <1>2, PTL
<1>4. IInv /\ IInv' /\ [Next]_vars => [Delivery!Next]_(Delivery!vars)
  <2> SUFFICES ASSUME IInv, IInv', [Next]_vars
               PROVE  Delivery!Next \/ UNCHANGED Delivery!vars
    OBVIOUS
  <2>1. VisibleStep
    BY NextIsVisibleStep
  <2>2. TypeOK /\ TypeOK'
    BY DEF IInv
  <2>3. ASSUME Kept PROVE {n \in Messages : IsDispatched(n)}' = {n \in Messages : IsDispatched(n)}
    BY <2>3 DEF Kept
  <2>4. CASE Silent /\ Kept
    BY <2>3, <2>4 DEF Silent, Delivery!vars
  <2>5. ASSUME NEW m \in Messages, Reopens(m)
        PROVE  Delivery!Next \/ UNCHANGED Delivery!vars
    BY <2>5, ReopensIsReopen DEF Reopens
  <2>6. ASSUME NEW m \in Messages, Sends(m), Kept
        PROVE  Delivery!Next
    <3>1. copies'[m] <= MaxRetries /\ copies'[m] = copies[m] + 1 /\ copies[m] \in Nat
      BY <1>3, <2>2, <2>6, OutboxAssumption DEF Sends, TypeOK, CopiesWithinBudget
    <3>2. Delivery!Deliver(m)
      BY <2>3, <2>6, <3>1, OutboxAssumption DEF Sends, Delivery!Deliver
    <3>3. QED
      BY <3>2 DEF Delivery!Next
  <2>7. QED
    BY <2>1, <2>4, <2>5, <2>6, FailsIsReport, AcknowledgesIsAccept DEF VisibleStep
<1>5. QED
  BY <1>1, <1>4, InductiveInvariant, PTL DEF Spec, ImplementsDelivery, Delivery!Spec
==============================================================================
