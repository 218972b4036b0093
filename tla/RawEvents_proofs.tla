--------------------------- MODULE RawEvents_proofs ---------------------------
(***************************************************************************)
(* What processing leaves in the database, for any number of events,        *)
(* processors, pools, retries, faults and replays.                         *)
(***************************************************************************)
EXTENDS RawEvents, TLAPS

(* What the assumption says of an event: its kind, message and dedup key, and
   that a key determines the other two. *)
LEMMA EventFacts ==
  /\ NoEvent \notin Events
  /\ Kind \in [Events -> Kinds] /\ About \in [Events -> Externals] /\ KeyOf \in [Events -> Keys]
  /\ \A e, f \in Events : KeyOf[e] = KeyOf[f] => About[e] = About[f] /\ Kind[e] = Kind[f]
  /\ Drafts \subseteq Externals
BY RawEventsAssumption DEF RawEventsAssumption

(* The caps and bounds are natural numbers. *)
LEMMA Bounds == MaxRetries \in Nat /\ MaxFaults \in Nat /\ MaxReplays \in Nat
BY RawEventsAssumption DEF RawEventsAssumption

-----------------------------------------------------------------------------
(* Types *)

(* A counter that stops at the cap stays within it. *)
LEMMA BumpType ==
  ASSUME NEW f \in [Events -> 0..MaxRetries], NEW e
  PROVE  [f EXCEPT ![e] = IF @ < MaxRetries THEN @ + 1 ELSE @] \in [Events -> 0..MaxRetries]
<1>1. CASE e \in Events
  <2>1. f[e] \in 0..MaxRetries
    BY <1>1
  <2>2. (IF f[e] < MaxRetries THEN f[e] + 1 ELSE f[e]) \in 0..MaxRetries
    BY <2>1, Bounds
  <2> QED BY <1>1, <2>2, Zenon
<1>2. CASE e \notin Events
  BY <1>2, Zenon
<1> QED BY <1>1, <1>2

(* An empty log is well typed. *)
LEMMA InitType == Init => TypeOK
<1> SUFFICES ASSUME Init PROVE TypeOK
  OBVIOUS
<1>1. /\ status \in [Events -> Statuses]
      /\ transient \in [Events -> BOOLEAN]
      /\ stale \in [Events -> BOOLEAN]
      /\ cooled \in [Events -> BOOLEAN]
  BY DEF Init, Statuses
<1>2. 0 \in 0..MaxRetries /\ 0 \in 0..MaxFaults /\ 0 \in 0..MaxReplays /\ 0 \in Nat
  BY Bounds
<1>3. /\ retries \in [Events -> 0..MaxRetries]
      /\ faults \in 0..MaxFaults /\ replays \in 0..MaxReplays
      /\ unread \in [Externals -> Nat] /\ receipts \in [Keys -> Nat]
  BY <1>2, Zenon DEF Init
<1>4. keys \subseteq Keys /\ stored \subseteq Externals
  BY DEF Init
<1>5. /\ pc \in [Processors -> Phases]
      /\ todo \in [Processors -> SUBSET Events]
      /\ cur \in [Processors -> Events \cup {NoEvent}]
      /\ caught \in [Processors -> {"none", "transient", "other"}]
  BY DEF Init, Phases
<1> QED
  BY <1>1, <1>3, <1>4, <1>5 DEF TypeOK

(* The steps of batches, events, faults, operators and the environment keep the
   types: the event of a processor that works is a real one. *)
LEMMA TypeStep == TypeOK /\ WorkInv /\ [Next]_vars => TypeOK'
<1> SUFFICES ASSUME TypeOK, WorkInv, [Next]_vars PROVE TypeOK'
  OBVIOUS
<1> USE Bounds DEF TypeOK, Statuses, Phases, dataVars, rowVars, procVars, Goto, Done,
                   Abandon, Caught, Mark, Fault
<1>1. ASSUME NEW p \in Processors, ResetStaleProcessing(p) PROVE TypeOK'
  BY <1>1 DEF ResetStaleProcessing
<1>2. ASSUME NEW p \in Processors, NEW S \in SUBSET Events, Claim(p, S) PROVE TypeOK'
  <2>1. stale' \in [Events -> BOOLEAN] /\ cooled' \in [Events -> BOOLEAN]
    BY <1>2, Zenon DEF Claim
  <2>2. status' \in [Events -> Statuses] /\ todo' \in [Processors -> SUBSET Events]
        /\ pc' \in [Processors -> Phases]
    BY <1>2 DEF Claim
  <2> QED BY <1>2, <2>1, <2>2 DEF Claim
<1>3. ASSUME NEW p \in Processors, ClaimPendingBatch(p) PROVE TypeOK'
  <2>1. Oldest({e \in Events : IsClaimable(e)}) \in SUBSET Events
    BY DEF Oldest
  <2> QED BY <1>2, <1>3, <2>1 DEF ClaimPendingBatch
<1>4. ASSUME NEW p \in Processors, ClaimTransientRecoveryBatch(p) PROVE TypeOK'
  <2>1. PICK S \in SUBSET {e \in Events : IsRecoverable(e)} : Claim(p, S)
    BY <1>4 DEF ClaimTransientRecoveryBatch
  <2> QED BY <1>2, <2>1
<1>5. ASSUME NEW p \in Processors, NEW S \in SUBSET Events, NEW now \in BOOLEAN,
             ReplayRawEvents(p, S, now)
      PROVE TypeOK'
  BY <1>5 DEF ReplayRawEvents
<1>6. ASSUME NEW p \in Processors, NEW e \in Events, StartEvent(p, e) PROVE TypeOK'
  BY <1>6 DEF StartEvent
<1>7. ASSUME NEW p \in Processors, EndBatch(p) PROVE TypeOK'
  BY <1>7 DEF EndBatch
<1>8. ASSUME NEW p \in Processors, MarkUnsupported(p) \/ SaveSnapshot(p) PROVE TypeOK'
  <2>1. transient' \in [Events -> BOOLEAN]
    BY <1>8, Zenon DEF MarkUnsupported, SaveSnapshot
  <2> QED BY <1>8, <2>1 DEF MarkUnsupported, SaveSnapshot
<1>9. ASSUME NEW p \in Processors, BeginTransaction(p) PROVE TypeOK'
  BY <1>9 DEF BeginTransaction
<1>10. ASSUME NEW p \in Processors, SkipDuplicate(p) PROVE TypeOK'
  BY <1>10 DEF SkipDuplicate
<1>11. ASSUME NEW p \in Processors, pc[p] \in {"key", "ingest", "commit"}
      PROVE cur[p] \in Events /\ KeyOf[cur[p]] \in Keys /\ About[cur[p]] \in Externals
  BY <1>11, EventFacts DEF WorkInv
<1>12. ASSUME NEW p \in Processors, IgnoreProtocolMessage(p) PROVE TypeOK'
  BY <1>11, <1>12 DEF IgnoreProtocolMessage
<1>13. ASSUME NEW p \in Processors, CreateReceiptKey(p) \/ CreateMessageKey(p) PROVE TypeOK'
  BY <1>13 DEF CreateReceiptKey, CreateMessageKey
<1>14. ASSUME NEW p \in Processors, BeginIngest(p) PROVE TypeOK'
  BY <1>14 DEF BeginIngest
<1>15. ASSUME NEW e \in Events, About[e] \in Externals, Ingest(e)
      PROVE stored' \subseteq Externals /\ unread' \in [Externals -> Nat]
  BY <1>15 DEF Ingest
<1>16. ASSUME NEW p \in Processors, CommitIngest(p) PROVE TypeOK'
  BY <1>11, <1>15, <1>16 DEF CommitIngest
<1>17. ASSUME NEW p \in Processors, LoseInsertRace(p) PROVE TypeOK'
  BY <1>17 DEF LoseInsertRace
<1>18. ASSUME NEW e \in Events, KeyOf[e] \in Keys, Commit(e)
      PROVE /\ keys' \subseteq Keys /\ receipts' \in [Keys -> Nat]
            /\ status' \in [Events -> Statuses] /\ transient' \in [Events -> BOOLEAN]
            /\ UNCHANGED <<retries, stale, cooled, stored, unread>>
  BY <1>18 DEF Commit
<1>19. ASSUME NEW p \in Processors, CommitEvent(p) PROVE TypeOK'
  BY <1>11, <1>18, <1>19 DEF CommitEvent
<1>20. ASSUME NEW p \in Processors, RecordFailure(p) PROVE TypeOK'
  <2>1. /\ status' \in [Events -> Statuses]
        /\ transient' \in [Events -> BOOLEAN]
    BY <1>20, Zenon DEF RecordFailure, MarkFailed
  <2>2. retries' \in [Events -> 0..MaxRetries]
    BY <1>20, BumpType DEF RecordFailure, MarkFailed
  <2> QED BY <1>20, <2>1, <2>2 DEF RecordFailure, MarkFailed
<1>21. ASSUME NEW p \in Processors, ConnectTimesOut(p) PROVE TypeOK'
  BY <1>21 DEF ConnectTimesOut
<1>22. ASSUME NEW p \in Processors, NEW class \in ErrorClasses, CallFails(p, class) PROVE TypeOK'
  <2>1. class \in {"none", "transient", "other"}
    BY RawEventsAssumption DEF RawEventsAssumption
  <2> QED BY <1>22, <2>1 DEF CallFails
<1>23. ASSUME NEW p \in Processors, IngestAnswerLost(p) PROVE TypeOK'
  BY <1>11, <1>15, <1>23 DEF IngestAnswerLost
<1>24. ASSUME NEW p \in Processors, CommitAnswerLost(p) PROVE TypeOK'
  BY <1>11, <1>18, <1>24 DEF CommitAnswerLost
<1>25. ASSUME NEW p \in Processors, Crash(p) PROVE TypeOK'
  BY <1>25 DEF Crash
<1>26. ASSUME NEW e \in Events, Enqueue(e) \/ GrowStale(e) \/ CoolDown(e) PROVE TypeOK'
  BY <1>26 DEF Enqueue, GrowStale, CoolDown
<1>27. ASSUME NEW x \in Externals, LinkDraft(x) PROVE TypeOK'
  <2>1. /\ status' \in [Events -> Statuses]
        /\ transient' \in [Events -> BOOLEAN]
    BY <1>27, Zenon DEF LinkDraft
  <2>2. stored' \subseteq Externals
    BY <1>27 DEF LinkDraft
  <2> QED BY <1>27, <2>1, <2>2 DEF LinkDraft
<1>28. CASE UNCHANGED vars
  BY <1>28 DEF vars
<1> HIDE DEF TypeOK
<1> QED
  BY <1>1, <1>3, <1>4, <1>5, <1>6, <1>7, <1>8, <1>9, <1>10, <1>12, <1>13, <1>14, <1>16, <1>17,
     <1>19, <1>20, <1>21, <1>22, <1>23, <1>24, <1>25, <1>26, <1>27, <1>28, Zenon
     DEF Next, BatchStep, EventStep, KeyStep, FaultStep, OperatorStep, EnvironmentStep

-----------------------------------------------------------------------------
(* Effects *)

\* What processing has left is consistent, and so is what processors are about
\* to add to it.
Effects == WorkInv /\ KeyInv /\ DataInv /\ UnreadOnce /\ ReceiptsOnce

(* Nothing is stored or held at the start. *)
LEMMA InitEffects == Init => Effects /\ DoneMeansApplied
<1> SUFFICES ASSUME Init PROVE Effects /\ DoneMeansApplied
  OBVIOUS
<1>1. /\ \A p \in Processors : pc[p] = "idle"
      /\ \A e \in Events : status[e] = "none"
      /\ \A x \in Externals : unread[x] = 0
      /\ \A k \in Keys : receipts[k] = 0
      /\ keys = {}
  BY DEF Init
<1>2. WorkInv /\ KeyInv
  BY <1>1 DEF WorkInv, KeyInv, HoldsKey
<1>3. DataInv /\ DoneMeansApplied
  BY <1>1 DEF DataInv, DoneMeansApplied
<1>4. UnreadOnce /\ ReceiptsOnce
  BY <1>1 DEF UnreadOnce, ReceiptsOnce
<1> QED BY <1>2, <1>3, <1>4 DEF Effects

(* Steps that touch neither the effects nor a processor's event. *)
LEMMA StandStill ==
  ASSUME Effects, UNCHANGED <<pc, cur, dataVars>>
  PROVE  Effects'
BY DEF Effects, WorkInv, KeyInv, HoldsKey, DataInv, Applied, UnreadOnce, ReceiptsOnce, dataVars

(* A processor that has, or keeps, no open key disturbs nobody: it rolled back,
   went on to another event, or has not inserted its key yet. *)
LEMMA StepAside ==
  ASSUME TypeOK, Effects, UNCHANGED dataVars,
         NEW p \in Processors, NEW phase \in {"idle", "claim", "run", "begin", "key", "caught"},
         NEW e, phase \in {"begin", "key", "caught"} => e \in Events,
         pc' = [pc EXCEPT ![p] = phase], cur' = [cur EXCEPT ![p] = e]
  PROVE  Effects'
<1>1. /\ pc'[p] = phase /\ cur'[p] = e
      /\ \A q \in Processors \ {p} : pc'[q] = pc[q] /\ cur'[q] = cur[q]
  BY DEF TypeOK
<1>2. \A q \in Processors : HoldsKey(q)' => q # p /\ HoldsKey(q) /\ cur'[q] = cur[q]
  BY <1>1 DEF HoldsKey
<1>3. UNCHANGED <<keys, stored, unread, receipts>>
  BY DEF dataVars
<1>4. KeyInv'
  BY <1>2, <1>3 DEF Effects, KeyInv
<1>5. WorkInv'
  BY <1>1, <1>3 DEF Effects, WorkInv
<1>6. DataInv' /\ UnreadOnce' /\ ReceiptsOnce'
  BY <1>3 DEF Effects, DataInv, Applied, UnreadOnce, ReceiptsOnce
<1> QED BY <1>4, <1>5, <1>6 DEF Effects

(* The same for a processor that keeps its event. *)
LEMMA StepBack ==
  ASSUME TypeOK, Effects, UNCHANGED <<cur, dataVars>>,
         NEW p \in Processors, NEW phase \in {"idle", "claim", "run", "begin", "key", "caught"},
         phase \in {"begin", "key", "caught"} => cur[p] \in Events,
         pc' = [pc EXCEPT ![p] = phase]
  PROVE  Effects'
<1>1. cur' = [cur EXCEPT ![p] = cur[p]]
  BY DEF TypeOK
<1> QED BY <1>1, StepAside

(* A processor inserts its key, which no other transaction holds, or goes on
   with it. *)
LEMMA TakeKey ==
  ASSUME TypeOK, Effects, UNCHANGED <<cur, dataVars>>,
         NEW p \in Processors, NEW phase \in {"connect", "ingest", "commit"},
         pc' = [pc EXCEPT ![p] = phase],
         cur[p] \in Events,
         phase \in {"connect", "ingest"} => Kind[cur[p]] \in MessageKinds,
         phase = "commit" => About[cur[p]] \in stored,
         KeyOf[cur[p]] \notin keys,
         CanCreateKey(p)
  PROVE  Effects'
<1>1. /\ pc'[p] = phase /\ cur' = cur
      /\ \A q \in Processors \ {p} : pc'[q] = pc[q]
      /\ UNCHANGED <<keys, stored, unread, receipts>>
  BY DEF TypeOK, dataVars
<1>2. \A q \in Processors : HoldsKey(q)' => q = p \/ HoldsKey(q)
  BY <1>1 DEF HoldsKey
<1>3. KeyInv'
  <2>1. \A q \in Processors : HoldsKey(q)' => KeyOf[cur'[q]] \notin keys'
    BY <1>1, <1>2 DEF Effects, KeyInv
  <2>2. ASSUME NEW q \in Processors, NEW r \in Processors, HoldsKey(q)', HoldsKey(r)',
               KeyOf[cur'[q]] = KeyOf[cur'[r]], q # r
        PROVE FALSE
    BY <2>2, <1>1, <1>2 DEF Effects, KeyInv, CanCreateKey
  <2> QED BY <2>1, <2>2 DEF KeyInv
<1>4. WorkInv'
  BY <1>1 DEF Effects, WorkInv
<1>5. DataInv' /\ UnreadOnce' /\ ReceiptsOnce'
  BY <1>1 DEF Effects, DataInv, Applied, UnreadOnce, ReceiptsOnce
<1> QED BY <1>3, <1>4, <1>5 DEF Effects

(* Storing a message counts it unread only if it was not there. *)
LEMMA IngestData ==
  ASSUME TypeOK, DataInv, UnreadOnce, ReceiptsOnce,
         NEW e \in Events, Ingest(e), UNCHANGED <<keys, receipts>>
  PROVE  DataInv' /\ UnreadOnce' /\ ReceiptsOnce' /\ stored \subseteq stored' /\ About[e] \in stored'
<1>1. About[e] \in Externals
  BY EventFacts
<1>2. stored' = stored \cup {About[e]}
  BY DEF Ingest
<1>3. \A x \in Externals :
        /\ x # About[e] => unread'[x] = unread[x]
        /\ unread'[x] = unread[x] \/ (x \notin stored /\ unread'[x] = unread[x] + 1)
  BY <1>1 DEF Ingest, TypeOK
<1>4. UnreadOnce'
  <2> SUFFICES ASSUME NEW x \in Externals PROVE unread'[x] <= 1
    BY DEF UnreadOnce
  <2>1. x \notin stored => unread[x] = 0
    BY DEF DataInv
  <2> QED BY <2>1, <1>3 DEF UnreadOnce
<1>5. DataInv'
  <2>1. \A x \in Externals \ stored' : unread'[x] = 0
    BY <1>2, <1>3 DEF DataInv
  <2>2. \A f \in Events : Applied(f) => Applied(f)'
    BY <1>2 DEF Applied
  <2> QED BY <2>1, <2>2 DEF DataInv
<1> QED BY <1>2, <1>4, <1>5 DEF ReceiptsOnce

(* A key is committed with its event's effect, for every event of that key. *)
LEMMA CommitData ==
  ASSUME TypeOK, DataInv, UnreadOnce, ReceiptsOnce,
         NEW e \in Events, KeyOf[e] \notin keys,
         Kind[e] \in MessageKinds => About[e] \in stored,
         Commit(e)
  PROVE  DataInv' /\ UnreadOnce' /\ ReceiptsOnce' /\ Applied(e)'
                  /\ \A f \in Events : Applied(f) => Applied(f)'
<1>1. KeyOf[e] \in Keys
  BY EventFacts
<1>2. UNCHANGED <<stored, unread>> /\ keys' = keys \cup {KeyOf[e]}
  BY DEF Commit
<1>3. receipts[KeyOf[e]] = 0
  BY <1>1 DEF DataInv
<1>4. /\ receipts'[KeyOf[e]] = IF Kind[e] = "receipt" THEN 1 ELSE 0
      /\ \A k \in Keys : k # KeyOf[e] => receipts'[k] = receipts[k]
  BY <1>1, <1>3 DEF Commit, TypeOK
<1>5. ASSUME NEW f \in Events, Applied(f) \/ KeyOf[f] = KeyOf[e] PROVE Applied(f)'
  <2>1. CASE KeyOf[f] = KeyOf[e]
    <3>1. Kind[f] = Kind[e] /\ About[f] = About[e]
      BY <2>1, EventFacts
    <3> QED BY <3>1, <2>1, <1>2, <1>4 DEF Applied
  <2>2. CASE KeyOf[f] # KeyOf[e]
    <3>1. KeyOf[f] \in Keys
      BY EventFacts
    <3> QED BY <3>1, <2>2, <1>2, <1>4, <1>5 DEF Applied
  <2> QED BY <2>1, <2>2
<1>6. DataInv'
  <2>1. \A f \in Events : KeyOf[f] \in keys' => Applied(f)'
    BY <1>2, <1>5 DEF DataInv
  <2>2. \A k \in Keys \ keys' : receipts'[k] = 0
    BY <1>2, <1>4 DEF DataInv
  <2> QED BY <1>2, <2>1, <2>2 DEF DataInv
<1>7. UnreadOnce' /\ ReceiptsOnce'
  BY <1>2, <1>4 DEF UnreadOnce, ReceiptsOnce
<1> QED BY <1>5, <1>6, <1>7

-----------------------------------------------------------------------------
(* Steps *)

(* No row is marked as done, and no effect is undone. *)
LEMMA NothingDone ==
  ASSUME DoneMeansApplied,
         \A e \in Events : status'[e] \in {"processed", "ignored"} =>
                            status[e] \in {"processed", "ignored"} \/ Applied(e)',
         \A e \in Events : Applied(e) => Applied(e)'
  PROVE  DoneMeansApplied'
BY DEF DoneMeansApplied

(* What is applied stays applied while the effects are left alone. *)
LEMMA StillApplied ==
  ASSUME UNCHANGED dataVars
  PROVE  \A e \in Events : Applied(e)' <=> Applied(e)
BY DEF Applied, dataVars

(* Marking a row concerns that row only. *)
LEMMA MarkFact ==
  ASSUME TypeOK, NEW e, NEW s, Mark(e, s)
  PROVE  \A f \in Events : f # e => status'[f] = status[f]
BY DEF Mark, TypeOK

(* Batches are claimed, started and ended, and rows replayed, without an effect. *)
LEMMA BatchKeeps ==
  ASSUME IInv, NEW p \in Processors, BatchStep(p) \/ OperatorStep(p)
  PROVE  Effects' /\ DoneMeansApplied'
<1> USE DEF IInv
<1>1. Effects
  BY DEF Effects
<1>2. /\ UNCHANGED dataVars
      /\ \A e \in Events : status'[e] = status[e] \/ status'[e] \in {"pending", "processing"}
  <2>1. CASE ResetStaleProcessing(p)
    BY <2>1 DEF ResetStaleProcessing
  <2>2. ASSUME NEW S, Claim(p, S)
        PROVE  /\ UNCHANGED dataVars
               /\ \A e \in Events : status'[e] = status[e] \/ status'[e] \in {"pending", "processing"}
    BY <2>2 DEF Claim
  <2>3. CASE ClaimPendingBatch(p)
    BY <2>2, <2>3 DEF ClaimPendingBatch
  <2>4. CASE ClaimTransientRecoveryBatch(p)
    BY <2>2, <2>4 DEF ClaimTransientRecoveryBatch
  <2>5. CASE EndBatch(p) \/ \E e \in Events : StartEvent(p, e)
    BY <2>5 DEF EndBatch, StartEvent, rowVars
  <2>6. CASE OperatorStep(p)
    BY <2>6 DEF OperatorStep, ReplayRawEvents
  <2> QED BY <2>1, <2>3, <2>4, <2>5, <2>6 DEF BatchStep
<1>3. DoneMeansApplied'
  BY <1>2, StillApplied, NothingDone
<1>4. Effects'
  <2>1. CASE ResetStaleProcessing(p)
    BY <1>1, <2>1, StepBack DEF ResetStaleProcessing, Goto
  <2>2. ASSUME NEW S, Claim(p, S) PROVE Effects'
    BY <1>1, <2>2, StepBack DEF Claim, Goto
  <2>3. CASE ClaimPendingBatch(p)
    BY <2>2, <2>3 DEF ClaimPendingBatch
  <2>4. CASE ClaimTransientRecoveryBatch(p)
    BY <2>2, <2>4 DEF ClaimTransientRecoveryBatch
  <2>5. CASE EndBatch(p)
    BY <1>1, <2>5, StepBack DEF EndBatch, Goto
  <2>6. ASSUME NEW e \in Events, StartEvent(p, e) PROVE Effects'
    BY <1>1, <2>6, StepAside DEF StartEvent, Goto
  <2>7. ASSUME NEW S \in SUBSET Events, NEW now \in BOOLEAN, ReplayRawEvents(p, S, now)
        PROVE  Effects'
    <3>1. CASE now
      BY <1>1, <2>7, <3>1, StepBack DEF ReplayRawEvents, Goto
    <3>2. CASE ~now
      BY <1>1, <2>7, <3>2, StandStill DEF ReplayRawEvents
    <3> QED BY <3>1, <3>2
  <2> QED BY <2>1, <2>3, <2>4, <2>5, <2>6, <2>7 DEF BatchStep, OperatorStep
<1> QED BY <1>3, <1>4

(* Events without a message are marked as what they are. *)
LEMMA PlainEventKeeps ==
  ASSUME IInv, NEW p \in Processors,
         MarkUnsupported(p) \/ SaveSnapshot(p) \/ BeginTransaction(p)
  PROVE  Effects' /\ DoneMeansApplied'
<1> USE DEF IInv
<1>1. Effects /\ cur[p] \in Events /\ UNCHANGED dataVars
  BY DEF Effects, WorkInv, MarkUnsupported, SaveSnapshot, BeginTransaction
<1>2. ASSUME NEW s, Kind[cur[p]] \in {"unsupported", "snapshot"}, Mark(cur[p], s) PROVE DoneMeansApplied'
  <2>1. Applied(cur[p])
    BY <1>2 DEF Applied, MessageKinds
  <2> QED BY <1>1, <1>2, <2>1, MarkFact, StillApplied, NothingDone
<1>3. ASSUME Done(p), UNCHANGED todo PROVE Effects'
  BY <1>1, <1>3, StepAside DEF Done, Goto
<1>4. CASE MarkUnsupported(p)
  BY <1>2, <1>3, <1>4 DEF MarkUnsupported
<1>5. CASE SaveSnapshot(p)
  BY <1>2, <1>3, <1>5 DEF SaveSnapshot
<1>6. CASE BeginTransaction(p)
  <2>1. Effects'
    BY <1>1, <1>6, StepBack DEF BeginTransaction, Goto
  <2>2. UNCHANGED status
    BY <1>6 DEF BeginTransaction, rowVars
  <2> QED BY <1>1, <2>1, <2>2, StillApplied, NothingDone
<1> QED BY <1>4, <1>5, <1>6

(* A processor that is thrown out of its transactions. *)
LEMMA CaughtKeeps ==
  ASSUME IInv, NEW p \in Processors, cur[p] \in Events, NEW class, Caught(p, class),
         UNCHANGED <<status, dataVars>>
  PROVE  Effects' /\ DoneMeansApplied'
<1>1. Effects'
  BY StepBack DEF IInv, Effects, Caught, Goto
<1>2. DoneMeansApplied'
  BY StillApplied, NothingDone DEF IInv
<1> QED BY <1>1, <1>2

(* Who finds its key committed has nothing to do; who does not may insert it. *)
LEMMA KeyKeeps ==
  ASSUME IInv, NEW p \in Processors, KeyStep(p)
  PROVE  Effects' /\ DoneMeansApplied'
<1> USE DEF IInv
<1>1. Effects /\ cur[p] \in Events /\ pc[p] = "key"
  BY DEF Effects, WorkInv, KeyStep, SkipDuplicate, IgnoreProtocolMessage, CreateReceiptKey,
         CreateMessageKey
<1>2. CASE SkipDuplicate(p)
  <2>1. Applied(cur[p])
    BY <1>1, <1>2 DEF SkipDuplicate, DataInv
  <2>2. DoneMeansApplied'
    BY <1>2, <2>1, MarkFact, StillApplied, NothingDone DEF SkipDuplicate
  <2>3. Effects'
    BY <1>1, <1>2, StepAside DEF SkipDuplicate, Done, Goto
  <2> QED BY <2>2, <2>3
<1>3. CASE IgnoreProtocolMessage(p)
  <2>1. /\ keys' = keys \cup {KeyOf[cur[p]]} /\ UNCHANGED <<stored, unread, receipts>>
        /\ pc' = [pc EXCEPT ![p] = "run"] /\ cur' = [cur EXCEPT ![p] = NoEvent]
        /\ Kind[cur[p]] = "protocol" /\ CanCreateKey(p) /\ Mark(cur[p], "ignored")
    BY <1>3 DEF IgnoreProtocolMessage, Done, Goto
  <2>2. \A f \in Events : Applied(f)' <=> Applied(f)
    BY <2>1 DEF Applied
  <2>3. \A f \in Events : KeyOf[f] = KeyOf[cur[p]] => Applied(f)
    BY <1>1, <2>1, EventFacts DEF Applied, MessageKinds
  <2>4. DataInv' /\ UnreadOnce' /\ ReceiptsOnce'
    BY <2>1, <2>2, <2>3 DEF DataInv, UnreadOnce, ReceiptsOnce
  <2>5. \A q \in Processors : HoldsKey(q)' => q # p /\ HoldsKey(q) /\ cur'[q] = cur[q]
    BY <2>1 DEF HoldsKey, TypeOK
  <2>6. KeyInv'
    BY <2>1, <2>5 DEF KeyInv, CanCreateKey
  <2>7. WorkInv'
    BY <2>1 DEF WorkInv, TypeOK
  <2>8. DoneMeansApplied'
    BY <1>1, <2>1, <2>2, <2>3, MarkFact, NothingDone
  <2> QED BY <2>4, <2>6, <2>7, <2>8 DEF Effects
<1>4. CASE CreateReceiptKey(p)
  <2>1. CASE About[cur[p]] \in stored
    <3>1. Effects'
      BY <1>1, <1>4, <2>1, TakeKey DEF CreateReceiptKey, Goto, MessageKinds, Caught
    <3>2. DoneMeansApplied'
      BY <1>4, StillApplied, NothingDone DEF CreateReceiptKey, rowVars
    <3> QED BY <3>1, <3>2
  <2>2. CASE About[cur[p]] \notin stored
    BY <1>1, <1>4, <2>2, CaughtKeeps DEF CreateReceiptKey, rowVars
  <2> QED BY <2>1, <2>2
<1>5. CASE CreateMessageKey(p)
  <2>1. Effects'
    BY <1>1, <1>5, TakeKey DEF CreateMessageKey, Goto
  <2>2. DoneMeansApplied'
    BY <1>5, StillApplied, NothingDone DEF CreateMessageKey, rowVars
  <2> QED BY <2>1, <2>2
<1> QED BY <1>2, <1>3, <1>4, <1>5 DEF KeyStep

(* Another connection for the same key: BeginIngest. *)
LEMMA ConnectKeeps ==
  ASSUME IInv, NEW p \in Processors, BeginIngest(p)
  PROVE  Effects' /\ DoneMeansApplied'
<1> USE DEF IInv
<1>1. /\ pc[p] = "connect" /\ pc' = [pc EXCEPT ![p] = "ingest"]
      /\ UNCHANGED <<cur, status, keys, stored, unread, receipts, dataVars>>
  BY DEF BeginIngest, Goto, rowVars, dataVars
<1>2. \A q \in Processors : HoldsKey(q)' <=> HoldsKey(q)
  BY <1>1 DEF HoldsKey, TypeOK
<1>3. KeyInv'
  BY <1>1, <1>2 DEF KeyInv
<1>4. WorkInv'
  BY <1>1 DEF WorkInv, TypeOK
<1>5. DataInv' /\ UnreadOnce' /\ ReceiptsOnce' /\ DoneMeansApplied'
  BY <1>1 DEF DataInv, Applied, UnreadOnce, ReceiptsOnce, DoneMeansApplied
<1> QED BY <1>3, <1>4, <1>5 DEF Effects

(* The inner transaction commits, whether its processor hears of it or not. *)
LEMMA IngestKeeps ==
  ASSUME IInv, NEW p \in Processors, CommitIngest(p) \/ IngestAnswerLost(p)
  PROVE  Effects' /\ DoneMeansApplied'
<1> USE DEF IInv
<1>1. /\ pc[p] = "ingest" /\ cur[p] \in Events /\ Ingest(cur[p])
      /\ UNCHANGED <<cur, status, keys, receipts>>
      /\ pc' = [pc EXCEPT ![p] = "commit"] \/ pc' = [pc EXCEPT ![p] = "caught"]
  BY DEF CommitIngest, IngestAnswerLost, Goto, Caught, rowVars, WorkInv
<1>2. DataInv' /\ UnreadOnce' /\ ReceiptsOnce' /\ stored \subseteq stored' /\ About[cur[p]] \in stored'
  BY <1>1, IngestData
<1>3. \A q \in Processors : HoldsKey(q)' => HoldsKey(q)
  BY <1>1 DEF HoldsKey, TypeOK
<1>4. KeyInv'
  BY <1>1, <1>3 DEF KeyInv
<1>5. WorkInv'
  BY <1>1, <1>2 DEF WorkInv, TypeOK
<1>6. DoneMeansApplied'
  <2>1. \A e \in Events : Applied(e) => Applied(e)'
    BY <1>1, <1>2 DEF Applied
  <2> QED BY <1>1, <2>1, NothingDone
<1> QED BY <1>2, <1>4, <1>5, <1>6 DEF Effects

(* The outer transaction commits, whether its processor hears of it or not. *)
LEMMA CommitKeeps ==
  ASSUME IInv, NEW p \in Processors, CommitEvent(p) \/ CommitAnswerLost(p)
  PROVE  Effects' /\ DoneMeansApplied'
<1> USE DEF IInv
<1>1. /\ pc[p] = "commit" /\ cur[p] \in Events /\ Commit(cur[p])
      /\ \/ pc' = [pc EXCEPT ![p] = "run"] /\ cur' = [cur EXCEPT ![p] = NoEvent]
         \/ pc' = [pc EXCEPT ![p] = "caught"] /\ UNCHANGED cur
  BY DEF CommitEvent, CommitAnswerLost, Done, Caught, Goto, WorkInv
<1>2. /\ KeyOf[cur[p]] \notin keys
      /\ Kind[cur[p]] \in MessageKinds => About[cur[p]] \in stored
  BY <1>1 DEF KeyInv, HoldsKey, WorkInv
<1>3. PICK e \in Events : e = cur[p]
  BY <1>1
<1>4. /\ DataInv' /\ UnreadOnce' /\ ReceiptsOnce' /\ Applied(e)'
      /\ \A f \in Events : Applied(f) => Applied(f)'
  BY <1>1, <1>2, <1>3, CommitData
<1>5. /\ keys' = keys \cup {KeyOf[cur[p]]} /\ UNCHANGED stored
      /\ Mark(e, "processed")
  BY <1>1, <1>3 DEF Commit
<1>6. \A q \in Processors : HoldsKey(q)' => q # p /\ HoldsKey(q) /\ cur'[q] = cur[q]
  BY <1>1 DEF HoldsKey, TypeOK
<1>7. KeyInv'
  <2>1. ASSUME NEW q \in Processors, HoldsKey(q)' PROVE KeyOf[cur'[q]] \notin keys'
    <3>1. HoldsKey(p)
      BY <1>1 DEF HoldsKey
    <3> QED BY <1>5, <1>6, <2>1, <3>1 DEF KeyInv
  <2> QED BY <1>6, <2>1 DEF KeyInv
<1>8. WorkInv'
  BY <1>1, <1>5 DEF WorkInv, TypeOK
<1>9. DoneMeansApplied'
  BY <1>4, <1>5, MarkFact, NothingDone
<1> QED BY <1>4, <1>7, <1>8, <1>9 DEF Effects

(* Failures, timeouts and crashes roll back. *)
LEMMA FailureKeeps ==
  ASSUME IInv, NEW p \in Processors,
         \/ LoseInsertRace(p) \/ RecordFailure(p) \/ ConnectTimesOut(p) \/ Crash(p)
         \/ \E class \in ErrorClasses : CallFails(p, class)
  PROVE  Effects' /\ DoneMeansApplied'
<1> USE DEF IInv
<1>1. Effects /\ UNCHANGED dataVars
  BY DEF Effects, LoseInsertRace, RecordFailure, ConnectTimesOut, Crash, CallFails
<1>2. CASE LoseInsertRace(p)
  BY <1>2, CaughtKeeps DEF LoseInsertRace, WorkInv, rowVars
<1>3. CASE RecordFailure(p)
  <2>1. Effects'
    BY <1>1, <1>3, StepAside DEF RecordFailure, Done, Goto
  <2>2. \A e \in Events : status'[e] = status[e] \/ status'[e] = "failed"
    BY <1>3 DEF RecordFailure, MarkFailed, TypeOK
  <2> QED BY <1>1, <2>1, <2>2, StillApplied, NothingDone
<1>4. ASSUME Abandon(p), UNCHANGED rowVars PROVE Effects' /\ DoneMeansApplied'
  <2>1. Effects'
    BY <1>1, <1>4, StepAside DEF Abandon, Goto
  <2> QED BY <1>1, <1>4, <2>1, StillApplied, NothingDone DEF rowVars
<1>5. CASE ConnectTimesOut(p)
  <2>1. CASE pc[p] \in {"begin", "connect"} /\ Caught(p, "transient")
    BY <1>5, <2>1, CaughtKeeps DEF ConnectTimesOut, WorkInv, rowVars
  <2>2. CASE Abandon(p)
    BY <1>4, <1>5, <2>2 DEF ConnectTimesOut
  <2> QED BY <1>5, <2>1, <2>2 DEF ConnectTimesOut
<1>6. CASE Crash(p)
  BY <1>4, <1>6 DEF Crash
<1>7. ASSUME NEW class \in ErrorClasses, CallFails(p, class) PROVE Effects' /\ DoneMeansApplied'
  BY <1>7, CaughtKeeps DEF CallFails, OuterOpen, WorkInv, rowVars
<1> QED BY <1>2, <1>3, <1>5, <1>6, <1>7

(* The connector logs events, the outbox links drafts, time passes. *)
LEMMA EnvironmentKeeps ==
  ASSUME IInv, EnvironmentStep
  PROVE  Effects' /\ DoneMeansApplied'
<1> USE DEF IInv
<1>1. ASSUME NEW e \in Events, Enqueue(e) \/ GrowStale(e) \/ CoolDown(e)
      PROVE  Effects' /\ DoneMeansApplied'
  <2>1. /\ UNCHANGED <<pc, cur, dataVars>>
        /\ \A f \in Events : status'[f] = status[f] \/ status'[f] = "pending"
    BY <1>1 DEF Enqueue, GrowStale, CoolDown, procVars, TypeOK
  <2> QED BY <2>1, StandStill, StillApplied, NothingDone DEF Effects
<1>2. ASSUME NEW x \in Externals, LinkDraft(x) PROVE Effects' /\ DoneMeansApplied'
  <2>1. /\ stored' = stored \cup {x} /\ UNCHANGED <<pc, cur, keys, unread, receipts>>
        /\ \A f \in Events : status'[f] = status[f] \/ status'[f] = "pending"
    BY <1>2 DEF LinkDraft, procVars
  <2>2. \A f \in Events : Applied(f) => Applied(f)'
    BY <2>1 DEF Applied
  <2>3. WorkInv' /\ KeyInv'
    BY <2>1 DEF WorkInv, KeyInv, HoldsKey
  <2>4. DataInv' /\ UnreadOnce' /\ ReceiptsOnce'
    BY <2>1, <2>2 DEF DataInv, UnreadOnce, ReceiptsOnce
  <2> QED BY <2>1, <2>2, <2>3, <2>4, NothingDone DEF Effects
<1> QED BY <1>1, <1>2 DEF EnvironmentStep

-----------------------------------------------------------------------------
(* Theorems *)

(* A key is committed only with its event's effect, and an open key has a single
   holder, at every step: the inductive invariant. *)
THEOREM InductiveInvariant == Spec => []IInv
<1>1. Init => IInv
  BY InitType, InitEffects DEF IInv, Effects
<1>2. IInv /\ [Next]_vars => IInv'
  <2> SUFFICES ASSUME IInv, [Next]_vars PROVE IInv'
    OBVIOUS
  <2>1. TypeOK'
    BY TypeStep DEF IInv
  <2>2. CASE UNCHANGED vars
    <3>1. Effects'
      BY <2>2, StandStill DEF IInv, Effects, vars, procVars
    <3>2. DoneMeansApplied'
      BY <2>2, StillApplied, NothingDone DEF IInv, vars, rowVars
    <3> QED BY <2>1, <3>1, <3>2 DEF IInv, Effects
  <2>3. ASSUME NEW p \in Processors,
               BatchStep(p) \/ EventStep(p) \/ FaultStep(p) \/ OperatorStep(p)
        PROVE  Effects' /\ DoneMeansApplied'
    <3>1. CASE BatchStep(p) \/ OperatorStep(p)
      BY <3>1, BatchKeeps
    <3>2. CASE EventStep(p)
      BY <3>2, PlainEventKeeps, KeyKeeps, ConnectKeeps, IngestKeeps, CommitKeeps, FailureKeeps
         DEF EventStep
    <3>3. CASE FaultStep(p)
      BY <3>3, IngestKeeps, CommitKeeps, FailureKeeps DEF FaultStep
    <3> QED BY <2>3, <3>1, <3>2, <3>3
  <2>4. CASE Next
    BY <2>1, <2>3, <2>4, EnvironmentKeeps DEF Next, IInv, Effects
  <2> QED BY <2>2, <2>4
<1> QED BY <1>1, <1>2, PTL DEF Spec

(* Rows, keys, messages, receipts and the memory of every processor keep their types. *)
THEOREM TypeCorrect == Spec => []TypeOK
<1>1. IInv => TypeOK
  BY DEF IInv
<1> QED BY <1>1, InductiveInvariant, PTL

(* An event that is processed or ignored has had its effect, whatever crashed or
   rolled back between the two commits. *)
THEOREM DoneIsApplied == Spec => []DoneMeansApplied
<1>1. IInv => DoneMeansApplied
  BY DEF IInv
<1> QED BY <1>1, InductiveInvariant, PTL

(* A message is counted as unread at most once, under however many keys and by
   however many processors it is ingested. *)
THEOREM CountedOnce == Spec => []UnreadOnce
<1>1. IInv => UnreadOnce
  BY DEF IInv
<1> QED BY <1>1, InductiveInvariant, PTL

(* A receipt is logged at most once. *)
THEOREM LoggedOnce == Spec => []ReceiptsOnce
<1>1. IInv => ReceiptsOnce
  BY DEF IInv
<1> QED BY <1>1, InductiveInvariant, PTL

-----------------------------------------------------------------------------
(* The refinement of InboundLog, step by step. *)

ClosedStatuses == {"processed", "ignored"}

LEMMA EventSets ==
  /\ \A e \in Events : e \in EventsOf(MessageKinds) <=> Kind[e] \in MessageKinds
  /\ \A e \in Events : e \in EventsOf({"receipt"}) <=> Kind[e] = "receipt"
  /\ EventsOf({"receipt"}) \subseteq Events
BY DEF EventsOf

(* A step without an effect that closes no row is a stutter, or opens rows again. *)
LEMMA OpensOnly ==
  ASSUME UNCHANGED <<stored, unread, receipts>>,
         \A e \in Events : status'[e] \in ClosedStatuses => status[e] \in ClosedStatuses
  PROVE  Log!Next
BY DEF Log!Next, Log!Reopen, ClosedStatuses

(* Marking a row whose event has had its effect is a Close. *)
LEMMA MarksApplied ==
  ASSUME TypeOK, ReceiptsOnce, NEW e \in Events, NEW s \in ClosedStatuses, Mark(e, s),
         Applied(e), UNCHANGED <<stored, unread, receipts>>
  PROVE  Log!Next
<1>1. e \in EventsOf(MessageKinds) => About[e] \in stored
  BY EventSets DEF Applied
<1>2. e \in EventsOf({"receipt"}) => receipts[KeyOf[e]] = 1
  BY EventSets, EventFacts DEF Applied, ReceiptsOnce, TypeOK
<1>3. status' = [status EXCEPT ![e] = s] /\ status \in [Events -> Statuses]
  BY DEF Mark, TypeOK
<1>4. {f \in Events : status'[f] \in {"processed", "ignored"}}
        = {f \in Events : status[f] \in {"processed", "ignored"}} \cup {e}
  BY <1>3 DEF ClosedStatuses
<1>5. Log!Close(e)
  BY <1>1, <1>2, <1>4 DEF Log!Close
<1> QED BY <1>5 DEF Log!Next

(* A message that is stored for the first time arrives, without an event closed. *)
LEMMA StoresOne ==
  ASSUME NEW x \in Externals, x \notin stored, stored' = stored \cup {x}, UNCHANGED receipts,
         NEW c \in {0, 1}, unread' = [unread EXCEPT ![x] = @ + c],
         \A e \in Events : status'[e] \in ClosedStatuses <=> status[e] \in ClosedStatuses
  PROVE  Log!Next
<1>1. {f \in Events : status'[f] \in {"processed", "ignored"}}
        = {f \in Events : status[f] \in {"processed", "ignored"}}
  BY DEF ClosedStatuses
<1>2. Log!Arrive(x)
  BY <1>1 DEF Log!Arrive
<1> QED BY <1>2 DEF Log!Next

(* The inner transaction stores the message, or finds it stored. *)
LEMMA IngestRefines ==
  ASSUME IInv, NEW p \in Processors, CommitIngest(p) \/ IngestAnswerLost(p)
  PROVE  Log!Next
<1>1. PICK e \in Events : e = cur[p] /\ Ingest(e) /\ UNCHANGED <<status, receipts>>
  BY DEF IInv, WorkInv, CommitIngest, IngestAnswerLost, rowVars
<1>2. About[e] \in Externals /\ unread \in [Externals -> Nat]
  BY EventFacts DEF IInv, TypeOK
<1>3. CASE About[e] \in stored
  <2>1. stored' = stored /\ unread' = unread
    BY <1>1, <1>2, <1>3 DEF Ingest
  <2> QED BY <1>1, <2>1, OpensOnly
<1>4. CASE About[e] \notin stored
  <2>1. stored' = stored \cup {About[e]}
    BY <1>1 DEF Ingest
  <2>2. PICK c \in {0, 1} : unread' = [unread EXCEPT ![About[e]] = @ + c]
    <3>1. CASE Kind[e] = "incoming"
      BY <1>1, <1>4, <3>1 DEF Ingest
    <3>2. CASE Kind[e] # "incoming"
      <4>1. unread' = [unread EXCEPT ![About[e]] = @]
        BY <1>1, <3>2 DEF Ingest
      <4>2. unread[About[e]] = unread[About[e]] + 0
        BY <1>2
      <4>3. unread' = [unread EXCEPT ![About[e]] = @ + 0]
        BY <4>1, <4>2
      <4> QED BY <4>3
    <3> QED BY <3>1, <3>2
  <2> QED BY <1>1, <1>2, <1>4, <2>1, <2>2, StoresOne
<1> QED BY <1>3, <1>4

(* The outer transaction logs a receipt, or closes a row whose message is stored. *)
LEMMA CommitRefines ==
  ASSUME IInv, NEW p \in Processors, CommitEvent(p) \/ CommitAnswerLost(p)
  PROVE  Log!Next
<1>1. PICK e \in Events : e = cur[p] /\ Commit(e) /\ About[e] \in stored
  BY DEF IInv, WorkInv, CommitEvent, CommitAnswerLost
<1>2. KeyOf[e] \in Keys /\ receipts[KeyOf[e]] = 0
  <2>1. KeyOf[e] \in Keys \ keys
    BY <1>1, EventFacts DEF IInv, KeyInv, HoldsKey, CommitEvent, CommitAnswerLost
  <2> QED BY <2>1 DEF IInv, DataInv
<1>3. Mark(e, "processed") /\ UNCHANGED <<stored, unread>>
  BY <1>1 DEF Commit
<1>4. TypeOK /\ ReceiptsOnce
  BY DEF IInv
<1>5. CASE Kind[e] = "receipt"
  <2>1. receipts' = [receipts EXCEPT ![KeyOf[e]] = 1]
    BY <1>1, <1>2, <1>5 DEF Commit
  <2>2. {f \in Events : status'[f] \in {"processed", "ignored"}}
          = {f \in Events : status[f] \in {"processed", "ignored"}} \cup {e}
    BY <1>3, <1>4 DEF Mark, TypeOK
  <2>3. Log!Log(e)
    BY <1>1, <1>2, <1>3, <2>1, <2>2 DEF Log!Log
  <2> QED BY <1>5, <2>3, EventSets DEF Log!Next
<1>6. CASE Kind[e] # "receipt"
  <2>1. receipts' = receipts
    BY <1>1, <1>4, <1>6 DEF Commit, TypeOK
  <2>2. Applied(e)
    BY <1>1, <1>6 DEF Applied
  <2> QED BY <1>3, <1>4, <2>1, <2>2, MarksApplied DEF ClosedStatuses
<1> QED BY <1>5, <1>6

(* A row is marked with its event's effect there: unsupported events, snapshots,
   duplicates and protocol messages have none left to make. *)
LEMMA MarkRefines ==
  ASSUME IInv, NEW p \in Processors,
         MarkUnsupported(p) \/ SaveSnapshot(p) \/ SkipDuplicate(p) \/ IgnoreProtocolMessage(p)
  PROVE  Log!Next
<1>1. PICK e \in Events : e = cur[p]
  BY DEF IInv, WorkInv, MarkUnsupported, SaveSnapshot, SkipDuplicate, IgnoreProtocolMessage
<1>2. PICK s \in ClosedStatuses : Mark(e, s)
  BY <1>1 DEF ClosedStatuses, MarkUnsupported, SaveSnapshot, SkipDuplicate, IgnoreProtocolMessage
<1>3. UNCHANGED <<stored, unread, receipts>>
  BY DEF dataVars, MarkUnsupported, SaveSnapshot, SkipDuplicate, IgnoreProtocolMessage
<1>4. Applied(e)
  <2>1. CASE SkipDuplicate(p)
    BY <1>1, <2>1 DEF SkipDuplicate, IInv, DataInv
  <2>2. CASE ~SkipDuplicate(p)
    <3>1. Kind[e] \in {"unsupported", "snapshot", "protocol"}
      BY <1>1, <2>2 DEF MarkUnsupported, SaveSnapshot, IgnoreProtocolMessage
    <3> QED BY <3>1 DEF Applied, MessageKinds
  <2> QED BY <2>1, <2>2
<1> QED BY <1>2, <1>3, <1>4, MarksApplied DEF IInv

(* Claims, retries, replays, failures and rollbacks leave the effects alone and
   close no row. *)
LEMMA OthersRefine ==
  ASSUME IInv, NEW p \in Processors,
         \/ BatchStep(p) \/ OperatorStep(p) \/ BeginTransaction(p)
         \/ CreateReceiptKey(p) \/ CreateMessageKey(p) \/ BeginIngest(p)
         \/ LoseInsertRace(p) \/ RecordFailure(p) \/ ConnectTimesOut(p) \/ Crash(p)
         \/ \E class \in ErrorClasses : CallFails(p, class)
  PROVE  Log!Next
<1>1. UNCHANGED <<stored, unread, receipts>>
  BY DEF BatchStep, ResetStaleProcessing, ClaimPendingBatch, ClaimTransientRecoveryBatch, Claim,
         StartEvent, EndBatch, OperatorStep, ReplayRawEvents, BeginTransaction, CreateReceiptKey,
         CreateMessageKey, BeginIngest, LoseInsertRace, RecordFailure, ConnectTimesOut, Crash,
         CallFails, dataVars
<1>2. \A e \in Events :
        status'[e] = status[e] \/ status'[e] \in {"pending", "processing", "failed"}
  <2>1. CASE BatchStep(p) \/ OperatorStep(p)
    BY <2>1 DEF BatchStep, ResetStaleProcessing, ClaimPendingBatch, ClaimTransientRecoveryBatch,
       Claim, StartEvent, EndBatch, OperatorStep, ReplayRawEvents, rowVars
  <2>2. CASE RecordFailure(p)
    BY <2>2 DEF RecordFailure, MarkFailed, IInv, TypeOK
  <2>3. CASE ~(BatchStep(p) \/ OperatorStep(p) \/ RecordFailure(p))
    BY <2>3 DEF BeginTransaction, CreateReceiptKey, CreateMessageKey, BeginIngest, LoseInsertRace,
       ConnectTimesOut, Crash, CallFails, rowVars
  <2> QED BY <2>1, <2>2, <2>3
<1> QED BY <1>1, <1>2, OpensOnly DEF ClosedStatuses

(* The outbox's link stores a message; nothing else around the log has an effect. *)
LEMMA EnvironmentRefines ==
  ASSUME IInv, EnvironmentStep
  PROVE  Log!Next
<1>1. ASSUME NEW e \in Events, Enqueue(e) \/ GrowStale(e) \/ CoolDown(e) PROVE Log!Next
  <2>1. /\ UNCHANGED <<stored, unread, receipts>>
        /\ \A f \in Events : status'[f] = status[f] \/ status'[f] = "pending"
    BY <1>1 DEF Enqueue, GrowStale, CoolDown, dataVars, IInv, TypeOK
  <2> QED BY <2>1, OpensOnly DEF ClosedStatuses
<1>2. ASSUME NEW x \in Externals, LinkDraft(x) PROVE Log!Next
  <2>1. /\ x \notin stored /\ stored' = stored \cup {x} /\ UNCHANGED receipts
        /\ \A f \in Events : \/ status'[f] = status[f]
                             \/ status[f] = "failed" /\ status'[f] = "pending"
    BY <1>2 DEF LinkDraft
  <2>2. unread' = [unread EXCEPT ![x] = @ + 0]
    BY <1>2 DEF LinkDraft, IInv, TypeOK
  <2> QED BY <2>1, <2>2, StoresOne DEF ClosedStatuses
<1> QED BY <1>1, <1>2 DEF EnvironmentStep

(* The raw event log implements InboundLog: in whatever order events are claimed,
   replayed, failed and committed, a message enters the inbox and the unread count
   once, a receipt the log once and after its message, and no row is closed without
   its effect. *)
THEOREM EventsImplementLog == Spec => ImplementsInboundLog
<1>1. Init => Log!Init
  BY DEF Init, Log!Init
<1>2. IInv /\ [Next]_vars => [Log!Next]_(Log!vars)
  <2> SUFFICES ASSUME IInv, [Next]_vars PROVE Log!Next \/ UNCHANGED Log!vars
    OBVIOUS
  <2>1. CASE UNCHANGED vars
    BY <2>1 DEF vars, rowVars, dataVars, Log!vars
  <2>2. ASSUME NEW p \in Processors,
               BatchStep(p) \/ EventStep(p) \/ FaultStep(p) \/ OperatorStep(p)
        PROVE  Log!Next
    <3>1. CASE BatchStep(p) \/ OperatorStep(p)
      BY <3>1, OthersRefine
    <3>2. CASE EventStep(p)
      BY <3>2, MarkRefines, IngestRefines, CommitRefines, OthersRefine DEF EventStep, KeyStep
    <3>3. CASE FaultStep(p)
      BY <3>3, IngestRefines, CommitRefines, OthersRefine DEF FaultStep
    <3> QED BY <2>2, <3>1, <3>2, <3>3
  <2> QED BY <2>1, <2>2, EnvironmentRefines DEF Next
<1> QED BY <1>1, <1>2, InductiveInvariant, PTL DEF Spec, ImplementsInboundLog, Log!Spec
===============================================================================
