------------------------ MODULE EmailCampaign_proofs ------------------------
(***************************************************************************)
(* What holds of a campaign's rows for any audience, any number of workers  *)
(* and requests, and without a bound on edits, requests and faults.         *)
(***************************************************************************)
EXTENDS EmailCampaign, TLAPS

(* The constants as the proofs use them. *)
LEMMA Constants ==
  /\ MaxEdits \in Nat /\ MaxRequests \in Nat /\ MaxFaults \in Nat
  /\ Blocked \subseteq Emails
  /\ NoRow \notin Rows
  /\ \A r \in Rows : r[1] \in Emails /\ r[2] \in Nat
  /\ Operators \subseteq Dispatchers /\ Workers \subseteq Dispatchers
BY EmailAssumption DEF EmailAssumption, Rows, NoRow, Versions, Dispatchers

(* A new version of the list leaves every row with a status. *)
LEMMA InsertType ==
  ASSUME TypeOK, NEW v \in Versions, NEW pending \in SUBSET Emails, Insert(v, pending)
  PROVE  status' \in [Rows -> RowStatuses]
BY DEF TypeOK, Insert, RowStatuses

(* The organization starts well typed. *)
LEMMA InitType == Init => TypeOK
<1> SUFFICES ASSUME Init PROVE TypeOK
  OBVIOUS
<1>1. campaign \in CampaignStatuses /\ sender \in {"draft", "verified", "failed", "disabled", "deleted"}
  BY DEF Init, CampaignStatuses
<1>2. status \in [Rows -> RowStatuses] /\ mailed \in [Rows -> Nat]
  BY DEF Init, RowStatuses
<1>3. version \in Versions /\ tokens \subseteq Rows /\ suppressed \subseteq Emails
  BY Constants DEF Init, Versions
<1>4. /\ pc \in [Dispatchers -> {"idle", "batch"} \cup Checked \cup Dispatching]
      /\ cur \in [Dispatchers -> Rows \cup {NoRow}]
      /\ \A p \in Dispatchers : pc[p] \in Dispatching => cur[p] \in Rows
      /\ list \in [Operators -> SUBSET Emails]
  BY DEF Init, Dispatching
<1>5. /\ outcome \in [Dispatchers -> {"sent", "failed"}]
      /\ verdict \in [Dispatchers -> {"open", "sent", "failed"}]
      /\ requests \in Nat /\ faults \in Nat
  BY DEF Init
<1> QED
  BY <1>1, <1>2, <1>3, <1>4, <1>5 DEF TypeOK

(* Requests, changes of the lists, dispatch and faults keep the types. *)
LEMMA TypeStep == TypeOK /\ [Next]_vars => TypeOK'
<1> SUFFICES ASSUME TypeOK, [Next]_vars PROVE TypeOK'
  OBVIOUS
<1> USE Constants DEF TypeOK, CampaignStatuses, Checked, Dispatching, Request, Expected,
            Fault, At, Home, Free, Closed, listVars, procVars
<1>1. ASSUME NEW o \in Operators, Operate(o) PROVE TypeOK'
  <2> USE DEF Prepared
  <2>1. CASE CreateCheck(o)
    BY <2>1 DEF CreateCheck
  <2>2. CASE CreateWrite(o)
    BY <2>2, InsertType DEF CreateWrite
  <2>3. CASE EditCheck(o)
    BY <2>3 DEF EditCheck
  <2>4. CASE EditWrite(o)
    <3>1. version + 1 \in Versions
      BY <2>4 DEF EditWrite, Versions
    <3>2. status' \in [Rows -> RowStatuses]
      BY <2>4, <3>1, InsertType DEF EditWrite
    <3> QED
      BY <2>4, <3>1, <3>2 DEF EditWrite
  <2>5. CASE StartCheck(o) \/ StartWrite(o)
    BY <2>5 DEF StartCheck, StartWrite
  <2>6. CASE PauseCheck(o) \/ PauseWrite(o)
    BY <2>6 DEF PauseCheck, PauseWrite
  <2>7. CASE CancelCheck(o) \/ CancelWrite(o)
    BY <2>7 DEF CancelCheck, CancelWrite
  <2> QED
    BY <1>1, <2>1, <2>2, <2>3, <2>4, <2>5, <2>6, <2>7 DEF Operate
<1>2. ASSUME NEW e \in Emails, AddSuppression(e) \/ RemoveSuppression(e) PROVE TypeOK'
  BY <1>2 DEF AddSuppression, RemoveSuppression
<1>3. ASSUME NEW s \in SenderChanges, SetSender(s) PROVE TypeOK'
  BY <1>3, EmailAssumption DEF SetSender, EmailAssumption
<1>4. ASSUME NEW r \in Rows, Unsubscribe(r) PROVE TypeOK'
  BY <1>4 DEF Unsubscribe, RowStatuses
<1>5. ASSUME NEW p \in Dispatchers, NEW r \in Rows, Claim(p, r) PROVE TypeOK'
  BY <1>5 DEF Claim, RowStatuses
<1>6. ASSUME NEW p \in Operators, EndBatch(p) PROVE TypeOK'
  BY <1>6 DEF EndBatch
<1>7. ASSUME NEW p \in Dispatchers, Abandon(p), requests' \in Nat, faults' \in Nat PROVE TypeOK'
  BY <1>7 DEF Abandon
<1>8. ASSUME NEW p \in Dispatchers, Process(p) PROVE TypeOK'
  <2>1. CASE CreateToken(p)
    BY <2>1 DEF CreateToken, Present, RowStatuses
  <2>2. CASE PreparationFails(p)
    BY <2>2, <1>7 DEF PreparationFails
  <2>3. CASE SendMail(p)
    BY <2>3 DEF SendMail
  <2>4. CASE MailRefused(p)
    BY <2>4 DEF MailRefused
  <2>5. CASE Record(p)
    <3>1. \A s \in {"sent", "failed"} : Completion(cur[p], s) \in {"open", "sent", "failed"}
      BY DEF Completion
    <3> QED
      BY <2>5, <3>1 DEF Record
  <2>6. CASE Commit(p)
    BY <2>6 DEF Commit, RowStatuses
  <2>7. CASE RecordRejected(p)
    BY <2>7, <1>7 DEF RecordRejected
  <2> QED
    BY <1>8, <2>1, <2>2, <2>3, <2>4, <2>5, <2>6, <2>7 DEF Process
<1>9. ASSUME NEW p \in Dispatchers, MailAnswerLost(p) PROVE TypeOK'
  BY <1>9 DEF MailAnswerLost
<1>10. ASSUME NEW p \in Dispatchers, RecordFails(p) PROVE TypeOK'
  BY <1>10, <1>7 DEF RecordFails
<1>11. ASSUME NEW p \in Dispatchers, Crash(p) PROVE TypeOK'
  BY <1>11 DEF Crash
<1>12. CASE UNCHANGED vars
  BY <1>12 DEF vars
<1> HIDE DEF TypeOK
<1> QED
  BY <1>1, <1>2, <1>3, <1>4, <1>5, <1>6, <1>8, <1>9, <1>10, <1>11, <1>12 DEF Next

(* TypeOK: the types, for any audience and number of processes. *)
THEOREM TypeCorrect == Spec => []TypeOK
<1> QED
  BY InitType, TypeStep, PTL DEF Spec

(* The part of the invariant that speaks of rows and of their dispatchers. *)
DispatchInv == RowInv /\ HolderInv /\ OneHolder /\ CountInv

(* The campaign starts without rows. *)
LEMMA InitInv == Init => DispatchInv /\ CreationInv
<1> SUFFICES ASSUME Init PROVE DispatchInv /\ CreationInv
  OBVIOUS
<1>1. \A r \in Rows : status[r] = "none" /\ mailed[r] = 0
  BY DEF Init
<1>2. \A p \in Dispatchers : pc[p] = "idle"
  BY DEF Init
<1>3. RowInv
  BY <1>1 DEF RowInv, Present, Unclaimed
<1>4. HolderInv /\ OneHolder /\ CountInv
  BY <1>2 DEF HolderInv, OneHolder, CountInv, Dispatching
<1>5. CreationInv
  BY <1>1, <1>2, Constants DEF CreationInv, Dispatching
<1> QED
  BY <1>3, <1>4, <1>5 DEF DispatchInv

(* A step that leaves the rows alone and takes no dispatcher further, though it
   may stop one, keeps the invariant. *)
LEMMA QuietStep ==
  ASSUME TypeOK, DispatchInv,
         UNCHANGED <<status, version, tokens, mailed>>,
         \A p \in Dispatchers :
           pc'[p] \in Dispatching =>
             /\ pc'[p] = pc[p] /\ cur'[p] = cur[p]
             /\ outcome'[p] = outcome[p] /\ verdict'[p] = verdict[p]
  PROVE  DispatchInv'
<1> USE DEF DispatchInv
<1>1. RowInv'
  BY DEF RowInv, Present
<1>2. HolderInv'
  BY DEF HolderInv, Present
<1>3. OneHolder'
  BY DEF OneHolder
<1>4. CountInv'
  BY DEF CountInv, Dispatching
<1> QED
  BY <1>1, <1>2, <1>3, <1>4

(* The row an open dispatcher holds is one it is the only one to hold, and a
   step that changes that row only leaves the others' part of the invariant. *)
LEMMA OwnRowStep ==
  ASSUME TypeOK, DispatchInv, NEW p \in Dispatchers, NEW from, NEW to,
         At(p, from, to), from \in Dispatching, NEW c \in Rows, c = cur[p],
         UNCHANGED version,
         \A q \in Dispatchers \ {p} :
           cur'[q] = cur[q] /\ outcome'[q] = outcome[q] /\ verdict'[q] = verdict[q],
         \A r \in Rows \ {c} :
           /\ status'[r] = status[r] /\ mailed'[r] = mailed[r]
           /\ r \in tokens' <=> r \in tokens,
         \* what remains to be shown of the step
         to \in Dispatching => cur'[p] = c,
         /\ mailed'[c] <= 1
         /\ status'[c] \notin Unclaimed
         /\ status'[c] = "sent" => mailed'[c] = 1 /\ to \notin Dispatching
         /\ mailed'[c] = 1 /\ Present(c)' => c \in tokens'
         /\ status'[c] # "none" => c[2] <= version
         /\ status'[c] \in Open => status[c] \in Open,
         /\ to \in {"claimed", "mailing"} => mailed'[c] = 0
         /\ to = "accepted" => mailed'[c] = 1
         /\ to \in Dispatching /\ to # "claimed" /\ Present(c)' => c \in tokens'
         /\ to = "committing" => Present(c)' /\ (outcome'[p] = "sent" => mailed'[c] = 1)
         /\ to = "committing" /\ verdict'[p] # "open" =>
              \A r \in Rows : r # c => status[r] \notin Open
  PROVE  DispatchInv'
<1> USE DEF DispatchInv, At
<1>1. \A q \in Dispatchers \ {p} : pc'[q] = pc[q] /\ (pc[q] \in Dispatching => cur[q] \in Rows \ {c})
  BY DEF OneHolder, TypeOK
<1>2. RowInv'
  <2> SUFFICES ASSUME NEW r \in Rows
               PROVE  /\ mailed'[r] <= 1
                      /\ status'[r] \in Unclaimed => mailed'[r] = 0
                      /\ status'[r] = "sent" => mailed'[r] = 1
                      /\ mailed'[r] = 1 /\ Present(r)' => r \in tokens'
                      /\ status'[r] # "none" => r[2] <= version'
    BY DEF RowInv
  <2>1. CASE r = c
    BY <2>1
  <2>2. CASE r # c
    <3>1. /\ status'[r] = status[r] /\ mailed'[r] = mailed[r]
          /\ r \in tokens' <=> r \in tokens
      BY <2>2
    <3>2. Present(r)' <=> Present(r)
      BY <3>1 DEF Present
    <3> QED
      BY <3>1, <3>2 DEF RowInv
  <2> QED
    BY <2>1, <2>2
<1>3. HolderInv'
  <2> SUFFICES ASSUME NEW q \in Dispatchers, pc'[q] \in Dispatching
               PROVE  /\ status'[cur'[q]] \notin Unclaimed \cup {"sent"}
                      /\ pc'[q] \in {"claimed", "mailing"} => mailed'[cur'[q]] = 0
                      /\ pc'[q] = "accepted" => mailed'[cur'[q]] = 1
                      /\ pc'[q] # "claimed" /\ Present(cur[q])' => cur'[q] \in tokens'
                      /\ pc'[q] = "committing" =>
                           /\ Present(cur[q])'
                           /\ outcome'[q] = "sent" => mailed'[cur'[q]] = 1
    BY DEF HolderInv
  <2>1. CASE q = p
    <3>1. pc'[p] = to /\ cur'[p] = c
      BY <2>1 DEF TypeOK
    <3> QED
      BY <2>1, <3>1 DEF Present
  <2>2. CASE q # p
    <3>1. pc'[q] = pc[q] /\ cur'[q] = cur[q] /\ cur[q] \in Rows \ {c} /\ outcome'[q] = outcome[q]
      BY <2>2, <1>1
    <3>2. /\ status'[cur[q]] = status[cur[q]] /\ mailed'[cur[q]] = mailed[cur[q]]
          /\ cur[q] \in tokens' <=> cur[q] \in tokens
      BY <3>1
    <3>3. Present(cur[q])' <=> Present(cur[q])
      BY <3>1, <3>2 DEF Present
    <3> QED
      BY <3>1, <3>2, <3>3 DEF HolderInv
  <2> QED
    BY <2>1, <2>2
<1>4. OneHolder'
  BY <1>1 DEF OneHolder, TypeOK
<1>5. CountInv'
  <2> SUFFICES ASSUME NEW q \in Dispatchers, pc'[q] = "committing", verdict'[q] # "open",
                      NEW r \in Rows, r # cur'[q]
               PROVE  status'[r] \notin Open
    BY DEF CountInv
  <2>1. CASE q = p
    BY <2>1 DEF TypeOK, Dispatching
  <2>2. CASE q # p
    <3>1. pc[q] = "committing" /\ verdict[q] # "open" /\ cur'[q] = cur[q]
      BY <2>2, <1>1
    <3>2. status[r] \notin Open
      BY <3>1 DEF CountInv
    <3> QED
      BY <3>2
  <2> QED
    BY <2>1, <2>2
<1> QED
  BY <1>2, <1>3, <1>4, <1>5

(* An exception that ends a batch, and a crash, leave the row as it is. *)
LEMMA StopStep ==
  ASSUME TypeOK, DispatchInv, NEW p \in Dispatchers,
         UNCHANGED <<status, version, tokens, mailed>>,
         pc' = [pc EXCEPT ![p] = "idle"], Free(p)
  PROVE  DispatchInv'
<1>1. ASSUME NEW q \in Dispatchers, pc'[q] \in Dispatching
      PROVE  /\ pc'[q] = pc[q] /\ cur'[q] = cur[q]
             /\ outcome'[q] = outcome[q] /\ verdict'[q] = verdict[q]
  BY <1>1 DEF TypeOK, Free, Closed, Dispatching
<1> QED
  BY <1>1, QuietStep

(* The requests: only the creation and the replacement of the list touch rows. *)
LEMMA OperateStep ==
  ASSUME TypeOK, DispatchInv, CreationInv, NEW o \in Operators, Operate(o)
  PROVE  DispatchInv'
<1> USE Constants DEF DispatchInv
<1>1. ASSUME NEW from, NEW to, At(o, from, to), to \notin Dispatching,
             UNCHANGED <<listVars, mailed, cur, outcome, verdict>>
      PROVE  DispatchInv'
  BY <1>1, QuietStep DEF At, TypeOK, listVars
<1>2. CASE CreateWrite(o)
  <2>1. \A p \in Dispatchers : pc[p] \notin Dispatching /\ pc'[p] \notin Dispatching
    BY <1>2 DEF CreateWrite, At, CreationInv, TypeOK, Dispatching
  <2>2. HolderInv' /\ OneHolder' /\ CountInv'
    BY <2>1 DEF HolderInv, OneHolder, CountInv, Dispatching
  <2>3. ASSUME NEW r \in Rows
        PROVE  /\ status'[r] \in Unclaimed /\ mailed'[r] = 0
               /\ status'[r] # "none" => r[2] <= version'
    <3>1. status[r] = "none" /\ mailed[r] = 0
      BY <1>2 DEF CreateWrite, At, CreationInv, RowInv, Unclaimed
    <3>2. version' = version /\ mailed' = mailed /\ version \in Nat
      BY <1>2 DEF CreateWrite, TypeOK, Versions
    <3>3. status'[r] \in Unclaimed /\ (status'[r] # "none" => r[2] = version)
      BY <1>2, <3>1 DEF CreateWrite, Insert, Unclaimed
    <3> QED
      BY <3>1, <3>2, <3>3
  <2>4. RowInv'
    BY <2>3 DEF RowInv, Unclaimed
  <2> QED
    BY <2>2, <2>4
<1>3. CASE EditWrite(o)
  <2>1. \A p \in Dispatchers :
          /\ pc'[p] \in Dispatching => pc'[p] = pc[p]
          /\ pc[p] # "committing" /\ pc'[p] # "committing"
    BY <1>3 DEF EditWrite, At, NoOpenTransaction, TypeOK, Dispatching
  <2>2. cur' = cur /\ mailed' = mailed /\ version' = version + 1 /\ version \in Nat
    BY <1>3 DEF EditWrite, TypeOK, Versions
  <2>3. ASSUME NEW r \in Rows
        PROVE  /\ status[r] # "none" => status'[r] = "gone"
               /\ status[r] = "none" => status'[r] \in Unclaimed /\ mailed[r] = 0
               /\ status'[r] # "none" => r[2] <= version'
               /\ Present(r)' => status[r] = "none"
    <3>1. status[r] # "none" => r[2] <= version
      BY DEF RowInv
    <3>2. r[2] = version + 1 => status[r] = "none"
      BY <3>1, <2>2
    <3>3. /\ r[2] = version + 1 => status'[r] \in {"pending", "skipped"}
          /\ r[2] # version + 1 => status'[r] = IF status[r] = "none" THEN "none" ELSE "gone"
      BY <1>3 DEF EditWrite, Insert
    <3>4. status[r] = "none" => mailed[r] = 0
      BY DEF RowInv, Unclaimed
    <3> QED
      BY <3>1, <3>2, <3>3, <3>4, <2>2 DEF Unclaimed, Present
  <2>4. RowInv'
    <3> SUFFICES ASSUME NEW r \in Rows
                 PROVE  /\ mailed'[r] <= 1
                        /\ status'[r] \in Unclaimed => mailed'[r] = 0
                        /\ status'[r] = "sent" => mailed'[r] = 1
                        /\ mailed'[r] = 1 /\ Present(r)' => r \in tokens'
                        /\ status'[r] # "none" => r[2] <= version'
      BY DEF RowInv
    <3>1. mailed[r] <= 1
      BY DEF RowInv
    <3> QED
      BY <2>2, <2>3, <3>1 DEF Unclaimed
  <2>5. HolderInv'
    <3> SUFFICES ASSUME NEW p \in Dispatchers, pc'[p] \in Dispatching
                 PROVE  /\ status'[cur'[p]] = "gone" /\ ~Present(cur[p])'
                        /\ pc'[p] \in {"claimed", "mailing"} => mailed'[cur'[p]] = 0
                        /\ pc'[p] = "accepted" => mailed'[cur'[p]] = 1
                        /\ pc'[p] # "committing"
      BY DEF HolderInv, Unclaimed
    <3>1. pc'[p] = pc[p] /\ pc[p] \in Dispatching /\ cur'[p] = cur[p] /\ cur[p] \in Rows
      BY <2>1, <2>2 DEF TypeOK
    <3>2. status[cur[p]] # "none"
      BY <3>1 DEF HolderInv, Unclaimed
    <3>3. status'[cur'[p]] = "gone"
      BY <3>1, <3>2, <2>3
    <3> QED
      BY <3>1, <3>3, <2>1, <2>2 DEF HolderInv, Present
  <2>6. OneHolder' /\ CountInv'
    BY <2>1, <2>2 DEF OneHolder, CountInv
  <2> QED
    BY <2>4, <2>5, <2>6
<1>4. CASE CreateCheck(o) \/ EditCheck(o)
  BY <1>4, <1>1 DEF CreateCheck, EditCheck, Dispatching
<1>5. CASE StartCheck(o) \/ StartWrite(o)
  BY <1>5, <1>1 DEF StartCheck, StartWrite, Dispatching
<1>6. CASE PauseCheck(o) \/ PauseWrite(o)
  BY <1>6, <1>1 DEF PauseCheck, PauseWrite, Dispatching
<1>7. CASE CancelCheck(o) \/ CancelWrite(o)
  BY <1>7, <1>1 DEF CancelCheck, CancelWrite, Dispatching
<1> QED
  BY <1>2, <1>3, <1>4, <1>5, <1>6, <1>7 DEF Operate

(* A claimed row was pending, so that nobody has mailed it and nobody holds it. *)
LEMMA ClaimStep ==
  ASSUME TypeOK, DispatchInv, NEW p \in Dispatchers, NEW r \in Rows, Claim(p, r)
  PROVE  DispatchInv'
<1> USE DEF DispatchInv
<1>0. /\ pc[p] \notin Dispatching /\ pc'[p] = "claimed" /\ cur'[p] = r
      /\ status[r] = "pending" /\ status'[r] = "sending"
      /\ \A q \in Dispatchers \ {p} : pc'[q] = pc[q] /\ cur'[q] = cur[q]
      /\ \A x \in Rows \ {r} : status'[x] = status[x]
      /\ UNCHANGED <<version, tokens, mailed, outcome, verdict>>
  BY DEF Claim, At, Home, TypeOK, Dispatching
<1>1. \A q \in Dispatchers : pc[q] \in Dispatching => cur[q] \in Rows \ {r}
  BY <1>0 DEF HolderInv, TypeOK, Unclaimed
<1>2. mailed[r] = 0 /\ r[2] <= version
  BY <1>0 DEF RowInv, Unclaimed
<1>3. RowInv'
  BY <1>0, <1>2 DEF RowInv, Unclaimed, Present
<1>4. HolderInv'
  BY <1>0, <1>1, <1>2 DEF HolderInv, Unclaimed, Present
<1>5. OneHolder'
  BY <1>0, <1>1 DEF OneHolder
<1>6. CountInv'
  <2> SUFFICES ASSUME NEW q \in Dispatchers, pc'[q] = "committing", verdict'[q] # "open",
                      NEW x \in Rows, x # cur'[q]
               PROVE  status'[x] \notin Open
    BY DEF CountInv
  <2>1. q # p /\ pc[q] = "committing" /\ verdict[q] # "open" /\ cur'[q] = cur[q]
    BY <1>0
  <2>2. r # cur[q]
    BY <2>1, <1>1 DEF Dispatching
  <2>3. status[r] \notin Open
    BY <2>1, <2>2 DEF CountInv
  <2> QED
    BY <2>3, <1>0 DEF Open
<1> QED
  BY <1>3, <1>4, <1>5, <1>6

(* A recipient that unsubscribes closes its own row, which nobody is committing. *)
LEMMA UnsubscribeStep ==
  ASSUME TypeOK, DispatchInv, NEW r \in Rows, Unsubscribe(r)
  PROVE  DispatchInv'
<1> USE DEF DispatchInv
<1>0. /\ mailed[r] > 0 /\ r \in tokens /\ status'[r] = "unsubscribed"
      /\ \A x \in Rows \ {r} : status'[x] = status[x]
      /\ \A q \in Dispatchers : ~(pc[q] = "committing" /\ cur[q] = r)
      /\ UNCHANGED <<version, tokens, mailed, pc, cur, outcome, verdict>>
  BY DEF Unsubscribe, TypeOK, procVars
<1>1. mailed[r] = 1 /\ status[r] \notin Unclaimed /\ r[2] <= version
  <2>1. mailed[r] \in Nat /\ mailed[r] <= 1
    BY DEF TypeOK, RowInv
  <2>2. status[r] \notin Unclaimed
    BY <1>0 DEF RowInv
  <2> QED
    BY <1>0, <2>1, <2>2 DEF RowInv, Unclaimed
<1>2. RowInv'
  BY <1>0, <1>1 DEF RowInv, Unclaimed, Present
<1>3. HolderInv'
  <2> SUFFICES ASSUME NEW q \in Dispatchers, pc[q] \in Dispatching
               PROVE  /\ status'[cur[q]] \notin Unclaimed \cup {"sent"}
                      /\ pc[q] # "claimed" /\ status'[cur[q]] \notin {"none", "gone"} => cur[q] \in tokens
                      /\ pc[q] = "committing" => status'[cur[q]] \notin {"none", "gone"}
    BY <1>0 DEF HolderInv, Present
  <2>1. CASE cur[q] = r
    BY <2>1, <1>0 DEF Unclaimed
  <2>2. CASE cur[q] # r
    BY <2>2, <1>0 DEF HolderInv, Present, TypeOK
  <2> QED
    BY <2>1, <2>2
<1>4. OneHolder'
  BY <1>0 DEF OneHolder
<1>5. CountInv'
  BY <1>0 DEF CountInv, Open
<1> QED
  BY <1>2, <1>3, <1>4, <1>5

(* What a dispatcher knows of the row it holds. *)
LEMMA Held ==
  ASSUME TypeOK, DispatchInv, NEW p \in Dispatchers, pc[p] \in Dispatching
  PROVE  /\ cur[p] \in Rows
         /\ status[cur[p]] \notin Unclaimed \cup {"sent"}
         /\ mailed[cur[p]] \in Nat /\ mailed[cur[p]] <= 1
         /\ mailed[cur[p]] = 1 /\ Present(cur[p]) => cur[p] \in tokens
         /\ cur[p][2] <= version
         /\ pc[p] \in {"claimed", "mailing"} => mailed[cur[p]] = 0
         /\ pc[p] = "accepted" => mailed[cur[p]] = 1
         /\ pc[p] # "claimed" /\ Present(cur[p]) => cur[p] \in tokens
         /\ pc[p] = "committing" =>
              Present(cur[p]) /\ (outcome[p] = "sent" => mailed[cur[p]] = 1)
<1>1. cur[p] \in Rows
  BY DEF TypeOK
<1>2. /\ status[cur[p]] \notin Unclaimed \cup {"sent"}
      /\ pc[p] \in {"claimed", "mailing"} => mailed[cur[p]] = 0
      /\ pc[p] = "accepted" => mailed[cur[p]] = 1
      /\ pc[p] # "claimed" /\ Present(cur[p]) => cur[p] \in tokens
      /\ pc[p] = "committing" =>
           Present(cur[p]) /\ (outcome[p] = "sent" => mailed[cur[p]] = 1)
  BY DEF DispatchInv, HolderInv
<1>3. /\ mailed[cur[p]] \in Nat /\ mailed[cur[p]] <= 1
      /\ mailed[cur[p]] = 1 /\ Present(cur[p]) => cur[p] \in tokens
      /\ cur[p][2] <= version
  BY <1>1, <1>2 DEF DispatchInv, RowInv, TypeOK, Unclaimed
<1> QED
  BY <1>1, <1>2, <1>3

(* A step of a dispatcher that changes neither its row nor its transaction. *)
LEMMA AdvanceStep ==
  ASSUME TypeOK, DispatchInv, NEW p \in Dispatchers, NEW from, NEW to,
         At(p, from, to), from \in Dispatching, to \in {"mailing", "accepted", "refused"},
         UNCHANGED <<status, version, cur>>,
         \A q \in Dispatchers \ {p} : outcome'[q] = outcome[q] /\ verdict'[q] = verdict[q],
         \A r \in Rows \ {cur[p]} :
           mailed'[r] = mailed[r] /\ (r \in tokens' <=> r \in tokens),
         Present(cur[p]) => cur[p] \in tokens',
         mailed'[cur[p]] <= 1,
         to = "mailing" => mailed'[cur[p]] = 0,
         to = "accepted" => mailed'[cur[p]] = 1
  PROVE  DispatchInv'
<1>1. PICK c \in Rows : c = cur[p]
  BY DEF TypeOK, At
<1>2. status'[c] = status[c] /\ (Present(c)' <=> Present(c))
  BY DEF Present
<1>3. status[c] \notin Unclaimed \cup {"sent"} /\ c[2] <= version
  BY <1>1, Held DEF At
<1> QED
  BY <1>1, <1>2, <1>3, OwnRowStep DEF Dispatching

(* What a dispatcher does with its row. *)
LEMMA ProcessStep ==
  ASSUME TypeOK, DispatchInv, NEW p \in Dispatchers,
         Process(p) \/ MailAnswerLost(p) \/ RecordFails(p)
  PROVE  DispatchInv'
<1>1. CASE CreateToken(p)
  <2>1. At(p, "claimed", "mailing") /\ "claimed" \in Dispatching
    BY <1>1 DEF CreateToken, Dispatching
  <2>2. cur[p] \in Rows /\ mailed[cur[p]] = 0
    BY <2>1, Held DEF At
  <2>3. /\ UNCHANGED <<status, version, mailed, cur, outcome, verdict>>
        /\ tokens' = tokens \cup {cur[p]}
    BY <1>1 DEF CreateToken
  <2> QED
    BY <2>1, <2>2, <2>3, AdvanceStep
<1>2. CASE PreparationFails(p)
  BY <1>2, StopStep DEF PreparationFails, Abandon, listVars
<1>3. CASE SendMail(p) \/ MailAnswerLost(p)
  <2>1. PICK to \in {"accepted", "refused"} : At(p, "mailing", to)
    BY <1>3 DEF SendMail, MailAnswerLost
  <2>2. pc[p] = "mailing" /\ "mailing" \in Dispatching
    BY <2>1 DEF At, Dispatching
  <2>3. /\ cur[p] \in Rows /\ mailed[cur[p]] = 0
        /\ Present(cur[p]) => cur[p] \in tokens
    BY <2>2, Held
  <2>4. /\ mailed' = [mailed EXCEPT ![cur[p]] = @ + 1]
        /\ UNCHANGED <<status, version, tokens, cur, outcome, verdict>>
    BY <1>3 DEF SendMail, MailAnswerLost, listVars
  <2>5. /\ mailed'[cur[p]] = 1
        /\ \A r \in Rows \ {cur[p]} : mailed'[r] = mailed[r]
    BY <2>3, <2>4 DEF TypeOK
  <2> QED
    BY <2>1, <2>2, <2>3, <2>4, <2>5, AdvanceStep
<1>4. CASE MailRefused(p)
  <2>1. At(p, "mailing", "refused") /\ "mailing" \in Dispatching
    BY <1>4 DEF MailRefused, Dispatching
  <2>2. mailed[cur[p]] = 0 /\ (Present(cur[p]) => cur[p] \in tokens)
    BY <2>1, Held DEF At
  <2>3. UNCHANGED <<status, version, tokens, mailed, cur, outcome, verdict>>
    BY <1>4 DEF MailRefused, listVars
  <2> QED
    BY <2>1, <2>2, <2>3, AdvanceStep
<1>5. CASE Record(p)
  <2>1. PICK c \in Rows : c = cur[p]
    BY <1>5 DEF Record, TypeOK, Dispatching
  <2>2. /\ pc[p] \in {"accepted", "refused"} /\ pc[p] \in Dispatching
        /\ Present(c) /\ At(p, pc[p], "committing")
        /\ outcome'[p] = (IF pc[p] = "accepted" THEN "sent" ELSE "failed")
        /\ verdict'[p] = Completion(c, outcome'[p])
        /\ \A q \in Dispatchers \ {p} : outcome'[q] = outcome[q] /\ verdict'[q] = verdict[q]
        /\ UNCHANGED <<status, version, tokens, mailed, cur>>
    BY <1>5, <2>1 DEF Record, TypeOK, Dispatching, listVars, At
  <2>3. /\ status[c] \notin Unclaimed \cup {"sent"} /\ c[2] <= version /\ mailed[c] <= 1
        /\ c \in tokens /\ (outcome'[p] = "sent" => mailed[c] = 1)
    BY <2>1, <2>2, Held
  <2>4. verdict'[p] # "open" => \A r \in Rows : r # c => status[r] \notin Open
    BY <2>2 DEF Completion, TypeOK
  <2>5. Present(c)'
    BY <2>2 DEF Present
  <2> QED
    BY <2>1, <2>2, <2>3, <2>4, <2>5, OwnRowStep DEF Dispatching
<1>6. CASE Commit(p)
  <2>1. PICK c \in Rows : c = cur[p]
    BY <1>6 DEF Commit, At, TypeOK, Dispatching
  <2>2. /\ pc[p] = "committing" /\ "committing" \in Dispatching
        /\ At(p, "committing", Home(p)) /\ Home(p) \notin Dispatching
        /\ outcome[p] \in {"sent", "failed"} /\ status'[c] = outcome[p]
        /\ \A r \in Rows \ {c} : status'[r] = status[r]
        /\ \A q \in Dispatchers \ {p} :
             cur'[q] = cur[q] /\ outcome'[q] = outcome[q] /\ verdict'[q] = verdict[q]
        /\ UNCHANGED <<version, tokens, mailed>>
    BY <1>6, <2>1 DEF Commit, At, Free, Closed, Home, TypeOK, Dispatching
  <2>3. /\ c[2] <= version /\ mailed[c] <= 1
        /\ c \in tokens /\ (outcome[p] = "sent" => mailed[c] = 1)
    BY <2>1, <2>2, Held
  <2>4. /\ status'[c] \notin Unclaimed /\ status'[c] \notin Open
        /\ status'[c] = "sent" => mailed[c] = 1
    BY <2>2, <2>3 DEF Unclaimed, Open
  <2>5. Home(p) \notin {"claimed", "mailing", "accepted", "committing"}
    BY <2>2 DEF Dispatching
  <2> QED
    BY <2>1, <2>2, <2>3, <2>4, <2>5, OwnRowStep
<1>7. CASE RecordRejected(p)
  <2>1. CASE pc[p] = "refused" /\ Abandon(p)
    BY <1>7, <2>1, StopStep DEF Abandon, listVars
  <2>2. CASE /\ At(p, "accepted", "refused")
             /\ UNCHANGED <<campaign, sender, listVars, suppressed, mailed, cur, list, outcome, verdict>>
    <3>1. "accepted" \in Dispatching /\ ~Present(cur[p])
      BY <1>7 DEF RecordRejected, Dispatching
    <3>2. mailed[cur[p]] <= 1
      BY <2>2, <3>1, Held DEF At
    <3>3. UNCHANGED <<status, version, tokens, mailed, cur, outcome, verdict>>
      BY <2>2 DEF listVars
    <3> QED
      BY <2>2, <3>1, <3>2, <3>3, AdvanceStep
  <2> QED
    BY <1>7, <2>1, <2>2 DEF RecordRejected
<1>8. CASE RecordFails(p)
  <2>1. CASE pc[p] = "committing" /\ Abandon(p)
    BY <1>8, <2>1, StopStep DEF Abandon, listVars
  <2>2. CASE /\ pc[p] = "committing"
             /\ pc' = [pc EXCEPT ![p] = "refused"]
             /\ Closed(p)
             /\ UNCHANGED <<campaign, sender, listVars, suppressed, mailed, cur, list>>
    <3>1. "committing" \in Dispatching /\ At(p, "committing", "refused")
      BY <2>2 DEF Dispatching, At
    <3>2. mailed[cur[p]] <= 1 /\ (Present(cur[p]) => cur[p] \in tokens)
      BY <2>2, <3>1, Held
    <3>3. /\ UNCHANGED <<status, version, tokens, mailed, cur>>
          /\ \A q \in Dispatchers \ {p} : outcome'[q] = outcome[q] /\ verdict'[q] = verdict[q]
      BY <2>2 DEF Closed, TypeOK, listVars
    <3> QED
      BY <3>1, <3>2, <3>3, AdvanceStep
  <2> QED
    BY <1>8, <2>1, <2>2 DEF RecordFails
<1> QED
  BY <1>1, <1>2, <1>3, <1>4, <1>5, <1>6, <1>7, <1>8 DEF Process

(* Every step keeps what is known of rows and dispatchers. *)
LEMMA DispatchStep == TypeOK /\ DispatchInv /\ CreationInv /\ [Next]_vars => DispatchInv'
<1> SUFFICES ASSUME TypeOK, DispatchInv, CreationInv, [Next]_vars PROVE DispatchInv'
  OBVIOUS
<1>1. ASSUME UNCHANGED <<listVars, mailed, procVars>> PROVE DispatchInv'
  BY <1>1, QuietStep DEF listVars, procVars
<1>2. ASSUME NEW e \in Emails, AddSuppression(e) \/ RemoveSuppression(e) PROVE DispatchInv'
  BY <1>1, <1>2 DEF AddSuppression, RemoveSuppression
<1>3. ASSUME NEW s \in SenderChanges, SetSender(s) PROVE DispatchInv'
  BY <1>1, <1>3 DEF SetSender
<1>4. ASSUME NEW p \in Operators, EndBatch(p) PROVE DispatchInv'
  BY <1>4, QuietStep DEF EndBatch, At, TypeOK, Dispatching, listVars
<1>5. ASSUME NEW p \in Dispatchers, Crash(p) PROVE DispatchInv'
  BY <1>5, StopStep DEF Crash, listVars
<1>6. CASE UNCHANGED vars
  BY <1>1, <1>6 DEF vars
<1> QED
  BY <1>2, <1>3, <1>4, <1>5, <1>6, OperateStep, ClaimStep, UnsubscribeStep, ProcessStep
     DEF Next

(* There is no row and no dispatch before the creation, which happens once. *)
LEMMA CreationStep ==
  TypeOK /\ DispatchInv /\ CreationInv /\ [Next]_vars => CreationInv'
<1> SUFFICES ASSUME TypeOK, DispatchInv, CreationInv, [Next]_vars PROVE CreationInv'
  OBVIOUS
<1> USE Constants
<1>1. ASSUME campaign' # "none", \A o \in Operators : pc'[o] # "creating"
      PROVE  CreationInv'
  BY <1>1 DEF CreationInv
<1>2. ASSUME campaign # "none", campaign' # "none",
             \A o \in Operators : pc'[o] = "creating" => pc[o] = "creating"
      PROVE  CreationInv'
  BY <1>1, <1>2 DEF CreationInv
<1>3. ASSUME UNCHANGED <<campaign, status, pc>> PROVE CreationInv'
  BY <1>3 DEF CreationInv
<1>4. ASSUME NEW p \in Dispatchers, NEW from, NEW to, At(p, from, to),
             from \notin {"idle", "creating"}, to # "creating", campaign' # "none"
      PROVE  CreationInv'
  BY <1>2, <1>4 DEF At, TypeOK, CreationInv
<1>5. ASSUME NEW o \in Operators, Operate(o) PROVE CreationInv'
  <2>1. CASE CreateCheck(o)
    BY <2>1 DEF CreateCheck, CreationInv, At, TypeOK, listVars
  <2>2. CASE CreateWrite(o)
    <3>1. /\ campaign' = "draft" /\ pc[o] = "creating" /\ pc'[o] = "idle"
          /\ \A q \in Operators \ {o} : pc'[q] = pc[q]
      BY <2>2 DEF CreateWrite, At, TypeOK
    <3>2. \A q \in Operators : pc'[q] # "creating"
      BY <3>1 DEF CreationInv
    <3> QED
      BY <3>1, <3>2, <1>1
  <2>3. CASE EditCheck(o) \/ StartCheck(o) \/ PauseCheck(o) \/ CancelCheck(o)
    BY <2>3, <1>2 DEF EditCheck, StartCheck, PauseCheck, CancelCheck, At, TypeOK
  <2>4. CASE EditWrite(o)
    <3>1. At(o, "editing", "idle") /\ campaign' = campaign
      BY <2>4 DEF EditWrite
    <3>2. campaign # "none"
      BY <3>1 DEF CreationInv, At
    <3> QED
      BY <3>1, <3>2, <1>4
  <2>5. CASE StartWrite(o)
    BY <2>5, <1>4 DEF StartWrite
  <2>6. CASE PauseWrite(o)
    BY <2>6, <1>4 DEF PauseWrite
  <2>7. CASE CancelWrite(o)
    BY <2>7, <1>4 DEF CancelWrite
  <2> QED
    BY <1>5, <2>1, <2>2, <2>3, <2>4, <2>5, <2>6, <2>7 DEF Operate
<1>6. ASSUME NEW e \in Emails, AddSuppression(e) \/ RemoveSuppression(e) PROVE CreationInv'
  BY <1>3, <1>6 DEF AddSuppression, RemoveSuppression, listVars, procVars
<1>7. ASSUME NEW s \in SenderChanges, SetSender(s) PROVE CreationInv'
  BY <1>3, <1>7 DEF SetSender, listVars, procVars
<1>8. ASSUME NEW r \in Rows, Unsubscribe(r) PROVE CreationInv'
  <2>1. status[r] # "none" /\ UNCHANGED <<campaign, pc>>
    BY <1>8 DEF Unsubscribe, DispatchInv, RowInv, Unclaimed, procVars
  <2> QED
    BY <2>1, <1>2 DEF CreationInv
<1>9. ASSUME NEW p \in Dispatchers, NEW r \in Rows, Claim(p, r) PROVE CreationInv'
  BY <1>9, <1>2 DEF Claim, At, TypeOK
<1>10. ASSUME NEW p \in Operators, EndBatch(p) PROVE CreationInv'
  <2>1. At(p, "batch", "idle") /\ UNCHANGED campaign
    BY <1>10 DEF EndBatch
  <2>2. p \in Dispatchers /\ campaign # "none"
    BY <2>1 DEF At, CreationInv, Dispatchers
  <2> QED
    BY <2>1, <2>2, <1>4
<1>11. ASSUME NEW p \in Dispatchers, pc[p] # "idle", pc' = [pc EXCEPT ![p] = "idle"],
              UNCHANGED <<campaign, status>>
       PROVE  CreationInv'
  BY <1>11 DEF CreationInv, TypeOK
<1>12. ASSUME NEW p \in Dispatchers, Process(p) \/ MailAnswerLost(p) \/ RecordFails(p)
       PROVE  CreationInv'
  <2>1. pc[p] \notin {"idle", "creating"} /\ campaign # "none"
    BY <1>12 DEF Process, CreateToken, PreparationFails, SendMail, MailRefused, MailAnswerLost,
                 Record, Commit, RecordRejected, RecordFails, At, CreationInv
  <2>2. campaign' # "none"
    BY <1>12, <2>1 DEF Process, CreateToken, PreparationFails, SendMail, MailRefused,
         MailAnswerLost, Record, Commit, RecordRejected, RecordFails, Abandon, TypeOK
  <2>3. \A q \in Dispatchers : pc'[q] = "creating" => pc[q] = "creating"
    BY <1>12 DEF Process, CreateToken, PreparationFails, SendMail, MailRefused,
         MailAnswerLost, Record, Commit, RecordRejected, RecordFails, Abandon, At, Home, TypeOK
  <2> QED
    BY <2>1, <2>2, <2>3, <1>2
<1>13. ASSUME NEW p \in Dispatchers, Crash(p) PROVE CreationInv'
  BY <1>11, <1>13 DEF Crash, listVars
<1>14. CASE UNCHANGED vars
  BY <1>3, <1>14 DEF vars, listVars, procVars
<1> QED
  BY <1>5, <1>6, <1>7, <1>8, <1>9, <1>10, <1>12, <1>13, <1>14 DEF Next

(* IInv: rows, their dispatchers, the counts of open transactions and the
   creation fit together at every moment. *)
THEOREM InductiveInvariant == Spec => []IInv
<1>1. Init => IInv
  BY InitType, InitInv DEF IInv, DispatchInv
<1>2. IInv /\ [Next]_vars => IInv'
  BY TypeStep, DispatchStep, CreationStep DEF IInv, DispatchInv
<1> QED
  BY <1>1, <1>2, PTL DEF Spec

(* MailedOnce: whatever fails, however often the campaign is started and its
   list replaced, a row is mailed once at most. *)
THEOREM AtMostOneMail == Spec => []MailedOnce
<1>1. IInv => MailedOnce
  BY DEF IInv, RowInv, MailedOnce
<1> QED
  BY <1>1, InductiveInvariant, PTL

(* SentMeansMailed: a row recorded as sent was accepted by the provider. *)
THEOREM SentIsMailed == Spec => []SentMeansMailed
<1>1. IInv => SentMeansMailed
  BY DEF IInv, RowInv, SentMeansMailed
<1> QED
  BY <1>1, InductiveInvariant, PTL

(* LinksWork: the token behind the unsubscribe link of a mail exists for as long
   as the row does. *)
THEOREM UnsubscribeLinksWork == Spec => []LinksWork
<1>1. IInv => LinksWork
  BY DEF IInv, TypeOK, RowInv, LinksWork
<1> QED
  BY <1>1, InductiveInvariant, PTL

(* CompletesWhenSettled: a dispatcher's stale count never completes a campaign
   that has a row left to mail. *)
THEOREM CompletionIsSettled == Spec => CompletesWhenSettled
<1>1. ASSUME IInv, [Next]_vars, campaign = "sending", campaign' \in {"sent", "failed"}
      PROVE  \A r \in Rows : status'[r] \notin Open
  <2>1. PICK p \in Dispatchers : Commit(p)
    <3>1. /\ \A o \in Operators : ~Operate(o)
          /\ ~\E e \in Emails : AddSuppression(e) \/ RemoveSuppression(e)
          /\ ~\E s \in SenderChanges : SetSender(s)
          /\ ~\E r \in Rows : Unsubscribe(r)
          /\ ~\E p \in Dispatchers, r \in Rows : Claim(p, r)
          /\ ~\E p \in Operators : EndBatch(p)
      BY <1>1 DEF Operate, CreateCheck, CreateWrite, EditCheck, EditWrite, StartCheck, StartWrite,
           PauseCheck, PauseWrite, CancelCheck, CancelWrite, AddSuppression, RemoveSuppression,
           SetSender, Unsubscribe, Claim, EndBatch
    <3>2. ASSUME NEW p \in Dispatchers, Process(p) \/ MailAnswerLost(p) \/ RecordFails(p) \/ Crash(p)
          PROVE  Commit(p)
      BY <1>1, <3>2 DEF Process, CreateToken, PreparationFails, SendMail, MailRefused,
           MailAnswerLost, Record, RecordRejected, RecordFails, Abandon, Crash
    <3>3. ~UNCHANGED vars
      BY <1>1 DEF vars
    <3> QED
      BY <1>1, <3>1, <3>2, <3>3 DEF Next
  <2>2. pc[p] = "committing" /\ verdict[p] # "open"
    BY <1>1, <2>1 DEF Commit, At
  <2>3. \A r \in Rows : r # cur[p] => status[r] \notin Open
    BY <1>1, <2>2 DEF IInv, CountInv
  <2>4. outcome[p] \notin Open /\ status' = [status EXCEPT ![cur[p]] = outcome[p]]
    BY <1>1, <2>1 DEF Commit, IInv, TypeOK, Open
  <2> QED
    BY <1>1, <2>3, <2>4 DEF IInv, TypeOK
<1>2. IInv /\ [Next]_vars =>
        [campaign = "sending" /\ campaign' \in {"sent", "failed"} =>
           \A r \in Rows : status'[r] \notin Open]_vars
  BY <1>1
<1> QED
  BY <1>2, InductiveInvariant, PTL DEF Spec, CompletesWhenSettled

--------------------------------------------------------------------------------
(* The refinement of Mailing, action by action. *)

(* A list that is written enlists: its rows are new, and those of the lists before
   are gone. *)
LEMMA InsertEnlists ==
  ASSUME TypeOK, NEW v \in Versions, NEW pending, Insert(v, pending),
         \A r \in Rows : r[2] = v => status[r] = "none"
  PROVE  \A r \in Rows : IF status[r] = "none" THEN status'[r] \in {"none", "pending", "skipped"}
                         ELSE status'[r] = "gone"
BY DEF Insert, TypeOK

(* What operators' requests write is a new list, or the stage of the campaign. *)
LEMMA OperateRefines ==
  ASSUME IInv, NEW o \in Operators, Operate(o)
  PROVE  List!Next \/ UNCHANGED List!vars
<1> USE Constants
<1>1. CASE CreateWrite(o)
  <2>1. \A r \in Rows : status[r] = "none"
    BY <1>1 DEF CreateWrite, At, IInv, CreationInv
  <2>2. /\ Insert(version, list[o]) /\ version \in Versions
        /\ campaign' = "draft" /\ UNCHANGED <<tokens, mailed>>
    BY <1>1 DEF CreateWrite, IInv, TypeOK
  <2>3. List!Enlist
    BY <2>1, <2>2, InsertEnlists DEF List!Enlist, IInv
  <2> QED
    BY <2>3 DEF List!Next
<1>2. CASE EditWrite(o)
  <2>1. version + 1 \in Versions /\ \A r \in Rows : r[2] = version + 1 => status[r] = "none"
    BY <1>2 DEF EditWrite, IInv, TypeOK, RowInv, Versions
  <2>2. Insert(version + 1, list[o]) /\ tokens' = {} /\ UNCHANGED <<campaign, mailed>>
    BY <1>2 DEF EditWrite
  <2>3. List!Enlist
    BY <2>1, <2>2, InsertEnlists DEF List!Enlist, IInv
  <2> QED
    BY <2>3 DEF List!Next
<1>3. CASE StartWrite(o) \/ PauseWrite(o) \/ CancelWrite(o)
  BY <1>3 DEF StartWrite, PauseWrite, CancelWrite, listVars, List!Operate, List!Next
<1>4. CASE CreateCheck(o) \/ EditCheck(o) \/ StartCheck(o) \/ PauseCheck(o) \/ CancelCheck(o)
  BY <1>4 DEF CreateCheck, EditCheck, StartCheck, PauseCheck, CancelCheck, listVars, List!vars
<1> QED
  BY <1>1, <1>2, <1>3, <1>4 DEF Operate

(* The mail goes out, whether its dispatcher hears of it or not: its row was taken
   up, has its link, and was not mailed before. *)
LEMMA MailRefines ==
  ASSUME IInv, NEW p \in Dispatchers, SendMail(p) \/ MailAnswerLost(p)
  PROVE  List!Next
<1>1. PICK r \in Rows : r = cur[p]
  BY DEF SendMail, MailAnswerLost, At, IInv, TypeOK, Dispatching
<1>2. /\ status[r] \notin {"none", "pending", "skipped", "sent"}
      /\ mailed[r] = 0
      /\ Present(r) => r \in tokens
  BY <1>1 DEF SendMail, MailAnswerLost, At, IInv, HolderInv, Dispatching, Unclaimed
<1>3. mailed' = [mailed EXCEPT ![r] = 1] /\ UNCHANGED <<status, tokens, campaign>>
  BY <1>1, <1>2 DEF SendMail, MailAnswerLost, listVars
<1>4. List!Mail(r)
  BY <1>2, <1>3 DEF List!Mail, List!Present, Present
<1> QED
  BY <1>4 DEF List!Next

(* A transaction that is committed records the outcome of a row that was taken up,
   and ends the campaign only where its count still holds. *)
LEMMA CommitRefines ==
  ASSUME IInv, NEW p \in Dispatchers, Commit(p)
  PROVE  List!Next
<1>1. PICK r \in Rows : r = cur[p]
  BY DEF Commit, At, IInv, TypeOK, Dispatching
<1>2. PICK s \in {"sent", "failed"} : s = outcome[p]
  BY DEF IInv, TypeOK
<1>3. /\ status[r] \notin {"none", "pending", "skipped", "sent", "gone"}
      /\ s = "sent" => mailed[r] = 1
  BY <1>1, <1>2 DEF Commit, At, IInv, HolderInv, Dispatching, Unclaimed, Present
<1>4. status' = [status EXCEPT ![r] = s] /\ UNCHANGED <<tokens, mailed>>
  BY <1>1, <1>2 DEF Commit
<1>5. \/ campaign' = campaign
      \/ /\ campaign = "sending" /\ campaign' \in {"sent", "failed"}
         /\ \A x \in Rows : status'[x] \notin {"pending", "sending"}
  <2>1. CASE campaign = "sending" /\ verdict[p] # "open"
    <3>1. campaign' \in {"sent", "failed"}
      BY <2>1 DEF Commit, IInv, TypeOK
    <3>2. \A x \in Rows \ {r} : status[x] \notin Open
      BY <1>1, <2>1 DEF Commit, At, IInv, CountInv
    <3>3. \A x \in Rows : status'[x] \notin {"pending", "sending"}
      BY <1>4, <3>2 DEF Open, IInv, TypeOK
    <3> QED
      BY <2>1, <3>1, <3>3
  <2>2. CASE ~(campaign = "sending" /\ verdict[p] # "open")
    BY <2>2 DEF Commit
  <2> QED
    BY <2>1, <2>2
<1>6. List!Record(r, s)
  BY <1>3, <1>4, <1>5 DEF List!Record
<1> QED
  BY <1>6 DEF List!Next

(* The rest of a dispatch takes a row up and makes its link, or shows nothing. *)
LEMMA DispatchRefines ==
  ASSUME IInv, NEW p \in Dispatchers,
         \/ \E r \in Rows : Claim(p, r)
         \/ Process(p) \/ MailAnswerLost(p) \/ RecordFails(p) \/ Crash(p) \/ EndBatch(p)
  PROVE  List!Next \/ UNCHANGED List!vars
<1>1. ASSUME NEW r \in Rows, Claim(p, r) PROVE List!Next
  BY <1>1 DEF Claim, List!TakeUp, List!Next
<1>2. CASE CreateToken(p)
  <2>1. PICK r \in Rows : r = cur[p]
    BY <1>2 DEF CreateToken, At, IInv, TypeOK, Dispatching
  <2>2. List!Link(r)
    BY <1>2, <2>1 DEF CreateToken, List!Link
  <2> QED
    BY <2>2 DEF List!Next
<1>3. CASE \/ PreparationFails(p) \/ MailRefused(p) \/ Record(p) \/ RecordRejected(p)
           \/ RecordFails(p) \/ Crash(p) \/ EndBatch(p)
  BY <1>3 DEF PreparationFails, MailRefused, Record, RecordRejected, RecordFails, Crash, EndBatch,
     Abandon, listVars, List!vars
<1> QED
  BY <1>1, <1>2, <1>3, MailRefines, CommitRefines DEF Process

(* An e-mail campaign implements Mailing: whoever dispatches it, and whatever is
   started, edited, stopped or lost meanwhile, nobody is mailed twice, recorded as
   sent without a mail or mailed without a link, and it ends with nobody waiting. *)
THEOREM CampaignImplementsMailing == Spec => ImplementsMailing
<1>1. Init => List!Init
  BY DEF Init, List!Init
<1>2. IInv /\ [Next]_vars => [List!Next]_(List!vars)
  <2> SUFFICES ASSUME IInv, [Next]_vars PROVE List!Next \/ UNCHANGED List!vars
    OBVIOUS
  <2>1. CASE UNCHANGED vars
    BY <2>1 DEF vars, listVars, List!vars
  <2>2. ASSUME NEW e \in Emails, AddSuppression(e) \/ RemoveSuppression(e)
        PROVE  UNCHANGED List!vars
    BY <2>2 DEF AddSuppression, RemoveSuppression, listVars, List!vars
  <2>3. ASSUME NEW s \in SenderChanges, SetSender(s) PROVE UNCHANGED List!vars
    BY <2>3 DEF SetSender, listVars, List!vars
  <2>4. ASSUME NEW r \in Rows, Unsubscribe(r) PROVE List!Next
    <3>1. mailed[r] = 1
      BY <2>4 DEF Unsubscribe, IInv, TypeOK, RowInv
    <3>2. List!Unsubscribe(r)
      BY <2>4, <3>1 DEF Unsubscribe, List!Unsubscribe
    <3> QED
      BY <3>2 DEF List!Next
  <2> QED
    BY <2>1, <2>2, <2>3, <2>4, OperateRefines, DispatchRefines, Constants DEF Next
<1> QED
  BY <1>1, <1>2, InductiveInvariant, PTL DEF Spec, ImplementsMailing, List!Spec
================================================================================
