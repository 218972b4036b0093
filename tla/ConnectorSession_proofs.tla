----------------------- MODULE ConnectorSession_proofs -----------------------
(***************************************************************************)
(* What holds of the sockets of one account for any number of connectors,   *)
(* faults, events and requests.                                            *)
(***************************************************************************)
EXTENDS ConnectorSession, TLAPS

(* The bounds on faults, events and requests are natural numbers. *)
LEMMA Bounds == MaxFaults \in Nat /\ MaxEvents \in Nat /\ MaxRequests \in Nat
BY ConnectorAssumption DEF ConnectorAssumption

(* The connectors start well typed. *)
LEMMA InitType == Init => TypeOK
<1> SUFFICES ASSUME Init PROVE TypeOK
  OBVIOUS
<1>1. ASSUME NEW S, NEW value \in S PROVE Everywhere(value) \in [Connectors -> S]
  BY DEF Everywhere
<1>2. /\ owner \in Connectors \cup {NoOwner} /\ expired \in BOOLEAN /\ status \in Statuses
      /\ faults \in 0..MaxFaults /\ events \in 0..MaxEvents /\ requests \in 0..MaxRequests
  <2>1. /\ owner = NoOwner /\ expired = FALSE /\ status = "new"
        /\ faults = 0 /\ events = 0 /\ requests = 0
    BY DEF Init
  <2>2. /\ owner \in Connectors \cup {NoOwner} /\ status \in Statuses
        /\ faults \in 0..MaxFaults /\ events \in 0..MaxEvents /\ requests \in 0..MaxRequests
    <3>1. 0 \in 0..MaxFaults /\ 0 \in 0..MaxEvents /\ 0 \in 0..MaxRequests
      BY Bounds
    <3> QED BY <2>1, <3>1, Zenon DEF Statuses
  <2>3. expired \in BOOLEAN
    BY <2>1, Zenon
  <2> QED
    BY <2>2, <2>3
<1>3. /\ Everywhere(TRUE) \in [Connectors -> BOOLEAN]
      /\ Everywhere(FALSE) \in [Connectors -> BOOLEAN]
  BY DEF Everywhere
<1>4. /\ Everywhere({}) \in [Connectors -> SUBSET {"connected", "qr_required"}]
      /\ Everywhere(0) \in [Connectors -> Nat]
  BY <1>1
<1>5. /\ Everywhere("lease") \in [Connectors -> {"none", "lease", "auth", "session"}]
      /\ Everywhere("none") \in [Connectors -> {"none", "disconnected", "qr_required", "blocked"}]
      /\ Everywhere("none") \in [Connectors -> RequestPhases]
      /\ Everywhere("none") \in [Connectors -> RequestKinds]
  BY <1>1 DEF RequestPhases, RequestKinds
<1> QED
  BY <1>2, <1>3, <1>4, <1>5 DEF Init, TypeOK

(* Every step of a connector, of a request, of WhatsApp and of the clock keeps
   the types. *)
LEMMA TypeStep == TypeOK /\ [Next]_vars => TypeOK'
<1> SUFFICES ASSUME TypeOK, [Next]_vars PROVE TypeOK'
  OBVIOUS
<1> USE Bounds DEF TypeOK, Statuses, RequestKinds, RequestPhases, dbVars, socketVars,
            taskVars, requestVars, counters, Fault, Event, Request
<1>1. ASSUME NEW c \in Connectors, TimerFires(c) PROVE TypeOK'
  BY <1>1 DEF TimerFires, StartInit
<1>2. ASSUME NEW c \in Connectors, TryAcquireLease(c) PROVE TypeOK'
  BY <1>2 DEF TryAcquireLease
<1>3. ASSUME NEW c \in Connectors, CreateSocket(c) PROVE TypeOK'
  BY <1>3 DEF CreateSocket
<1>4. ASSUME NEW c \in Connectors, FinishInit(c) PROVE TypeOK'
  BY <1>4 DEF FinishInit
<1>5. ASSUME NEW c \in Connectors, CommitRelease(c) PROVE TypeOK'
  BY <1>5 DEF CommitRelease, ReleaseLease
<1>6. ASSUME NEW c \in Connectors, LeaseLost(c) PROVE TypeOK'
  BY <1>6 DEF LeaseLost, DropSocket
<1>7. ASSUME NEW c \in Connectors, NEW s \in Statuses, CommitEvent(c, s) PROVE TypeOK'
  BY <1>7 DEF CommitEvent
<1>8. ASSUME NEW c \in Connectors, CommitClose(c) PROVE TypeOK'
  BY <1>8 DEF CommitClose, ReleaseLease
<1>9. ASSUME NEW c \in Connectors, CommitPoll(c) PROVE TypeOK'
  BY <1>9 DEF CommitPoll
<1>10. ASSUME NEW c \in Connectors, MarkReconnecting(c) PROVE TypeOK'
  BY <1>10 DEF MarkReconnecting, Advance
<1>11. ASSUME NEW c \in Connectors, ReconnectSession(c) PROVE TypeOK'
  BY <1>11 DEF ReconnectSession, DropSocket, Advance
<1>12. ASSUME NEW c \in Connectors, CommitCleanup(c) PROVE TypeOK'
  BY <1>12 DEF CommitCleanup, ReleaseLease, Advance
<1>13. ASSUME NEW c \in Connectors, CommitReconnecting(c) PROVE TypeOK'
  BY <1>13 DEF CommitReconnecting, StartInit, AfterInit, Advance
<1>14. ASSUME NEW c \in Connectors, InitReturns(c) PROVE TypeOK'
  BY <1>14 DEF InitReturns, AfterInit, Advance
<1>15. ASSUME NEW c \in Connectors, WaitEnds(c) PROVE TypeOK'
  BY <1>15 DEF WaitEnds, Advance
<1>16. ASSUME NEW c \in Connectors, Heartbeat(c) PROVE TypeOK'
  BY <1>16 DEF Heartbeat
<1>17. ASSUME NEW c \in Connectors, RequestStep(c) PROVE TypeOK'
  <2>1. ASSUME NEW confirmed \in BOOLEAN, ReconnectAccount(c, confirmed) PROVE TypeOK'
    BY <2>1 DEF ReconnectAccount, Advance
  <2>2. CASE EnsureConnectedForSend(c)
    BY <2>2 DEF EnsureConnectedForSend, Advance
  <2>3. CASE TerminateSession(c)
    BY <2>3 DEF TerminateSession, DropSocket
  <2>4. CASE PollStatus(c)
    BY <2>4 DEF PollStatus
  <2> QED
    BY <1>17, <2>1, <2>2, <2>3, <2>4 DEF RequestStep
<1>18. ASSUME NEW c \in Connectors, SocketOpens(c) PROVE TypeOK'
  BY <1>18 DEF SocketOpens
<1>19. ASSUME NEW c \in Connectors, QrRequired(c) PROVE TypeOK'
  BY <1>19 DEF QrRequired
<1>20. ASSUME NEW c \in Connectors, NEW class \in {"disconnected", "qr_required", "blocked"},
              SocketCloses(c, class)
       PROVE  TypeOK'
  BY <1>20 DEF SocketCloses, DropSocket
<1>21. ASSUME NEW c \in Connectors, SocketDies(c) PROVE TypeOK'
  BY <1>21 DEF SocketDies
<1>22. ASSUME NEW c \in Connectors, FaultStep(c) PROVE TypeOK'
  <2>1. CASE InitFails(c)
    BY <2>1 DEF InitFails
  <2>2. CASE CloseNotPersisted(c)
    BY <2>2 DEF CloseNotPersisted
  <2>3. CASE Crash(c)
    BY <2>3 DEF Crash, Forget
  <2> QED
    BY <1>22, <2>1, <2>2, <2>3 DEF FaultStep
<1>23. ASSUME NEW c \in Connectors, Restart(c) PROVE TypeOK'
  BY <1>23 DEF Restart
<1>24. CASE LeaseExpires
  BY <1>24 DEF LeaseExpires
<1>25. CASE UNCHANGED vars
  BY <1>25 DEF vars
<1> QED
  BY <1>1, <1>2, <1>3, <1>4, <1>5, <1>6, <1>7, <1>8, <1>9, <1>10, <1>11, <1>12, <1>13,
     <1>14, <1>15, <1>16, <1>17, <1>18, <1>19, <1>20, <1>21, <1>22, <1>23, <1>24, <1>25
  DEF Next, SystemStep, WhatsAppStep

(* No connector has a socket before the first initialization. *)
LEMMA InitSockets == Init => SocketInv
BY DEF Init, SocketInv, OneSocketPerConnector, ConsumersAreWatched, Everywhere

(* Only a restart gives a process that is down something to do. *)
LEMMA RestStep ==
  ASSUME TypeOK, [Next]_vars, NEW d \in Connectors, ~up[d] => AtRest(d)
  PROVE  ~up'[d] => AtRest(d)'
<1> USE DEF AtRest, TypeOK, dbVars, socketVars, taskVars, requestVars, counters
<1>1. ASSUME NEW c \in Connectors, SystemStep(c) PROVE ~up'[d] => AtRest(d)'
  <2>1. CASE TimerFires(c) \/ TryAcquireLease(c) \/ CreateSocket(c) \/ FinishInit(c)
    BY <2>1 DEF TimerFires, StartInit, TryAcquireLease, CreateSocket, FinishInit
  <2>2. CASE CommitRelease(c) \/ LeaseLost(c) \/ (\E s \in Statuses : CommitEvent(c, s))
    BY <2>2 DEF CommitRelease, LeaseLost, DropSocket, CommitEvent
  <2>3. CASE CommitClose(c) \/ CommitPoll(c) \/ MarkReconnecting(c) \/ ReconnectSession(c)
    BY <2>3 DEF CommitClose, CommitPoll, MarkReconnecting, ReconnectSession, DropSocket,
                Advance
  <2>4. CASE CommitCleanup(c) \/ CommitReconnecting(c) \/ InitReturns(c) \/ WaitEnds(c)
    BY <2>4 DEF CommitCleanup, CommitReconnecting, StartInit, InitReturns, WaitEnds,
                AfterInit, Advance
  <2> QED
    BY <1>1, <2>1, <2>2, <2>3, <2>4 DEF SystemStep
<1>2. ASSUME NEW c \in Connectors, RequestStep(c) PROVE ~up'[d] => AtRest(d)'
  <2>1. CASE (\E confirmed \in BOOLEAN : ReconnectAccount(c, confirmed))
               \/ EnsureConnectedForSend(c)
    BY <2>1 DEF ReconnectAccount, EnsureConnectedForSend, Advance
  <2>2. CASE TerminateSession(c) \/ PollStatus(c)
    BY <2>2 DEF TerminateSession, DropSocket, PollStatus
  <2> QED
    BY <1>2, <2>1, <2>2 DEF RequestStep
<1>3. ASSUME NEW c \in Connectors, WhatsAppStep(c) PROVE ~up'[d] => AtRest(d)'
  BY <1>3 DEF WhatsAppStep, SocketOpens, QrRequired, SocketCloses, DropSocket, SocketDies
<1>4. ASSUME NEW c \in Connectors, FaultStep(c) PROVE ~up'[d] => AtRest(d)'
  BY <1>4 DEF FaultStep, InitFails, CloseNotPersisted, Crash, Forget
<1>5. ASSUME NEW c \in Connectors, Heartbeat(c) \/ Restart(c) PROVE ~up'[d] => AtRest(d)'
  BY <1>5 DEF Heartbeat, Restart
<1>6. CASE LeaseExpires \/ UNCHANGED vars
  BY <1>6 DEF LeaseExpires, vars
<1> QED
  BY <1>1, <1>2, <1>3, <1>4, <1>5, <1>6 DEF Next

(* The steps that touch a connector's sockets or its initialization keep the
   invariant; the others leave what it is about alone. *)
LEMMA SocketStep == TypeOK /\ SocketInv /\ [Next]_vars => SocketInv'
<1> SUFFICES ASSUME TypeOK, SocketInv, [Next]_vars PROVE SocketInv'
  OBVIOUS
<1> DEFINE Sound(c) ==
      /\ live[c] <= 1 /\ (live[c] = 1 => registered[c])
      /\ attached[c] => runtime[c] /\ registered[c]
      /\ init[c] \in {"lease", "auth"} => ~registered[c]
      /\ init[c] # "none" => ~runtime[c]
<1>0. /\ \A d \in Connectors : Sound(d) /\ (~up[d] => AtRest(d))
      /\ (\A d \in Connectors : Sound(d)') => SocketInv'
  BY RestStep DEF SocketInv, OneSocketPerConnector, ConsumersAreWatched
<1> USE DEF socketVars
<1>1. ASSUME UNCHANGED <<init, socketVars>> PROVE SocketInv'
  BY <1>1, <1>0
<1>2. ASSUME NEW c \in Connectors, NEW d \in Connectors, TimerFires(c) PROVE Sound(d)'
  BY <1>2, <1>0 DEF TimerFires, StartInit, MayInitialize, TypeOK
<1>3. ASSUME NEW c \in Connectors, NEW d \in Connectors, TryAcquireLease(c) PROVE Sound(d)'
  BY <1>3, <1>0 DEF TryAcquireLease, TypeOK
<1>4. ASSUME NEW c \in Connectors, NEW d \in Connectors, CreateSocket(c) PROVE Sound(d)'
  BY <1>4, <1>0 DEF CreateSocket, TypeOK
<1>5. ASSUME NEW c \in Connectors, NEW d \in Connectors, FinishInit(c) PROVE Sound(d)'
  BY <1>5, <1>0 DEF FinishInit, TypeOK
<1>6. ASSUME NEW c \in Connectors, NEW d \in Connectors, DropSocket(c), UNCHANGED init
      PROVE  Sound(d)'
  BY <1>6, <1>0 DEF DropSocket, TypeOK
<1>7. ASSUME NEW c \in Connectors, NEW d \in Connectors, SocketOpens(c) PROVE Sound(d)'
  BY <1>7, <1>0 DEF SocketOpens, TypeOK
<1>8. ASSUME NEW c \in Connectors, NEW d \in Connectors, CommitReconnecting(c)
      PROVE  Sound(d)'
  BY <1>8, <1>0 DEF CommitReconnecting, StartInit, MayInitialize, TypeOK
<1>9. ASSUME NEW c \in Connectors, NEW d \in Connectors, SocketDies(c) PROVE Sound(d)'
  BY <1>9, <1>0 DEF SocketDies, TypeOK
<1>10. ASSUME NEW c \in Connectors, NEW d \in Connectors, InitFails(c) PROVE Sound(d)'
  BY <1>10, <1>0 DEF InitFails, TypeOK
<1>11. ASSUME NEW c \in Connectors, NEW d \in Connectors, Crash(c) PROVE Sound(d)'
  BY <1>11, <1>0 DEF Crash, Forget, TypeOK
<1>12. ASSUME NEW c \in Connectors, NEW d \in Connectors, Restart(c) PROVE Sound(d)'
  BY <1>12, <1>0 DEF Restart, AtRest, TypeOK
<1>13. ASSUME NEW c \in Connectors, SystemStep(c) PROVE SocketInv'
  <2>1. CASE CommitRelease(c) \/ (\E s \in Statuses : CommitEvent(c, s)) \/ CommitClose(c)
    BY <2>1, <1>1 DEF CommitRelease, CommitEvent, CommitClose
  <2>2. CASE CommitPoll(c) \/ MarkReconnecting(c) \/ CommitCleanup(c) \/ InitReturns(c)
               \/ WaitEnds(c)
    BY <2>2, <1>1 DEF CommitPoll, MarkReconnecting, CommitCleanup, InitReturns, WaitEnds
  <2>3. CASE LeaseLost(c) \/ ReconnectSession(c)
    BY <2>3, <1>0, <1>6 DEF LeaseLost, ReconnectSession
  <2>4. CASE TimerFires(c) \/ TryAcquireLease(c) \/ CreateSocket(c) \/ FinishInit(c)
               \/ CommitReconnecting(c)
    BY <2>4, <1>0, <1>2, <1>3, <1>4, <1>5, <1>8
  <2> QED
    BY <1>13, <2>1, <2>2, <2>3, <2>4 DEF SystemStep
<1>14. ASSUME NEW c \in Connectors, RequestStep(c) PROVE SocketInv'
  <2>1. CASE (\E confirmed \in BOOLEAN : ReconnectAccount(c, confirmed))
               \/ EnsureConnectedForSend(c) \/ PollStatus(c)
    BY <2>1, <1>1 DEF ReconnectAccount, EnsureConnectedForSend, PollStatus
  <2>2. CASE TerminateSession(c)
    BY <2>2, <1>0, <1>6 DEF TerminateSession
  <2> QED
    BY <1>14, <2>1, <2>2 DEF RequestStep
<1>15. ASSUME NEW c \in Connectors, WhatsAppStep(c) PROVE SocketInv'
  <2>1. CASE QrRequired(c)
    BY <2>1, <1>1 DEF QrRequired
  <2>2. ASSUME NEW class \in {"disconnected", "qr_required", "blocked"},
               SocketCloses(c, class)
        PROVE  SocketInv'
    BY <2>2, <1>0, <1>6 DEF SocketCloses
  <2> QED
    BY <1>15, <2>1, <2>2, <1>0, <1>7, <1>9 DEF WhatsAppStep
<1>16. ASSUME NEW c \in Connectors, FaultStep(c) PROVE SocketInv'
  <2>1. CASE CloseNotPersisted(c)
    BY <2>1, <1>1 DEF CloseNotPersisted
  <2> QED
    BY <1>16, <2>1, <1>0, <1>10, <1>11 DEF FaultStep
<1>17. ASSUME NEW c \in Connectors, Heartbeat(c) PROVE SocketInv'
  BY <1>17, <1>1 DEF Heartbeat
<1>18. CASE LeaseExpires \/ UNCHANGED vars
  BY <1>18, <1>1 DEF LeaseExpires, vars
<1> QED
  BY <1>0, <1>12, <1>13, <1>14, <1>15, <1>16, <1>17, <1>18 DEF Next

-----------------------------------------------------------------------------
(* Every column, and every entry of every connector's memory, keeps its type. *)
THEOREM TypeCorrect == Spec => []TypeOK
<1> QED BY InitType, TypeStep, PTL DEF Spec

(* Whatever is dropped under an initialization, it has no socket before it
   creates one and no heartbeat before it ends. *)
THEOREM SocketsAccounted == Spec => []ConnectorIInv
<1>1. Init => ConnectorIInv
  BY InitType, InitSockets DEF ConnectorIInv
<1>2. ConnectorIInv /\ [Next]_vars => ConnectorIInv'
  BY TypeStep, SocketStep DEF ConnectorIInv
<1> QED BY <1>1, <1>2, PTL DEF Spec

(* A connector never has two sockets open for the account, nor one it has lost
   track of: initializeSession and cleanupRuntime see to it together. *)
THEOREM OneSocket == Spec => []OneSocketPerConnector
<1>1. ConnectorIInv => OneSocketPerConnector
  BY DEF ConnectorIInv, SocketInv
<1> QED BY <1>1, SocketsAccounted, PTL

(* A socket whose handlers log what it receives has a heartbeat that asks for
   the lease. *)
THEOREM ConsumersWatched == Spec => []ConsumersAreWatched
<1>1. ConnectorIInv => ConsumersAreWatched
  BY DEF ConnectorIInv, SocketInv
<1> QED BY <1>1, SocketsAccounted, PTL
==============================================================================
