--------------------------- MODULE ConnectorSession ---------------------------
(***************************************************************************)
(* One WhatsApp account and the connector processes that may hold its       *)
(* socket.  A lease on the account's row decides which of them connects;    *)
(* the row also carries the connection status operators, senders and a      *)
(* restarting connector act on.                                            *)
(*                                                                         *)
(* A connector is single-threaded: what it does between two awaits is one   *)
(* step here, and every transaction is a step of its own, so event          *)
(* handlers, requests, timers and heartbeats interleave at each await.      *)
(* suspected_ban, logged_out and reconnect_suppressed are the statuses that *)
(* need a manual reconnect: they are "blocked" here, and how a disconnect   *)
(* is classified is a free choice.  A connector treats one reconnecting     *)
(* request at a time; session rows and connection events are a log.         *)
(***************************************************************************)
EXTENDS Naturals, FiniteSets

CONSTANTS
  Connectors,   \* connector processes: CONNECTOR_INSTANCE_ID
  NoOwner,
  MaxFaults,    \* bound: crashes, failed calls, heartbeats late by a TTL
  MaxEvents,    \* bound: QR and close events from WhatsApp
  MaxRequests   \* bound: sends, reconnects, terminations and status polls

ASSUME ConnectorAssumption ==
  /\ IsFiniteSet(Connectors)
  /\ NoOwner \notin Connectors
  /\ {MaxFaults, MaxEvents, MaxRequests} \subseteq Nat

VARIABLES
  \* whatsapp_accounts
  owner,        \* connector_owner_id
  expired,      \* connector_heartbeat_at is older than CONNECTOR_LEASE_TTL_MS
  status,       \* connection_status
  \* the memory of the connectors
  up,           \* the process runs
  init,         \* where initializeSession is, "none" when it does not run
  registered,   \* the account has an entry in sockets
  attached,     \* the handlers of that socket are attached
  runtime,      \* the account has an entry in runtimes, with its heartbeat
  connected,    \* connectedAccounts
  disabled,     \* disabledAccounts
  timer,        \* a timer will call initializeSession
  writes,       \* statuses that event handlers are about to write
  closing,      \* the status the close handler is about to write
  lost,         \* a heartbeat was rejected and its cleanup is still to come
  releasing,    \* cleanupRuntime is about to release the lease
  polled,       \* getAccountStatus is about to write "reconnecting"
  request,      \* where the reconnecting request is
  kind,         \* what sort of request it is
  \* the world
  live,         \* sockets WhatsApp has open with the connector
  faults, events, requests

dbVars == <<owner, expired, status>>
socketVars == <<registered, attached, runtime, connected, live>>
taskVars == <<timer, writes, closing, lost, releasing, polled>>
requestVars == <<request, kind>>
counters == <<faults, events, requests>>
vars == <<dbVars, up, init, disabled, socketVars, taskVars, requestVars, counters>>

Statuses == {"new", "qr_required", "connected", "reconnecting", "disconnected", "blocked"}
RequestKinds == {"none", "send", "reconnect", "confirmed"}
RequestPhases == {"none", "mark", "reconnect", "cleanup", "status", "init", "wait", "restore"}

TypeOK ==
  /\ owner \in Connectors \cup {NoOwner}
  /\ expired \in BOOLEAN
  /\ status \in Statuses
  /\ up \in [Connectors -> BOOLEAN]
  /\ init \in [Connectors -> {"none", "lease", "auth", "session"}]
  /\ registered \in [Connectors -> BOOLEAN]
  /\ attached \in [Connectors -> BOOLEAN]
  /\ runtime \in [Connectors -> BOOLEAN]
  /\ connected \in [Connectors -> BOOLEAN]
  /\ disabled \in [Connectors -> BOOLEAN]
  /\ timer \in [Connectors -> BOOLEAN]
  /\ writes \in [Connectors -> SUBSET {"connected", "qr_required"}]
  /\ closing \in [Connectors -> {"none", "disconnected", "qr_required", "blocked"}]
  /\ lost \in [Connectors -> BOOLEAN]
  /\ releasing \in [Connectors -> BOOLEAN]
  /\ polled \in [Connectors -> BOOLEAN]
  /\ request \in [Connectors -> RequestPhases]
  /\ kind \in [Connectors -> RequestKinds]
  /\ live \in [Connectors -> Nat]
  /\ faults \in 0..MaxFaults
  /\ events \in 0..MaxEvents
  /\ requests \in 0..MaxRequests

Everywhere(value) == [c \in Connectors |-> value]

\* The connectors have just started on an account that may be used: each runs
\* initializeAll.
Init ==
  /\ owner = NoOwner /\ expired = FALSE /\ status = "new"
  /\ up = Everywhere(TRUE)
  /\ init = Everywhere("lease")
  /\ registered = Everywhere(FALSE) /\ attached = Everywhere(FALSE)
  /\ runtime = Everywhere(FALSE) /\ connected = Everywhere(FALSE)
  /\ disabled = Everywhere(FALSE) /\ timer = Everywhere(FALSE)
  /\ writes = Everywhere({}) /\ closing = Everywhere("none")
  /\ lost = Everywhere(FALSE) /\ releasing = Everywhere(FALSE)
  /\ polled = Everywhere(FALSE)
  /\ request = Everywhere("none") /\ kind = Everywhere("none")
  /\ live = Everywhere(0)
  /\ faults = 0 /\ events = 0 /\ requests = 0

Fault == faults < MaxFaults /\ faults' = faults + 1 /\ UNCHANGED <<events, requests>>
Event == events < MaxEvents /\ events' = events + 1 /\ UNCHANGED <<faults, requests>>
Request == requests < MaxRequests /\ requests' = requests + 1 /\ UNCHANGED <<faults, events>>

-----------------------------------------------------------------------------
(***************************************************************************)
(* initializeSession.                                                      *)
(***************************************************************************)

\* Mutant of MayInitialize: only a session with a heartbeat is looked for.
MayInitialize_BesideSocket(c) == ~disabled[c] /\ init[c] = "none" /\ ~runtime[c]

\* The guards, none of which reads the account's row.
MayInitialize(c) ==
  /\ ~disabled[c]
  /\ init[c] = "none"
  /\ ~registered[c] /\ ~runtime[c]

StartInit(c) ==
  init' = [init EXCEPT ![c] = IF MayInitialize(c) THEN "lease" ELSE @]

\* A request whose initialization has just ended goes on before a timer does.
TimerFires(c) ==
  /\ timer[c]
  /\ request[c] = "init" => init[c] # "none"
  /\ timer' = [timer EXCEPT ![c] = FALSE]
  /\ StartInit(c)
  /\ UNCHANGED <<dbVars, up, disabled, socketVars, writes, closing, lost,
                 releasing, polled, requestVars, counters>>

\* Mutant of LeaseIsFree: a dead connector's lease does not expire.
LeaseIsFree_NeverExpires(c) == owner \in {NoOwner, c}

LeaseIsFree(c) == owner \in {NoOwner, c} \/ expired

\* tryAcquireLease: one that is refused tries again after the lease's TTL.
TryAcquireLease(c) ==
  /\ init[c] = "lease"
  /\ \/ /\ LeaseIsFree(c)
        /\ owner' = c /\ expired' = FALSE
        /\ init' = [init EXCEPT ![c] = "auth"]
        /\ UNCHANGED timer
     \/ /\ ~LeaseIsFree(c)
        /\ init' = [init EXCEPT ![c] = "none"]
        /\ timer' = [timer EXCEPT ![c] = TRUE]
        /\ UNCHANGED <<owner, expired>>
  /\ UNCHANGED <<status, up, disabled, socketVars, writes, closing, lost,
                 releasing, polled, requestVars, counters>>

CreateSocket(c) ==
  /\ init[c] = "auth"
  /\ init' = [init EXCEPT ![c] = "session"]
  /\ registered' = [registered EXCEPT ![c] = TRUE]
  /\ live' = [live EXCEPT ![c] = @ + 1]
  /\ UNCHANGED <<dbVars, up, disabled, attached, runtime, connected, taskVars,
                 requestVars, counters>>

\* The session row exists: the heartbeat starts and the handlers are attached,
\* to a socket that may have been ended meanwhile.
FinishInit(c) ==
  /\ init[c] = "session"
  /\ init' = [init EXCEPT ![c] = "none"]
  /\ runtime' = [runtime EXCEPT ![c] = TRUE]
  /\ attached' = [attached EXCEPT ![c] = registered[c]]
  /\ UNCHANGED <<dbVars, up, disabled, registered, connected, live, taskVars,
                 requestVars, counters>>

\* A call throws inside a request's initialization; a socket that was created
\* stays registered, without handlers and without a heartbeat.
InitFails(c) ==
  /\ Fault
  /\ init[c] # "none" /\ request[c] = "init"
  /\ init' = [init EXCEPT ![c] = "none"]
  /\ request' = [request EXCEPT ![c] = "none"]
  /\ kind' = [kind EXCEPT ![c] = "none"]
  /\ UNCHANGED <<dbVars, up, disabled, socketVars, taskVars>>

-----------------------------------------------------------------------------
(***************************************************************************)
(* cleanupRuntime, heartbeats and the events of the socket.                *)
(***************************************************************************)

\* Mutant of DropSocket: only the heartbeat is stopped.
DropSocket_HeartbeatOnly(c) ==
  /\ runtime' = [runtime EXCEPT ![c] = FALSE]
  /\ connected' = [connected EXCEPT ![c] = FALSE]
  /\ UNCHANGED <<registered, attached, live>>

\* The socket's entry, its heartbeat and the socket itself go; the close event
\* that follows is recognised as stale.
DropSocket(c) ==
  /\ registered' = [registered EXCEPT ![c] = FALSE]
  /\ attached' = [attached EXCEPT ![c] = FALSE]
  /\ runtime' = [runtime EXCEPT ![c] = FALSE]
  /\ connected' = [connected EXCEPT ![c] = FALSE]
  /\ live' = [live EXCEPT ![c] = IF registered[c] /\ @ > 0 THEN @ - 1 ELSE @]

ReleaseLease(c) ==
  /\ owner' = IF owner = c THEN NoOwner ELSE owner
  /\ expired' = (expired /\ owner # c)

CommitRelease(c) ==
  /\ releasing[c]
  /\ releasing' = [releasing EXCEPT ![c] = FALSE]
  /\ ReleaseLease(c)
  /\ UNCHANGED <<status, up, init, disabled, socketVars, timer, writes, closing,
                 lost, polled, requestVars, counters>>

\* Mutant of Heartbeat: the answer of heartbeatLease is not looked at.
Heartbeat_Ignored(c) ==
  /\ runtime[c]
  /\ expired' = (expired /\ owner # c)
  /\ UNCHANGED <<owner, status, up, init, disabled, socketVars, timer, writes, closing,
                 lost, releasing, polled, requestVars, counters>>

Heartbeat(c) ==
  /\ runtime[c]
  /\ expired' = (expired /\ owner # c)
  /\ lost' = [lost EXCEPT ![c] = @ \/ owner # c]
  /\ UNCHANGED <<owner, status, up, init, disabled, socketVars, timer, writes, closing,
                 releasing, polled, requestVars, counters>>

\* The cleanup after a rejected heartbeat takes whatever runtime there is by
\* then; nothing is scheduled to initialize the session again.
LeaseLost(c) ==
  /\ lost[c]
  /\ lost' = [lost EXCEPT ![c] = FALSE]
  /\ releasing' = [releasing EXCEPT ![c] = TRUE]
  /\ DropSocket(c)
  /\ UNCHANGED <<dbVars, up, init, disabled, timer, writes, closing, polled,
                 requestVars, counters>>

SocketOpens(c) ==
  /\ attached[c] /\ live[c] > 0 /\ ~connected[c]
  /\ connected' = [connected EXCEPT ![c] = TRUE]
  /\ writes' = [writes EXCEPT ![c] = @ \cup {"connected"}]
  /\ UNCHANGED <<dbVars, up, init, disabled, registered, attached, runtime, live,
                 timer, closing, lost, releasing, polled, requestVars, counters>>

QrRequired(c) ==
  /\ Event
  /\ attached[c] /\ live[c] > 0 /\ ~connected[c]
  /\ writes' = [writes EXCEPT ![c] = @ \cup {"qr_required"}]
  /\ UNCHANGED <<dbVars, up, init, disabled, socketVars, timer, closing, lost,
                 releasing, polled, requestVars>>

\* The transaction of an open or qr event's handler.
CommitEvent(c, s) ==
  /\ s \in writes[c]
  /\ writes' = [writes EXCEPT ![c] = @ \ {s}]
  /\ status' = s
  /\ UNCHANGED <<owner, expired, up, init, disabled, socketVars, timer, closing, lost,
                 releasing, polled, requestVars, counters>>

\* A normal close will reconnect; the other classes disable the account here
\* and reject the sends that wait for it.
SocketCloses(c, class) ==
  /\ Event
  /\ attached[c] /\ live[c] > 0 /\ runtime[c] /\ closing[c] = "none"
  /\ DropSocket(c)
  /\ closing' = [closing EXCEPT ![c] = class]
  /\ disabled' = [disabled EXCEPT ![c] = @ \/ class # "disconnected"]
  /\ request' = [request EXCEPT ![c] =
                   IF @ = "wait" /\ class # "disconnected" THEN "restore" ELSE @]
  /\ UNCHANGED <<dbVars, up, init, kind, timer, writes, lost, releasing, polled>>

\* The close handler's transaction; a timer follows a normal close.
CommitClose(c) ==
  /\ closing[c] # "none"
  /\ closing' = [closing EXCEPT ![c] = "none"]
  /\ status' = closing[c]
  /\ \/ closing[c] = "disconnected" /\ UNCHANGED <<owner, expired>>
     \/ closing[c] # "disconnected" /\ ReleaseLease(c)
  /\ timer' = [timer EXCEPT ![c] = @ \/ (closing[c] = "disconnected" /\ ~disabled[c])]
  /\ UNCHANGED <<up, init, disabled, socketVars, writes, lost, releasing, polled,
                 requestVars, counters>>

\* The transaction fails: the account's row is not told.
CloseNotPersisted(c) ==
  /\ Fault
  /\ closing[c] # "none"
  /\ closing' = [closing EXCEPT ![c] = "none"]
  /\ timer' = [timer EXCEPT ![c] = @ \/ (closing[c] = "disconnected" /\ ~disabled[c])]
  /\ UNCHANGED <<dbVars, up, init, disabled, socketVars, writes, lost, releasing,
                 polled, requestVars>>

\* A socket without handlers breaks: nobody notices.
SocketDies(c) ==
  /\ Event
  /\ registered[c] /\ ~attached[c] /\ live[c] > 0
  /\ live' = [live EXCEPT ![c] = @ - 1]
  /\ UNCHANGED <<dbVars, up, init, disabled, registered, attached, runtime,
                 connected, taskVars, requestVars>>

-----------------------------------------------------------------------------
(***************************************************************************)
(* Requests: an operator's reconnect, a send on a session that is not       *)
(* connected, a termination, a status poll.                                *)
(***************************************************************************)
Advance(c, phase) == request' = [request EXCEPT ![c] = phase]

\* The account is read; one that is blocked needs the operator's confirmation.
ReconnectAccount(c, confirmed) ==
  /\ Request
  /\ up[c] /\ request[c] = "none"
  /\ status # "blocked" \/ confirmed
  /\ Advance(c, "reconnect")
  /\ kind' = [kind EXCEPT ![c] = IF confirmed THEN "confirmed" ELSE "reconnect"]
  /\ UNCHANGED <<dbVars, up, init, disabled, socketVars, taskVars>>

EnsureConnectedForSend(c) ==
  /\ Request
  /\ up[c] /\ request[c] = "none"
  /\ ~(registered[c] /\ connected[c])
  /\ status # "blocked"
  /\ Advance(c, "mark")
  /\ kind' = [kind EXCEPT ![c] = "send"]
  /\ UNCHANGED <<dbVars, up, init, disabled, socketVars, taskVars>>

\* The send writes "reconnecting", before it reconnects and when the wait for
\* the connection was in vain, without looking at what the row says by then.
MarkReconnecting(c) ==
  /\ request[c] \in {"mark", "restore"}
  /\ status' = "reconnecting"
  /\ Advance(c, IF request[c] = "mark" THEN "reconnect" ELSE "none")
  /\ kind' = [kind EXCEPT ![c] = IF request[c] = "mark" THEN @ ELSE "none"]
  /\ UNCHANGED <<owner, expired, up, init, disabled, socketVars, taskVars, counters>>

\* reconnectSession decides on the account as it was read.
ReconnectSession(c) ==
  /\ request[c] = "reconnect"
  /\ disabled' = [disabled EXCEPT ![c] = FALSE]
  /\ DropSocket(c)
  /\ Advance(c, "cleanup")
  /\ UNCHANGED <<dbVars, up, init, kind, taskVars, counters>>

CommitCleanup(c) ==
  /\ request[c] = "cleanup"
  /\ ReleaseLease(c)
  /\ Advance(c, "status")
  /\ UNCHANGED <<status, up, init, disabled, socketVars, kind, taskVars, counters>>

\* A send waits for the connection; an operator's reconnect is over.
AfterInit(c) ==
  LET waits == kind[c] = "send" /\ ~connected[c]
  IN  /\ Advance(c, IF waits THEN "wait" ELSE "none")
      /\ kind' = [kind EXCEPT ![c] = IF waits THEN @ ELSE "none"]

\* initializeSession begins, or it returns at once.
CommitReconnecting(c) ==
  /\ request[c] = "status"
  /\ status' = "reconnecting"
  /\ StartInit(c)
  /\ \/ MayInitialize(c) /\ Advance(c, "init") /\ UNCHANGED kind
     \/ ~MayInitialize(c) /\ AfterInit(c)
  /\ UNCHANGED <<owner, expired, up, disabled, socketVars, taskVars, counters>>

InitReturns(c) ==
  /\ request[c] = "init"
  /\ init[c] = "none"
  /\ AfterInit(c)
  /\ UNCHANGED <<dbVars, up, init, disabled, socketVars, taskVars, counters>>

\* The socket opens, or SEND_RECONNECT_TIMEOUT_MS are over.
WaitEnds(c) ==
  /\ request[c] = "wait"
  /\ Advance(c, IF connected[c] THEN "none" ELSE "restore")
  /\ kind' = [kind EXCEPT ![c] = IF connected[c] THEN "none" ELSE @]
  /\ UNCHANGED <<dbVars, up, init, disabled, socketVars, taskVars, counters>>

TerminateSession(c) ==
  /\ Request
  /\ up[c]
  /\ disabled' = [disabled EXCEPT ![c] = TRUE]
  /\ DropSocket(c)
  /\ releasing' = [releasing EXCEPT ![c] = TRUE]
  /\ UNCHANGED <<dbVars, up, init, timer, writes, closing, lost, polled, requestVars>>

\* getAccountStatus: a connector that has no live session corrects the status.
PollStatus(c) ==
  /\ Request
  /\ up[c] /\ ~polled[c]
  /\ status = "connected" /\ ~(registered[c] /\ connected[c])
  /\ polled' = [polled EXCEPT ![c] = TRUE]
  /\ UNCHANGED <<dbVars, up, init, disabled, socketVars, timer, writes, closing,
                 lost, releasing, requestVars>>

CommitPoll(c) ==
  /\ polled[c]
  /\ polled' = [polled EXCEPT ![c] = FALSE]
  /\ status' = "reconnecting"
  /\ UNCHANGED <<owner, expired, up, init, disabled, socketVars, timer, writes,
                 closing, lost, releasing, requestVars, counters>>

-----------------------------------------------------------------------------
(***************************************************************************)
(* Processes and the clock.                                                *)
(***************************************************************************)
Forget(f, c, value) == [f EXCEPT ![c] = value]

Crash(c) ==
  /\ Fault
  /\ up[c]
  /\ up' = Forget(up, c, FALSE)
  /\ init' = Forget(init, c, "none")
  /\ registered' = Forget(registered, c, FALSE)
  /\ attached' = Forget(attached, c, FALSE)
  /\ runtime' = Forget(runtime, c, FALSE)
  /\ connected' = Forget(connected, c, FALSE)
  /\ disabled' = Forget(disabled, c, FALSE)
  /\ timer' = Forget(timer, c, FALSE)
  /\ writes' = Forget(writes, c, {})
  /\ closing' = Forget(closing, c, "none")
  /\ lost' = Forget(lost, c, FALSE)
  /\ releasing' = Forget(releasing, c, FALSE)
  /\ polled' = Forget(polled, c, FALSE)
  /\ request' = Forget(request, c, "none")
  /\ kind' = Forget(kind, c, "none")
  /\ live' = Forget(live, c, 0)
  /\ UNCHANGED dbVars

\* initializeAll takes up the accounts listActive returns, not a blocked one.
Restart(c) ==
  /\ ~up[c]
  /\ up' = [up EXCEPT ![c] = TRUE]
  /\ init' = [init EXCEPT ![c] = IF status = "blocked" THEN "none" ELSE "lease"]
  /\ UNCHANGED <<dbVars, disabled, socketVars, taskVars, requestVars, counters>>

\* The owner renews the lease, or is about to.
IsServed == owner # NoOwner /\ up[owner] /\
            (runtime[owner] \/ init[owner] # "none" \/ timer[owner] \/ closing[owner] # "none")

\* A TTL passes without a heartbeat.  While the owner is at work it takes a
\* fault: a stalled process, a database out of reach, an endless initialization.
LeaseExpires ==
  /\ owner # NoOwner /\ ~expired
  /\ expired' = TRUE
  /\ \/ IsServed /\ Fault
     \/ ~IsServed /\ UNCHANGED counters
  /\ UNCHANGED <<owner, status, up, init, disabled, socketVars, taskVars, requestVars>>

-----------------------------------------------------------------------------
SystemStep(c) ==
  \/ TimerFires(c)
  \/ TryAcquireLease(c)
  \/ CreateSocket(c)
  \/ FinishInit(c)
  \/ CommitRelease(c)
  \/ LeaseLost(c)
  \/ \E s \in Statuses : CommitEvent(c, s)
  \/ CommitClose(c)
  \/ CommitPoll(c)
  \/ MarkReconnecting(c)
  \/ ReconnectSession(c)
  \/ CommitCleanup(c)
  \/ CommitReconnecting(c)
  \/ InitReturns(c)
  \/ WaitEnds(c)

RequestStep(c) ==
  \/ \E confirmed \in BOOLEAN : ReconnectAccount(c, confirmed)
  \/ EnsureConnectedForSend(c)
  \/ TerminateSession(c)
  \/ PollStatus(c)

WhatsAppStep(c) ==
  \/ SocketOpens(c)
  \/ QrRequired(c)
  \/ \E class \in {"disconnected", "qr_required", "blocked"} : SocketCloses(c, class)
  \/ SocketDies(c)

FaultStep(c) == InitFails(c) \/ CloseNotPersisted(c) \/ Crash(c)

Next ==
  \/ \E c \in Connectors :
       SystemStep(c) \/ Heartbeat(c) \/ RequestStep(c) \/ WhatsAppStep(c)
         \/ FaultStep(c) \/ Restart(c)
  \/ LeaseExpires

Spec == Init /\ [][Next]_vars

(***************************************************************************)
(* A running connector's transactions, timers and heartbeats come to pass,  *)
(* and so does the end of a lease nobody renews.                           *)
(***************************************************************************)
Fairness ==
  /\ \A c \in Connectors : WF_vars(SystemStep(c)) /\ WF_vars(Heartbeat(c))
  /\ WF_vars(LeaseExpires /\ ~IsServed)

FairSpec == Spec /\ Fairness

-----------------------------------------------------------------------------
(***************************************************************************)
(* Properties.                                                             *)
(***************************************************************************)

(* Whatever timers, sends, reconnects, lost leases and half-done
   initializations interleave, a connector never has two sockets open for the
   account, nor one it has lost track of and cannot end. *)
OneSocketPerConnector ==
  \A c \in Connectors : live[c] <= 1 /\ (live[c] = 1 => registered[c])

(* A session that takes part in the traffic is one whose loss is noticed: its
   heartbeat runs and asks for the lease. *)
ConsumersAreWatched ==
  \A c \in Connectors : attached[c] => runtime[c] /\ registered[c]

\* The connector has nothing to do and no socket to restart with.
AtRest(c) ==
  /\ init[c] = "none" /\ ~timer[c] /\ closing[c] = "none" /\ request[c] = "none"
  /\ ~registered[c] /\ ~runtime[c]

(* What makes both so at every step: an initialization has no socket before
   it creates one and no heartbeat before it ends, whatever is dropped under
   it, and a process that is down has neither. *)
SocketInv ==
  /\ OneSocketPerConnector
  /\ ConsumersAreWatched
  /\ \A c \in Connectors : /\ init[c] \in {"lease", "auth"} => ~registered[c]
                           /\ init[c] # "none" => ~runtime[c]
  /\ \A c \in Connectors : ~up[c] => AtRest(c)

(* The inductive invariant. *)
ConnectorIInv == TypeOK /\ SocketInv

\* The connector's socket is open and its handlers log what it receives.
Consumes(c) == live[c] > 0 /\ attached[c]

(* Two connectors may both consume the account's events for a while, when a
   lease expired under a live owner; it does not stay so. *)
EventuallyOneConsumer == <>[](Cardinality({c \in Connectors : Consumes(c)}) <= 1)

(* A connector that was refused the lease takes it when its owner is gone. *)
Failover ==
  \A c \in Connectors :
    (timer[c] /\ \A d \in Connectors \ {c} : ~up[d])
      ~> (runtime[c] \/ ~up[c] \/ disabled[c] \/ \E d \in Connectors \ {c} : up[d])

(* The dashboard says of a suspected ban that "Auto reconnect has been stopped":
   no connector opens a socket for a blocked account of its own accord. *)
AutoReconnectIsStopped ==
  [][\A c \in Connectors :
       status = "blocked" /\ live[c] < live'[c] => kind[c] = "confirmed"]_vars
==============================================================================
