------------------------------ MODULE InboundLog ------------------------------
(***************************************************************************)
(* What the inbound path promises of what WhatsApp delivers, whoever         *)
(* processes it, however often it is delivered, replayed or tried again: a    *)
(* message enters the inbox once, for good, and is counted as unread then or  *)
(* never; a receipt is logged once, after its message; and a delivery is      *)
(* closed only with its effect there, though it may be opened again.          *)
(***************************************************************************)
EXTENDS Naturals

CONSTANTS
  Messages,
  Receipts,
  Arrivals,    \* deliveries of messages
  Reports,     \* deliveries of receipts
  Deliveries,  \* these, and the ones that leave nothing here
  About,       \* the message a delivery is about
  ReceiptOf    \* the receipt a report brings

VARIABLES inbox, unread, logged, closed

vars == <<inbox, unread, logged, closed>>

Init ==
  /\ inbox = {} /\ closed = {}
  /\ unread = [m \in Messages |-> 0]
  /\ logged = [k \in Receipts |-> 0]

\* One of its deliveries may be closed with it.
Arrive(m) ==
  /\ m \notin inbox
  /\ inbox' = inbox \cup {m}
  /\ \E count \in {0, 1} : unread' = [unread EXCEPT ![m] = @ + count]
  /\ closed' = closed \/ \E d \in Arrivals : About[d] = m /\ closed' = closed \cup {d}
  /\ UNCHANGED logged

Log(d) ==
  /\ About[d] \in inbox
  /\ logged[ReceiptOf[d]] = 0
  /\ logged' = [logged EXCEPT ![ReceiptOf[d]] = 1]
  /\ closed' = closed \cup {d}
  /\ UNCHANGED <<inbox, unread>>

Close(d) ==
  /\ d \in Arrivals => About[d] \in inbox
  /\ d \in Reports => logged[ReceiptOf[d]] = 1
  /\ closed' = closed \cup {d}
  /\ UNCHANGED <<inbox, unread, logged>>

Reopen ==
  /\ closed' \subseteq closed
  /\ UNCHANGED <<inbox, unread, logged>>

Next ==
  \/ \E m \in Messages : Arrive(m)
  \/ \E d \in Reports : Log(d)
  \/ \E d \in Deliveries : Close(d)
  \/ Reopen

Spec == Init /\ [][Next]_vars
===============================================================================
