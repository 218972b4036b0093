--------------------------- MODULE MessageDelivery ---------------------------
(***************************************************************************)
(* What the outbound path promises of a message, to the agent who wrote it   *)
(* and to the campaign it belongs to: it shows "waiting" until it is reported *)
(* failed or accepted; accepted is final and never shown for a message       *)
(* WhatsApp has not got; only an accepted message counts as dispatched, and   *)
(* one that does may be reopened and sent once more; and however often it is  *)
(* retried, the customer gets at most Limit copies.  Delivery is at least    *)
(* once, not exactly once: a failed message may have been sent, and a copy    *)
(* may follow one that was already accepted.                                *)
(***************************************************************************)
EXTENDS Naturals

CONSTANTS Messages, Limit

VARIABLES shown, dispatched, sent

vars == <<shown, dispatched, sent>>

Init ==
  /\ shown = [m \in Messages |-> "waiting"]
  /\ dispatched = {}
  /\ sent = [m \in Messages |-> 0]

Deliver(m) ==
  /\ sent[m] < Limit
  /\ sent' = [sent EXCEPT ![m] = @ + 1]
  /\ UNCHANGED <<shown, dispatched>>

Accept(m) ==
  /\ sent[m] > 0
  /\ shown' = [shown EXCEPT ![m] = "accepted"]
  /\ UNCHANGED <<dispatched, sent>>

Dispatch(m) ==
  /\ sent[m] > 0
  /\ shown' = [shown EXCEPT ![m] = "accepted"]
  /\ dispatched' = dispatched \cup {m}
  /\ UNCHANGED sent

Report(m) ==
  /\ shown[m] = "waiting"
  /\ shown' = [shown EXCEPT ![m] = "failed"]
  /\ UNCHANGED <<dispatched, sent>>

Reopen(m) ==
  /\ m \in dispatched
  /\ dispatched' = dispatched \ {m}
  /\ UNCHANGED <<shown, sent>>

Next ==
  \E m \in Messages : Deliver(m) \/ Accept(m) \/ Dispatch(m) \/ Report(m) \/ Reopen(m)

Spec == Init /\ [][Next]_vars
==============================================================================
