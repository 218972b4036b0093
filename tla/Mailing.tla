-------------------------------- MODULE Mailing --------------------------------
(***************************************************************************)
(* What an e-mail campaign promises of its recipients, whoever dispatches    *)
(* it, whoever starts, edits or stops it meanwhile, and whatever fails: a     *)
(* recipient that was taken up never waits again and is mailed once at most,  *)
(* with a link to unsubscribe that works; only one that was mailed is         *)
(* recorded as sent; and the campaign ends when nobody is waiting or being     *)
(* mailed.  It may mail a recipient and record a failure.                    *)
(***************************************************************************)
EXTENDS Naturals

CONSTANTS Recipients

VARIABLES
  row,       \* what the list says of a recipient: see Init and the actions
  links,     \* recipients whose link works
  mailed,    \* mails a recipient got
  stage      \* of the campaign

vars == <<row, links, mailed, stage>>

Init ==
  /\ row = [r \in Recipients |-> "none"]
  /\ links = {}
  /\ mailed = [r \in Recipients |-> 0]
  /\ stage = "none"

Present(r) == row[r] \notin {"none", "gone"}

\* A new list: of recipients seen for the first time some wait and some are
\* skipped, and the list before is gone.
Enlist ==
  /\ \A r \in Recipients :
       IF row[r] = "none" THEN row'[r] \in {"none", "pending", "skipped"} ELSE row'[r] = "gone"
  /\ links' \subseteq links
  /\ stage' \in {stage, "draft"}
  /\ UNCHANGED mailed

\* An operator starts, stops or ends the campaign.
Operate ==
  /\ stage' \in {"sending", "paused", "cancelled"}
  /\ UNCHANGED <<row, links, mailed>>

TakeUp(r) ==
  /\ stage = "sending" /\ row[r] = "pending"
  /\ row' = [row EXCEPT ![r] = "sending"]
  /\ UNCHANGED <<links, mailed, stage>>

Link(r) ==
  /\ links' = links \cup {r}
  /\ UNCHANGED <<row, mailed, stage>>

\* The list may have been replaced, or the recipient have been recorded, since.
Mail(r) ==
  /\ row[r] \notin {"none", "pending", "skipped", "sent"} /\ mailed[r] = 0
  /\ Present(r) => r \in links
  /\ mailed' = [mailed EXCEPT ![r] = 1]
  /\ UNCHANGED <<row, links, stage>>

Unsubscribe(r) ==
  /\ mailed[r] = 1 /\ r \in links
  /\ row' = [row EXCEPT ![r] = "unsubscribed"]
  /\ UNCHANGED <<links, mailed, stage>>

\* Of a recipient's outcome the campaign learns at once, and then may end.
Record(r, outcome) ==
  /\ row[r] \notin {"none", "pending", "skipped", "sent", "gone"}
  /\ outcome = "sent" => mailed[r] = 1
  /\ row' = [row EXCEPT ![r] = outcome]
  /\ \/ stage' = stage
     \/ /\ stage = "sending" /\ stage' \in {"sent", "failed"}
        /\ \A x \in Recipients : row'[x] \notin {"pending", "sending"}
  /\ UNCHANGED <<links, mailed>>

Next ==
  \/ Enlist \/ Operate
  \/ \E r \in Recipients :
       \/ TakeUp(r) \/ Link(r) \/ Mail(r) \/ Unsubscribe(r)
       \/ Record(r, "sent") \/ Record(r, "failed")

Spec == Init /\ [][Next]_vars
================================================================================
