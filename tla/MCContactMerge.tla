---------------------------- MODULE MCContactMerge ----------------------------
(* A customer who writes under a LID and under the id of a phone, so that there  *)
(* are two contacts to merge, while an agent sends a message.                   *)
EXTENDS ContactMerge

CONSTANTS m1, lid, jid, phone

Writes == [m \in Received |-> IF m = m1 THEN lid ELSE jid]
JidPhone == [j \in Jids |-> IF j = jid THEN phone ELSE NoPhone]
NoneByHand == [c \in Entered |-> NoPhone]
===============================================================================
