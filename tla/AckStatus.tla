------------------------------ MODULE AckStatus ------------------------------
(***************************************************************************)
(* The delivery status of an outgoing message (messages.ack_status) and    *)
(* the one SQL statement that moves it.  Every writer of the status - the   *)
(* outbox dispatcher, the receipt processor and the ingestion of echoes -   *)
(* goes through UpdatedAck, so its algebra is what makes late, duplicated   *)
(* and reordered receipts harmless.                                        *)
(***************************************************************************)
EXTENDS Naturals

AckStatuses ==
  {"failed", "pending", "server_ack", "device_delivered", "read", "played"}

\* The rank both the SQL statement and the receipt service order statuses by.
AckRank(s) ==
  CASE s = "played"           -> 5
    [] s = "read"             -> 4
    [] s = "device_delivered" -> 3
    [] s = "server_ack"       -> 2
    [] s = "pending"          -> 1
    [] s = "failed"           -> 0

\* Statuses that say WhatsApp has accepted the message.
AckedStatuses == {s \in AckStatuses : AckRank(s) >= AckRank("server_ack")}

\* Mutant of UpdatedAck: the last writer wins.
UpdatedAck_LastWriter(current, next) == next

\* messages.ack_status after updateAckStatus(next) on a row that shows current.
UpdatedAck(current, next) ==
  IF \/ next = "failed" /\ current = "pending"
     \/ AckRank(current) <= AckRank(next)
     \/ current = "failed"
  THEN next
  ELSE current

\* The receipt service reads the row first and writes only what this allows.
ShouldApplyStatus(current, next) ==
  current = "failed" \/ AckRank(next) >= AckRank(current)

\* messages.failed_at is set or kept by a "failed" update and cleared by any
\* other one, whatever the resulting status is.
UpdatedFailedAt(next) == next = "failed"
==============================================================================
