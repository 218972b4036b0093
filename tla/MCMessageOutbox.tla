--------------------------- MODULE MCMessageOutbox ---------------------------
(***************************************************************************)
(* Small instances of the outbox for TLC.                                  *)
(***************************************************************************)
EXTENDS MessageOutbox, TLC

CONSTANTS m1, m2

\* Both messages leave from accounts of their own, or share one.
OwnAccounts == [m \in Messages |-> m]
SharedAccount == [m \in Messages |-> "account"]
==============================================================================
