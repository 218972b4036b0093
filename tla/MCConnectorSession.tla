-------------------------- MODULE MCConnectorSession --------------------------
(***************************************************************************)
(* Small instances of the connectors of one account for TLC.               *)
(***************************************************************************)
EXTENDS ConnectorSession, TLC

CONSTANTS c1, c2

AnyConnector == Permutations(Connectors)
==============================================================================
