---------------------------- MODULE MCEmailCampaign ----------------------------
(***************************************************************************)
(* A campaign to two addresses for TLC.                                     *)
(***************************************************************************)
EXTENDS EmailCampaign

CONSTANTS e1, e2, w1, o1, o2
================================================================================
