-------------------------- MODULE MCCampaignDispatch --------------------------
(***************************************************************************)
(* A small campaign for TLC.                                               *)
(***************************************************************************)
EXTENDS CampaignDispatch, TLC

CONSTANTS r1, w1, w2, o1, o2

\* Safety runs only: the properties name no worker.
Alike == Permutations(Workers)
==============================================================================
