----------------------------- MODULE MCCampaigns -----------------------------
(***************************************************************************)
(* Instances of Campaigns for TLC: one user is registered at the start.    *)
(***************************************************************************)
EXTENDS Campaigns

CONSTANTS u1

OneUser == <<u1>>
=============================================================================
