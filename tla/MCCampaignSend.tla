--------------------------- MODULE MCCampaignSend ---------------------------
(* Model-checking instances of CampaignSend.                               *)
EXTENDS CampaignSend, TLC

Identities == Permutations(Workers) \cup Permutations(Handlers)
=============================================================================
