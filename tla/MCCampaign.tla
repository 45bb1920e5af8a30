----------------------------- MODULE MCCampaign -----------------------------
(* The instance of Campaign that TLC checks. *)
EXTENDS Campaign, TLC

Interchangeable == Permutations(Contacts) \cup Permutations(Requests)
=============================================================================
