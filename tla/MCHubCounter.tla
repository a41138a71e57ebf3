----------------------------- MODULE MCHubCounter -----------------------------
(***************************************************************************)
(* HubCounter.tla for TLC.  The two HUBs play the same part, so they are   *)
(* symmetric.                                                              *)
(***************************************************************************)
EXTENDS HubCounter, TLC

HubSymmetry == Permutations(Hubs)
=============================================================================
