----------------------------- MODULE MCHubLights -----------------------------
(***************************************************************************)
(* HubLights.tla, and with it HubScoring.tla, for TLC: a match of fourteen *)
(* seconds, in ticks of half a second.                                     *)
(***************************************************************************)
EXTENDS HubLights
=============================================================================
