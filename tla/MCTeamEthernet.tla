---------------------------- MODULE MCTeamEthernet ----------------------------
(***************************************************************************)
(* TeamEthernet.tla on a switch with two stations, for TLC.                *)
(***************************************************************************)
EXTENDS TeamEthernet

CONSTANT a
=============================================================================
