------------------------------ MODULE MCTeamWifi ------------------------------
(***************************************************************************)
(* TeamWifi.tla with two stations, for TLC.                                *)
(***************************************************************************)
EXTENDS TeamWifi

CONSTANT a
=============================================================================
