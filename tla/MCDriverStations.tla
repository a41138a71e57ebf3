--------------------------- MODULE MCDriverStations ---------------------------
(***************************************************************************)
(* DriverStations.tla for TLC.  The stations play the same part, and so do *)
(* the teams; liveness is checked, so neither is declared symmetric.       *)
(***************************************************************************)
EXTENDS DriverStations

CONSTANTS r, b, t1, t2
=============================================================================
