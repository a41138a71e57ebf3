---------------------------- MODULE MCEStopPanels ----------------------------
(***************************************************************************)
(* EStopPanels.tla with one panel and one station, for TLC.                *)
(***************************************************************************)
EXTENDS EStopPanels, TLC

CONSTANT r

EStopInput(station, contacts) == [panel |-> 1, station |-> station, contacts |-> contacts]

OnlyRed == r :> 1

\* A station's e-stop and a field e-stop, one of them redundant.
SingleAndDualField == {EStopInput(r, "nc"), EStopInput(All, "dual")}
DualAndSingleField == {EStopInput(r, "dual"), EStopInput(All, "nc")}
=============================================================================
