------------------------------- MODULE MCArena -------------------------------
(***************************************************************************)
(* Arena.tla on one station with one team for TLC: a substitution closes a *)
(* connection whether the next team is another one or none.                *)
(***************************************************************************)
EXTENDS Arena

CONSTANTS r, t1

\* One panel with its field e-stop fitted.  Within a panel the e-stops come before the
\* a-stops, the station's own before the field's.
Inputs(station, aStop) == [station |-> station, isAStop |-> aStop]

Panel == <<Inputs(r, FALSE), Inputs("all", FALSE), Inputs(r, TRUE)>>
=============================================================================
