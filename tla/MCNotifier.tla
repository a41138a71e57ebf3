----------------------------- MODULE MCNotifier -----------------------------
(***************************************************************************)
(* Notifier.tla for TLC: a tick is ten seconds, the ping interval.         *)
(***************************************************************************)
EXTENDS Notifier

CONSTANT p1
=============================================================================
