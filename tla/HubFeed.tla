------------------------------- MODULE HubFeed -------------------------------
(***************************************************************************)
(* What a source of HUB counts owes the scoring (plc.HubCountSource): the  *)
(* FUEL counted into each HUB since the last ResetMatch.  A count starts   *)
(* at zero, only rises, and only a call of ResetMatch takes it back to     *)
(* zero.                                                                   *)
(*                                                                         *)
(* Which steps are calls is for the user of this module to say: it is kept *)
(* by Init /\ [][Step(called)]_count.  HubCounter.tla keeps it so over a   *)
(* lossy network, and HubScoring.tla is built on it.                       *)
(***************************************************************************)
EXTENDS Naturals

CONSTANT Hubs

VARIABLE count

Zero == [h \in Hubs |-> 0]

Init == count = Zero

Rise == /\ count' \in [Hubs -> Nat]
        /\ \A h \in Hubs : count'[h] >= count[h]

ResetMatch == count' = Zero

\* A step of the source, by whether ResetMatch is called in it: without a call no count falls.
Step(called) == IF called THEN ResetMatch ELSE Rise
=============================================================================
