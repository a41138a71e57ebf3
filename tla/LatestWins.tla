------------------------------ MODULE LatestWins ------------------------------
(***************************************************************************)
(* What the comment above Arena.configureTeamEthernet promises: "a later   *)
(* call supersedes an earlier one that has not reached the hardware yet".  *)
(* Requests are numbered as they are made.  One may be passed over, none   *)
(* is taken up after a newer one, and the newest is always taken up.       *)
(*                                                                         *)
(* TeamEthernet.tla implements this specification.                         *)
(***************************************************************************)
EXTENDS Naturals

VARIABLES newest,   \* the number of requests made
          taken     \* the last one taken up

vars == <<newest, taken>>

Init == newest \in Nat /\ taken = 0

Request == newest' = newest + 1 /\ UNCHANGED taken

Take == taken' \in (taken + 1) .. newest /\ UNCHANGED newest

Next == Request \/ Take

Spec == Init /\ [][Next]_vars /\ WF_vars(Take)
=============================================================================
