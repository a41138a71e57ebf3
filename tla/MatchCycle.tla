----------------------------- MODULE MatchCycle -----------------------------
(***************************************************************************)
(* What the arena promises about a match, and nothing about how: a match   *)
(* is started from an idle field, runs its periods in order, can be cut    *)
(* short at any point, and ends in a phase from which only an idle field   *)
(* follows.  The AUTO result is published at the very step that opens      *)
(* teleop and withdrawn at the step that closes it, so a driver station    *)
(* can observe a result in no other phase.                                 *)
(*                                                                         *)
(* Arena.tla and HubScoring.tla implement this specification, each from    *)
(* its own side of Update: see ImplementsMatchCycle in Arena.tla, and the  *)
(* theorems ArenaImplementsMatchCycle in ArenaProofs.tla and               *)
(* ScoringImplementsMatchCycle in HubProofs.tla.                           *)
(***************************************************************************)

VARIABLES
  phase,     \* the phase of the match
  result     \* the published AUTO result: "R", "B", or "" while there is none

vars == <<phase, result>>

Underway == {"StartMatch", "WarmupPeriod", "AutoPeriod", "PausePeriod", "TeleopPeriod"}

Init == phase = "PreMatch" /\ result = ""

Arm == /\ phase = "PreMatch"
       /\ phase' = "StartMatch"
       /\ UNCHANGED result

\* Warmup and the pause are optional: a field may be set up without either.
Advance == /\ \/ phase = "StartMatch" /\ phase' \in {"WarmupPeriod", "AutoPeriod"}
              \/ phase = "WarmupPeriod" /\ phase' = "AutoPeriod"
              \/ phase = "AutoPeriod" /\ phase' = "PausePeriod"
           /\ UNCHANGED result

OpenTeleop == /\ phase \in {"AutoPeriod", "PausePeriod"}
              /\ phase' = "TeleopPeriod"
              /\ result' \in {"R", "B"}

Over == /\ phase \in Underway
        /\ phase' = "PostMatch"
        /\ result' = ""

Recycle == /\ phase = "PostMatch"
           /\ phase' = "PreMatch"
           /\ UNCHANGED result

Next == Arm \/ Advance \/ OpenTeleop \/ Over \/ Recycle

Spec == Init /\ [][Next]_vars
=============================================================================
