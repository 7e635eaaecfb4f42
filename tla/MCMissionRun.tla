---------------------------- MODULE MCMissionRun ----------------------------
(* Small instances of MissionRun for TLC. *)
EXTENDS MissionRun

FlightsOfLegs == <<1, 2, 2>>
=============================================================================
