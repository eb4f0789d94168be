-------------------------- MODULE MCSkytrakSession --------------------------
(* TLC instances of SkytrakSession. *)
EXTENDS SkytrakSession

MCCommands == {"chipping", "chip_via_normal"}
MCLiveCommands == {"arm", "disarm", "left", "fire_shot", "disconnect"}
MCReadyCommands == {"arm", "disarm", "left", "chipping", "chip_via_normal", "disconnect"}
=============================================================================
