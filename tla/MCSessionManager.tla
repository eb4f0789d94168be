-------------------------- MODULE MCSessionManager --------------------------
(* TLC instances of SessionManager. *)
EXTENDS SessionManager, TLC

CONSTANTS c1, c2

MCClients == {c1, c2}
ClientSymmetry == Permutations(MCClients)

MCCommands == {"arm", "fire_shot"}
MCLiveCommands == {"arm"}
=============================================================================
