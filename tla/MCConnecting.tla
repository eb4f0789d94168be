---------------------------- MODULE MCConnecting ----------------------------
(* TLC instances of Connecting: two boxes, the host's network and another one. *)
EXTENDS Connecting, TLC

CONSTANTS u1, u2, b1, b2, a1, a2, home, away

MCClients == {u1, u2}
MCBoxes == {b1, b2}
MCAddresses == {a1, a2}
MCNetworks == {home, away}
MCNetworkOf == [a \in MCAddresses |-> IF a = a1 THEN home ELSE away]
MCTargets == {Discover, [name |-> b1, address |-> a1]}
=============================================================================
