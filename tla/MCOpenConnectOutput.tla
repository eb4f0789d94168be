------------------------ MODULE MCOpenConnectOutput ------------------------
(* TLC instances of OpenConnectOutput. *)
EXTENDS OpenConnectOutput

MCChipChoices ==
    {[lobWedge |-> TRUE, threshold |-> 0], [lobWedge |-> FALSE, threshold |-> 2]}

\* A putt, a lob wedge that may chip but for the distance, and a player of whom only
\* the hand is known.
MCPlayerInfos ==
    {[hand |-> "right", club |-> "PT", distance |-> 2],
     [hand |-> Unknown, club |-> "LW", distance |-> 3],
     [hand |-> "left", club |-> Unknown, distance |-> None]}
=============================================================================
