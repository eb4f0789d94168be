--------------------------- MODULE MCPersistence ---------------------------
(* TLC instances of Persistence. *)
EXTENDS Persistence, TLC

CONSTANTS c1, c2, r1, r2, r3, f1, f2, f3, f4

MCClients == {c1, c2}
MCChanges == {r1, r2, r3}
MCFiles == {f1, f2, f3, f4}
PersistenceSymmetry ==
    Permutations(MCClients) \cup Permutations(MCChanges) \cup Permutations(MCFiles)
=============================================================================
