------------------------- MODULE MCPersistenceLanes -------------------------
(* The instances of PersistenceLanes for TLC: one player; the theorems of   *)
(* PersistenceLanesProofs hold for every set of players.                    *)
EXTENDS PersistenceLanes

CONSTANT p1

MCPlayers == {p1}
=============================================================================
