---------------------------- MODULE MCActorLife ----------------------------
(* Small worlds for ActorLife.                                             *)
EXTENDS ActorLife

CONSTANTS p1, p2

(* Two players and one mob; one player and two mobs of one rule; one       *)
(* player and a group of two that share a slot.                            *)
MCWorlds == {[players |-> {p1, p2}, max_count |-> 1, members |-> 1, shots |-> 0],
             [players |-> {p1}, max_count |-> 2, members |-> 1, shots |-> 1],
             [players |-> {p1}, max_count |-> 1, members |-> 2, shots |-> 0]}

=============================================================================
