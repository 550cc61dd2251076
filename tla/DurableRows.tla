----------------------------- MODULE DurableRows -----------------------------
(***************************************************************************)
(* What the persistence worker promises its requesters, without lanes,     *)
(* merging, retries or tasks: each player has a row that only ever moves   *)
(* on to a snapshot admitted later, and a requester is told Ok only of a   *)
(* snapshot the row has reached (zohar-sim/src/persistence.rs is the       *)
(* interface that promises it).                                            *)
(***************************************************************************)
EXTENDS Naturals

CONSTANT Players

VARIABLES
    admitted, \* how many snapshots of each player were admitted
    stored,   \* which of them its row holds, 0 for the one it was loaded from
    acked     \* the snapshots whose requester was told Ok

rows == <<admitted, stored, acked>>

Init ==
    /\ admitted = [p \in Players |-> 0]
    /\ stored = [p \in Players |-> 0]
    /\ acked = [p \in Players |-> {}]

\* A request is admitted to the queue.
Admit(p) ==
    /\ admitted' = [admitted EXCEPT ![p] = @ + 1]
    /\ UNCHANGED <<stored, acked>>

\* The row moves on to a later snapshot; the ones in between are skipped.
Store(p) ==
    /\ \E v \in stored[p] .. admitted[p] : stored' = [stored EXCEPT ![p] = v]
    /\ UNCHANGED <<admitted, acked>>

\* A requester hears Ok.
Acknowledge(p) ==
    /\ \E v \in 1 .. stored[p] : acked' = [acked EXCEPT ![p] = @ \cup {v}]
    /\ UNCHANGED <<admitted, stored>>

Next == \E p \in Players : Admit(p) \/ Store(p) \/ Acknowledge(p)

Spec == Init /\ [][Next]_rows
==============================================================================
