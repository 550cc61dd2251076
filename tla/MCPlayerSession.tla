---------------------------- MODULE MCPlayerSession ----------------------------
(***************************************************************************)
(* The session of an account and the stat kernel of its player, in one     *)
(* run.  They meet where the player enters a map: SessionLease says which  *)
(* connection may load the row and save it, PlayerStats what is rebuilt    *)
(* from the row (Relogin).  A behaviour is about one of the two, chosen at *)
(* its start; the other one rests.                                         *)
(***************************************************************************)
EXTENDS MCSessionLease, PlayerStats

VARIABLE subject

vars == <<leaseVars, statVars, subject>>

\* The component that rests stands still in one of its initial states.
LeaseRests == LeaseInit /\ site = CHOOSE s \in Sites : TRUE
StatsRest == StatsInit /\ prog.resets = 0

Init ==
    \/ subject = "lease" /\ LeaseInit /\ StatsRest
    \/ subject = "stats" /\ StatsInit /\ LeaseRests

Next ==
    \/ subject = "lease" /\ LeaseNext /\ UNCHANGED <<statVars, subject>>
    \/ subject = "stats" /\ StatsNext /\ UNCHANGED <<leaseVars, subject>>

Spec == Init /\ [][Next]_vars

MCNextExp == <<10, 20, 10, 10>>
MCGrowth == <<0, 1, 1, 2>>
===============================================================================
