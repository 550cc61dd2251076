------------------------------ MODULE MCActorBody ------------------------------
(***************************************************************************)
(* The life and death of a map's actors and the recovery of a player's     *)
(* body, in one run.  They meet in two places, which each module has as an *)
(* action of its own: hit points come back to the living only (Recovers,   *)
(* alive), and a restart puts the body back to its start (Restart,         *)
(* Restarts).  A behaviour is about one of the two, chosen at its start;   *)
(* the other one rests.                                                    *)
(***************************************************************************)
EXTENDS MCActorLife, Recovery

VARIABLE subject

vars == <<lifeVars, recoveryVars, subject>>

\* The component that rests stands still in one of its initial states.
LifeRests ==
    /\ LifeInit
    /\ world = CHOOSE w \in Worlds : TRUE
    /\ \A r \in Rules : rule[r].active = 0

RecoveryRests ==
    /\ caster = FALSE /\ alive = TRUE /\ res = Cap /\ rem = NoRemainder
    /\ clock = [since |-> 0, due |-> 1] /\ motion = NeverMoved /\ since = NeverActed
    /\ mode = "run" /\ pref = "run" /\ timer = [on |-> FALSE, told |-> FALSE]
    /\ refilled = FALSE

Init ==
    \/ subject = "life" /\ LifeInit /\ RecoveryRests
    \/ subject = "recovery" /\ RecoveryInit /\ LifeRests

Next ==
    \/ subject = "life" /\ LifeNext /\ UNCHANGED <<recoveryVars, subject>>
    \/ subject = "recovery" /\ RecoveryNext /\ UNCHANGED <<lifeVars, subject>>

\* The fairness of LifeFairSpec and of RecoverySpec.
Spec == Init /\ [][Next]_vars
             /\ WF_vars(subject = "life" /\ Tick /\ UNCHANGED <<recoveryVars, subject>>)
             /\ SF_vars(subject = "life" /\ ClockMoves /\ UNCHANGED <<recoveryVars, subject>>)
             /\ WF_vars(subject = "recovery" /\ StatTick /\ UNCHANGED <<lifeVars, subject>>)

MCHpRate == [moved |-> 1, rested |-> 2]
MCSpRate == [fought |-> 1, moved |-> 1, rested |-> 2]
===============================================================================
