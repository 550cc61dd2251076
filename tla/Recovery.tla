------------------------------- MODULE Recovery -------------------------------
(***************************************************************************)
(* The recovery tickers of one player                                      *)
(* (zohar-gameplay/src/stats/game/recovery.rs,                             *)
(* zohar-sim/src/runtime/player/stat_tickers.rs): hit points and spell     *)
(* points come back at a rate the player's activity sets, stamina is spent *)
(* by running in combat and comes back after a rest, and a player without  *)
(* any is made to walk until it does.                                      *)
(*                                                                         *)
(* The three tickers of a player are phased by the same seed with the same *)
(* cadence and are reset together, so one clock stands for them.  Instants *)
(* are held as ages, up to the longest delay anything compares them with;  *)
(* an instant that was never set counts as that old, as it does for the    *)
(* code's comparisons.  What the client does reaches the map between ticks.*)
(***************************************************************************)
EXTENDS Integers

CONSTANTS HpFull, SpFull, StaminaFull,
          HpRate,        \* per Period, by activity: moved, rested
          SpRate,        \* per Period, by activity: fought, moved, rested
          StaminaRate,   \* STAMINA_CONSUME_PER_SECOND, per Second
          Period, Second,
          Cadence, TickSteps,\* the tickers' cadence; how long a tick of the map may take
          RestDelay,     \* RECENT_ACTIVITY_WINDOW and STOPPED_RESTORE_DELAY
          WalkDelay,     \* WALKING_RESTORE_DELAY
          CombatWindow,
          Walks          \* how long a movement segment lasts

ASSUME RecoveryAssumption ==
    /\ {HpFull, SpFull, StaminaFull, StaminaRate, Period, Second, Cadence}
          \subseteq Nat \ {0}
    /\ HpRate \in [{"moved", "rested"} -> Nat \ {0}]
    /\ SpRate \in [{"fought", "moved", "rested"} -> Nat \ {0}]
    /\ TickSteps \cup Walks \subseteq Nat \ {0}
    /\ {RestDelay, WalkDelay, CombatWindow} \subseteq Nat \ {0}
    /\ RestDelay <= CombatWindow

VARIABLES
    caster,  \* PlayerSpRecoveryProfile of the class: chosen once
    alive,   \* ActorLifeComp::can_regenerate
    res,     \* the resources: hp, sp, stamina
    rem,     \* the accumulators' remainders
    clock,   \* SimTickerClock: since last_processed_at, and until next_due_at
    motion,  \* time left of the movement; below zero, how long it is over
    since,   \* PlayerActivityComp: ages of the last attack and of the walk
    mode,    \* PlayerMovementAnimation
    pref,    \* preferred_movement_animation
    timer,   \* consuming, and whether the client was told to run its timer
    refilled \* history: a level was gained under a forced walk that still lasts

recoveryVars == <<caster, alive, res, rem, clock, motion, since, mode, pref, timer, refilled>>

Lower(a, b) == IF a <= b THEN a ELSE b
Upper(a, b) == IF a >= b THEN a ELSE b

Cap == [hp |-> HpFull, sp |-> SpFull, stamina |-> StaminaFull]
NoRemainder == [hp |-> 0, sp |-> 0, stamina |-> 0]

NeverMoved == -RestDelay
NeverActed == [attack |-> CombatWindow, walk |-> WalkDelay + 1]

\* current_player_stat_activity and what the rates make of it.
Moving == motion > 0
MovedRecently == motion > -RestDelay
FoughtRecently == since.attack < RestDelay
InCombat == since.attack < CombatWindow

(***************************************************************************)
(* Hit points and spell points.                                            *)
(***************************************************************************)
\* passive_hp_rate.
PassiveHpRate == HpRate[IF MovedRecently THEN "moved" ELSE "rested"]

\* passive_sp_rate: who is no caster also recovers slowly while hp is missing.
PassiveSpRate(hp) ==
    SpRate[IF FoughtRecently THEN "fought"
           ELSE IF MovedRecently \/ (~caster /\ hp < HpFull) THEN "moved"
           ELSE "rested"]

\* Mutant: what does not make up a whole point yet is lost.
AccrueWhole(r, rate, per, elapsed) ==
    [whole |-> (rate * elapsed) \div per, left |-> 0]

\* RateAccumulator::accrue.
Accrue(r, rate, per, elapsed) ==
    LET total == r + rate * elapsed
    IN  [whole |-> total \div per, left |-> total % per]

\* accrue_passive_hp and accrue_passive_sp: value and remainder after an elapsed time.
Passive(value, max, r, rate, elapsed) ==
    LET got == Accrue(r, rate, Period, elapsed)
    IN  IF value >= max THEN [value |-> value, left |-> 0]
        ELSE IF got.whole >= max - value THEN [value |-> max, left |-> 0]
        ELSE [value |-> value + got.whole, left |-> got.left]

\* tick_player_passive_hp_recovery, tick_player_passive_sp_recovery.
HpTick(elapsed) == Passive(res.hp, HpFull, rem.hp, PassiveHpRate, elapsed)
SpTick(hp, elapsed) == Passive(res.sp, SpFull, rem.sp, PassiveSpRate(hp), elapsed)

(***************************************************************************)
(* Stamina: value, remainder and timer after an elapsed time, the movement *)
(* mode it leaves, and whether the walk starts now.                        *)
(***************************************************************************)
\* Mutant: who runs without stamina counts as running.
AsWalkingByModeAlone == mode = "walk"

\* LegacyStaminaMoveMode: without stamina every movement is a walk.
AsWalking == mode = "walk" \/ res.stamina <= 0

\* should_consume.
RunsInCombat == InCombat /\ Moving /\ ~AsWalking

\* consume_running_stamina.
Consumed(elapsed) ==
    LET got   == Accrue(rem.stamina, StaminaRate, Second, elapsed)
        after == res.stamina - Lower(got.whole, res.stamina)
    IN  IF after <= 0
        THEN [stamina |-> 0, left |-> 0, mode |-> "walk", walks |-> TRUE,
              timer |-> [on |-> FALSE, told |-> IF timer.on THEN FALSE ELSE timer.told]]
        ELSE [stamina |-> after, left |-> got.left, mode |-> mode, walks |-> FALSE,
              timer |-> [on |-> TRUE, told |-> IF timer.on THEN timer.told ELSE TRUE]]

\* LegacyStaminaMovement::restore: after a walk or after standing long enough.
RestoreReady ==
    IF Moving THEN AsWalking /\ since.walk > WalkDelay ELSE -motion >= RestDelay

\* Mutant: the walk forced by exhaustion outlasts it.
ModeKept == mode

\* RevertToPreferred, when what is restored had run out.
ModeAfterRestore == IF res.stamina <= 0 THEN pref ELSE mode

\* tick_stamina when nothing is consumed: stop_stamina_consumption, then restore.
Rested ==
    [stamina |-> IF res.stamina < StaminaFull /\ RestoreReady THEN StaminaFull ELSE res.stamina,
     left    |-> 0,
     mode    |-> IF res.stamina < StaminaFull /\ RestoreReady THEN ModeAfterRestore ELSE mode,
     walks   |-> FALSE,
     timer   |-> [on |-> FALSE, told |-> IF timer.on THEN FALSE ELSE timer.told]]

StaminaTick(elapsed) == IF RunsInCombat THEN Consumed(elapsed) ELSE Rested

(***************************************************************************)
(* The clock.                                                              *)
(***************************************************************************)
\* advance_past: the first due instant after now.
DuePast(due) == Cadence - ((0 - due) % Cadence)

\* retry_after.
RetriedClock == [since |-> 0, due |-> Cadence]

Aged(age, d, cap) == Lower(age + d, cap)

\* Time goes on by d after the tickers have run and left clock c and a walk age w.
TimePasses(d, c, w) ==
    /\ clock' = [since |-> c.since + d, due |-> c.due - d]
    /\ motion' = Upper(motion - d, NeverMoved)
    /\ since' = [attack |-> Aged(since.attack, d, CombatWindow),
                 walk   |-> Aged(w, d, WalkDelay + 1)]

(***************************************************************************)
(* Entering the map, with the resources the row has.                       *)
(***************************************************************************)
RecoveryInit ==
    /\ caster \in BOOLEAN
    /\ alive = TRUE
    /\ res \in [hp : 1 .. HpFull, sp : 0 .. SpFull, stamina : 0 .. StaminaFull]
    /\ rem = NoRemainder
    /\ \E due \in 1 .. Cadence : clock = [since |-> 0, due |-> due]
    /\ motion = NeverMoved
    /\ since = NeverActed
    /\ mode = "run" /\ pref = "run"
    /\ timer = [on |-> FALSE, told |-> FALSE]
    /\ refilled = FALSE

(***************************************************************************)
(* A tick of the map: process_player_stat_tickers, and then d passes.      *)
(***************************************************************************)
\* pause_player_stat_tickers: the client is not told that its timer stops.
TickPaused(d) ==
    /\ ~alive
    /\ rem' = NoRemainder
    /\ timer' = [timer EXCEPT !.on = FALSE]
    /\ TimePasses(d, RetriedClock, since.walk)
    /\ UNCHANGED <<caster, alive, res, mode, pref, refilled>>

TickEarly(d) ==
    /\ alive
    /\ clock.due > 0
    /\ TimePasses(d, clock, since.walk)
    /\ UNCHANGED <<caster, alive, res, rem, mode, pref, timer, refilled>>

\* tick_passive_hp, tick_passive_sp, tick_stamina, in this order.
TickDue(d) ==
    LET elapsed == clock.since
        hp == HpTick(elapsed)
        sp == SpTick(hp.value, elapsed)
        st == StaminaTick(elapsed)
    IN  /\ alive
        /\ clock.due <= 0
        /\ res' = [hp |-> hp.value, sp |-> sp.value, stamina |-> st.stamina]
        /\ rem' = [hp |-> hp.left, sp |-> sp.left, stamina |-> st.left]
        /\ mode' = st.mode
        /\ timer' = st.timer
        /\ refilled' = (refilled /\ mode' # pref)
        /\ TimePasses(d, [since |-> 0, due |-> DuePast(clock.due)],
                      IF st.walks THEN 0 ELSE since.walk)
        /\ UNCHANGED <<caster, alive, pref>>

StatTick == \E d \in TickSteps : TickPaused(d) \/ TickEarly(d) \/ TickDue(d)

(***************************************************************************)
(* What happens between the tickers' runs.                                 *)
(***************************************************************************)
\* apply_player_motion: a movement of some length, or a stop.
Moves(length) ==
    /\ alive
    /\ motion' = length
    /\ UNCHANGED <<caster, alive, res, rem, clock, since, mode, pref, timer, refilled>>

\* apply_player_attack.
BeginsAttack ==
    /\ alive
    /\ since' = [since EXCEPT !.attack = 0]
    /\ UNCHANGED <<caster, alive, res, rem, clock, motion, mode, pref, timer, refilled>>

\* set_player_movement_animation: the client's word, with or without stamina.
Toggles(animation) ==
    /\ alive
    /\ mode' = animation /\ pref' = animation
    /\ since' = IF animation = "walk" THEN [since EXCEPT !.walk = 0] ELSE since
    /\ refilled' = FALSE
    /\ UNCHANGED <<caster, alive, res, rem, clock, motion, timer>>

\* Damage; the last of it kills.
Hurt ==
    /\ alive
    /\ res' = [res EXCEPT !.hp = @ - 1]
    /\ alive' = (res.hp > 1)
    /\ UNCHANGED <<caster, rem, clock, motion, since, mode, pref, timer, refilled>>

\* restart_player resets the animation, the activity and the tickers.
Restarts ==
    /\ ~alive
    /\ alive' = TRUE
    /\ res' = [res EXCEPT !.hp = 1]
    /\ mode' = "run" /\ pref' = "run"
    /\ motion' = NeverMoved /\ since' = NeverActed
    /\ rem' = NoRemainder /\ clock' = RetriedClock
    /\ timer' = [timer EXCEPT !.on = FALSE]
    /\ refilled' = FALSE
    /\ UNCHANGED caster

\* apply_reward_stats at a level step: every resource is filled, the mode is left.
LevelGained ==
    /\ res' = Cap
    /\ refilled' = (refilled \/ mode # pref)
    /\ UNCHANGED <<caster, alive, rem, clock, motion, since, mode, pref, timer>>

RecoveryNext ==
    \/ StatTick
    \/ \E length \in Walks \cup {0} : Moves(length)
    \/ BeginsAttack
    \/ \E animation \in {"walk", "run"} : Toggles(animation)
    \/ Hurt
    \/ Restarts
    \/ LevelGained

\* The map's fixed update keeps running.
RecoverySpec == RecoveryInit /\ [][RecoveryNext]_recoveryVars /\ WF_recoveryVars(StatTick)

(***************************************************************************)
(* Properties.                                                             *)
(***************************************************************************)
\* The state of the tickers is well-formed.
RecoveryTypeOK ==
    /\ caster \in BOOLEAN /\ alive \in BOOLEAN /\ refilled \in BOOLEAN
    /\ res \in [hp : 0 .. HpFull, sp : 0 .. SpFull, stamina : 0 .. StaminaFull]
    /\ rem \in [hp : 0 .. Period - 1, sp : 0 .. Period - 1, stamina : 0 .. Second - 1]
    /\ clock \in [since : Nat, due : Int]
    /\ motion \in Int /\ motion >= NeverMoved
    /\ since \in [attack : 0 .. CombatWindow, walk : 0 .. WalkDelay + 1]
    /\ {mode, pref} \subseteq {"walk", "run"}
    /\ timer \in [on : BOOLEAN, told : BOOLEAN]

\* A player is held to a walk only while out of stamina: the tick that
\* restores it also gives back the movement the player had chosen.  The one
\* way around is a level gained meanwhile, which fills the stamina without
\* lifting the walk.
ForcedWalkEnds == alive /\ mode # pref => res.stamina = 0 \/ refilled

\* Stamina comes back to a living player who has run out of it, in combat
\* or not, whatever mode the client insists on: it is enough to stop for good
\* or to keep going.  (Two things put it off for ever: choosing to walk again
\* and again, which starts the wait anew, and hops so short that each is over
\* when the tickers look and none is over for long.)
StaminaComesBack ==
    /\ <>[][~Toggles("walk") /\ ~Toggles("run")]_recoveryVars
    /\ \/ <>[]Moving
       \/ <>[][\A length \in Walks \cup {0} : ~Moves(length)]_recoveryVars
    => (alive /\ res.stamina = 0 ~> res.stamina > 0 \/ ~alive)

\* A player who is no longer hurt recovers fully, however low the rate and
\* however short the time between two ticks.
RecoveryCompletes ==
    <>[][~Hurt]_recoveryVars => <>[](alive => res.hp = HpFull /\ res.sp = SpFull)
================================================================================
