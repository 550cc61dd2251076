------------------------------ MODULE PlayerStats ------------------------------
(***************************************************************************)
(* One player's progression and stat kernel                                *)
(* (zohar-gameplay/src/stats/game, zohar-sim/src/runtime/player/           *)
(* progression.rs and stat_sync.rs, zohar-sim/src/runtime/rewards.rs):     *)
(* experience, levels and stat points, the stats derived from them, the    *)
(* marks and deltas through which the client learns of a change, and the   *)
(* hydration of all of it from the row a reload reads.                     *)
(*                                                                         *)
(* The same facts are held several times: the progression that is saved,   *)
(* the kernel's base stats, the computed stats, and what the client and    *)
(* its neighbours were told.  The systems of a tick update them at         *)
(* different moments; stage says which system runs next.  Vitality stands  *)
(* for the four core stats and hit points for the three resources.  No     *)
(* caller in the runtime attaches modifiers or queues recovery, so the     *)
(* computed stats are a function of the base ones.                         *)
(***************************************************************************)
EXTENDS Integers

CONSTANTS MaxLevel,     \* the level table's last level
          NextExp,      \* next_exp of each level
          StatCapLevel, \* MAX_LEVEL_STAT_POINTS_EARNING
          BaseHt, CoreStatMax,
          BaseHp, HpPerHt,
          Growth,       \* sum_growth_rolls of the player, by level
          Resets,       \* the stat_reset_count of a row
          Rewards,      \* what a kill is worth before the cap
          Wounds, Cures,
          RestartHp     \* MANUAL_RESTART_HP

ASSUME PlayerStatsAssumption ==
    /\ MaxLevel \in Nat \ {0}
    /\ NextExp \in [1 .. MaxLevel -> Nat \ {0}]
    /\ StatCapLevel \in Nat \ {0}
    /\ {BaseHt, CoreStatMax, BaseHp, HpPerHt} \subseteq Nat
    /\ BaseHp > 0 /\ BaseHt <= CoreStatMax
    /\ Growth \in [1 .. MaxLevel -> Nat]
    /\ Resets \cup Rewards \subseteq Nat
    /\ Wounds \cup Cures \subseteq Nat \ {0}
    /\ RestartHp \in Nat

VARIABLES
    prog,   \* PlayerProgressionComp: what a save captures
    stats,  \* PlayerStatsComp: the kernel and what it has pending for the client
    looks,  \* PlayerAppearanceComp: the level neighbours are shown
    shown,  \* the stats the client holds
    dead,   \* ActorLifeComp
    stage   \* the system of the tick that runs next

statVars == <<prog, stats, looks, shown, dead, stage>>

LevelSteps == 4                    \* LEVEL_STEPS_PER_LEVEL
StatPointSteps == LevelSteps - 1   \* STAT_POINT_STEPS_PER_LEVEL
DeadReconnectHp == 1

Stored == {"level", "exp", "points", "ht", "resets"}
Computed == Stored \cup {"maxHp"}
Wire == Computed \cup {"hp"}

Least(a, b) == IF a <= b THEN a ELSE b
Clamp(v, low, high) == IF v < low THEN low ELSE Least(v, high)

(***************************************************************************)
(* Experience.                                                             *)
(***************************************************************************)
LevelStep(level, exp) ==
    Least((Least(exp, NextExp[level]) * LevelSteps) \div NextExp[level], LevelSteps)

\* Mutant: the step that ends the level earns a stat point as well.
PointsForEveryStep(level, before, after) ==
    IF level < StatCapLevel /\ after > before THEN after - before ELSE 0

\* crossed_level_steps: the last step of a level is the level itself.
StatPointsCrossed(level, before, after) ==
    IF level < StatCapLevel /\ after > before
    THEN Least(after, StatPointSteps) - Least(before, StatPointSteps)
    ELSE 0

\* One turn of apply_player_exp_gain's loop: what amount r brings at e of level
\* l, given what amounts bring at the start of the next level.
GainAt(l, e, r, next) ==
    LET missing == NextExp[l] - Least(e, NextExp[l])
        before  == LevelStep(l, e)
        Crossing(after, rest, applied) ==
            [rest EXCEPT !.points  = @ + StatPointsCrossed(l, before, after),
                         !.steps   = @ + (after - before),
                         !.applied = @ + applied]
        Unmoved(exp) == [level |-> l, exp |-> exp, points |-> 0, steps |-> 0, applied |-> 0]
    IN  IF r = 0 \/ l = MaxLevel THEN Unmoved(e)
        ELSE IF missing = 0 THEN next[r]
        ELSE IF r >= missing THEN Crossing(LevelSteps, next[r - missing], missing)
        ELSE Crossing(LevelStep(l, e + r), Unmoved(e + r), r)

\* apply_player_exp_gain, by level, experience and amount.
ExpGain[l \in 1 .. MaxLevel] ==
    [e \in Nat |-> [r \in Nat |-> GainAt(l, e, r, ExpGain[l + 1][0])]]

\* legacy_mob_exp_reward: a kill brings at most a tenth of the level.
MobExpReward(level, adjusted) == Least(adjusted, NextExp[level] \div 10)

\* derive_available_stat_points: what a reload makes of the saved progression.
EarnedPoints(level, exp) ==
    (Clamp(level, 1, StatCapLevel) - 1) * StatPointSteps
      + IF level < StatCapLevel THEN Clamp(LevelStep(level, exp), 0, StatPointSteps) ELSE 0

AvailablePoints(p) ==
    LET earned == EarnedPoints(p.level, p.exp)
    IN  IF earned > p.alloc THEN earned - p.alloc ELSE 0

(***************************************************************************)
(* The kernel.                                                             *)
(***************************************************************************)
\* sum_growth_rolls: the rolls are a function of the player and the level.
GrowthAt(level) == Growth[level]

\* set_player_resource_capacity for hit points; no bonus is attached.
HpCapacity(level, ht) == BaseHp + GrowthAt(level) + ht * HpPerHt

\* rebuild_player_state.
Rebuilt(base) ==
    [s \in Computed |-> IF s = "maxHp" THEN HpCapacity(base.level, base.ht)
                        ELSE base[s]]

\* read_stat_value with the wire's view.
ReadPacket(k, s) ==
    CASE s = "hp" -> k.hp
      [] s \in {"level", "exp"} -> k.base[s]
      [] OTHER -> k.comp[s]

Touched(k, s) == [k EXCEPT !.explicit = @ \cup {s}, !.dirty = TRUE]

SetStored(k, s, v) ==
    IF k.base[s] = v THEN k ELSE [Touched(k, s) EXCEPT !.base[s] = v]

SetResource(k, v) == IF k.hp = v THEN k ELSE [Touched(k, "hp") EXCEPT !.hp = v]

\* set_player_progression.
SetProgression(k, level, exp) == SetStored(SetStored(k, "level", level), "exp", exp)

\* recompute_report: the stats whose value may have moved.
Changes(k) ==
    LET comp == Rebuilt(k.base)
    IN  k.explicit
          \cup {s \in Computed : comp[s] # k.comp[s]}
          \cup IF Clamp(k.hp, 0, comp.maxHp) # k.hp THEN {"hp"} ELSE {}

\* recompute_report's effect on the actor: new computed stats, resources within
\* their caps, nothing dirty.
Recomputed(k) ==
    LET comp == Rebuilt(k.base)
    IN  [k EXCEPT !.comp = comp, !.hp = Clamp(@, 0, comp.maxHp),
                  !.explicit = {}, !.dirty = FALSE]

\* ActorStatsRuntime::normalize: recompute and merge the deltas into what is pending.
Normalized(k) ==
    IF ~k.dirty THEN k
    ELSE LET new  == Recomputed(k)
             all  == DOMAIN k.pending \cup Changes(k)
         IN  [new EXCEPT
                !.pending = [s \in all |-> IF s \in Changes(k) THEN ReadPacket(new, s)
                                                               ELSE k.pending[s]],
                !.public  = IF "level" \in Changes(k) THEN <<new.base.level>> ELSE @]

\* The appearance after the public state of a normalize has been applied to it.
LooksAfter(k) == IF k.dirty /\ "level" \in Changes(k) THEN k.base.level ELSE looks

\* StatSnapshot: every stat, as the wire has it.
Snapshot(k) == [s \in Wire |-> ReadPacket(k, s)]

NothingPending == [s \in {} |-> 0]

\* hydrate_player, from a saved progression and the hit points saved with it.
Hydrated(p, hp) ==
    LET base == [level |-> p.level, exp |-> p.exp, points |-> AvailablePoints(p),
                 ht |-> BaseHt + p.alloc, resets |-> p.resets]
        comp == Rebuilt(base)
    IN  [base |-> base, comp |-> comp, hp |-> Clamp(hp, 0, comp.maxHp),
         explicit |-> {}, dirty |-> FALSE, pending |-> NothingPending, public |-> <<>>]

(***************************************************************************)
(* A new character's row, entered for the first time.                      *)
(***************************************************************************)
StatsInit ==
    /\ \E resets \in Resets :
          prog = [level |-> 1, exp |-> 0, alloc |-> 0, resets |-> resets]
    /\ stats = Hydrated(prog, HpCapacity(prog.level, BaseHt))
    /\ looks = prog.level
    /\ shown = Snapshot(stats)
    /\ dead = FALSE
    /\ stage = "sense"

\* prepare_loading_stats and handle_player_enter: both hydrate the row the leave has saved.
Relogin ==
    /\ stage = "sense"
    /\ stats' = Hydrated(prog, IF stats.hp <= 0 THEN DeadReconnectHp ELSE stats.hp)
    /\ looks' = prog.level
    /\ shown' = Snapshot(stats')
    /\ dead' = FALSE
    /\ UNCHANGED <<prog, stage>>

\* validate_core_stat_intent: delta moves one point between ht and the free ones.
CoreStatAllowed(delta) ==
    /\ \/ delta = 1 /\ prog.resets >= 0 /\ ReadPacket(stats, "points") > 0
       \/ delta = -1 /\ prog.resets > 0 /\ prog.alloc > 0
    /\ BaseHt + prog.alloc + delta \in 0 .. CoreStatMax

\* apply_stat_kernel_update, before it normalizes.
KernelUpdate(k, delta) ==
    LET resets == IF delta = -1 THEN prog.resets - 1 ELSE prog.resets
        points == ReadPacket(k, "points") - delta
    IN  SetStored(SetStored(SetStored(k, "ht", BaseHt + prog.alloc + delta),
                            "points", points), "resets", resets)

\* enqueue_progression_intent: the flush has been queued; one intent at most in a tick.
CoreStat(delta) ==
    /\ stage = "sense"
    /\ CoreStatAllowed(delta)
    /\ LET k == KernelUpdate(stats, delta)
       IN  /\ stats' = Normalized(k)
           /\ looks' = LooksAfter(k)
    /\ prog' = [prog EXCEPT !.alloc = @ + delta,
                            !.resets = IF delta = -1 THEN @ - 1 ELSE @]
    /\ stage' = "normalize"
    /\ UNCHANGED <<shown, dead>>

\* normalize_player_stats_for_gameplay.
NormalizeStats ==
    /\ stage \in {"sense", "normalize"}
    /\ stats' = Normalized(stats)
    /\ looks' = LooksAfter(stats)
    /\ stage' = "act"
    /\ UNCHANGED <<prog, shown, dead>>

\* ResourceApplication::damage: the floor is below zero until the next normalize.
Damaged(n) ==
    /\ stage = "act"
    /\ ~dead
    /\ stats.hp > 0
    /\ stats' = SetResource(stats, stats.hp - n)
    /\ UNCHANGED <<prog, looks, shown, dead, stage>>

\* The end of the act and lifecycle systems: a depleted player dies.
LifeEvents ==
    /\ stage = "act"
    /\ dead' = (dead \/ stats.hp <= 0)
    /\ stage' = "restart"
    /\ UNCHANGED <<prog, stats, looks, shown>>

\* restart_player: a fixed amount by hand, half the maximum when forced.
Restarted(hp) ==
    /\ stage = "restart"
    /\ dead
    /\ stats' = SetResource(stats, Clamp(hp, 0, stats.comp.maxHp))
    /\ dead' = FALSE
    /\ stage' = "reward"
    /\ UNCHANGED <<prog, looks, shown>>

NoRestart ==
    /\ stage = "restart"
    /\ stage' = "reward"
    /\ UNCHANGED <<prog, stats, looks, shown, dead>>

\* Mutant: the new maximum is computed without telling the client of it.
RewardedQuietly(k, gain) ==
    LET points == ReadPacket(k, "points")
        moved  == SetProgression(k, gain.level, gain.exp)
        paid   == IF gain.points > 0
                  THEN SetStored(moved, "points", points + gain.points) ELSE moved
        known  == [Normalized(paid) EXCEPT !.pending = paid.pending, !.public = paid.public]
    IN  IF gain.steps > 0 THEN SetResource(known, known.comp.maxHp) ELSE paid

\* apply_reward_stats: a step gained refills the resources to their new maximum.
RewardedStats(k, gain) ==
    LET points == ReadPacket(k, "points")
        moved  == SetProgression(k, gain.level, gain.exp)
        paid   == IF gain.points > 0
                  THEN SetStored(moved, "points", points + gain.points) ELSE moved
        known  == Normalized(paid)
    IN  IF gain.steps > 0 THEN SetResource(known, known.comp.maxHp) ELSE paid

\* apply_player_exp_reward.  The appearance takes the public state of the
\* second normalize only; what the first one found stays pending.
Reward(adjusted) ==
    LET amount == MobExpReward(prog.level, adjusted)
        gain   == ExpGain[prog.level][prog.exp][amount]
        k      == RewardedStats(stats, gain)
    IN  /\ stage = "reward"
        /\ amount > 0 /\ gain.applied > 0
        /\ prog' = [prog EXCEPT !.level = gain.level, !.exp = gain.exp]
        /\ stats' = Normalized(k)
        /\ looks' = LooksAfter(k)
        /\ UNCHANGED <<shown, dead, stage>>

EndRewards ==
    /\ stage = "reward"
    /\ stage' = "resources"
    /\ UNCHANGED <<prog, stats, looks, shown, dead>>

\* A stat ticker's ResourceApplication::restore.
Restored(n) ==
    /\ stage = "resources"
    /\ ~dead
    /\ stats' = SetResource(stats, Clamp(stats.hp + n, 0, stats.comp.maxHp))
    /\ stage' = "flush"
    /\ UNCHANGED <<prog, looks, shown, dead>>

\* flush_player_stats_sync: drain_sync normalizes and takes what is pending.
FlushStats ==
    /\ stage \in {"resources", "flush"}
    /\ LET k == Normalized(stats)
       IN  /\ stats' = [k EXCEPT !.pending = NothingPending, !.public = <<>>]
           /\ looks' = IF k.public = <<>> THEN looks ELSE k.public[1]
           /\ shown' = [s \in Wire |-> IF s \in DOMAIN k.pending THEN k.pending[s] ELSE shown[s]]
    /\ stage' = "sense"
    /\ UNCHANGED <<prog, dead>>

StatsNext ==
    \/ Relogin
    \/ \E delta \in {-1, 1} : CoreStat(delta)
    \/ NormalizeStats
    \/ \E n \in Wounds : Damaged(n)
    \/ LifeEvents
    \/ \E hp \in {RestartHp, stats.comp.maxHp \div 2} : Restarted(hp)
    \/ NoRestart
    \/ \E adjusted \in Rewards : Reward(adjusted)
    \/ EndRewards
    \/ \E n \in Cures : Restored(n)
    \/ FlushStats

StatsSpec == StatsInit /\ [][StatsNext]_statVars

(***************************************************************************)
(* Properties.                                                             *)
(***************************************************************************)
\* The state of the kernel is well-formed.
StatsTypeOK ==
    /\ prog \in [level : 1 .. MaxLevel, exp : Nat, alloc : Nat, resets : Nat]
    /\ stats.base \in [Stored -> Int]
    /\ stats.comp \in [Computed -> Int]
    /\ stats.hp \in Int
    /\ stats.explicit \subseteq Wire
    /\ stats.dirty \in BOOLEAN
    /\ DOMAIN stats.pending \subseteq Wire
    /\ stats.public \in {<<>>} \cup {<<level>> : level \in 1 .. MaxLevel}
    /\ looks \in 1 .. MaxLevel
    /\ shown \in [Wire -> Int]
    /\ dead \in BOOLEAN
    /\ stage \in {"sense", "normalize", "act", "restart", "reward", "resources", "flush"}

\* A player who logs out and in again finds what was left: whenever the
\* kernel is clean, hydrating the progression that is saved gives the stats,
\* the free stat points above all, that the running player has.  The points
\* are not saved: they are counted step by step as experience comes in
\* (crossed_level_steps) and derived again at every load
\* (derive_available_stat_points), and the two counts have to agree across
\* level-ups, the level where earning stops, spending and resets.
ReloadIsNeutral ==
    ~stats.dirty =>
        LET again == Hydrated(prog, stats.hp)
        IN  /\ again.base = stats.base
            /\ again.comp = stats.comp
            /\ again.hp = stats.hp

\* When a tick's flush is done the client holds every stat as it is and the
\* neighbours see the level: no change is lost between the several
\* recomputations of a tick, of which only the pending deltas survive.
SyncIsComplete ==
    stage = "sense" =>
        /\ shown = Snapshot(stats)
        /\ looks = prog.level
================================================================================
