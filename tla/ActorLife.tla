------------------------------ MODULE ActorLife ------------------------------
(***************************************************************************)
(* The life and death of the actors of one map: players who enter and      *)
(* leave, mobs that spawn rules place and replace, the attacks between     *)
(* them (zohar-sim/src/runtime: combat.rs, life.rs, rewards.rs,            *)
(* cleanup.rs, player/restart.rs, mob/spawn.rs).                           *)
(*                                                                         *)
(* The map thread drains its inbound queue and then runs fixed ticks. A    *)
(* tick is a chain of systems; `stage` names the system that runs next, so *)
(* every system is an action and only the stage "inbound" leaves a choice  *)
(* between actors. What the systems read from the outside of this module   *)
(* (commands of the players, decisions of the mob AI, dice, positions) is  *)
(* a nondeterministic choice.                                              *)
(*                                                                         *)
(* Time is relative. `age` counts from the entry into the current phase of *)
(* life, the other clocks count down; one tick takes a time of Steps,      *)
(* since the code samples the wall clock once a tick. Hit points keep the  *)
(* one distinction the code makes: 0 stands for every value <= 0.          *)
(***************************************************************************)
EXTENDS Integers, FiniteSets, Sequences

CONSTANTS
    Worlds,         \* who may visit the map, what its spawn rules say, and a
                    \* bound on the attacks under way at a time:
                    \* [players, max_count, members (of a template), shots]
    Rules,          \* indices of the spawn rules, numbers
    Ids,            \* names for entities, numbers; see Unused
    None,
    MaxHp,          \* hit points of an actor at full health
    RestartHp,      \* MANUAL_RESTART_HP and DEAD_RECONNECT_HP
    Damages,        \* outcomes of a hit
    Steps,          \* how far the clock moves from one tick to the next
    DyingDelay,     \* DYING_TO_DEAD_DELAY
    TownDelay,      \* PLAYER_RESTART_TOWN_DELAY
    HereDelay,      \* PLAYER_RESTART_HERE_DELAY
    ForcedDelay,    \* PLAYER_FORCED_RESPAWN_DELAY
    CorpseDelay,    \* MOB_CORPSE_MIN_DELAY
    CorpseJitter,   \* MOB_CORPSE_JITTER_MS
    RegenTime,      \* regen_time of a rule
    Delays,         \* delays of damage and of projectiles
    MaxHits         \* bound: attacks that players, and mobs, start in a tick

ASSUME ActorLifeAssumption ==
    /\ Rules \subseteq Nat /\ Ids \subseteq Nat /\ IsFiniteSet(Ids) /\ None \notin Int
    /\ MaxHp \in Nat /\ MaxHp >= 2
    /\ RestartHp \in 1..MaxHp
    /\ Damages \subseteq Nat /\ Steps \subseteq Nat
    /\ {DyingDelay, TownDelay, CorpseDelay, CorpseJitter, RegenTime}
          \subseteq Nat \ {0}
    /\ \A w \in Worlds : {w.max_count, w.members} \subseteq Nat \ {0} /\ w.shots \in Nat
    /\ HereDelay \in Nat /\ HereDelay >= TownDelay
    /\ ForcedDelay \in Nat /\ ForcedDelay >= HereDelay
    /\ Delays \subseteq Nat
    /\ MaxHits \in Nat

VARIABLES
    world,      \* the one of Worlds at hand; it never changes
    stage,      \* the system that runs next
    ent,        \* the entities
    cmds,       \* AttackCommandBuffer
    delayed,    \* DelayedAttackCommandBuffer
    depleted,   \* FrameFacts.combat.hp_depleted
    finalized,  \* FrameFacts.life.death_finalized
    cleanup,    \* FrameFacts.life.cleanup_due
    rule,       \* MapSpawnRules.rules
    heap        \* MapSpawnRules.scheduled_spawns

facts == <<depleted, finalized, cleanup>>
spawns == <<rule, heap>>
lifeVars == <<world, stage, ent, cmds, delayed, depleted, finalized, cleanup, rule, heap>>

----------------------------------------------------------------------------
(* Entities. `slayer` is a history variable: who took a mob's last hit     *)
(* point.                                                                  *)

Nobody == [kind |-> "none", of |-> None, phase |-> "Alive", age |-> 0,
           hp |-> 0, claim |-> None, slayer |-> None]
PlayerBody(p, hp) == [Nobody EXCEPT !.kind = "player", !.of = p, !.hp = hp]
MobBody(r) == [Nobody EXCEPT !.kind = "mob", !.of = r, !.hp = MaxHp]

Exists(e) == ent[e].kind # "none"
IsPlayer(e) == ent[e].kind = "player"
IsMob(e) == ent[e].kind = "mob"
IsAlive(e) == ent[e].phase = "Alive"
IsDying(e) == ent[e].phase = "Dying"
IsDead(e) == ent[e].phase = "Dead"
Visitors == UNION {w.players : w \in Worlds}
BodiesOf(p) == {e \in Ids : IsPlayer(e) /\ ent[e].of = p}

(* An Entity carries a generation, so no reference to a despawned entity    *)
(* ever resolves to a later one. A name that nothing refers to can be given *)
(* out again.                                                               *)
Referenced ==
    UNION {{cmds[i].by, cmds[i].on} : i \in DOMAIN cmds}
    \cup UNION {{delayed[i].by, delayed[i].on} : i \in DOMAIN delayed}
    \cup UNION {{ent[e].claim, ent[e].slayer} : e \in Ids}
Unused == {e \in Ids : ~Exists(e)} \ Referenced
Fresh(n) == {e \in Unused : Cardinality({f \in Unused : f < e}) < n}

----------------------------------------------------------------------------
(* The order of the systems of a tick.                                     *)

\* Mutant: rewards are granted before the deaths of the tick are final.
SystemOrderRewardsFirst ==
    <<"inbound", "spawn", "actions", "think", "release", "attack", "life",
      "claims", "rewards", "lifecycle", "restarts", "cleanup", "resources">>

SystemOrder ==
    <<"inbound", "spawn", "actions", "think", "release", "attack", "life",
      "claims", "lifecycle", "restarts", "rewards", "cleanup", "resources">>
Follower ==
    [s \in {SystemOrder[i] : i \in DOMAIN SystemOrder} |->
        LET i == CHOOSE i \in DOMAIN SystemOrder : SystemOrder[i] = s
        IN  SystemOrder[(i % Len(SystemOrder)) + 1]]
Pass == stage' = Follower[stage]

SeqUpTo(S, n) == UNION {[1..k -> S] : k \in 0..n}
AtMost(a, b) == IF a < b THEN a ELSE b
AtLeast0(a) == IF a < 0 THEN 0 ELSE a
LastAge == ForcedDelay + CorpseDelay + CorpseJitter + DyingDelay

----------------------------------------------------------------------------
(* Inbound messages.                                                       *)

\* Mutant: the row is taken as it is.
LoadedHpAsSaved(saved) == saved

(* Nobody is loaded dead: the phase of life is not saved, and a row with   *)
(* no hit points left is given some.                                       *)
LoadedHp(saved) == IF saved <= 0 THEN RestartHp ELSE saved

HandlePlayerEnter(p, saved) ==
    /\ stage = "inbound"
    /\ \E e \in Fresh(1) :
          ent' = [f \in Ids |-> IF f = e THEN PlayerBody(p, LoadedHp(saved))
                                ELSE IF f \in BodiesOf(p) THEN Nobody
                                ELSE ent[f]]
    /\ UNCHANGED <<world, stage, cmds, delayed, facts, spawns>>

HandlePlayerLeave(p) ==
    /\ stage = "inbound"
    /\ BodiesOf(p) # {}
    /\ ent' = [f \in Ids |-> IF f \in BodiesOf(p) THEN Nobody ELSE ent[f]]
    /\ UNCHANGED <<world, stage, cmds, delayed, facts, spawns>>

AdvanceSimTime(dt) ==
    /\ stage = "inbound"
    /\ ent' = [e \in Ids |-> IF ent[e].phase = "Alive" THEN ent[e]
                 ELSE [ent[e] EXCEPT !.age = AtMost(@ + dt, LastAge)]]
    /\ delayed' = [i \in DOMAIN delayed |-> [delayed[i] EXCEPT !.due = @ - dt]]
    /\ rule' = [r \in Rules |-> IF rule[r].respawn = None THEN rule[r]
                  ELSE [rule[r] EXCEPT !.respawn = @ - dt]]
    /\ heap' = {<<h[1] - dt, h[2]>> : h \in heap}
    /\ Pass
    /\ UNCHANGED <<world, cmds, facts>>

----------------------------------------------------------------------------
(* Spawn rules. A template is a group: the loop ends with the first        *)
(* template whose first member finds no place, later members that find     *)
(* none are left out: of so many groups, `size' mobs are placed.           *)

Place(bodies, new, r) == [e \in Ids |-> IF e \in new THEN MobBody(r) ELSE bodies[e]]
Placed(state, new, n) == [state EXCEPT !.members = @ \cup new, !.active = @ + n]

Due == {h \in heap : h[1] <= 0}
NextDue(h) ==
    /\ h \in Due
    /\ \A g \in Due : h[1] < g[1] \/ (h[1] = g[1] /\ h[2] <= g[2])

(* An entry of the heap counts only while the rule still waits for it; a   *)
(* full rule stops waiting. The heap is a set here: of two equal entries    *)
(* the second no longer counts once the first was handled.                 *)
SpawnSkips(h) ==
    /\ stage = "spawn" /\ NextDue(h)
    /\ LET r == h[2]
           awaited == rule[r].respawn = h[1]
           full == rule[r].active >= world.max_count
       IN  /\ awaited => full
           /\ rule' = IF awaited THEN [rule EXCEPT ![r].respawn = None] ELSE rule
    /\ heap' = heap \ {h}
    /\ UNCHANGED <<world, stage, ent, cmds, delayed, facts>>

\* Mutant: a rule that found no place for all of its groups is not retried.
SpawnFillsOnce(h, groups, size) ==
    /\ stage = "spawn" /\ NextDue(h)
    /\ LET r == h[2]
           new == Fresh(size)
           filled == Placed(rule[r], new, groups)
       IN  /\ rule[r].respawn = h[1]
           /\ rule[r].active < world.max_count
           /\ groups <= world.max_count - rule[r].active
           /\ Cardinality(new) = size
           /\ ent' = Place(ent, new, r)
           /\ rule' = [rule EXCEPT ![r] = [filled EXCEPT !.respawn = None]]
           /\ heap' = heap \ {h}
    /\ UNCHANGED <<world, stage, cmds, delayed, facts>>

SpawnFills(h, groups, size) ==
    /\ stage = "spawn" /\ NextDue(h)
    /\ LET r == h[2]
           new == Fresh(size)
           filled == Placed(rule[r], new, groups)
       IN  /\ rule[r].respawn = h[1]
           /\ rule[r].active < world.max_count
           /\ groups <= world.max_count - rule[r].active
           /\ Cardinality(new) = size
           /\ ent' = Place(ent, new, r)
           /\ IF filled.active < world.max_count
              THEN /\ rule' = [rule EXCEPT ![r] = [filled EXCEPT !.respawn = 1]]
                   /\ heap' = (heap \ {h}) \cup {<<1, r>>}
              ELSE /\ rule' = [rule EXCEPT ![r] = [filled EXCEPT !.respawn = None]]
                   /\ heap' = heap \ {h}
    /\ UNCHANGED <<world, stage, cmds, delayed, facts>>

SpawnRulesDone ==
    /\ stage = "spawn" /\ Due = {}
    /\ Pass
    /\ UNCHANGED <<world, ent, cmds, delayed, facts, spawns>>

----------------------------------------------------------------------------
(* Attacks. Players strike whatever is in reach and not dead, other        *)
(* players too; mobs strike players, at once or after a delay, which for a *)
(* projectile is followed by its flight.                                   *)

Attacks == [by : {e \in Ids : Exists(e) /\ IsAlive(e)},
            on : {e \in Ids : Exists(e) /\ ~IsDead(e)}]
PlayerAttacks == {a \in Attacks : IsPlayer(a.by) /\ a.by # a.on}
MobAttacks == {a \in Attacks : IsMob(a.by) /\ IsPlayer(a.on)}
MobShots == {[by |-> a.by, on |-> a.on, due |-> d, flies |-> b] :
               a \in MobAttacks, d \in Delays, b \in BOOLEAN}

ProcessPlayerActions(attacks) ==
    /\ stage = "actions"
    /\ cmds' = cmds \o attacks
    /\ Pass
    /\ UNCHANGED <<world, ent, delayed, facts, spawns>>

(* The AI plans and process_actions applies; nothing of this module        *)
(* changes in between. A mob that decided to strike winds up, so it        *)
(* strikes at most once a tick.                                            *)
ProcessMobAi(at_once, later) ==
    /\ stage = "think"
    /\ \A i, j \in DOMAIN at_once : at_once[i].by = at_once[j].by => i = j
    /\ later # None => /\ Len(delayed) < world.shots
                       /\ \A i \in DOMAIN at_once : at_once[i].by # later.by
    /\ cmds' = cmds \o at_once
    /\ delayed' = IF later = None THEN delayed ELSE Append(delayed, later)
    /\ Pass
    /\ UNCHANGED <<world, ent, facts, spawns>>

BothExist(c) == Exists(c.by) /\ Exists(c.on)
Strike(c) == [by |-> c.by, on |-> c.on]
Without(s, i) == SubSeq(s, 1, i - 1) \o SubSeq(s, i + 1, Len(s))
FirstDue(i) ==
    /\ i \in DOMAIN delayed /\ delayed[i].due <= 0
    /\ \A j \in DOMAIN delayed : delayed[j].due <= 0 => i <= j

(* A delayed attack is enqueued, or dropped with one of its actors. A      *)
(* projectile is released from where both stand now.                       *)
ReleaseDueAttack(i, flight) ==
    /\ stage = "release" /\ FirstDue(i)
    /\ LET c == delayed[i]
           impact == IF c.flies THEN c.due + flight ELSE c.due
           rest == Without(delayed, i)
       IN  /\ cmds' = IF BothExist(c) /\ impact <= 0
                      THEN Append(cmds, Strike(c)) ELSE cmds
           /\ delayed' = IF BothExist(c) /\ impact > 0
                         THEN Append(rest, [c EXCEPT !.due = impact, !.flies = FALSE])
                         ELSE rest
    /\ UNCHANGED <<world, stage, ent, facts, spawns>>

ReleaseDone ==
    /\ stage = "release"
    /\ \A i \in DOMAIN delayed : delayed[i].due > 0
    /\ Pass
    /\ UNCHANGED <<world, ent, cmds, delayed, facts, spawns>>

Damaged(hp, damage) == AtLeast0(hp - damage)

\* Mutant: every hit on an actor without hit points kills it again.
KilledAgain(previous, current) == current <= 0

Killed(previous, current) == previous > 0 /\ current <= 0
DeathPhase(body) == [body EXCEPT !.phase = "Dead", !.age = 0]

Finalizes(c) == BothExist(c) /\ IsAlive(c.by) /\ IsDying(c.on)
Lands(c) == BothExist(c) /\ IsAlive(c.by) /\ IsAlive(c.on)

(* The next command of the buffer: it ends a dying victim, hits a living   *)
(* one, or is dropped.                                                     *)
AttackFinalizes ==
    /\ stage = "attack" /\ cmds # <<>>
    /\ LET c == Head(cmds) IN
          /\ Finalizes(c)
          /\ ent' = [ent EXCEPT ![c.on] = DeathPhase(@)]
          /\ finalized' = Append(finalized, c.on)
    /\ cmds' = Tail(cmds)
    /\ UNCHANGED <<world, stage, delayed, depleted, cleanup, spawns>>

AttackHits(damage) ==
    /\ stage = "attack" /\ cmds # <<>>
    /\ LET c == Head(cmds)
           before == ent[c.on].hp
           after == Damaged(before, damage)
       IN  /\ Lands(c)
           /\ ent' = [ent EXCEPT ![c.on].hp = after,
                                 ![c.on].slayer = IF IsMob(c.on) /\ before > 0 /\ after <= 0
                                                  THEN c.by ELSE @]
           /\ depleted' = IF Killed(before, after)
                          THEN Append(depleted, [victim |-> c.on, killer |-> c.by])
                          ELSE depleted
    /\ cmds' = Tail(cmds)
    /\ UNCHANGED <<world, stage, delayed, finalized, cleanup, spawns>>

AttackIsDropped ==
    /\ stage = "attack" /\ cmds # <<>>
    /\ ~Finalizes(Head(cmds)) /\ ~Lands(Head(cmds))
    /\ cmds' = Tail(cmds)
    /\ UNCHANGED <<world, stage, ent, delayed, facts, spawns>>

AttacksDone ==
    /\ stage = "attack" /\ cmds = <<>>
    /\ Pass
    /\ UNCHANGED <<world, ent, cmds, delayed, facts, spawns>>

----------------------------------------------------------------------------
(* The life cycle.                                                         *)

Victims == {depleted[i].victim : i \in DOMAIN depleted}

BeginDying(body) == [body EXCEPT !.phase = "Dying", !.age = 0]

ProcessLifeEvents ==
    /\ stage = "life"
    /\ ent' = [e \in Ids |-> IF e \in Victims /\ Exists(e) /\ IsAlive(e)
                             THEN BeginDying(ent[e]) ELSE ent[e]]
    /\ Pass
    /\ UNCHANGED <<world, cmds, delayed, facts, spawns>>

(* A claim to the reward of a mob, of the player who took its last hit     *)
(* point. Where a mob is named twice the later claim replaces the earlier. *)
(* Every mob here is worth experience; one that is not is never claimed.   *)
Claimants(e) == {i \in DOMAIN depleted : /\ depleted[i].victim = e
                                         /\ IsPlayer(depleted[i].killer)}
RecordMobDeathRewardClaims ==
    /\ stage = "claims"
    /\ ent' = [e \in Ids |->
                 IF IsMob(e) /\ Claimants(e) # {}
                 THEN [ent[e] EXCEPT !.claim =
                         depleted[CHOOSE i \in Claimants(e) :
                                    \A j \in Claimants(e) : j <= i].killer]
                 ELSE ent[e]]
    /\ Pass
    /\ UNCHANGED <<world, cmds, delayed, facts, spawns>>

NewlyDead == {e \in Ids : Exists(e) /\ IsDying(e) /\ ent[e].age >= DyingDelay}
CleanupDue == {e \in Ids : IsMob(e) /\ IsDead(e)
                  /\ ent[e].age >= CorpseDelay + (e % CorpseJitter)}

ProcessActorLifecycle ==
    /\ stage = "lifecycle"
    /\ \E order \in [1..Cardinality(NewlyDead) -> NewlyDead] :
          /\ \A i, j \in DOMAIN order : i < j => order[i] < order[j]
          /\ finalized' = finalized \o order
    /\ ent' = [e \in Ids |-> IF e \in NewlyDead THEN DeathPhase(ent[e]) ELSE ent[e]]
    /\ cleanup' = CleanupDue
    /\ Pass
    /\ UNCHANGED <<world, cmds, delayed, depleted, spawns>>

(* asked[e] is the last intent of the player's queue, the one that counts. *)
(* Of a player who is not dead it only closes a window. Whoever has not    *)
(* asked in time is sent to town with half of the hit points.              *)
RestartAllowed(e, intent) ==
    /\ IsDead(e)
    /\ \/ intent = "here" /\ ent[e].age >= HereDelay
       \/ intent = "town" /\ ent[e].age >= TownDelay

\* Mutant: the forced respawn looks at the clock of the dying.
ForcedRespawnDueDying(e) == IsDying(e) /\ ent[e].age >= ForcedDelay

ForcedRespawnDue(e) == IsDead(e) /\ ent[e].age >= ForcedDelay
Restart(body, hp) == [body EXCEPT !.phase = "Alive", !.age = 0, !.hp = hp]

ProcessPlayerRestarts(asked) ==
    /\ stage = "restarts"
    /\ ent' = [e \in Ids |->
                 IF ~IsPlayer(e) THEN ent[e]
                 ELSE IF RestartAllowed(e, asked[e]) THEN Restart(ent[e], RestartHp)
                 ELSE IF ForcedRespawnDue(e) THEN Restart(ent[e], MaxHp \div 2)
                 ELSE ent[e]]
    /\ Pass
    /\ UNCHANGED <<world, cmds, delayed, facts, spawns>>

(* A claim is settled when the death of its mob is final: with the         *)
(* killer's experience if the killer is still there, and a level gained    *)
(* refills the hit points whatever the killer's own phase of life is.      *)
Settled == {e \in Ids : /\ \E i \in DOMAIN finalized : finalized[i] = e
                        /\ Exists(e) /\ ent[e].claim # None}
Rewarded == {ent[e].claim : e \in Settled} \cap {e \in Ids : IsPlayer(e)}

GrantMobDeathRewards(levelled) ==
    /\ stage = "rewards"
    /\ levelled \subseteq Rewarded
    /\ ent' = [e \in Ids |-> IF e \in Settled THEN [ent[e] EXCEPT !.claim = None]
                             ELSE IF e \in levelled THEN [ent[e] EXCEPT !.hp = MaxHp]
                             ELSE ent[e]]
    /\ Pass
    /\ UNCHANGED <<world, cmds, delayed, facts, spawns>>

(* A corpse gives up its slot. The count is of groups and goes down with   *)
(* every member.                                                           *)
\* Mutant: one slot per corpse is given up, whoever else fell with it.
ReleaseMobSpawnSlotsOnce(state, gone) ==
    [state EXCEPT !.members = @ \ {CHOOSE e \in gone : TRUE},
                  !.active = AtLeast0(@ - 1),
                  !.respawn = RegenTime]

ReleaseMobSpawnSlots(state, gone) ==
    [state EXCEPT !.members = @ \ gone,
                  !.active = AtLeast0(@ - Cardinality(gone)),
                  !.respawn = RegenTime]

ProcessCleanupEvents ==
    /\ stage = "cleanup"
    /\ LET Lost(r) == cleanup \cap rule[r].members
           Losers == {r \in Rules : Lost(r) # {}}
       IN  /\ rule' = [r \in Rules |-> IF r \in Losers
                         THEN ReleaseMobSpawnSlots(rule[r], Lost(r)) ELSE rule[r]]
           /\ heap' = heap \cup {<<rule'[r].respawn, r>> : r \in Losers}
    /\ ent' = [e \in Ids |-> IF e \in cleanup THEN Nobody ELSE ent[e]]
    /\ Pass
    /\ UNCHANGED <<world, cmds, delayed, facts>>

(* Passive recovery, for the living only; then the facts of the frame are  *)
(* projected and forgotten.                                                *)
Recovers(e) == IsPlayer(e) /\ IsAlive(e) /\ ent[e].hp < MaxHp

ProcessResources(recovered) ==
    /\ stage = "resources"
    /\ recovered \subseteq {e \in Ids : Recovers(e)}
    /\ ent' = [e \in Ids |-> IF e \in recovered
                             THEN [ent[e] EXCEPT !.hp = @ + 1] ELSE ent[e]]
    /\ depleted' = <<>> /\ finalized' = <<>> /\ cleanup' = {}
    /\ Pass
    /\ UNCHANGED <<world, cmds, delayed, spawns>>

----------------------------------------------------------------------------
(* The map is loaded up to its spawn cap before the first tick. A rule     *)
(* whose template finds no place falls short, and nothing is scheduled.    *)

BootstrapMapRuntime(place, groups) ==
    /\ \A r \in Rules :
          Cardinality({e \in Ids : place[e] = r}) \in groups[r]..(groups[r] * world.members)
    /\ ent = [e \in Ids |-> IF place[e] = None THEN Nobody ELSE MobBody(place[e])]
    /\ rule = [r \in Rules |-> [active |-> groups[r], respawn |-> None,
                                members |-> {e \in Ids : place[e] = r}]]
    /\ heap = {}

LifeInit ==
    /\ world \in Worlds
    /\ stage = "inbound"
    /\ cmds = <<>> /\ delayed = <<>>
    /\ depleted = <<>> /\ finalized = <<>> /\ cleanup = {}
    /\ \E place \in [Ids -> Rules \cup {None}], groups \in [Rules -> 0..world.max_count] :
          BootstrapMapRuntime(place, groups)

(* Where there is much to choose from, the stage is looked at first.       *)
Tick ==
    \/ \E dt \in Steps : AdvanceSimTime(dt)
    \/ \E h \in heap :
          \/ SpawnSkips(h)
          \/ \E groups \in 0..world.max_count :
                \E size \in groups..(groups * world.members) : SpawnFills(h, groups, size)
    \/ SpawnRulesDone
    \/ /\ stage = "actions"
       /\ \E attacks \in SeqUpTo(PlayerAttacks, MaxHits) : ProcessPlayerActions(attacks)
    \/ /\ stage = "think"
       /\ \E at_once \in SeqUpTo(MobAttacks, MaxHits), later \in MobShots \cup {None} :
             ProcessMobAi(at_once, later)
    \/ \E i \in DOMAIN delayed, flight \in Delays : ReleaseDueAttack(i, flight)
    \/ ReleaseDone
    \/ AttackFinalizes
    \/ \E damage \in Damages : AttackHits(damage)
    \/ AttackIsDropped
    \/ AttacksDone
    \/ ProcessLifeEvents
    \/ RecordMobDeathRewardClaims
    \/ ProcessActorLifecycle
    \/ /\ stage = "restarts"
       /\ \E asked \in [{e \in Ids : IsPlayer(e)} -> {"here", "town", None}] :
             ProcessPlayerRestarts(asked)
    \/ \E levelled \in SUBSET Rewarded : GrantMobDeathRewards(levelled)
    \/ ProcessCleanupEvents
    \/ /\ stage = "resources"
       /\ \E recovered \in SUBSET {e \in Ids : Recovers(e)} : ProcessResources(recovered)

Inbound ==
    \E p \in world.players :
        \/ \E saved \in 0..MaxHp : HandlePlayerEnter(p, saved)
        \/ HandlePlayerLeave(p)

LifeNext == Inbound \/ Tick

LifeSpec == LifeInit /\ [][LifeNext]_lifeVars

(* The map thread runs its loop for ever, and the clock it samples moves   *)
(* on. Nothing makes a player enter, leave or ask.                         *)
ClockMoves == \E dt \in Steps \ {0} : AdvanceSimTime(dt)
LifeFairSpec == LifeSpec /\ WF_lifeVars(Tick) /\ SF_lifeVars(ClockMoves)

----------------------------------------------------------------------------
Bodies ==
    [kind : {"none", "player", "mob"}, of : world.players \cup Rules \cup {None},
     phase : {"Alive", "Dying", "Dead"}, age : 0..LastAge, hp : 0..MaxHp,
     claim : Ids \cup {None}, slayer : Ids \cup {None}]

(* The shape of the state; hit points stay within what an actor can have.  *)
TypeOK ==
    /\ world \in Worlds
    /\ \E i \in DOMAIN SystemOrder : stage = SystemOrder[i]
    /\ ent \in [Ids -> Bodies]
    /\ cmds \in Seq([by : Ids, on : Ids])
    /\ delayed \in Seq([by : Ids, on : Ids, due : Int, flies : BOOLEAN])
    /\ depleted \in Seq([victim : Ids, killer : Ids])
    /\ finalized \in Seq(Ids)
    /\ cleanup \subseteq Ids
    /\ rule \in [Rules -> [active : 0..world.max_count, members : SUBSET Ids,
                           respawn : Int \cup {None}]]
    /\ heap \subseteq Int \X Rules

(* Between ticks whoever lives has hit points left. An actor that lived on *)
(* without any could never be killed again, since only the hit that takes  *)
(* the last hit point starts a death (combat.rs, apply_resource_damage):   *)
(* entering, dying, restarting and levelling up have to agree on this.     *)
AliveIsMortal ==
    stage = "inbound" => \A e \in Ids : Exists(e) /\ IsAlive(e) => ent[e].hp > 0

(* The reward of a mob is claimed by the player who took its last hit      *)
(* point, however many others hit it in that tick or while it was dying    *)
(* (rewards.rs, record_mob_death_reward_claims).                           *)
ClaimIsTheSlayers ==
    \A e \in Ids : ent[e].claim # None => ent[e].claim = ent[e].slayer

(* Between ticks only a dying mob holds a claim: it is settled in the tick *)
(* that makes the death final, whichever of the two places in the code     *)
(* does, and no claim is left on a corpse (grant_mob_death_rewards).       *)
ClaimsAreSettled ==
    stage = "inbound" =>
        \A e \in Ids : ent[e].claim # None => IsMob(e) /\ IsDying(e)

(* The books of the spawn rules agree with the map: every mob belongs to   *)
(* its rule, no rule holds a slot for a mob that is gone, and a rule never *)
(* counts more groups than it has mobs, so that a rule without mobs does   *)
(* not believe itself full (release_mob_spawn_slot, spawn_rules).          *)
SlotsAreReal ==
    \A r \in Rules :
        /\ rule[r].members = {e \in Ids : IsMob(e) /\ ent[e].of = r}
        /\ rule[r].active <= Cardinality(rule[r].members)

(* A rule that waits has its entry in the heap, and no step leaves a rule  *)
(* short with nothing scheduled, unless it already was (the preload does   *)
(* not reschedule). Entries go stale when a later corpse moves respawn_at. *)
ShortRuleIsScheduled ==
    /\ [](\A r \in Rules : rule[r].respawn # None => <<rule[r].respawn, r>> \in heap)
    /\ [][\A r \in Rules :
             rule'[r].respawn = None /\ rule'[r].active < world.max_count
               => rule[r].respawn = None /\ rule[r].active = rule'[r].active]_lifeVars

(* A dead player is alive again, or has left, some time: without an intent *)
(* the forced respawn takes over (restart.rs, forced_respawn_players).     *)
DeadPlayersReturn ==
    \A p \in Visitors : (\E e \in BodiesOf(p) : IsDead(e))
                        ~> ~(\E e \in BodiesOf(p) : IsDead(e))

=============================================================================
