------------------------------- MODULE MobBrain -------------------------------
(***************************************************************************)
(* The mob AI of a map (zohar-sim/src/runtime/mob/ai.rs, mob/aggro.rs,     *)
(* action/plan.rs, action/apply.rs, spatial.rs): a mob idles and wanders,  *)
(* is provoked by an attack on itself or on a member of its pack, or       *)
(* notices a player by itself, pursues, winds up, strikes, and walks home  *)
(* when its target is gone.                                                *)
(*                                                                         *)
(* The map thread runs one tick at a time, so what players do reaches the  *)
(* map between two ticks; inside one, the mobs think one after the other.  *)
(* Instants are held as the number of ticks left until them: the code only *)
(* ever compares them with now.  Space is a line; a Grid of more than one  *)
(* unit keeps the truncation of mob positions to the wire's centimetres.   *)
(***************************************************************************)
EXTENDS Integers, Sequences, FiniteSets

CONSTANTS Mobs, Players, Nobody,
          Casts,        \* the mobs' prototypes and packs the run ranges over
          Line,         \* places are 0 .. Line
          Spots,        \* the places players walk to
          Grid,         \* units per centimetre of the wire
          Speed, Stride,\* units a mob, a player covers in a tick
          Sight,        \* aggressive_sight
          Follow, Reach,\* mob_follow_distance_m and the attack threshold
          HomeRadius,   \* HOME_ARRIVAL_RADIUS_M
          SameSpot,     \* desired_destination_unchanged's tolerance
          Gate, Windup, \* attack_gate and the attack's action duration
          Settle, RangedSettle, Rethink,
          Pauses,       \* random_duration_between_ms
          WanderStep,   \* step_max_m
          MaxStimuli    \* MAX_MOB_STIMULI_PER_TICK

ASSUME MobBrainAssumption ==
    /\ Nobody \notin Players
    /\ {Line, Grid, Speed, Stride, Reach, Gate, Windup, MaxStimuli} \subseteq Nat \ {0}
    /\ {Sight, Follow, HomeRadius, SameSpot, Settle, RangedSettle, Rethink, WanderStep}
          \subseteq Nat
    /\ Spots \subseteq 0 .. Line
    /\ Pauses \subseteq Nat
    /\ \A c \in Casts :
          /\ c.mobs \subseteq Mobs
          /\ c.players \subseteq Players
          /\ c.walkers \subseteq c.players
          /\ c.home \in [Mobs -> 0 .. Line]
          /\ c.pack \subseteq c.mobs
          /\ c.aggressive \cup c.ranged \cup c.wanderers \subseteq c.mobs
    \* A walk between two thoughts is longer than what truncation takes back.
    /\ Speed * Rethink > Grid
    /\ HomeRadius >= Grid - 1
    /\ Reach >= Follow + SameSpot

VARIABLES
    cast,     \* which prototypes this map holds: chosen once
    brain,    \* MobBrainState of each mob
    motion,   \* MobMotionState: from, to, and the ticks left of the total
    queue,    \* MobAggroQueue: who provoked the mob
    mlife,    \* whether the mob can act
    player,   \* the players: up, dead or gone, where they are and walk to
    thinking, \* the mobs that have not thought yet in this tick
    act,      \* what the mob did in the last tick
    grudge    \* history: who attacked the mob's pack last and is unanswered

vars == <<cast, brain, motion, queue, mlife, player, thinking, act, grudge>>

Modes == {"Idle", "Pursuit", "Return", "AttackWindup"}

Abs(x) == IF x < 0 THEN -x ELSE x
Lesser(a, b) == IF a < b THEN a ELSE b
Dist(a, b) == Abs(a - b)
CeilDiv(a, b) == (a + b - 1) \div b

\* snap_local_to_wire_cm: mob positions are truncated to whole centimetres.
Snap(x) == x - (x % Grid)

\* clamp_step_towards
StepTowards(from, to, len) ==
    IF Dist(from, to) <= len THEN to
    ELSE IF to > from THEN from + len ELSE from - len

(***************************************************************************)
(* Bodies.                                                                 *)
(***************************************************************************)

\* MobBrainState::default()
DefaultBrain == [mode |-> "Idle", target |-> Nobody, attack |-> 0, windup |-> 0,
                 rethink |-> 0, decide |-> 0, wait |-> 0]

Standing(x) == [from |-> x, to |-> x, left |-> 0, total |-> 0]

\* sample_mob_motion_at
Sampled(s) == IF s.left = 0 THEN s.to
              ELSE LET gone == (Dist(s.from, s.to) * (s.total - s.left)) \div s.total
                   IN  StepTowards(s.from, s.to, gone)

\* mob_movement_in_flight
InFlight(s) == s.left > 0 /\ s.from # s.to

\* actor_can_be_combat_target, for an id the map may no longer know
Targetable(p) == p # Nobody /\ player[p].life = "up"

\* spawn_one_mob: a mob starts at its home, with a first wander decision ahead.
Spawned == {[DefaultBrain EXCEPT !.decide = d] : d \in Pauses}

Init == /\ cast \in Casts
        /\ brain \in [Mobs -> Spawned]
        /\ motion = [m \in Mobs |-> Standing(cast.home[m])]
        /\ queue = [m \in Mobs |-> <<>>]
        /\ mlife = [m \in Mobs |-> IF m \in cast.mobs THEN "alive" ELSE "dead"]
        /\ player \in [Players -> {[life |-> "gone", at |-> 0, to |-> 0]}
                                  \cup {[life |-> "up", at |-> x, to |-> x] : x \in Spots}]
        /\ \A p \in Players : player[p].life = "up" <=> p \in cast.players
        /\ thinking = {}
        /\ act = [m \in Mobs |-> "none"]
        /\ grudge = [m \in Mobs |-> Nobody]

(***************************************************************************)
(* What a mob thinks: the stages of process_mob_ai, each a function of the *)
(* brain.  b is a brain whose counters have been aged by the tick.         *)
(***************************************************************************)

\* handle_attack_windup: a mob that winds up does nothing else.
Blocked(b) == b.mode = "AttackWindup" /\ b.windup > 0

\* handle_attack_windup, past the end of the wind-up; the target stays, so the
\* mob goes on with its pursuit after a pause that nothing later shortens.
AfterWindup(b) ==
    IF b.mode = "AttackWindup"
    THEN [b EXCEPT !.mode = "Pursuit", !.windup = 0, !.rethink = Settle]
    ELSE b

\* latest_live_provoker: the provokers of q who can still be fought.
Live(q) == {i \in DOMAIN q : Targetable(q[i])}
LatestLive(q) == q[CHOOSE i \in Live(q) : \A j \in Live(q) : j <= i]

\* apply_new_aggro
AfterAggro(b, q) ==
    IF Live(q) = {} \/ (b.target = LatestLive(q) /\ b.mode = "Pursuit") THEN b
    ELSE [b EXCEPT !.target = LatestLive(q), !.mode = "Pursuit", !.rethink = 0]

\* acquire_aggressive_target: the nearest player in sight, by where the player's
\* walk ends, dead or not.
InSight(x) == {p \in Players : player[p].life # "gone" /\ Dist(x, player[p].to) <= Sight}
Nearest(x) == {p \in InSight(x) :
                  \A o \in InSight(x) : Dist(x, player[p].to) <= Dist(x, player[o].to)}

\* acquire_idle_target
AfterAcquire(m, x, b) ==
    IF b.target = Nobody /\ b.mode = "Idle" /\ m \in cast.aggressive
       /\ Nearest(x) # {}
    THEN {IF Targetable(p)
          THEN [b EXCEPT !.target = p, !.mode = "Pursuit", !.rethink = 0]
          ELSE b : p \in Nearest(x)}
    ELSE {b}

\* validate_target: MOB_LEASH_DISTANCE_M is None, so no target is ever too far.
AfterValidate(b) ==
    IF b.target = Nobody \/ Targetable(b.target) THEN b
    ELSE [b EXCEPT !.target = Nobody, !.mode = "Return"]

\* The pause after a wind-up is kept whatever the stages in between decided.
Settled(before, b) ==
    IF before.mode = "AttackWindup" /\ b.rethink < Settle
    THEN [b EXCEPT !.rethink = Settle] ELSE b

\* transition_to_idle
ToIdle(b) == [b EXCEPT !.mode = "Idle", !.target = Nobody, !.windup = 0,
                       !.rethink = 0, !.wait = 0]

(***************************************************************************)
(* What a mob does.  An outcome is the brain it is left with, its motion   *)
(* and the kind of the action it issued.                                   *)
(***************************************************************************)

Stays(b, s) == [brain |-> b, motion |-> s, act |-> "none"]

\* calculate_mob_duration over truncated places: zero means no action is built.
Duration(x, y) == CeilDiv(Dist(Snap(x), Snap(y)), Speed)

\* apply_mob_motion
Walks(b, x, y) ==
    [brain  |-> b,
     motion |-> [from |-> Snap(x), to |-> Snap(y),
                 left |-> Duration(x, y), total |-> Duration(x, y)],
     act    |-> "move"]

\* resolve_mob_follow_up: RethinkAtActionEndOrDelay after an action of length d.
FollowUp(b, d) == [b EXCEPT !.rethink = Lesser(d, Rethink)]

\* build_mob_move_action: none is built for a walk that takes no time.
MoveOr(b, s, x, y) ==
    IF Duration(x, y) = 0 THEN Stays(b, s)
    ELSE Walks(FollowUp(b, Duration(x, y)), x, y)

\* Mutant: home is reached only at the very spot.
ReturnsToTheSpot(m, b, s) ==
    LET x == Sampled(s) IN
    CASE x = cast.home[m] -> Stays(ToIdle(b), s)
      [] x # cast.home[m] /\ b.rethink > 0 -> Stays(b, s)
      [] OTHER -> MoveOr(b, s, x, cast.home[m])

\* handle_return
Returns(m, b, s) ==
    LET x == Sampled(s) IN
    CASE Dist(x, cast.home[m]) <= HomeRadius -> Stays(ToIdle(b), s)
      [] Dist(x, cast.home[m]) > HomeRadius /\ b.rethink > 0 -> Stays(b, s)
      [] OTHER -> MoveOr(b, s, x, cast.home[m])

\* sample_idle_wander_target: some place within a step, or none of the attempts
\* was inside the map and reachable.
WanderTargets(x) == {y \in 0 .. Line : y # x /\ Dist(x, y) <= WanderStep}

\* handle_idle, the decision being due.
Decides(b, s) ==
    LET x == Sampled(s) IN
    {Stays([b EXCEPT !.decide = d, !.wait = 0], s) : d \in Pauses}
    \cup UNION {{Walks([b EXCEPT !.wait = Duration(x, y), !.decide = Duration(x, y) + d],
                       x, y) : d \in Pauses} :
                  y \in {z \in WanderTargets(x) : Duration(x, z) > 0}}

\* handle_idle: the wait is for the last stroll, the decision for the next.
Idles(m, b, s) ==
    IF b.wait = 0 /\ b.decide = 0 /\ m \in cast.wanderers
    THEN Decides(b, s) ELSE {Stays(b, s)}

\* predict_moving_target_position: where a mob at x meets a player who comes its
\* way; one who runs away, never nearer than he is now, is met where he is.
Predicted(x, t) ==
    LET away == (t.to - t.at) * (t.at - x) > 0
    IN  IF t.at = t.to \/ t.at = x \/ away THEN t.at
        ELSE StepTowards(x, t.at, (Dist(x, t.at) * Speed) \div (Speed + Stride))

\* chase_target_position: only a melee mob looks ahead.
ChaseTarget(m, x, t) == IF m \in cast.ranged THEN t.at ELSE Predicted(x, t)

\* build_mob_attack_action: the brain of a mob that strikes.
WoundUp(b) == [b EXCEPT !.mode = "AttackWindup", !.windup = Windup,
                        !.attack = Gate, !.rethink = Windup]

\* Mutant: the wind-up starts without ending the walk under way.
StrikesOnTheRun(b, s) == [brain |-> WoundUp(b), motion |-> s, act |-> "attack"]

\* apply_mob_attack: the mob stops where it is.  The target was found targetable
\* in this tick and no life changes before Act.
Strikes(b, s) ==
    [brain  |-> WoundUp(b),
     motion |-> Standing(Snap(Sampled(s))),
     act    |-> "attack"]

\* Mutant: the mob keeps its distance from the edge of its reach.
ChaseStepShort(x, chase) ==
    IF Dist(x, chase) > Follow + Reach THEN Dist(x, chase) - Follow - Reach ELSE 0

\* The part of the way to the chased place a pursuer covers.
ChaseStep(x, chase) == IF Dist(x, chase) > Follow THEN Dist(x, chase) - Follow ELSE 0

\* handle_pursuit
Pursues(m, b, s, t) ==
    LET x == Sampled(s)
        flying == InFlight(s)
        endInReach == Dist(s.to, t.at) <= Reach
        chase == ChaseTarget(m, x, t)
        len == ChaseStep(x, chase)
        dest == StepTowards(x, chase, len)
    IN CASE flying /\ m \in cast.ranged ->
              Stays(IF endInReach THEN [b EXCEPT !.rethink = s.left + RangedSettle] ELSE b, s)
         [] ~flying /\ b.rethink > 0 -> Stays(b, s)
         [] b.attack = 0 /\ Dist(x, t.at) <= Reach -> Strikes(b, s)
         [] flying /\ endInReach -> Stays([b EXCEPT !.rethink = s.left], s)
         [] b.rethink > 0 -> Stays(b, s)
         [] len = 0 \/ Dist(s.to, dest) <= SameSpot -> Stays([b EXCEPT !.rethink = Rethink], s)
         [] OTHER -> MoveOr(b, s, x, dest)

\* The decision of process_mob_ai for a validated brain.
Chosen(m, b, s) ==
    CASE b.target # Nobody -> {Pursues(m, b, s, player[b.target])}
      [] b.target = Nobody /\ b.mode = "Return" -> {Returns(m, b, s)}
      [] OTHER -> Idles(m, b, s)

\* process_mob_ai and process_actions for one mob.
Thoughts(m) ==
    LET b == brain[m]
        woken == AfterAggro(AfterWindup(b), queue[m])
    IN  UNION {Chosen(m, Settled(b, AfterValidate(c)), motion[m]) :
                  c \in AfterAcquire(m, Sampled(motion[m]), woken)}

(***************************************************************************)
(* One tick of the map: time passes, walks go on, then every mob thinks.   *)
(***************************************************************************)

Down(n) == IF n > 0 THEN n - 1 ELSE 0

\* advance_sim_time, seen from the instants a brain and a motion hold.
AgedBrain(b) == [b EXCEPT !.attack = Down(@), !.windup = Down(@), !.rethink = Down(@),
                          !.decide = Down(@), !.wait = Down(@)]
AgedMotion(s) == IF s.left <= 1 THEN Standing(s.to) ELSE [s EXCEPT !.left = @ - 1]

\* sample_player_visual_position_at, one tick later.
Walked(p) == [player[p] EXCEPT !.at = StepTowards(@, player[p].to, Stride)]

\* advance_sim_time and sample_mob_motion: a tick starts.
Advance ==
    /\ thinking = {}
    /\ thinking' = {m \in Mobs : mlife[m] = "alive"}
    /\ brain' = [m \in Mobs |-> IF mlife[m] = "alive" THEN AgedBrain(brain[m]) ELSE brain[m]]
    /\ motion' = [m \in Mobs |-> AgedMotion(motion[m])]
    /\ player' = [p \in Players |-> Walked(p)]
    /\ act' = [m \in Mobs |-> "none"]
    /\ UNCHANGED <<cast, queue, mlife, grudge>>

\* process_mob_ai for a mob that winds up: its provokers stay in the queue.
WindsUp(m) ==
    /\ m \in thinking
    /\ Blocked(brain[m])
    /\ thinking' = thinking \ {m}
    /\ UNCHANGED <<cast, brain, motion, queue, mlife, player, act, grudge>>

\* process_mob_ai, then process_actions, for a mob that thinks.  Its queue is
\* taken (drain_mob_aggro).
Think(m) ==
    /\ m \in thinking
    /\ ~Blocked(brain[m])
    /\ thinking' = thinking \ {m}
    /\ \E o \in Thoughts(m) :
          /\ brain' = [brain EXCEPT ![m] = o.brain]
          /\ motion' = [motion EXCEPT ![m] = o.motion]
          /\ act' = [act EXCEPT ![m] = o.act]
          /\ grudge' = IF grudge[m] = o.brain.target
                       THEN [grudge EXCEPT ![m] = Nobody] ELSE grudge
    /\ queue' = [queue EXCEPT ![m] = <<>>]
    /\ UNCHANGED <<cast, mlife, player>>

(***************************************************************************)
(* What happens between two ticks.                                         *)
(***************************************************************************)

\* Mutant: a full queue refuses what is newest.
QueuedIfRoom(q, p) == IF Len(q) < MaxStimuli THEN Append(q, p) ELSE q

\* queue_mob_aggro: a full queue loses its oldest entries.
Queued(q, p) == LET r == Append(q, p) IN
                SubSeq(r, IF Len(r) > MaxStimuli THEN 2 ELSE 1, Len(r))

\* mob_pack_members: the whole pack hears of it, or the mob alone.
PackOf(m) == IF m \in cast.pack THEN cast.pack ELSE {m}

\* process_player_actions and route_mob_aggro: p attacks m.
Provoke(p, m) ==
    /\ thinking = {}
    /\ player[p].life = "up"
    /\ mlife[m] = "alive"
    /\ queue' = [n \in Mobs |-> IF n \in PackOf(m) THEN Queued(queue[n], p) ELSE queue[n]]
    /\ grudge' = [n \in Mobs |-> IF n \in PackOf(m) /\ mlife[n] = "alive"
                                 THEN IF brain[n].target = p /\ brain[n].mode = "Pursuit"
                                      THEN Nobody ELSE p
                                 ELSE grudge[n]]
    /\ UNCHANGED <<cast, thinking, brain, motion, mlife, player, act>>

\* build_player_move_action: the walk to another place starts.
PlayerMoves(p, x) ==
    /\ thinking = {}
    /\ p \in cast.walkers
    /\ player[p].life = "up"
    /\ player[p].to # x
    /\ player' = [player EXCEPT ![p].to = x]
    /\ UNCHANGED <<cast, thinking, brain, motion, queue, mlife, act, grudge>>

Forgotten(p) == [m \in Mobs |-> IF grudge[m] = p THEN Nobody ELSE grudge[m]]

\* The player dies where he stands, or leaves the map and his id with him.
PlayerFalls(p) ==
    /\ thinking = {}
    /\ player[p].life = "up"
    /\ player' = [player EXCEPT ![p].life = "dead", ![p].to = player[p].at]
    /\ grudge' = Forgotten(p)
    /\ UNCHANGED <<cast, thinking, brain, motion, queue, mlife, act>>

PlayerRestarts(p) ==
    /\ thinking = {}
    /\ player[p].life = "dead"
    /\ player' = [player EXCEPT ![p].life = "up"]
    /\ UNCHANGED <<cast, thinking, brain, motion, queue, mlife, act, grudge>>

PlayerLeaves(p) ==
    /\ thinking = {}
    /\ player[p].life # "gone"
    /\ player' = [player EXCEPT ![p] = [life |-> "gone", at |-> 0, to |-> 0]]
    /\ grudge' = Forgotten(p)
    /\ UNCHANGED <<cast, thinking, brain, motion, queue, mlife, act>>

\* stop_actor_activity_for_dying: the mob is left at the end of its walk.
MobDies(m) ==
    /\ thinking = {}
    /\ mlife[m] = "alive"
    /\ mlife' = [mlife EXCEPT ![m] = "dead"]
    /\ brain' = [brain EXCEPT ![m].mode = "Idle", ![m].target = Nobody,
                              ![m].windup = 0, ![m].rethink = 0]
    /\ queue' = [queue EXCEPT ![m] = <<>>]
    /\ motion' = [motion EXCEPT ![m] = Standing(motion[m].to)]
    /\ grudge' = [grudge EXCEPT ![m] = Nobody]
    /\ act' = [act EXCEPT ![m] = "none"]
    /\ UNCHANGED <<cast, thinking, player>>

\* spawn_rules puts a fresh mob in its place.
MobRespawns(m) ==
    /\ thinking = {}
    /\ m \in cast.mobs
    /\ mlife[m] = "dead"
    /\ mlife' = [mlife EXCEPT ![m] = "alive"]
    /\ \E b \in Spawned : brain' = [brain EXCEPT ![m] = b]
    /\ queue' = [queue EXCEPT ![m] = <<>>]
    /\ motion' = [motion EXCEPT ![m] = Standing(cast.home[m])]
    /\ UNCHANGED <<cast, thinking, player, act, grudge>>

Tick == Advance \/ \E m \in Mobs : WindsUp(m) \/ Think(m)

Next == \/ Tick
        \/ \E p \in Players : \/ \E m \in Mobs : Provoke(p, m)
                              \/ \E x \in Spots : PlayerMoves(p, x)
                              \/ PlayerFalls(p)
                              \/ PlayerRestarts(p)
                              \/ PlayerLeaves(p)
        \/ \E m \in Mobs : MobDies(m) \/ MobRespawns(m)

\* The map thread ticks for ever, with players or without (schedule.rs).
Spec == Init /\ [][Next]_vars /\ WF_vars(Tick)

(***************************************************************************)
(* Properties.                                                             *)
(***************************************************************************)

\* The mode and the target of a brain agree, and a mob that winds up stands
\* still: clients show it striking from where it is, so the walk it was on when
\* it came within reach must be over (apply_mob_attack's motion state).
BrainsAreCoherent ==
    \A m \in Mobs :
        /\ brain[m].mode \in {"Idle", "Return"} <=> brain[m].target = Nobody
        /\ brain[m].mode = "AttackWindup" => motion[m].from = motion[m].to /\ motion[m].left = 0

\* A mob whose target is gone does not stay on its way home for ever: the walk it
\* re-issues at every rethink, from a truncated place, does get it there.
ComesHome ==
    \A m \in Mobs : brain[m].mode = "Return" ~> brain[m].mode # "Return"

\* Whoever attacked the pack last is fought by every member of it that lives,
\* unless he falls or leaves first: neither a wind-up under way, nor a full
\* queue, nor a fight with somebody else makes a mob forget it.
ProvocationIsAnswered ==
    \A m \in Mobs, p \in Players : grudge[m] = p ~> grudge[m] # p

\* A mob that pursues a player who stands still strikes him sooner or later: it
\* is never left waiting just out of reach.
PursuitStrikes ==
    \A m \in Mobs, p \in Players :
        (brain[m].target = p /\ brain[m].mode = "Pursuit" /\ player[p].at = player[p].to)
          ~> (act[m] = "attack" \/ brain[m].target # p \/ player[p].at # player[p].to)

===============================================================================
