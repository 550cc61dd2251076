---------------------------- MODULE Replication ----------------------------
(***************************************************************************)
(* What a client is shown of a map: the visibility graph of the simulation *)
(* (zohar-sim replication.rs, runtime/net/replication.rs), the outbox of   *)
(* each player (outbox.rs), the bounded channel to its connection, and the *)
(* client at its end.                                                      *)
(*                                                                         *)
(* The simulation is one thread: it drains inbound events, then runs a     *)
(* fixed tick stage by stage.  Connections read their channels             *)
(* concurrently, also between two try_send calls of one flush.             *)
(*                                                                         *)
(* Entities are net ids.  The map is a line and the two radii of           *)
(* InterestConfig are distances on it.  What is announced of an entity's   *)
(* place is abstracted to a number: the n-th place it was announced at.    *)
(***************************************************************************)
EXTENDS Integers, Sequences, FiniteSets, SequencesExt

CONSTANTS
    Players,        \* net ids of player entities
    Mobs,           \* net ids of mobs
    CharOf,         \* the player id behind a player's net id
    MaxPos,         \* the map is 0 .. MaxPos
    SpawnRadius,    \* InterestConfig::spawn_radius
    DespawnRadius,  \* InterestConfig::despawn_radius
    ChanCap,        \* PLAYER_EVENT_BUFFER
    Deaf,           \* players whose connection is over when they enter
    Scenes          \* the casts to check, each with its bounds

Ids == Players \cup Mobs

ASSUME ReplicationAssumption ==
    /\ IsFiniteSet(Players) /\ IsFiniteSet(Mobs) /\ Players \cap Mobs = {}
    /\ DOMAIN CharOf = Players
    /\ Deaf \subseteq Players
    /\ MaxPos \in Nat /\ SpawnRadius \in Nat /\ DespawnRadius \in Nat
    /\ SpawnRadius <= DespawnRadius
    /\ ChanCap \in Nat \ {0}
    /\ Scenes \subseteq [cast : SUBSET Ids, maxVer : Nat \ {0}, maxActs : Nat,
                        maxBacklog : Nat]

VARIABLES
    scene,     \* the cast and the bounds of this behaviour; never changes
    stage,     \* where the simulation is
    acts,      \* what happened in this tick, counted for MaxActs
    live,      \* NetEntityIndex
    used,      \* net ids handed out so far
    pos,       \* LocalTransform, and the spatial index once maintained
    ver,       \* number of the place last announced for an entity
    vis,       \* visible_by_observer
    obs,       \* observers_by_target
    dirty,     \* RuntimeState::is_dirty
    pending,   \* MapPendingMovements
    out,       \* PlayerOutboxComp
    flushing,  \* what PlayerOutbox::flush of a player is sending
    chan,      \* the channel to a player's connection
    open,      \* the connection still holds its receiver
    known,     \* client: the entities it shows
    shown      \* client: the place it shows of an entity

simVars == <<scene, stage, acts, live, used, pos, ver, vis, obs, dirty, pending>>
clientVars == <<known, shown>>
vars == <<simVars, out, flushing, chan, open, clientVars>>

\* Bounds: places announced per entity; movements, births, deaths and
\* restarts per tick; no new movement while an outbox holds this much.
MaxVer == scene.maxVer
MaxActs == scene.maxActs
MaxBacklog == scene.maxBacklog

Events == [type : {"spawn", "despawn", "move"}, id : Ids, ver : 0 .. MaxVer]
Spawn(t) == [type |-> "spawn", id |-> t, ver |-> ver[t]]
Despawn(t) == [type |-> "despawn", id |-> t, ver |-> 0]
MoveTo(m) == [type |-> "move", id |-> m.id, ver |-> m.ver]

\* struct PlayerOutbox; 0 in latest is an absent entry.
EmptyOutbox == [events |-> <<>>, latest |-> [t \in Ids |-> 0], remote |-> <<>>]

\* The stages of a fixed tick that change what is seen, in the order of
\* configure_sim_schedule; a tick may have nothing to do in some.
Stages == <<"sense", "act", "restart", "cleanup">>

TypeOK ==
    /\ stage \in {"inbound", "flush"} \cup Range(Stages)
    /\ acts \in 0 .. MaxActs
    /\ live \subseteq used /\ used \subseteq Ids
    /\ pos \in [Ids -> 0 .. MaxPos]
    /\ ver \in [Ids -> 0 .. MaxVer]
    /\ vis \in [Players -> SUBSET Ids]
    /\ obs \in [Ids -> SUBSET Players]
    /\ dirty \in BOOLEAN
    /\ \A i \in DOMAIN pending : pending[i].id \in live
    /\ \A p \in Players :
         /\ \A i \in DOMAIN out[p].events : out[p].events[i] \in Events
         /\ out[p].latest \in [Ids -> 0 .. MaxVer]
         /\ \A i \in DOMAIN chan[p] : chan[p][i] \in Events
         /\ Len(chan[p]) <= ChanCap
    /\ flushing \in [Players -> {"done", "events", "latest", "remote"}]
    /\ open \in [Players -> BOOLEAN]
    /\ known \in [Players -> SUBSET Ids]
    /\ shown \in [Players -> [Ids -> 0 .. MaxVer]]

Init ==
    /\ scene \in Scenes
    /\ stage = "inbound" /\ acts = 0
    /\ live = {} /\ used = {}
    /\ pos = [t \in Ids |-> 0]
    /\ ver = [t \in Ids |-> 0]
    /\ vis = [p \in Players |-> {}]
    /\ obs = [t \in Ids |-> {}]
    /\ dirty = FALSE
    /\ pending = <<>>
    /\ out = [p \in Players |-> EmptyOutbox]
    /\ flushing = [p \in Players |-> "done"]
    /\ chan = [p \in Players |-> <<>>]
    /\ open = [p \in Players |-> FALSE]
    /\ known = [p \in Players |-> {}]
    /\ shown = [p \in Players |-> [t \in Ids |-> 0]]

LivePlayers == live \cap Players

\* The simulation thread is between two flushes.
Running(s) == stage = s /\ \A p \in Players : flushing[p] = "done"

\* The tick has not passed stage i.
Reached(i) == \E k \in 1 .. i : Running(Stages[k])

\* Bound: an outbox that is far behind gets no new movement.
Room == \A p \in Players : Len(out[p].events) < MaxBacklog

\* One more of the things a tick is bounded in.
Acts == Room /\ acts < MaxActs /\ acts' = acts + 1

-----------------------------------------------------------------------------
(* ReplicationGraph.                                                       *)

Dist(a, b) == IF pos[a] >= pos[b] THEN pos[a] - pos[b] ELSE pos[b] - pos[a]

Within(p, r) == {t \in live \ {p} : Dist(p, t) <= r}

\* reconcile_observer: the new visible set.
NewVisible(old, spawn, retain) == (old \cap retain) \cup spawn

\* reconcile_observer: the reverse index, observer by observer.
Reindexed(o, old, new) ==
    [t \in Ids |-> (o[t] \ {p \in Players : t \in old[p] \ new[p]})
                     \cup {p \in Players : t \in new[p] \ old[p]}]

\* Mutant: the target's observers keep it in their visible sets.
WithoutTargetKept(v, t) == v

\* remove_target, seen from the observers.
WithoutTarget(v, t) == [p \in Players |-> v[p] \ {t}]

-----------------------------------------------------------------------------
(* PlayerOutbox.                                                           *)

\* The members of ms at the indices I, in order.
Picked(ms, I) ==
    LET upTo[n \in 0 .. Len(ms)] ==
            IF n = 0 THEN <<>>
            ELSE IF n \in I THEN Append(upTo[n - 1], ms[n]) ELSE upTo[n - 1]
    IN  upTo[Len(ms)]

\* The movements of ms that are of an entity of S, and the others.
Those(ms, S) == Picked(ms, {i \in DOMAIN ms : ms[i].id \in S})
Without(ms, S) == Picked(ms, {i \in DOMAIN ms : ms[i].id \notin S})

PushAll(o, es) == [o EXCEPT !.events = @ \o es]

\* push_remote_movement_update: a repetition of the last one is dropped.
PushRemote(o, m) ==
    IF o.remote # <<>> /\ Last(o.remote) = m THEN o
    ELSE [o EXCEPT !.remote = Append(@, m)]

\* set_latest_movement_with_priority with prioritize set.
Prioritized(o, m) ==
    [o EXCEPT !.remote = Without(@, {m.id}),
              !.latest[m.id] = m.ver]

\* push_movement_event.
Pushed(o, m) ==
    LET place == [id |-> m.id, ver |-> m.ver] IN
    CASE m.kind = "attack" -> PushAll(o, <<MoveTo(m)>>)
      [] m.kind = "move" /\ m.id \in Players -> Prioritized(o, place)
      [] OTHER -> PushRemote(o, place)

\* The outbox after the movements ms, in order.
PushedAll(o, ms) ==
    LET after[n \in 0 .. Len(ms)] == IF n = 0 THEN o ELSE Pushed(after[n - 1], ms[n])
    IN  after[Len(ms)]

\* A set of entities as a sequence, in the order of some hash set.
Listed(S) == SetToSeq(S)

\* queue_visibility_diff for one observer.
Entered(new, old) ==
    [i \in 1 .. Cardinality(new \ old) |-> Spawn(Listed(new \ old)[i])]
Gone(new, old) ==
    [i \in 1 .. Cardinality(old \ new) |-> Despawn(Listed(old \ new)[i])]

-----------------------------------------------------------------------------
(* Inbound events: handle_player_enter, handle_player_leave.               *)

\* The components of despawned entities go with them.
Forget(gone, places) ==
    /\ pos' = [t \in Ids |-> IF t \in gone THEN 0 ELSE places[t]]
    /\ ver' = [t \in Ids |-> IF t \in gone THEN 0 ELSE ver[t]]

\* on_player_removed, project_frame_facts: the observers of entity t are told
\* that it is gone, on top of outboxes o.
NotifyGone(o, t) ==
    [q \in Players |->
        IF q \in obs[t] \ {t} /\ q \in live THEN PushAll(o[q], <<Despawn(t)>>)
        ELSE o[q]]

\* on_player_removed: remove_observer and remove_target for player p.
LiveWithout(p) == live \ {p}
VisWithout(p) == [WithoutTarget(vis, p) EXCEPT ![p] = {}]

\* The reverse index without p.
ObsWithout(p) == [t \in Ids |-> IF t = p THEN {} ELSE obs[t] \ {p}]

\* on_player_removed: dirty while players are left.
DirtyAfterLeave(left) == left \cap Players # {}

Leave(p) ==
    /\ Running("inbound")
    /\ p \in LivePlayers
    /\ live' = LiveWithout(p)
    /\ vis' = VisWithout(p)
    /\ obs' = ObsWithout(p)
    /\ out' = [NotifyGone(out, p) EXCEPT ![p] = EmptyOutbox]
    /\ dirty' = DirtyAfterLeave(live')
    /\ pending' = Without(pending, {p})
    /\ Forget({p}, pos)
    /\ UNCHANGED <<scene, stage, acts, used, flushing, chan, open, clientVars>>

\* The entity p of the player c enters at position x.  An entity the player
\* left behind is despawned first; p's own view is made at once, the views
\* of the others at the next reconcile.
Enter(p, x) ==
    LET old == {q \in LivePlayers : CharOf[q] = CharOf[p]}
        base == IF old = {} THEN [live |-> live, vis |-> vis, obs |-> obs, out |-> out]
                ELSE LET q == CHOOSE q \in old : TRUE
                     IN  [live |-> LiveWithout(q), vis |-> VisWithout(q),
                          obs |-> ObsWithout(q),
                          out |-> [NotifyGone(out, q) EXCEPT ![q] = EmptyOutbox]]
        near == {t \in base.live : (IF x >= pos[t] THEN x - pos[t] ELSE pos[t] - x)
                                     <= SpawnRadius}
    IN
    /\ Running("inbound") /\ Room
    /\ p \in (Players \cap scene.cast) \ used
    /\ used' = used \cup {p}
    /\ live' = base.live \cup {p}
    /\ Forget(old, [pos EXCEPT ![p] = x])
    /\ vis' = [base.vis EXCEPT ![p] = near]
    /\ obs' = Reindexed(base.obs, base.vis, vis')
    /\ out' = [base.out EXCEPT ![p] =
                 PushAll(EmptyOutbox, <<Spawn(p)>> \o Entered(near, {}))]
    /\ dirty' = TRUE
    /\ pending' = Without(pending, old)
    /\ flushing' = [flushing EXCEPT ![p] = "events"]
    /\ open' = [open EXCEPT ![p] = p \notin Deaf]
    /\ UNCHANGED <<scene, stage, acts, chan, clientVars>>

\* FixedUpdate starts.
StartTick ==
    /\ Running("inbound")
    /\ stage' = "sense" /\ acts' = 0
    /\ UNCHANGED <<scene, live, used, pos, ver, vis, obs, dirty, pending, out, flushing,
                   chan, open, clientVars>>

-----------------------------------------------------------------------------
(* The fixed tick.                                                         *)

\* spawn_one_mob.
SpawnMob(t, x) ==
    /\ Reached(1) /\ Acts
    /\ t \in (Mobs \cap scene.cast) \ used
    /\ used' = used \cup {t}
    /\ live' = live \cup {t}
    /\ pos' = [pos EXCEPT ![t] = x]
    /\ dirty' = TRUE
    /\ UNCHANGED <<scene, stage, ver, vis, obs, pending, out, flushing, chan, open, clientVars>>

\* Mutant: sampling the motion of mobs leaves the map clean.
DriftDirtyNever == dirty

\* sample_mob_motion sets is_dirty.
DriftDirty == TRUE

\* sample_mob_motion: a mob proceeds on its way, which was announced before.
Drift(t, x) ==
    /\ Reached(1) /\ Acts
    /\ t \in Mobs \cap live
    /\ x # pos[t]
    /\ pos' = [pos EXCEPT ![t] = x]
    /\ dirty' = DriftDirty
    /\ UNCHANGED <<scene, stage, live, used, ver, vis, obs, pending, out, flushing, chan,
                   open, clientVars>>

\* process_mob_ai plans one action for a mob in a tick.
MayAct(t) == t \in Players \/ \A i \in DOMAIN pending : pending[i].id # t

\* apply_player_motion, apply_mob_motion: a new place is announced.  A player
\* is there at once, a mob sets out from where it is.
Move(t, x) ==
    /\ Reached(2) /\ Acts
    /\ t \in live /\ MayAct(t)
    /\ ver[t] < MaxVer
    /\ x = pos[t] \/ t \in Players
    /\ stage' = "act"
    /\ pos' = [pos EXCEPT ![t] = x]
    /\ ver' = [ver EXCEPT ![t] = @ + 1]
    /\ pending' = Append(pending, [id |-> t, ver |-> ver[t] + 1, kind |-> "move"])
    /\ dirty' = TRUE
    /\ UNCHANGED <<scene, live, used, vis, obs, out, flushing, chan, open, clientVars>>

\* apply_player_attack announces where the player is, apply_mob_attack stops
\* the mob where it is.
Attack(t) ==
    /\ Reached(2) /\ Acts
    /\ t \in live /\ MayAct(t)
    /\ stage' = "act"
    /\ \A i \in DOMAIN pending : pending[i].id = t => pending[i].kind # "attack"
    /\ ver' = IF t \in Mobs THEN [ver EXCEPT ![t] = @ + 1] ELSE ver
    /\ ver'[t] <= MaxVer
    /\ pending' = Append(pending, [id |-> t, ver |-> ver'[t], kind |-> "attack"])
    /\ dirty' = (dirty \/ t \in Mobs)
    /\ UNCHANGED <<scene, live, used, pos, vis, obs, out, flushing, chan, open, clientVars>>

\* Mutant: the entities around the restarted player are not sent again.
RestartViewSelfOnly(p) == <<Despawn(p), Spawn(p)>>

\* What a restarted player is sent: its client purges every entity.
RestartView(p) ==
    <<Despawn(p), Spawn(p)>> \o Entered(vis[p], {})

\* restart_player with RestartVisibility::Here.
RestartHere(p) ==
    /\ Reached(3) /\ Acts
    /\ p \in LivePlayers
    /\ stage' = "restart"
    /\ out' = [q \in Players |->
                 IF q = p THEN PushAll(out[q], RestartView(p))
                 ELSE IF q \in obs[p] THEN PushAll(out[q], <<Despawn(p), Spawn(p)>>)
                 ELSE out[q]]
    /\ dirty' = TRUE
    /\ UNCHANGED <<scene, live, used, pos, ver, vis, obs, pending, flushing, chan, open, clientVars>>

\* destroy_mob_entity, and project_frame_facts for its ActorDespawned.
DestroyMob(t) ==
    /\ Reached(4) /\ Acts
    /\ t \in Mobs \cap live
    /\ stage' = "cleanup"
    /\ live' = live \ {t}
    /\ vis' = WithoutTarget(vis, t)
    /\ obs' = [obs EXCEPT ![t] = {}]
    /\ out' = NotifyGone(out, t)
    /\ pending' = Without(pending, {t})
    /\ dirty' = TRUE
    /\ Forget({t}, pos)
    /\ UNCHANGED <<scene, used, flushing, chan, open, clientVars>>

\* aoi_reconcile for every observer, when the map is dirty: the visible
\* sets, and the outboxes with what entered and left.
NewVis ==
    [p \in Players |->
        IF p \in live /\ dirty
        THEN NewVisible(vis[p], Within(p, SpawnRadius), Within(p, DespawnRadius))
        ELSE vis[p]]

\* replication_flush sorts the movements by entity and timestamp.  Those of
\* one entity are in the order of their timestamps already; attacks, which
\* the server stamps, go to a bucket of their own.
ByEntity(ms) ==
    FlattenSeq([i \in 1 .. Cardinality(Ids) |-> Those(ms, {Listed(Ids)[i]})])

\* flush_pending_movements: they go to the observers the entity has now, an
\* attack of a player also to the player.
MovesFor(p, nv) ==
    LET ms == ByEntity(pending) IN
    Picked(ms, {i \in DOMAIN ms : \/ ms[i].id \in nv[p]
                                  \/ ms[i].id = p /\ ms[i].kind = "attack"})

\* aoi_reconcile and replication_flush; outbox_flush starts.
Reconcile ==
    /\ Reached(4)
    /\ stage' = "flush"
    /\ vis' = NewVis
    /\ obs' = Reindexed(obs, vis, NewVis)
    /\ out' = [p \in Players |->
                 IF p \in live
                 THEN PushedAll(PushAll(out[p], Entered(NewVis[p], vis[p])
                                                  \o Gone(NewVis[p], vis[p])),
                                MovesFor(p, NewVis))
                 ELSE out[p]]
    /\ pending' = <<>>
    /\ dirty' = IF LivePlayers = {} THEN dirty ELSE FALSE
    /\ flushing' = [p \in Players |-> IF p \in live THEN "events" ELSE "done"]
    /\ UNCHANGED <<scene, acts, live, used, pos, ver, chan, open, clientVars>>

EndTick ==
    /\ Running("flush")
    /\ stage' = "inbound" /\ acts' = 0
    /\ UNCHANGED <<scene, live, used, pos, ver, vis, obs, dirty, pending, out, flushing,
                   chan, open, clientVars>>

-----------------------------------------------------------------------------
(* PlayerOutbox::flush, one try_send at a time.                            *)

\* TrySendError::Full.
Full(p) == Len(chan[p]) >= ChanCap

\* The next thing of bucket b to send, as an event: none, or one of a set.
NextOf(p, b) ==
    CASE b = "events" -> IF out[p].events = <<>> THEN {} ELSE {Head(out[p].events)}
      [] b = "latest" -> {MoveTo([id |-> t, ver |-> out[p].latest[t]]) :
                            t \in {u \in Ids : out[p].latest[u] # 0}}
      [] b = "remote" -> IF out[p].remote = <<>> THEN {} ELSE {MoveTo(Head(out[p].remote))}
      [] OTHER -> {}

Taken(o, b, e) ==
    CASE b = "events" -> [o EXCEPT !.events = Tail(@)]
      [] b = "latest" -> [o EXCEPT !.latest[e.id] = 0]
      [] b = "remote" -> [o EXCEPT !.remote = Tail(@)]

\* The bucket flush turns to from bucket b on: the first that is not empty.
Bucket(p, b) ==
    CASE b = "events" /\ NextOf(p, "events") # {} -> "events"
      [] b \in {"events", "latest"} /\ NextOf(p, "latest") # {} -> "latest"
      [] b # "done" /\ NextOf(p, "remote") # {} -> "remote"
      [] OTHER -> "done"

SendOne(p, e) ==
    LET b == Bucket(p, flushing[p]) IN
    /\ e \in NextOf(p, b)
    /\ open[p] /\ ~Full(p)
    /\ chan' = [chan EXCEPT ![p] = Append(@, e)]
    /\ out' = [out EXCEPT ![p] = Taken(@, b, e)]
    /\ flushing' = [flushing EXCEPT ![p] = b]
    /\ UNCHANGED <<simVars, open, clientVars>>

\* Everything is sent, or the channel is full: reliable events that do not
\* fit leave the loop but not flush, movements that do not fit end it.
SendStops(p) ==
    LET b == Bucket(p, flushing[p]) IN
    /\ flushing[p] # "done"
    /\ \/ /\ b = "done"
          /\ flushing' = [flushing EXCEPT ![p] = "done"]
       \/ /\ b # "done"
          /\ open[p] /\ Full(p)
          /\ flushing' = [flushing EXCEPT ![p] =
                            IF b = "events" THEN Bucket(p, "latest") ELSE "done"]
    /\ UNCHANGED <<simVars, out, chan, open, clientVars>>

\* TrySendError::Closed: everything is dropped, except reliable events that
\* were not tried.
SendClosed(p) ==
    LET b == Bucket(p, flushing[p]) IN
    /\ b # "done" /\ ~open[p]
    /\ out' = [out EXCEPT ![p] =
                 [EmptyOutbox EXCEPT !.events =
                    IF b = "events" THEN <<>> ELSE out[p].events]]
    /\ flushing' = [flushing EXCEPT ![p] = "done"]
    /\ UNCHANGED <<simVars, chan, open, clientVars>>

-----------------------------------------------------------------------------
(* The connection and the client.                                          *)

\* The entities a client of p shows after event e: its own despawn makes it
\* purge all of them.
Shows(p, S, e) ==
    CASE e.type = "spawn" -> S \cup {e.id}
      [] e.type = "despawn" /\ e.id = p -> {}
      [] e.type = "despawn" /\ e.id # p -> S \ {e.id}
      [] OTHER -> S

\* The entities a client of p that shows S shows after the events q.
ShownAfter(p, S, q) ==
    LET after[n \in 0 .. Len(q)] == IF n = 0 THEN S ELSE Shows(p, after[n - 1], q[n])
    IN  after[Len(q)]

Receive(p) ==
    LET e == Head(chan[p]) IN
    /\ open[p] /\ chan[p] # <<>>
    /\ chan' = [chan EXCEPT ![p] = Tail(@)]
    /\ known' = [known EXCEPT ![p] = Shows(p, @, e)]
    /\ shown' = [shown EXCEPT ![p] =
                   [t \in Ids |-> IF t \notin Shows(p, known[p], e) THEN 0
                                  ELSE IF t = e.id THEN e.ver ELSE @[t]]]
    /\ UNCHANGED <<simVars, out, flushing, open>>

\* The connection ends and drops its receiver.
Hangup(p) ==
    /\ open[p]
    /\ open' = [open EXCEPT ![p] = FALSE]
    /\ chan' = [chan EXCEPT ![p] = <<>>]
    /\ known' = [known EXCEPT ![p] = {}]
    /\ shown' = [shown EXCEPT ![p] = [t \in Ids |-> 0]]
    /\ UNCHANGED <<simVars, out, flushing>>

Flush(p) == (\E e \in NextOf(p, Bucket(p, flushing[p])) : SendOne(p, e))
            \/ SendStops(p) \/ SendClosed(p)

Next ==
    \/ \E p \in Players : \/ \E x \in 0 .. MaxPos : Enter(p, x)
                          \/ Leave(p)
                          \/ RestartHere(p)
                          \/ Flush(p)
                          \/ Receive(p)
                          \/ Hangup(p)
    \/ \E t \in Ids : \/ \E x \in 0 .. MaxPos : SpawnMob(t, x) \/ Drift(t, x) \/ Move(t, x)
                      \/ Attack(t)
                      \/ DestroyMob(t)
    \/ StartTick \/ Reconcile \/ EndTick

Spec == Init /\ [][Next]_vars

-----------------------------------------------------------------------------
(* Properties.                                                             *)

\* The two indexes of the visibility graph are each other's inverse and name
\* entities of the map only.
GraphAgrees ==
    /\ \A p \in Players, t \in Ids : t \in vis[p] <=> p \in obs[t]
    /\ \A p \in Players : vis[p] # {} => p \in live /\ vis[p] \subseteq live \ {p}

\* A clean map needs no reconcile: each player sees what is within the spawn
\* radius and nothing beyond the despawn radius.  Every change of a position
\* or of the population must have set is_dirty.
CleanIsExact ==
    ~dirty => \A p \in LivePlayers :
                /\ Within(p, SpawnRadius) \subseteq vis[p]
                /\ vis[p] \subseteq Within(p, DespawnRadius)

\* Once a client has read what is on its way to it, it shows exactly itself
\* and what its player sees, whatever was full in between.
ViewConverges ==
    \A p \in LivePlayers :
        open[p] =>
          ShownAfter(p, known[p], chan[p] \o out[p].events) = {p} \cup vis[p]

\* Between ticks, a client that has nothing left to read shows every player
\* it sees at the place announced last.  (A mob that comes into sight on its
\* way is shown where it is, until its next announcement.)
LatestIsShown ==
    Running("inbound") =>
      \A p \in LivePlayers :
        open[p] /\ chan[p] = <<>> /\ out[p] = EmptyOutbox =>
          \A t \in vis[p] \cap known[p] \cap Players : shown[p][t] = ver[t]
=============================================================================
