# zohar-rs: a TLA+ verification project

`zohar-rs` is a game server for an MMO: an auth server, channel gateways and map
cores that share one PostgreSQL database.  This directory holds TLA+ models of
the parts of it whose correctness depends on the order in which things happen,
the TLC configurations that check them on small instances, and TLAPS proofs of
their safety properties for every instance.

## 1. Inventory

| Part | State | Operations | What makes it hard | What makes it correct |
|---|---|---|---|---|
| Player persistence worker (`zohar-core/src/runtime/player_persistence.rs`, `zohar-sim/src/persistence.rs`) | bounded request queue, one lane per player (pending save, pending exit, in-flight flag, retry time), a JoinSet of running statements | enqueue autosave / flush / exit, coalesce, dispatch by priority, join, retry after a failure, drain on shutdown | statements of one player must not overtake each other, retries meet newer snapshots, replies ride on merged requests, tasks panic, answers are lost | rows never go back, acknowledgements are durable, the newest snapshot is never lost silently, every request is answered, shutdown drains |
| Session lease (`zohar-db/.../queries.rs`, `zohar-gamesrv/src/handlers*`) | one row of `game.sessions` per account, the player's `runtime_epoch`, a handler task per connection | claim by token, bootstrap, serve, heartbeat, hand off, release, take over a stale lease | logins race, a handoff's commit may arrive after its requester gave up, cores crash, a lease is judged by its age | a served connection owns the lease; two runtimes of one player never both pass the epoch guard |
| Map runtime (`zohar-sim/src/runtime*`) | a Bevy world: players, mobs, spatial index, visibility graph, outboxes, pending movements, life state, tickers | drain inbound events, fixed ticks through a fixed chain of systems | one thread, but fed by and feeding concurrent connections over bounded channels | clients see exactly what is visible, players are saved when they change, deaths are rewarded once |
| Connection pipeline (`zohar-net`, `zohar-protocol`) | typestate connection, codec buffers, handshake time sync | handshake, login, select, loading, in game; framing; packet sequence | a peer may send anything at any time | phases in order, no packet lost or invented by framing |
| Gateways and cluster (`zohar-gamesrv/src/infra`, `coords.rs`) | channel directory, map resolver caches, cluster event bus | resolve a map to an endpoint, publish and receive shouts | caches go stale, notifications are lost | routes lead to ready cores, an event is delivered at most once per core |
| Auth server (`zohar-authsrv`) | login attempts, tokens | password check, token issue | time slots | a token is accepted only in its slots |
| Game rules (`zohar-gameplay`) | stats, modifiers, recovery, combat timing | pure computation | rounding, saturation | formulas |
| Content, domain types, map port, Agones client | immutable data and plain types | loading, conversion | none at run time | - |

How they interact: a connection handler (Tokio task) calls the map runtime over
a bounded channel (`MapEventSender`) and receives `PlayerEvent`s over another;
it calls the database directly for the session statements, and asks the
persistence worker, over a third channel with oneshot replies, to write
snapshots and commit exits.  The map runtime schedules autosaves with the same
worker.  Cores and gateways meet only in PostgreSQL.

## 2. Modules

| Module | Models | Proofs |
|---|---|---|
| `DurableRows` | what the persistence worker promises: a row that only moves on, an Ok only for what the row has reached | - |
| `PersistenceLanes` | the persistence worker and its two statements; implements `DurableRows` | `PersistenceLanesProofs` |
| `SingleOwner` | what the session rows promise: one connection at a time holds the account, and how it loses it | - |
| `SessionLease` | one account's lease, its connections, handoff and recovery; implements `SingleOwner` | `SessionLeaseProofs` |
| `Replication` | what a client is shown of a map: visibility graph, outboxes, channels | `ReplicationProofs` |
| `PlayerSaves` | how a change of a player on a map reaches its row: dirty marks, autosaves, durable flushes, leave and handoff | `PlayerSavesProofs` |
| `ActorLife` | life and death on a map: attacks, dying, restarts, rewards, corpses, spawn rules | `ActorLifeProofs` |
| `MobBrain` | the mob AI: aggro, pursuit, wind-up, return, wandering, packs | `MobBrainProofs` |
| `Connection` | one client connection: codec, sequence bytes, handshake and time sync, phases, heartbeats, drain | `ConnectionProofs` |
| `PlayerStats` | experience, levels, stat points, the stat kernel and what the client is told of it | `PlayerBodyProofs` |
| `Recovery` | the stat tickers: hit points, spell points, stamina and the forced walk | `PlayerBodyProofs` |
| `MCPersistenceLanes`, `MCSessionLease`, `MCPlayerSession`, `MCReplication`, `MCActorLife`, `MCActorBody`, `MCMobBrain`, `MCConnection` | instances for TLC; `MCPlayerSession` puts `SessionLease` and `PlayerStats` side by side, `MCActorBody` `ActorLife` and `Recovery` | |

Several modules have a variable that is chosen in the initial state and never
changes: `site` (SessionLease), `scene` (Replication), `world` (ActorLife), `cast`
(MobBrain), `role` and `kind` (Connection), `subject` (MCPlayerSession, MCActorBody).  It lets one run
cover several small instances of different shapes instead of one that is the
product of them.

Type invariants are in no run, since a theorem says more of them: `TypeOK` of
`PersistenceLanes`, `SessionLease`, `PlayerSaves` and `ActorLife` and `RecoveryTypeOK`
are proved, the proofs about `MobBrain`, `Connection`, `Replication` and `PlayerStats` carry
the part of the types they need, and `TypeOK` of `Replication` and `StatsTypeOK`
document the shape of the state.

### DurableRows

The interface of `zohar-sim/src/persistence.rs` as a specification of its own: per
player the number of admitted snapshots, the one its row holds and the set of
acknowledged ones.  A row moves on to any later admitted snapshot (the ones in
between are skipped, which is what merging does), and an acknowledgement is for
something the row has reached.  `PersistenceLanes` instantiates it with `stored`
read off `row` and `acked` read off `reply`; the run checks
`ImplementsRows` as a property.

### PersistenceLanes

`queue` is the mpsc channel, `lane` the `HashMap` of lanes (an absent entry is
the idle lane), `inFlight` the JoinSet, `row` the player's runtime-state row,
`worker` the point of the loop: `dispatch` (before `dispatch_ready_ops`) or
`select` (in `tokio::select!`).  A snapshot is the number of the request that
carried it, so "older" and "newer" are comparable and nothing else of its
content matters.  `reply` is what became of each oneshot.  `latest`,
`swallowed` and `reported` are history variables: the last admitted request,
the last autosave refused because an exit was waiting, and the last snapshot
whose failure was reported.

`Recv`, `RecvClosed`, `Join`, `JoinPanicked` and `RetryTimer` are the branches of
the `select!`; `SelectPanics` is the panic of a `select!` whose branches are all
disabled.  `Dispatch` is one call of `dispatch_ready_ops` with the loop's exit
test.  The database answers a running statement with `SaveApplies`,
`SaveIsStale`, `SaveFails`, `ExitCommits`, `ExitRefused` or `AnswerLost`.  The
retry time is abstracted to unset, waiting, due.

### SingleOwner

The account as the connections may rely on it: `holder`, those who claimed it and go
on with it (`served`), those who lost it (`lost`), whether the lease may be taken
(`stale`) and the runtime epoch.  A connection claims once, and only what is free or
stale; the account changes hands otherwise only when its holder is done and gives it
back or when the holder's exit commits, and then the epoch moves in the same step.
A connection that ends without a release (`RetainUntilStale`, a crash) leaves the
account in its name.  `SessionLease` instantiates it with the owner of the row, the
handlers past their claim (`Using`) and the histories; the run checks
`ImplementsOwner` as a property.

### SessionLease

`sess` is the row of `game.sessions` with its heartbeat as an age, `conn` the
handler task of each connection, `entity` the player's entity in each core (by
the connection whose net id it carries), `epoch` the row's `runtime_epoch`.
Every statement is one step, so two statements of one handler can be separated
by steps of any other.  The persistence worker appears as the number of exits
it holds for a connection (`exits`), which is what `PersistenceLanes` shows of
it: at most one running and one waiting.  Time advances in heartbeat intervals
(`TimePasses`); a handler awaiting a statement or a reply is over within one.

### Replication

The simulation is one thread; `stage` is its place between draining the inbound
queue and flushing the outboxes at the end of a fixed tick.  `vis` and `obs` are
the two maps of `ReplicationGraph`, `dirty` is `is_dirty`, `pending` the movements
of the tick, `out` the three buckets of each `PlayerOutbox`, `chan` the channel
to the connection.  A flush is one step per `try_send` (`SendOne`, `SendStops`,
`SendClosed`), so the connection (`Receive`, `Hangup`) may read between any two of
them.  The map is a line, the spatial index is the set of positions, and the
place an entity was last announced at is a number.  `known` and `shown` are the
client, which is not part of the repository: it shows what it is told to, ignores
movements of entities it does not show, and purges everything at its own
despawn, as the comment in `restart_player` says.  Chat, stat, animation and effect
events take the reliable path like spawns and are left out.  Timestamps of one
client are taken to ascend, so that the sort of `replication_flush` keeps the order
of a player's movements.  `Picked` (the `retain`s and the grouping of movements),
`PushedAll` (the loop of `flush_pending_movements`) and `ShownAfter` (the client reading
a row of events) are recursive functions over the indices of a sequence.  A restart in town tells the connection to hand off and
changes nothing that is seen.

`Deaf` players have no connection from the start: they are seen by the others and
keep the state space small.

### PlayerSaves

The producer side of `PersistenceLanes`.  The map thread's tick is `BeginTick`
(poll a pending flush), `TakeIntents`, `FinalizeAgain`, any number of `Change`,
`Project` (dirty events, reset of the facts, stats sync) and
`EnqueueDueAutosaves`; steps of the connection handler and of the worker come
between any two of them.  `fact` is the mark a tick leaves in `FrameFacts`, `dirty`
the flag of `PlayerPersistenceState`, `due` the autosave clock in ticks, `flush`
the player's `PlayerPendingDurableFlush`, `hand` what the connection handler is
saving: for a handoff (the player stays until the exit committed), a disconnect
or the way to character select.  The worker is the channel, the lane's save and
exit and the running statement.  A durable state is a pair of counters, so
"contains everything" is a comparison.

A player that leaves keeps nothing in the map, so its components are reset.
`unheard` marks two windows the code leaves open and the properties excuse: an
exit that pushed the waiting save out of the lane and then failed while the
player stays in game, and a save merged with a flush of the player's previous
stay, whose failure has no receiver.  In both the player is clean and is saved
only after its next change.  A third window, the handoff's snapshot being older
than saves made before its exit was admitted, is why `ContentNeverRegresses`
speaks of one epoch.

### ActorLife

One action per system of the fixed tick that touches the life of an actor, in the
order of `plugins.rs` (`SystemOrder`); `stage` is the system that runs next, and
players enter and leave (`HandlePlayerEnter`, `HandlePlayerLeave`) only at
"inbound".  `spawn_rules`, the release of delayed attacks and the attack buffer are
loops, so they are one action per turn of the loop and one that ends it.  `cmds`
and `delayed` are the two attack buffers, `depleted`, `finalized` and `cleanup` the
facts of the frame, `rule` and `heap` the books of the spawn rules.  `slayer` is a
history variable.  What a player commands, what a mob decides, what the dice show
and whether a place was found are choices.  Time is kept as ages and countdowns.
Hit points of 0 stand for every value not above 0, since damage may leave fewer
and the code only asks whether any are left.  One turn of `spawn_rules` fills a rule with
a number of groups and with a number of mobs that so many groups can have.

Three things the module shows beside its properties: a rule whose preload finds
no place is short with nothing scheduled until one of its mobs dies
(`ShortRuleIsScheduled` excuses it); the branch of `spawn_rules` for a full rule that
still waits is never taken; `active_instances` counts groups and is
lowered once per member, so a rule with groups may come to own more mobs than its
maximum number of full groups (`SlotsAreReal` therefore bounds the count by the
mobs and not the mobs by the count).

### MobBrain

The mobs of a map and the players around them, on a line.  A tick is `Advance`
(time, sampled motions) and then one step per mob, `Think` or, for one that winds
up, `WindsUp`; what players do (`Provoke`, `PlayerMoves`, `PlayerFalls`,
`PlayerRestarts`, `PlayerLeaves`) and the deaths and births of mobs come between two
ticks, as inbound events and the earlier systems of the tick do.  The stages of
`process_mob_ai` are operators on a brain (`AfterWindup`, `AfterAggro`,
`AfterAcquire`, `AfterValidate`), composed in the code's order by `Thoughts`; the
handlers are `Idles`, `Returns` and `Pursues`, the actions they build `Walks` and
`Strikes`.  Positions are numbers, `Snap` is the truncation to the wire's
centimetres, and a walk of no duration builds no action, as in
`calculate_mob_duration`.  Instants are held as the ticks left until them.
Aggressive mobs look for the nearest player by the end of that player's walk, and
a dead one who is nearest hides a living one, as in the code.  `grudge` is a history
variable: who attacked the pack last and is not fought yet.  Obstacles, and so
the failure of a walkability test, are left out except for wandering, where
`Decides` may find no place.

### Connection

The stream is a sequence of tokens, one for a packet's body and one for its sequence
byte, delivered one at a time (`Arrive`), so every cut of a packet happens.  `buf` is
the read buffer of `Framed`, `Complete` and `Undecodable` are what the codec does with
it, `Consumed` is what it takes off and how the sequencer moves.  Every packet of
every phase is an action (`Stays` keeps the phase, `Moves` changes it, `Closed` ends the
connection); what a handler asks the database or the map is a choice among the
outcomes it distinguishes.  `EnterX` is the head of a phase's drive function.
`HandshakeState` is the pair `retries`, `sentAge`; time stamps are kept as ages, with
the sign and the rounding of `handle`.  `SessionTracker` is `idle`, and `loopAge` keeps
the age of the `now` that Login, Select and Loading take before they wait.  The
client (external) is that of the repository's tests: a `player`, a `hanging` one that asks
only for what leads to the next phase, a `lister` that fetches the channel list, or a
`stray` one that sends a single packet out of place and then nothing.  Any of them may
fall silent or close its end at any moment, the hanging one by hanging first.

Sends.  The handlers await `send_many` outside the `select!`, without a timeout.  A `dead`
client is silent but its socket takes what it is sent; a `hung` one is silent and its
window may be full, so each send to it may leave the task `stuck` in the send (`Stalls`),
at the head of a phase, in the loop (`MapTraffic` for what the map has to tell) or in a
last packet (`Farewell`).  A stuck task polls no branch: neither heartbeat nor drain.  It
goes on when the client reads again or is ended (`ClientRecovers`, `SendReturns`,
`ConnectionResets`), which nobody is assumed to do.

Drain.  `draining` is the flag of `ServerDrainController`, `notice` the value in its `watch`
channel.  `begin_draining` sets the flag and sends into the channel, which stores nothing
while it has no receiver (the controller keeps none).  `BeginDraining` therefore stores
the notice if this connection is subscribed, and otherwise may or may not, as another
connection of the core is or is not.  A phase checks the flag at its top (`pc` is
`"enter"`), then awaits the database and its first packets (`"entering"`), and only then
subscribes (`Subscribe`, `"loop"`); the loop looks at the channel only (`DrainSeen`).

Choices: a living client is taken to read what it is sent (`MaxUnread` bounds
what it leaves), and the server's work other than sends, its awaits of the database
included, is short beside a unit of the clock.  The Handshake phase has neither a
heartbeat nor a deadline and does not look at the drain after its start.  What
`SilenceEnds` and `DrainEmpties` leave out is in their formulas: both start past the
handshake and excuse a task that is stuck, and `DrainEmpties` starts where the notice can
reach the connection (it is stored, or the flag is yet to be checked).  That it need not
reach it is the finding of `ConnectionDrain`.  `TimeoutIsEarned` excuses a client whose
stall outlasted a unit of time (`stalled`): the ticks missed in the send are not
made up, and the first one afterwards may drop a client that has begun to read again,
unasked.

### PlayerStats and Recovery

`PlayerStats` keeps the same facts where the code keeps them: `prog` is the saved
progression, `stats` the kernel (`base`, `comp`, resource, explicit marks, dirty flag
and the pending deltas), `looks` the level neighbours see, `shown` the client's copy.
`stage` is the system of the tick that runs next.  `Normalized` is `recompute_report`
with the merge of its deltas; `Hydrated` is what a load makes of a row.  Vitality
stands for the four core stats and hit points for the three resources, which the
code treats alike.  `ExpGain` is a recursive function over the levels: `GainAt` is one
turn of the loop of `apply_player_exp_gain`, given what the next level makes of the rest.

`Recovery` keeps resources, the remainders of the `RateAccumulator`s, the clock the
three tickers share, the activity of the player as ages, the movement mode with the
preferred one, and the stamina timer.  `TickDue` is one due run of
`process_player_stat_tickers`; ticks of the map are of different lengths, so a run may
come late.  The two meet in the resources: a ticker's restore is an action of
`PlayerStats` (`Restored`), a level that fills them an action of `Recovery`
(`LevelGained`).  Modifiers and queued recovery have no caller in the runtime and are left
out.

## 3. Runs

| Run | Instance | Checks |
|---|---|---|
| `PersistenceLanes` | one player, 3 requests of any kind, a queue of 2, room for two statements, every fault; fair | `OneWriterPerPlayer`, `AckedIsDurable`, `NewestSurvives`, `DbNeverRegresses`, `ImplementsRows`, `EveryRequestAnswered`, `ShutdownDrains`, `NewestLands` |
| `PlayerSession` | two connections, on two cores with failing heartbeats, or on one core that crashes beside a gateway; or the stats of one player over four levels | `ServedOwns`, `SingleRuntime`, `OnlyOwnLeaveDespawns`, `ImplementsOwner`, `ReloadIsNeutral`, `SyncIsComplete` |
| `SessionLeaseChatty` | clients that also talk, no fault | `LeaseStaysFresh` is violated |
| `SessionLeaseRetained` | the same with a gateway | `RetainedLeaseAges` is violated |
| `Replication` | one player and a mob, or a player beside one who enters a second time; one channel slot | `GraphAgrees`, `CleanIsExact`, `ViewConverges` |
| `ReplicationStalled` | two players, one slot and a slow connection | `LatestIsShown` is violated |
| `PlayerSaves` | one player, one slot, a change of each kind, one committed exit; fair | `NothingForgotten`, `FlushedIsDurable`, `ComesBackToAll`, `ContentNeverRegresses`, `EveryChangeLands` |
| `ActorBody` | two players and a mob; a player and two mobs of a rule; a player and a group of two; or the body of one player, three resources with slow rates; fair | `AliveIsMortal`, `ClaimIsTheSlayers`, `ClaimsAreSettled`, `SlotsAreReal`, `ForcedWalkEnds`, `ShortRuleIsScheduled`, `DeadPlayersReturn`, `StaminaComesBack`, `RecoveryCompletes` |
| `MobBrain` | a wanderer that attacks by itself between two players; a pack of a melee and a ranged mob with one; fair | `BrainsAreCoherent`, `ComesHome`, `ProvocationIsAnswered`, `PursuitStrikes` |
| `Connection` | a core or a gateway, each kind of client; fair | `SequencersAgree`, `ConformingIsKept`, `TimeoutIsEarned`, `SilenceEnds`, `DrainEmpties` |
| `ConnectionDrain` | a player that hangs never, one packet at a time; fair | `ActiveConnectionsDrain` is violated |
| `ConnectionResync` | a client that answers every RequestHandshake | `AnswersAreAccepted` is violated |

What the passing runs show, in words:

* persistence: statements of one player never run side by side, rows never go
  back, Ok means stored, the newest snapshot is stored, on its way or reported as
  failed, and the worker answers everybody and drains.  Exceptions the properties
  name: a lane whose task panicked stays busy for ever (`Wedged`), and a deleted
  player's save fails for ever;
* session lease: whoever is served owns the lease, the epoch guard never passes
  two runtimes (except after the takeover of a lease that went stale, which does not move the
  epoch), a late leave does not remove the successor's entity, and the account changes
  hands only in the ways `SingleOwner` lists;
* replication: both maps of the graph agree, a graph that is not dirty is exact, and a
  client that has read everything shows what is in view;
* saves: no change of a player is clean and unsaved, a flush that reports success is in
  the row, a player who comes back finds everything that was acknowledged, and
  everything a player who stays has changed is stored in the end (`unheard` excuses
  the two windows named above);
* life: no actor is alive without hit points, a kill has one slayer who is rewarded in
  the frame of the death, spawn rules count what is there and do not go to sleep
  short, and a dead player gets up;
* mob brain: mode, target and motion agree through every interruption, a mob without a
  target gets home although its steps are truncated, the last attacker of a pack is
  fought even when the queue was full or the mob was winding up, and a pursuer beside
  a player who stands still strikes;
* connection: the sequence bytes stay in step through any cut of the stream and every
  change of phase, a conforming client is never thrown out, a timeout comes only after a
  heartbeat request (or a stalled send), and connections that are silent, or that the
  drain notice can reach, end unless they are stuck in a send;
* player body: what is derived at a load is what was counted while playing, the client
  holds every stat at the end of a tick, a forced walk ends with the exhaustion (except
  for a level gained meanwhile, `refilled`), stamina comes back, and recovery completes
  at any rate.

Bounds.  Three requests of one player are one running, one waiting in the lane
and one queued behind it, every combination of kinds included; a fourth repeats
one of these positions.  The lanes of two players share only the capacity of the
JoinSet; what that sharing could break (`OneWriterPerPlayer`, `NewestSurvives`,
`DbNeverRegresses`) is proved for every set of players and every capacity.  What it could
delay is hardly exercised: with one player and two statements the liveness properties
say little about one lane starving another.
Two connections are the old and the new owner of a lease; a third would take
over from the second as the second did from the first.  `staleAfter` is 3 where
the ratio of the defaults (90 s to 30 s) matters and smaller where only the
order of "stale" and "timed out" does.  Epoch bounds stop the number of
committed exits: one gives an old epoch and a new one, and the proofs bound neither.  In `Replication` a channel of one slot makes every flush meet a
full channel; three positions and radii 0 and 1 give the spawn radius, the band
and beyond; `maxActs` bounds what happens in one tick and `maxBacklog` stops new
movements while an outbox is behind, so that it catches up in some behaviours and
stays behind in others.  In `PlayerSaves` a single slot makes the queue refuse
autosaves and flushes; a change and an allocation give a save that is
running or waits beside a state newer than it; one committed exit gives a
runtime whose epoch is over and a player who comes back.
In the lives of `ActorBody` two hit points and hits of one give hits that wound, kill and come
too late; two attacks of each side in a tick give two slayers of one mob; the
delays are the smallest that keep their order (a corpse stays one tick or two,
a forced respawn comes a tick after a restart is allowed, and a rule waits two
ticks, so that a second corpse makes an entry of the heap stale).  Names of
entities are given out again when nothing refers to them, which a generation
counter rules out in the code; three names hold every actor of a world.
In `MobBrain` a grid of two units makes truncated steps, a line of eight with sight
of four gives players in and out of sight, a queue of one is full at the second
provocation, and the attack gate and the wind-up of two ticks give time for a target to
fall, leave or come back in between.  In `Connection` two tokens in flight cut a packet
from its sequence byte, a table of two sequence bytes wraps, and one retry lets
the handshake fail and succeed on either attempt; only a `player`'s stream holds more than
one packet.  The `hanging` client hangs once, at any moment, and then goes on and falls
silent, ends or stays hung; a second hang meets the same sends.  The levels of `PlayerStats` go past the
one where stat points stop, wounds of one and three wound and overkill; in `Recovery` rates of one
or two in three units give ticks that recover less than a point.  These levels are counted
from a new character's row; `ReloadsAreNeutral` holds for the same start, with any number of
levels and points.

Fairness of `PlayerSaves`.  The map thread runs frames for ever (weak fairness of
the tick), the handler's deadline passes and its task goes on, the worker takes
what is queued and dispatches it, exits are answered, and a save repeated for
ever does not fail for ever.

Fairness of `ActorLife`.  The map thread runs its ticks for ever, and the clock it
samples at the start of a tick moves on again and again (two ticks in a row may
see the same time).  Nobody is assumed to enter, leave or ask for a restart.

Fairness of the others.  `MobBrain` and `Recovery`: the map's fixed update goes on
(weak fairness of its tick); players need not do anything.  `Connection`: the
connection's task runs whenever it is not stuck in a send and a branch of its `select!` is
ready, the drain notice is a branch of its own and `select!` is unbiased, so neither
waits for ever; the database answers or fails, timers fire, the network delivers and a
living client reads.  Nobody is assumed to send, and a hung client need not recover.

Fairness (`FairSpec` of `PersistenceLanes`).  The loop is a Tokio task and is
polled whenever a branch is ready (weak fairness of `Dispatch`); `select!` picks
among ready branches at random, so a branch that is ready infinitely often is
taken (strong fairness of `Recv`, `RecvClosed`, `RetryTimer` and of each
player's `Join`); timers fire; PostgreSQL answers, and a statement repeated for
ever does not fail for ever.  The last is an assumption on the environment:
without it an autosave may be retried for ever and nothing is promised.

## 4. Proofs

Every module but the two abstract ones has a proof module beside it (`PlayerBodyProofs` serves `PlayerStats` and
`Recovery`).  The theorems hold for every value of the constants that satisfies the
named assumption of the module (`LanesAssumption`, `SessionAssumption`, and so on: sets
are finite or bounds are numbers, a heartbeat interval is not zero), so for every
number of players, connections, mobs, requests and ticks.  No theorem assumes fairness:
what follows is safety.

| Proof module | Theorems | Properties of the runs they state |
|---|---|---|
| `PersistenceLanesProofs` | `TypeCorrect`, `OneWriter`, `RowsNeverRegress`, `AcksAreDurable`, `NewestIsNeverLost`, `WorkerImplementsRows`, `LanesStayInOrder` | `OneWriterPerPlayer`, `DbNeverRegresses`, `AckedIsDurable`, `NewestSurvives`, `ImplementsRows` |
| `SessionLeaseProofs` | `SessionTypes`, `LeaseInvariant`, `ServedOwnsHolds`, `SingleRuntimeHolds`, `OnlyOwnLeaves`, `OwnerInvariant`, `LeaseImplementsOwner` | `ServedOwns`, `SingleRuntime`, `OnlyOwnLeaveDespawns`, `ImplementsOwner` |
| `ReplicationProofs` | `GraphInvariant`, `GraphAgreement`, `CleanMapsAreExact`, `ViewInvariant`, `ViewsConverge` | `GraphAgrees`, `CleanIsExact`, `ViewConverges` |
| `PlayerSavesProofs` | `SavesTypes`, `SavesInvariant`, `FlushesAreDurable`, `PlayersComeBackToAll`, `NoChangeIsForgotten`, `RowsNeverRegress` | `FlushedIsDurable`, `ComesBackToAll`, `NothingForgotten`, `ContentNeverRegresses` |
| `ActorLifeProofs` | `LifeTypes`, `LifeInvariant`, `LivingCanDie`, `SlayersClaim`, `ClaimsSettle`, `SlotsHold`, `RulesKeepTheirSchedule` | `AliveIsMortal`, `ClaimIsTheSlayers`, `ClaimsAreSettled`, `SlotsAreReal`, `ShortRuleIsScheduled` |
| `MobBrainProofs` | `BrainInvariant`, `BrainsStayCoherent` | `BrainsAreCoherent` |
| `ConnectionProofs` | `HeartbeatInvariant`, `TimeoutsAreEarned`, `StreamInvariant`, `SequencersStayInStep`, `ConformingClientsAreKept` | `TimeoutIsEarned`, `SequencersAgree`, `ConformingIsKept` |
| `PlayerBodyProofs` | `RecoveryInvariant`, `RecoveryTypes`, `ForcedWalksEnd`, `SyncInvariant`, `ClientsAreInSync`, `GainCounts`, `ReloadInvariant`, `ReloadsAreNeutral` | `ForcedWalkEnds`, `SyncIsComplete`, `ReloadIsNeutral` |

The inductive invariants, and why the properties are not inductive alone:

* **PersistenceLanes.**  `Shape` says what a lane and its running operation look like
  together (at most one operation per player, running only under `in_flight`, an empty
  slot is exactly `Nothing`); `OneWriterPerPlayer` follows from it.  `Order` adds the
  order of the versions in the row, running, waiting, queued and not yet admitted:
  rows cannot regress and an acknowledged version is in the row because of it.  The
  whereabouts of the newest snapshot need one more conjunct on replies and history
  (`Newest`).  The refinement needs `RepliesAreOwed`: the reply channel that a lane or a
  running statement holds was not told Ok, and no two hold the same one.  Without it a
  failure reported through a channel that had said Ok would take an acknowledgement
  back, and those of `DurableRows` only grow.
  `WorkerImplementsRows` then takes the steps apart: an admission is `DurableRows`'
  admission, an applied statement moves one row on, a join that reports Ok is an
  acknowledgement of something the row has reached, and all other steps change nothing
  that is visible (`ShowsNothing`).
* **SessionLease.**  `LeaseInv` has three parts: from the claim on a handler holds the lease
  or has lost it in one of the named ways (`LeaseHeld`), an entity in a core is that of a
  connection in game or handing off (`BodiesAreServed`), and whoever's exit committed
  does not write again (`ExitsAreFinal`).  `ServedOwns` misses the handler that has
  claimed and is not served yet; `SingleRuntime` misses the epochs of exits still in
  the worker.
  The refinement needs `OwnerInv`: the row is ACTIVE exactly while it has an owner (so a
  token written over a held row, or a claim of an AUTHED one, takes it from nobody), and
  nobody who holds the lease or has lost it is still before its claim.
  `LeaseImplementsOwner` sorts the steps: a claim, a release that finds its own row and a
  committed exit are `SingleOwner`'s (`ResumeClaims`, `ReleaseReleases`,
  `ExitCommitsExit`), a step that leaves the rows alone at most ends connections
  (`OnlyStops`), and every other statement at most ages or refreshes the lease
  (`OnlyAges`).
* **Replication.**  `GraphInv` is `GraphAgrees` and `CleanIsExact` with the types of the graph.
  The lemmas are about the operations of `ReplicationGraph`: reindexing after a reconcile
  and the removal of a player or a mob keep the two maps inverse.
  `ViewInv` adds to `ViewConverges` the types of what lies between an outbox and the client
  and that a net id not handed out yet has no connection.  `ComesToShow` says what a client
  will show after its channel and its outbox; the lemmas take the events apart in parts
  (`ShownInParts`) and say what each part does: spawns add, despawns take away, movements
  change nothing, a restart's own despawn and what follows it build the view anew.  So a
  reconcile turns the old visible set into the new one (`DiffShown`), an event moved
  from the outbox to the channel changes nothing, and neither does a movement that is sent
  before reliable events that did not fit (`SentMoveShown`).  That an entity's observers are
  exactly those who will be told of its end is `GraphAgrees`, which the steps use.
* **PlayerSaves.**  The requests on their way are read as one function, `Pipe`: the running
  statement, the lane's exit and save, the channel.  `Ordered` says that saves in it are in
  order, that each waiter waits for one request and that nothing follows a select save;
  `AllFit`, `PlayerFits` and `HandFits` relate every request to the row, the player and the
  handler; `Covered` is `NothingForgotten` in every stage of a tick and during a handoff.
  The proof needs them at once: a merge keeps the newer of two saves only because the
  pipe is ordered, and an acknowledgement that arrives late proves something only
  because request and waiter fit.
* **ActorLife.**  The properties speak of certain moments of a tick; `LifeInv` says what holds
  in between, stage by stage: whoever lives without hit points is a victim in `depleted`
  that `life` will make dead (`MortalInTick`, `VictimsAreFresh`), a claim names the slayer and
  its mob is about to be settled (`ClaimsInTick`), and a rule that waits has its entry in
  the heap although entries go stale (`WaitsAreScheduled`).  `ShortRuleIsScheduled` is an
  action property and follows from the invariant with a lemma on single steps.
* **MobBrain.**  `BrainsAreCoherent` is inductive with the types; the work is in the stages of a
  thought.  After `AfterWindup`, `AfterAggro`, `AfterAcquire` and `AfterValidate` the brain is
  past its wind-up and coherent (`Awake`), and each handler ends in an outcome whose mode,
  target and motion agree (`Sound`).
* **Connection.**  `HeartbeatInv` relates the silence of the client to the time left until the
  next tick: one that was not asked cannot have been silent for three intervals when it comes,
  although Login, Select and Loading judge by a `now` taken before they waited.  A send that
  stalled is the exception `TimeoutIsEarned` names: while the task is in it the ticker falls
  due once and the silence grows, so the bound holds only for clients with `~stalled`.
  `StreamInv` reads buffer and network as one stream of whole packets (`Framed`) whose
  sequence bytes are the ones the server will expect (`InStep`), with nothing behind a packet
  that ends the phase (`NothingBehind`), and says what the client has been told of the phase
  and whether it waits for an answer (`PhaseIsTold`, `RequestIsAwaited`,
  `HandshakeAlternates`, `HandshakeIsOver`).  `ConformingClientsAreKept` assumes
  `~AnswersAlways`: with a client that answers every RequestHandshake it is false, which
  is the finding of `ConnectionResync`.
* **PlayerStats and Recovery.**  `SyncInv`: a stat the client would be left wrong about is marked
  and a marked kernel is dirty (`Synced`), so no merge or dropped report loses a delta.
  `RecoveryInv` adds to `ForcedWalkEnds` that the living have hit points, which a
  wound needs to leave a number of them, and the types.
  `ReloadInv` says that a player's base stats are worth its saved progression (`Worth`):
  level and experience as saved, the points they earn less the allocated ones, which are
  never more.  `GainCounts` is the lemma behind it: the points `crossed_level_steps` hands
  out over any number of steps and levels are what `derive_available_stat_points` finds
  afterwards less what it found before.

Two of these invariants are about recursive functions (`ExpGain` over the levels,
`ShownAfter`, `Picked` and `PushedAll` over a sequence).  The induction principles of the
library take an operator and cannot be instantiated here, so the inductions are made from
what they rest on: a set of numbers that is not empty has a least member
(`WFMin` of `WellFoundedInduction`).  `UpTo` and `DownFromMaxLevel` are that argument once
for each direction, for sets instead of operators; `Carried` gives a function its values
step by step and `TakesSteps` says that a recursive function is it.

What stays with TLC, and why:

* liveness (`EveryRequestAnswered`, `ShutdownDrains`, `NewestLands`, `EveryChangeLands`,
  `DeadPlayersReturn`, `ComesHome`, `ProvocationIsAnswered`, `PursuitStrikes`, `SilenceEnds`,
  `DrainEmpties`, `StaminaComesBack`, `RecoveryCompletes`): the prover does not reason about
  fairness and ENABLED.

Every invariant and every action property of a passing run is stated by a theorem.

## 5. Findings

* A client that sends packets continuously never has its lease refreshed:
  `handle_session_tick` writes the heartbeat only when the client was silent for
  an interval.  After `session_stale_secs` the lease of a live player may be
  taken over (`SessionLeaseChatty`).
* `update_session_heartbeat` names the account only, so a lease "retained until
  stale-session recovery" is kept alive by any other screen of the account
  (`SessionLeaseRetained`).
* A movement may overtake the reliable spawn of the entity it moves:
  `PlayerOutbox::flush` goes on to the movements after a reliable event did not
  fit, and the connection may have made room in between.  The client shows the
  old place until the entity moves again (`ReplicationStalled`).

* After the handshake the server still sends `RequestHandshake` (on entering the
  game and when a time sync drifts) and `handle_session_control` disconnects a client
  that answers it, as the client of the repository's own tests does
  (`ConnectionResync`).
* A drain may miss a connection for ever.  `ServerDrainController` keeps no receiver of its
  `watch` channel and `begin_draining` ignores that its send stores nothing without one;
  each phase checks the flag first and subscribes after further awaits.  If the drain
  begins in between and no other connection of the core is subscribed,
  `wait_for_server_drain` waits on a value that stays false, though the core announces
  that it drains its active connections (`ConnectionDrain`).

Windows met while modelling that no property covers, since no document promises
otherwise:

* an intent names the player and not the entity, so one queued by a replaced
  connection reaches its successor (`ingress.rs:53`);
* the handoff's snapshot is captured before its exit is admitted (`relocation.rs:94`),
  and an exit pushes the waiting save out and may then fail (`player_persistence.rs:125`);
* an autosave in the middle of a movement stores the sampled place and clears the mark
  (`persistence.rs:118`);
* a dead player who is nearest hides a living one from an aggressive mob
  (`spatial.rs:405`);
* a connection in the Handshake phase that sends nothing stays for ever
  (`handshake.rs:134`);
* the pause of a dead player's tickers clears the stamina timer without telling the
  client (`stat_tickers.rs:119`), and a client without stamina may ask to run
  (`actions.rs:137`);
* a full inbound queue of a map blocks the thread of the connections (`bridge.rs:106`);
* a client that stays connected and reads nothing keeps its connection's task in a send
  for ever, out of reach of timeout and drain (`ingame.rs:394`); the properties name it as
  their exception.

## 6. Plan

1. done: the persistence worker with its proofs and the abstract specification it
   implements; the session lease and handoff; the visibility graph with outboxes and
   backpressure; the player's saves; death, restart, rewards and spawn rules; the mob
   brain; connection phases, framing, handshake and drain; progression, the stat kernel
   and the tickers.
2. done: the proofs of section 4, the refinements of `DurableRows` and `SingleOwner` among
   them.
3. the inbound queues of a map and their backpressure on connections; the gateways'
   channel directory, map resolver and cluster events; the auth server's token slots.

## Not modelled

* Navigation (`zohar-sim/src/navigation*`): a search over a grid in floating point, a
  pure function whose result the models take as a choice of place.
* Packet layouts: generated by a macro from field lists, no state.
* Gateway infrastructure and cluster events: caches over PostgreSQL notifications and
  Kubernetes; what the models need of them is whether an endpoint was found, which is a choice.
* The auth server: stateless password and token checks; `SessionLease` sees a token as
  accepted or expired.
* The database backend beyond sessions and snapshots: single statements and conversions of
  rows.
* Damage and stat formulas in floating point, content loading, the coordinates of
  maps, portals, the Agones client and the binaries: immutable data, pure computation or pure I/O.
* The 32-bit millisecond clock of the wire, which wraps after 49 days of uptime: ages
  in `Connection` are differences that have not wrapped.
