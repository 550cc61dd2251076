----------------------------- MODULE PlayerSaves -----------------------------
(***************************************************************************)
(* How what happens to a player on a map reaches its database row: the     *)
(* dirty marks of a tick, the autosave schedule, durable flushes of core   *)
(* stat changes, and the snapshots taken when the player leaves or is      *)
(* handed off (zohar-sim runtime/player/persistence.rs, progression.rs,    *)
(* stat_sync.rs, facts.rs, time.rs; zohar-gamesrv handlers/ingame.rs).     *)
(*                                                                         *)
(* The map runtime is one thread; `stage' is its place in the frame.  The  *)
(* persistence worker is the one of PersistenceLanes with one player and   *)
(* without panics: the channel, the lane's save and exit, and the running  *)
(* statement.  How long a retry waits is left open.                        *)
(*                                                                         *)
(* A player's durable state is a pair: `prog', the core stat allocations   *)
(* made, and `res', everything else (resources, experience, place).        *)
(***************************************************************************)
EXTENDS Naturals, Sequences

CONSTANTS
    QueueCap,      \* capacity of the worker's channel
    IntentCap,     \* MAX_PROGRESSION_INTENTS_PER_TICK
    Interval,      \* AUTOSAVE_INTERVAL in ticks
    RetryDelay,    \* AUTOSAVE_RETRY_DELAY in ticks
    MaxRes,        \* bound: other changes
    MaxProg,       \* bound: core stat changes
    MaxEpoch       \* bound: committed exits

ASSUME SavesAssumption ==
    /\ QueueCap \in Nat \ {0} /\ IntentCap \in Nat \ {0}
    /\ Interval \in Nat \ {0} /\ RetryDelay \in Nat \ {0}
    /\ MaxRes \in Nat /\ MaxProg \in Nat /\ MaxEpoch \in Nat

VARIABLES
    stage,      \* where the map thread is
    present,    \* the player has an entity
    epoch,      \* its runtime_epoch
    live,       \* its durable state
    fact,       \* FrameFacts.persistence.player_dirty contains it
    unsynced,   \* its stats hold deltas not yet drained
    dirty,      \* PlayerPersistenceState.dirty
    due,        \* ticks until autosave.is_due
    intents,    \* length of PlayerProgressionIntentQueue
    flush,      \* PlayerPendingDurableFlush and its oneshot
    hand,       \* the connection handler's save, if any
    chan,       \* the worker's channel
    save,       \* pending_save
    exit,       \* pending_exit
    running,    \* the statement in flight
    row,        \* the database row
    unheard     \* history: a failure that nobody will act on

simVars == <<stage, present, epoch, live, fact, unsynced, dirty, due, intents>>
vars == <<stage, present, epoch, live, fact, unsynced, dirty, due, intents,
          flush, hand, chan, save, exit, running, row, unheard>>

-----------------------------------------------------------------------------
Epochs == 0 .. MaxEpoch
Snapshots == [res : 0 .. MaxRes, prog : 0 .. MaxProg]
\* Who holds the receiver of a request's oneshot: no oneshot, the simulation,
\* the handler, or nobody any more.
Repliers == {"none", "sim", "hand", "gone"}
None == [kind |-> "none"]

Saves == [kind : {"autosave", "flush"}, snap : Snapshots, epoch : Epochs,
          reply : Repliers]
Exits == [kind : {"exit"}, snap : Snapshots, epoch : Epochs,
          reply : {"hand", "gone"}]

\* A player to whom nothing has happened.
Nothing == [res |-> 0, prog |-> 0]

\* a contains everything b contains.
AtLeast(a, b) == a.res >= b.res /\ a.prog >= b.prog

TypeOK ==
    /\ stage \in {"frame", "intents", "finalize", "act", "autosave"}
    /\ present \in BOOLEAN
    /\ epoch \in Epochs
    /\ live \in Snapshots
    /\ fact \in BOOLEAN /\ unsynced \in BOOLEAN /\ dirty \in BOOLEAN
    /\ due \in Nat
    /\ intents \in 0 .. IntentCap
    /\ flush \in {"none", "waiting", "ok", "err"}
    /\ hand \in {None} \cup
                [kind : {"handoff", "disconnect", "select", "left"}, snap : Snapshots,
                 epoch : Epochs, phase : {"captured", "sent", "ok", "err"}]
    /\ chan \in Seq(Saves \cup Exits) /\ Len(chan) <= QueueCap
    /\ save \in {None} \cup Saves
    /\ exit \in {None} \cup Exits
    /\ running \in {None} \cup Saves \cup Exits
    /\ row \in [snap : Snapshots, epoch : Epochs]
    /\ unheard \in BOOLEAN

\* handle_player_enter with PlayerPersistenceState::initial; phased picks the
\* first due time from the player's id.
Entered(snap, e) ==
    /\ present' = TRUE
    /\ live' = snap /\ epoch' = e
    /\ fact' = FALSE /\ unsynced' = FALSE /\ dirty' = FALSE
    /\ due' \in 1 .. Interval
    /\ intents' = 0
    /\ flush' = "none"

Init ==
    /\ stage = "frame"
    /\ present = TRUE
    /\ live = Nothing /\ epoch = 0
    /\ fact = FALSE /\ unsynced = FALSE /\ dirty = FALSE
    /\ due \in 1 .. Interval
    /\ intents = 0 /\ flush = "none"
    /\ hand = None /\ chan = <<>> /\ save = None /\ exit = None
    /\ running = None
    /\ row = [snap |-> live, epoch |-> 0]
    /\ unheard = FALSE

-----------------------------------------------------------------------------
(* drain_inbound.                                                          *)

Frame == stage = "frame" /\ present

\* ClientIntent::Progression: the oldest is dropped when the queue is full.
WithIntent(n) == IF n < IntentCap THEN n + 1 ELSE n

IntentArrives ==
    /\ Frame
    /\ intents' = WithIntent(intents)
    /\ UNCHANGED <<stage, present, epoch, live, fact, unsynced, dirty, due,
                   flush, hand, chan, save, exit, running, row, unheard>>

Captured(kind) == [kind |-> kind, snap |-> live, epoch |-> epoch,
                   phase |-> "captured"]

\* CapturePlayerSnapshot for a handoff: the player stays.
CapturePlayerSnapshot ==
    /\ Frame /\ hand = None
    /\ hand' = Captured("handoff")
    /\ UNCHANGED <<simVars, flush, chan, save, exit, running, row, unheard>>

\* A receiver is dropped: its requests go on without it.
Deaf(r, who) == IF r # None /\ r.reply = who THEN [r EXCEPT !.reply = "gone"] ELSE r
Forsaken(who) ==
    /\ chan' = [i \in DOMAIN chan |-> Deaf(chan[i], who)]
    /\ save' = Deaf(save, who)
    /\ exit' = Deaf(exit, who)
    /\ running' = Deaf(running, who)

\* despawn drops every component, the receiver of a pending flush included.
Despawned ==
    /\ present' = FALSE
    /\ fact' = FALSE /\ unsynced' = FALSE /\ dirty' = FALSE
    /\ intents' = 0
    /\ flush' = "none"
    /\ Forsaken("sim")
    /\ live' = Nothing /\ epoch' = 0 /\ due' = 0
    /\ UNCHANGED stage

\* leave_player_and_snapshot, for a disconnect or for character select.
LeaveAndSnapshot(kind) ==
    /\ Frame /\ hand = None
    /\ hand' = Captured(kind)
    /\ Despawned
    /\ UNCHANGED <<row, unheard>>

-----------------------------------------------------------------------------
(* Sense: process_player_progression.                                      *)

\* finalize_pending_save: a failed or dropped flush marks the player dirty.
FinalizePendingSave ==
    /\ flush' = IF flush = "waiting" THEN flush ELSE "none"
    /\ fact' = (fact \/ flush = "err")

\* SimTickerClock: is_due once the time is reached; a tick brings it nearer.
Nearer(d) == IF d > 0 THEN d - 1 ELSE 0

\* The tick starts: simulation time advances, the flush is polled; a flush
\* still waiting skips the intents, and so does an empty queue.
BeginTick ==
    /\ Frame
    /\ FinalizePendingSave
    /\ stage' = IF flush' = "waiting" \/ intents = 0 THEN "act" ELSE "intents"
    /\ due' = Nearer(due)
    /\ UNCHANGED <<present, epoch, live, unsynced, dirty, intents, hand, chan,
                   save, exit, running, row, unheard>>

Request(kind, snap, reply) ==
    [kind |-> kind, snap |-> snap, epoch |-> epoch, reply |-> reply]

\* Mutant: the snapshot is taken with the progression as it was.
FlushSnapshotBefore == live

\* capture_player_snapshot with the validated progression, before it is
\* applied.
FlushSnapshot == [live EXCEPT !.prog = @ + 1]

\* enqueue_progression_intents: k intents are refused (validation, or a full
\* queue); the next one, if any, is flushed and applied and blocks the rest.
TakeIntents ==
    /\ stage = "intents"
    /\ \E k \in 0 .. intents :
         \/ /\ k = intents
            /\ intents' = 0
            /\ UNCHANGED <<live, unsynced, flush, chan, unheard>>
         \/ /\ k < intents
            /\ Len(chan) < QueueCap
            /\ live.prog < MaxProg
            /\ live' = [live EXCEPT !.prog = @ + 1]
            /\ chan' = Append(chan, Request("flush", FlushSnapshot, "sim"))
            /\ flush' = "waiting"
            /\ unsynced' = TRUE
            /\ intents' = intents - k - 1
            /\ unheard' = FALSE
    /\ stage' = "finalize"
    /\ UNCHANGED <<present, epoch, fact, dirty, due, hand, save, exit, running, row>>

FinalizeAgain ==
    /\ stage = "finalize"
    /\ FinalizePendingSave
    /\ stage' = "act"
    /\ UNCHANGED <<present, epoch, live, unsynced, dirty, due, intents, hand,
                   chan, save, exit, running, row, unheard>>

-----------------------------------------------------------------------------
(* PlayerActions to Resources, Projection, StatsFlush, Autosave.           *)

\* A movement or restart marks the player dirty, a resource change leaves a
\* fact of its own that counts as a mark; a change of stats (resources,
\* experience, level) also leaves deltas to send.
Change ==
    /\ stage = "act"
    /\ live.res < MaxRes
    /\ live' = [live EXCEPT !.res = @ + 1]
    /\ fact' = TRUE
    /\ unsynced' \in {unsynced, TRUE}
    /\ UNCHANGED <<stage, present, epoch, dirty, due, intents, flush, hand,
                   chan, save, exit, running, row, unheard>>

\* flush_player_stats_sync marks a player whose stats hold deltas, and drains
\* them.
SyncMarks == fact' = unsynced /\ unsynced' = FALSE

\* Mutant: the facts are cleared before they are looked at.
ProjectTooLate ==
    /\ stage = "act"
    /\ dirty' = dirty
    /\ SyncMarks
    /\ stage' = "autosave"
    /\ UNCHANGED <<present, epoch, live, due, intents, flush, hand, chan, save,
                   exit, running, row, unheard>>

\* process_player_dirty_events, then project_frame_facts, which ends with
\* reset_frame_facts; then the stats are synced, a mark of which waits for
\* the next tick's projection.  None of it is seen outside the thread.
Project ==
    /\ stage = "act"
    /\ dirty' = (dirty \/ fact)
    /\ SyncMarks
    /\ stage' = "autosave"
    /\ UNCHANGED <<present, epoch, live, due, intents, flush, hand, chan, save,
                   exit, running, row, unheard>>

\* Mutant: dirty is cleared although the queue was full.
AutosaveClearsAlways ==
    /\ dirty' = FALSE
    /\ \/ /\ Len(chan) < QueueCap
          /\ chan' = Append(chan, Request("autosave", live, "none"))
          /\ due' = Interval
          /\ unheard' = FALSE
       \/ /\ Len(chan) = QueueCap
          /\ due' = RetryDelay
          /\ UNCHANGED <<chan, unheard>>

\* try_schedule_autosave: accepted, or refused by a full channel.
ScheduleAutosave ==
    \/ /\ Len(chan) < QueueCap
       /\ chan' = Append(chan, Request("autosave", live, "none"))
       /\ dirty' = FALSE
       /\ due' = Interval
       /\ unheard' = FALSE
    \/ /\ Len(chan) = QueueCap
       /\ due' = RetryDelay
       /\ UNCHANGED <<dirty, chan, unheard>>

\* enqueue_due_autosaves.
EnqueueDueAutosaves ==
    /\ stage = "autosave"
    /\ IF due > 0 \/ flush # "none"
       THEN UNCHANGED <<dirty, due, chan, unheard>>
       ELSE IF ~dirty
            THEN due' = Interval /\ UNCHANGED <<dirty, chan, unheard>>
            ELSE ScheduleAutosave
    /\ stage' = "frame"
    /\ UNCHANGED <<present, epoch, live, fact, unsynced, intents, flush, hand,
                   save, exit, running, row>>

-----------------------------------------------------------------------------
(* The connection handler: handoff, disconnect, character select.          *)

\* schedule_flush or commit_player_exit is admitted.
HandSends ==
    /\ hand # None /\ hand.phase = "captured"
    /\ Len(chan) < QueueCap
    /\ chan' = Append(chan, [kind |-> IF hand.kind = "select" THEN "flush" ELSE "exit",
                             snap |-> hand.snap, epoch |-> hand.epoch,
                             reply |-> "hand"])
    /\ hand' = [hand EXCEPT !.phase = "sent"]
    /\ UNCHANGED <<simVars, flush, save, exit, running, row, unheard>>

\* run_persistence_op gives up; what was admitted stays with the worker.
HandTimesOut ==
    /\ hand # None /\ hand.phase \in {"captured", "sent"}
    /\ hand' = [hand EXCEPT !.phase = "err"]
    /\ Forsaken("hand")
    /\ UNCHANGED <<simVars, flush, row, unheard>>

\* A handoff that committed ends with send_player_leave; one that did not
\* leaves the player in game.
HandoffEnds ==
    /\ hand # None /\ hand.kind = "handoff" /\ hand.phase \in {"ok", "err"}
    /\ stage = "frame"
    /\ IF hand.phase = "ok" THEN Despawned
       ELSE UNCHANGED <<simVars, flush, chan, save, exit, running>>
    /\ hand' = IF hand.phase = "ok" THEN [hand EXCEPT !.kind = "left"] ELSE None
    /\ UNCHANGED <<row, unheard>>

\* The flush of the way to character select failed: disconnect instead.
SelectFails ==
    /\ hand # None /\ hand.kind = "select" /\ hand.phase = "err"
    /\ hand' = [hand EXCEPT !.kind = "disconnect", !.phase = "captured"]
    /\ UNCHANGED <<simVars, flush, chan, save, exit, running, row, unheard>>

\* The player comes back to this map, from character select or after an exit
\* that committed, and is loaded from its row.
Reenter ==
    /\ ~present /\ stage = "frame"
    /\ hand # None /\ hand.kind # "handoff" /\ hand.phase = "ok"
    /\ Entered(row.snap, row.epoch)
    /\ hand' = None
    /\ unheard' = FALSE
    /\ UNCHANGED <<stage, chan, save, exit, running, row>>

-----------------------------------------------------------------------------
(* The persistence worker.                                                 *)

\* Use of the oneshots in `who': the simulation's or the handler's.
Answer(who, ok) ==
    /\ flush' = IF "sim" \in who /\ flush = "waiting"
                THEN IF ok THEN "ok" ELSE "err" ELSE flush
    /\ hand' = IF "hand" \in who /\ hand # None /\ hand.phase = "sent"
               THEN [hand EXCEPT !.phase = IF ok THEN "ok" ELSE "err"] ELSE hand

\* Two saves become one: the newest snapshot, the higher urgency, the first
\* reply.
Merged(r) ==
    [r EXCEPT !.kind = IF save.kind = "flush" THEN "flush" ELSE @,
              !.reply = IF save.reply = "none" THEN @ ELSE save.reply]

\* handle_request, SaveSnapshot.  A save that meets a waiting exit is
\* refused; one that finds a reply waiting gets an error of its own.
TakeSave(r) ==
    \/ /\ exit # None
       /\ Answer({r.reply}, FALSE)
       /\ UNCHANGED <<save, exit>>
    \/ /\ exit = None
       /\ save' = IF save = None THEN r ELSE Merged(r)
       /\ IF save # None /\ save.reply # "none"
          THEN Answer({r.reply}, FALSE) ELSE UNCHANGED <<flush, hand>>
       /\ UNCHANGED exit

\* handle_request, CommitPlayerExit: replaces whatever waits, the replies of
\* which are dropped.
TakeExit(r) ==
    /\ exit' = r
    /\ save' = None
    /\ Answer({w.reply : w \in {save, exit} \ {None}}, FALSE)

\* What is in flight is not touched by a request.
Take ==
    /\ chan # <<>>
    /\ chan' = Tail(chan)
    /\ LET r == Head(chan) IN
         IF r.kind = "exit" THEN TakeExit(r) ELSE TakeSave(r)
    /\ UNCHANGED <<simVars, running, row, unheard>>

\* dispatch_ready_ops: one statement at a time, the exit first.
Dispatch ==
    /\ running = None
    /\ \/ /\ exit # None
          /\ running' = exit /\ exit' = None
          /\ UNCHANGED save
       \/ /\ exit = None /\ save # None
          /\ running' = save /\ save' = None
          /\ UNCHANGED exit
    /\ UNCHANGED <<simVars, flush, hand, chan, row, unheard>>

\* Mutant: WHERE names the player only.
OwnsRowAnyEpoch(r) == TRUE

\* WHERE id = ... AND runtime_epoch = ...
OwnsRow(r) == r.epoch = row.epoch

\* Mutant: a flush of another epoch is taken for success too.
AcceptedAlways(r) == TRUE

\* The statement's outcome as the reply sees it: an autosave of another epoch
\* is taken for success, a flush for an error.
Accepted(r) == r.kind = "autosave" \/ OwnsRow(r)

RunningSave == running # None /\ running.kind # "exit"
RunningExit == running # None /\ running.kind = "exit"

\* save_player_snapshot answers: written, or no row of that epoch.
SaveAnswers ==
    /\ RunningSave
    /\ row' = IF OwnsRow(running) THEN [row EXCEPT !.snap = running.snap] ELSE row
    /\ Answer({running.reply}, Accepted(running))
    /\ running' = None
    /\ UNCHANGED <<simVars, chan, save, exit, unheard>>

\* The statement fails, with or without effect: an autosave is tried again
\* unless something newer waits, a flush is reported.
SaveFails ==
    /\ RunningSave
    /\ \/ UNCHANGED row
       \/ OwnsRow(running) /\ row' = [row EXCEPT !.snap = running.snap]
    /\ running' = None
    /\ IF running.kind = "autosave"
       THEN /\ save' = IF exit = None /\ save = None THEN running ELSE save
            /\ UNCHANGED <<flush, hand>>
       ELSE /\ Answer({running.reply}, FALSE)
            /\ UNCHANGED save
    /\ unheard' = (unheard \/ (present /\ running.reply = "gone"))
    /\ UNCHANGED <<simVars, chan, exit>>

\* commit_player_exit commits, and its answer arrives or is lost.
ExitCommits ==
    /\ RunningExit
    /\ OwnsRow(running) /\ row.epoch < MaxEpoch
    /\ row' = [snap |-> running.snap, epoch |-> row.epoch + 1]
    /\ running' = None
    /\ \E ok \in BOOLEAN : Answer({running.reply}, ok)
    /\ UNCHANGED <<simVars, chan, save, exit, unheard>>

\* It rolls back: whatever it replaced or kept out is lost with it, and a
\* handler that stays in game only tells the player.
ExitFails ==
    /\ RunningExit
    /\ running' = None
    /\ Answer({running.reply}, FALSE)
    /\ unheard' = present
    /\ UNCHANGED <<simVars, chan, save, exit, row>>

-----------------------------------------------------------------------------
\* The player is gone and its last save failed: stale-session recovery.
Lost ==
    /\ ~present /\ stage = "frame" /\ hand # None
    /\ hand.kind = "disconnect" /\ hand.phase = "err"
    /\ UNCHANGED vars

Sim == \/ IntentArrives \/ CapturePlayerSnapshot
       \/ \E k \in {"disconnect", "select"} : LeaveAndSnapshot(k)
       \/ BeginTick \/ TakeIntents \/ FinalizeAgain \/ Change \/ Project
       \/ EnqueueDueAutosaves
Handler == HandSends \/ HandTimesOut \/ HandoffEnds \/ SelectFails \/ Reenter
Worker == Take \/ Dispatch \/ SaveAnswers \/ SaveFails \/ ExitCommits \/ ExitFails

Next == Sim \/ Handler \/ Worker \/ Lost

Spec == Init /\ [][Next]_vars

(* Fairness.  The map thread runs frames for ever; the handler's deadline  *)
(* passes and its task goes on; the worker takes what is queued and        *)
(* PostgreSQL answers; a save repeated for ever does not fail for ever.    *)
Tick == BeginTick \/ TakeIntents \/ FinalizeAgain \/ Project
        \/ EnqueueDueAutosaves
FairSpec ==
    /\ Spec
    /\ WF_vars(Tick)
    /\ WF_vars(HandTimesOut \/ HandoffEnds)
    /\ WF_vars(Take) /\ WF_vars(Dispatch)
    /\ WF_vars(ExitCommits \/ ExitFails)
    /\ SF_vars(SaveAnswers)

-----------------------------------------------------------------------------
(* Properties.                                                             *)

\* What the worker still holds, of the player's present runtime.
Held == {r \in {chan[i] : i \in DOMAIN chan} \cup {save, running} :
            r # None /\ r.kind # "exit" /\ r.epoch = epoch}

\* An exit is on its way: the player may be gone when it is answered.
ExitPending == \/ hand # None \/ exit # None \/ RunningExit
               \/ \E i \in DOMAIN chan : chan[i].kind = "exit"

\* Between two ticks no change is forgotten: it is in the row, held by the
\* worker, or the player still carries a mark that will schedule it.  Left out
\* are a runtime whose epoch is over, a handoff that failed (its exit pushed
\* the waiting save out of the lane), and a save that was merged with a flush
\* of the player's previous stay, the failure of which nobody hears.
NothingForgotten ==
    (stage = "frame" /\ present /\ row.epoch = epoch /\ ~unheard /\ ~ExitPending)
    => \/ dirty \/ fact \/ flush = "err"
       \/ AtLeast(row.snap, live)
       \/ \E r \in Held : AtLeast(r.snap, live)

\* A core stat change whose flush was answered Ok is in the row of the epoch
\* it was made under, also when the answer came for a merged save.
FlushedIsDurable ==
    (flush = "ok" /\ row.epoch = epoch) => row.snap.prog = live.prog

\* Whoever left, to character select or for good, and was told that it was
\* saved comes back to everything it had when its snapshot was taken.
ComesBackToAll ==
    (hand # None /\ hand.phase = "ok") => AtLeast(row.snap, hand.snap)

\* Within one epoch the row's content never goes back, whatever was merged,
\* retried, refused or answered late.
ContentNeverRegresses ==
    [][row'.epoch = row.epoch => AtLeast(row'.snap, row.snap)]_vars

Excused == ~present \/ unheard \/ row.epoch # epoch

\* Whatever happened to a player who stays is eventually in the row, although
\* flushes fail and the queue refuses autosaves: "player state will retry on
\* the next autosave".
EveryChangeLands ==
    /\ \A n \in 1 .. MaxRes : (present /\ live.res >= n) ~> (row.snap.res >= n \/ Excused)
    /\ \A n \in 1 .. MaxProg : (present /\ live.prog >= n) ~> (row.snap.prog >= n \/ Excused)
=============================================================================
