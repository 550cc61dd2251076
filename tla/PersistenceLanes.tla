-------------------------- MODULE PersistenceLanes --------------------------
(***************************************************************************)
(* The player persistence worker of a map core: the bounded request queue  *)
(* (zohar-sim persistence.rs), the per-player lanes and the loop of        *)
(* run_player_persistence_worker (zohar-core player_persistence.rs), and   *)
(* the two statements it runs against PostgreSQL, save_player_snapshot and *)
(* commit_player_exit (zohar-db queries.rs).                               *)
(*                                                                         *)
(* A snapshot is abstracted to the number `ver' of the request that        *)
(* carries it (the n-th request admitted for its player) and to the        *)
(* runtime epoch it was taken under.  ver = 0 means "no request": it       *)
(* stands for None in lane.pending_save, lane.pending_exit and in the      *)
(* optional reply channels.  An absent lane is the idle lane.              *)
(***************************************************************************)
EXTENDS Naturals, Sequences, FiniteSets

CONSTANTS
    Players,         \* the players whose requests reach this worker
    MaxInFlight,     \* MAX_CONCURRENT_SAVES
    QueueCap,        \* capacity of the mpsc channel
    MaxSubmits,      \* bound: requests admitted per player
    MaxEpoch,        \* bound: runtime epoch of a player row
    Deletable,       \* players another gateway may soft-delete meanwhile
    MayPanic,        \* whether a spawned database task may panic
    MayLoseOwnership \* whether another core may bump a player's epoch

ASSUME LanesAssumption ==
    /\ IsFiniteSet(Players)
    /\ MaxInFlight \in Nat \ {0}
    /\ QueueCap \in Nat \ {0}
    /\ MaxSubmits \in Nat
    /\ MaxEpoch \in Nat
    /\ Deletable \subseteq Players
    /\ MayPanic \in BOOLEAN
    /\ MayLoseOwnership \in BOOLEAN

VARIABLES
    queue,           \* requests sent and not yet received
    sendersGone,     \* every sender handle has been dropped
    receiverClosed,  \* the loop has seen recv() return None
    worker,          \* where the loop is: "dispatch", "select", "ended", "panicked"
    lane,            \* lanes: HashMap<PlayerId, PlayerPersistenceLane>
    inFlight,        \* the JoinSet: operations spawned and not yet joined
    row,             \* game.player_runtime_state: last snapshot and epoch
    deleted,         \* players whose deleted_at is set
    owner,           \* epoch the local runtime loaded the player under
    reply,           \* fate of the oneshot of each request
    latest,          \* history: last request admitted for each player
    swallowed,       \* history: last autosave refused by a pending exit
    reported         \* history: last snapshot whose failure was replied

vars == <<queue, sendersGone, receiverClosed, worker, lane, inFlight, row,
          deleted, owner, reply, latest, swallowed, reported>>

Versions == 1 .. MaxSubmits
Epochs == 0 .. MaxEpoch
Kinds == {"autosave", "flush", "exit"}

\* What a lane may hold back; Nothing is the None of both Options.
Pending == [kind : Kinds, ver : 0 .. MaxSubmits, epoch : Epochs,
            reply : 0 .. MaxSubmits]
Nothing == [kind |-> "autosave", ver |-> 0, epoch |-> 0, reply |-> 0]

Requests == [player : Players, kind : Kinds, ver : Versions, epoch : Epochs]

\* struct PlayerPersistenceLane.  retry abstracts retry_at: unset, in the
\* future, or reached.
Lanes == [inFlight : BOOLEAN, save : Pending, exit : Pending,
          retry : {"none", "waiting", "due"}]
IdleLane == [inFlight |-> FALSE, save |-> Nothing, exit |-> Nothing,
             retry |-> "none"]

\* A spawned task: not yet answered by the database, or finished.
Ops == [player : Players, kind : Kinds, ver : Versions, epoch : Epochs,
        reply : 0 .. MaxSubmits, phase : {"running", "ok", "err"}]

ReplyStates == {"none", "open", "ok", "err", "dropped"}

TypeOK ==
    /\ queue \in Seq(Requests)
    /\ sendersGone \in BOOLEAN
    /\ receiverClosed \in BOOLEAN
    /\ worker \in {"dispatch", "select", "ended", "panicked"}
    /\ lane \in [Players -> Lanes]
    /\ inFlight \in SUBSET Ops
    /\ row \in [Players -> [ver : 0 .. MaxSubmits, epoch : Epochs]]
    /\ deleted \in SUBSET Players
    /\ owner \in [Players -> Epochs]
    /\ reply \in [Players -> [Versions -> ReplyStates]]
    /\ latest \in [Players -> [ver : 0 .. MaxSubmits, epoch : Epochs]]
    /\ swallowed \in [Players -> [ver : 0 .. MaxSubmits,
                                  exit : 0 .. MaxSubmits]]
    /\ reported \in [Players -> 0 .. MaxSubmits]

Init ==
    /\ queue = <<>>
    /\ sendersGone = FALSE
    /\ receiverClosed = FALSE
    /\ worker = "dispatch"
    /\ lane = [p \in Players |-> IdleLane]
    /\ inFlight = {}
    /\ row = [p \in Players |-> [ver |-> 0, epoch |-> 0]]
    /\ deleted = {}
    /\ owner = [p \in Players |-> 0]
    /\ reply = [p \in Players |-> [v \in Versions |-> "none"]]
    /\ latest = [p \in Players |-> [ver |-> 0, epoch |-> 0]]
    /\ swallowed = [p \in Players |-> [ver |-> 0, exit |-> 0]]
    /\ reported = [p \in Players |-> 0]

-----------------------------------------------------------------------------
(* Requesters: the simulation and the connection handlers.                 *)

\* The oneshot a request carries: autosaves carry none.
ReplyOf(r) == IF r.kind = "autosave" THEN 0 ELSE r.ver

\* try_schedule_autosave, try_schedule_flush, schedule_flush and
\* commit_player_exit on success.  A full queue refuses the first two and
\* suspends the others; neither changes the worker's state.
Submit(p, kind) ==
    LET v == latest[p].ver + 1 IN
    /\ ~sendersGone
    /\ Len(queue) < QueueCap
    /\ latest[p].ver < MaxSubmits
    /\ queue' = Append(queue, [player |-> p, kind |-> kind, ver |-> v,
                               epoch |-> owner[p]])
    /\ latest' = [latest EXCEPT ![p] = [ver |-> v, epoch |-> owner[p]]]
    /\ reply' = IF kind = "autosave" THEN reply
                ELSE [reply EXCEPT ![p][v] = "open"]
    /\ UNCHANGED <<sendersGone, receiverClosed, worker, lane, inFlight, row,
                   deleted, owner, swallowed, reported>>

\* The simulation and every connection have dropped their handle.
DropSenders ==
    /\ ~sendersGone
    /\ sendersGone' = TRUE
    /\ UNCHANGED <<queue, receiverClosed, worker, lane, inFlight, row,
                   deleted, owner, reply, latest, swallowed, reported>>

\* The player enters this core again and is loaded with the row's epoch.
Reload(p) ==
    /\ owner[p] # row[p].epoch
    /\ owner' = [owner EXCEPT ![p] = row[p].epoch]
    /\ UNCHANGED <<queue, sendersGone, receiverClosed, worker, lane, inFlight,
                   row, deleted, reply, latest, swallowed, reported>>

\* Another core commits an exit of the player: the row's epoch moves on.
OwnershipMoves(p) ==
    /\ MayLoseOwnership
    /\ row[p].epoch < MaxEpoch
    /\ row' = [row EXCEPT ![p].epoch = @ + 1]
    /\ UNCHANGED <<queue, sendersGone, receiverClosed, worker, lane, inFlight,
                   deleted, owner, reply, latest, swallowed, reported>>

\* A character-select connection soft-deletes the player.
DeletePlayer(p) ==
    /\ p \in Deletable \ deleted
    /\ deleted' = deleted \cup {p}
    /\ UNCHANGED <<queue, sendersGone, receiverClosed, worker, lane, inFlight,
                   row, owner, reply, latest, swallowed, reported>>

-----------------------------------------------------------------------------
(* The worker loop.                                                        *)

\* Oneshot senders rs of player p are used (st = "ok", "err") or dropped.
Settle(p, rs, st) ==
    [reply EXCEPT ![p] =
        [v \in Versions |-> IF v \in rs THEN st ELSE reply[p][v]]]

\* The pending save after a SaveSnapshot: the newest snapshot, the highest
\* urgency, the reply channel that was there first.
Coalesce(old, r) ==
    IF old = Nothing
    THEN [kind |-> r.kind, ver |-> r.ver, epoch |-> r.epoch,
          reply |-> ReplyOf(r)]
    ELSE [kind |-> IF r.kind = "flush" THEN "flush" ELSE old.kind,
          ver |-> r.ver,
          epoch |-> r.epoch,
          reply |-> IF old.reply = 0 THEN ReplyOf(r) ELSE old.reply]

\* handle_request, SaveSnapshot, while the player's exit waits: refused.
RefuseSave(r) ==
    LET p == r.player IN
    /\ lane[p].exit # Nothing
    /\ reply' = Settle(p, {ReplyOf(r)}, "err")
    /\ swallowed' = IF r.kind = "autosave"
                    THEN [swallowed EXCEPT ![p] =
                            [ver |-> r.ver, exit |-> lane[p].exit.ver]]
                    ELSE swallowed
    /\ UNCHANGED lane

\* handle_request, SaveSnapshot, otherwise: stored or merged.
StoreSave(r) ==
    LET p == r.player IN
    /\ lane[p].exit = Nothing
    /\ lane' = [lane EXCEPT ![p].save = Coalesce(lane[p].save, r),
                            ![p].retry = "none"]
    /\ reply' = IF lane[p].save.reply # 0
                THEN Settle(p, {ReplyOf(r)}, "err")
                ELSE reply
    /\ UNCHANGED swallowed

\* handle_request, CommitPlayerExit: replaces whatever the lane held back.
StoreExit(r) ==
    LET p == r.player IN
    /\ lane' = [lane EXCEPT
                  ![p].save = Nothing,
                  ![p].retry = "none",
                  ![p].exit = [kind |-> "exit", ver |-> r.ver,
                               epoch |-> r.epoch, reply |-> r.ver]]
    /\ reply' = Settle(p, {lane[p].save.reply, lane[p].exit.reply}, "dropped")
    /\ UNCHANGED swallowed

\* select!: rx.recv() returns a request.
Recv ==
    /\ worker = "select"
    /\ ~receiverClosed
    /\ queue # <<>>
    /\ queue' = Tail(queue)
    /\ LET r == Head(queue) IN
         IF r.kind = "exit" THEN StoreExit(r) ELSE RefuseSave(r) \/ StoreSave(r)
    /\ worker' = "dispatch"
    /\ UNCHANGED <<sendersGone, receiverClosed, inFlight, row, deleted, owner,
                   latest, reported>>

\* select!: rx.recv() returns None.
RecvClosed ==
    /\ worker = "select"
    /\ ~receiverClosed
    /\ queue = <<>>
    /\ sendersGone
    /\ receiverClosed' = TRUE
    /\ worker' = "dispatch"
    /\ UNCHANGED <<queue, sendersGone, lane, inFlight, row, deleted, owner,
                   reply, latest, swallowed, reported>>

\* The operation next_dispatch takes out of a lane.
NextPending(l) == IF l.exit # Nothing THEN l.exit ELSE l.save

\* Mutants: a lane is ready while its task runs; a waiting exit is not ready.
ReadyWhileInFlight(l) ==
    \/ l.exit # Nothing
    \/ l.save # Nothing /\ (l.save.kind = "flush" \/ l.retry # "waiting")
ReadySavesOnly(l) ==
    ~l.inFlight /\ l.save # Nothing /\ (l.save.kind = "flush" \/ l.retry # "waiting")

\* ready_player_ids: lanes with something to run and nothing running.
Ready(l) ==
    /\ ~l.inFlight
    /\ \/ l.exit # Nothing
       \/ l.save # Nothing /\ (l.save.kind = "flush" \/ l.retry # "waiting")

Priority(l) ==
    CASE l.exit # Nothing -> 0
      [] l.exit = Nothing /\ l.save.kind = "flush" -> 1
      [] OTHER -> 2

\* The players dispatch_ready_ops may pick: the best `room' ready lanes, ties
\* broken by the order of the hash map.
Picks(room) ==
    LET ready == {p \in Players : Ready(lane[p])} IN
    {S \in SUBSET ready :
        /\ Cardinality(S) <= room
        /\ S = ready \/ Cardinality(S) = room
        /\ \A p \in S, q \in ready \ S : Priority(lane[p]) <= Priority(lane[q])}

Spawned(p) ==
    LET n == NextPending(lane[p]) IN
    [player |-> p, kind |-> n.kind, ver |-> n.ver, epoch |-> n.epoch,
     reply |-> n.reply, phase |-> "running"]

\* lane.next_dispatch() followed by lane.in_flight = true.
TakeNext(l) ==
    IF l.exit # Nothing
    THEN [l EXCEPT !.exit = Nothing, !.inFlight = TRUE]
    ELSE [l EXCEPT !.save = Nothing, !.inFlight = TRUE]

\* dispatch_ready_ops, then the loop's exit test.
Dispatch ==
    /\ worker = "dispatch"
    /\ \E S \in (IF Cardinality(inFlight) >= MaxInFlight THEN {{}}
                 ELSE Picks(MaxInFlight - Cardinality(inFlight))) :
         /\ lane' = [p \in Players |->
                        IF p \in S THEN TakeNext(lane[p]) ELSE lane[p]]
         /\ inFlight' = inFlight \cup {Spawned(p) : p \in S}
    /\ worker' = IF receiverClosed /\ inFlight' = {}
                    /\ \A p \in Players : lane'[p] = IdleLane
                 THEN "ended" ELSE "select"
    /\ UNCHANGED <<queue, sendersGone, receiverClosed, row, deleted, owner,
                   reply, latest, swallowed, reported>>

\* Mutants: a failed autosave overwrites what was queued after it; a failed
\* autosave is not queued again.
AfterCompletionOverwrites(l, o) ==
    IF o.kind = "autosave" /\ o.phase = "err"
    THEN [l EXCEPT !.inFlight = FALSE, !.retry = "waiting",
            !.save = [kind |-> o.kind, ver |-> o.ver, epoch |-> o.epoch,
                      reply |-> o.reply]]
    ELSE IF l.save = Nothing /\ l.exit = Nothing
         THEN IdleLane ELSE [l EXCEPT !.inFlight = FALSE]
AfterCompletionNoRetry(l, o) ==
    IF l.save = Nothing /\ l.exit = Nothing
    THEN IdleLane ELSE [l EXCEPT !.inFlight = FALSE, !.retry = "none"]

\* handle_completed_dispatch: what the lane becomes.
AfterCompletion(l, o) ==
    LET base == [l EXCEPT !.inFlight = FALSE]
        after ==
          CASE o.kind = "autosave" /\ o.phase = "err" /\
               l.exit = Nothing /\ l.save = Nothing ->
                 [base EXCEPT !.retry = "waiting",
                    !.save = [kind |-> o.kind, ver |-> o.ver,
                              epoch |-> o.epoch, reply |-> o.reply]]
            [] o.kind = "autosave" /\ ~(o.phase = "err" /\
               l.exit = Nothing /\ l.save = Nothing) ->
                 [base EXCEPT !.retry = "none"]
            [] OTHER -> base
    IN  IF after.save = Nothing /\ after.exit = Nothing
        THEN IdleLane ELSE after

\* select!: join_next() returns a finished operation.
Join(o) ==
    /\ worker = "select"
    /\ o.phase # "running"
    /\ inFlight' = inFlight \ {o}
    /\ lane' = [lane EXCEPT ![o.player] = AfterCompletion(@, o)]
    /\ reply' = IF o.kind = "autosave" THEN reply
                ELSE Settle(o.player, {o.reply}, o.phase)
    /\ reported' = IF o.phase = "err" /\ o.reply # 0
                   THEN [reported EXCEPT ![o.player] = o.ver] ELSE reported
    /\ worker' = "dispatch"
    /\ UNCHANGED <<queue, sendersGone, receiverClosed, row, deleted, owner,
                   latest, swallowed>>

\* select!: join_next() returns a JoinError, which the loop ignores: the
\* lane keeps in_flight = true and the task's oneshot is dropped.
JoinPanicked(o) ==
    /\ worker = "select"
    /\ MayPanic
    /\ inFlight' = inFlight \ {o}
    /\ reply' = Settle(o.player, {o.reply}, "dropped")
    /\ worker' = "dispatch"
    /\ UNCHANGED <<queue, sendersGone, receiverClosed, lane, row, deleted,
                   owner, latest, swallowed, reported>>

\* Mutant: the filter on in_flight is inverted.
TimerWatchesInFlight(l) == l.inFlight /\ l.exit = Nothing

\* next_retry_deadline looks at lanes with no task and no waiting exit.
TimerWatches(l) == ~l.inFlight /\ l.exit = Nothing

\* select!: the retry timer fires.
RetryTimer ==
    /\ worker = "select"
    /\ \E p \in Players : TimerWatches(lane[p]) /\ lane[p].retry = "due"
    /\ worker' = "dispatch"
    /\ UNCHANGED <<queue, sendersGone, receiverClosed, lane, inFlight, row,
                   deleted, owner, reply, latest, swallowed, reported>>

\* select! with every branch disabled panics: the channel is closed, no task
\* is left to join and no lane has a deadline.
SelectPanics ==
    /\ worker = "select"
    /\ receiverClosed
    /\ inFlight = {}
    /\ \A p \in Players : TimerWatches(lane[p]) => lane[p].retry = "none"
    /\ worker' = "panicked"
    /\ UNCHANGED <<queue, sendersGone, receiverClosed, lane, inFlight, row,
                   deleted, owner, reply, latest, swallowed, reported>>

\* AUTOSAVE_RETRY_DELAY elapses for a lane.
RetryElapses(p) ==
    /\ lane[p].retry = "waiting"
    /\ lane' = [lane EXCEPT ![p].retry = "due"]
    /\ UNCHANGED <<queue, sendersGone, receiverClosed, worker, inFlight, row,
                   deleted, owner, reply, latest, swallowed, reported>>

-----------------------------------------------------------------------------
(* The database answers a running operation.                               *)

Finish(o, phase) == inFlight' = (inFlight \ {o}) \cup {[o EXCEPT !.phase = phase]}

DbUnchanged == UNCHANGED <<queue, sendersGone, receiverClosed, worker, lane,
                           deleted, owner, reply, latest, swallowed, reported>>

\* save_player_snapshot under the row's epoch.  The statement updates the
\* row of a deleted player too and then reports an error.
SaveApplies(o) ==
    /\ o.phase = "running" /\ o.kind # "exit"
    /\ o.epoch = row[o.player].epoch
    /\ row' = [row EXCEPT ![o.player].ver = o.ver]
    /\ Finish(o, IF o.player \in deleted THEN "err" ELSE "ok")
    /\ DbUnchanged

\* Mutant: a flush under an older epoch is reported as success too.
SaveIsStaleIgnored(o) ==
    /\ o.phase = "running" /\ o.kind # "exit"
    /\ o.epoch # row[o.player].epoch
    /\ Finish(o, IF o.player \in deleted THEN "err" ELSE "ok")
    /\ UNCHANGED row
    /\ DbUnchanged

\* save_player_snapshot under an older epoch: StaleOwner, which an autosave
\* reports as success and a flush as an error.
SaveIsStale(o) ==
    /\ o.phase = "running" /\ o.kind # "exit"
    /\ o.epoch # row[o.player].epoch
    /\ Finish(o, IF o.player \in deleted \/ o.kind = "flush" THEN "err" ELSE "ok")
    /\ UNCHANGED row
    /\ DbUnchanged

\* commit_player_exit commits: snapshot, next epoch and session release.
ExitCommits(o) ==
    /\ o.phase = "running" /\ o.kind = "exit"
    /\ o.epoch = row[o.player].epoch
    /\ o.player \notin deleted
    /\ row[o.player].epoch < MaxEpoch
    /\ row' = [row EXCEPT ![o.player] =
                 [ver |-> o.ver, epoch |-> o.epoch + 1]]
    /\ Finish(o, "ok")
    /\ DbUnchanged

\* commit_player_exit rolls back: epoch moved, player deleted, session lost.
ExitRefused(o) ==
    /\ o.phase = "running" /\ o.kind = "exit"
    /\ Finish(o, "err")
    /\ UNCHANGED row
    /\ DbUnchanged

\* The statement fails and left no effect.
SaveFails(o) ==
    /\ o.phase = "running" /\ o.kind # "exit"
    /\ Finish(o, "err")
    /\ UNCHANGED row
    /\ DbUnchanged

\* The statement took effect and its answer was lost.
AnswerLost(o) ==
    /\ o.phase = "running"
    /\ o.epoch = row[o.player].epoch
    /\ \/ /\ o.kind # "exit"
          /\ row' = [row EXCEPT ![o.player].ver = o.ver]
       \/ /\ o.kind = "exit"
          /\ o.player \notin deleted
          /\ row[o.player].epoch < MaxEpoch
          /\ row' = [row EXCEPT ![o.player] =
                       [ver |-> o.ver, epoch |-> o.epoch + 1]]
    /\ Finish(o, "err")
    /\ DbUnchanged

DbAnswers(o) == \/ SaveApplies(o) \/ SaveIsStale(o) \/ SaveFails(o)
                \/ ExitCommits(o) \/ ExitRefused(o) \/ AnswerLost(o)

-----------------------------------------------------------------------------
(* The worker has returned, or its task is dead.                           *)
Ended == worker \in {"ended", "panicked"} /\ UNCHANGED vars

Next ==
    \/ \E p \in Players : \/ \E k \in Kinds : Submit(p, k)
                          \/ Reload(p)
                          \/ OwnershipMoves(p)
                          \/ DeletePlayer(p)
                          \/ RetryElapses(p)
    \/ DropSenders
    \/ Recv \/ RecvClosed \/ Dispatch \/ RetryTimer \/ SelectPanics
    \/ \E o \in inFlight : Join(o) \/ JoinPanicked(o) \/ DbAnswers(o)
    \/ Ended

Spec == Init /\ [][Next]_vars

-----------------------------------------------------------------------------
(* Fairness.  The loop is polled and timers fire; tokio's select! picks    *)
(* its ready branches at random, so a branch that is ready again and again *)
(* is taken; the database answers every statement, and a statement retried *)
(* forever does not fail forever.                                          *)
Fairness ==
    /\ WF_vars(Dispatch)
    /\ SF_vars(Recv)
    /\ SF_vars(RecvClosed)
    /\ SF_vars(RetryTimer)
    /\ \A p \in Players :
         /\ WF_vars(RetryElapses(p))
         /\ SF_vars(\E o \in inFlight : o.player = p /\ Join(o))
         /\ WF_vars(\E o \in inFlight : o.player = p /\ DbAnswers(o))
         /\ SF_vars(\E o \in inFlight : o.player = p
                                       /\ (SaveApplies(o) \/ SaveIsStale(o)))

FairSpec == Spec /\ Fairness

-----------------------------------------------------------------------------
(* Properties.                                                             *)

\* Versions of player p's snapshots still waiting or running.
Queued(p) == {queue[i].ver : i \in {j \in DOMAIN queue : queue[j].player = p}}
Waiting(p) == {lane[p].save.ver, lane[p].exit.ver} \ {0}
Running(p) == {o.ver : o \in {x \in inFlight : x.player = p}}

\* The lane's task panicked: in_flight is set and will never be cleared.
Wedged(p) == lane[p].inFlight /\ Running(p) = {}

\* The JoinSet holds at most MAX_CONCURRENT_SAVES operations, never two of
\* one player: two statements of one player could reach PostgreSQL in
\* either order.
OneWriterPerPlayer ==
    /\ Cardinality(inFlight) <= MaxInFlight
    /\ \A o1, o2 \in inFlight : o1.player = o2.player => o1 = o2

\* The lanes keep the order of admission: what runs is older than what waits
\* in the lane, which is older than what waits in the queue.
LanesInOrder ==
    \A p \in Players :
        /\ \A r \in Running(p), w \in Waiting(p) \cup Queued(p) : r < w
        /\ \A w \in Waiting(p), q \in Queued(p) : w < q

\* A row is never overwritten with a snapshot admitted earlier than the one
\* it holds, whatever was merged, retried, dropped or answered late.
DbNeverRegresses == [][\A p \in Players : row'[p].ver >= row[p].ver]_vars

\* A requester that is told Ok finds its snapshot, or a newer one, in the
\* database, also when its reply channel rode on a merged save.
AckedIsDurable ==
    \A p \in Players, v \in Versions :
        reply[p][v] = "ok" => row[p].ver >= v

\* The requests admitted, the rows and the answers given, as DurableRows has them.
Rows == INSTANCE DurableRows
          WITH admitted <- [p \in Players |-> latest[p].ver],
               stored   <- [p \in Players |-> row[p].ver],
               acked    <- [p \in Players |-> {v \in Versions : reply[p][v] = "ok"}]

\* Seen from its requesters the worker is DurableRows: behind merging,
\* retries, refusals, concurrent tasks and lost answers each step admits one
\* snapshot, moves one row on to a snapshot admitted later, acknowledges one
\* snapshot that the row has reached, or shows nothing.
ImplementsRows == Rows!Spec

\* The last snapshot admitted for a player is never lost silently: it is
\* still held, in the database, refused to its requester, part of a merged
\* save whose failure some requester was told of, fenced off by a newer
\* epoch, swallowed by an exit that did not succeed, or stuck behind a
\* panicked task.
NewestSurvives ==
    \A p \in Players :
        LET v == latest[p].ver IN
        v # 0 => \/ v \in Queued(p) \cup Waiting(p) \cup Running(p)
                 \/ row[p].ver = v
                 \/ reported[p] = v
                 \/ reply[p][v] = "err"
                 \/ latest[p].epoch < row[p].epoch
                 \/ /\ swallowed[p].ver = v
                    /\ reply[p][swallowed[p].exit] # "ok"
                 \/ Wedged(p)

\* Every flush and every exit that was admitted is answered, with a result or
\* by dropping its channel: run_persistence_op never waits for its timeout
\* because the worker forgot it.  Only a lane whose task panicked keeps its
\* requesters waiting.
EveryRequestAnswered ==
    \A p \in Players, v \in Versions :
        (reply[p][v] = "open") ~> (reply[p][v] # "open" \/ Wedged(p))

\* Once the handles are dropped the worker drains its lanes and returns,
\* unless a task panicked or the autosave of a deleted player, which the
\* database reports as failed every time, keeps coming back.
ShutdownDrains ==
    sendersGone ~> (worker = "ended" \/ \E p \in Players : Wedged(p) \/ p \in deleted)

\* A snapshot that stays the newest of its player reaches the database
\* unless its requester was refused, its epoch is over, an exit took it or a
\* task of its lane panicked.
Landed(p) ==
    LET v == latest[p].ver IN
    \/ row[p].ver >= v
    \/ reported[p] = v
    \/ reply[p][v] \in {"err", "dropped"}
    \/ latest[p].epoch < row[p].epoch
    \/ swallowed[p].ver = v
    \/ Wedged(p)

\* Again and again the newest snapshot of each player has landed: none stays
\* behind, however requests, failures and retries interleave.
NewestLands == \A p \in Players : []<>Landed(p)
=============================================================================
