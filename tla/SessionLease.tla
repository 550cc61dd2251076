---------------------------- MODULE SessionLease ----------------------------
(***************************************************************************)
(* One account, its row in game.sessions, the runtime epoch of its player  *)
(* row, and the connections that claim, serve, hand off and release it:    *)
(* the session statements of zohar-db queries.rs and the phase handlers of *)
(* zohar-gamesrv (login, select, loading, ingame, relocation).             *)
(*                                                                         *)
(* Connections run concurrently on the map cores; every database statement *)
(* is one step.  Time advances in whole heartbeat intervals, timestamps    *)
(* are ages in that unit, and each connection's interval timer fires once  *)
(* per unit.  What a connection awaits for seconds (a persistence reply, a *)
(* statement) is over within the unit; what the persistence worker still   *)
(* holds is not.                                                           *)
(***************************************************************************)
EXTENDS Naturals, FiniteSets

CONSTANTS
    Conns,          \* connections to map cores, one connection id each
    Cores,          \* map core processes
    Tokens,         \* login tokens
    Ips,            \* peer addresses
    None,           \* SQL NULL, no entity
    Sites           \* the deployments the run ranges over

HeartbeatTimeout == 3   \* HEARTBEAT_TIMEOUT_MULTIPLIER, in intervals

ASSUME SessionAssumption ==
    /\ None \notin Conns \cup Ips
    /\ Sites \subseteq [coreOf : [Conns -> Cores], staleAfter : Nat \ {0},
                        maxEpoch : Nat, chatty : BOOLEAN, mayCrash : BOOLEAN,
                        mayFail : BOOLEAN, gateways : BOOLEAN]

VARIABLES
    site,      \* the deployment: chosen once
    sess,      \* the row of game.sessions
    epoch,     \* runtime_epoch of the player's row
    conn,      \* the handler task of each connection
    entity,    \* PlayerIndex of each core: the connection whose net id it is
    expired,   \* tokens TokenSigner::verify refuses by now
    gateway,   \* a gateway connection shows the account's select screen
    tookOver,  \* history: connections whose stale lease was taken
    exited     \* history: connections whose exit was committed

leaseVars == <<site, sess, epoch, conn, entity, expired, gateway, tookOver, exited>>

CoreOf == site.coreOf         \* the core a connection reaches
StaleAfter == site.staleAfter \* session_stale_secs / heartbeat_interval_secs
MaxEpoch == site.maxEpoch     \* bound: runtime epoch of the player row
Chatty == site.chatty         \* whether clients also send packets unasked
MayCrash == site.mayCrash     \* whether a core may crash
MayFail == site.mayFail       \* whether a heartbeat statement may fail
Gateways == site.gateways     \* whether a channel gateway serves the account too

\* Waiting for the client, with the interval timer armed.
Idling == {"login", "select", "loading", "ingame"}
\* Past login: run_phase ends these with AfterLogin.
Served == {"select", "loading", "ingame", "handoff", "prepared", "flushing"}
Phases == Idling \cup Served \cup
          {"new", "bootstrap", "retry", "claimed", "leaving", "ending", "gone"}

ConnStates ==
    [phase : Phases, token : Tokens \cup {None}, ip : Ips \cup {None},
     rx : 0 .. HeartbeatTimeout, due : BOOLEAN,
     epoch : 0 .. MaxEpoch, exits : 0 .. 2]

TypeOK ==
    /\ site \in Sites
    /\ sess \in [state : {"none", "AUTHED", "ACTIVE"}, owner : Conns \cup {None},
                 hb : 0 .. StaleAfter + 1, token : Tokens \cup {None},
                 fresh : BOOLEAN, ip : Ips \cup {None}]
    /\ epoch \in 0 .. MaxEpoch
    /\ conn \in [Conns -> ConnStates]
    /\ entity \in [Cores -> Conns \cup {None}]
    /\ expired \subseteq Tokens
    /\ gateway \in BOOLEAN
    /\ tookOver \subseteq Conns
    /\ exited \subseteq Conns

NewConn == [phase |-> "new", token |-> None, ip |-> None, rx |-> 0,
            due |-> FALSE, epoch |-> 0, exits |-> 0]

LeaseInit ==
    /\ site \in Sites
    /\ sess = [state |-> "none", owner |-> None, hb |-> 0, token |-> None,
               fresh |-> FALSE, ip |-> None]
    /\ epoch = 0
    /\ conn = [c \in Conns |-> NewConn]
    /\ entity = [k \in Cores |-> None]
    /\ expired = {}
    /\ gateway = FALSE
    /\ tookOver = {}
    /\ exited = {}

\* The handler moves on.  When its task is over nothing is left of it but
\* the exits the persistence worker holds.
Moved(h, phase) ==
    IF phase = "gone"
    THEN [NewConn EXCEPT !.phase = "gone", !.epoch = h.epoch, !.exits = h.exits]
    ELSE [h EXCEPT !.phase = phase]

Goes(c, phase) == conn' = [conn EXCEPT ![c] = Moved(@, phase)]

\* A phase that waits for the client starts on a packet of the client
\* (mark_rx) and with a new interval timer.
Idles(c, phase) ==
    conn' = [conn EXCEPT ![c].phase = phase, ![c].due = FALSE, ![c].rx = 0]

\* A client that is not chatty stays silent until the tick of the interval
\* has asked it for a sign of life.
MaySend(c) == conn[c].phase \in Idling /\ (Chatty \/ ~conn[c].due)

-----------------------------------------------------------------------------
(* Statements on game.sessions.                                            *)

Stale == sess.hb > StaleAfter

\* Mutant: an ACTIVE lease is taken whatever its heartbeat says.
ResumeMatchesAnyState(c) ==
    /\ sess.token = conn[c].token /\ sess.fresh
    /\ sess.ip \in {None, conn[c].ip}

\* WHERE of resume_session_with_token.
ResumeMatches(c) ==
    /\ sess.token = conn[c].token /\ sess.fresh
    /\ sess.ip \in {None, conn[c].ip}
    /\ sess.state = "AUTHED" \/ Stale \/ sess.owner = c

\* SET of resume_session_with_token.
Resume(c) ==
    /\ sess' = [sess EXCEPT !.state = "ACTIVE", !.owner = c, !.hb = 0,
                            !.fresh = TRUE, !.ip = conn[c].ip]
    /\ tookOver' = IF sess.state = "ACTIVE" /\ Stale
                   THEN tookOver \cup ({sess.owner} \ {c, None}) ELSE tookOver

\* Mutant: a new token always puts the row back to AUTHED.
SetLoginTokenResets(t) ==
    sess' = [state |-> "AUTHED", owner |-> None, hb |-> 0, token |-> t,
             fresh |-> TRUE, ip |-> None]

\* set_session_login_token: an ACTIVE row keeps its owner and heartbeat.
SetLoginToken(t) ==
    LET held == sess.state = "ACTIVE" /\ sess.owner # None IN
    sess' = [state |-> IF held THEN "ACTIVE" ELSE "AUTHED",
             owner |-> IF held THEN sess.owner ELSE None,
             hb |-> IF held THEN sess.hb ELSE 0,
             token |-> t, fresh |-> TRUE, ip |-> None]

\* Mutant: the WHERE of the release does not name the connection.
ReleasedByAnyone(c) == [sess EXCEPT !.state = "AUTHED", !.owner = None]

\* release_session, and the release inside commit_player_exit.
Released(c) ==
    IF sess.owner = c THEN [sess EXCEPT !.state = "AUTHED", !.owner = None]
    ELSE sess

\* update_session_heartbeat: by username, whoever owns the row.
Heartbeat == sess' = IF sess.state = "ACTIVE" THEN [sess EXCEPT !.hb = 0] ELSE sess

-----------------------------------------------------------------------------
(* Login: run_login_core, authenticate_token_login.                        *)

Connect(c, t, i) ==
    /\ conn[c].phase = "new"
    /\ conn' = [conn EXCEPT ![c].phase = "login", ![c].token = t, ![c].ip = i]
    /\ UNCHANGED <<site, sess, epoch, entity, expired, gateway, tookOver, exited>>

\* try_persisted_login, first and second time.
LoginResume(c) ==
    /\ conn[c].phase \in {"login", "retry"}
    /\ ResumeMatches(c)
    /\ Resume(c)
    /\ Goes(c, "claimed")
    /\ UNCHANGED <<site, epoch, entity, expired, gateway, exited>>

\* No row matched: TokenSigner::verify decides.
LoginNoMatch(c) ==
    /\ conn[c].phase \in {"login", "retry"}
    /\ ~ResumeMatches(c)
    /\ Goes(c, IF conn[c].phase = "login" /\ conn[c].token \notin expired
               THEN "bootstrap" ELSE "gone")
    /\ UNCHANGED <<site, sess, epoch, entity, expired, gateway, tookOver, exited>>

LoginBootstrap(c) ==
    /\ conn[c].phase = "bootstrap"
    /\ SetLoginToken(conn[c].token)
    /\ Goes(c, "retry")
    /\ UNCHANGED <<site, epoch, entity, expired, gateway, tookOver, exited>>

LoginAccepted(c) ==
    /\ conn[c].phase = "claimed"
    /\ Idles(c, "select")
    /\ UNCHANGED <<site, sess, epoch, entity, expired, gateway, tookOver, exited>>

\* BeforeLogin: a banned profile, a failed statement, a lost client or a
\* draining server.  Nothing is released, also when the row was claimed.
LoginAbandoned(c) ==
    /\ conn[c].phase \in {"login", "bootstrap", "retry", "claimed"}
    /\ Goes(c, "gone")
    /\ UNCHANGED <<site, sess, epoch, entity, expired, gateway, tookOver, exited>>

-----------------------------------------------------------------------------
(* Select and loading.                                                     *)

\* run_loading reads the player's row, epoch included.
LoadPlayer(c) ==
    /\ conn[c].phase = "select" /\ MaySend(c)
    /\ conn' = [conn EXCEPT ![c].phase = "loading", ![c].due = FALSE,
                            ![c].rx = 0, ![c].epoch = epoch]
    /\ UNCHANGED <<site, sess, epoch, entity, expired, gateway, tookOver, exited>>

\* prepare_ingame and handle_player_enter, which despawns the entity an
\* earlier connection left behind in the same core.
EnterMap(c) ==
    /\ conn[c].phase = "loading" /\ MaySend(c)
    /\ entity' = [entity EXCEPT ![CoreOf[c]] = c]
    /\ Idles(c, "ingame")
    /\ UNCHANGED <<site, sess, epoch, expired, gateway, tookOver, exited>>

\* AfterLogin { Release } outside the game: closed, rejected, wrong map core.
EndsUnentered(c) ==
    /\ conn[c].phase \in {"select", "loading"}
    /\ Goes(c, "ending")
    /\ UNCHANGED <<site, sess, epoch, entity, expired, gateway, tookOver, exited>>

\* on_session_end.
ReleaseSession(c) ==
    /\ conn[c].phase = "ending"
    /\ sess' = Released(c)
    /\ Goes(c, "gone")
    /\ UNCHANGED <<site, epoch, entity, expired, gateway, tookOver, exited>>

\* on_session_end when the statement fails.
ReleaseFails(c) ==
    /\ conn[c].phase = "ending"
    /\ Goes(c, "gone")
    /\ UNCHANGED <<site, sess, epoch, entity, expired, gateway, tookOver, exited>>

-----------------------------------------------------------------------------
(* In game: finalize_ingame_result and dispatch_handoff.                   *)

\* Mutant: the net id of the leave message is not compared.
MayLeaveAnyone(c) == entity[CoreOf[c]] # None

\* active_player_entity: the leave message names the entity's own net id.
MayLeave(c) == entity[CoreOf[c]] = c

Left(c) == [entity EXCEPT ![CoreOf[c]] = None]

\* Mutant: a waiting exit is kept beside the new one.
EnqueuedBeside(n) == {n + 1}

\* Exits of c the persistence worker holds after one more: a waiting exit is
\* replaced, a running one stays.
Enqueued(n) == CASE n = 0 -> {1} [] n = 1 -> {1, 2} [] OTHER -> {2}

CommitExit(c, phase) ==
    \E n \in Enqueued(conn[c].exits) :
        conn' = [conn EXCEPT ![c].phase = phase, ![c].exits = n]

\* The client is lost, the server drains, or the heartbeat timed out.
LeaveGame(c) ==
    /\ MayLeave(c)
    /\ entity' = Left(c)
    /\ CommitExit(c, "leaving")

\* The entity is not c's any more: the leave fails, the lease is released.
LeaveFails(c) ==
    /\ ~MayLeave(c)
    /\ UNCHANGED entity
    /\ Goes(c, "ending")

Disconnect(c) ==
    /\ conn[c].phase = "ingame"
    /\ LeaveGame(c) \/ LeaveFails(c)
    /\ UNCHANGED <<site, sess, epoch, expired, gateway, tookOver, exited>>

\* The client goes back to the select screen: leave, then flush.
BackToSelect(c) ==
    /\ conn[c].phase = "ingame" /\ MaySend(c)
    /\ \/ MayLeave(c) /\ entity' = Left(c) /\ Goes(c, "flushing")
       \/ LeaveFails(c)
    /\ UNCHANGED <<site, sess, epoch, expired, gateway, tookOver, exited>>

\* The flush runs after every exit of the lane and under the row's epoch.
FlushOk(c) ==
    /\ conn[c].phase = "flushing"
    /\ conn[c].exits = 0
    /\ conn[c].epoch = epoch
    /\ Idles(c, "select")
    /\ UNCHANGED <<site, sess, epoch, entity, expired, gateway, tookOver, exited>>

\* Failed, refused or timed out: finalize as a disconnect instead.
FlushFails(c) ==
    /\ conn[c].phase = "flushing"
    /\ CommitExit(c, "leaving")
    /\ UNCHANGED <<site, sess, epoch, entity, expired, gateway, tookOver, exited>>

\* A portal or a restart in town: the snapshot is captured and committed
\* while the player stays in the map.
StartHandoff(c) ==
    /\ conn[c].phase = "ingame"
    /\ MayLeave(c)
    /\ CommitExit(c, "handoff")
    /\ UNCHANGED <<site, sess, epoch, entity, expired, gateway, tookOver, exited>>

\* InitServerHandoff was sent: SessionEnd::Handoff, send_player_leave.
HandoffSent(c) ==
    /\ conn[c].phase = "prepared"
    /\ entity' = IF MayLeave(c) THEN Left(c) ELSE entity
    /\ Goes(c, "gone")
    /\ UNCHANGED <<site, sess, epoch, expired, gateway, tookOver, exited>>

\* InitServerHandoff could not be sent: an ordinary disconnect.
HandoffUnsent(c) ==
    /\ conn[c].phase = "prepared"
    /\ LeaveGame(c) \/ LeaveFails(c)
    /\ UNCHANGED <<site, sess, epoch, expired, gateway, tookOver, exited>>

\* What c does when the exit it waits for is answered Ok or not: the worker
\* answers in order, so the last one outstanding is the one awaited.
Answered(c, ok) ==
    LET h == [conn[c] EXCEPT !.exits = @ - 1]
        awaited == h.exits = 0
    IN  conn' = [conn EXCEPT ![c] =
          CASE h.phase = "handoff" /\ awaited -> Moved(h, IF ok THEN "prepared" ELSE "ingame")
            [] h.phase = "leaving" /\ awaited -> Moved(h, "gone")
            [] OTHER -> h]

\* Mutant: the epoch stays when the exit commits.
NextEpochSame(e) == e

NextEpoch(e) == e + 1

\* commit_player_exit: snapshot, next epoch and release, or nothing.  The
\* requester may also find its answer lost.
ExitCommits(c) ==
    /\ conn[c].exits > 0
    /\ conn[c].epoch = epoch
    /\ sess.owner = c
    /\ epoch < MaxEpoch
    /\ epoch' = NextEpoch(epoch)
    /\ sess' = Released(c)
    /\ exited' = exited \cup {c}
    /\ \E ok \in BOOLEAN : Answered(c, ok)
    /\ UNCHANGED <<site, entity, expired, gateway, tookOver>>

\* Another epoch, another owner, or the statement failed.
ExitRefused(c) ==
    /\ conn[c].exits > 0
    /\ Answered(c, FALSE)
    /\ UNCHANGED <<site, sess, epoch, entity, expired, gateway, tookOver, exited>>

\* run_persistence_op gives up; the worker still holds the exit.  A handoff
\* leaves the player in game, a disconnect ends with RetainUntilStale.
ExitTimesOut(c) ==
    /\ conn[c].phase \in {"handoff", "leaving"}
    /\ conn[c].exits > 0
    /\ IF conn[c].phase = "handoff" THEN Goes(c, "ingame") ELSE Goes(c, "gone")
    /\ UNCHANGED <<site, sess, epoch, entity, expired, gateway, tookOver, exited>>

-----------------------------------------------------------------------------
(* Time, the client and the interval timer.                                *)

\* Any other packet: mark_rx.
Receive(c) ==
    /\ MaySend(c)
    /\ conn' = [conn EXCEPT ![c].rx = 0]
    /\ UNCHANGED <<site, sess, epoch, entity, expired, gateway, tookOver, exited>>

\* SessionTracker::on_tick.
OnTick(rx) ==
    CASE rx >= HeartbeatTimeout -> "TimedOut"
      [] rx < HeartbeatTimeout /\ rx >= 1 -> "SendHeartbeat"
      [] OTHER -> "None"

\* heartbeat.tick(): nothing to do, or the client is asked for a sign of
\* life and, past login, the session's heartbeat is refreshed.
Tick(c) ==
    /\ conn[c].phase \in Idling /\ conn[c].due
    /\ \/ /\ OnTick(conn[c].rx) = "None"
          /\ UNCHANGED sess
       \/ /\ OnTick(conn[c].rx) = "SendHeartbeat"
          /\ \/ conn[c].phase # "login" /\ Heartbeat
             \/ (conn[c].phase = "login" \/ MayFail) /\ UNCHANGED sess
    /\ conn' = [conn EXCEPT ![c].due = FALSE]
    /\ UNCHANGED <<site, epoch, entity, expired, gateway, tookOver, exited>>

TickTimesOut(c) ==
    /\ conn[c].phase \in Idling /\ conn[c].due
    /\ OnTick(conn[c].rx) = "TimedOut"
    /\ \/ conn[c].phase = "login" /\ Goes(c, "gone") /\ UNCHANGED entity
       \/ conn[c].phase \in {"select", "loading"} /\ Goes(c, "ending") /\ UNCHANGED entity
       \/ conn[c].phase = "ingame" /\ (LeaveGame(c) \/ LeaveFails(c))
    /\ UNCHANGED <<site, sess, epoch, expired, gateway, tookOver, exited>>

AtMost(x, n) == IF x <= n THEN x ELSE n

\* One heartbeat interval passes: every timer has fired, nobody is between
\* two statements.
TimePasses ==
    /\ \A c \in Conns : \/ conn[c].phase \in {"new", "gone"}
                        \/ conn[c].phase \in Idling /\ ~conn[c].due
    /\ sess' = [sess EXCEPT !.hb = AtMost(@ + 1, StaleAfter + 1)]
    /\ conn' = [c \in Conns |->
                  IF conn[c].phase \in Idling
                  THEN [conn[c] EXCEPT !.rx = AtMost(@ + 1, HeartbeatTimeout),
                                       !.due = TRUE]
                  ELSE conn[c]]
    /\ UNCHANGED <<site, epoch, entity, expired, gateway, tookOver, exited>>

-----------------------------------------------------------------------------
(* Other processes.                                                        *)

\* A core dies with its connections, its map and its persistence queue.
CoreCrashes(k) ==
    /\ MayCrash
    /\ \E c \in Conns : CoreOf[c] = k /\ conn[c].phase \notin {"new", "gone"}
    /\ entity' = [entity EXCEPT ![k] = None]
    /\ conn' = [c \in Conns |->
                  IF CoreOf[c] = k /\ conn[c].phase # "new"
                  THEN Moved([conn[c] EXCEPT !.exits = 0], "gone")
                  ELSE conn[c]]
    /\ UNCHANGED <<site, sess, epoch, expired, gateway, tookOver, exited>>

\* WHERE of validate_login_token: the row is AUTHED.
ValidateMatches(t, i) ==
    /\ sess.state = "AUTHED" /\ sess.token = t /\ sess.fresh
    /\ sess.ip \in {None, i}

\* run_login_gateway: try_persisted_login in mode ValidateOnly.
GatewayLogin(t, i) ==
    /\ Gateways
    /\ ValidateMatches(t, i)
    /\ sess' = [sess EXCEPT !.fresh = TRUE, !.ip = i]
    /\ gateway' = TRUE
    /\ UNCHANGED <<site, epoch, conn, entity, expired, tookOver, exited>>

\* run_login_gateway: try_totp_bootstrap.
GatewayBootstrap(t, i) ==
    /\ Gateways
    /\ ~ValidateMatches(t, i)
    /\ t \notin expired
    /\ SetLoginToken(t)
    /\ UNCHANGED <<site, epoch, conn, entity, expired, gateway, tookOver, exited>>

\* handle_tick of the gateway's select screen.
GatewayTick ==
    /\ gateway
    /\ Heartbeat
    /\ UNCHANGED <<site, epoch, conn, entity, expired, gateway, tookOver, exited>>

GatewayLeaves ==
    /\ gateway
    /\ gateway' = FALSE
    /\ UNCHANGED <<site, sess, epoch, conn, entity, expired, tookOver, exited>>

\* The time slots TokenSigner::verify accepts for t are over.
TokenExpires(t) ==
    /\ t \notin expired
    /\ expired' = expired \cup {t}
    /\ UNCHANGED <<site, sess, epoch, conn, entity, gateway, tookOver, exited>>

\* login_issued_at is older than the idle time to live.
IdleTtlElapses ==
    /\ sess.fresh
    /\ sess' = [sess EXCEPT !.fresh = FALSE]
    /\ UNCHANGED <<site, epoch, conn, entity, expired, gateway, tookOver, exited>>

-----------------------------------------------------------------------------
LoginStep(c) ==
    \/ \E t \in Tokens, i \in Ips : Connect(c, t, i)
    \/ LoginResume(c) \/ LoginNoMatch(c) \/ LoginBootstrap(c)
    \/ LoginAccepted(c) \/ LoginAbandoned(c)

PhaseStep(c) ==
    \/ LoadPlayer(c) \/ EnterMap(c) \/ EndsUnentered(c)
    \/ ReleaseSession(c) \/ ReleaseFails(c)
    \/ Disconnect(c) \/ BackToSelect(c) \/ FlushOk(c) \/ FlushFails(c)
    \/ StartHandoff(c) \/ HandoffSent(c) \/ HandoffUnsent(c)
    \/ ExitCommits(c) \/ ExitRefused(c) \/ ExitTimesOut(c)
    \/ Receive(c) \/ Tick(c) \/ TickTimesOut(c)

GatewayStep ==
    \/ \E t \in Tokens, i \in Ips : GatewayBootstrap(t, i) \/ GatewayLogin(t, i)
    \/ GatewayTick
    \/ GatewayLeaves

LeaseNext ==
    \/ \E c \in Conns : LoginStep(c) \/ PhaseStep(c)
    \/ TimePasses
    \/ \E k \in Cores : CoreCrashes(k)
    \/ GatewayStep
    \/ \E t \in Tokens : TokenExpires(t)
    \/ IdleTtlElapses

LeaseSpec == LeaseInit /\ [][LeaseNext]_leaseVars

-----------------------------------------------------------------------------
(* Properties.                                                             *)

\* A runtime of the player whose saves still match the row's epoch.
CanWrite(c) == entity[CoreOf[c]] = c /\ conn[c].epoch = epoch

\* A connection that is served holds the lease, unless the lease went stale
\* and was taken, or its exit was committed without it hearing of it.  Of
\* concurrent logins of one account at most one is served: the race
\* test_concurrent_game_logins_race_condition tries.
ServedOwns ==
    \A c \in Conns :
        conn[c].phase \in Served /\ c \notin tookOver \cup exited
            => sess.state = "ACTIVE" /\ sess.owner = c

\* Atomic handoff: epoch and lease move in one transaction, so two map
\* runtimes of a player never can both write its row.  Only a lease taken
\* over as stale, which leaves the epoch alone, breaks this.
SingleRuntime ==
    \A c, d \in Conns :
        c # d /\ CanWrite(c) /\ CanWrite(d) => {c, d} \cap tookOver # {}

\* The connections that go on with what they claimed.
Using == {c \in Conns : conn[c].phase \in Served \cup {"claimed"}}

\* Somebody holds the lease, and another login may take it.
LeaseStale == sess.owner # None /\ Stale

\* The account as SingleOwner has it.
Owner == INSTANCE SingleOwner
           WITH Nobody <- None, holder <- sess.owner, served <- Using,
                lost <- tookOver \cup exited, stale <- LeaseStale

\* Seen from the account the session statements are SingleOwner: behind
\* logins in two statements, late releases, exits that commit unheard and
\* cores that crash, each step claims a free or stale account for a new
\* connection, ends connections, gives the account back by its holder, moves
\* the epoch on with the holder's exit, ages or refreshes the lease, or
\* shows nothing.
ImplementsOwner == Owner!Spec

\* A player's entity leaves the map through its own connection, or for a
\* newer entity of the player: a late leave of a connection that was
\* replaced in the same core does not despawn its successor.
OnlyOwnLeaveDespawns ==
    [][\A c \in Conns, k \in Cores :
          entity[k] = c /\ entity'[k] # c
            => conn'[c] # conn[c] \/ entity'[k] # None]_leaseVars

\* While a player is in game, on a connection that would have timed out if
\* its client were silent, the lease does not go stale: handle_session_tick
\* keeps the session's liveness on a coarse cadence.
LeaseStaysFresh ==
    \A c \in Conns :
        conn[c].phase = "ingame" /\ sess.owner = c => ~Stale

\* A lease whose connection is gone only ages until somebody claims it.
RetainedLeaseAges ==
    [][\A c \in Conns :
          sess.owner = c /\ conn[c].phase = "gone" /\ sess'.owner = c
            => sess'.hb >= sess.hb]_leaseVars
=============================================================================
