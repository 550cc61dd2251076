------------------------- MODULE SessionLeaseProofs -------------------------
(***************************************************************************)
(* Proofs about the session lease, for every set of connections, cores,    *)
(* tokens and addresses and every deployment.                              *)
(***************************************************************************)
EXTENDS SessionLease, TLAPS

SessStates ==
    [state : {"none", "AUTHED", "ACTIVE"}, owner : Conns \cup {None},
     hb : 0 .. StaleAfter + 1, token : Tokens \cup {None},
     fresh : BOOLEAN, ip : Ips \cup {None}]

\* The handler of c moves to phase p with epoch e and n exits in the worker;
\* every other handler stays as it is.
Effect(c, p, e, n) ==
    /\ conn' \in [Conns -> ConnStates]
    /\ \A d \in Conns \ {c} : conn'[d] = conn[d]
    /\ conn'[c].phase = p
    /\ conn'[c].epoch = e
    /\ conn'[c].exits = n

-----------------------------------------------------------------------------
(* What the handler's moves do to its record.                              *)

\* A deployment gives every connection a core and has a staleness bound.
LEMMA SiteType ==
    ASSUME site \in Sites
    PROVE  StaleAfter \in Nat \ {0} /\ MaxEpoch \in Nat /\ CoreOf \in [Conns -> Cores]
BY SessionAssumption DEF StaleAfter, MaxEpoch, CoreOf

\* Every phase name of the model is a phase.
LEMMA PhaseNames ==
    {"new", "login", "bootstrap", "retry", "claimed", "select", "loading",
     "ingame", "handoff", "prepared", "flushing", "leaving", "ending", "gone"}
      = Phases
BY DEF Phases, Idling, Served

\* Moved changes the phase and keeps epoch and exits, also of a finished task.
LEMMA MovedType ==
    ASSUME TypeOK, NEW h \in ConnStates, NEW p \in Phases
    PROVE  /\ Moved(h, p) \in ConnStates
           /\ Moved(h, p).phase = p
           /\ Moved(h, p).epoch = h.epoch
           /\ Moved(h, p).exits = h.exits
<1>0. MaxEpoch \in Nat BY SiteType DEF TypeOK
<1>1. CASE p = "gone"
  <2>1. Moved(h, p) = [phase |-> "gone", token |-> None, ip |-> None, rx |-> 0,
                       due |-> FALSE, epoch |-> h.epoch, exits |-> h.exits]
    BY <1>1 DEF Moved, NewConn
  <2>2. h.epoch \in 0 .. MaxEpoch /\ h.exits \in 0 .. 2 BY DEF ConnStates
  <2>3. 0 \in 0 .. HeartbeatTimeout /\ FALSE \in BOOLEAN
    BY DEF HeartbeatTimeout
  <2>4. "gone" \in Phases /\ None \in Tokens \cup {None} /\ None \in Ips \cup {None}
    BY PhaseNames
  <2>5. [phase |-> "gone", token |-> None, ip |-> None, rx |-> 0,
         due |-> FALSE, epoch |-> h.epoch, exits |-> h.exits] \in ConnStates
    BY <2>2, <2>3, <2>4 DEF ConnStates
  <2>6. Moved(h, p) \in ConnStates BY ONLY <2>1, <2>5
  <2>7. /\ Moved(h, p).phase = "gone" /\ Moved(h, p).epoch = h.epoch
        /\ Moved(h, p).exits = h.exits
    BY ONLY <2>1
  <2> QED BY <1>1, <2>6, <2>7
<1>2. CASE p # "gone" BY <1>2 DEF Moved, ConnStates
<1> QED BY <1>1, <1>2

\* The records the handlers' moves build are handlers.
LEMMA ExitUpdate ==
    ASSUME NEW h \in ConnStates, NEW p \in Phases, NEW n \in 0 .. 2
    PROVE  /\ [h EXCEPT !.phase = p, !.exits = n] \in ConnStates
           /\ [h EXCEPT !.exits = n] \in ConnStates
<1>1. [h EXCEPT !.phase = p, !.exits = n] \in ConnStates BY DEF ConnStates
<1>2. [h EXCEPT !.exits = n] \in ConnStates BY DEF ConnStates
<1> QED BY <1>1, <1>2

\* A phase that waits for the client.
LEMMA IdleUpdate ==
    ASSUME NEW h \in ConnStates, NEW p \in Phases
    PROVE  [h EXCEPT !.phase = p, !.due = FALSE, !.rx = 0] \in ConnStates
<1>1. 0 \in 0 .. HeartbeatTimeout /\ FALSE \in BOOLEAN BY DEF HeartbeatTimeout
<1> QED BY <1>1 DEF ConnStates

\* The interval timer and the time of the last packet.
LEMMA TimerUpdate ==
    ASSUME NEW h \in ConnStates, NEW x \in 0 .. HeartbeatTimeout, NEW d \in BOOLEAN
    PROVE  /\ [h EXCEPT !.rx = x] \in ConnStates
           /\ [h EXCEPT !.due = d] \in ConnStates
           /\ [h EXCEPT !.rx = x, !.due = d] \in ConnStates
<1>1. [h EXCEPT !.rx = x] \in ConnStates BY DEF ConnStates
<1>2. [h EXCEPT !.due = d] \in ConnStates BY DEF ConnStates
<1>3. [h EXCEPT !.rx = x, !.due = d] \in ConnStates BY DEF ConnStates
<1> QED BY <1>1, <1>2, <1>3

\* A handler that goes to another phase.
LEMMA GoesEffect ==
    ASSUME TypeOK, NEW c \in Conns, NEW p \in Phases, Goes(c, p)
    PROVE  Effect(c, p, conn[c].epoch, conn[c].exits)
<1>1. conn \in [Conns -> ConnStates] /\ conn[c] \in ConnStates BY DEF TypeOK
<1>2. conn' = [conn EXCEPT ![c] = Moved(conn[c], p)] BY <1>1 DEF Goes
<1> HIDE DEF TypeOK
<1> QED BY <1>1, <1>2, MovedType DEF Effect

\* A handler that waits for its client.
LEMMA IdlesEffect ==
    ASSUME TypeOK, NEW c \in Conns, NEW p \in Phases, Idles(c, p)
    PROVE  Effect(c, p, conn[c].epoch, conn[c].exits)
<1> DEFINE h == [conn[c] EXCEPT !.phase = p, !.due = FALSE, !.rx = 0]
<1>1. conn \in [Conns -> ConnStates] /\ conn[c] \in ConnStates BY DEF TypeOK
<1>2. conn' = [conn EXCEPT ![c] = h] BY <1>1 DEF Idles
<1>4. h \in ConnStates BY <1>1, IdleUpdate
<1>5. h.phase = p /\ h.epoch = conn[c].epoch /\ h.exits = conn[c].exits
  BY <1>1 DEF ConnStates
<1> QED BY <1>1, <1>2, <1>4, <1>5 DEF Effect

\* A handler that hands an exit to the worker.
LEMMA CommitExitEffect ==
    ASSUME TypeOK, NEW c \in Conns, NEW p \in Phases, CommitExit(c, p)
    PROVE  \E n \in 1 .. 2 : Effect(c, p, conn[c].epoch, n)
<1>1. conn \in [Conns -> ConnStates] /\ conn[c] \in ConnStates BY DEF TypeOK
<1>2. PICK n \in Enqueued(conn[c].exits) :
         conn' = [conn EXCEPT ![c].phase = p, ![c].exits = n]
  BY DEF CommitExit
<1> DEFINE h == [conn[c] EXCEPT !.phase = p, !.exits = n]
<1>3. n \in 1 .. 2 /\ n \in 0 .. 2 BY <1>1, <1>2 DEF Enqueued, ConnStates
<1>4. conn' = [conn EXCEPT ![c] = h] BY <1>1, <1>2
<1>5. h \in ConnStates BY <1>1, <1>3, ExitUpdate
<1>6. h.phase = p /\ h.epoch = conn[c].epoch /\ h.exits = n
  BY <1>1 DEF ConnStates
<1> QED BY <1>1, <1>3, <1>4, <1>5, <1>6 DEF Effect

\* A handler whose exit the worker answers.
LEMMA AnsweredEffect ==
    ASSUME TypeOK, NEW c \in Conns, NEW ok \in BOOLEAN, conn[c].exits > 0,
           Answered(c, ok)
    PROVE  \E p \in Phases :
             /\ Effect(c, p, conn[c].epoch, conn[c].exits - 1)
             /\ \/ p = conn[c].phase
                \/ conn[c].phase = "handoff" /\ p \in {"prepared", "ingame"}
                \/ conn[c].phase = "leaving" /\ p = "gone"
<1> DEFINE h == [conn[c] EXCEPT !.exits = @ - 1]
<1>1. conn \in [Conns -> ConnStates] /\ conn[c] \in ConnStates BY DEF TypeOK
<1>2. /\ h \in ConnStates /\ h.phase = conn[c].phase /\ h.phase \in Phases
      /\ h.epoch = conn[c].epoch /\ h.exits = conn[c].exits - 1
  BY <1>1 DEF ConnStates
<1> HIDE DEF h
<1>3. CASE h.phase = "handoff" /\ h.exits = 0
  <2> DEFINE p == IF ok THEN "prepared" ELSE "ingame"
  <2>1. p \in Phases /\ p \in {"prepared", "ingame"} BY PhaseNames
  <2>2. conn' = [conn EXCEPT ![c] = Moved(h, p)] BY <1>3 DEF Answered, h
  <2> HIDE DEF p
  <2>3. Effect(c, p, conn[c].epoch, conn[c].exits - 1)
    BY <1>1, <1>2, <2>1, <2>2, MovedType DEF Effect
  <2> QED BY <1>2, <1>3, <2>1, <2>3
<1>4. CASE h.phase = "leaving" /\ h.exits = 0
  <2>1. "gone" \in Phases BY PhaseNames
  <2>2. conn' = [conn EXCEPT ![c] = Moved(h, "gone")] BY <1>4 DEF Answered, h
  <2>3. Effect(c, "gone", conn[c].epoch, conn[c].exits - 1)
    BY <1>1, <1>2, <2>1, <2>2, MovedType DEF Effect
  <2> QED BY <1>2, <1>4, <2>1, <2>3
<1>5. CASE ~(h.phase = "handoff" /\ h.exits = 0) /\ ~(h.phase = "leaving" /\ h.exits = 0)
  <2>1. conn' = [conn EXCEPT ![c] = h] BY <1>5 DEF Answered, h
  <2>2. Effect(c, h.phase, conn[c].epoch, conn[c].exits - 1)
    BY <1>1, <1>2, <2>1 DEF Effect
  <2> QED BY <1>2, <2>2
<1> QED BY <1>3, <1>4, <1>5

-----------------------------------------------------------------------------
(* Type correctness.                                                       *)

\* The statements on game.sessions keep the row well typed.
LEMMA StatementTypes ==
    ASSUME TypeOK, NEW c \in Conns, NEW t \in Tokens \cup {None}
    PROVE  /\ sess \in SessStates
           /\ Resume(c) => sess' \in SessStates /\ tookOver' \subseteq Conns
           /\ SetLoginToken(t) => sess' \in SessStates
           /\ Released(c) \in SessStates
<1>0. StaleAfter \in Nat BY SiteType DEF TypeOK
<1>1. sess \in SessStates BY DEF TypeOK, SessStates
<1>2. ASSUME Resume(c) PROVE sess' \in SessStates /\ tookOver' \subseteq Conns
  <2>1. conn[c].ip \in Ips \cup {None} BY DEF TypeOK, ConnStates
  <2>2. 0 \in 0 .. StaleAfter + 1 /\ TRUE \in BOOLEAN BY <1>0
  <2>3. sess' = [sess EXCEPT !.state = "ACTIVE", !.owner = c, !.hb = 0,
                            !.fresh = TRUE, !.ip = conn[c].ip]
    BY <1>2 DEF Resume
  <2>4. sess' \in SessStates BY <1>1, <2>1, <2>2, <2>3 DEF SessStates
  <2>5. sess.owner \in Conns \cup {None} BY <1>1 DEF SessStates
  <2>6. tookOver' \subseteq Conns BY <1>2, <2>5 DEF Resume, TypeOK
  <2> QED BY <2>4, <2>6
<1>3. ASSUME SetLoginToken(t) PROVE sess' \in SessStates
  <2>1. sess.hb \in 0 .. StaleAfter + 1 /\ sess.owner \in Conns \cup {None}
    BY <1>1 DEF SessStates
  <2>2. 0 \in 0 .. StaleAfter + 1 /\ TRUE \in BOOLEAN BY <1>0
  <2> QED BY <1>3, <2>1, <2>2 DEF SetLoginToken, SessStates
<1>4. Released(c) \in SessStates BY <1>1 DEF Released, SessStates
<1> QED BY <1>1, <1>2, <1>3, <1>4

\* The heartbeat of the row is well typed whoever writes it.
LEMMA HeartbeatType == ASSUME TypeOK, Heartbeat PROVE sess' \in SessStates
<1>1. 0 \in 0 .. StaleAfter + 1 BY SiteType DEF TypeOK
<1>2. sess \in SessStates BY DEF TypeOK, SessStates
<1> QED BY <1>1, <1>2 DEF Heartbeat, SessStates

\* TypeOK after a step, from what the step does to each variable.
LEMMA TypeFrom ==
    ASSUME TypeOK, UNCHANGED site, sess' \in SessStates,
           conn' \in [Conns -> ConnStates], epoch' \in 0 .. MaxEpoch,
           entity' \in [Cores -> Conns \cup {None}], expired' \subseteq Tokens,
           gateway' \in BOOLEAN, tookOver' \subseteq Conns, exited' \subseteq Conns
    PROVE  TypeOK'
<1>1. MaxEpoch' = MaxEpoch /\ StaleAfter' = StaleAfter BY DEF MaxEpoch, StaleAfter
<1>2. ConnStates' = ConnStates BY <1>1 DEF ConnStates
<1>3. site' \in Sites BY DEF TypeOK
<1> QED BY <1>1, <1>2, <1>3 DEF TypeOK, SessStates

\* Leaving a map changes one entry of the player index.
LEMMA EntityType ==
    ASSUME TypeOK, NEW c \in Conns
    PROVE  /\ entity \in [Cores -> Conns \cup {None}]
           /\ CoreOf[c] \in Cores
           /\ Left(c) \in [Cores -> Conns \cup {None}]
           /\ [entity EXCEPT ![CoreOf[c]] = c] \in [Cores -> Conns \cup {None}]
<1>1. CoreOf \in [Conns -> Cores] BY SiteType DEF TypeOK
<1>2. entity \in [Cores -> Conns \cup {None}] BY DEF TypeOK
<1>3. CoreOf[c] \in Cores BY <1>1
<1> HIDE DEF CoreOf
<1> QED BY <1>2, <1>3 DEF Left

-----------------------------------------------------------------------------
(* The actions that write the handler's record themselves.                 *)

\* Connect, LoadPlayer, Receive and Tick.
LEMMA RecordEffects ==
    ASSUME TypeOK, NEW c \in Conns
    PROVE  /\ \A t \in Tokens, i \in Ips :
                Connect(c, t, i) => Effect(c, "login", conn[c].epoch, conn[c].exits)
           /\ LoadPlayer(c) => Effect(c, "loading", epoch, conn[c].exits)
           /\ Receive(c) => Effect(c, conn[c].phase, conn[c].epoch, conn[c].exits)
           /\ Tick(c) => Effect(c, conn[c].phase, conn[c].epoch, conn[c].exits)
<1>1. conn \in [Conns -> ConnStates] /\ conn[c] \in ConnStates /\ epoch \in 0 .. MaxEpoch
  BY DEF TypeOK
<1>2. 0 \in 0 .. HeartbeatTimeout /\ FALSE \in BOOLEAN BY DEF HeartbeatTimeout
<1>3. "login" \in Phases /\ "loading" \in Phases BY PhaseNames
<1>4. ASSUME NEW t \in Tokens, NEW i \in Ips, Connect(c, t, i)
      PROVE  Effect(c, "login", conn[c].epoch, conn[c].exits)
  <2> DEFINE h == [conn[c] EXCEPT !.phase = "login", !.token = t, !.ip = i]
  <2>1. conn' = [conn EXCEPT ![c] = h] BY <1>1, <1>4 DEF Connect
  <2>2. h \in ConnStates BY <1>1, <1>3 DEF ConnStates
  <2>3. h.phase = "login" /\ h.epoch = conn[c].epoch /\ h.exits = conn[c].exits
    BY <1>1 DEF ConnStates
  <2> QED BY <1>1, <2>1, <2>2, <2>3 DEF Effect
<1>5. ASSUME LoadPlayer(c) PROVE Effect(c, "loading", epoch, conn[c].exits)
  <2> DEFINE g == [conn[c] EXCEPT !.phase = "loading", !.due = FALSE, !.rx = 0]
             h == [conn[c] EXCEPT !.phase = "loading", !.due = FALSE, !.rx = 0,
                                  !.epoch = epoch]
  <2>1. conn' = [conn EXCEPT ![c] = h] BY <1>1, <1>5 DEF LoadPlayer
  <2>2. g \in ConnStates BY <1>1, <1>3, IdleUpdate
  <2>3. [g EXCEPT !.epoch = epoch] \in ConnStates
    <3> HIDE DEF g
    <3> QED BY <1>1, <2>2 DEF ConnStates
  <2>4. h = [g EXCEPT !.epoch = epoch] OBVIOUS
  <2>5. h.phase = "loading" /\ h.epoch = epoch /\ h.exits = conn[c].exits
    BY <1>1 DEF ConnStates
  <2> QED BY <1>1, <2>1, <2>3, <2>4, <2>5 DEF Effect
<1>6. ASSUME Receive(c)
      PROVE  Effect(c, conn[c].phase, conn[c].epoch, conn[c].exits)
  <2> DEFINE h == [conn[c] EXCEPT !.rx = 0]
  <2>1. conn' = [conn EXCEPT ![c] = h] BY <1>1, <1>6 DEF Receive
  <2>2. h \in ConnStates BY <1>1, <1>2, TimerUpdate
  <2>3. h.phase = conn[c].phase /\ h.epoch = conn[c].epoch /\ h.exits = conn[c].exits
    BY <1>1 DEF ConnStates
  <2> QED BY <1>1, <2>1, <2>2, <2>3 DEF Effect
<1>7. ASSUME Tick(c)
      PROVE  Effect(c, conn[c].phase, conn[c].epoch, conn[c].exits)
  <2> DEFINE h == [conn[c] EXCEPT !.due = FALSE]
  <2>1. conn' = [conn EXCEPT ![c] = h] BY <1>1, <1>7 DEF Tick
  <2>2. h \in ConnStates BY <1>1, <1>2, TimerUpdate
  <2>3. h.phase = conn[c].phase /\ h.epoch = conn[c].epoch /\ h.exits = conn[c].exits
    BY <1>1 DEF ConnStates
  <2> QED BY <1>1, <2>1, <2>2, <2>3 DEF Effect
<1> QED BY <1>4, <1>5, <1>6, <1>7

\* An interval passes: only timers and ages move.
LEMMA TimePassesEffect ==
    ASSUME TypeOK, TimePasses
    PROVE  /\ sess' \in SessStates
           /\ sess'.state = sess.state /\ sess'.owner = sess.owner
           /\ conn' \in [Conns -> ConnStates]
           /\ \A c \in Conns : /\ conn'[c].phase = conn[c].phase
                               /\ conn'[c].epoch = conn[c].epoch
                               /\ conn'[c].exits = conn[c].exits
<1>0. StaleAfter \in Nat BY SiteType DEF TypeOK
<1>1. sess \in SessStates /\ sess.hb \in 0 .. StaleAfter + 1
  BY DEF TypeOK, SessStates
<1>2. sess' = [sess EXCEPT !.hb = AtMost(sess.hb + 1, StaleAfter + 1)]
  BY DEF TimePasses
<1>3. AtMost(sess.hb + 1, StaleAfter + 1) \in 0 .. StaleAfter + 1
  BY <1>0, <1>1 DEF AtMost
<1>4. sess' \in SessStates /\ sess'.state = sess.state /\ sess'.owner = sess.owner
  <2> DEFINE n == AtMost(sess.hb + 1, StaleAfter + 1)
  <2> HIDE DEF n
  <2> QED BY <1>1, <1>2, <1>3 DEF SessStates, n
<1>5. ASSUME NEW c \in Conns
      PROVE  /\ conn'[c] \in ConnStates /\ conn'[c].phase = conn[c].phase
             /\ conn'[c].epoch = conn[c].epoch /\ conn'[c].exits = conn[c].exits
  <2>1. conn[c] \in ConnStates BY DEF TypeOK
  <2> DEFINE x == AtMost(conn[c].rx + 1, HeartbeatTimeout)
             h == [conn[c] EXCEPT !.rx = x, !.due = TRUE]
  <2>2. conn'[c] = IF conn[c].phase \in Idling THEN h ELSE conn[c]
    BY DEF TimePasses
  <2>3. x \in 0 .. HeartbeatTimeout /\ TRUE \in BOOLEAN
    BY <2>1 DEF AtMost, ConnStates, HeartbeatTimeout
  <2> HIDE DEF x
  <2>4. h \in ConnStates BY <2>1, <2>3, TimerUpdate
  <2>5. h.phase = conn[c].phase /\ h.epoch = conn[c].epoch /\ h.exits = conn[c].exits
    BY <2>1 DEF ConnStates
  <2> QED BY <2>1, <2>2, <2>4, <2>5
<1>6. conn' = [c \in Conns |-> conn'[c]] BY DEF TimePasses
<1> QED BY <1>4, <1>5, <1>6

\* A core crashes: its handlers are over and its exits are lost.
LEMMA CoreCrashesEffect ==
    ASSUME TypeOK, NEW k \in Cores, CoreCrashes(k)
    PROVE  /\ conn' \in [Conns -> ConnStates]
           /\ \A c \in Conns :
                \/ /\ CoreOf[c] = k /\ conn[c].phase # "new"
                   /\ conn'[c].phase = "gone" /\ conn'[c].epoch = conn[c].epoch
                   /\ conn'[c].exits = 0
                \/ /\ ~(CoreOf[c] = k /\ conn[c].phase # "new")
                   /\ conn'[c] = conn[c]
<1>1. ASSUME NEW c \in Conns, CoreOf[c] = k, conn[c].phase # "new"
      PROVE  /\ conn'[c] \in ConnStates
             /\ conn'[c].phase = "gone" /\ conn'[c].epoch = conn[c].epoch
             /\ conn'[c].exits = 0
  <2> DEFINE h == [conn[c] EXCEPT !.exits = 0]
  <2>1. conn[c] \in ConnStates /\ "gone" \in Phases BY PhaseNames DEF TypeOK
  <2>2. conn'[c] = Moved(h, "gone") BY <1>1 DEF CoreCrashes
  <2>3. h \in ConnStates
    <3>1. 0 \in 0 .. 2 OBVIOUS
    <3> QED BY <2>1, <3>1, ExitUpdate
  <2>4. h.epoch = conn[c].epoch /\ h.exits = 0 BY <2>1 DEF ConnStates
  <2> HIDE DEF h
  <2> QED BY <2>1, <2>2, <2>3, <2>4, MovedType
<1>2. ASSUME NEW c \in Conns, ~(CoreOf[c] = k /\ conn[c].phase # "new")
      PROVE  conn'[c] = conn[c] /\ conn[c] \in ConnStates
  BY <1>2 DEF CoreCrashes, TypeOK
<1>3. conn' = [c \in Conns |-> conn'[c]] BY DEF CoreCrashes
<1> QED BY <1>1, <1>2, <1>3

-----------------------------------------------------------------------------
(* The inductive invariant.                                                *)

Holding == Served \cup {"claimed"}
Bodied == {"ingame", "handoff", "prepared"}
Exiting == Bodied \cup {"flushing", "leaving", "ending", "gone"}

\* From the claim on, and before the account is told, the lease is c's.
LeaseHeld ==
    \A c \in Conns :
        conn[c].phase \in Holding /\ c \notin tookOver \cup exited
            => sess.state = "ACTIVE" /\ sess.owner = c

\* An entity stands in its connection's own core and only while the
\* connection is in game or hands it off.
BodiesAreServed ==
    \A c \in Conns, k \in Cores :
        entity[k] = c => CoreOf[c] = k /\ conn[c].phase \in Bodied

\* The worker holds exits only of connections that have been in game, and a
\* connection whose exit was committed is behind the row's epoch for good.
ExitsAreFinal ==
    \A c \in Conns :
        /\ conn[c].exits > 0 => conn[c].phase \in Exiting
        /\ conn[c].epoch <= epoch
        /\ c \in exited => conn[c].epoch < epoch /\ conn[c].phase \in Exiting

LeaseInv == LeaseHeld /\ BodiesAreServed /\ ExitsAreFinal

\* The names of phases in the sets the invariant speaks of.
LEMMA PhaseSets ==
    /\ Holding = {"claimed", "select", "loading", "ingame", "handoff", "prepared", "flushing"}
    /\ Exiting = {"ingame", "handoff", "prepared", "flushing", "leaving", "ending", "gone"}
    /\ Idling = {"login", "select", "loading", "ingame"}
BY DEF Holding, Exiting, Bodied, Served, Idling

\* A step of one handler that leaves the row and the histories alone keeps
\* the invariant when the handler enters no phase that needs more.
LEMMA QuietMove ==
    ASSUME TypeOK, LeaseInv, NEW c \in Conns, NEW p \in Phases, NEW e \in Nat, NEW n \in Nat,
           Effect(c, p, e, n), UNCHANGED <<site, epoch, tookOver, exited>>,
           sess'.state = sess.state, sess'.owner = sess.owner,
           p \in Holding => conn[c].phase \in Holding,
           n > 0 \/ c \in exited => p \in Exiting,
           e <= epoch, c \in exited => e < epoch,
           \A k \in Cores : \/ entity'[k] = entity[k] /\ (entity[k] = c => p \in Bodied)
                            \/ entity'[k] = None
                            \/ k = CoreOf[c] /\ entity'[k] = c /\ p \in Bodied
    PROVE  LeaseInv'
<1>1. LeaseHeld'
  <2> SUFFICES ASSUME NEW d \in Conns, conn'[d].phase \in Holding,
                      d \notin tookOver \cup exited
               PROVE  sess.state = "ACTIVE" /\ sess.owner = d
    BY DEF LeaseHeld
  <2>1. conn[d].phase \in Holding BY DEF Effect
  <2> QED BY <2>1 DEF LeaseInv, LeaseHeld
<1>2. BodiesAreServed'
  <2> SUFFICES ASSUME NEW d \in Conns, NEW k \in Cores, entity'[k] = d
               PROVE  CoreOf[d] = k /\ conn'[d].phase \in Bodied
    BY DEF BodiesAreServed, CoreOf
  <2>1. d # None BY SessionAssumption
  <2>2. CASE d = c BY <2>1, <2>2 DEF Effect, LeaseInv, BodiesAreServed
  <2>3. CASE d # c
    <3>1. entity[k] = d BY <2>1, <2>3
    <3>2. conn'[d] = conn[d] BY <2>3 DEF Effect
    <3> QED BY <3>1, <3>2 DEF LeaseInv, BodiesAreServed
  <2> QED BY <2>2, <2>3
<1>3. ExitsAreFinal'
  <2> SUFFICES ASSUME NEW d \in Conns
               PROVE  /\ conn'[d].exits > 0 => conn'[d].phase \in Exiting
                      /\ conn'[d].epoch <= epoch
                      /\ d \in exited => conn'[d].epoch < epoch /\ conn'[d].phase \in Exiting
    BY DEF ExitsAreFinal
  <2>1. CASE d = c BY <2>1 DEF Effect
  <2>2. CASE d # c BY <2>2 DEF Effect, LeaseInv, ExitsAreFinal
  <2> QED BY <2>1, <2>2
<1> QED BY <1>1, <1>2, <1>3 DEF LeaseInv

\* The same for a step of one handler that writes no other variable but,
\* when it leaves the map, the player index.
LEMMA HandlerMove ==
    ASSUME TypeOK, LeaseInv, NEW c \in Conns, NEW p \in Phases, NEW n \in Nat,
           Effect(c, p, conn[c].epoch, n),
           UNCHANGED <<site, sess, epoch, expired, gateway, tookOver, exited>>,
           p \in Holding => conn[c].phase \in Holding,
           n > 0 \/ conn[c].phase \in Exiting => p \in Exiting,
           \/ /\ entity' = entity
              /\ p \in Bodied \/ conn[c].phase \notin Bodied \/ ~MayLeave(c)
           \/ entity' = Left(c)
    PROVE  TypeOK' /\ LeaseInv'
<1>1. TypeOK'
  BY TypeFrom, StatementTypes, EntityType DEF Effect, TypeOK, SessStates
<1>2. conn[c].epoch \in Nat /\ epoch \in Nat /\ conn[c].epoch <= epoch
  BY SiteType DEF TypeOK, ConnStates, LeaseInv, ExitsAreFinal
<1>3. c \in exited => conn[c].epoch < epoch /\ conn[c].phase \in Exiting
  BY DEF LeaseInv, ExitsAreFinal
<1>4. ASSUME NEW k \in Cores
      PROVE  \/ entity'[k] = entity[k] /\ (entity[k] = c => p \in Bodied)
             \/ entity'[k] = None
  <2>1. CASE entity' = Left(c) /\ k = CoreOf[c] BY <2>1, EntityType DEF Left
  <2>2. CASE entity' = Left(c) /\ k # CoreOf[c]
    BY <2>2, EntityType DEF Left, LeaseInv, BodiesAreServed
  <2>3. CASE entity' = entity /\ (p \in Bodied \/ conn[c].phase \notin Bodied \/ ~MayLeave(c))
    BY <2>3 DEF MayLeave, LeaseInv, BodiesAreServed
  <2> QED BY <2>1, <2>2, <2>3
<1>5. LeaseInv' BY <1>2, <1>3, <1>4, QuietMove
<1> QED BY <1>1, <1>5

\* The login of a connection keeps the invariant: a claim takes the lease
\* from nobody, or from a stale owner that is recorded.
LEMMA LoginKeeps ==
    ASSUME TypeOK, LeaseInv, NEW c \in Conns, LoginStep(c)
    PROVE  TypeOK' /\ LeaseInv'
<1>0. /\ conn[c].phase \in Phases /\ conn[c].exits \in Nat /\ conn[c].epoch \in Nat
      /\ conn[c].token \in Tokens \cup {None}
  BY SiteType DEF TypeOK, ConnStates
<1>e. conn[c].exits > 0 => conn[c].phase \in Exiting
  BY DEF LeaseInv, ExitsAreFinal
<1>1. ASSUME NEW t \in Tokens, NEW i \in Ips, Connect(c, t, i) PROVE TypeOK' /\ LeaseInv'
  <2>1. Effect(c, "login", conn[c].epoch, conn[c].exits) BY <1>1, RecordEffects
  <2>2. conn[c].phase = "new" /\ entity' = entity
        /\ UNCHANGED <<site, sess, epoch, expired, gateway, tookOver, exited>>
    BY <1>1 DEF Connect
  <2>3. "login" \in Phases /\ "login" \notin Holding /\ "new" \notin Exiting
        /\ "new" \notin Bodied
    BY PhaseNames, PhaseSets DEF Bodied
  <2> QED BY <1>0, <1>e, <2>1, <2>2, <2>3, HandlerMove
<1>2. CASE LoginResume(c)
  <2>1. Effect(c, "claimed", conn[c].epoch, conn[c].exits)
    BY <1>2, GoesEffect, PhaseNames DEF LoginResume
  <2>2. /\ ResumeMatches(c) /\ Resume(c) /\ conn[c].phase \in {"login", "retry"}
        /\ UNCHANGED <<site, epoch, entity, expired, gateway, exited>>
    BY <1>2 DEF LoginResume
  <2>3. conn[c].phase \notin Bodied /\ conn[c].phase \notin Exiting
    BY <2>2, PhaseSets DEF Bodied
  <2>4. sess'.state = "ACTIVE" /\ sess'.owner = c
    BY <2>2, StatementTypes DEF Resume, SessStates
  <2>5. TypeOK'
    BY <2>1, <2>2, TypeFrom, StatementTypes, EntityType DEF Effect, TypeOK
  <2>6. LeaseHeld'
    <3> SUFFICES ASSUME NEW d \in Conns, conn'[d].phase \in Holding,
                        d \notin tookOver' \cup exited'
                 PROVE  d = c
      BY <2>4 DEF LeaseHeld
    <3> SUFFICES ASSUME d # c PROVE FALSE
      OBVIOUS
    <3>1. conn'[d] = conn[d] BY <2>1 DEF Effect
    <3>2. tookOver \subseteq tookOver' BY <2>2 DEF Resume
    <3>3. sess.state = "ACTIVE" /\ sess.owner = d
      BY <2>2, <3>1, <3>2 DEF LeaseInv, LeaseHeld
    <3>4. Stale BY <2>2, <3>3 DEF ResumeMatches
    <3>5. d \in tookOver' BY <2>2, <3>3, <3>4, SessionAssumption DEF Resume
    <3> QED BY <3>5
  <2>7. BodiesAreServed'
    <3> SUFFICES ASSUME NEW d \in Conns, NEW k \in Cores, entity[k] = d
                 PROVE  CoreOf[d] = k /\ conn'[d].phase \in Bodied
      BY <2>2 DEF BodiesAreServed, CoreOf
    <3>1. CoreOf[d] = k /\ conn[d].phase \in Bodied BY DEF LeaseInv, BodiesAreServed
    <3>2. d # c BY <2>3, <3>1
    <3> QED BY <2>1, <3>1, <3>2 DEF Effect
  <2>8. ExitsAreFinal'
    <3> SUFFICES ASSUME NEW d \in Conns
                 PROVE  /\ conn'[d].exits > 0 => conn'[d].phase \in Exiting
                        /\ conn'[d].epoch <= epoch
                        /\ d \in exited => conn'[d].epoch < epoch /\ conn'[d].phase \in Exiting
      BY <2>2 DEF ExitsAreFinal
    <3>1. CASE d # c BY <2>1, <3>1 DEF Effect, LeaseInv, ExitsAreFinal
    <3>2. CASE d = c BY <1>0, <2>1, <2>3, <3>2 DEF Effect, LeaseInv, ExitsAreFinal
    <3> QED BY <3>1, <3>2
  <2> QED BY <2>5, <2>6, <2>7, <2>8 DEF LeaseInv
<1>3. CASE LoginNoMatch(c)
  <2> DEFINE p == IF conn[c].phase = "login" /\ conn[c].token \notin expired
                  THEN "bootstrap" ELSE "gone"
  <2>1. p \in Phases /\ p \notin Holding /\ p \in {"bootstrap", "gone"}
    BY PhaseNames, PhaseSets
  <2>2. Goes(c, p) BY <1>3 DEF LoginNoMatch
  <2> HIDE DEF p
  <2>3. Effect(c, p, conn[c].epoch, conn[c].exits) BY <2>1, <2>2, GoesEffect
  <2>4. conn[c].phase \in {"login", "retry"} /\ entity' = entity
        /\ UNCHANGED <<site, sess, epoch, expired, gateway, tookOver, exited>>
    BY <1>3 DEF LoginNoMatch
  <2>5. conn[c].phase \notin Bodied /\ conn[c].phase \notin Exiting
    BY <2>4, PhaseSets DEF Bodied
  <2> QED BY <1>0, <1>e, <2>1, <2>3, <2>4, <2>5, HandlerMove
<1>4. CASE LoginBootstrap(c)
  <2>1. Effect(c, "retry", conn[c].epoch, conn[c].exits)
    BY <1>4, GoesEffect, PhaseNames DEF LoginBootstrap
  <2>2. /\ SetLoginToken(conn[c].token) /\ conn[c].phase = "bootstrap"
        /\ UNCHANGED <<site, epoch, entity, expired, gateway, tookOver, exited>>
    BY <1>4 DEF LoginBootstrap
  <2>3. conn[c].phase \notin Bodied /\ conn[c].phase \notin Exiting
        /\ "retry" \notin Holding
    BY <2>2, PhaseSets DEF Bodied
  <2>5. TypeOK'
    BY <1>0, <2>1, <2>2, TypeFrom, StatementTypes, EntityType DEF Effect, TypeOK
  <2>6. LeaseHeld'
    <3> SUFFICES ASSUME NEW d \in Conns, conn'[d].phase \in Holding,
                        d \notin tookOver \cup exited
                 PROVE  sess'.state = "ACTIVE" /\ sess'.owner = d
      BY <2>2 DEF LeaseHeld
    <3>1. d # c BY <2>1, <2>3 DEF Effect
    <3>2. conn'[d] = conn[d] BY <2>1, <3>1 DEF Effect
    <3>3. sess.state = "ACTIVE" /\ sess.owner = d
      BY <3>2 DEF LeaseInv, LeaseHeld
    <3> QED BY <2>2, <3>3, SessionAssumption DEF SetLoginToken
  <2>7. BodiesAreServed'
    <3> SUFFICES ASSUME NEW d \in Conns, NEW k \in Cores, entity[k] = d
                 PROVE  CoreOf[d] = k /\ conn'[d].phase \in Bodied
      BY <2>2 DEF BodiesAreServed, CoreOf
    <3>1. CoreOf[d] = k /\ conn[d].phase \in Bodied BY DEF LeaseInv, BodiesAreServed
    <3>2. d # c BY <2>3, <3>1
    <3> QED BY <2>1, <3>1, <3>2 DEF Effect
  <2>8. ExitsAreFinal'
    <3> SUFFICES ASSUME NEW d \in Conns
                 PROVE  /\ conn'[d].exits > 0 => conn'[d].phase \in Exiting
                        /\ conn'[d].epoch <= epoch
                        /\ d \in exited => conn'[d].epoch < epoch /\ conn'[d].phase \in Exiting
      BY <2>2 DEF ExitsAreFinal
    <3>1. CASE d # c BY <2>1, <3>1 DEF Effect, LeaseInv, ExitsAreFinal
    <3>2. CASE d = c BY <1>0, <2>1, <2>3, <3>2 DEF Effect, LeaseInv, ExitsAreFinal
    <3> QED BY <3>1, <3>2
  <2> QED BY <2>5, <2>6, <2>7, <2>8 DEF LeaseInv
<1>5. CASE LoginAccepted(c)
  <2>1. Effect(c, "select", conn[c].epoch, conn[c].exits)
    BY <1>5, IdlesEffect, PhaseNames DEF LoginAccepted
  <2>2. conn[c].phase = "claimed" /\ entity' = entity
        /\ UNCHANGED <<site, sess, epoch, expired, gateway, tookOver, exited>>
    BY <1>5 DEF LoginAccepted
  <2>3. /\ "select" \in Phases /\ "claimed" \in Holding /\ "claimed" \notin Bodied
        /\ "claimed" \notin Exiting
    BY PhaseNames, PhaseSets DEF Bodied
  <2> QED BY <1>0, <1>e, <2>1, <2>2, <2>3, HandlerMove
<1>6. CASE LoginAbandoned(c)
  <2>1. Effect(c, "gone", conn[c].epoch, conn[c].exits)
    BY <1>6, GoesEffect, PhaseNames DEF LoginAbandoned
  <2>2. conn[c].phase \in {"login", "bootstrap", "retry", "claimed"} /\ entity' = entity
        /\ UNCHANGED <<site, sess, epoch, expired, gateway, tookOver, exited>>
    BY <1>6 DEF LoginAbandoned
  <2>3. "gone" \in Phases /\ "gone" \notin Holding /\ "gone" \in Exiting
        /\ conn[c].phase \notin Bodied
    BY <2>2, PhaseNames, PhaseSets DEF Bodied
  <2> QED BY <1>0, <2>1, <2>2, <2>3, HandlerMove
<1> QED BY <1>1, <1>2, <1>3, <1>4, <1>5, <1>6 DEF LoginStep

\* Leaving the map by finalize_ingame_result: with an exit handed to the
\* worker, or for a released lease when the entity is not the connection's.
LEMMA LeaveKeeps ==
    ASSUME TypeOK, LeaseInv, NEW c \in Conns, conn[c].phase \in Bodied,
           LeaveGame(c) \/ LeaveFails(c),
           UNCHANGED <<site, sess, epoch, expired, gateway, tookOver, exited>>
    PROVE  TypeOK' /\ LeaseInv'
<1>0. conn[c].exits \in Nat BY DEF TypeOK, ConnStates
<1>1. /\ "leaving" \in Phases /\ "leaving" \notin Holding /\ "leaving" \in Exiting
      /\ "ending" \in Phases /\ "ending" \notin Holding /\ "ending" \in Exiting
  BY PhaseNames, PhaseSets
<1>2. CASE LeaveGame(c)
  <2>1. PICK n \in 1 .. 2 : Effect(c, "leaving", conn[c].epoch, n)
    BY <1>1, <1>2, CommitExitEffect DEF LeaveGame
  <2>2. n \in Nat BY <2>1
  <2>3. entity' = Left(c) BY <1>2 DEF LeaveGame
  <2> QED BY <1>1, <2>1, <2>2, <2>3, HandlerMove
<1>3. CASE LeaveFails(c)
  <2>1. Effect(c, "ending", conn[c].epoch, conn[c].exits)
    BY <1>1, <1>3, GoesEffect DEF LeaveFails
  <2>2. entity' = entity /\ ~MayLeave(c) BY <1>3 DEF LeaveFails
  <2> QED BY <1>0, <1>1, <2>1, <2>2, HandlerMove
<1> QED BY <1>2, <1>3

\* The phases past the login keep the invariant.  Only the release and the
\* committed exit write the row; the exit moves the epoch with it, so its
\* connection is behind the row from then on.
LEMMA PhaseKeeps ==
    ASSUME TypeOK, LeaseInv, NEW c \in Conns, PhaseStep(c)
    PROVE  TypeOK' /\ LeaseInv'
<1>0. /\ conn[c].phase \in Phases /\ conn[c].exits \in Nat /\ conn[c].epoch \in Nat
      /\ epoch \in Nat /\ MaxEpoch \in Nat
  BY SiteType DEF TypeOK, ConnStates
<1>e. /\ conn[c].exits > 0 => conn[c].phase \in Exiting
      /\ c \in exited => conn[c].epoch < epoch /\ conn[c].phase \in Exiting
  BY DEF LeaseInv, ExitsAreFinal
<1>1. CASE LoadPlayer(c)
  <2>1. Effect(c, "loading", epoch, conn[c].exits) BY <1>1, RecordEffects
  <2>2. conn[c].phase = "select" /\ entity' = entity
        /\ UNCHANGED <<site, sess, epoch, expired, gateway, tookOver, exited>>
    BY <1>1 DEF LoadPlayer
  <2>3. /\ "loading" \in Phases /\ "select" \in Holding /\ "select" \notin Exiting
        /\ "select" \notin Bodied
    BY PhaseNames, PhaseSets DEF Bodied
  <2>4. TypeOK' BY <2>1, <2>2, TypeFrom, StatementTypes DEF Effect, TypeOK
  <2>5. \A k \in Cores : entity[k] # c BY <2>2, <2>3 DEF LeaseInv, BodiesAreServed
  <2>6. LeaseInv' BY <1>0, <1>e, <2>1, <2>2, <2>3, <2>5, QuietMove
  <2> QED BY <2>4, <2>6
<1>2. CASE EnterMap(c)
  <2>1. Effect(c, "ingame", conn[c].epoch, conn[c].exits)
    BY <1>2, IdlesEffect, PhaseNames DEF EnterMap
  <2>2. conn[c].phase = "loading" /\ entity' = [entity EXCEPT ![CoreOf[c]] = c]
        /\ UNCHANGED <<site, sess, epoch, expired, gateway, tookOver, exited>>
    BY <1>2 DEF EnterMap
  <2>3. /\ "ingame" \in Phases /\ "loading" \in Holding /\ "ingame" \in Bodied
        /\ "ingame" \in Exiting /\ "loading" \notin Exiting
    BY PhaseNames, PhaseSets DEF Bodied
  <2>4. TypeOK' BY <2>1, <2>2, TypeFrom, StatementTypes, EntityType DEF Effect, TypeOK
  <2>5. conn[c].epoch <= epoch BY DEF LeaseInv, ExitsAreFinal
  <2>6. \A k \in Cores : entity'[k] = entity[k] \/ (k = CoreOf[c] /\ entity'[k] = c)
    BY <2>2, EntityType
  <2>7. LeaseInv' BY <1>0, <1>e, <2>1, <2>2, <2>3, <2>5, <2>6, QuietMove
  <2> QED BY <2>4, <2>7
<1>3. CASE EndsUnentered(c)
  <2>1. Effect(c, "ending", conn[c].epoch, conn[c].exits)
    BY <1>3, GoesEffect, PhaseNames DEF EndsUnentered
  <2>2. conn[c].phase \in {"select", "loading"} /\ entity' = entity
        /\ UNCHANGED <<site, sess, epoch, expired, gateway, tookOver, exited>>
    BY <1>3 DEF EndsUnentered
  <2>3. "ending" \in Phases /\ "ending" \notin Holding /\ "ending" \in Exiting
        /\ conn[c].phase \notin Bodied
    BY <2>2, PhaseNames, PhaseSets DEF Bodied
  <2> QED BY <1>0, <2>1, <2>2, <2>3, HandlerMove
<1>4. CASE ReleaseSession(c)
  <2>1. Effect(c, "gone", conn[c].epoch, conn[c].exits)
    BY <1>4, GoesEffect, PhaseNames DEF ReleaseSession
  <2>2. /\ sess' = Released(c) /\ conn[c].phase = "ending"
        /\ UNCHANGED <<site, epoch, entity, expired, gateway, tookOver, exited>>
    BY <1>4 DEF ReleaseSession
  <2>3. "gone" \notin Holding /\ "gone" \in Exiting /\ "ending" \notin Bodied
    BY PhaseSets DEF Bodied
  <2>5. TypeOK'
    BY <2>1, <2>2, TypeFrom, StatementTypes, EntityType DEF Effect, TypeOK
  <2>6. LeaseHeld'
    <3> SUFFICES ASSUME NEW d \in Conns, conn'[d].phase \in Holding,
                        d \notin tookOver \cup exited
                 PROVE  sess'.state = "ACTIVE" /\ sess'.owner = d
      BY <2>2 DEF LeaseHeld
    <3>1. d # c BY <2>1, <2>3 DEF Effect
    <3>2. conn'[d] = conn[d] BY <2>1, <3>1 DEF Effect
    <3>3. sess.state = "ACTIVE" /\ sess.owner = d
      BY <3>2 DEF LeaseInv, LeaseHeld
    <3> QED BY <2>2, <3>1, <3>3 DEF Released
  <2>7. BodiesAreServed'
    <3> SUFFICES ASSUME NEW d \in Conns, NEW k \in Cores, entity[k] = d
                 PROVE  CoreOf[d] = k /\ conn'[d].phase \in Bodied
      BY <2>2 DEF BodiesAreServed, CoreOf
    <3>1. CoreOf[d] = k /\ conn[d].phase \in Bodied BY DEF LeaseInv, BodiesAreServed
    <3>2. d # c BY <2>2, <2>3, <3>1
    <3> QED BY <2>1, <3>1, <3>2 DEF Effect
  <2>8. ExitsAreFinal'
    <3> SUFFICES ASSUME NEW d \in Conns
                 PROVE  /\ conn'[d].exits > 0 => conn'[d].phase \in Exiting
                        /\ conn'[d].epoch <= epoch
                        /\ d \in exited => conn'[d].epoch < epoch /\ conn'[d].phase \in Exiting
      BY <2>2 DEF ExitsAreFinal
    <3>1. CASE d # c BY <2>1, <3>1 DEF Effect, LeaseInv, ExitsAreFinal
    <3>2. CASE d = c BY <2>1, <2>3, <3>2 DEF Effect, LeaseInv, ExitsAreFinal
    <3> QED BY <3>1, <3>2
  <2> QED BY <2>5, <2>6, <2>7, <2>8 DEF LeaseInv
<1>5. CASE ReleaseFails(c)
  <2>1. Effect(c, "gone", conn[c].epoch, conn[c].exits)
    BY <1>5, GoesEffect, PhaseNames DEF ReleaseFails
  <2>2. conn[c].phase = "ending" /\ entity' = entity
        /\ UNCHANGED <<site, sess, epoch, expired, gateway, tookOver, exited>>
    BY <1>5 DEF ReleaseFails
  <2>3. "gone" \in Phases /\ "gone" \notin Holding /\ "gone" \in Exiting
        /\ "ending" \notin Bodied
    BY PhaseNames, PhaseSets DEF Bodied
  <2> QED BY <1>0, <2>1, <2>2, <2>3, HandlerMove
<1>6. CASE Disconnect(c)
  BY <1>6, LeaveKeeps DEF Disconnect, Bodied
<1>7. CASE BackToSelect(c)
  <2>1. conn[c].phase = "ingame" /\ conn[c].phase \in Bodied
        /\ UNCHANGED <<site, sess, epoch, expired, gateway, tookOver, exited>>
    BY <1>7 DEF BackToSelect, Bodied
  <2>2. CASE LeaveFails(c) BY <2>1, <2>2, LeaveKeeps
  <2>3. CASE entity' = Left(c) /\ Goes(c, "flushing")
    <3>1. "flushing" \in Phases /\ "flushing" \in Exiting /\ "ingame" \in Holding
      BY PhaseNames, PhaseSets
    <3>2. Effect(c, "flushing", conn[c].epoch, conn[c].exits) BY <2>3, <3>1, GoesEffect
    <3> QED BY <1>0, <2>1, <2>3, <3>1, <3>2, HandlerMove
  <2> QED BY <1>7, <2>2, <2>3 DEF BackToSelect
<1>8. CASE FlushOk(c)
  <2>1. Effect(c, "select", conn[c].epoch, conn[c].exits)
    BY <1>8, IdlesEffect, PhaseNames DEF FlushOk
  <2>2. /\ conn[c].phase = "flushing" /\ entity' = entity
        /\ conn[c].exits = 0 /\ conn[c].epoch = epoch
        /\ UNCHANGED <<site, sess, epoch, expired, gateway, tookOver, exited>>
    BY <1>8 DEF FlushOk
  <2>3. "select" \in Phases /\ "flushing" \in Holding /\ "flushing" \notin Bodied
    BY PhaseNames, PhaseSets DEF Bodied
  <2>4. c \notin exited BY <1>0, <1>e, <2>2
  <2>5. TypeOK' BY <2>1, <2>2, TypeFrom, StatementTypes DEF Effect, TypeOK
  <2>6. \A k \in Cores : entity[k] # c BY <2>2, <2>3 DEF LeaseInv, BodiesAreServed
  <2>7. LeaseInv' BY <1>0, <2>1, <2>2, <2>3, <2>4, <2>6, QuietMove
  <2> QED BY <2>5, <2>7
<1>9. CASE FlushFails(c)
  <2>1. "leaving" \in Phases /\ "leaving" \notin Holding /\ "leaving" \in Exiting
        /\ "flushing" \notin Bodied
    BY PhaseNames, PhaseSets DEF Bodied
  <2>2. PICK n \in 1 .. 2 : Effect(c, "leaving", conn[c].epoch, n)
    BY <1>9, <2>1, CommitExitEffect DEF FlushFails
  <2>3. n \in Nat BY <2>2
  <2>4. conn[c].phase = "flushing" /\ entity' = entity
        /\ UNCHANGED <<site, sess, epoch, expired, gateway, tookOver, exited>>
    BY <1>9 DEF FlushFails
  <2> QED BY <2>1, <2>2, <2>3, <2>4, HandlerMove
<1>10. CASE StartHandoff(c)
  <2>1. /\ "handoff" \in Phases /\ "ingame" \in Holding /\ "handoff" \in Exiting
        /\ "handoff" \in Bodied
    BY PhaseNames, PhaseSets DEF Bodied
  <2>2. PICK n \in 1 .. 2 : Effect(c, "handoff", conn[c].epoch, n)
    BY <1>10, <2>1, CommitExitEffect DEF StartHandoff
  <2>3. n \in Nat BY <2>2
  <2>4. conn[c].phase = "ingame" /\ entity' = entity
        /\ UNCHANGED <<site, sess, epoch, expired, gateway, tookOver, exited>>
    BY <1>10 DEF StartHandoff
  <2> QED BY <2>1, <2>2, <2>3, <2>4, HandlerMove
<1>11. CASE HandoffSent(c)
  <2>1. Effect(c, "gone", conn[c].epoch, conn[c].exits)
    BY <1>11, GoesEffect, PhaseNames DEF HandoffSent
  <2>2. /\ conn[c].phase = "prepared"
        /\ entity' = Left(c) \/ (entity' = entity /\ ~MayLeave(c))
        /\ UNCHANGED <<site, sess, epoch, expired, gateway, tookOver, exited>>
    BY <1>11 DEF HandoffSent
  <2>3. "gone" \in Phases /\ "gone" \notin Holding /\ "gone" \in Exiting
    BY PhaseNames, PhaseSets
  <2> QED BY <1>0, <2>1, <2>2, <2>3, HandlerMove
<1>12. CASE HandoffUnsent(c)
  BY <1>12, LeaveKeeps DEF HandoffUnsent, Bodied
<1>13. CASE ExitCommits(c)
  <2>1. /\ conn[c].exits > 0 /\ conn[c].epoch = epoch /\ sess.owner = c
        /\ epoch < MaxEpoch /\ epoch' = epoch + 1
        /\ sess' = Released(c) /\ exited' = exited \cup {c}
        /\ UNCHANGED <<site, entity, expired, gateway, tookOver>>
    BY <1>13 DEF ExitCommits, NextEpoch
  <2>2. PICK p \in Phases :
           /\ Effect(c, p, conn[c].epoch, conn[c].exits - 1)
           /\ \/ p = conn[c].phase
              \/ conn[c].phase = "handoff" /\ p \in {"prepared", "ingame"}
              \/ conn[c].phase = "leaving" /\ p = "gone"
    BY <1>13, AnsweredEffect DEF ExitCommits
  <2>3. p \in Exiting /\ (conn[c].phase \in Bodied => p \in Bodied)
    BY <1>e, <2>1, <2>2, PhaseSets DEF Bodied
  <2>5. TypeOK'
    <3>1. epoch' \in 0 .. MaxEpoch BY <1>0, <2>1
    <3>2. exited' \subseteq Conns BY <2>1 DEF TypeOK
    <3> QED BY <2>1, <2>2, <3>1, <3>2, TypeFrom, StatementTypes, EntityType DEF Effect, TypeOK
  <2>6. LeaseHeld'
    <3> SUFFICES ASSUME NEW d \in Conns, conn'[d].phase \in Holding,
                        d \notin tookOver' \cup exited'
                 PROVE  FALSE
      BY DEF LeaseHeld
    <3>1. d # c /\ d \notin tookOver \cup exited BY <2>1
    <3>2. conn'[d] = conn[d] BY <2>2, <3>1 DEF Effect
    <3>3. sess.owner = d BY <3>1, <3>2 DEF LeaseInv, LeaseHeld
    <3> QED BY <2>1, <3>1, <3>3
  <2>7. BodiesAreServed'
    <3> SUFFICES ASSUME NEW d \in Conns, NEW k \in Cores, entity[k] = d
                 PROVE  CoreOf[d] = k /\ conn'[d].phase \in Bodied
      BY <2>1 DEF BodiesAreServed, CoreOf
    <3>1. CoreOf[d] = k /\ conn[d].phase \in Bodied BY DEF LeaseInv, BodiesAreServed
    <3> QED BY <2>2, <2>3, <3>1 DEF Effect
  <2>8. ExitsAreFinal'
    <3> SUFFICES ASSUME NEW d \in Conns
                 PROVE  /\ conn'[d].exits > 0 => conn'[d].phase \in Exiting
                        /\ conn'[d].epoch <= epoch'
                        /\ d \in exited' => conn'[d].epoch < epoch' /\ conn'[d].phase \in Exiting
      BY DEF ExitsAreFinal
    <3>1. CASE d # c
      <4>1. conn'[d] = conn[d] /\ conn[d].epoch \in Nat
        BY <1>0, <2>2, <3>1 DEF Effect, TypeOK, ConnStates
      <4> QED BY <1>0, <2>1, <3>1, <4>1 DEF LeaseInv, ExitsAreFinal
    <3>2. CASE d = c BY <1>0, <2>1, <2>2, <2>3, <3>2 DEF Effect
    <3> QED BY <3>1, <3>2
  <2> QED BY <2>5, <2>6, <2>7, <2>8 DEF LeaseInv
<1>14. CASE ExitRefused(c)
  <2>1. conn[c].exits > 0 /\ entity' = entity
        /\ UNCHANGED <<site, sess, epoch, expired, gateway, tookOver, exited>>
    BY <1>14 DEF ExitRefused
  <2>2. PICK p \in Phases :
           /\ Effect(c, p, conn[c].epoch, conn[c].exits - 1)
           /\ \/ p = conn[c].phase
              \/ conn[c].phase = "handoff" /\ p \in {"prepared", "ingame"}
              \/ conn[c].phase = "leaving" /\ p = "gone"
    BY <1>14, AnsweredEffect DEF ExitRefused
  <2>3. /\ p \in Exiting /\ (conn[c].phase \in Bodied => p \in Bodied)
        /\ p \in Holding => conn[c].phase \in Holding
    BY <1>e, <2>1, <2>2, PhaseSets DEF Bodied
  <2>4. conn[c].exits - 1 \in Nat BY <1>0, <2>1
  <2> QED BY <2>1, <2>2, <2>3, <2>4, HandlerMove
<1>15. CASE ExitTimesOut(c)
  <2>1. conn[c].phase \in {"handoff", "leaving"} /\ entity' = entity
        /\ UNCHANGED <<site, sess, epoch, expired, gateway, tookOver, exited>>
    BY <1>15 DEF ExitTimesOut
  <2>2. /\ "ingame" \in Phases /\ "ingame" \in Bodied /\ "ingame" \in Exiting
        /\ "handoff" \in Holding /\ "gone" \in Phases /\ "gone" \notin Holding
        /\ "gone" \in Exiting /\ "leaving" \notin Bodied
    BY PhaseNames, PhaseSets DEF Bodied
  <2>3. CASE conn[c].phase = "handoff"
    <3>1. Effect(c, "ingame", conn[c].epoch, conn[c].exits)
      BY <1>15, <2>2, <2>3, GoesEffect DEF ExitTimesOut
    <3> QED BY <1>0, <2>1, <2>2, <2>3, <3>1, HandlerMove
  <2>4. CASE conn[c].phase = "leaving"
    <3>1. Effect(c, "gone", conn[c].epoch, conn[c].exits)
      BY <1>15, <2>2, <2>4, GoesEffect DEF ExitTimesOut
    <3> QED BY <1>0, <2>1, <2>2, <2>4, <3>1, HandlerMove
  <2> QED BY <2>1, <2>3, <2>4
<1>16. CASE Receive(c)
  <2>1. Effect(c, conn[c].phase, conn[c].epoch, conn[c].exits) BY <1>16, RecordEffects
  <2>2. entity' = entity
        /\ UNCHANGED <<site, sess, epoch, expired, gateway, tookOver, exited>>
    BY <1>16 DEF Receive
  <2> QED BY <1>0, <1>e, <2>1, <2>2, HandlerMove
<1>17. CASE Tick(c)
  <2>1. Effect(c, conn[c].phase, conn[c].epoch, conn[c].exits) BY <1>17, RecordEffects
  <2>2. UNCHANGED <<site, epoch, entity, expired, gateway, tookOver, exited>>
    BY <1>17 DEF Tick
  <2>3. sess' = sess \/ Heartbeat BY <1>17 DEF Tick
  <2>4. sess' \in SessStates BY <2>3, StatementTypes, HeartbeatType
  <2>5. sess'.state = sess.state /\ sess'.owner = sess.owner
    BY <2>3, StatementTypes DEF Heartbeat, SessStates
  <2>6. TypeOK' BY <2>1, <2>2, <2>4, TypeFrom DEF Effect, TypeOK
  <2>7. conn[c].epoch <= epoch BY DEF LeaseInv, ExitsAreFinal
  <2>8. \A k \in Cores : entity[k] = c => conn[c].phase \in Bodied
    BY DEF LeaseInv, BodiesAreServed
  <2>9. LeaseInv' BY <1>0, <1>e, <2>1, <2>2, <2>5, <2>7, <2>8, QuietMove
  <2> QED BY <2>6, <2>9
<1>18. CASE TickTimesOut(c)
  <2>1. UNCHANGED <<site, sess, epoch, expired, gateway, tookOver, exited>>
    BY <1>18 DEF TickTimesOut
  <2>2. /\ "gone" \in Phases /\ "gone" \notin Holding /\ "gone" \in Exiting
        /\ "ending" \in Phases /\ "ending" \notin Holding /\ "ending" \in Exiting
        /\ "login" \notin Bodied /\ "select" \notin Bodied /\ "loading" \notin Bodied
        /\ "ingame" \in Bodied
    BY PhaseNames, PhaseSets DEF Bodied
  <2>3. CASE conn[c].phase = "login" /\ Goes(c, "gone") /\ UNCHANGED entity
    BY <1>0, <2>1, <2>2, <2>3, GoesEffect, HandlerMove
  <2>4. CASE conn[c].phase \in {"select", "loading"} /\ Goes(c, "ending") /\ UNCHANGED entity
    BY <1>0, <2>1, <2>2, <2>4, GoesEffect, HandlerMove
  <2>5. CASE conn[c].phase = "ingame" /\ (LeaveGame(c) \/ LeaveFails(c))
    BY <2>1, <2>2, <2>5, LeaveKeeps
  <2> QED BY <1>18, <2>3, <2>4, <2>5 DEF TickTimesOut
<1> QED
  BY <1>1, <1>2, <1>3, <1>4, <1>5, <1>6, <1>7, <1>8, <1>9, <1>10, <1>11, <1>12,
     <1>13, <1>14, <1>15, <1>16, <1>17, <1>18 DEF PhaseStep

\* Time, crashes, gateways and expiring tokens keep the invariant.
LEMMA OthersKeep ==
    ASSUME TypeOK, LeaseInv,
           \/ TimePasses
           \/ \E k \in Cores : CoreCrashes(k)
           \/ GatewayStep
           \/ \E t \in Tokens : TokenExpires(t)
           \/ IdleTtlElapses
    PROVE  TypeOK' /\ LeaseInv'
<1>0. /\ StaleAfter \in Nat /\ sess \in SessStates /\ epoch \in 0 .. MaxEpoch
      /\ entity \in [Cores -> Conns \cup {None}] /\ conn \in [Conns -> ConnStates]
  BY SiteType DEF TypeOK, SessStates
<1>f. ASSUME sess'.state = sess.state, sess'.owner = sess.owner,
             UNCHANGED <<site, epoch, entity, tookOver, exited>>,
             \A c \in Conns : /\ conn'[c].phase = conn[c].phase
                              /\ conn'[c].epoch = conn[c].epoch
                              /\ conn'[c].exits = conn[c].exits
      PROVE  LeaseInv'
  <2>1. LeaseHeld' BY <1>f DEF LeaseInv, LeaseHeld
  <2>2. BodiesAreServed' BY <1>f DEF LeaseInv, BodiesAreServed, CoreOf
  <2>3. ExitsAreFinal' BY <1>f DEF LeaseInv, ExitsAreFinal
  <2> QED BY <2>1, <2>2, <2>3 DEF LeaseInv
<1>1. CASE TimePasses
  <2>1. UNCHANGED <<site, epoch, entity, expired, gateway, tookOver, exited>>
    BY <1>1 DEF TimePasses
  <2>2. TypeOK' BY <1>0, <1>1, <2>1, TimePassesEffect, TypeFrom DEF TypeOK
  <2>3. LeaseInv' BY <1>1, <1>f, <2>1, TimePassesEffect
  <2> QED BY <2>2, <2>3
<1>2. ASSUME NEW k \in Cores, CoreCrashes(k) PROVE TypeOK' /\ LeaseInv'
  <2>1. /\ UNCHANGED <<site, sess, epoch, expired, gateway, tookOver, exited>>
        /\ entity' = [entity EXCEPT ![k] = None]
    BY <1>2 DEF CoreCrashes
  <2>2. TypeOK'
    <3>1. entity' \in [Cores -> Conns \cup {None}] BY <1>0, <2>1
    <3> QED BY <1>0, <1>2, <2>1, <3>1, CoreCrashesEffect, TypeFrom DEF TypeOK
  <2>3. "gone" \notin Holding /\ "gone" \in Exiting /\ "new" \notin Bodied
    BY PhaseSets DEF Bodied
  <2>4. LeaseHeld'
    <3> SUFFICES ASSUME NEW d \in Conns, conn'[d].phase \in Holding,
                        d \notin tookOver \cup exited
                 PROVE  sess.state = "ACTIVE" /\ sess.owner = d
      BY <2>1 DEF LeaseHeld
    <3>1. conn'[d] = conn[d] BY <1>2, <2>3, CoreCrashesEffect
    <3> QED BY <3>1 DEF LeaseInv, LeaseHeld
  <2>5. BodiesAreServed'
    <3> SUFFICES ASSUME NEW d \in Conns, NEW j \in Cores, entity'[j] = d
                 PROVE  CoreOf[d] = j /\ conn'[d].phase \in Bodied
      BY <2>1 DEF BodiesAreServed, CoreOf
    <3>1. j # k /\ entity[j] = d BY <1>0, <2>1, SessionAssumption
    <3>2. CoreOf[d] = j /\ conn[d].phase \in Bodied
      BY <3>1 DEF LeaseInv, BodiesAreServed
    <3>3. conn'[d] = conn[d] BY <1>2, <3>1, <3>2, CoreCrashesEffect
    <3> QED BY <3>2, <3>3
  <2>6. ExitsAreFinal'
    <3> SUFFICES ASSUME NEW d \in Conns
                 PROVE  /\ conn'[d].exits > 0 => conn'[d].phase \in Exiting
                        /\ conn'[d].epoch <= epoch
                        /\ d \in exited => conn'[d].epoch < epoch /\ conn'[d].phase \in Exiting
      BY <2>1 DEF ExitsAreFinal
    <3>1. /\ conn[d].exits > 0 => conn[d].phase \in Exiting
          /\ conn[d].epoch <= epoch
          /\ d \in exited => conn[d].epoch < epoch /\ conn[d].phase \in Exiting
      BY DEF LeaseInv, ExitsAreFinal
    <3>2. CASE conn'[d] = conn[d] BY <3>1, <3>2
    <3>3. CASE /\ conn'[d].phase = "gone" /\ conn'[d].epoch = conn[d].epoch
               /\ conn'[d].exits = 0
      BY <2>3, <3>1, <3>3
    <3> QED BY <1>2, <3>2, <3>3, CoreCrashesEffect
  <2> QED BY <2>2, <2>4, <2>5, <2>6 DEF LeaseInv
<1>3. ASSUME NEW t \in Tokens, NEW i \in Ips, GatewayBootstrap(t, i)
      PROVE  TypeOK' /\ LeaseInv'
  <2>1. /\ SetLoginToken(t)
        /\ UNCHANGED <<site, epoch, conn, entity, expired, gateway, tookOver, exited>>
    BY <1>3 DEF GatewayBootstrap
  <2>2. sess' \in SessStates
    <3>1. CASE Conns = {}
      <4>1. sess.hb \in 0 .. StaleAfter + 1 /\ sess.owner \in Conns \cup {None}
        BY <1>0 DEF SessStates
      <4>2. 0 \in 0 .. StaleAfter + 1 /\ TRUE \in BOOLEAN BY <1>0
      <4> QED BY <2>1, <4>1, <4>2 DEF SetLoginToken, SessStates
    <3>2. CASE Conns # {} BY <2>1, <3>2, StatementTypes
    <3> QED BY <3>1, <3>2
  <2>3. TypeOK' BY <1>0, <2>1, <2>2, TypeFrom DEF TypeOK
  <2>4. LeaseHeld'
    <3> SUFFICES ASSUME NEW d \in Conns, conn[d].phase \in Holding,
                        d \notin tookOver \cup exited
                 PROVE  sess'.state = "ACTIVE" /\ sess'.owner = d
      BY <2>1 DEF LeaseHeld
    <3>1. sess.state = "ACTIVE" /\ sess.owner = d BY DEF LeaseInv, LeaseHeld
    <3> QED BY <2>1, <3>1, SessionAssumption DEF SetLoginToken
  <2>5. BodiesAreServed' BY <2>1 DEF LeaseInv, BodiesAreServed, CoreOf
  <2>6. ExitsAreFinal' BY <2>1 DEF LeaseInv, ExitsAreFinal
  <2> QED BY <2>3, <2>4, <2>5, <2>6 DEF LeaseInv
<1>4. ASSUME NEW t \in Tokens, NEW i \in Ips, GatewayLogin(t, i)
      PROVE  TypeOK' /\ LeaseInv'
  <2>1. /\ sess' = [sess EXCEPT !.fresh = TRUE, !.ip = i] /\ gateway' = TRUE
        /\ UNCHANGED <<site, epoch, conn, entity, expired, tookOver, exited>>
    BY <1>4 DEF GatewayLogin
  <2>2. sess' \in SessStates
    <3>1. TRUE \in BOOLEAN OBVIOUS
    <3> QED BY <1>0, <2>1, <3>1 DEF SessStates
  <2>3. sess'.state = sess.state /\ sess'.owner = sess.owner
    BY <1>0, <2>1 DEF SessStates
  <2>4. TypeOK' BY <1>0, <2>1, <2>2, TypeFrom DEF TypeOK
  <2> QED BY <1>f, <2>1, <2>3, <2>4
<1>5. CASE GatewayTick
  <2>1. Heartbeat /\ UNCHANGED <<site, epoch, conn, entity, expired, gateway, tookOver, exited>>
    BY <1>5 DEF GatewayTick
  <2>2. sess'.state = sess.state /\ sess'.owner = sess.owner
    BY <1>0, <2>1 DEF Heartbeat, SessStates
  <2>3. TypeOK' BY <1>0, <2>1, HeartbeatType, TypeFrom DEF TypeOK
  <2> QED BY <1>f, <2>1, <2>2, <2>3
<1>6. CASE GatewayLeaves
  <2>1. gateway' = FALSE /\ UNCHANGED <<site, sess, epoch, conn, entity, expired, tookOver, exited>>
    BY <1>6 DEF GatewayLeaves
  <2>2. TypeOK' BY <1>0, <2>1, TypeFrom DEF TypeOK
  <2> QED BY <1>f, <2>1, <2>2
<1>7. ASSUME NEW t \in Tokens, TokenExpires(t) PROVE TypeOK' /\ LeaseInv'
  <2>1. expired' = expired \cup {t}
        /\ UNCHANGED <<site, sess, epoch, conn, entity, gateway, tookOver, exited>>
    BY <1>7 DEF TokenExpires
  <2>2. TypeOK' BY <1>0, <2>1, TypeFrom DEF TypeOK
  <2> QED BY <1>f, <2>1, <2>2
<1>8. CASE IdleTtlElapses
  <2>1. sess' = [sess EXCEPT !.fresh = FALSE]
        /\ UNCHANGED <<site, epoch, conn, entity, expired, gateway, tookOver, exited>>
    BY <1>8 DEF IdleTtlElapses
  <2>2. sess' \in SessStates /\ sess'.state = sess.state /\ sess'.owner = sess.owner
    <3>1. FALSE \in BOOLEAN OBVIOUS
    <3> QED BY <1>0, <2>1, <3>1 DEF SessStates
  <2>3. TypeOK' BY <1>0, <2>1, <2>2, TypeFrom DEF TypeOK
  <2> QED BY <1>f, <2>1, <2>2, <2>3
<1> QED BY <1>1, <1>2, <1>3, <1>4, <1>5, <1>6, <1>7, <1>8 DEF GatewayStep

\* The invariant holds at the start and is kept by every step.
THEOREM LeaseInvariant == LeaseSpec => [](TypeOK /\ LeaseInv)
<1>1. LeaseInit => TypeOK /\ LeaseInv
  <2> SUFFICES ASSUME LeaseInit PROVE TypeOK /\ LeaseInv
    OBVIOUS
  <2>1. site \in Sites /\ StaleAfter \in Nat /\ MaxEpoch \in Nat
    BY SiteType DEF LeaseInit
  <2>2. NewConn \in ConnStates
    <3>1. /\ "new" \in Phases /\ 0 \in 0 .. HeartbeatTimeout /\ 0 \in 0 .. MaxEpoch
          /\ FALSE \in BOOLEAN /\ 0 \in 0 .. 2
      BY <2>1, PhaseNames DEF HeartbeatTimeout
    <3> QED BY <3>1 DEF NewConn, ConnStates
  <2>3. sess \in SessStates
    <3>1. 0 \in 0 .. StaleAfter + 1 /\ FALSE \in BOOLEAN BY <2>1
    <3> QED BY <3>1 DEF LeaseInit, SessStates
  <2>4. TypeOK
    <3>1. conn \in [Conns -> ConnStates] BY <2>2 DEF LeaseInit
    <3>2. entity \in [Cores -> Conns \cup {None}] BY DEF LeaseInit
    <3>3. epoch = 0 /\ gateway = FALSE BY DEF LeaseInit
    <3>5. epoch \in 0 .. MaxEpoch BY <2>1, <3>3
    <3>6. gateway \in BOOLEAN BY <3>3
    <3>4. expired \subseteq Tokens /\ tookOver \subseteq Conns /\ exited \subseteq Conns
      BY DEF LeaseInit
    <3> QED BY <2>1, <2>3, <3>1, <3>2, <3>4, <3>5, <3>6 DEF TypeOK, SessStates
  <2>5. \A c \in Conns : conn[c].phase = "new" /\ conn[c].exits = 0 /\ conn[c].epoch = 0
    BY DEF LeaseInit, NewConn
  <2>6. LeaseInv
    BY <2>5, PhaseSets, SessionAssumption
    DEF LeaseInit, LeaseInv, LeaseHeld, BodiesAreServed, ExitsAreFinal
  <2> QED BY <2>4, <2>6
<1>2. TypeOK /\ LeaseInv /\ [LeaseNext]_leaseVars => (TypeOK /\ LeaseInv)'
  <2> SUFFICES ASSUME TypeOK, LeaseInv, [LeaseNext]_leaseVars PROVE (TypeOK /\ LeaseInv)'
    OBVIOUS
  <2>1. CASE UNCHANGED leaseVars
    <3>1. TypeOK' BY <2>1, TypeFrom DEF leaseVars, TypeOK, SessStates
    <3>2. LeaseInv'
      BY <2>1 DEF leaseVars, LeaseInv, LeaseHeld, BodiesAreServed, ExitsAreFinal, CoreOf
    <3> QED BY <3>1, <3>2
  <2>2. CASE LeaseNext BY <2>2, LoginKeeps, PhaseKeeps, OthersKeep DEF LeaseNext
  <2> QED BY <2>1, <2>2
<1> QED BY <1>1, <1>2, PTL DEF LeaseSpec

\* Type correctness of the lease model.
THEOREM SessionTypes == LeaseSpec => []TypeOK
<1> QED BY LeaseInvariant, PTL

\* A served connection holds the lease unless the lease was taken as stale or
\* its own exit committed: of concurrent logins at most one is served.
THEOREM ServedOwnsHolds == LeaseSpec => []ServedOwns
<1>1. LeaseInv => ServedOwns
  BY DEF LeaseInv, LeaseHeld, ServedOwns, Holding
<1> QED BY <1>1, LeaseInvariant, PTL

\* Two runtimes of a player never both write its row, but for a lease taken
\* over as stale: commit_player_exit moves epoch and lease together.
THEOREM SingleRuntimeHolds == LeaseSpec => []SingleRuntime
<1>1. TypeOK /\ LeaseInv => SingleRuntime
  <2> SUFFICES ASSUME TypeOK, LeaseInv, NEW c \in Conns, NEW d \in Conns, c # d,
                      CanWrite(c), CanWrite(d), {c, d} \cap tookOver = {}
               PROVE  FALSE
    BY DEF SingleRuntime
  <2>1. ASSUME NEW e \in Conns, CanWrite(e), e \notin tookOver PROVE sess.owner = e
    <3>1. CoreOf[e] \in Cores BY EntityType
    <3>2. conn[e].phase \in Bodied
      BY <2>1, <3>1 DEF CanWrite, LeaseInv, BodiesAreServed
    <3>3. conn[e].epoch = epoch /\ epoch \in Nat
      BY <2>1, SiteType DEF CanWrite, TypeOK
    <3>4. e \notin exited BY <3>3 DEF LeaseInv, ExitsAreFinal
    <3>5. conn[e].phase \in Holding BY <3>2, PhaseSets DEF Bodied
    <3> QED BY <2>1, <3>4, <3>5 DEF LeaseInv, LeaseHeld
  <2>2. sess.owner = c /\ sess.owner = d BY <2>1
  <2> QED BY <2>2
<1> QED BY <1>1, LeaseInvariant, PTL

\* An entity leaves the map by a step of its own connection or for a newer
\* entity: a late leave never despawns the successor.
THEOREM OnlyOwnLeaves == LeaseSpec => OnlyOwnLeaveDespawns
<1>1. TypeOK /\ LeaseInv /\ [LeaseNext]_leaseVars
        => [\A c \in Conns, k \in Cores :
              entity[k] = c /\ entity'[k] # c
                => conn'[c] # conn[c] \/ entity'[k] # None]_leaseVars
  <2> SUFFICES ASSUME TypeOK, LeaseInv, LeaseNext, NEW c \in Conns, NEW k \in Cores,
                      entity[k] = c, entity'[k] # c, entity'[k] = None
               PROVE  conn'[c] # conn[c]
    OBVIOUS
  <2>1. CoreOf[c] = k /\ conn[c].phase \in Bodied BY DEF LeaseInv, BodiesAreServed
  <2>2. entity \in [Cores -> Conns \cup {None}] BY DEF TypeOK
  <2>3. ASSUME NEW d \in Conns, MayLeave(d), entity' = Left(d) PROVE d = c
    BY <2>2, <2>3, EntityType DEF MayLeave, Left
  <2>4. ASSUME NEW d \in Conns, LeaveGame(d) PROVE conn'[c] # conn[c]
    <3>1. d = c BY <2>3, <2>4 DEF LeaveGame
    <3>2. "leaving" \in Phases /\ "leaving" \notin Bodied BY PhaseNames DEF Bodied
    <3>3. conn'[c].phase = "leaving"
      BY <2>4, <3>1, <3>2, CommitExitEffect DEF LeaveGame, Effect
    <3> QED BY <2>1, <3>2, <3>3
  <2>5. ASSUME NEW d \in Conns, NEW p \in Phases, p \notin Bodied, Goes(d, p),
               MayLeave(d), entity' = Left(d)
        PROVE  conn'[c] # conn[c]
    <3>1. d = c BY <2>3, <2>5
    <3>2. conn'[c].phase = p BY <2>5, <3>1, GoesEffect DEF Effect
    <3> QED BY <2>1, <2>5, <3>2
  <2>6. "flushing" \in Phases \ Bodied /\ "gone" \in Phases \ Bodied
    BY PhaseNames DEF Bodied
  <2>7. ASSUME NEW d \in Conns, PhaseStep(d) PROVE conn'[c] # conn[c]
    <3>1. CASE EnterMap(d)
      <4>1. entity'[k] \in {entity[k], d} BY <2>2, <3>1, EntityType DEF EnterMap
      <4> QED BY <4>1, SessionAssumption
    <3>2. CASE BackToSelect(d) BY <2>5, <2>6, <3>2 DEF BackToSelect, LeaveFails
    <3>3. CASE HandoffSent(d) BY <2>5, <2>6, <3>3 DEF HandoffSent
    <3>4. CASE LeaveGame(d) BY <2>4, <3>4
    <3>5. CASE UNCHANGED entity BY <3>5, SessionAssumption
    <3> QED
      BY <2>7, <3>1, <3>2, <3>3, <3>4, <3>5
      DEF PhaseStep, LoadPlayer, EndsUnentered, ReleaseSession, ReleaseFails, Disconnect,
          LeaveFails, FlushOk, FlushFails, StartHandoff, HandoffUnsent, ExitCommits,
          ExitRefused, ExitTimesOut, Receive, Tick, TickTimesOut
  <2>8. ASSUME NEW j \in Cores, CoreCrashes(j) PROVE conn'[c] # conn[c]
    <3>1. entity' = [entity EXCEPT ![j] = None] BY <2>8 DEF CoreCrashes
    <3>2. j = k BY <2>2, <3>1, SessionAssumption
    <3>3. conn[c].phase # "new" BY <2>1 DEF Bodied
    <3>4. conn'[c].phase = "gone" BY <2>1, <2>8, <3>2, <3>3, CoreCrashesEffect
    <3> QED BY <2>1, <2>6, <3>4
  <2>9. CASE UNCHANGED entity BY <2>9, SessionAssumption
  <2> QED
    BY <2>7, <2>8, <2>9
    DEF LeaseNext, LoginStep, Connect, LoginResume, LoginNoMatch, LoginBootstrap, LoginAccepted,
        LoginAbandoned, TimePasses, GatewayStep, GatewayBootstrap, GatewayLogin,
        GatewayTick, GatewayLeaves, TokenExpires, IdleTtlElapses
<1> QED BY <1>1, LeaseInvariant, PTL DEF LeaseSpec, OnlyOwnLeaveDespawns
-----------------------------------------------------------------------------
(* The account is SingleOwner's.  Beyond what is proved above the mapping  *)
(* needs that the row is ACTIVE exactly while somebody owns it, and that a *)
(* connection claims once: none that holds the lease, or has lost it, is   *)
(* still on its way to the claim.                                          *)

Unclaimed == {"new", "login", "bootstrap", "retry"}

OwnerInv ==
    /\ sess.state = "ACTIVE" <=> sess.owner # None
    /\ \A c \in Conns :
          sess.owner = c \/ c \in tookOver \cup exited => conn[c].phase \notin Unclaimed

\* No handler goes back before its claim, and none claims.
Onward ==
    /\ Using' \subseteq Using
    /\ \A c \in Conns : conn'[c].phase \in Unclaimed => conn[c].phase \in Unclaimed

\* The phases from the claim on are not before it.
LEMMA ClaimSets ==
    /\ Unclaimed \cap Holding = {} /\ Unclaimed \cap Exiting = {}
    /\ Holding = Served \cup {"claimed"}
BY PhaseSets DEF Unclaimed, Holding

\* One handler moves.
LEMMA MoveUses ==
    ASSUME NEW c \in Conns, NEW p, NEW e, NEW n, Effect(c, p, e, n)
    PROVE  /\ Using' = IF p \in Holding THEN Using \cup {c} ELSE Using \ {c}
           /\ c \in Using <=> conn[c].phase \in Holding
           /\ \A d \in Conns \ {c} : conn'[d].phase = conn[d].phase
           /\ conn'[c].phase = p
BY ClaimSets DEF Effect, Using

\* A handler that does not claim moves onward.
LEMMA MovesOnward ==
    ASSUME NEW c \in Conns, NEW p, NEW e, NEW n, Effect(c, p, e, n),
           p \in Holding => conn[c].phase \in Holding,
           p \in Unclaimed => conn[c].phase \in Unclaimed
    PROVE  Onward
<1>1. Using' \subseteq Using BY MoveUses DEF Using
<1>2. \A d \in Conns : conn'[d].phase \in Unclaimed => conn[d].phase \in Unclaimed
  BY MoveUses
<1> QED BY <1>1, <1>2 DEF Onward

\* A step that leaves the rows alone and claims nothing only ends connections.
LEMMA OnlyStops ==
    ASSUME OwnerInv, Onward, UNCHANGED <<site, sess, epoch, tookOver, exited>>
    PROVE  OwnerInv' /\ [Owner!Next]_(Owner!account)
<1>1. OwnerInv' BY DEF OwnerInv, Onward
<1>2. LeaseStale' = LeaseStale BY DEF LeaseStale, Stale, StaleAfter
<1>3. Owner!Stop BY <1>2 DEF Owner!Stop, Onward
<1> QED BY <1>1, <1>3 DEF Owner!Next

\* A step that moves nothing of the row but its age, and no handler past or
\* out of its claim, ages the lease, refreshes it or shows nothing.
LEMMA OnlyAges ==
    ASSUME OwnerInv, Onward, Using' = Using, sess'.owner = sess.owner,
           sess'.state = "ACTIVE" <=> sess.state = "ACTIVE",
           UNCHANGED <<epoch, tookOver, exited>>
    PROVE  OwnerInv' /\ [Owner!Next]_(Owner!account)
<1>1. OwnerInv' BY DEF OwnerInv, Onward
<1>2. CASE LeaseStale'
  <2>1. sess.owner # None BY <1>2 DEF LeaseStale
  <2>2. Owner!GoesStale BY <1>2, <2>1 DEF Owner!GoesStale
  <2> QED BY <1>1, <2>2 DEF Owner!Next
<1>3. CASE ~LeaseStale'
  <2>1. Owner!Refresh BY <1>3 DEF Owner!Refresh
  <2> QED BY <1>1, <2>1 DEF Owner!Next
<1> QED BY <1>2, <1>3

\* The claim is Claim: the account was nobody's, or it was stale and its
\* holder is recorded.
LEMMA ResumeClaims ==
    ASSUME TypeOK, OwnerInv, NEW c \in Conns, LoginResume(c)
    PROVE  OwnerInv' /\ [Owner!Next]_(Owner!account)
<1>1. Effect(c, "claimed", conn[c].epoch, conn[c].exits)
  BY GoesEffect, PhaseNames DEF LoginResume
<1>2. /\ ResumeMatches(c) /\ Resume(c) /\ conn[c].phase \in {"login", "retry"}
      /\ UNCHANGED <<site, epoch, entity, expired, gateway, exited>>
  BY DEF LoginResume
<1>3. sess \in SessStates BY StatementTypes
<1>4. sess'.state = "ACTIVE" /\ sess'.owner = c /\ sess'.hb = 0
  BY <1>2, <1>3 DEF Resume, SessStates
<1>5. StaleAfter' = StaleAfter /\ StaleAfter \in Nat
  BY <1>2, SiteType DEF TypeOK, StaleAfter
<1>6. ~LeaseStale' BY <1>4, <1>5 DEF LeaseStale, Stale
<1>7. "claimed" \in Holding /\ "claimed" \notin Unclaimed /\ conn[c].phase \in Unclaimed
      /\ conn[c].phase \notin Holding
  BY <1>2, PhaseSets DEF Unclaimed
<1>8. c \notin Using /\ sess.owner # c /\ c \notin tookOver \cup exited /\ c # None
  BY <1>1, <1>7, MoveUses, SessionAssumption DEF OwnerInv
<1>9. sess.owner = None \/ LeaseStale
  BY <1>2, <1>8 DEF ResumeMatches, OwnerInv, LeaseStale
<1>10. tookOver' = tookOver \cup ({sess.owner} \ {None})
  <2>1. CASE sess.owner = None BY <1>2, <2>1 DEF Resume, OwnerInv
  <2>2. CASE LeaseStale BY <1>2, <1>8, <2>2 DEF Resume, OwnerInv, LeaseStale
  <2> QED BY <1>9, <2>1, <2>2
<1>11. OwnerInv'
  <2>1. ASSUME NEW d \in Conns, sess'.owner = d \/ d \in tookOver' \cup exited'
        PROVE  conn'[d].phase \notin Unclaimed
    <3>1. CASE d = c BY <1>1, <1>7, <3>1, MoveUses
    <3>2. CASE d # c
      <4>1. sess.owner = d \/ d \in tookOver \cup exited BY <1>2, <1>4, <1>10, <2>1, <3>2
      <4>2. conn'[d].phase = conn[d].phase BY <1>1, <3>2, MoveUses
      <4> QED BY <4>1, <4>2 DEF OwnerInv
    <3> QED BY <3>1, <3>2
  <2> QED BY <1>4, <1>8, <2>1 DEF OwnerInv
<1>12. Using' = Using \cup {c} BY <1>1, <1>7, MoveUses
<1>13. Owner!Claim(c)
  <2>1. c \notin Using \cup (tookOver \cup exited) \cup {sess.owner} BY <1>8
  <2>2. (tookOver \cup exited)' = (tookOver \cup exited) \cup ({sess.owner} \ {None})
    BY <1>2, <1>10
  <2> QED BY <1>2, <1>4, <1>6, <1>9, <1>12, <2>1, <2>2 DEF Owner!Claim
<1> QED BY <1>11, <1>13 DEF Owner!Next

\* Writing a token moves neither the owner nor the handlers past a claim.
LEMMA TokenShowsNothing ==
    ASSUME OwnerInv, NEW t, SetLoginToken(t)
    PROVE  sess'.owner = sess.owner /\ (sess'.state = "ACTIVE" <=> sess.state = "ACTIVE")
<1>1. CASE sess.owner = None BY <1>1 DEF SetLoginToken, OwnerInv
<1>2. CASE sess.owner # None BY <1>2 DEF SetLoginToken, OwnerInv
<1> QED BY <1>1, <1>2

\* The login: only a claim moves the account.
LEMMA LoginOwner ==
    ASSUME TypeOK, OwnerInv, NEW c \in Conns, LoginStep(c)
    PROVE  OwnerInv' /\ [Owner!Next]_(Owner!account)
<1>1. ASSUME NEW t \in Tokens, NEW i \in Ips, Connect(c, t, i)
      PROVE  OwnerInv' /\ [Owner!Next]_(Owner!account)
  <2>1. Effect(c, "login", conn[c].epoch, conn[c].exits) BY <1>1, RecordEffects
  <2>2. conn[c].phase = "new" /\ UNCHANGED <<site, sess, epoch, tookOver, exited>>
    BY <1>1 DEF Connect
  <2>3. "login" \notin Holding /\ "new" \in Unclaimed BY PhaseSets DEF Unclaimed
  <2>4. Onward BY <2>1, <2>2, <2>3, MovesOnward
  <2> QED BY <2>2, <2>4, OnlyStops
<1>2. CASE LoginResume(c) BY <1>2, ResumeClaims
<1>3. CASE LoginNoMatch(c)
  <2> DEFINE p == IF conn[c].phase = "login" /\ conn[c].token \notin expired
                  THEN "bootstrap" ELSE "gone"
  <2>1. p \in Phases /\ p \notin Holding BY PhaseNames, PhaseSets
  <2>2. Goes(c, p) BY <1>3 DEF LoginNoMatch
  <2> HIDE DEF p
  <2>3. Effect(c, p, conn[c].epoch, conn[c].exits) BY <2>1, <2>2, GoesEffect
  <2>4. conn[c].phase \in Unclaimed /\ UNCHANGED <<site, sess, epoch, tookOver, exited>>
    BY <1>3 DEF LoginNoMatch, Unclaimed
  <2>5. Onward BY <2>1, <2>3, <2>4, MovesOnward
  <2> QED BY <2>4, <2>5, OnlyStops
<1>4. CASE LoginBootstrap(c)
  <2>1. Effect(c, "retry", conn[c].epoch, conn[c].exits)
    BY <1>4, GoesEffect, PhaseNames DEF LoginBootstrap
  <2>2. /\ SetLoginToken(conn[c].token) /\ conn[c].phase \in Unclaimed
        /\ UNCHANGED <<epoch, tookOver, exited>>
    BY <1>4 DEF LoginBootstrap, Unclaimed
  <2>3. "retry" \notin Holding /\ conn[c].phase \notin Holding
    BY <2>2, PhaseSets, ClaimSets
  <2>4. Onward /\ Using' = Using BY <2>1, <2>2, <2>3, MovesOnward, MoveUses
  <2> QED BY <2>2, <2>4, TokenShowsNothing, OnlyAges
<1>5. CASE LoginAccepted(c)
  <2>1. Effect(c, "select", conn[c].epoch, conn[c].exits)
    BY <1>5, IdlesEffect, PhaseNames DEF LoginAccepted
  <2>2. conn[c].phase = "claimed" /\ UNCHANGED <<site, sess, epoch, tookOver, exited>>
    BY <1>5 DEF LoginAccepted
  <2>3. "claimed" \in Holding /\ "select" \notin Unclaimed BY PhaseSets DEF Unclaimed
  <2>4. Onward BY <2>1, <2>2, <2>3, MovesOnward
  <2> QED BY <2>2, <2>4, OnlyStops
<1>6. CASE LoginAbandoned(c)
  <2>1. Effect(c, "gone", conn[c].epoch, conn[c].exits)
    BY <1>6, GoesEffect, PhaseNames DEF LoginAbandoned
  <2>2. UNCHANGED <<site, sess, epoch, tookOver, exited>> BY <1>6 DEF LoginAbandoned
  <2>3. "gone" \notin Holding /\ "gone" \notin Unclaimed BY PhaseSets DEF Unclaimed
  <2>4. Onward BY <2>1, <2>3, MovesOnward
  <2> QED BY <2>2, <2>4, OnlyStops
<1> QED BY <1>1, <1>2, <1>3, <1>4, <1>5, <1>6 DEF LoginStep

\* Leaving the map, with an exit for the worker or without.
LEMMA LeaveOnward ==
    ASSUME TypeOK, NEW c \in Conns, LeaveGame(c) \/ LeaveFails(c)
    PROVE  Onward
<1>1. /\ "leaving" \in Phases /\ "leaving" \notin Holding /\ "leaving" \notin Unclaimed
      /\ "ending" \in Phases /\ "ending" \notin Holding /\ "ending" \notin Unclaimed
  BY PhaseNames, PhaseSets DEF Unclaimed
<1>2. CASE LeaveGame(c)
  <2>1. PICK n \in 1 .. 2 : Effect(c, "leaving", conn[c].epoch, n)
    BY <1>1, <1>2, CommitExitEffect DEF LeaveGame
  <2> QED BY <1>1, <2>1, MovesOnward
<1>3. CASE LeaveFails(c)
  <2>1. Effect(c, "ending", conn[c].epoch, conn[c].exits)
    BY <1>1, <1>3, GoesEffect DEF LeaveFails
  <2> QED BY <1>1, <2>1, MovesOnward
<1> QED BY <1>2, <1>3

\* An answer of the worker moves its handler onward and ends no other claim
\* than one that was given up.
LEMMA AnsweredOnward ==
    ASSUME TypeOK, NEW c \in Conns, NEW ok \in BOOLEAN, conn[c].exits > 0, Answered(c, ok)
    PROVE  Onward /\ Using' = Using
<1>1. PICK p \in Phases :
         /\ Effect(c, p, conn[c].epoch, conn[c].exits - 1)
         /\ \/ p = conn[c].phase
            \/ conn[c].phase = "handoff" /\ p \in {"prepared", "ingame"}
            \/ conn[c].phase = "leaving" /\ p = "gone"
  BY AnsweredEffect
<1>2. p \in Holding <=> conn[c].phase \in Holding BY <1>1, PhaseSets
<1>3. p \in Unclaimed => conn[c].phase \in Unclaimed BY <1>1 DEF Unclaimed
<1>4. Onward BY <1>1, <1>2, <1>3, MovesOnward
<1>5. Using' = Using
  <2>1. Using' = IF p \in Holding THEN Using \cup {c} ELSE Using \ {c}
    BY <1>1, MoveUses
  <2>2. c \in Using <=> conn[c].phase \in Holding BY <1>1, MoveUses
  <2> QED BY <1>2, <2>1, <2>2
<1> QED BY <1>4, <1>5

\* The release is Release when the row is still the connection's, and shows
\* nothing when it is not.
LEMMA ReleaseReleases ==
    ASSUME TypeOK, OwnerInv, NEW c \in Conns, ReleaseSession(c)
    PROVE  OwnerInv' /\ [Owner!Next]_(Owner!account)
<1>1. Effect(c, "gone", conn[c].epoch, conn[c].exits)
  BY GoesEffect, PhaseNames DEF ReleaseSession
<1>2. /\ sess' = Released(c) /\ conn[c].phase = "ending"
      /\ UNCHANGED <<site, epoch, tookOver, exited>>
  BY DEF ReleaseSession
<1>3. /\ "gone" \notin Holding /\ "gone" \notin Unclaimed
      /\ conn[c].phase \notin Holding
  BY <1>2, PhaseSets DEF Unclaimed
<1>4. c \notin Using /\ Using' = Using BY <1>1, <1>3, MoveUses
<1>5. Onward BY <1>1, <1>3, MovesOnward
<1>6. CASE sess.owner # c
  <2>1. sess' = sess BY <1>2, <1>6 DEF Released
  <2> QED BY <1>2, <1>5, <2>1, OnlyStops
<1>7. CASE sess.owner = c
  <2>1. sess \in SessStates BY StatementTypes
  <2>2. sess'.owner = None /\ sess'.state = "AUTHED"
    BY <1>2, <1>7, <2>1 DEF Released, SessStates
  <2>3. ~LeaseStale' BY <2>2 DEF LeaseStale
  <2>4. Owner!Release(c) BY <1>2, <1>4, <1>7, <2>2, <2>3 DEF Owner!Release
  <2>5. OwnerInv'
    BY <1>2, <1>5, <2>2, SessionAssumption DEF OwnerInv, Onward
  <2> QED BY <2>4, <2>5 DEF Owner!Next
<1> QED BY <1>6, <1>7

\* commit_player_exit is CommitExit, whatever its requester hears of it.
LEMMA ExitCommitsExit ==
    ASSUME TypeOK, LeaseInv, OwnerInv, NEW c \in Conns, ExitCommits(c)
    PROVE  OwnerInv' /\ [Owner!Next]_(Owner!account)
<1>1. /\ conn[c].exits > 0 /\ sess.owner = c /\ epoch' = epoch + 1
      /\ sess' = Released(c) /\ exited' = exited \cup {c}
      /\ UNCHANGED <<site, tookOver>>
  BY DEF ExitCommits, NextEpoch
<1>2. Onward /\ Using' = Using BY AnsweredOnward DEF ExitCommits
<1>3. sess \in SessStates BY StatementTypes
<1>4. sess'.owner = None /\ sess'.state = "AUTHED"
  BY <1>1, <1>3 DEF Released, SessStates
<1>5. ~LeaseStale' BY <1>4 DEF LeaseStale
<1>6. (tookOver \cup exited)' = (tookOver \cup exited) \cup {c} BY <1>1
<1>7. Owner!CommitExit(c) BY <1>1, <1>2, <1>4, <1>5, <1>6 DEF Owner!CommitExit
<1>8. OwnerInv'
  <2>1. conn[c].phase \notin Unclaimed BY <1>1 DEF OwnerInv
  <2>2. ASSUME NEW d \in Conns, sess'.owner = d \/ d \in tookOver' \cup exited'
        PROVE  conn'[d].phase \notin Unclaimed
    <3>1. d = c \/ d \in tookOver \cup exited
      BY <1>1, <1>4, <2>2, SessionAssumption
    <3>2. conn[d].phase \notin Unclaimed BY <2>1, <3>1 DEF OwnerInv
    <3> QED BY <1>2, <3>2 DEF Onward
  <2> QED BY <1>4, <2>2 DEF OwnerInv
<1> QED BY <1>7, <1>8 DEF Owner!Next

\* The phases past the login: connections end, give the account back, or
\* leave it with their exit.
LEMMA PhaseOwner ==
    ASSUME TypeOK, LeaseInv, OwnerInv, NEW c \in Conns, PhaseStep(c)
    PROVE  OwnerInv' /\ [Owner!Next]_(Owner!account)
<1>s. \A p \in Phases : p \in Holding \cup Exiting => p \notin Unclaimed
  BY ClaimSets
<1>n. {"select", "loading", "ingame", "handoff", "prepared", "flushing", "leaving",
       "ending", "gone"} \subseteq Phases \cap (Holding \cup Exiting)
  BY PhaseNames, PhaseSets
<1>h. "gone" \notin Holding /\ "ending" \notin Holding /\ "leaving" \notin Holding
  BY PhaseSets
<1>i. {"select", "loading", "ingame", "handoff", "prepared", "flushing"} \subseteq Holding
  BY PhaseSets
<1>g. ASSUME NEW p \in Phases, NEW e, NEW n, Effect(c, p, e, n),
             p \in Holding \cup Exiting, p \in Holding => conn[c].phase \in Holding,
             UNCHANGED <<site, sess, epoch, tookOver, exited>>
      PROVE  OwnerInv' /\ [Owner!Next]_(Owner!account)
  <2>1. Onward BY <1>g, <1>s, MovesOnward
  <2> QED BY <1>g, <2>1, OnlyStops
<1>l. ASSUME LeaveGame(c) \/ LeaveFails(c), UNCHANGED <<site, sess, epoch, tookOver, exited>>
      PROVE  OwnerInv' /\ [Owner!Next]_(Owner!account)
  BY <1>l, LeaveOnward, OnlyStops
<1>1. CASE LoadPlayer(c)
  <2>1. Effect(c, "loading", epoch, conn[c].exits) BY <1>1, RecordEffects
  <2>2. conn[c].phase = "select" /\ UNCHANGED <<site, sess, epoch, tookOver, exited>>
    BY <1>1 DEF LoadPlayer
  <2> QED BY <1>g, <1>i, <1>n, <2>1, <2>2
<1>2. CASE EnterMap(c)
  <2>1. Effect(c, "ingame", conn[c].epoch, conn[c].exits)
    BY <1>2, IdlesEffect, PhaseNames DEF EnterMap
  <2>2. conn[c].phase = "loading" /\ UNCHANGED <<site, sess, epoch, tookOver, exited>>
    BY <1>2 DEF EnterMap
  <2> QED BY <1>g, <1>i, <1>n, <2>1, <2>2
<1>3. CASE EndsUnentered(c)
  <2>1. Effect(c, "ending", conn[c].epoch, conn[c].exits)
    BY <1>3, GoesEffect, PhaseNames DEF EndsUnentered
  <2>2. UNCHANGED <<site, sess, epoch, tookOver, exited>> BY <1>3 DEF EndsUnentered
  <2> QED BY <1>g, <1>h, <1>n, <2>1, <2>2
<1>4. CASE ReleaseSession(c) BY <1>4, ReleaseReleases
<1>5. CASE ReleaseFails(c)
  <2>1. Effect(c, "gone", conn[c].epoch, conn[c].exits)
    BY <1>5, GoesEffect, PhaseNames DEF ReleaseFails
  <2>2. UNCHANGED <<site, sess, epoch, tookOver, exited>> BY <1>5 DEF ReleaseFails
  <2> QED BY <1>g, <1>h, <1>n, <2>1, <2>2
<1>6. CASE Disconnect(c) BY <1>6, <1>l DEF Disconnect
<1>7. CASE BackToSelect(c)
  <2>1. conn[c].phase = "ingame" /\ UNCHANGED <<site, sess, epoch, tookOver, exited>>
    BY <1>7 DEF BackToSelect
  <2>2. CASE LeaveFails(c) BY <1>l, <2>1, <2>2
  <2>3. CASE Goes(c, "flushing")
    <3>1. Effect(c, "flushing", conn[c].epoch, conn[c].exits)
      BY <2>3, GoesEffect, PhaseNames
    <3> QED BY <1>g, <1>i, <1>n, <2>1, <3>1
  <2> QED BY <1>7, <2>2, <2>3 DEF BackToSelect
<1>8. CASE FlushOk(c)
  <2>1. Effect(c, "select", conn[c].epoch, conn[c].exits)
    BY <1>8, IdlesEffect, PhaseNames DEF FlushOk
  <2>2. conn[c].phase = "flushing" /\ UNCHANGED <<site, sess, epoch, tookOver, exited>>
    BY <1>8 DEF FlushOk
  <2> QED BY <1>g, <1>i, <1>n, <2>1, <2>2
<1>9. CASE FlushFails(c)
  <2>1. PICK n \in 1 .. 2 : Effect(c, "leaving", conn[c].epoch, n)
    BY <1>9, CommitExitEffect, PhaseNames DEF FlushFails
  <2>2. UNCHANGED <<site, sess, epoch, tookOver, exited>> BY <1>9 DEF FlushFails
  <2> QED BY <1>g, <1>h, <1>n, <2>1, <2>2
<1>10. CASE StartHandoff(c)
  <2>1. PICK n \in 1 .. 2 : Effect(c, "handoff", conn[c].epoch, n)
    BY <1>10, CommitExitEffect, PhaseNames DEF StartHandoff
  <2>2. conn[c].phase = "ingame" /\ UNCHANGED <<site, sess, epoch, tookOver, exited>>
    BY <1>10 DEF StartHandoff
  <2> QED BY <1>g, <1>i, <1>n, <2>1, <2>2
<1>11. CASE HandoffSent(c)
  <2>1. Effect(c, "gone", conn[c].epoch, conn[c].exits)
    BY <1>11, GoesEffect, PhaseNames DEF HandoffSent
  <2>2. UNCHANGED <<site, sess, epoch, tookOver, exited>> BY <1>11 DEF HandoffSent
  <2> QED BY <1>g, <1>h, <1>n, <2>1, <2>2
<1>12. CASE HandoffUnsent(c) BY <1>12, <1>l DEF HandoffUnsent
<1>13. CASE ExitCommits(c) BY <1>13, ExitCommitsExit
<1>14. CASE ExitRefused(c)
  <2>1. /\ conn[c].exits > 0 /\ Answered(c, FALSE)
        /\ UNCHANGED <<site, sess, epoch, tookOver, exited>>
    BY <1>14 DEF ExitRefused
  <2>2. Onward BY <2>1, AnsweredOnward
  <2> QED BY <2>1, <2>2, OnlyStops
<1>15. CASE ExitTimesOut(c)
  <2>1. UNCHANGED <<site, sess, epoch, tookOver, exited>> BY <1>15 DEF ExitTimesOut
  <2>2. CASE conn[c].phase = "handoff" /\ Goes(c, "ingame")
    <3>1. Effect(c, "ingame", conn[c].epoch, conn[c].exits)
      BY <2>2, GoesEffect, PhaseNames
    <3> QED BY <1>g, <1>i, <1>n, <2>1, <2>2, <3>1
  <2>3. CASE Goes(c, "gone")
    <3>1. Effect(c, "gone", conn[c].epoch, conn[c].exits) BY <2>3, GoesEffect, PhaseNames
    <3> QED BY <1>g, <1>h, <1>n, <2>1, <3>1
  <2> QED BY <1>15, <2>2, <2>3 DEF ExitTimesOut
<1>16. CASE Receive(c)
  <2>1. Effect(c, conn[c].phase, conn[c].epoch, conn[c].exits) BY <1>16, RecordEffects
  <2>2. UNCHANGED <<site, sess, epoch, tookOver, exited>> BY <1>16 DEF Receive
  <2>3. Onward BY <2>1, MovesOnward
  <2> QED BY <2>2, <2>3, OnlyStops
<1>17. CASE Tick(c)
  <2>1. Effect(c, conn[c].phase, conn[c].epoch, conn[c].exits) BY <1>17, RecordEffects
  <2>2. UNCHANGED <<epoch, tookOver, exited>> /\ (sess' = sess \/ Heartbeat)
    BY <1>17 DEF Tick
  <2>3. sess'.state = sess.state /\ sess'.owner = sess.owner
    BY <2>2, StatementTypes DEF Heartbeat, SessStates
  <2>4. Onward BY <2>1, MovesOnward
  <2>5. Using' = Using
    <3>1. Using' = IF conn[c].phase \in Holding THEN Using \cup {c} ELSE Using \ {c}
      BY <2>1, MoveUses
    <3>2. c \in Using <=> conn[c].phase \in Holding BY <2>1, MoveUses
    <3> QED BY <3>1, <3>2
  <2> QED BY <2>2, <2>3, <2>4, <2>5, OnlyAges
<1>18. CASE TickTimesOut(c)
  <2>1. UNCHANGED <<site, sess, epoch, tookOver, exited>> BY <1>18 DEF TickTimesOut
  <2>2. CASE Goes(c, "gone")
    <3>1. Effect(c, "gone", conn[c].epoch, conn[c].exits) BY <2>2, GoesEffect, PhaseNames
    <3> QED BY <1>g, <1>h, <1>n, <2>1, <3>1
  <2>3. CASE Goes(c, "ending")
    <3>1. Effect(c, "ending", conn[c].epoch, conn[c].exits)
      BY <2>3, GoesEffect, PhaseNames
    <3> QED BY <1>g, <1>h, <1>n, <2>1, <3>1
  <2>4. CASE LeaveGame(c) \/ LeaveFails(c) BY <1>l, <2>1, <2>4
  <2> QED BY <1>18, <2>2, <2>3, <2>4 DEF TickTimesOut
<1> QED
  BY <1>1, <1>2, <1>3, <1>4, <1>5, <1>6, <1>7, <1>8, <1>9, <1>10, <1>11, <1>12,
     <1>13, <1>14, <1>15, <1>16, <1>17, <1>18 DEF PhaseStep

\* Time ages the lease, heartbeats refresh it, a crash ends connections; the
\* rest shows nothing.
LEMMA OthersOwner ==
    ASSUME TypeOK, OwnerInv,
           \/ TimePasses
           \/ \E k \in Cores : CoreCrashes(k)
           \/ GatewayStep
           \/ \E t \in Tokens : TokenExpires(t)
           \/ IdleTtlElapses
    PROVE  OwnerInv' /\ [Owner!Next]_(Owner!account)
<1>0. sess \in SessStates BY DEF TypeOK, SessStates
<1>a. ASSUME \A c \in Conns : conn'[c].phase = conn[c].phase,
             sess'.owner = sess.owner, sess'.state = "ACTIVE" <=> sess.state = "ACTIVE",
             UNCHANGED <<epoch, tookOver, exited>>
      PROVE  OwnerInv' /\ [Owner!Next]_(Owner!account)
  <2>1. Using' = Using BY <1>a DEF Using
  <2>2. Onward BY <1>a, <2>1 DEF Onward
  <2> QED BY <1>a, <2>1, <2>2, OnlyAges
<1>1. CASE TimePasses
  <2>1. UNCHANGED <<epoch, tookOver, exited>> BY <1>1 DEF TimePasses
  <2> QED BY <1>1, <1>a, <2>1, TimePassesEffect
<1>2. ASSUME NEW k \in Cores, CoreCrashes(k)
      PROVE  OwnerInv' /\ [Owner!Next]_(Owner!account)
  <2>1. UNCHANGED <<site, sess, epoch, tookOver, exited>> BY <1>2 DEF CoreCrashes
  <2>2. "gone" \notin Holding /\ "gone" \notin Unclaimed BY PhaseSets DEF Unclaimed
  <2>3. \A c \in Conns : conn'[c].phase = conn[c].phase \/ conn'[c].phase = "gone"
    BY <1>2, CoreCrashesEffect
  <2>4. Using' \subseteq Using BY <2>2, <2>3, ClaimSets DEF Using
  <2>5. Onward BY <2>2, <2>3, <2>4 DEF Onward
  <2> QED BY <2>1, <2>5, OnlyStops
<1>3. ASSUME NEW t \in Tokens, NEW i \in Ips, GatewayBootstrap(t, i)
      PROVE  OwnerInv' /\ [Owner!Next]_(Owner!account)
  <2>1. SetLoginToken(t) /\ conn' = conn /\ UNCHANGED <<epoch, tookOver, exited>>
    BY <1>3 DEF GatewayBootstrap
  <2> QED BY <1>a, <2>1, TokenShowsNothing
<1>4. ASSUME NEW t \in Tokens, NEW i \in Ips, GatewayLogin(t, i)
      PROVE  OwnerInv' /\ [Owner!Next]_(Owner!account)
  <2>1. /\ sess' = [sess EXCEPT !.fresh = TRUE, !.ip = i] /\ conn' = conn
        /\ UNCHANGED <<epoch, tookOver, exited>>
    BY <1>4 DEF GatewayLogin
  <2>2. sess'.state = sess.state /\ sess'.owner = sess.owner
    BY <1>0, <2>1 DEF SessStates
  <2> QED BY <1>a, <2>1, <2>2
<1>5. CASE GatewayTick
  <2>1. Heartbeat /\ conn' = conn /\ UNCHANGED <<epoch, tookOver, exited>>
    BY <1>5 DEF GatewayTick
  <2>2. sess'.state = sess.state /\ sess'.owner = sess.owner
    BY <1>0, <2>1 DEF Heartbeat, SessStates
  <2> QED BY <1>a, <2>1, <2>2
<1>6. CASE GatewayLeaves BY <1>6, <1>a DEF GatewayLeaves
<1>7. ASSUME NEW t \in Tokens, TokenExpires(t)
      PROVE  OwnerInv' /\ [Owner!Next]_(Owner!account)
  BY <1>7, <1>a DEF TokenExpires
<1>8. CASE IdleTtlElapses
  <2>1. /\ sess' = [sess EXCEPT !.fresh = FALSE] /\ conn' = conn
        /\ UNCHANGED <<epoch, tookOver, exited>>
    BY <1>8 DEF IdleTtlElapses
  <2>2. sess'.state = sess.state /\ sess'.owner = sess.owner
    BY <1>0, <2>1 DEF SessStates
  <2> QED BY <1>a, <2>1, <2>2
<1> QED BY <1>1, <1>2, <1>3, <1>4, <1>5, <1>6, <1>7, <1>8 DEF GatewayStep

\* The row is ACTIVE exactly while a connection owns it, and a connection
\* claims at most once: of those that hold the lease or have lost it none is
\* before its claim.
THEOREM OwnerInvariant == LeaseSpec => []OwnerInv
<1>1. LeaseInit => OwnerInv
  BY SessionAssumption DEF LeaseInit, OwnerInv
<1>2. TypeOK /\ LeaseInv /\ OwnerInv /\ [LeaseNext]_leaseVars => OwnerInv'
  <2>1. ASSUME OwnerInv, UNCHANGED leaseVars PROVE OwnerInv'
    BY <2>1 DEF leaseVars, OwnerInv
  <2> QED BY <2>1, LoginOwner, PhaseOwner, OthersOwner DEF LeaseNext
<1> QED BY <1>1, <1>2, LeaseInvariant, PTL DEF LeaseSpec

\* The account has a single owner: behind logins in two statements, late
\* releases, exits that commit unheard and crashing cores, the statements on
\* game.sessions are the claims, releases and exits of SingleOwner.
THEOREM LeaseImplementsOwner == LeaseSpec => ImplementsOwner
<1>1. LeaseInit => Owner!Init
  <2> SUFFICES ASSUME LeaseInit PROVE Owner!Init
    OBVIOUS
  <2>1. \A c \in Conns : conn[c].phase = "new" BY DEF LeaseInit, NewConn
  <2>2. Using = {} BY <2>1 DEF Using, Served
  <2> QED BY <2>2 DEF LeaseInit, Owner!Init, LeaseStale
<1>2. TypeOK /\ LeaseInv /\ OwnerInv /\ [LeaseNext]_leaseVars => [Owner!Next]_(Owner!account)
  <2>1. ASSUME UNCHANGED leaseVars PROVE UNCHANGED Owner!account
    <3>1. Using' = Using /\ LeaseStale' = LeaseStale
      BY <2>1 DEF leaseVars, Using, LeaseStale, Stale, StaleAfter
    <3> QED BY <2>1, <3>1 DEF leaseVars, Owner!account
  <2>2. ASSUME TypeOK, LeaseInv, OwnerInv, LeaseNext PROVE [Owner!Next]_(Owner!account)
    BY <2>2, LoginOwner, PhaseOwner, OthersOwner DEF LeaseNext
  <2> QED BY <2>1, <2>2
<1> QED BY <1>1, <1>2, LeaseInvariant, OwnerInvariant, PTL DEF LeaseSpec, ImplementsOwner, Owner!Spec
=============================================================================
