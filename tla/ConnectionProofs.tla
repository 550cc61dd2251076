--------------------------- MODULE ConnectionProofs ---------------------------
(***************************************************************************)
(* Proofs about a client connection, for every interval, table of sequence *)
(* bytes and bound on what is in flight.                                   *)
(***************************************************************************)
EXTENDS Connection, SequenceTheorems, TLAPS

-----------------------------------------------------------------------------
(* The heartbeat.                                                          *)

\* The interval as a number, and the cap on ages that is not below it.
LEMMA IntervalNumbers ==
    /\ HeartbeatInterval \in Nat \ {0} /\ MaxAge \in Nat
    /\ MaxAge >= HeartbeatInterval
BY ConnectionAssumption

Ages ==
    /\ idle \in Nat /\ loopAge \in Nat
    /\ hbIn \in 0 .. HeartbeatInterval
    /\ pc \in {"enter", "entering", "loop", "leaving"}

\* The `now` of a loop is no older than the last tick, and a client not asked
\* since it was heard will not have been silent for three intervals when the
\* next tick comes, unless a send stood still.
HeartbeatOnTime ==
    /\ phase = "Handshake" => idle = 0 /\ loopAge = 0
    /\ phase \notin {"Handshake", "Closed"} =>
          /\ loopAge <= HeartbeatInterval - hbIn
          /\ pc \in {"enter", "entering"} =>
                loopAge = 0 /\ (~stalled => idle <= HeartbeatInterval)
          /\ pc = "loop" =>
                (~asked /\ ~stalled => idle + hbIn < 3 * HeartbeatInterval)

HeartbeatInv ==
    /\ Ages
    /\ HeartbeatOnTime
    /\ phase # "Closed" => why = "open"
    /\ TimeoutIsEarned

\* The ways a handler ends, for the heartbeat.
LEMMA ClosedHeartbeat ==
    ASSUME HeartbeatInv, NEW reason, Closed(reason), reason = "timeout" => asked \/ stalled
    PROVE  HeartbeatInv'
<1>1. /\ phase' = "Closed" /\ why' = reason /\ pc' = "loop" /\ idle' = 0 /\ loopAge' = 0
      /\ hbIn' = HeartbeatInterval /\ asked' = asked /\ stalled' = stalled
  BY DEF Closed, history
<1>2. Ages' BY <1>1, IntervalNumbers DEF HeartbeatInv, Ages
<1>3. HeartbeatOnTime' BY <1>1 DEF HeartbeatOnTime
<1> QED BY <1>1, <1>2, <1>3 DEF HeartbeatInv, TimeoutIsEarned

\* What leaves the heartbeat's state alone.
LEMMA StutterHeartbeat ==
    ASSUME HeartbeatInv, UNCHANGED <<phase, why, pc, idle, loopAge, hbIn, asked, stalled>>
    PROVE  HeartbeatInv'
BY DEF HeartbeatInv, Ages, HeartbeatOnTime, TimeoutIsEarned

\* A send that takes the connection to its end.
LEMMA FarewellHeartbeat ==
    ASSUME HeartbeatInv, NEW reason, Farewell(reason), reason # "timeout", pc = "loop"
    PROVE  HeartbeatInv'
<1>1. CASE Closed(reason) BY <1>1, ClosedHeartbeat
<1>2. CASE ~Closed(reason)
  <2>1. /\ pc' = "leaving"
        /\ UNCHANGED <<phase, why, idle, loopAge, hbIn, asked, stalled>>
    BY <1>2 DEF Farewell, history
  <2> QED BY <2>1 DEF HeartbeatInv, Ages, HeartbeatOnTime, TimeoutIsEarned
<1> QED BY <1>1, <1>2

\* The head of a phase's drive function.
LEMMA EnteredHeartbeat ==
    ASSUME HeartbeatInv, NEW send, NEW stalls, pc = "enter", phase # "Closed",
           Entered(send, stalls)
    PROVE  HeartbeatInv'
<1>1. /\ UNCHANGED <<phase, why, idle, loopAge, hbIn, asked, stalled>>
      /\ pc' = IF phase = "Handshake" THEN "loop" ELSE "entering"
  BY DEF Entered, history
<1>2. Ages' BY <1>1 DEF HeartbeatInv, Ages
<1>3. HeartbeatOnTime' BY <1>1 DEF HeartbeatInv, HeartbeatOnTime
<1> QED BY <1>1, <1>2, <1>3 DEF HeartbeatInv, TimeoutIsEarned

\* A phase starts its ticker anew.
LEMMA SubscribeHeartbeat == ASSUME HeartbeatInv, Subscribe PROVE HeartbeatInv'
<1>1. /\ pc = "entering" /\ UNCHANGED <<phase, why, idle, asked, stalled>>
      /\ pc' = "loop" /\ hbIn' = HeartbeatInterval /\ loopAge' = 0
  BY DEF Subscribe, history
<1>2. Ages' BY <1>1, IntervalNumbers DEF HeartbeatInv, Ages
<1>3. HeartbeatOnTime'
  BY <1>1, IntervalNumbers DEF HeartbeatInv, Ages, HeartbeatOnTime
<1> QED BY <1>1, <1>2, <1>3 DEF HeartbeatInv, TimeoutIsEarned

\* A send that stood still returns.
LEMMA ReturnsHeartbeat == ASSUME HeartbeatInv, SendReturns PROVE HeartbeatInv'
<1>1. loopAge' = 0 /\ UNCHANGED <<phase, why, pc, idle, hbIn, asked, stalled>>
  BY DEF SendReturns, history
<1>2. Ages' BY <1>1 DEF HeartbeatInv, Ages
<1>3. HeartbeatOnTime' BY <1>1, IntervalNumbers DEF HeartbeatInv, Ages, HeartbeatOnTime
<1> QED BY <1>1, <1>2, <1>3 DEF HeartbeatInv, TimeoutIsEarned

\* A packet heard (mark_rx), by a loop that goes round or moves to a phase.
LEMMA HeardHeartbeat ==
    ASSUME HeartbeatInv, NEW op, Heard(op), pc = "loop", phase # "Closed",
           phase' # "Closed", why' = why, hbIn' = hbIn,
           \/ phase' = phase /\ pc' = pc
           \/ phase' # "Handshake" /\ pc' = "enter"
    PROVE  HeartbeatInv'
<1>1. idle' = NowAge /\ asked' = FALSE /\ stalled' = FALSE /\ loopAge' = 0 BY DEF Heard
<1>2. NowAge \in Nat /\ NowAge <= HeartbeatInterval - hbIn
  BY IntervalNumbers DEF HeartbeatInv, Ages, HeartbeatOnTime, NowAge
<1>3. phase = "Handshake" => NowAge = 0 BY DEF NowAge
<1>4. Ages' BY <1>1, <1>2 DEF HeartbeatInv, Ages
<1>5. HeartbeatOnTime'
  BY <1>1, <1>2, <1>3, IntervalNumbers DEF HeartbeatInv, Ages, HeartbeatOnTime
<1> QED BY <1>4, <1>5 DEF HeartbeatInv, TimeoutIsEarned

\* A packet that keeps the phase.
LEMMA StaysHeartbeat ==
    ASSUME HeartbeatInv, NEW op, NEW send, Stays(op, send)
    PROVE  HeartbeatInv'
BY HeardHeartbeat DEF Stays, Decodes

\* A packet that moves to the next phase.
LEMMA MovesHeartbeat ==
    ASSUME HeartbeatInv, NEW op, NEW next \in Phases \ {"Handshake"}, Moves(op, next)
    PROVE  HeartbeatInv'
BY HeardHeartbeat DEF Moves, Decodes, Phases

\* SessionTracker::on_tick.
LEMMA TickHeartbeat == ASSUME HeartbeatInv, HeartbeatTick PROVE HeartbeatInv'
<1> DEFINE since == idle - NowAge
<1>1. /\ pc = "loop" /\ phase \notin {"Handshake", "Closed"} /\ hbIn = 0
      /\ \/ since >= 3 * HeartbeatInterval /\ Closed("timeout")
         \/ /\ since < 3 * HeartbeatInterval
            /\ hbIn' = HeartbeatInterval /\ loopAge' = 0
            /\ asked' = (asked \/ since >= HeartbeatInterval)
            /\ UNCHANGED <<phase, why, pc, idle, stalled>>
  BY DEF HeartbeatTick
<1>2. /\ NowAge \in Nat /\ NowAge <= HeartbeatInterval /\ idle \in Nat
      /\ ~asked /\ ~stalled => idle < 3 * HeartbeatInterval
  BY <1>1, IntervalNumbers DEF HeartbeatInv, Ages, HeartbeatOnTime, NowAge
<1> HIDE DEF since
<1>3. CASE since >= 3 * HeartbeatInterval /\ Closed("timeout")
  <2>1. asked \/ stalled
    <3>1. idle >= 3 * HeartbeatInterval BY <1>2, <1>3, IntervalNumbers DEF since
    <3>2. ~(idle < 3 * HeartbeatInterval) BY <1>2, <3>1, IntervalNumbers
    <3> QED BY <1>2, <3>2
  <2> QED BY <1>3, <2>1, ClosedHeartbeat
<1>4. CASE ~(since >= 3 * HeartbeatInterval /\ Closed("timeout"))
  <2>1. /\ hbIn' = HeartbeatInterval /\ loopAge' = 0
        /\ asked' = (asked \/ since >= HeartbeatInterval)
        /\ phase' = phase /\ why' = why /\ pc' = pc /\ idle' = idle /\ stalled' = stalled
    BY <1>1, <1>4
  <2>2. ~asked' => idle + HeartbeatInterval < 3 * HeartbeatInterval
    <3> SUFFICES ASSUME ~asked' PROVE idle + HeartbeatInterval < 3 * HeartbeatInterval
      OBVIOUS
    <3>1. ~(since >= HeartbeatInterval) BY <2>1
    <3> QED BY <1>2, <3>1, IntervalNumbers DEF since
  <2>4. Ages' BY <1>1, <2>1, IntervalNumbers DEF HeartbeatInv, Ages
  <2>5. HeartbeatOnTime' BY <1>1, <2>1, <2>2, IntervalNumbers DEF HeartbeatOnTime
  <2> QED BY <1>1, <2>1, <2>4, <2>5 DEF HeartbeatInv, TimeoutIsEarned
<1> QED BY <1>3, <1>4

\* A unit of time.
LEMMA TimeHeartbeat == ASSUME HeartbeatInv, Time PROVE HeartbeatInv'
<1>1. /\ phase # "Closed" /\ stalled' = (stalled \/ stuck)
      /\ ~stuck => pc = "loop" /\ ~(hbIn = 0 /\ phase # "Handshake")
      /\ UNCHANGED <<phase, why, pc, asked>>
  BY DEF Time, ServerReady
<1>2. CASE ~Tracked
  <2>1. UNCHANGED <<idle, loopAge, hbIn>> BY <1>2 DEF Time
  <2>2. Ages' BY <1>1, <2>1 DEF HeartbeatInv, Ages
  <2>3. HeartbeatOnTime' BY <1>1, <2>1 DEF HeartbeatInv, HeartbeatOnTime
  <2> QED BY <1>1, <2>2, <2>3 DEF HeartbeatInv, TimeoutIsEarned
<1>3. CASE Tracked /\ ~stuck
  <2>1. /\ idle' = idle + 1 /\ hbIn' = hbIn - 1 /\ loopAge' = Capped(loopAge + 1)
        /\ phase # "Handshake"
    BY <1>3 DEF Time, Tracked
  <2>2. /\ idle \in Nat /\ loopAge \in Nat /\ hbIn \in 1 .. HeartbeatInterval
        /\ loopAge <= HeartbeatInterval - hbIn /\ pc = "loop"
    BY <1>1, <1>3, <2>1, IntervalNumbers DEF HeartbeatInv, Ages, HeartbeatOnTime
  <2>3. Capped(loopAge + 1) \in Nat /\ Capped(loopAge + 1) <= loopAge + 1
    BY <2>2, IntervalNumbers DEF Capped
  <2>4. /\ idle' \in Nat /\ loopAge' \in Nat /\ hbIn' \in 0 .. HeartbeatInterval
        /\ loopAge' <= HeartbeatInterval - hbIn' /\ idle' + hbIn' = idle + hbIn
    BY <2>1, <2>2, <2>3, IntervalNumbers
  <2>5. Ages' BY <1>1, <2>4 DEF HeartbeatInv, Ages
  <2>6. ~stalled' => ~stalled BY <1>1, <1>3
  <2>7. HeartbeatOnTime' BY <1>1, <2>1, <2>2, <2>4, <2>6 DEF HeartbeatInv, HeartbeatOnTime
  <2> QED BY <1>1, <2>5, <2>7 DEF HeartbeatInv, TimeoutIsEarned
<1>4. CASE Tracked /\ stuck
  <2>1. /\ idle' = (IF idle < 3 * HeartbeatInterval THEN idle + 1 ELSE idle)
        /\ hbIn' = (IF hbIn > 0 THEN hbIn - 1 ELSE 0)
        /\ loopAge' = loopAge /\ phase # "Handshake" /\ stalled'
    BY <1>1, <1>4 DEF Time, Tracked
  <2>2. idle \in Nat /\ loopAge \in Nat /\ hbIn \in 0 .. HeartbeatInterval
        /\ loopAge <= HeartbeatInterval - hbIn
    BY <1>1, <2>1 DEF HeartbeatInv, Ages, HeartbeatOnTime
  <2>3. /\ idle' \in Nat /\ hbIn' \in 0 .. HeartbeatInterval
        /\ loopAge' <= HeartbeatInterval - hbIn'
    BY <2>1, <2>2, IntervalNumbers
  <2>4. Ages' BY <1>1, <2>1, <2>2, <2>3 DEF HeartbeatInv, Ages
  <2>5. HeartbeatOnTime' BY <1>1, <2>1, <2>3 DEF HeartbeatInv, HeartbeatOnTime
  <2> QED BY <1>1, <2>1, <2>4, <2>5 DEF HeartbeatInv, TimeoutIsEarned
<1> QED BY <1>2, <1>3, <1>4

\* The server's steps, for the heartbeat.
LEMMA ServerHeartbeat == ASSUME HeartbeatInv, ServerStep PROVE HeartbeatInv'
<1>1. CASE EnterHandshake \/ EnterLogin \/ EnterSelect \/ EnterLoading \/ EnterInGame
  BY <1>1, ClosedHeartbeat, EnteredHeartbeat
  DEF EnterHandshake, EnterLogin, EnterSelect, EnterLoading, EnterInGame, At
<1>2. CASE Malformed \/ HandshakeRefuses \/ SessionSyncReply \/ DrainNotice \/ StreamEnds
           \/ ConnectionResets \/ Leaves
  BY <1>2, ClosedHeartbeat
  DEF Malformed, HandshakeRefuses, SessionSyncReply, DrainNotice, StreamEnds,
      ConnectionResets, Leaves
<1>3. CASE FetchChannelList \/ SessionHeartbeat \/ SubmitClientVersion \/ Intent \/ PlainCommand
  BY <1>3, StaysHeartbeat
  DEF FetchChannelList, SessionHeartbeat, SubmitClientVersion, Intent, PlainCommand
<1>4. CASE SessionTimeSync BY <1>4, StaysHeartbeat DEF SessionTimeSync
<1>5. CASE HandshakeReplies
  BY <1>5, StaysHeartbeat, MovesHeartbeat, ClosedHeartbeat DEF HandshakeReplies, Phases
<1>6. CASE TokenLogin
  BY <1>6, MovesHeartbeat, FarewellHeartbeat, ClosedHeartbeat DEF TokenLogin, Phases, Decodes
<1>7. CASE EditPlayers BY <1>7, StaysHeartbeat, ClosedHeartbeat DEF EditPlayers
<1>8. CASE SubmitPlayerChoice
  BY <1>8, StaysHeartbeat, MovesHeartbeat, ClosedHeartbeat DEF SubmitPlayerChoice, Phases
<1>9. CASE SignalLoadingComplete BY <1>9, MovesHeartbeat DEF SignalLoadingComplete, Phases
<1>10. CASE SessionCommand
  BY <1>10, MovesHeartbeat, FarewellHeartbeat, ClosedHeartbeat
  DEF SessionCommand, Phases, Decodes
<1>11. CASE TeleportCommand
  BY <1>11, StaysHeartbeat, FarewellHeartbeat DEF TeleportCommand, Decodes
<1>12. CASE HeartbeatTick BY <1>12, TickHeartbeat
<1>13. CASE Subscribe \/ SendReturns BY <1>13, SubscribeHeartbeat, ReturnsHeartbeat
<1> QED
  BY <1>1, <1>2, <1>3, <1>4, <1>5, <1>6, <1>7, <1>8, <1>9, <1>10, <1>11, <1>12, <1>13
  DEF ServerStep

\* The heartbeat's invariant holds for every length of the interval.
THEOREM HeartbeatInvariant == Spec => []HeartbeatInv
<1>1. Init => HeartbeatInv
  BY IntervalNumbers DEF Init, HeartbeatInv, Ages, HeartbeatOnTime, TimeoutIsEarned
<1>2. HeartbeatInv /\ [Next]_vars => HeartbeatInv'
  <2> SUFFICES ASSUME HeartbeatInv, [Next]_vars PROVE HeartbeatInv'
    OBVIOUS
  <2>1. CASE ServerStep BY <2>1, ServerHeartbeat
  <2>2. CASE MapHandsOff BY <2>2, FarewellHeartbeat DEF MapHandsOff, Running, At
  <2>3. CASE MapTraffic \/ BeginDraining \/ Arrive \/ ClientRequests \/ ClientReads
             \/ ClientGivesUpWaiting \/ ClientStrays \/ ClientEnds \/ ClientRecovers
    BY <2>3, StutterHeartbeat
    DEF MapTraffic, BeginDraining, Arrive, ClientRequests, ClientReads,
        ClientGivesUpWaiting, ClientStrays, ClientEnds, ClientRecovers, server, history
  <2>4. CASE Time BY <2>4, TimeHeartbeat
  <2>5. CASE UNCHANGED vars BY <2>5, StutterHeartbeat DEF vars, server, history
  <2> QED BY <2>1, <2>2, <2>3, <2>4, <2>5 DEF Next
<1> QED BY <1>1, <1>2, PTL DEF Spec

\* No client is given up that was not asked for a sign of life since it was
\* last heard (SessionTracker::on_tick), whatever the interval and however old
\* the loop's `now` is, unless a send stood still meanwhile.
THEOREM TimeoutsAreEarned == Spec => []TimeoutIsEarned
<1>1. HeartbeatInv => TimeoutIsEarned BY DEF HeartbeatInv
<1> QED BY <1>1, HeartbeatInvariant, PTL

-----------------------------------------------------------------------------
(* The stream of a client that keeps to the protocol.                      *)

\* The opcodes of every phase.
AnyOpcode ==
    Control \cup {"FetchChannelList", "RequestTokenLogin", "EditPlayers", "SubmitPlayerChoice",
                  "SubmitClientVersion", "SignalLoadingComplete", "Intent", "Command"}

Tokens == [op : {"seq"} \cup AnyOpcode, x : Int]

Packets == [op : {"SetClientPhase"}, x : Phases, d : {0}]
             \cup [op : {"RequestHeartbeat", "RequestHandshake"}, x : Int, d : Int]

StreamTypes ==
    /\ buf \in Seq(Tokens) /\ net \in Seq(Tokens)
    /\ inbox \in Seq(Packets)
    /\ phase \in Phases \cup {"Closed"}
    /\ cphase \in Phases \cup {"Connected", "Closed"}
    /\ seqS \in Int /\ seqC \in Int /\ sentAge \in Int /\ loopAge \in Int

\* The stream is a row of packets that phase p knows, each with its sequence
\* byte if p asks for one.
Framed(w, p) ==
    \A i \in DOMAIN w :
       /\ w[i].op = "seq" => i > 1 /\ w[i - 1].op # "seq" /\ Sequenced(p, w[i - 1].op)
       /\ w[i].op # "seq" => /\ w[i].op \in Opcodes(p)
                             /\ Sequenced(p, w[i].op) => i < Len(w) /\ w[i + 1].op = "seq"

\* Nothing that depends on the phase follows a request that may end the phase.
NothingBehind(w) ==
    \A i, j \in DOMAIN w : i < j /\ w[i].op \in Awaited => w[j].op \in {"seq"} \cup Unsequenced

\* No request that may end the phase is on its way.
NoRequest(w) == \A i \in DOMAIN w : w[i].op \notin Awaited

Unread(q, op) == {i \in DOMAIN q : q[i].op = op}

\* The client, in phase cp with the packets q unread, knows the server's phase p
\* or will when it has read them.
PhaseIsTold(q, p, at, cp) ==
    /\ \A i, j \in Unread(q, "SetClientPhase") : i = j
    /\ \A i \in Unread(q, "SetClientPhase") : q[i].x = p
    /\ Unread(q, "SetClientPhase") = {} /\ ~(p = "Handshake" /\ at = "enter") => cp = p

\* A request that may end the phase is waited for.
RequestIsAwaited(w, q, wt) ==
    (\E i \in DOMAIN w : w[i].op \in Awaited) => wt /\ Unread(q, "SetClientPhase") = {}

\* During the handshake one question or answer is on its way.
HandshakeAlternates(w, q, at, cp, s, k) ==
    /\ s = 0
    /\ Unread(q, "RequestHeartbeat") = {}
    /\ at = "enter" => q = <<>> /\ w = <<>> /\ cp = "Connected"
    /\ \A i \in DOMAIN w :
          w[i].op = IF k = "lister" THEN "FetchChannelList" ELSE "HandshakeResponse"
    /\ k # "lister" => /\ Len(w) <= 1
                       /\ w # <<>> => q = <<>>
                       /\ \A i \in Unread(q, "RequestHandshake") : i = Len(q)

\* Past the handshake its packets are answered only by a client that always
\* does so.
HandshakeIsOver(w, q, cp) ==
    /\ cp = "Handshake" => q # <<>> /\ q[1].op = "SetClientPhase"
    /\ ~AnswersAlways => \A i \in DOMAIN w : w[i].op # "HandshakeResponse"

Sound(w, q, p, at, s, c, cp, wt, k) ==
    /\ Framed(w, p) /\ InStep(w, s, c) /\ NothingBehind(w)
    /\ PhaseIsTold(q, p, at, cp)
    /\ RequestIsAwaited(w, q, wt)
    /\ p = "Handshake" => HandshakeAlternates(w, q, at, cp, s, k)
    /\ p # "Handshake" => HandshakeIsOver(w, q, cp)

StreamInv ==
    /\ StreamTypes
    /\ kind # "stray" /\ phase # "Closed" =>
          /\ Sound(buf \o net, inbox, phase, pc, seqS, seqC, cphase, waits, kind)
          /\ why = "open"
    /\ ~AnswersAlways => ConformingIsKept

-----------------------------------------------------------------------------
(* What sending, consuming and ageing do to a stream.                      *)

\* A packet without a sequence byte at the end of the stream.
LEMMA PlainSent ==
    ASSUME NEW w \in Seq(Tokens), NEW t \in Tokens, NEW v \in Seq(Tokens),
           Len(v) = Len(w) + 1, v[Len(w) + 1] = t, \A i \in 1 .. Len(w) : v[i] = w[i],
           NEW p, NEW s, NEW c,
           Framed(w, p), InStep(w, s, c), NothingBehind(w),
           t.op # "seq", t.op \in Opcodes(p), ~Sequenced(p, t.op),
           t.op \in Unsequenced \/ \A i \in DOMAIN w : w[i].op \notin Awaited
    PROVE  Framed(v, p) /\ InStep(v, s, c) /\ NothingBehind(v)
<1>1. DOMAIN w = 1 .. Len(w) /\ DOMAIN v = 1 .. Len(w) + 1 /\ Len(w) \in Nat
  OBVIOUS
<1>2. Framed(v, p)
  <2> SUFFICES ASSUME NEW i \in DOMAIN v
               PROVE  /\ v[i].op = "seq" => /\ i > 1 /\ v[i - 1].op # "seq"
                                            /\ Sequenced(p, v[i - 1].op)
                      /\ v[i].op # "seq" =>
                            /\ v[i].op \in Opcodes(p)
                            /\ Sequenced(p, v[i].op) => i < Len(v) /\ v[i + 1].op = "seq"
    BY DEF Framed
  <2>1. CASE i = Len(w) + 1 BY <2>1
  <2>2. CASE i \in DOMAIN w
    <3>1. /\ w[i].op = "seq" => i > 1 /\ w[i - 1].op # "seq" /\ Sequenced(p, w[i - 1].op)
          /\ w[i].op # "seq" =>
                /\ w[i].op \in Opcodes(p)
                /\ Sequenced(p, w[i].op) => i < Len(w) /\ w[i + 1].op = "seq"
      BY <2>2 DEF Framed
    <3>2. v[i] = w[i] /\ (i > 1 => v[i - 1] = w[i - 1]) /\ (i < Len(w) => v[i + 1] = w[i + 1])
      BY <1>1, <2>2
    <3> QED BY <1>1, <2>2, <3>1, <3>2
  <2> QED BY <1>1, <2>1, <2>2
<1>3. SeqBytes(v) = SeqBytes(w) /\ \A i \in SeqBytes(w) : v[i] = w[i]
  BY <1>1 DEF SeqBytes
<1>4. InStep(v, s, c) BY <1>3 DEF InStep
<1>5. NothingBehind(v)
  <2> SUFFICES ASSUME NEW i \in DOMAIN v, NEW j \in DOMAIN v, i < j, v[i].op \in Awaited
               PROVE  v[j].op \in {"seq"} \cup Unsequenced
    BY DEF NothingBehind
  <2>1. i \in DOMAIN w /\ v[i] = w[i] BY <1>1
  <2>2. CASE j = Len(w) + 1 BY <2>1, <2>2
  <2>3. CASE j \in DOMAIN w BY <1>1, <2>1, <2>3 DEF NothingBehind
  <2> QED BY <1>1, <2>2, <2>3
<1> QED BY <1>2, <1>4, <1>5

\* A request with its sequence byte at the end of the stream.
LEMMA RequestSent ==
    ASSUME NEW w \in Seq(Tokens), NEW t \in Tokens, NEW b \in Tokens, NEW v \in Seq(Tokens),
           Len(v) = Len(w) + 2, v[Len(w) + 1] = t, v[Len(w) + 2] = b,
           \A i \in 1 .. Len(w) : v[i] = w[i],
           NEW p, NEW s, NEW c,
           Framed(w, p), InStep(w, s, c), NothingBehind(w),
           t.op # "seq", t.op \in Opcodes(p), Sequenced(p, t.op), b.op = "seq", b.x = c,
           NoRequest(w)
    PROVE  Framed(v, p) /\ InStep(v, s, Following(c)) /\ NothingBehind(v)
<1> DEFINE n == Len(w)
<1>1. DOMAIN w = 1 .. n /\ DOMAIN v = 1 .. n + 2 /\ n \in Nat
  OBVIOUS
<1>2. Framed(v, p)
  <2> SUFFICES ASSUME NEW i \in DOMAIN v
               PROVE  /\ v[i].op = "seq" => /\ i > 1 /\ v[i - 1].op # "seq"
                                            /\ Sequenced(p, v[i - 1].op)
                      /\ v[i].op # "seq" =>
                            /\ v[i].op \in Opcodes(p)
                            /\ Sequenced(p, v[i].op) => i < Len(v) /\ v[i + 1].op = "seq"
    BY DEF Framed
  <2>1. CASE i = n + 1 BY <1>1, <2>1
  <2>2. CASE i = n + 2
    <3>1. i - 1 = n + 1 /\ i > 1 BY <1>1, <2>2
    <3> QED BY <2>2, <3>1
  <2>3. CASE i \in DOMAIN w
    <3>1. /\ w[i].op = "seq" => i > 1 /\ w[i - 1].op # "seq" /\ Sequenced(p, w[i - 1].op)
          /\ w[i].op # "seq" =>
                /\ w[i].op \in Opcodes(p)
                /\ Sequenced(p, w[i].op) => i < Len(w) /\ w[i + 1].op = "seq"
      BY <2>3 DEF Framed
    <3>2. v[i] = w[i] /\ (i > 1 => v[i - 1] = w[i - 1]) /\ (i < Len(w) => v[i + 1] = w[i + 1])
      BY <1>1, <2>3
    <3> QED BY <1>1, <2>3, <3>1, <3>2
  <2> QED BY <1>1, <2>1, <2>2, <2>3
<1>3. /\ SeqBytes(v) = SeqBytes(w) \cup {n + 2}
      /\ \A i \in SeqBytes(w) : v[i] = w[i] /\ i \in Int /\ i < n + 2
  BY <1>1 DEF SeqBytes
<1>4. InStep(v, s, Following(c))
  <2> DEFINE old == SeqBytes(w)
             all == SeqBytes(v)
  <2>1. n + 2 \in Int /\ v[n + 2].x = c BY <1>1
  <2>2. ASSUME NEW i \in all, \A h \in all : h >= i PROVE v[i].x = s
    <3>1. CASE i \in old BY <1>3, <2>2, <3>1 DEF InStep
    <3>2. CASE i = n + 2
      <4>1. old = {}
        <5> SUFFICES ASSUME NEW h \in old PROVE FALSE
          OBVIOUS
        <5>1. h \in all /\ h \in Int /\ h < n + 2 BY <1>3
        <5>2. h >= n + 2 BY <2>2, <3>2, <5>1
        <5> QED BY <2>1, <5>1, <5>2
      <4> QED BY <2>1, <3>2, <4>1 DEF InStep
    <3> QED BY <1>3, <3>1, <3>2
  <2>3. ASSUME NEW i \in all, \A h \in all : h <= i PROVE Following(c) = Following(v[i].x)
    <3>1. i = n + 2 BY <1>3, <2>1, <2>3
    <3> QED BY <2>1, <3>1
  <2>4. ASSUME NEW i \in all, NEW j \in all, i < j, \A h \in all : h <= i \/ j <= h
        PROVE  v[j].x = Following(v[i].x)
    <3>1. i \in old BY <1>3, <2>1, <2>4
    <3>2. CASE j \in old BY <1>3, <2>4, <3>1, <3>2 DEF InStep
    <3>3. CASE j = n + 2
      <4>1. \A h \in old : h <= i BY <1>3, <2>1, <2>4, <3>3
      <4> QED BY <1>3, <2>1, <3>1, <3>3, <4>1 DEF InStep
    <3> QED BY <1>3, <3>2, <3>3
  <2>5. all # {} BY <1>3
  <2> QED BY <2>2, <2>3, <2>4, <2>5 DEF InStep
<1>5. NothingBehind(v)
  <2> SUFFICES ASSUME NEW i \in DOMAIN v, NEW j \in DOMAIN v, i < j, v[i].op \in Awaited
               PROVE  v[j].op \in {"seq"} \cup Unsequenced
    BY DEF NothingBehind
  <2>1. i \notin DOMAIN w BY <1>1 DEF NoRequest
  <2>2. j = n + 2 BY <1>1, <2>1
  <2> QED BY <2>2
<1> QED BY <1>2, <1>4, <1>5

\* The codec takes a packet without a sequence byte off the stream.
LEMMA PlainTaken ==
    ASSUME NEW w \in Seq(Tokens), w # <<>>, NEW v \in Seq(Tokens),
           Len(v) = Len(w) - 1, \A i \in 1 .. Len(v) : v[i] = w[i + 1],
           NEW p, NEW s, NEW c,
           Framed(w, p), InStep(w, s, c), NothingBehind(w),
           w[1].op # "seq", ~Sequenced(p, w[1].op)
    PROVE  Framed(v, p) /\ InStep(v, s, c) /\ NothingBehind(v)
<1>1. /\ DOMAIN w = 1 .. Len(w) /\ DOMAIN v = 1 .. Len(v) /\ Len(w) \in Nat /\ Len(v) \in Nat
      /\ \A i \in DOMAIN v : i + 1 \in DOMAIN w /\ v[i] = w[i + 1]
  OBVIOUS
<1>2. Framed(v, p)
  <2> SUFFICES ASSUME NEW i \in DOMAIN v
               PROVE  /\ v[i].op = "seq" => /\ i > 1 /\ v[i - 1].op # "seq"
                                            /\ Sequenced(p, v[i - 1].op)
                      /\ v[i].op # "seq" =>
                            /\ v[i].op \in Opcodes(p)
                            /\ Sequenced(p, v[i].op) => i < Len(v) /\ v[i + 1].op = "seq"
    BY DEF Framed
  <2>1. v[i] = w[i + 1] /\ i + 1 \in DOMAIN w BY <1>1
  <2>2. /\ w[i + 1].op = "seq" =>
              i + 1 > 1 /\ w[(i + 1) - 1].op # "seq" /\ Sequenced(p, w[(i + 1) - 1].op)
        /\ w[i + 1].op # "seq" =>
              /\ w[i + 1].op \in Opcodes(p)
              /\ Sequenced(p, w[i + 1].op) => i + 1 < Len(w) /\ w[(i + 1) + 1].op = "seq"
    BY <2>1 DEF Framed
  <2>3. (i + 1) - 1 = i /\ (i > 1 => v[i - 1] = w[i]) /\ (i < Len(v) => v[i + 1] = w[(i + 1) + 1])
    BY <1>1
  <2>4. i = 1 => w[i + 1].op # "seq" BY <2>2, <2>3
  <2> QED BY <1>1, <2>1, <2>2, <2>3, <2>4
<1>3. /\ \A i \in SeqBytes(v) : i + 1 \in SeqBytes(w) /\ v[i] = w[i + 1] /\ i \in Int
      /\ \A i \in SeqBytes(w) : i - 1 \in SeqBytes(v) /\ i \in Int /\ (i - 1) + 1 = i
  BY <1>1 DEF SeqBytes
<1>4. InStep(v, s, c)
  <2> DEFINE old == SeqBytes(w)
             new == SeqBytes(v)
  <2>1. new = {} => c = s BY <1>3 DEF InStep
  <2>2. ASSUME NEW i \in new, \A h \in new : h >= i PROVE v[i].x = s
    <3>1. \A h \in old : h >= i + 1 BY <1>3, <2>2
    <3>2. i + 1 \in old /\ v[i] = w[i + 1] BY <1>3
    <3>3. w[i + 1].x = s BY <3>1, <3>2 DEF InStep
    <3> QED BY <3>2, <3>3
  <2>3. ASSUME NEW i \in new, \A h \in new : h <= i PROVE c = Following(v[i].x)
    <3>1. \A h \in old : h <= i + 1 BY <1>3, <2>3
    <3>2. i + 1 \in old /\ v[i] = w[i + 1] BY <1>3
    <3>3. c = Following(w[i + 1].x) BY <3>1, <3>2 DEF InStep
    <3> QED BY <3>2, <3>3
  <2>4. ASSUME NEW i \in new, NEW j \in new, i < j, \A h \in new : h <= i \/ j <= h
        PROVE  v[j].x = Following(v[i].x)
    <3>1. i \in Int /\ j \in Int /\ i + 1 \in old /\ j + 1 \in old
          /\ v[i] = w[i + 1] /\ v[j] = w[j + 1]
      BY <1>3
    <3>2. i + 1 < j + 1 BY <2>4, <3>1
    <3>3. ASSUME NEW h \in old PROVE h <= i + 1 \/ j + 1 <= h
      <4>1. h - 1 \in new /\ h \in Int BY <1>3
      <4>2. h - 1 <= i \/ j <= h - 1 BY <2>4, <4>1
      <4> QED BY <3>1, <4>1, <4>2
    <3>4. w[j + 1].x = Following(w[i + 1].x) BY <3>1, <3>2, <3>3 DEF InStep
    <3> QED BY <3>1, <3>4
  <2> QED BY <2>1, <2>2, <2>3, <2>4 DEF InStep
<1>5. NothingBehind(v)
  <2> SUFFICES ASSUME NEW i \in DOMAIN v, NEW j \in DOMAIN v, i < j, v[i].op \in Awaited
               PROVE  v[j].op \in {"seq"} \cup Unsequenced
    BY DEF NothingBehind
  <2>1. i + 1 < j + 1 BY <1>1
  <2> QED BY <1>1, <2>1 DEF NothingBehind
<1> QED BY <1>2, <1>4, <1>5

\* The codec takes a packet and its sequence byte off the stream, the byte is
\* the one it expects, and what the packet leaves is in step again.
LEMMA RequestTaken ==
    ASSUME NEW w \in Seq(Tokens), w # <<>>, NEW v \in Seq(Tokens),
           Len(v) = Len(w) - 2, \A i \in 1 .. Len(v) : v[i] = w[i + 2],
           NEW p, NEW s, NEW c,
           Framed(w, p), InStep(w, s, c), NothingBehind(w),
           w[1].op # "seq", Sequenced(p, w[1].op)
    PROVE  /\ Framed(v, p) /\ InStep(v, Following(s), c) /\ NothingBehind(v)
           /\ w[2].op = "seq" /\ w[2].x = s
           /\ w[1].op \in Awaited => \A i \in DOMAIN v : v[i].op \in Unsequenced
<1>1. /\ DOMAIN w = 1 .. Len(w) /\ DOMAIN v = 1 .. Len(v) /\ Len(w) \in Nat /\ Len(v) \in Nat
      /\ \A i \in DOMAIN v : i + 2 \in DOMAIN w /\ v[i] = w[i + 2]
      /\ 1 \in DOMAIN w
  OBVIOUS
<1>2. 2 \in DOMAIN w /\ w[2].op = "seq"
  <2>1. 1 < Len(w) /\ w[1 + 1].op = "seq" BY <1>1 DEF Framed
  <2> QED BY <1>1, <2>1
<1>3. Framed(v, p)
  <2> SUFFICES ASSUME NEW i \in DOMAIN v
               PROVE  /\ v[i].op = "seq" => /\ i > 1 /\ v[i - 1].op # "seq"
                                            /\ Sequenced(p, v[i - 1].op)
                      /\ v[i].op # "seq" =>
                            /\ v[i].op \in Opcodes(p)
                            /\ Sequenced(p, v[i].op) => i < Len(v) /\ v[i + 1].op = "seq"
    BY DEF Framed
  <2>1. v[i] = w[i + 2] /\ i + 2 \in DOMAIN w BY <1>1
  <2>2. /\ w[i + 2].op = "seq" =>
              w[(i + 2) - 1].op # "seq" /\ Sequenced(p, w[(i + 2) - 1].op)
        /\ w[i + 2].op # "seq" =>
              /\ w[i + 2].op \in Opcodes(p)
              /\ Sequenced(p, w[i + 2].op) => i + 2 < Len(w) /\ w[(i + 2) + 1].op = "seq"
    BY <2>1 DEF Framed
  <2>3. /\ i = 1 => (i + 2) - 1 = 2
        /\ i > 1 => v[i - 1] = w[(i + 2) - 1]
        /\ i < Len(v) => v[i + 1] = w[(i + 2) + 1]
        /\ i + 2 < Len(w) => i < Len(v)
        /\ i = 1 \/ i > 1
    BY <1>1
  <2>4. i = 1 => w[i + 2].op # "seq" BY <1>2, <2>2, <2>3
  <2> QED BY <2>1, <2>2, <2>3, <2>4
<1>4. /\ \A i \in SeqBytes(v) : i + 2 \in SeqBytes(w) /\ v[i] = w[i + 2] /\ i \in Int /\ i >= 1
      /\ \A i \in SeqBytes(w) : i = 2 \/ (i - 2 \in SeqBytes(v) /\ i \in Int /\ (i - 2) + 2 = i)
      /\ 2 \in SeqBytes(w) /\ \A i \in SeqBytes(w) : i >= 2
  BY <1>1, <1>2 DEF SeqBytes
<1>5. w[2].x = s BY <1>4 DEF InStep
<1>6. InStep(v, Following(s), c)
  <2> DEFINE old == SeqBytes(w)
             new == SeqBytes(v)
  <2>1. new = {} => c = Following(s)
    <3> SUFFICES ASSUME new = {} PROVE c = Following(s)
      OBVIOUS
    <3>1. 2 \in old /\ \A h \in old : h <= 2 BY <1>4
    <3>2. c = Following(w[2].x) BY <3>1 DEF InStep
    <3> QED BY <1>5, <3>2
  <2>2. ASSUME NEW i \in new, \A h \in new : h >= i PROVE v[i].x = Following(s)
    <3>1. 2 < i + 2 /\ \A h \in old : h <= 2 \/ i + 2 <= h BY <1>4, <2>2
    <3>2. 2 \in old /\ i + 2 \in old /\ v[i] = w[i + 2] BY <1>4
    <3>3. \A a, b \in old : a < b /\ (\A h \in old : h <= a \/ b <= h)
                             => w[b].x = Following(w[a].x)
      BY DEF InStep
    <3>4. w[i + 2].x = Following(w[2].x) BY <3>1, <3>2, <3>3
    <3> QED BY <1>5, <3>2, <3>4
  <2>3. ASSUME NEW i \in new, \A h \in new : h <= i PROVE c = Following(v[i].x)
    <3>1. \A h \in old : h <= i + 2 BY <1>4, <2>3
    <3>2. i + 2 \in old /\ v[i] = w[i + 2] BY <1>4
    <3>3. c = Following(w[i + 2].x) BY <3>1, <3>2 DEF InStep
    <3> QED BY <3>2, <3>3
  <2>4. ASSUME NEW i \in new, NEW j \in new, i < j, \A h \in new : h <= i \/ j <= h
        PROVE  v[j].x = Following(v[i].x)
    <3>1. i \in Int /\ j \in Int /\ i + 2 \in old /\ j + 2 \in old
          /\ v[i] = w[i + 2] /\ v[j] = w[j + 2]
      BY <1>4
    <3>2. i + 2 < j + 2 BY <2>4, <3>1
    <3>3. ASSUME NEW h \in old PROVE h <= i + 2 \/ j + 2 <= h
      <4>1. CASE h = 2
        <5>1. i >= 1 BY <1>4
        <5> QED BY <3>1, <4>1, <5>1
      <4>2. CASE h # 2
        <5>1. h - 2 \in new /\ h \in Int BY <1>4, <4>2
        <5>2. h - 2 <= i \/ j <= h - 2 BY <2>4, <5>1
        <5> QED BY <3>1, <5>1, <5>2
      <4> QED BY <4>1, <4>2
    <3>4. w[j + 2].x = Following(w[i + 2].x) BY <3>1, <3>2, <3>3 DEF InStep
    <3> QED BY <3>1, <3>4
  <2> QED BY <2>1, <2>2, <2>3, <2>4 DEF InStep
<1>7. NothingBehind(v)
  <2> SUFFICES ASSUME NEW i \in DOMAIN v, NEW j \in DOMAIN v, i < j, v[i].op \in Awaited
               PROVE  v[j].op \in {"seq"} \cup Unsequenced
    BY DEF NothingBehind
  <2>1. i + 2 < j + 2 BY <1>1
  <2> QED BY <1>1, <2>1 DEF NothingBehind
<1>8. ASSUME w[1].op \in Awaited, NEW i \in DOMAIN v PROVE v[i].op \in Unsequenced
  <2>1. v[i].op \in {"seq"} \cup Unsequenced
    <3>1. i + 2 \in DOMAIN w /\ 1 < i + 2 /\ v[i] = w[i + 2] BY <1>1
    <3> QED BY <1>1, <1>8, <3>1 DEF NothingBehind
  <2>2. v[i].op # "seq"
    <3> SUFFICES ASSUME v[i].op = "seq" PROVE FALSE
      OBVIOUS
    <3>1. i > 1 /\ v[i - 1].op # "seq" /\ Sequenced(p, v[i - 1].op) BY <1>3 DEF Framed
    <3>2. (i - 1) + 2 \in DOMAIN w /\ 1 < (i - 1) + 2 /\ v[i - 1] = w[(i - 1) + 2]
      BY <1>1, <3>1
    <3>3. v[i - 1].op \in {"seq"} \cup Unsequenced BY <1>1, <1>8, <3>2 DEF NothingBehind
    <3> QED BY <3>1, <3>3 DEF Sequenced
  <2> QED BY <2>1, <2>2
<1> QED BY <1>2, <1>3, <1>5, <1>6, <1>7, <1>8

\* A stream of the same packets, with other time stamps.
LEMMA SamePackets ==
    ASSUME NEW w \in Seq(Tokens), NEW v \in Seq(Tokens), Len(v) = Len(w),
           \A i \in 1 .. Len(w) : v[i].op = w[i].op /\ (w[i].op = "seq" => v[i].x = w[i].x),
           NEW p, NEW s, NEW c,
           Framed(w, p), InStep(w, s, c), NothingBehind(w)
    PROVE  Framed(v, p) /\ InStep(v, s, c) /\ NothingBehind(v)
<1>1. DOMAIN w = 1 .. Len(w) /\ DOMAIN v = 1 .. Len(w) /\ Len(w) \in Nat
  OBVIOUS
<1>2. Framed(v, p)
  <2> SUFFICES ASSUME NEW i \in DOMAIN v
               PROVE  /\ v[i].op = "seq" => /\ i > 1 /\ v[i - 1].op # "seq"
                                            /\ Sequenced(p, v[i - 1].op)
                      /\ v[i].op # "seq" =>
                            /\ v[i].op \in Opcodes(p)
                            /\ Sequenced(p, v[i].op) => i < Len(v) /\ v[i + 1].op = "seq"
    BY DEF Framed
  <2>1. /\ w[i].op = "seq" => i > 1 /\ w[i - 1].op # "seq" /\ Sequenced(p, w[i - 1].op)
        /\ w[i].op # "seq" =>
              /\ w[i].op \in Opcodes(p)
              /\ Sequenced(p, w[i].op) => i < Len(w) /\ w[i + 1].op = "seq"
    BY <1>1 DEF Framed
  <2>2. v[i].op = w[i].op /\ (i > 1 => v[i - 1].op = w[i - 1].op)
        /\ (i < Len(w) => v[i + 1].op = w[i + 1].op)
    BY <1>1
  <2> QED BY <2>1, <2>2
<1>3. SeqBytes(v) = SeqBytes(w) /\ \A i \in SeqBytes(w) : v[i].x = w[i].x
  BY <1>1 DEF SeqBytes
<1>4. InStep(v, s, c) BY <1>3 DEF InStep
<1>5. NothingBehind(v) BY <1>1 DEF NothingBehind
<1> QED BY <1>2, <1>4, <1>5

-----------------------------------------------------------------------------
(* What the two ends do to a sound stream.                                 *)

\* The names of the opcodes.
LEMMA OpcodeFacts ==
    /\ \A p \in Phases : "seq" \notin Opcodes(p) /\ Control \subseteq Opcodes(p)
    /\ \A op \in Awaited : op \notin Opcodes("Handshake") /\ op \notin Unsequenced
                           /\ \A p : p # "Handshake" => Sequenced(p, op)
    /\ Unsequenced \subseteq Control /\ \A p, op \in Unsequenced : ~Sequenced(p, op)
    /\ \A op : ~Sequenced("Handshake", op)
    /\ "seq" \notin Awaited /\ Unsequenced \cap Awaited = {}
<1>1. \A p \in Phases : "seq" \notin Opcodes(p) /\ Control \subseteq Opcodes(p)
  BY DEF Phases, Opcodes, Control
<1>2. \A op \in Awaited : op \notin Opcodes("Handshake") /\ op \notin Unsequenced
  BY DEF Awaited, Opcodes, Control, Unsequenced
<1>3. \A op \in Awaited : \A p : p # "Handshake" => Sequenced(p, op)
  BY <1>2 DEF Sequenced
<1>4. Unsequenced \subseteq Control BY DEF Unsequenced, Control
<1>5. \A p, op \in Unsequenced : ~Sequenced(p, op) BY DEF Sequenced
<1>6. \A op : ~Sequenced("Handshake", op) BY DEF Sequenced
<1>7. "seq" \notin Awaited /\ Unsequenced \cap Awaited = {} BY DEF Awaited, Unsequenced
<1> QED BY <1>1, <1>2, <1>3, <1>4, <1>5, <1>6, <1>7

\* Where the buffer ends and the network begins does not matter.
LEMMA JoinFacts ==
    ASSUME NEW b \in Seq(Tokens), NEW n \in Seq(Tokens)
    PROVE  /\ b \o n \in Seq(Tokens) /\ Len(b \o n) = Len(b) + Len(n)
           /\ \A i \in 1 .. Len(b) : (b \o n)[i] = b[i]
           /\ \A i \in 1 .. Len(n) : (b \o n)[Len(b) + i] = n[i]
           /\ \A i \in Len(b) + 1 .. Len(b) + Len(n) : (b \o n)[i] = n[i - Len(b)]
OBVIOUS

\* The first k tokens are taken off the buffer.
LEMMA Dropped ==
    ASSUME NEW b \in Seq(Tokens), NEW k \in Nat, k <= Len(b)
    PROVE  /\ SubSeq(b, k + 1, Len(b)) \in Seq(Tokens)
           /\ Len(SubSeq(b, k + 1, Len(b))) = Len(b) - k
           /\ \A i \in 1 .. Len(b) - k : SubSeq(b, k + 1, Len(b))[i] = b[i + k]
<1> DEFINE m == k + 1
           n == Len(b)
           d == SubSeq(b, m, n)
<1>1. m \in Int /\ n \in Int /\ \A i \in m .. n : b[i] \in Tokens
  OBVIOUS
<1> HIDE DEF m, n
<1>2. /\ d \in Seq(Tokens)
      /\ Len(d) = IF m <= n THEN n - m + 1 ELSE 0
      /\ \A i \in 1 .. n - m + 1 : d[i] = b[m + i - 1]
  BY <1>1, SubSeqProperties
<1> HIDE DEF d
<1>3. n \in Nat /\ n - m + 1 = n - k /\ (~(m <= n) => n = k)
      /\ \A i \in 1 .. n - k : m + i - 1 = i + k
  BY DEF m, n
<1>4. Len(d) = n - k BY <1>2, <1>3
<1>5. \A i \in 1 .. n - k : d[i] = b[i + k] BY <1>2, <1>3
<1> QED BY <1>2, <1>4, <1>5 DEF d, m, n

\* The same for the stream that the buffer is the front of.
LEMMA DroppedOfStream ==
    ASSUME NEW b \in Seq(Tokens), NEW n \in Seq(Tokens), NEW k \in Nat, k <= Len(b)
    PROVE  LET rest == SubSeq(b, k + 1, Len(b))
           IN  /\ rest \in Seq(Tokens) /\ rest \o n \in Seq(Tokens)
               /\ Len(rest \o n) = Len(b \o n) - k
               /\ \A i \in 1 .. Len(rest \o n) : (rest \o n)[i] = (b \o n)[i + k]
<1> DEFINE rest == SubSeq(b, k + 1, Len(b))
           w == b \o n
           v == rest \o n
<1>1. /\ rest \in Seq(Tokens) /\ Len(rest) = Len(b) - k
      /\ \A i \in 1 .. Len(rest) : rest[i] = b[i + k]
  BY Dropped
<1> HIDE DEF rest
<1>2. /\ Len(w) = Len(b) + Len(n) /\ Len(b) \in Nat /\ Len(n) \in Nat /\ Len(rest) \in Nat
      /\ \A i \in 1 .. Len(b) : w[i] = b[i]
      /\ \A i \in 1 .. Len(n) : w[Len(b) + i] = n[i]
  BY <1>1, JoinFacts
<1>3. /\ v \in Seq(Tokens) /\ Len(v) = Len(rest) + Len(n)
      /\ \A i \in 1 .. Len(rest) : v[i] = rest[i]
      /\ \A i \in Len(rest) + 1 .. Len(rest) + Len(n) : v[i] = n[i - Len(rest)]
  BY <1>1, JoinFacts
<1> HIDE DEF w, v
<1>4. Len(v) = Len(w) - k BY <1>1, <1>2, <1>3
<1>5. ASSUME NEW i \in 1 .. Len(v) PROVE v[i] = w[i + k]
  <2>1. CASE i \in 1 .. Len(rest)
    <3>1. i + k \in 1 .. Len(b) BY <1>1, <1>2, <2>1
    <3> QED BY <1>1, <1>2, <1>3, <2>1, <3>1
  <2>2. CASE i \in Len(rest) + 1 .. Len(rest) + Len(n)
    <3> DEFINE h == i - Len(rest)
    <3>1. h \in 1 .. Len(n) /\ Len(b) + h = i + k BY <1>1, <1>2, <2>2
    <3>2. v[i] = n[h] BY <1>3, <2>2
    <3> HIDE DEF h
    <3>3. w[Len(b) + h] = n[h] BY <1>2, <3>1
    <3> QED BY <3>1, <3>2, <3>3
  <2> QED BY <1>2, <1>3, <2>1, <2>2
<1> QED BY <1>1, <1>3, <1>4, <1>5 DEF w, v, rest

\* The buffer b of phase p without its first packet, and the sequencer's
\* position s after it.
Rest(p, b) == SubSeq(b, IF Sequenced(p, b[1].op) THEN 3 ELSE 2, Len(b))
Advanced(p, b, s) == IF Sequenced(p, b[1].op) THEN Following(s) ELSE s

\* A packet is decoded: the head of a sound stream is taken off whole.
LEMMA HeadTaken ==
    ASSUME NEW b \in Seq(Tokens), NEW n \in Seq(Tokens), NEW p \in Phases, NEW s, NEW c,
           b # <<>>, b[1].op \in Opcodes(p), Sequenced(p, b[1].op) => Len(b) >= 2,
           Framed(b \o n, p), InStep(b \o n, s, c), NothingBehind(b \o n)
    PROVE  LET w == b \o n
               v == Rest(p, b) \o n
           IN  /\ Rest(p, b) \in Seq(Tokens) /\ v \in Seq(Tokens)
               /\ Framed(v, p) /\ NothingBehind(v)
               /\ InStep(v, Advanced(p, b, s), c)
               /\ b[1].op \in Awaited => \A i \in DOMAIN v : v[i].op \in Unsequenced
               /\ \A i \in DOMAIN v : \E j \in DOMAIN w : v[i] = w[j]
               /\ Len(v) < Len(w)
               /\ 1 \in DOMAIN w /\ w[1] = b[1]
<1> DEFINE rest == Rest(p, b)
           w == b \o n
           v == rest \o n
           k == IF Sequenced(p, b[1].op) THEN 2 ELSE 1
<1>1. Len(b) \in Nat /\ Len(b) >= 1 OBVIOUS
<1>2. k \in Nat /\ k <= Len(b) /\ k \in {1, 2} BY <1>1
<1>3. rest = SubSeq(b, k + 1, Len(b)) BY DEF Rest
<1>4. w \in Seq(Tokens) /\ w # <<>> /\ w[1] = b[1] /\ 1 \in DOMAIN w
  <2>1. w \in Seq(Tokens) /\ Len(w) = Len(b) + Len(n) /\ Len(n) \in Nat
        /\ \A i \in 1 .. Len(b) : w[i] = b[i]
    BY JoinFacts
  <2> HIDE DEF w
  <2>2. Len(w) \in Nat /\ Len(w) >= 1 BY <1>1, <2>1
  <2>3. w[1] = b[1] BY <1>1, <2>1
  <2> QED BY <2>1, <2>2, <2>3
<1> HIDE DEF k
<1>5. /\ rest \in Seq(Tokens) /\ v \in Seq(Tokens) /\ Len(v) = Len(w) - k
      /\ \A i \in 1 .. Len(v) : v[i] = w[i + k]
  <2> DEFINE d == SubSeq(b, k + 1, Len(b))
  <2>1. /\ d \in Seq(Tokens) /\ d \o n \in Seq(Tokens) /\ Len(d \o n) = Len(b \o n) - k
        /\ \A i \in 1 .. Len(d \o n) : (d \o n)[i] = (b \o n)[i + k]
    BY <1>2, DroppedOfStream
  <2> QED BY <1>3, <2>1
<1>6. w[1].op # "seq" BY <1>4, OpcodeFacts
<1>7. Framed(w, p) /\ InStep(w, s, c) /\ NothingBehind(w) OBVIOUS
<1> HIDE DEF w, v
<1>8. Len(w) \in Nat /\ Len(v) \in Nat /\ DOMAIN w = 1 .. Len(w) /\ DOMAIN v = 1 .. Len(v)
  BY <1>4, <1>5
<1>9. ASSUME NEW i \in DOMAIN v PROVE \E j \in DOMAIN w : v[i] = w[j]
  <2>1. i + k \in DOMAIN w BY <1>2, <1>5, <1>8
  <2> QED BY <1>5, <1>8, <2>1
<1>10. Len(v) < Len(w) BY <1>2, <1>5, <1>8
<1>11. CASE ~Sequenced(p, b[1].op)
  <2>1. k = 1 BY <1>11 DEF k
  <2>2. Framed(v, p) /\ InStep(v, s, c) /\ NothingBehind(v)
    BY <1>4, <1>5, <1>6, <1>7, <1>11, <2>1, PlainTaken
  <2>3. b[1].op \notin Awaited BY <1>11, OpcodeFacts
  <2>4. Advanced(p, b, s) = s BY <1>11 DEF Advanced
  <2> QED BY <1>4, <1>5, <1>9, <1>10, <2>2, <2>3, <2>4 DEF w, v
<1>12. CASE Sequenced(p, b[1].op)
  <2>1. k = 2 BY <1>12 DEF k
  <2>2. /\ Framed(v, p) /\ InStep(v, Following(s), c) /\ NothingBehind(v)
        /\ w[1].op \in Awaited => \A i \in DOMAIN v : v[i].op \in Unsequenced
    BY <1>4, <1>5, <1>6, <1>7, <1>12, <2>1, RequestTaken
  <2>3. Advanced(p, b, s) = Following(s) BY <1>12 DEF Advanced
  <2> QED BY <1>4, <1>5, <1>9, <1>10, <2>2, <2>3 DEF w, v
<1> QED BY <1>11, <1>12

\* The stream is cut elsewhere, or everything on its way gets older.
LEMMA SoundSame ==
    ASSUME NEW w \in Seq(Tokens), NEW v \in Seq(Tokens), Len(v) = Len(w),
           \A i \in 1 .. Len(w) : v[i].op = w[i].op /\ (w[i].op = "seq" => v[i].x = w[i].x),
           NEW q \in Seq(Packets), NEW r \in Seq(Packets), Len(r) = Len(q),
           \A i \in 1 .. Len(q) :
              r[i].op = q[i].op /\ (q[i].op = "SetClientPhase" => r[i].x = q[i].x),
           NEW p, NEW at, NEW s, NEW c, NEW cp, NEW wt, NEW k,
           Sound(w, q, p, at, s, c, cp, wt, k)
    PROVE  Sound(v, r, p, at, s, c, cp, wt, k)
<1>1. /\ DOMAIN v = 1 .. Len(w) /\ DOMAIN w = 1 .. Len(w) /\ Len(w) \in Nat
      /\ DOMAIN r = 1 .. Len(q) /\ DOMAIN q = 1 .. Len(q) /\ Len(q) \in Nat
      /\ (v = <<>> <=> w = <<>>) /\ (r = <<>> <=> q = <<>>)
      /\ q # <<>> => 1 \in 1 .. Len(q)
  OBVIOUS
<1>2. Framed(v, p) /\ InStep(v, s, c) /\ NothingBehind(v) BY SamePackets DEF Sound
<1>3. \A op : Unread(r, op) = Unread(q, op) BY <1>1 DEF Unread
<1>4. \A i \in Unread(q, "SetClientPhase") : r[i].x = q[i].x BY <1>1 DEF Unread
<1>5. PhaseIsTold(r, p, at, cp) BY <1>3, <1>4 DEF Sound, PhaseIsTold
<1>6. RequestIsAwaited(v, r, wt) BY <1>1, <1>3 DEF Sound, RequestIsAwaited
<1>7. ASSUME p = "Handshake" PROVE HandshakeAlternates(v, r, at, cp, s, k)
  <2>1. HandshakeAlternates(w, q, at, cp, s, k) BY <1>7 DEF Sound
  <2> QED BY <1>1, <1>3, <2>1 DEF HandshakeAlternates
<1>8. ASSUME p # "Handshake" PROVE HandshakeIsOver(v, r, cp)
  <2>1. HandshakeIsOver(w, q, cp) BY <1>8 DEF Sound
  <2> QED BY <1>1, <2>1 DEF HandshakeIsOver
<1> QED BY <1>2, <1>5, <1>6, <1>7, <1>8 DEF Sound

\* More packets for the client that do not change the phase.
LEMMA InboxGrows ==
    ASSUME NEW q \in Seq(Packets), NEW send \in Seq(Packets),
           \A i \in DOMAIN send : send[i].op # "SetClientPhase"
    PROVE  /\ q \o send \in Seq(Packets)
           /\ Unread(q \o send, "SetClientPhase") = Unread(q, "SetClientPhase")
           /\ \A i \in Unread(q, "SetClientPhase") : (q \o send)[i] = q[i]
           /\ q # <<>> => q \o send # <<>> /\ (q \o send)[1] = q[1]
<1> DEFINE r == q \o send
<1>1. /\ r \in Seq(Packets) /\ Len(r) = Len(q) + Len(send) /\ Len(q) \in Nat /\ Len(send) \in Nat
      /\ DOMAIN q = 1 .. Len(q) /\ DOMAIN r = 1 .. Len(q) + Len(send)
      /\ DOMAIN send = 1 .. Len(send)
      /\ \A i \in 1 .. Len(q) : r[i] = q[i]
      /\ \A i \in Len(q) + 1 .. Len(q) + Len(send) : r[i] = send[i - Len(q)]
      /\ q # <<>> => Len(q) >= 1
  OBVIOUS
<1> HIDE DEF r
<1>2. ASSUME NEW i \in Unread(r, "SetClientPhase") PROVE i \in Unread(q, "SetClientPhase")
  <2>1. i \in DOMAIN r /\ r[i].op = "SetClientPhase" BY DEF Unread
  <2>2. CASE i \in 1 .. Len(q) BY <1>1, <2>1, <2>2 DEF Unread
  <2>3. CASE i \in Len(q) + 1 .. Len(q) + Len(send)
    <3>1. i - Len(q) \in DOMAIN send BY <1>1, <2>3
    <3> QED BY <1>1, <2>1, <2>3, <3>1
  <2> QED BY <1>1, <2>1, <2>2, <2>3
<1>3. \A i \in Unread(q, "SetClientPhase") : i \in Unread(r, "SetClientPhase") /\ r[i] = q[i]
  BY <1>1 DEF Unread
<1>4. q # <<>> => r # <<>> /\ r[1] = q[1] BY <1>1
<1> QED BY <1>1, <1>2, <1>3, <1>4 DEF r

\* The server takes a packet and stays in a phase past the handshake.
LEMMA SoundStays ==
    ASSUME NEW b \in Seq(Tokens), NEW n \in Seq(Tokens), NEW p \in Phases, p # "Handshake",
           NEW q \in Seq(Packets), NEW send \in Seq(Packets),
           \A i \in DOMAIN send : send[i].op # "SetClientPhase",
           NEW at, NEW s, NEW c, NEW cp, NEW wt, NEW k,
           Sound(b \o n, q, p, at, s, c, cp, wt, k),
           b # <<>>, b[1].op \in Opcodes(p), Sequenced(p, b[1].op) => Len(b) >= 2
    PROVE  /\ Rest(p, b) \in Seq(Tokens)
           /\ Sound(Rest(p, b) \o n, q \o send, p, at, Advanced(p, b, s), c, cp, wt, k)
<1> DEFINE rest == Rest(p, b)
           w == b \o n
           v == rest \o n
           t == Advanced(p, b, s)
           r == q \o send
<1>1. Framed(w, p) /\ InStep(w, s, c) /\ NothingBehind(w) BY DEF Sound
<1>2. /\ rest \in Seq(Tokens) /\ Framed(v, p) /\ NothingBehind(v) /\ InStep(v, t, c)
      /\ \A i \in DOMAIN v : \E j \in DOMAIN w : v[i] = w[j]
  BY <1>1, HeadTaken
<1>3. /\ Unread(r, "SetClientPhase") = Unread(q, "SetClientPhase")
      /\ \A i \in Unread(q, "SetClientPhase") : r[i] = q[i]
      /\ q # <<>> => r # <<>> /\ r[1] = q[1]
  BY InboxGrows
<1>4. PhaseIsTold(q, p, at, cp) /\ RequestIsAwaited(w, q, wt) /\ HandshakeIsOver(w, q, cp)
  BY DEF Sound
<1> HIDE DEF rest, w, v, t, r
<1>5. PhaseIsTold(r, p, at, cp) BY <1>3, <1>4 DEF PhaseIsTold
<1>6. RequestIsAwaited(v, r, wt) BY <1>2, <1>3, <1>4 DEF RequestIsAwaited
<1>7. HandshakeIsOver(v, r, cp) BY <1>2, <1>3, <1>4 DEF HandshakeIsOver
<1>8. Sound(v, r, p, at, t, c, cp, wt, k) BY <1>2, <1>5, <1>6, <1>7 DEF Sound
<1> QED BY <1>2, <1>8 DEF rest, v, t, r

\* A change of phase is announced behind what is unread.
LEMMA PhaseAnnounced ==
    ASSUME NEW q \in Seq(Packets), NEW p \in Phases, NEW cp,
           Unread(q, "SetClientPhase") = {}, p # "Handshake"
    PROVE  /\ Append(q, SetClientPhase(p)) \in Seq(Packets)
           /\ PhaseIsTold(Append(q, SetClientPhase(p)), p, "enter", cp)
           /\ q # <<>> => Append(q, SetClientPhase(p))[1] = q[1]
           /\ q = <<>> => Append(q, SetClientPhase(p))[1].op = "SetClientPhase"
           /\ Append(q, SetClientPhase(p)) # <<>>
<1> DEFINE m == SetClientPhase(p)
           r == Append(q, m)
<1>1. m.op = "SetClientPhase" /\ m.x = p /\ m \in Packets BY DEF SetClientPhase, Packets
<1> HIDE DEF m
<1>2. /\ r \in Seq(Packets) /\ Len(q) \in Nat /\ DOMAIN r = 1 .. Len(q) + 1
      /\ DOMAIN q = 1 .. Len(q) /\ r[Len(q) + 1] = m /\ \A i \in 1 .. Len(q) : r[i] = q[i]
      /\ r # <<>> /\ (q # <<>> => 1 \in 1 .. Len(q)) /\ (q = <<>> => Len(q) = 0)
  <2>1. r \in Seq(Packets) /\ Len(r) = Len(q) + 1 /\ Len(q) \in Nat
        /\ r[Len(q) + 1] = m /\ \A i \in 1 .. Len(q) : r[i] = q[i]
    BY <1>1
  <2> HIDE DEF r
  <2>2. DOMAIN r = 1 .. Len(q) + 1 /\ DOMAIN q = 1 .. Len(q) BY <2>1
  <2>3. r # <<>> BY <2>1
  <2>4. (q # <<>> => 1 \in 1 .. Len(q)) /\ (q = <<>> => Len(q) = 0) OBVIOUS
  <2> QED BY <2>1, <2>2, <2>3, <2>4
<1> HIDE DEF r
<1>3. Unread(r, "SetClientPhase") = {Len(q) + 1}
  <2>1. \A i \in 1 .. Len(q) : r[i].op # "SetClientPhase" BY <1>2 DEF Unread
  <2> QED BY <1>1, <1>2, <2>1 DEF Unread
<1>4. PhaseIsTold(r, p, "enter", cp) BY <1>1, <1>2, <1>3 DEF PhaseIsTold
<1> QED BY <1>1, <1>2, <1>4 DEF r, m

\* The server takes an awaited request and moves on: nothing of the old phase
\* is left in the stream.
LEMMA SoundMoves ==
    ASSUME NEW b \in Seq(Tokens), NEW n \in Seq(Tokens), NEW p \in Phases, p # "Handshake",
           NEW q \in Seq(Packets), NEW next \in Phases, next # "Handshake",
           NEW at, NEW s, NEW c, NEW cp, NEW wt, NEW k,
           Sound(b \o n, q, p, at, s, c, cp, wt, k),
           b # <<>>, b[1].op \in Opcodes(p), Sequenced(p, b[1].op) => Len(b) >= 2,
           b[1].op \in Awaited
    PROVE  /\ Rest(p, b) \in Seq(Tokens)
           /\ Sound(Rest(p, b) \o n, Append(q, SetClientPhase(next)), next, "enter",
                    Advanced(p, b, s), c, cp, wt, k)
<1> DEFINE rest == Rest(p, b)
           t == Advanced(p, b, s)
           w == b \o n
           v == rest \o n
           r == Append(q, SetClientPhase(next))
<1>1. Framed(w, p) /\ InStep(w, s, c) /\ NothingBehind(w) BY DEF Sound
<1>2. /\ rest \in Seq(Tokens) /\ v \in Seq(Tokens) /\ InStep(v, t, c)
      /\ \A i \in DOMAIN v : v[i].op \in Unsequenced
      /\ \A i \in DOMAIN v : \E j \in DOMAIN w : v[i] = w[j]
      /\ 1 \in DOMAIN w /\ w[1] = b[1]
  BY <1>1, HeadTaken
<1>3. RequestIsAwaited(w, q, wt) /\ HandshakeIsOver(w, q, cp) BY DEF Sound
<1> HIDE DEF rest, t, w, v
<1>4. Unread(q, "SetClientPhase") = {} BY <1>2, <1>3 DEF RequestIsAwaited
<1>5. /\ PhaseIsTold(r, next, "enter", cp) /\ r # <<>>
      /\ (q # <<>> => r[1] = q[1]) /\ (q = <<>> => r[1].op = "SetClientPhase")
  BY <1>4, PhaseAnnounced
<1> HIDE DEF r
<1>6. Framed(v, next)
  <2> SUFFICES ASSUME NEW i \in DOMAIN v
               PROVE  /\ v[i].op # "seq" /\ v[i].op \in Opcodes(next)
                      /\ ~Sequenced(next, v[i].op)
    BY DEF Framed
  <2>1. v[i].op \in Unsequenced BY <1>2
  <2>2. v[i].op \in Opcodes(next) BY <2>1, OpcodeFacts
  <2>3. ~Sequenced(next, v[i].op) BY <2>1 DEF Sequenced
  <2> QED BY <2>2, <2>3, OpcodeFacts
<1>7. NothingBehind(v) BY <1>2 DEF NothingBehind
<1>8. RequestIsAwaited(v, r, wt) BY <1>2, OpcodeFacts DEF RequestIsAwaited
<1>9. HandshakeIsOver(v, r, cp) BY <1>2, <1>3, <1>5 DEF HandshakeIsOver
<1>10. Sound(v, r, next, "enter", t, c, cp, wt, k)
  BY <1>2, <1>5, <1>6, <1>7, <1>8, <1>9 DEF Sound
<1> QED BY <1>2, <1>10 DEF rest, t, v, r

\* The server takes the client's answer during the handshake: the stream and
\* the inbox are empty then, whether it asks again or moves on.
LEMMA SoundAnswered ==
    ASSUME NEW b \in Seq(Tokens), NEW n \in Seq(Tokens), NEW q \in Seq(Packets),
           NEW at, NEW s, NEW c, NEW cp, NEW wt, NEW k,
           Sound(b \o n, q, "Handshake", at, s, c, cp, wt, k),
           b # <<>>, b[1].op = "HandshakeResponse"
    PROVE  /\ Rest("Handshake", b) \in Seq(Tokens) /\ q = <<>> /\ s = 0 /\ cp = "Handshake" /\ at # "enter"
           /\ Sound(Rest("Handshake", b) \o n, <<SetClientPhase("Login")>>, "Login", "enter", s, c, cp, wt, k)
           /\ \A sync \in Packets : sync.op = "RequestHandshake" =>
                 Sound(Rest("Handshake", b) \o n, <<sync>>, "Handshake", at, s, c, cp, wt, k)
<1> DEFINE rest == Rest("Handshake", b)
           w == b \o n
           v == rest \o n
<1>1. Framed(w, "Handshake") /\ InStep(w, s, c) /\ NothingBehind(w)
      /\ HandshakeAlternates(w, q, at, cp, s, k) /\ PhaseIsTold(q, "Handshake", at, cp)
  BY DEF Sound
<1>2. "Handshake" \in Phases /\ "Login" \in Phases BY DEF Phases
<1>3. b[1].op \in Opcodes("Handshake") /\ ~Sequenced("Handshake", b[1].op)
  BY <1>2, OpcodeFacts DEF Control
<1>4. /\ rest \in Seq(Tokens) /\ v \in Seq(Tokens) /\ InStep(v, s, c)
      /\ Len(v) < Len(w) /\ 1 \in DOMAIN w /\ w[1] = b[1]
  <2>1. Advanced("Handshake", b, s) = s BY <1>3 DEF Advanced
  <2> QED BY <1>1, <1>2, <1>3, <2>1, HeadTaken
<1>5. w \in Seq(Tokens) BY JoinFacts
<1> HIDE DEF rest, w, v
<1>6. k # "lister" /\ Len(w) <= 1 /\ w # <<>> /\ q = <<>> /\ s = 0 /\ at # "enter"
  <2>1. w # <<>> BY <1>4, <1>5
  <2>2. k # "lister" BY <1>1, <1>4 DEF HandshakeAlternates
  <2> QED BY <1>1, <2>1, <2>2 DEF HandshakeAlternates
<1>7. v = <<>> /\ DOMAIN v = {} BY <1>4, <1>5, <1>6
<1>8. \A op : Unread(<<>>, op) = {} BY DEF Unread
<1>9. cp = "Handshake" BY <1>1, <1>6, <1>8 DEF PhaseIsTold
<1>10. \A p : Framed(v, p) /\ NothingBehind(v) BY <1>7 DEF Framed, NothingBehind
<1>11. \A r : RequestIsAwaited(v, r, wt) BY <1>7 DEF RequestIsAwaited
<1>12. Sound(v, <<SetClientPhase("Login")>>, "Login", "enter", s, c, cp, wt, k)
  <2> DEFINE m == SetClientPhase("Login")
             r == <<m>>
  <2>1. m.op = "SetClientPhase" /\ m.x = "Login" BY DEF SetClientPhase
  <2> HIDE DEF m
  <2>2. DOMAIN r = {1} /\ r[1] = m /\ r # <<>> OBVIOUS
  <2> HIDE DEF r
  <2>3. Unread(r, "SetClientPhase") = {1} BY <2>1, <2>2 DEF Unread
  <2>4. PhaseIsTold(r, "Login", "enter", cp) /\ r # <<>> /\ r[1].op = "SetClientPhase"
    BY <2>1, <2>2, <2>3 DEF PhaseIsTold
  <2>5. HandshakeIsOver(v, r, cp) BY <1>7, <2>4 DEF HandshakeIsOver
  <2>6. Sound(v, r, "Login", "enter", s, c, cp, wt, k)
    BY <1>4, <1>10, <1>11, <2>4, <2>5 DEF Sound
  <2> QED BY <2>6 DEF r, m
<1>13. ASSUME NEW sync \in Packets, sync.op = "RequestHandshake"
       PROVE  Sound(v, <<sync>>, "Handshake", at, s, c, cp, wt, k)
  <2> DEFINE r == <<sync>>
  <2>1. DOMAIN r = {1} /\ r[1] = sync /\ Len(r) = 1 OBVIOUS
  <2> HIDE DEF r
  <2>2. Unread(r, "SetClientPhase") = {} /\ Unread(r, "RequestHeartbeat") = {}
        /\ \A i \in Unread(r, "RequestHandshake") : i = Len(r)
    BY <1>13, <2>1 DEF Unread
  <2>3. PhaseIsTold(r, "Handshake", at, cp) BY <1>9, <2>2 DEF PhaseIsTold
  <2>4. HandshakeAlternates(v, r, at, cp, s, k)
    BY <1>6, <1>7, <2>2 DEF HandshakeAlternates
  <2>5. Sound(v, r, "Handshake", at, s, c, cp, wt, k)
    BY <1>4, <1>10, <1>11, <2>3, <2>4 DEF Sound
  <2> QED BY <2>5 DEF r
<1> QED BY <1>4, <1>6, <1>9, <1>12, <1>13 DEF rest, v

\* The channel list is asked for during the handshake.
LEMMA SoundListed ==
    ASSUME NEW b \in Seq(Tokens), NEW n \in Seq(Tokens), NEW q \in Seq(Packets),
           NEW at, NEW s, NEW c, NEW cp, NEW wt, NEW k,
           Sound(b \o n, q, "Handshake", at, s, c, cp, wt, k),
           b # <<>>, b[1].op = "FetchChannelList"
    PROVE  Rest("Handshake", b) \in Seq(Tokens) /\ Sound(Rest("Handshake", b) \o n, q, "Handshake", at, s, c, cp, wt, k)
<1> DEFINE rest == Rest("Handshake", b)
           w == b \o n
           v == rest \o n
<1>1. Framed(w, "Handshake") /\ InStep(w, s, c) /\ NothingBehind(w)
      /\ HandshakeAlternates(w, q, at, cp, s, k) /\ PhaseIsTold(q, "Handshake", at, cp)
      /\ RequestIsAwaited(w, q, wt)
  BY DEF Sound
<1>2. "Handshake" \in Phases /\ b[1].op \in Opcodes("Handshake")
      /\ ~Sequenced("Handshake", b[1].op)
  BY OpcodeFacts DEF Phases, Opcodes
<1>3. /\ rest \in Seq(Tokens) /\ v \in Seq(Tokens) /\ Framed(v, "Handshake")
      /\ NothingBehind(v) /\ InStep(v, s, c)
      /\ \A i \in DOMAIN v : \E j \in DOMAIN w : v[i] = w[j]
      /\ 1 \in DOMAIN w /\ w[1] = b[1]
  <2>1. Advanced("Handshake", b, s) = s BY <1>2 DEF Advanced
  <2> QED BY <1>1, <1>2, <2>1, HeadTaken
<1>4. w # <<>>
  <2>1. w \in Seq(Tokens) BY JoinFacts
  <2> QED BY <1>3, <2>1
<1> HIDE DEF rest, w, v
<1>5. k = "lister" BY <1>1, <1>3 DEF HandshakeAlternates
<1>6. RequestIsAwaited(v, q, wt) BY <1>1, <1>3 DEF RequestIsAwaited
<1>7. HandshakeAlternates(v, q, at, cp, s, k) BY <1>1, <1>3, <1>4, <1>5 DEF HandshakeAlternates
<1>8. Sound(v, q, "Handshake", at, s, c, cp, wt, k) BY <1>1, <1>3, <1>6, <1>7 DEF Sound
<1> QED BY <1>3, <1>8 DEF rest, v

\* A phase past the handshake is entered.
LEMMA SoundEnters ==
    ASSUME NEW w, NEW q \in Seq(Packets), NEW send \in Seq(Packets),
           \A i \in DOMAIN send : send[i].op # "SetClientPhase",
           NEW p, p # "Handshake", NEW at, NEW s, NEW c, NEW cp, NEW wt, NEW k,
           Sound(w, q, p, at, s, c, cp, wt, k)
    PROVE  Sound(w, q \o send, p, "loop", s, c, cp, wt, k)
<1> DEFINE r == q \o send
<1>1. /\ Unread(r, "SetClientPhase") = Unread(q, "SetClientPhase")
      /\ \A i \in Unread(q, "SetClientPhase") : r[i] = q[i]
      /\ q # <<>> => r # <<>> /\ r[1] = q[1]
  BY InboxGrows
<1>2. PhaseIsTold(q, p, at, cp) /\ RequestIsAwaited(w, q, wt) /\ HandshakeIsOver(w, q, cp)
      /\ Framed(w, p) /\ InStep(w, s, c) /\ NothingBehind(w)
  BY DEF Sound
<1> HIDE DEF r
<1>3. PhaseIsTold(r, p, "loop", cp) BY <1>1, <1>2 DEF PhaseIsTold
<1>4. RequestIsAwaited(w, r, wt) BY <1>1, <1>2 DEF RequestIsAwaited
<1>5. HandshakeIsOver(w, r, cp) BY <1>1, <1>2 DEF HandshakeIsOver
<1>6. Sound(w, r, p, "loop", s, c, cp, wt, k) BY <1>2, <1>3, <1>4, <1>5 DEF Sound
<1> QED BY <1>6 DEF r

\* The handshake begins.
LEMMA SoundBegins ==
    ASSUME NEW w, NEW q, NEW sync \in Packets, sync.op = "RequestHandshake",
           NEW s, NEW c, NEW cp, NEW wt, NEW k,
           Sound(w, q, "Handshake", "enter", s, c, cp, wt, k)
    PROVE  /\ q = <<>>
           /\ Sound(w, <<SetClientPhase("Handshake"), sync>>, "Handshake", "loop", s, c, cp, wt, k)
<1> DEFINE m == SetClientPhase("Handshake")
           r == <<m, sync>>
<1>1. m.op = "SetClientPhase" /\ m.x = "Handshake" BY DEF SetClientPhase
<1> HIDE DEF m
<1>2. DOMAIN r = {1, 2} /\ r[1] = m /\ r[2] = sync /\ Len(r) = 2 OBVIOUS
<1> HIDE DEF r
<1>3. Unread(r, "SetClientPhase") = {1} /\ Unread(r, "RequestHeartbeat") = {}
      /\ Unread(r, "RequestHandshake") = {2}
  BY <1>1, <1>2 DEF Unread
<1>4. HandshakeAlternates(w, q, "enter", cp, s, k)
      /\ Framed(w, "Handshake") /\ InStep(w, s, c) /\ NothingBehind(w)
  BY DEF Sound
<1>5. w = <<>> /\ q = <<>> BY <1>4 DEF HandshakeAlternates
<1>6. PhaseIsTold(r, "Handshake", "loop", cp) BY <1>1, <1>2, <1>3 DEF PhaseIsTold
<1>7. RequestIsAwaited(w, r, wt) BY <1>5 DEF RequestIsAwaited
<1>8. HandshakeAlternates(w, r, "loop", cp, s, k)
  BY <1>2, <1>3, <1>4, <1>5 DEF HandshakeAlternates
<1>9. Sound(w, r, "Handshake", "loop", s, c, cp, wt, k)
  BY <1>4, <1>6, <1>7, <1>8 DEF Sound
<1> QED BY <1>5, <1>9 DEF r, m

\* One or two tokens at the end of the network are at the end of the stream.
LEMMA SentFacts ==
    ASSUME NEW b \in Seq(Tokens), NEW n \in Seq(Tokens), NEW t \in Tokens, NEW u \in Tokens
    PROVE  /\ n \o <<t>> \in Seq(Tokens) /\ b \o (n \o <<t>>) \in Seq(Tokens)
           /\ Len(b \o (n \o <<t>>)) = Len(b \o n) + 1
           /\ (b \o (n \o <<t>>))[Len(b \o n) + 1] = t
           /\ \A i \in 1 .. Len(b \o n) : (b \o (n \o <<t>>))[i] = (b \o n)[i]
           /\ n \o <<t, u>> \in Seq(Tokens) /\ b \o (n \o <<t, u>>) \in Seq(Tokens)
           /\ Len(b \o (n \o <<t, u>>)) = Len(b \o n) + 2
           /\ (b \o (n \o <<t, u>>))[Len(b \o n) + 1] = t
           /\ (b \o (n \o <<t, u>>))[Len(b \o n) + 2] = u
           /\ \A i \in 1 .. Len(b \o n) : (b \o (n \o <<t, u>>))[i] = (b \o n)[i]
<1>1. ASSUME NEW e \in Seq(Tokens)
      PROVE  /\ n \o e \in Seq(Tokens) /\ b \o (n \o e) \in Seq(Tokens)
             /\ Len(b \o (n \o e)) = Len(b \o n) + Len(e)
             /\ \A i \in 1 .. Len(e) : (b \o (n \o e))[Len(b \o n) + i] = e[i]
             /\ \A i \in 1 .. Len(b \o n) : (b \o (n \o e))[i] = (b \o n)[i]
  <2> DEFINE w == b \o n
             v == w \o e
  <2>1. w \in Seq(Tokens) BY JoinFacts
  <2>2. b \o (n \o e) = v BY ConcatAssociative
  <2>3. n \o e \in Seq(Tokens) BY JoinFacts
  <2> HIDE DEF w
  <2>4. /\ v \in Seq(Tokens) /\ Len(v) = Len(w) + Len(e)
        /\ \A i \in 1 .. Len(w) : v[i] = w[i]
        /\ \A i \in 1 .. Len(e) : v[Len(w) + i] = e[i]
    BY <2>1, JoinFacts
  <2> QED BY <2>2, <2>3, <2>4 DEF w
<1>2. <<t>> \in Seq(Tokens) /\ Len(<<t>>) = 1 /\ <<t>>[1] = t /\ 1 \in 1 .. 1 OBVIOUS
<1>3. <<t, u>> \in Seq(Tokens) /\ Len(<<t, u>>) = 2 /\ <<t, u>>[1] = t /\ <<t, u>>[2] = u
      /\ 1 \in 1 .. 2 /\ 2 \in 1 .. 2
  OBVIOUS
<1>4. /\ n \o <<t>> \in Seq(Tokens) /\ b \o (n \o <<t>>) \in Seq(Tokens)
      /\ Len(b \o (n \o <<t>>)) = Len(b \o n) + 1
      /\ (b \o (n \o <<t>>))[Len(b \o n) + 1] = t
      /\ \A i \in 1 .. Len(b \o n) : (b \o (n \o <<t>>))[i] = (b \o n)[i]
  BY <1>1, <1>2
<1>5. /\ n \o <<t, u>> \in Seq(Tokens) /\ b \o (n \o <<t, u>>) \in Seq(Tokens)
      /\ Len(b \o (n \o <<t, u>>)) = Len(b \o n) + 2
      /\ (b \o (n \o <<t, u>>))[Len(b \o n) + 1] = t
      /\ (b \o (n \o <<t, u>>))[Len(b \o n) + 2] = u
      /\ \A i \in 1 .. Len(b \o n) : (b \o (n \o <<t, u>>))[i] = (b \o n)[i]
  BY <1>1, <1>3
<1> QED BY <1>4, <1>5

\* The client has read everything and requests something past the handshake.
LEMMA SoundRequests ==
    ASSUME NEW w \in Seq(Tokens), NEW t \in Tokens, NEW u \in Tokens, NEW v \in Seq(Tokens),
           Len(v) = Len(w) + 2, v[Len(w) + 1] = t, v[Len(w) + 2] = u,
           \A i \in 1 .. Len(w) : v[i] = w[i],
           NEW p \in Phases, p # "Handshake", NEW at, NEW s, NEW c, NEW cp, NEW wt, NEW k,
           Sound(w, <<>>, p, at, s, c, cp, wt, k), NoRequest(w),
           t.op \in Opcodes(p) \ Unsequenced, u.op = "seq", u.x = c
    PROVE  /\ Sound(v, <<>>, p, at, s, Following(c), cp, TRUE, k)
           /\ t.op \notin Awaited => Sound(v, <<>>, p, at, s, Following(c), cp, FALSE, k)
<1>1. Framed(w, p) /\ InStep(w, s, c) /\ NothingBehind(w) /\ PhaseIsTold(<<>>, p, at, cp)
      /\ RequestIsAwaited(w, <<>>, wt) /\ HandshakeIsOver(w, <<>>, cp)
  BY DEF Sound
<1>3. t.op \in Opcodes(p) /\ t.op # "seq" /\ Sequenced(p, t.op) BY OpcodeFacts DEF Sequenced
<1>4. Framed(v, p) /\ InStep(v, s, Following(c)) /\ NothingBehind(v)
  BY <1>1, <1>3, RequestSent
<1>5. DOMAIN v = 1 .. Len(w) + 2 /\ DOMAIN w = 1 .. Len(w) /\ Len(w) \in Nat OBVIOUS
<1>6. RequestIsAwaited(v, <<>>, TRUE) /\ (t.op \notin Awaited => RequestIsAwaited(v, <<>>, FALSE))
  <2>1. \A i \in DOMAIN v : v[i].op \in Awaited => i = Len(w) + 1
    BY <1>5, OpcodeFacts DEF NoRequest
  <2>2. Unread(<<>>, "SetClientPhase") = {} BY DEF Unread
  <2> QED BY <2>1, <2>2 DEF RequestIsAwaited
<1>7. HandshakeIsOver(v, <<>>, cp)
  <2>1. t.op # "HandshakeResponse" BY DEF Unsequenced
  <2> QED BY <1>1, <1>5, <2>1 DEF HandshakeIsOver
<1> QED BY <1>1, <1>4, <1>6, <1>7 DEF Sound

\* A client that only asks for the channel list asks again.
LEMMA SoundAsksForList ==
    ASSUME NEW w \in Seq(Tokens), NEW t \in Tokens, NEW v \in Seq(Tokens),
           Len(v) = Len(w) + 1, v[Len(w) + 1] = t, \A i \in 1 .. Len(w) : v[i] = w[i],
           NEW at, at # "enter", NEW s, NEW c, NEW cp, NEW wt, NEW new,
           Sound(w, <<>>, "Handshake", at, s, c, cp, wt, "lister"), t.op = "FetchChannelList"
    PROVE  Sound(v, <<>>, "Handshake", at, s, c, cp, new, "lister")
<1>1. Framed(w, "Handshake") /\ InStep(w, s, c) /\ NothingBehind(w)
      /\ PhaseIsTold(<<>>, "Handshake", at, cp)
      /\ HandshakeAlternates(w, <<>>, at, cp, s, "lister")
  BY DEF Sound
<1>2. /\ t.op # "seq" /\ t.op \in Opcodes("Handshake") /\ ~Sequenced("Handshake", t.op)
      /\ "FetchChannelList" \notin Awaited
  BY OpcodeFacts DEF Opcodes, Awaited
<1>3. \A i \in DOMAIN w : w[i].op = "FetchChannelList" BY <1>1 DEF HandshakeAlternates
<1>4. Framed(v, "Handshake") /\ InStep(v, s, c) /\ NothingBehind(v)
  BY <1>1, <1>2, <1>3, PlainSent
<1>5. \A i \in DOMAIN v : v[i].op = "FetchChannelList"
  <2>1. DOMAIN v = 1 .. Len(w) + 1 /\ DOMAIN w = 1 .. Len(w) /\ Len(w) \in Nat OBVIOUS
  <2> QED BY <1>3, <2>1
<1>6. RequestIsAwaited(v, <<>>, new) BY <1>2, <1>5 DEF RequestIsAwaited
<1>7. HandshakeAlternates(v, <<>>, at, cp, s, "lister") BY <1>1, <1>5 DEF HandshakeAlternates
<1> QED BY <1>1, <1>4, <1>6, <1>7 DEF Sound

\* What is left unread when the first packet has been read.
LEMMA TailUnread ==
    ASSUME NEW q \in Seq(Packets), q # <<>>
    PROVE  /\ Tail(q) \in Seq(Packets) /\ Len(Tail(q)) = Len(q) - 1 /\ Len(q) \in Nat
           /\ Head(q) = q[1] /\ Head(q) \in Packets /\ 1 \in DOMAIN q
           /\ \A op : \A i \in Unread(Tail(q), op) :
                 i \in Nat /\ i + 1 \in Unread(q, op) /\ Tail(q)[i] = q[i + 1] /\ i + 1 # 1
           /\ \A op : \A i \in Unread(q, op) : i # 1 => i - 1 \in Unread(Tail(q), op)
<1> DEFINE r == Tail(q)
<1>1. /\ r \in Seq(Packets) /\ Len(r) = Len(q) - 1 /\ Len(q) \in Nat /\ Len(q) >= 1
      /\ \A i \in 1 .. Len(r) : r[i] = q[i + 1]
      /\ DOMAIN q = 1 .. Len(q) /\ Head(q) = q[1] /\ Head(q) \in Packets
  BY HeadTailProperties
<1>2. DOMAIN r = 1 .. Len(r) /\ Len(r) \in Nat BY <1>1
<1> HIDE DEF r
<1>3. ASSUME NEW op, NEW i \in Unread(r, op)
      PROVE  i \in Nat /\ i + 1 \in Unread(q, op) /\ r[i] = q[i + 1] /\ i + 1 # 1
  BY <1>1, <1>2 DEF Unread
<1>4. ASSUME NEW op, NEW i \in Unread(q, op), i # 1 PROVE i - 1 \in Unread(r, op)
  <2>1. i \in 1 .. Len(q) /\ q[i].op = op BY <1>1 DEF Unread
  <2>2. i - 1 \in 1 .. Len(r) /\ (i - 1) + 1 = i BY <1>1, <1>4, <2>1
  <2> QED BY <1>1, <1>2, <2>1, <2>2 DEF Unread
<1>5. 1 \in DOMAIN q BY <1>1
<1>6. \A op : \A i \in Unread(r, op) :
         i \in Nat /\ i + 1 \in Unread(q, op) /\ r[i] = q[i + 1] /\ i + 1 # 1
  BY <1>3
<1>7. \A op : \A i \in Unread(q, op) : i # 1 => i - 1 \in Unread(r, op) BY <1>4
<1> QED BY <1>1, <1>5, <1>6, <1>7 DEF r

\* The client learns of the phase.
LEMMA SoundReadsPhase ==
    ASSUME NEW w \in Seq(Tokens), NEW q \in Seq(Packets), q # <<>>,
           q[1].op = "SetClientPhase",
           NEW p, NEW at, NEW s, NEW c, NEW cp, NEW wt, NEW k,
           Sound(w, q, p, at, s, c, cp, wt, k)
    PROVE  /\ q[1].x = p
           /\ Sound(w, Tail(q), p, at, s, c, p, FALSE, k)
<1> DEFINE r == Tail(q)
<1>1. Framed(w, p) /\ InStep(w, s, c) /\ NothingBehind(w) /\ PhaseIsTold(q, p, at, cp)
      /\ RequestIsAwaited(w, q, wt) /\ (p = "Handshake" => HandshakeAlternates(w, q, at, cp, s, k))
      /\ (p # "Handshake" => HandshakeIsOver(w, q, cp))
  BY DEF Sound
<1>2. /\ Len(r) = Len(q) - 1 /\ Len(q) \in Nat /\ 1 \in DOMAIN q
      /\ \A op : \A i \in Unread(r, op) : i \in Nat /\ i + 1 \in Unread(q, op) /\ i + 1 # 1
  BY TailUnread
<1> HIDE DEF r
<1>3. 1 \in Unread(q, "SetClientPhase") BY <1>2 DEF Unread
<1>4. Unread(r, "SetClientPhase") = {} BY <1>1, <1>2, <1>3 DEF PhaseIsTold
<1>5. q[1].x = p BY <1>1, <1>3 DEF PhaseIsTold
<1>6. PhaseIsTold(r, p, at, p) BY <1>4 DEF PhaseIsTold
<1>7. \A i \in DOMAIN w : w[i].op \notin Awaited BY <1>1, <1>3 DEF RequestIsAwaited
<1>8. RequestIsAwaited(w, r, FALSE) BY <1>7 DEF RequestIsAwaited
<1>9. ASSUME p = "Handshake" PROVE HandshakeAlternates(w, r, at, p, s, k)
  <2>1. HandshakeAlternates(w, q, at, cp, s, k) BY <1>1, <1>9
  <2>2. at # "enter" /\ (k # "lister" => w = <<>>) BY <2>1 DEF HandshakeAlternates
  <2>3. Unread(r, "RequestHeartbeat") = {} BY <1>2, <2>1 DEF HandshakeAlternates
  <2>4. ASSUME k # "lister", NEW i \in Unread(r, "RequestHandshake") PROVE i = Len(r)
    <3>1. i \in Nat /\ i + 1 = Len(q) BY <1>2, <2>1, <2>4 DEF HandshakeAlternates
    <3> QED BY <1>2, <3>1
  <2> QED BY <2>1, <2>2, <2>3, <2>4 DEF HandshakeAlternates
<1>10. ASSUME p # "Handshake" PROVE HandshakeIsOver(w, r, p)
  BY <1>1, <1>10 DEF HandshakeIsOver
<1>11. Sound(w, r, p, at, s, c, p, FALSE, k) BY <1>1, <1>6, <1>8, <1>9, <1>10 DEF Sound
<1> QED BY <1>5, <1>11 DEF r

\* The client reads a packet that does not change the phase.
LEMMA SoundSkips ==
    ASSUME NEW w \in Seq(Tokens), NEW q \in Seq(Packets), q # <<>>,
           q[1].op # "SetClientPhase",
           NEW p, NEW at, NEW s, NEW c, NEW cp, NEW wt, NEW k,
           Sound(w, q, p, at, s, c, cp, wt, k)
    PROVE  Sound(w, Tail(q), p, at, s, c, cp, wt, k)
<1> DEFINE r == Tail(q)
<1>1. Framed(w, p) /\ InStep(w, s, c) /\ NothingBehind(w) /\ PhaseIsTold(q, p, at, cp)
      /\ RequestIsAwaited(w, q, wt) /\ (p = "Handshake" => HandshakeAlternates(w, q, at, cp, s, k))
      /\ (p # "Handshake" => HandshakeIsOver(w, q, cp))
  BY DEF Sound
<1>2. /\ Len(r) = Len(q) - 1 /\ Len(q) \in Nat
      /\ \A op : \A i \in Unread(r, op) :
            i \in Nat /\ i + 1 \in Unread(q, op) /\ r[i] = q[i + 1] /\ i + 1 # 1
      /\ \A op : \A i \in Unread(q, op) : i # 1 => i - 1 \in Unread(r, op)
  BY TailUnread
<1> HIDE DEF r
<1>3. 1 \notin Unread(q, "SetClientPhase") BY DEF Unread
<1>4. Unread(r, "SetClientPhase") = {} => Unread(q, "SetClientPhase") = {} BY <1>2, <1>3
<1>5. Unread(q, "SetClientPhase") = {} => Unread(r, "SetClientPhase") = {} BY <1>2
<1>6. PhaseIsTold(r, p, at, cp)
  <2>1. ASSUME NEW i \in Unread(r, "SetClientPhase"), NEW j \in Unread(r, "SetClientPhase")
        PROVE  i = j
    <3>1. i \in Nat /\ j \in Nat /\ i + 1 = j + 1 BY <1>1, <1>2 DEF PhaseIsTold
    <3> QED BY <3>1
  <2>2. \A i \in Unread(r, "SetClientPhase") : r[i].x = p BY <1>1, <1>2 DEF PhaseIsTold
  <2> QED BY <1>1, <1>4, <2>1, <2>2 DEF PhaseIsTold
<1>7. RequestIsAwaited(w, r, wt) BY <1>1, <1>5 DEF RequestIsAwaited
<1>8. ASSUME p = "Handshake" PROVE HandshakeAlternates(w, r, at, cp, s, k)
  <2>1. HandshakeAlternates(w, q, at, cp, s, k) BY <1>1, <1>8
  <2>2. at # "enter" /\ (k # "lister" => w = <<>>) BY <2>1 DEF HandshakeAlternates
  <2>3. Unread(r, "RequestHeartbeat") = {} BY <1>2, <2>1 DEF HandshakeAlternates
  <2>4. ASSUME k # "lister", NEW i \in Unread(r, "RequestHandshake") PROVE i = Len(r)
    <3>1. i \in Nat /\ i + 1 = Len(q) BY <1>2, <2>1, <2>4 DEF HandshakeAlternates
    <3> QED BY <1>2, <3>1
  <2> QED BY <2>1, <2>2, <2>3, <2>4 DEF HandshakeAlternates
<1>9. ASSUME p # "Handshake" PROVE HandshakeIsOver(w, r, cp)
  BY <1>1, <1>9 DEF HandshakeIsOver
<1>10. Sound(w, r, p, at, s, c, cp, wt, k) BY <1>1, <1>6, <1>7, <1>8, <1>9 DEF Sound
<1> QED BY <1>10 DEF r

\* The client answers a packet it has read, past the handshake.
LEMMA SoundReplies ==
    ASSUME NEW w \in Seq(Tokens), NEW t \in Tokens, NEW v \in Seq(Tokens),
           Len(v) = Len(w) + 1, v[Len(w) + 1] = t, \A i \in 1 .. Len(w) : v[i] = w[i],
           NEW q, NEW p \in Phases, p # "Handshake",
           NEW at, NEW s, NEW c, NEW cp, NEW wt, NEW k,
           Sound(w, q, p, at, s, c, cp, wt, k),
           t.op \in Unsequenced, t.op = "HandshakeResponse" => AnswersAlways
    PROVE  Sound(v, q, p, at, s, c, cp, wt, k)
<1>1. Framed(w, p) /\ InStep(w, s, c) /\ NothingBehind(w) /\ PhaseIsTold(q, p, at, cp)
      /\ RequestIsAwaited(w, q, wt) /\ HandshakeIsOver(w, q, cp)
  BY DEF Sound
<1>2. t.op # "seq" /\ t.op \in Opcodes(p) /\ ~Sequenced(p, t.op) /\ t.op \notin Awaited
  <2>1. t.op \in Opcodes(p) BY OpcodeFacts
  <2>2. ~Sequenced(p, t.op) BY DEF Sequenced
  <2>3. t.op # "seq" /\ t.op \notin Awaited BY DEF Unsequenced, Awaited
  <2> QED BY <2>1, <2>2, <2>3
<1>3. Framed(v, p) /\ InStep(v, s, c) /\ NothingBehind(v) BY <1>1, <1>2, PlainSent
<1>4. DOMAIN v = 1 .. Len(w) + 1 /\ DOMAIN w = 1 .. Len(w) /\ Len(w) \in Nat OBVIOUS
<1>5. RequestIsAwaited(v, q, wt) BY <1>1, <1>2, <1>4 DEF RequestIsAwaited
<1>6. HandshakeIsOver(v, q, cp) BY <1>1, <1>4 DEF HandshakeIsOver
<1> QED BY <1>1, <1>3, <1>5, <1>6 DEF Sound

\* The client answers the handshake.
LEMMA SoundShakesHands ==
    ASSUME NEW w \in Seq(Tokens), NEW t \in Tokens, NEW v \in Seq(Tokens),
           Len(v) = Len(w) + 1, v[Len(w) + 1] = t, \A i \in 1 .. Len(w) : v[i] = w[i],
           NEW q \in Seq(Packets), q # <<>>, q[1].op = "RequestHandshake",
           NEW at, NEW s, NEW c, NEW cp, NEW wt, NEW k, k # "lister",
           Sound(w, q, "Handshake", at, s, c, cp, wt, k), t.op = "HandshakeResponse"
    PROVE  Sound(v, Tail(q), "Handshake", at, s, c, cp, wt, k)
<1> DEFINE r == Tail(q)
<1>1. HandshakeAlternates(w, q, at, cp, s, k) /\ Framed(w, "Handshake") /\ InStep(w, s, c)
      /\ NothingBehind(w)
  BY DEF Sound
<1>2. Sound(w, r, "Handshake", at, s, c, cp, wt, k) BY SoundSkips
<1>3. /\ r \in Seq(Packets) /\ Len(r) = Len(q) - 1 /\ Len(q) \in Nat /\ 1 \in DOMAIN q
  BY TailUnread
<1> HIDE DEF r
<1>4. 1 = Len(q)
  <2>1. 1 \in Unread(q, "RequestHandshake") BY <1>3 DEF Unread
  <2> QED BY <1>1, <2>1 DEF HandshakeAlternates
<1>5. r = <<>> BY <1>3, <1>4
<1>6. w = <<>> /\ at # "enter" BY <1>1 DEF HandshakeAlternates
<1>7. Len(w) = 0 /\ DOMAIN w = {} BY <1>6
<1>8. Len(v) = 1 /\ DOMAIN v = {1} /\ v[1] = t BY <1>7
<1>9. PhaseIsTold(r, "Handshake", at, cp) /\ HandshakeAlternates(w, r, at, cp, s, k)
  BY <1>2 DEF Sound
<1>10. /\ t.op # "seq" /\ t.op \in Unsequenced /\ t.op \in Opcodes("Handshake")
       /\ ~Sequenced("Handshake", t.op) /\ t.op \notin Awaited
  BY OpcodeFacts DEF Unsequenced, Opcodes, Control
<1>11. Framed(v, "Handshake") /\ InStep(v, s, c) /\ NothingBehind(v)
  BY <1>1, <1>10, PlainSent
<1>12. RequestIsAwaited(v, r, wt) BY <1>8, <1>10 DEF RequestIsAwaited
<1>13. HandshakeAlternates(v, r, at, cp, s, k)
  BY <1>5, <1>6, <1>8, <1>9 DEF HandshakeAlternates
<1>14. Sound(v, r, "Handshake", at, s, c, cp, wt, k)
  BY <1>9, <1>11, <1>12, <1>13 DEF Sound
<1> QED BY <1>14 DEF r

\* The client waits no longer when nothing is on its way.
LEMMA SoundGivesUp ==
    ASSUME NEW w, w = <<>>, NEW q, NEW p, NEW at, NEW s, NEW c, NEW cp, NEW wt, NEW k,
           Sound(w, q, p, at, s, c, cp, wt, k)
    PROVE  Sound(w, q, p, at, s, c, cp, FALSE, k)
<1>1. RequestIsAwaited(w, q, FALSE) BY DEF RequestIsAwaited
<1> QED BY <1>1 DEF Sound

-----------------------------------------------------------------------------
(* The stream's invariant, step by step.                                   *)

\* The positions of the sequencers are numbers.
LEMMA FollowingType == ASSUME NEW x \in Int PROVE Following(x) \in Int
<1>1. SeqLength \in Nat \ {0} BY ConnectionAssumption
<1>2. \A a \in Int, m \in Nat \ {0} : a % m \in Int OBVIOUS
<1> QED BY <1>1, <1>2 DEF Following

\* What is sent about the time is a packet.
LEMMA SyncType ==
    ASSUME NEW age \in Int, NEW a \in Int, NEW t \in Int
    PROVE  /\ Delta(a, t) \in Int
           /\ \A d \in Int : Sync(age, d) \in Packets /\ Sync(age, d).op = "RequestHandshake"
<1>1. \A x \in Int : Half(x) \in Int
  <2>1. \A x \in Int : x \div 2 \in Int OBVIOUS
  <2> QED BY <2>1 DEF Half
<1>2. Delta(a, t) \in Int BY <1>1 DEF Delta
<1>3. \A d \in Int : Sync(age, d) \in Packets /\ Sync(age, d).op = "RequestHandshake"
  BY DEF Sync, Packets
<1> QED BY <1>2, <1>3

\* A connection that ends.
LEMMA ClosedStream ==
    ASSUME StreamInv, NEW reason, Closed(reason),
           ~AnswersAlways /\ kind # "stray" => reason # "protocol"
    PROVE  StreamInv'
<1>1. /\ phase' = "Closed" /\ why' = reason /\ buf' = <<>> /\ net' = <<>> /\ inbox' = <<>>
      /\ seqS' = 0 /\ sentAge' = 0 /\ loopAge' = 0 /\ cphase' = "Closed" /\ seqC' = 0
      /\ kind' = kind
  BY DEF Closed, rigid
<1>2. <<>> \in Seq(Tokens) /\ <<>> \in Seq(Packets) OBVIOUS
<1>3. StreamTypes' BY <1>1, <1>2 DEF StreamTypes
<1> QED BY <1>1, <1>3 DEF StreamInv, ConformingIsKept

\* The parts of the invariant, for a step that leaves the connection open.
LEMMA OpenStream ==
    ASSUME StreamInv, StreamTypes', kind' = kind, why' = why, phase # "Closed",
           kind # "stray" =>
              Sound(buf' \o net', inbox', phase', pc', seqS', seqC', cphase', waits', kind)
    PROVE  StreamInv'
BY DEF StreamInv, ConformingIsKept

\* Which of the later points of a phase the task has reached is all one to the
\* stream.
LEMMA SoundPoint ==
    ASSUME NEW w, NEW q, NEW p, NEW at, NEW s, NEW c, NEW cp, NEW wt, NEW k, NEW bt,
           Sound(w, q, p, at, s, c, cp, wt, k),
           p = "Handshake" => (at = "enter" <=> bt = "enter")
    PROVE  Sound(w, q, p, bt, s, c, cp, wt, k)
BY DEF Sound, PhaseIsTold, HandshakeAlternates

\* A step of the server that takes nothing off the stream and sends nothing new.
LEMMA QuietStream ==
    ASSUME StreamInv, phase # "Closed", loopAge' \in Int,
           UNCHANGED <<kind, phase, why, seqS, sentAge, buf, net, inbox, cphase, seqC, waits>>,
           phase = "Handshake" => (pc = "enter" <=> pc' = "enter")
    PROVE  StreamInv'
<1>1. StreamTypes' BY DEF StreamInv, StreamTypes
<1>2. ASSUME kind # "stray"
      PROVE  Sound(buf' \o net', inbox', phase', pc', seqS', seqC', cphase', waits', kind)
  <2> DEFINE w == buf \o net
             v == buf' \o net'
  <2>1. Sound(w, inbox, phase, pc, seqS, seqC, cphase, waits, kind) BY <1>2 DEF StreamInv
  <2>2. v = w OBVIOUS
  <2> HIDE DEF w, v
  <2>3. Sound(w, inbox, phase, pc', seqS, seqC, cphase, waits, kind) BY <2>1, SoundPoint
  <2>4. Sound(v, inbox', phase', pc', seqS', seqC', cphase', waits', kind) BY <2>2, <2>3
  <2> QED BY <2>4 DEF v
<1> QED BY <1>1, <1>2, OpenStream

\* A last packet before the end.
LEMMA FarewellStream ==
    ASSUME StreamInv, NEW reason, Farewell(reason), reason # "protocol", phase # "Closed",
           pc = "loop"
    PROVE  StreamInv'
<1>1. CASE Closed(reason) BY <1>1, ClosedStream
<1>2. CASE ~Closed(reason)
  <2>1. /\ pc' = "leaving" /\ loopAge' = loopAge
        /\ UNCHANGED <<kind, phase, why, seqS, sentAge, buf, net, inbox, cphase, seqC, waits>>
    BY <1>2 DEF Farewell, rigid, client
  <2>2. loopAge \in Int BY DEF StreamInv, StreamTypes
  <2> QED BY <2>1, <2>2, QuietStream
<1> QED BY <1>1, <1>2

\* The packet at the head of the buffer, and the buffer without it.
LEMMA DecodedFacts ==
    ASSUME StreamTypes, NEW op, Decodes(op), NEW next, Consumed(op, next)
    PROVE  /\ pc = "loop" /\ phase \in Phases /\ phase # "Closed"
           /\ buf \in Seq(Tokens) /\ net \in Seq(Tokens) /\ inbox \in Seq(Packets)
           /\ buf # <<>> /\ buf[1].op = op /\ op \in Opcodes(phase)
           /\ Sequenced(phase, op) => Len(buf) >= 2
           /\ buf' = Rest(phase, buf) /\ buf' \in Seq(Tokens)
           /\ seqS' = IF next = "Login" /\ phase = "Handshake" THEN 0
                      ELSE Advanced(phase, buf, seqS)
           /\ seqS' \in Int
<1>1. /\ pc = "loop" /\ phase # "Closed" /\ buf # <<>> /\ buf[1].op = op
      /\ op \in Opcodes(phase)
      /\ Sequenced(phase, op) => Len(buf) >= 2
      /\ buf' = SubSeq(buf, IF Sequenced(phase, op) THEN 3 ELSE 2, Len(buf))
      /\ seqS' = IF next = "Login" /\ phase = "Handshake" THEN 0
                 ELSE IF Sequenced(phase, op) THEN Following(seqS) ELSE seqS
  BY DEF Decodes, Complete, Undecodable, Consumed
<1>2. buf \in Seq(Tokens) /\ net \in Seq(Tokens) /\ inbox \in Seq(Packets) /\ seqS \in Int
      /\ phase \in Phases
  BY <1>1 DEF StreamTypes
<1>3. buf' = Rest(phase, buf) BY <1>1 DEF Rest
<1>4. buf' \in Seq(Tokens)
  <2>1. Len(buf) \in Nat /\ Len(buf) >= 1 BY <1>1, <1>2
  <2>2. CASE Sequenced(phase, op)
    <3>1. buf' = SubSeq(buf, 2 + 1, Len(buf)) BY <1>1, <2>2
    <3> QED BY <1>1, <1>2, <2>1, <2>2, <3>1, Dropped
  <2>3. CASE ~Sequenced(phase, op)
    <3>1. buf' = SubSeq(buf, 1 + 1, Len(buf)) BY <1>1, <2>3
    <3> QED BY <1>2, <2>1, <3>1, Dropped
  <2> QED BY <2>2, <2>3
<1>5. Advanced(phase, buf, seqS) = IF Sequenced(phase, op) THEN Following(seqS) ELSE seqS
  BY <1>1 DEF Advanced
<1>6. seqS' \in Int BY <1>1, <1>2, FollowingType
<1> QED BY <1>1, <1>2, <1>3, <1>4, <1>5, <1>6

\* A packet that keeps a phase past the handshake.
LEMMA StaysStream ==
    ASSUME StreamInv, NEW op, NEW send \in Seq(Packets), Stays(op, send), sentAge' \in Int,
           \A i \in DOMAIN send : send[i].op # "SetClientPhase", phase # "Handshake"
    PROVE  StreamInv'
<1>1. /\ Decodes(op) /\ Consumed(op, phase)
      /\ loopAge' = 0 /\ inbox' = inbox \o send
      /\ UNCHANGED <<kind, phase, why, pc, net, cphase, seqC, waits>>
  BY DEF Stays, Heard, rigid, client
<1>2. StreamTypes BY DEF StreamInv
<1>3. /\ pc = "loop" /\ phase \in Phases /\ phase # "Closed"
      /\ buf \in Seq(Tokens) /\ net \in Seq(Tokens) /\ inbox \in Seq(Packets)
      /\ buf # <<>> /\ buf[1].op = op /\ op \in Opcodes(phase)
      /\ Sequenced(phase, op) => Len(buf) >= 2
      /\ buf' = Rest(phase, buf) /\ buf' \in Seq(Tokens)
      /\ seqS' = Advanced(phase, buf, seqS) /\ seqS' \in Int
  BY <1>1, <1>2, DecodedFacts
<1>4. inbox' \in Seq(Packets) BY <1>1, <1>3, InboxGrows
<1>5. StreamTypes' BY <1>1, <1>2, <1>3, <1>4 DEF StreamTypes
<1>6. ASSUME kind # "stray"
      PROVE  Sound(buf' \o net', inbox', phase', pc', seqS', seqC', cphase', waits', kind)
  <2>1. Sound(buf \o net, inbox, phase, pc, seqS, seqC, cphase, waits, kind)
    BY <1>3, <1>6 DEF StreamInv
  <2>2. Sound(Rest(phase, buf) \o net, inbox \o send, phase, pc, Advanced(phase, buf, seqS),
              seqC, cphase, waits, kind)
    BY <1>3, <2>1, SoundStays
  <2> QED BY <1>1, <1>3, <2>2
<1> QED BY <1>1, <1>3, <1>5, <1>6, OpenStream

\* A request that ends a phase past the handshake.
LEMMA MovesStream ==
    ASSUME StreamInv, NEW op \in Awaited, NEW next \in Phases \ {"Handshake"}, Moves(op, next)
    PROVE  StreamInv'
<1>1. /\ Decodes(op) /\ Consumed(op, next)
      /\ loopAge' = 0 /\ inbox' = Append(inbox, SetClientPhase(next)) /\ phase' = next
      /\ pc' = "enter"
      /\ UNCHANGED <<kind, why, net, cphase, seqC, waits, sentAge>>
  BY DEF Moves, Heard, rigid, client
<1>2. StreamTypes BY DEF StreamInv
<1>3. /\ pc = "loop" /\ phase \in Phases /\ phase # "Closed"
      /\ buf \in Seq(Tokens) /\ net \in Seq(Tokens) /\ inbox \in Seq(Packets)
      /\ buf # <<>> /\ buf[1].op = op /\ op \in Opcodes(phase)
      /\ Sequenced(phase, op) => Len(buf) >= 2
      /\ buf' = Rest(phase, buf) /\ buf' \in Seq(Tokens)
      /\ seqS' = (IF next = "Login" /\ phase = "Handshake" THEN 0
                  ELSE Advanced(phase, buf, seqS))
      /\ seqS' \in Int
  BY <1>1, <1>2, DecodedFacts
<1>4. phase # "Handshake" BY <1>3, OpcodeFacts
<1>5. inbox' \in Seq(Packets)
  <2>1. SetClientPhase(next) \in Packets BY DEF SetClientPhase, Packets
  <2> QED BY <1>1, <1>3, <2>1
<1>6. StreamTypes' BY <1>1, <1>2, <1>3, <1>5 DEF StreamTypes
<1>7. ASSUME kind # "stray"
      PROVE  Sound(buf' \o net', inbox', phase', pc', seqS', seqC', cphase', waits', kind)
  <2>1. Sound(buf \o net, inbox, phase, pc, seqS, seqC, cphase, waits, kind)
    BY <1>3, <1>7 DEF StreamInv
  <2>2. Sound(Rest(phase, buf) \o net, Append(inbox, SetClientPhase(next)), next, "enter",
              Advanced(phase, buf, seqS), seqC, cphase, waits, kind)
    BY <1>3, <1>4, <2>1, SoundMoves
  <2> QED BY <1>1, <1>3, <1>4, <2>2
<1> QED BY <1>1, <1>3, <1>6, <1>7, OpenStream

\* The handlers of the handshake.
LEMMA HandshakeStream ==
    ASSUME StreamInv, HandshakeReplies \/ FetchChannelList PROVE StreamInv'
<1>1. StreamTypes /\ sentAge \in Int BY DEF StreamInv, StreamTypes
<1>2. CASE HandshakeReplies
  <2> DEFINE a == buf[1].x
             sync == Sync(0, Delta(a, sentAge))
  <2>1. /\ Decodes("HandshakeResponse") /\ phase = "Handshake"
        /\ \/ Moves("HandshakeResponse", "Login")
           \/ Closed("retries")
           \/ Stays("HandshakeResponse", <<sync>>) /\ sentAge' = 0
    BY <1>2 DEF HandshakeReplies, Running, At
  <2>2. buf # <<>> /\ buf[1].op = "HandshakeResponse" BY <2>1 DEF Decodes, Complete
  <2>3. buf \in Seq(Tokens) /\ net \in Seq(Tokens) /\ inbox \in Seq(Packets)
    BY <1>1 DEF StreamTypes
  <2>4. sync \in Packets /\ sync.op = "RequestHandshake"
    <3>1. 1 \in DOMAIN buf BY <2>2, <2>3
    <3>2. buf[1] \in Tokens BY <2>3, <3>1
    <3>3. a \in Int BY <3>2 DEF Tokens
    <3> HIDE DEF a
    <3>4. Delta(a, sentAge) \in Int BY <1>1, <3>3, SyncType
    <3> QED BY <1>1, <3>3, <3>4, SyncType
  <2> HIDE DEF sync, a
  <2>5. ASSUME kind # "stray"
        PROVE  /\ inbox = <<>> /\ seqS = 0
               /\ Sound(Rest(phase, buf) \o net, <<SetClientPhase("Login")>>, "Login", "enter",
                        seqS, seqC, cphase, waits, kind)
               /\ Sound(Rest(phase, buf) \o net, <<sync>>, phase, pc,
                        seqS, seqC, cphase, waits, kind)
    <3>1. Sound(buf \o net, inbox, "Handshake", pc, seqS, seqC, cphase, waits, kind)
      BY <2>1, <2>5 DEF StreamInv
    <3> QED BY <2>1, <2>2, <2>3, <2>4, <3>1, SoundAnswered
  <2>6. Advanced(phase, buf, seqS) = seqS BY <2>1, OpcodeFacts DEF Advanced
  <2>7. CASE Closed("retries") BY <2>7, ClosedStream
  <2>8. CASE Moves("HandshakeResponse", "Login")
    <3>1. /\ Consumed("HandshakeResponse", "Login")
          /\ loopAge' = 0 /\ inbox' = Append(inbox, SetClientPhase("Login")) /\ phase' = "Login"
          /\ pc' = "enter"
          /\ UNCHANGED <<kind, why, net, cphase, seqC, waits, sentAge>>
      BY <2>8 DEF Moves, Heard, rigid, client
    <3>2. buf' = Rest(phase, buf) /\ buf' \in Seq(Tokens) /\ seqS' = 0
      BY <1>1, <2>1, <3>1, DecodedFacts
    <3>3. SetClientPhase("Login") \in Packets BY DEF SetClientPhase, Packets, Phases
    <3>4. inbox' \in Seq(Packets) BY <2>3, <3>1, <3>3
    <3>5. StreamTypes' BY <1>1, <3>1, <3>2, <3>4 DEF StreamTypes, Phases
    <3>6. kind # "stray" =>
             Sound(buf' \o net', inbox', phase', pc', seqS', seqC', cphase', waits', kind)
      <4> SUFFICES ASSUME kind # "stray"
                   PROVE  Sound(buf' \o net', inbox', phase', pc', seqS', seqC', cphase', waits', kind)
        OBVIOUS
      <4>1. inbox' = <<SetClientPhase("Login")>> BY <2>5, <3>1
      <4> QED BY <2>5, <3>1, <3>2, <4>1
    <3> QED BY <2>1, <3>1, <3>5, <3>6, OpenStream
  <2>9. CASE Stays("HandshakeResponse", <<sync>>) /\ sentAge' = 0
    <3>1. /\ Consumed("HandshakeResponse", phase)
          /\ loopAge' = 0 /\ inbox' = inbox \o <<sync>>
          /\ UNCHANGED <<kind, phase, pc, why, net, cphase, seqC, waits>>
      BY <2>9 DEF Stays, Heard, rigid, client
    <3>2. buf' = Rest(phase, buf) /\ buf' \in Seq(Tokens) /\ seqS' = seqS /\ seqS' \in Int
      BY <1>1, <2>1, <2>6, <3>1, DecodedFacts
    <3>3. inbox' \in Seq(Packets) BY <2>3, <2>4, <3>1
    <3>4. StreamTypes' BY <1>1, <2>9, <3>1, <3>2, <3>3 DEF StreamTypes
    <3>5. kind # "stray" =>
             Sound(buf' \o net', inbox', phase', pc', seqS', seqC', cphase', waits', kind)
      <4> SUFFICES ASSUME kind # "stray"
                   PROVE  Sound(buf' \o net', inbox', phase', pc', seqS', seqC', cphase', waits', kind)
        OBVIOUS
      <4>1. inbox' = <<sync>> BY <2>5, <3>1
      <4> QED BY <2>5, <3>1, <3>2, <4>1
    <3> QED BY <2>1, <3>1, <3>4, <3>5, OpenStream
  <2> QED BY <2>1, <2>7, <2>8, <2>9
<1>3. CASE FetchChannelList
  <2>1. /\ phase = "Handshake" /\ Decodes("FetchChannelList") /\ Consumed("FetchChannelList", phase)
        /\ loopAge' = 0 /\ inbox' = inbox \o <<>>
        /\ UNCHANGED <<kind, phase, pc, why, net, cphase, seqC, waits, sentAge>>
    BY <1>3 DEF FetchChannelList, Running, At, Stays, Heard, rigid, client
  <2>2. /\ buf' = Rest(phase, buf) /\ buf' \in Seq(Tokens)
        /\ seqS' = Advanced(phase, buf, seqS) /\ seqS' \in Int
        /\ buf \in Seq(Tokens) /\ net \in Seq(Tokens) /\ inbox \in Seq(Packets)
        /\ buf # <<>> /\ buf[1].op = "FetchChannelList"
    BY <1>1, <2>1, DecodedFacts
  <2>3. seqS' = seqS BY <2>1, <2>2, OpcodeFacts DEF Advanced
  <2>4. inbox' = inbox BY <2>1, <2>2
  <2>5. StreamTypes' BY <1>1, <2>1, <2>2, <2>4 DEF StreamTypes
  <2>6. ASSUME kind # "stray"
        PROVE  Sound(buf' \o net', inbox', phase', pc', seqS', seqC', cphase', waits', kind)
    <3>1. Sound(buf \o net, inbox, "Handshake", pc, seqS, seqC, cphase, waits, kind)
      BY <2>1, <2>6 DEF StreamInv
    <3>2. Sound(Rest("Handshake", buf) \o net, inbox, "Handshake", pc, seqS, seqC, cphase,
                waits, kind)
      BY <2>2, <3>1, SoundListed
    <3> QED BY <2>1, <2>2, <2>3, <2>4, <3>2
  <2> QED BY <2>1, <2>5, <2>6, OpenStream
<1> QED BY <1>2, <1>3

\* Entering a phase past the handshake.
LEMMA EnteredStream ==
    ASSUME StreamInv, NEW send \in Seq(Packets), NEW stalls, Entered(send, stalls),
           sentAge' \in Int,
           \A i \in DOMAIN send : send[i].op # "SetClientPhase",
           phase # "Handshake", phase # "Closed"
    PROVE  StreamInv'
<1>1. /\ pc' = "entering" /\ loopAge' = loopAge /\ inbox' = inbox \o send
      /\ UNCHANGED <<kind, phase, why, seqS, buf, net, cphase, seqC, waits>>
  BY DEF Entered, rigid, client
<1>2. StreamTypes /\ inbox \in Seq(Packets) BY DEF StreamInv, StreamTypes
<1>3. inbox' \in Seq(Packets) BY <1>1, <1>2, InboxGrows
<1>4. StreamTypes' BY <1>1, <1>2, <1>3 DEF StreamTypes
<1>5. ASSUME kind # "stray"
      PROVE  Sound(buf' \o net', inbox', phase', pc', seqS', seqC', cphase', waits', kind)
  <2>1. Sound(buf \o net, inbox, phase, pc, seqS, seqC, cphase, waits, kind)
    BY <1>5 DEF StreamInv
  <2> DEFINE w == buf \o net
  <2>2. Sound(w, inbox, phase, pc, seqS, seqC, cphase, waits, kind) BY <2>1
  <2> HIDE DEF w
  <2>3. Sound(w, inbox \o send, phase, "loop", seqS, seqC, cphase, waits, kind)
    BY <1>2, <2>2, SoundEnters
  <2>4. Sound(w, inbox \o send, phase, "entering", seqS, seqC, cphase, waits, kind)
    BY <2>3, SoundPoint
  <2> QED BY <1>1, <2>4 DEF w
<1> QED BY <1>1, <1>4, <1>5, OpenStream

\* The server opens with its phase and the first sync.
LEMMA EnterHandshakeStream == ASSUME StreamInv, EnterHandshake PROVE StreamInv'
<1>1. CASE Closed("drain") BY <1>1, ClosedStream
<1> DEFINE sync == Sync(0, 0)
           send == <<SetClientPhase("Handshake"), sync>>
<1>2. CASE Entered(send, Stalls) /\ sentAge' = 0
  <2>2. phase = "Handshake" /\ pc = "enter" BY DEF EnterHandshake, At
  <2>1. /\ pc' = "loop" /\ loopAge' = loopAge /\ inbox' = inbox \o send
        /\ UNCHANGED <<kind, phase, why, seqS, buf, net, cphase, seqC, waits>>
    BY <1>2, <2>2 DEF Entered, rigid, client
  <2>3. StreamTypes /\ inbox \in Seq(Packets) BY DEF StreamInv, StreamTypes
  <2>4. sync \in Packets /\ sync.op = "RequestHandshake" BY SyncType
  <2>5. SetClientPhase("Handshake") \in Packets BY DEF SetClientPhase, Packets, Phases
  <2> HIDE DEF sync
  <2>6. send \in Seq(Packets) BY <2>4, <2>5
  <2>7. inbox' \in Seq(Packets) BY <2>1, <2>3, <2>6
  <2>8. StreamTypes' BY <1>2, <2>1, <2>3, <2>7 DEF StreamTypes
  <2>9. ASSUME kind # "stray"
        PROVE  Sound(buf' \o net', inbox', phase', pc', seqS', seqC', cphase', waits', kind)
    <3>1. Sound(buf \o net, inbox, "Handshake", "enter", seqS, seqC, cphase, waits, kind)
      BY <2>2, <2>9 DEF StreamInv
    <3>2. /\ inbox = <<>>
          /\ Sound(buf \o net, <<SetClientPhase("Handshake"), sync>>, "Handshake", "loop",
                   seqS, seqC, cphase, waits, kind)
      BY <2>4, <3>1, SoundBegins
    <3>3. inbox' = <<SetClientPhase("Handshake"), sync>> BY <2>1, <2>6, <3>2
    <3> QED BY <2>1, <2>2, <3>2, <3>3
  <2> QED BY <2>1, <2>2, <2>8, <2>9, OpenStream
<1> QED BY <1>1, <1>2 DEF EnterHandshake

\* The server's entry into each phase.
LEMMA EnterStream ==
    ASSUME StreamInv, EnterHandshake \/ EnterLogin \/ EnterSelect \/ EnterLoading \/ EnterInGame
    PROVE  StreamInv'
<1>1. CASE EnterHandshake BY <1>1, EnterHandshakeStream
<1>2. sentAge \in Int BY DEF StreamInv, StreamTypes
<1>3. CASE EnterLogin \/ EnterSelect \/ EnterLoading
  <2>1. /\ phase # "Handshake" /\ phase # "Closed"
        /\ \/ Closed("drain") \/ Closed("db")
           \/ Entered(<<>>, {FALSE}) /\ sentAge' = sentAge
           \/ Entered(<<>>, Stalls) /\ sentAge' = sentAge
    BY <1>3 DEF EnterLogin, EnterSelect, EnterLoading, At
  <2>2. <<>> \in Seq(Packets) /\ DOMAIN <<>> = {} OBVIOUS
  <2>3. ASSUME NEW stalls, Entered(<<>>, stalls), sentAge' = sentAge PROVE StreamInv'
    BY <1>2, <2>1, <2>2, <2>3, EnteredStream
  <2> QED BY <2>1, <2>3, ClosedStream
<1>4. CASE EnterInGame
  <2>1. /\ phase # "Handshake" /\ phase # "Closed"
        /\ \/ Closed("drain") \/ Closed("wrong map")
           \/ Entered(<<Sync(0, 0)>>, Stalls) /\ sentAge' = 0
    BY <1>4 DEF EnterInGame, At
  <2>2. Sync(0, 0) \in Packets /\ Sync(0, 0).op = "RequestHandshake" BY SyncType
  <2> DEFINE send == <<Sync(0, 0)>>
  <2>3. send \in Seq(Packets) /\ \A i \in DOMAIN send : send[i].op # "SetClientPhase"
    BY <2>2
  <2> HIDE DEF send
  <2>4. CASE Entered(send, Stalls) /\ sentAge' = 0
    <3>1. sentAge' \in Int BY <2>4
    <3> QED BY <2>1, <2>3, <2>4, <3>1, EnteredStream
  <2> QED BY <2>1, <2>4, ClosedStream DEF send
<1> QED BY <1>1, <1>3, <1>4

\* A client that keeps to the protocol is never refused: what it sends is of
\* the server's phase, with the byte the server waits for.
LEMMA NotRefused ==
    ASSUME StreamInv, kind # "stray",
           Malformed \/ HandshakeRefuses \/ SessionSyncReply
    PROVE  AnswersAlways /\ SessionSyncReply
<1> DEFINE w == buf \o net
<1>1. phase # "Closed" /\ buf # <<>>
  BY DEF Malformed, HandshakeRefuses, SessionSyncReply, Decodes, Complete, Undecodable
<1>2. Sound(w, inbox, phase, pc, seqS, seqC, cphase, waits, kind) BY <1>1 DEF StreamInv
<1>3. buf \in Seq(Tokens) /\ net \in Seq(Tokens) /\ phase \in Phases
  BY <1>1 DEF StreamInv, StreamTypes
<1>4. /\ w \in Seq(Tokens) /\ Len(w) = Len(buf) + Len(net) /\ Len(net) \in Nat
      /\ \A i \in 1 .. Len(buf) : w[i] = buf[i]
  BY <1>3, JoinFacts
<1>5. Len(buf) \in Nat /\ Len(buf) >= 1 /\ DOMAIN w = 1 .. Len(w) /\ 1 \in DOMAIN w /\ w[1] = buf[1]
  BY <1>1, <1>3, <1>4
<1> HIDE DEF w
<1>6. Framed(w, phase) /\ InStep(w, seqS, seqC) BY <1>2 DEF Sound
<1>7. /\ buf[1].op # "seq" /\ buf[1].op \in Opcodes(phase)
      /\ Sequenced(phase, buf[1].op) => 1 < Len(w) /\ w[2].op = "seq"
  BY <1>5, <1>6 DEF Framed
<1>8. ~Malformed
  <2> SUFFICES ASSUME Malformed PROVE FALSE OBVIOUS
  <2>1. /\ Sequenced(phase, buf[1].op) /\ Len(buf) >= 2 /\ buf[2] # Tok("seq", seqS)
    BY <1>7 DEF Malformed, Undecodable, Complete
  <2>2. 2 \in DOMAIN w /\ w[2] = buf[2] /\ w[2].op = "seq" /\ w[2] \in Tokens
    BY <1>4, <1>5, <1>7, <2>1
  <2>3. 2 \in SeqBytes(w) /\ \A h \in SeqBytes(w) : h >= 2
    <3>1. 1 \notin SeqBytes(w) BY <1>5, <1>7 DEF SeqBytes
    <3> QED BY <1>5, <2>2, <3>1 DEF SeqBytes
  <2>4. w[2].x = seqS BY <1>6, <2>3 DEF InStep
  <2>5. \A t \in Tokens : t = Tok(t.op, t.x) BY DEF Tokens, Tok
  <2> QED BY <2>1, <2>2, <2>4, <2>5
<1>9. ~HandshakeRefuses
  <2> SUFFICES ASSUME HandshakeRefuses PROVE FALSE OBVIOUS
  <2>1. phase = "Handshake" /\ buf[1].op \in {"HeartbeatResponse", "RequestTimeSync"}
    BY DEF HandshakeRefuses, Running, At, Decodes
  <2>2. w[1].op = IF kind = "lister" THEN "FetchChannelList" ELSE "HandshakeResponse"
    BY <1>2, <1>5, <2>1 DEF Sound, HandshakeAlternates
  <2> QED BY <1>5, <2>1, <2>2
<1>10. SessionSyncReply BY <1>8, <1>9
<1>11. AnswersAlways
  <2>1. phase # "Handshake" /\ buf[1].op = "HandshakeResponse"
    BY <1>10 DEF SessionSyncReply, Decodes
  <2> QED BY <1>2, <1>5, <2>1 DEF Sound, HandshakeIsOver
<1> QED BY <1>10, <1>11

\* A request for a sync of the time, past the handshake.
LEMMA TimeSyncStream == ASSUME StreamInv, SessionTimeSync PROVE StreamInv'
<1> DEFINE a == buf[1].x - NowAge
           sync == Sync(NowAge, Delta(a, sentAge - NowAge))
           send == <<sync>>
<1>1. /\ phase # "Handshake" /\ Decodes("RequestTimeSync")
      /\ \/ Stays("RequestTimeSync", <<>>) /\ sentAge' = sentAge
         \/ Stays("RequestTimeSync", send) /\ sentAge' = NowAge
  BY DEF SessionTimeSync
<1>2. sentAge \in Int /\ loopAge \in Int /\ buf \in Seq(Tokens) BY DEF StreamInv, StreamTypes
<1>3. NowAge \in Int BY <1>2 DEF NowAge
<1>4. CASE Stays("RequestTimeSync", <<>>) /\ sentAge' = sentAge
  <2>1. <<>> \in Seq(Packets) /\ DOMAIN <<>> = {} OBVIOUS
  <2> QED BY <1>1, <1>2, <1>4, <2>1, StaysStream
<1>5. CASE Stays("RequestTimeSync", send) /\ sentAge' = NowAge
  <2>1. buf # <<>> BY <1>1 DEF Decodes, Complete
  <2>2. 1 \in DOMAIN buf BY <1>2, <2>1
  <2>3. buf[1] \in Tokens BY <1>2, <2>2
  <2>4. buf[1].x \in Int BY <2>3 DEF Tokens
  <2>5. a \in Int /\ sentAge - NowAge \in Int BY <1>2, <1>3, <2>4
  <2> HIDE DEF a
  <2>6. Delta(a, sentAge - NowAge) \in Int BY <1>3, <2>5, SyncType
  <2>7. sync \in Packets /\ sync.op = "RequestHandshake" BY <1>3, <2>5, <2>6, SyncType
  <2> HIDE DEF sync
  <2>8. send \in Seq(Packets) /\ \A i \in DOMAIN send : send[i].op # "SetClientPhase"
    BY <2>7
  <2> HIDE DEF send
  <2>9. sentAge' \in Int BY <1>3, <1>5
  <2> QED BY <1>1, <1>5, <2>8, <2>9, StaysStream
<1> QED BY <1>1, <1>4, <1>5

\* SessionTracker::on_tick asks for a sign of life or gives up.
LEMMA TickStream == ASSUME StreamInv, HeartbeatTick PROVE StreamInv'
<1> DEFINE ask == idle - NowAge >= HeartbeatInterval
           send == IF ask THEN <<RequestHeartbeat>> ELSE <<>>
<1>1. /\ pc = "loop" /\ phase # "Handshake" /\ phase # "Closed"
      /\ \/ Closed("timeout")
         \/ /\ loopAge' = 0
            /\ inbox' = IF ask THEN Append(inbox, RequestHeartbeat) ELSE inbox
            /\ UNCHANGED <<kind, phase, why, pc, seqS, sentAge, buf, net, cphase, seqC, waits>>
  BY DEF HeartbeatTick, rigid, client
<1>2. CASE Closed("timeout") BY <1>2, ClosedStream
<1>3. CASE ~Closed("timeout")
  <2>1. StreamTypes /\ inbox \in Seq(Packets) BY DEF StreamInv, StreamTypes
  <2>2. RequestHeartbeat \in Packets /\ RequestHeartbeat.op # "SetClientPhase"
    BY DEF RequestHeartbeat, Packets
  <2>3. <<RequestHeartbeat>> \in Seq(Packets) /\ <<>> \in Seq(Packets)
        /\ \A i \in DOMAIN <<RequestHeartbeat>> : <<RequestHeartbeat>>[i].op # "SetClientPhase"
        /\ DOMAIN <<>> = {}
    BY <2>2
  <2>4. send \in Seq(Packets) /\ \A i \in DOMAIN send : send[i].op # "SetClientPhase"
    BY <2>3
  <2>5. inbox' = inbox \o send
    <3>1. Append(inbox, RequestHeartbeat) = inbox \o <<RequestHeartbeat>> /\ inbox \o <<>> = inbox
      BY <2>1, <2>2
    <3> QED BY <1>1, <1>3, <3>1
  <2> HIDE DEF send, ask
  <2>6. inbox' \in Seq(Packets) BY <2>1, <2>4, <2>5
  <2>7. StreamTypes' BY <1>1, <1>3, <2>1, <2>6 DEF StreamTypes
  <2>8. ASSUME kind # "stray"
        PROVE  Sound(buf' \o net', inbox', phase', pc', seqS', seqC', cphase', waits', kind)
    <3> DEFINE w == buf \o net
    <3>1. Sound(w, inbox, phase, pc, seqS, seqC, cphase, waits, kind)
      BY <1>1, <2>8 DEF StreamInv
    <3> HIDE DEF w
    <3>2. Sound(w, inbox \o send, phase, "loop", seqS, seqC, cphase, waits, kind)
      BY <1>1, <2>1, <2>4, <3>1, SoundEnters
    <3> QED BY <1>1, <1>3, <2>5, <3>2 DEF w
  <2> QED BY <1>1, <1>3, <2>7, <2>8, OpenStream
<1> QED BY <1>2, <1>3

\* The server's steps.
LEMMA ServerStream == ASSUME StreamInv, ServerStep PROVE StreamInv'
<1> USE DEF StreamTypes
<1>0. sentAge \in Int /\ <<>> \in Seq(Packets) /\ DOMAIN <<>> = {} BY DEF StreamInv
<1>1. CASE EnterHandshake \/ EnterLogin \/ EnterSelect \/ EnterLoading \/ EnterInGame
  BY <1>1, EnterStream
<1>2. CASE Malformed \/ HandshakeRefuses \/ SessionSyncReply
  <2>1. Closed("protocol") BY <1>2 DEF Malformed, HandshakeRefuses, SessionSyncReply
  <2> QED BY <1>2, <2>1, NotRefused, ClosedStream
<1>3. CASE DrainNotice \/ StreamEnds \/ ConnectionResets \/ Leaves
  <2>1. Closed("drain") \/ Closed("peer") \/ Closed("left")
    BY <1>3 DEF DrainNotice, StreamEnds, ConnectionResets, Leaves
  <2> QED BY <2>1, ClosedStream
<1>4. CASE HandshakeReplies \/ FetchChannelList BY <1>4, HandshakeStream
<1>5. CASE SessionTimeSync BY <1>5, TimeSyncStream
<1>6. CASE HeartbeatTick BY <1>6, TickStream
<1>7. ASSUME NEW op, Stays(op, <<>>), UNCHANGED <<retries, sentAge>>, phase # "Handshake"
      PROVE  StreamInv'
  BY <1>0, <1>7, StaysStream
<1>8. CASE SessionHeartbeat \/ SubmitClientVersion \/ Intent \/ PlainCommand
  <2>1. /\ phase # "Handshake" /\ UNCHANGED <<retries, sentAge>>
        /\ \E op \in {"HeartbeatResponse", "SubmitClientVersion", "Intent", "Command"} :
              Stays(op, <<>>)
    BY <1>8 DEF SessionHeartbeat, SubmitClientVersion, Intent, PlainCommand, Running, At
  <2> QED BY <2>1, <1>7
<1>9. CASE TokenLogin
  <2>1. /\ phase # "Closed" /\ pc = "loop"
        /\ Moves("RequestTokenLogin", "Select") \/ Farewell("rejected") \/ Closed("db")
    BY <1>9 DEF TokenLogin, Decodes
  <2> QED BY <2>1, MovesStream, FarewellStream, ClosedStream DEF Awaited, Phases
<1>10. CASE EditPlayers
  <2>1. /\ phase # "Handshake"
        /\ Closed("db") \/ (Stays("EditPlayers", <<>>) /\ UNCHANGED <<retries, sentAge>>)
    BY <1>10 DEF EditPlayers, Running, At
  <2> QED BY <2>1, <1>7, ClosedStream
<1>11. CASE SubmitPlayerChoice
  <2>1. /\ phase # "Handshake"
        /\ \/ Closed("rejected") \/ Closed("db") \/ Moves("SubmitPlayerChoice", "Loading")
           \/ Stays("SubmitPlayerChoice", <<>>) /\ UNCHANGED <<retries, sentAge>>
    BY <1>11 DEF SubmitPlayerChoice, Running, At
  <2>2. CASE Moves("SubmitPlayerChoice", "Loading") BY <2>2, MovesStream DEF Awaited, Phases
  <2> QED BY <2>1, <2>2, <1>7, ClosedStream
<1>12. CASE SignalLoadingComplete
  BY <1>12, MovesStream DEF SignalLoadingComplete, Awaited, Phases
<1>13. CASE SessionCommand
  <2>1. /\ phase # "Closed" /\ pc = "loop"
        /\ Moves("Command", "Select") \/ Closed("db") \/ Farewell("left")
    BY <1>13 DEF SessionCommand, Decodes
  <2> QED BY <2>1, MovesStream, FarewellStream, ClosedStream DEF Awaited, Phases
<1>14. CASE TeleportCommand
  <2>1. /\ phase # "Handshake" /\ phase # "Closed" /\ pc = "loop"
        /\ Farewell("handoff") \/ (Stays("Command", <<>>) /\ UNCHANGED <<retries, sentAge>>)
    BY <1>14 DEF TeleportCommand, Running, At, Decodes
  <2> QED BY <2>1, <1>7, FarewellStream
<1>15. CASE Subscribe \/ SendReturns
  <2>1. /\ UNCHANGED <<kind, phase, why, seqS, sentAge, buf, net, inbox, cphase, seqC, waits>>
        /\ loopAge' = 0
        /\ pc' = pc \/ (pc = "entering" /\ pc' = "loop")
    BY <1>15 DEF Subscribe, SendReturns, rigid, client
  <2>2. CASE phase = "Closed"
    <3>1. StreamTypes' BY <2>1 DEF StreamInv
    <3> QED BY <2>1, <2>2, <3>1 DEF StreamInv, ConformingIsKept
  <2> QED BY <2>1, <2>2, QuietStream
<1> QED
  BY <1>1, <1>2, <1>3, <1>4, <1>5, <1>6, <1>8, <1>9, <1>10, <1>11, <1>12, <1>13, <1>14, <1>15
  DEF ServerStep

\* The parts of the invariant, for a step of the client, the network or time.
LEMMA OutsideStream ==
    ASSUME StreamInv, StreamTypes', UNCHANGED <<kind, why, phase>>,
           kind # "stray" /\ phase # "Closed" =>
              Sound(buf' \o net', inbox', phase', pc', seqS', seqC', cphase', waits', kind)
    PROVE  StreamInv'
BY DEF StreamInv, ConformingIsKept

\* What the client puts on the wire.
LEMMA SendsFacts ==
    ASSUME StreamTypes, NEW op \in AnyOpcode, NEW x \in Int, Sends(op, x)
    PROVE  /\ net' \in Seq(Tokens) /\ seqC' \in Int
           /\ Tok(op, x) \in Tokens /\ Tok("seq", seqC) \in Tokens
           /\ Sequenced(cphase, op) => /\ net' = net \o <<Tok(op, x), Tok("seq", seqC)>>
                                       /\ seqC' = Following(seqC)
           /\ ~Sequenced(cphase, op) => net' = net \o <<Tok(op, x)>> /\ seqC' = seqC
<1>1. net \in Seq(Tokens) /\ seqC \in Int BY DEF StreamTypes
<1>2. Tok(op, x) \in Tokens /\ Tok("seq", seqC) \in Tokens
  <2>1. \A o \in {"seq"} \cup AnyOpcode, y \in Int : Tok(o, y) \in Tokens BY DEF Tok, Tokens
  <2> QED BY <1>1, <2>1
<1>3. CASE Sequenced(cphase, op)
  <2>1. net' = net \o <<Tok(op, x), Tok("seq", seqC)>> /\ seqC' = Following(seqC)
    BY <1>3 DEF Sends, Encoded
  <2>2. net' \in Seq(Tokens) BY <1>1, <1>2, <2>1
  <2> QED BY <1>1, <1>2, <1>3, <2>1, <2>2, FollowingType
<1>4. CASE ~Sequenced(cphase, op)
  <2>1. net' = net \o <<Tok(op, x)>> /\ seqC' = seqC BY <1>4 DEF Sends, Encoded
  <2>2. net' \in Seq(Tokens) BY <1>1, <1>2, <2>1
  <2> QED BY <1>1, <1>2, <1>4, <2>1, <2>2
<1> QED BY <1>3, <1>4

\* A segment of the stream arrives.
LEMMA ArriveStream == ASSUME StreamInv, Arrive PROVE StreamInv'
<1>1. /\ net # <<>> /\ buf' = Append(buf, Head(net)) /\ net' = Tail(net)
      /\ UNCHANGED <<kind, why, phase, pc, seqS, sentAge, loopAge, inbox, cphase, seqC, waits>>
  BY DEF Arrive, rigid, client
<1>2. StreamTypes /\ buf \in Seq(Tokens) /\ net \in Seq(Tokens) /\ inbox \in Seq(Packets)
  BY DEF StreamInv, StreamTypes
<1>3. /\ Head(net) \in Tokens /\ Head(net) = net[1] /\ Tail(net) \in Seq(Tokens)
      /\ Len(Tail(net)) = Len(net) - 1 /\ Len(net) \in Nat /\ Len(net) >= 1
      /\ \A i \in 1 .. Len(net) - 1 : Tail(net)[i] = net[i + 1]
  BY <1>1, <1>2
<1>4. /\ buf' \in Seq(Tokens) /\ Len(buf') = Len(buf) + 1 /\ Len(buf) \in Nat
      /\ buf'[Len(buf) + 1] = net[1] /\ \A i \in 1 .. Len(buf) : buf'[i] = buf[i]
  BY <1>1, <1>2, <1>3
<1>5. net' \in Seq(Tokens) /\ Len(net') = Len(net) - 1 BY <1>1, <1>3
<1>6. StreamTypes' BY <1>1, <1>2, <1>4, <1>5 DEF StreamTypes
<1> DEFINE w == buf \o net
           v == buf' \o net'
<1>7. /\ w \in Seq(Tokens) /\ Len(w) = Len(buf) + Len(net)
      /\ \A i \in 1 .. Len(buf) : w[i] = buf[i]
      /\ \A i \in Len(buf) + 1 .. Len(buf) + Len(net) : w[i] = net[i - Len(buf)]
  BY <1>2, JoinFacts
<1>8. /\ v \in Seq(Tokens) /\ Len(v) = Len(buf') + Len(net')
      /\ \A i \in 1 .. Len(buf') : v[i] = buf'[i]
      /\ \A i \in Len(buf') + 1 .. Len(buf') + Len(net') : v[i] = net'[i - Len(buf')]
  BY <1>4, <1>5, JoinFacts
<1> HIDE DEF w, v
<1>9. Len(v) = Len(w) BY <1>3, <1>4, <1>5, <1>7, <1>8
<1>10. \A i \in 1 .. Len(w) : v[i] = w[i]
  <2> SUFFICES ASSUME NEW i \in 1 .. Len(w) PROVE v[i] = w[i] OBVIOUS
  <2>1. CASE i \in 1 .. Len(buf)
    BY <1>4, <1>7, <1>8, <2>1
  <2>2. CASE i = Len(buf) + 1
    <3>1. v[i] = net[1] BY <1>4, <1>8, <2>2
    <3>2. w[i] = net[i - Len(buf)] /\ i - Len(buf) = 1 BY <1>3, <1>4, <1>7, <2>2
    <3> QED BY <3>1, <3>2
  <2>3. CASE i > Len(buf) + 1
    <3>1. w[i] = net[i - Len(buf)] BY <1>3, <1>4, <1>7, <2>3
    <3>2. v[i] = net'[i - (Len(buf) + 1)] BY <1>3, <1>4, <1>5, <1>7, <1>8, <2>3
    <3>3. i - (Len(buf) + 1) \in 1 .. Len(net) - 1 BY <1>3, <1>4, <1>7, <2>3
    <3>4. net'[i - (Len(buf) + 1)] = net[i - (Len(buf) + 1) + 1] BY <1>1, <1>3, <3>3
    <3>5. i - (Len(buf) + 1) + 1 = i - Len(buf) BY <1>4
    <3> QED BY <3>1, <3>2, <3>4, <3>5
  <2> QED BY <1>3, <1>4, <1>7, <2>1, <2>2, <2>3
<1>11. ASSUME kind # "stray", phase # "Closed"
       PROVE  Sound(v, inbox', phase', pc', seqS', seqC', cphase', waits', kind)
  <2>1. Sound(w, inbox, phase, pc, seqS, seqC, cphase, waits, kind)
    BY <1>11 DEF StreamInv, w
  <2>2. Sound(v, inbox, phase, pc, seqS, seqC, cphase, waits, kind)
    BY <1>2, <1>7, <1>8, <1>9, <1>10, <2>1, SoundSame
  <2> QED BY <1>1, <2>2
<1> QED BY <1>1, <1>6, <1>11, OutsideStream DEF v

\* The tokens and the packets grow older and are otherwise the same.
LEMMA OlderFacts ==
    /\ \A s \in Seq(Tokens) :
          /\ Older(s) \in Seq(Tokens) /\ Len(Older(s)) = Len(s)
          /\ \A i \in 1 .. Len(s) : /\ Older(s)[i].op = s[i].op
                                    /\ s[i].op = "seq" => Older(s)[i].x = s[i].x
    /\ \A s \in Seq(Packets) :
          /\ Older(s) \in Seq(Packets) /\ Len(Older(s)) = Len(s)
          /\ \A i \in 1 .. Len(s) : /\ Older(s)[i].op = s[i].op
                                    /\ s[i].op = "SetClientPhase" => Older(s)[i].x = s[i].x
<1>1. \A a \in Int : Capped(a + 1) \in Int BY IntervalNumbers DEF Capped
<1> DEFINE Timed == {"HandshakeResponse", "RequestTimeSync", "RequestHandshake"}
           Aged(t) == IF t.op \in Timed THEN [t EXCEPT !.x = Capped(@ + 1)] ELSE t
<1>2. ASSUME NEW t \in Tokens
      PROVE  /\ Aged(t) \in Tokens /\ Aged(t).op = t.op /\ (t.op = "seq" => Aged(t).x = t.x)
  <2>1. CASE t.op \in Timed
    <3>1. Aged(t) = [t EXCEPT !.x = Capped(t.x + 1)] BY <2>1
    <3>2. Capped(t.x + 1) \in Int BY <1>1 DEF Tokens
    <3> QED BY <2>1, <3>1, <3>2 DEF Tokens
  <2>2. CASE t.op \notin Timed BY <2>2
  <2> QED BY <2>1, <2>2
<1>3. ASSUME NEW t \in Packets
      PROVE  /\ Aged(t) \in Packets /\ Aged(t).op = t.op
             /\ t.op = "SetClientPhase" => Aged(t).x = t.x
  <2>1. CASE t.op \in Timed
    <3>1. Aged(t) = [t EXCEPT !.x = Capped(t.x + 1)] BY <2>1
    <3>2. t \in [op : {"RequestHeartbeat", "RequestHandshake"}, x : Int, d : Int]
      BY <2>1 DEF Packets
    <3>3. Capped(t.x + 1) \in Int BY <1>1, <3>2
    <3> QED BY <2>1, <3>1, <3>2, <3>3 DEF Packets
  <2>2. CASE t.op \notin Timed BY <2>2
  <2> QED BY <2>1, <2>2
<1>4. ASSUME NEW s, \E S : s \in Seq(S)
      PROVE  Older(s) = [i \in 1 .. Len(s) |-> Aged(s[i])]
  BY <1>4 DEF Older
<1> HIDE DEF Aged
<1>5. ASSUME NEW s \in Seq(Tokens)
      PROVE  /\ Older(s) \in Seq(Tokens) /\ Len(Older(s)) = Len(s)
             /\ \A i \in 1 .. Len(s) : /\ Older(s)[i].op = s[i].op
                                       /\ s[i].op = "seq" => Older(s)[i].x = s[i].x
  <2>1. Older(s) = [i \in 1 .. Len(s) |-> Aged(s[i])] /\ Len(s) \in Nat BY <1>4
  <2>2. \A i \in 1 .. Len(s) : s[i] \in Tokens OBVIOUS
  <2>3. [i \in 1 .. Len(s) |-> Aged(s[i])] \in Seq(Tokens) BY <1>2, <2>1, <2>2
  <2>4. Older(s) \in Seq(Tokens) /\ Len(Older(s)) = Len(s) BY <2>1, <2>3
  <2>5. \A i \in 1 .. Len(s) : Older(s)[i] = Aged(s[i]) BY <2>1
  <2> QED BY <1>2, <2>2, <2>4, <2>5
<1>6. ASSUME NEW s \in Seq(Packets)
      PROVE  /\ Older(s) \in Seq(Packets) /\ Len(Older(s)) = Len(s)
             /\ \A i \in 1 .. Len(s) : /\ Older(s)[i].op = s[i].op
                                       /\ s[i].op = "SetClientPhase" => Older(s)[i].x = s[i].x
  <2>1. Older(s) = [i \in 1 .. Len(s) |-> Aged(s[i])] /\ Len(s) \in Nat BY <1>4
  <2>2. \A i \in 1 .. Len(s) : s[i] \in Packets OBVIOUS
  <2>3. [i \in 1 .. Len(s) |-> Aged(s[i])] \in Seq(Packets) BY <1>3, <2>1, <2>2
  <2>4. Older(s) \in Seq(Packets) /\ Len(Older(s)) = Len(s) BY <2>1, <2>3
  <2>5. \A i \in 1 .. Len(s) : Older(s)[i] = Aged(s[i]) BY <2>1
  <2> QED BY <1>3, <2>2, <2>4, <2>5
<1> QED BY <1>5, <1>6

\* A unit of time.
LEMMA TimeStream == ASSUME StreamInv, Time PROVE StreamInv'
<1>1. /\ phase # "Closed" /\ sentAge' = Capped(sentAge + 1)
      /\ loopAge' = loopAge \/ loopAge' = Capped(loopAge + 1)
      /\ buf' = Older(buf) /\ net' = Older(net) /\ inbox' = Older(inbox)
      /\ UNCHANGED <<kind, phase, why, pc, seqS, cphase, seqC, waits>>
  BY DEF Time, rigid, client
<1>2. /\ StreamTypes /\ buf \in Seq(Tokens) /\ net \in Seq(Tokens) /\ inbox \in Seq(Packets)
      /\ sentAge \in Int /\ loopAge \in Int
  BY DEF StreamInv, StreamTypes
<1>3. sentAge' \in Int /\ loopAge' \in Int
  <2>1. \A a \in Int : Capped(a + 1) \in Int BY IntervalNumbers DEF Capped
  <2> QED BY <1>1, <1>2, <2>1
<1>4. /\ buf' \in Seq(Tokens) /\ Len(buf') = Len(buf)
      /\ \A i \in 1 .. Len(buf) : buf'[i].op = buf[i].op /\ (buf[i].op = "seq" => buf'[i].x = buf[i].x)
  BY <1>1, <1>2, OlderFacts
<1>5. /\ net' \in Seq(Tokens) /\ Len(net') = Len(net)
      /\ \A i \in 1 .. Len(net) : net'[i].op = net[i].op /\ (net[i].op = "seq" => net'[i].x = net[i].x)
  BY <1>1, <1>2, OlderFacts
<1>6. /\ inbox' \in Seq(Packets) /\ Len(inbox') = Len(inbox)
      /\ \A i \in 1 .. Len(inbox) :
            /\ inbox'[i].op = inbox[i].op
            /\ inbox[i].op = "SetClientPhase" => inbox'[i].x = inbox[i].x
  BY <1>1, <1>2, OlderFacts
<1>7. StreamTypes' BY <1>1, <1>2, <1>3, <1>4, <1>5, <1>6 DEF StreamTypes
<1> DEFINE w == buf \o net
           v == buf' \o net'
<1>8. /\ w \in Seq(Tokens) /\ Len(w) = Len(buf) + Len(net)
      /\ \A i \in 1 .. Len(buf) : w[i] = buf[i]
      /\ \A i \in Len(buf) + 1 .. Len(buf) + Len(net) : w[i] = net[i - Len(buf)]
  BY <1>2, JoinFacts
<1>9. /\ v \in Seq(Tokens) /\ Len(v) = Len(buf) + Len(net)
      /\ \A i \in 1 .. Len(buf) : v[i] = buf'[i]
      /\ \A i \in Len(buf) + 1 .. Len(buf) + Len(net) : v[i] = net'[i - Len(buf)]
  <2>1. /\ v \in Seq(Tokens) /\ Len(v) = Len(buf') + Len(net')
        /\ \A i \in 1 .. Len(buf') : v[i] = buf'[i]
        /\ \A i \in Len(buf') + 1 .. Len(buf') + Len(net') : v[i] = net'[i - Len(buf')]
    BY <1>4, <1>5, JoinFacts
  <2> HIDE DEF v
  <2> QED BY <1>4, <1>5, <2>1
<1> HIDE DEF w, v
<1>10. \A i \in 1 .. Len(w) : v[i].op = w[i].op /\ (w[i].op = "seq" => v[i].x = w[i].x)
  <2> SUFFICES ASSUME NEW i \in 1 .. Len(w)
               PROVE  v[i].op = w[i].op /\ (w[i].op = "seq" => v[i].x = w[i].x)
    OBVIOUS
  <2>1. Len(buf) \in Nat /\ Len(net) \in Nat BY <1>2
  <2>2. CASE i \in 1 .. Len(buf) BY <1>4, <1>8, <1>9, <2>2
  <2>3. CASE i \in Len(buf) + 1 .. Len(buf) + Len(net)
    <3>1. i - Len(buf) \in 1 .. Len(net) BY <2>1, <2>3
    <3>2. w[i] = net[i - Len(buf)] /\ v[i] = net'[i - Len(buf)] BY <1>8, <1>9, <2>3
    <3> QED BY <1>5, <3>1, <3>2
  <2> QED BY <1>8, <2>1, <2>2, <2>3
<1>11. ASSUME kind # "stray", phase # "Closed"
       PROVE  Sound(v, inbox', phase', pc', seqS', seqC', cphase', waits', kind)
  <2>1. Sound(w, inbox, phase, pc, seqS, seqC, cphase, waits, kind)
    BY <1>11 DEF StreamInv, w
  <2>2. Sound(v, inbox', phase, pc, seqS, seqC, cphase, waits, kind)
    BY <1>2, <1>6, <1>8, <1>9, <1>10, <2>1, SoundSame
  <2> QED BY <1>1, <2>2
<1> QED BY <1>1, <1>7, <1>11, OutsideStream DEF v

\* The opcodes of a phase are opcodes.
LEMMA OpcodesAreKnown ==
    /\ \A p : Opcodes(p) \subseteq AnyOpcode
    /\ Opcodes("Handshake") \ Unsequenced = {"RequestTimeSync", "FetchChannelList"}
    /\ Control \subseteq AnyOpcode /\ "Intent" \in AnyOpcode
<1>1. \A p : Opcodes(p) \subseteq AnyOpcode
  <2> SUFFICES ASSUME NEW p PROVE Opcodes(p) \subseteq AnyOpcode OBVIOUS
  <2>1. CASE p \in Phases BY <2>1 DEF Opcodes, AnyOpcode, Phases
  <2>2. CASE p \notin Phases
    <3>1. Opcodes(p) = Control \cup {} BY <2>2 DEF Opcodes, Phases
    <3> QED BY <3>1 DEF AnyOpcode
  <2> QED BY <2>1, <2>2
<1>2. Opcodes("Handshake") \ Unsequenced = {"RequestTimeSync", "FetchChannelList"}
  BY DEF Opcodes, Control, Unsequenced
<1>3. Control \subseteq AnyOpcode /\ "Intent" \in AnyOpcode BY DEF AnyOpcode
<1> QED BY <1>1, <1>2, <1>3

\* The client sends a request of its own.
LEMMA RequestsStream == ASSUME StreamInv, ClientRequests PROVE StreamInv'
<1>1. /\ cphase \in Phases /\ ~waits /\ inbox = <<>>
      /\ UNCHANGED <<kind, why, phase, pc, seqS, sentAge, loopAge, buf, inbox, cphase>>
  BY DEF ClientRequests, rigid, server
<1>2. PICK op \in Opcodes(cphase) \ Unsequenced :
         /\ op = "FetchChannelList" => kind = "lister"
         /\ op = "RequestTimeSync" => cphase # "Handshake"
         /\ Sends(op, 0) /\ waits' = (op \in Awaited)
  BY DEF ClientRequests
<1>3. StreamTypes /\ buf \in Seq(Tokens) /\ net \in Seq(Tokens) /\ phase \in Phases \cup {"Closed"}
  BY DEF StreamInv, StreamTypes
<1>4. op \in AnyOpcode BY <1>2, OpcodesAreKnown
<1> DEFINE t == Tok(op, 0)
           u == Tok("seq", seqC)
<1>5. /\ net' \in Seq(Tokens) /\ seqC' \in Int /\ t \in Tokens /\ u \in Tokens
      /\ Sequenced(cphase, op) => net' = net \o <<t, u>> /\ seqC' = Following(seqC)
      /\ ~Sequenced(cphase, op) => net' = net \o <<t>> /\ seqC' = seqC
  BY <1>2, <1>3, <1>4, SendsFacts
<1>6. t.op = op /\ u.op = "seq" /\ u.x = seqC BY DEF Tok
<1> HIDE DEF t, u
<1>7. StreamTypes' BY <1>1, <1>3, <1>5 DEF StreamTypes
<1>8. ASSUME kind # "stray", phase # "Closed"
      PROVE  Sound(buf' \o net', inbox', phase', pc', seqS', seqC', cphase', waits', kind)
  <2> DEFINE w == buf \o net
  <2>1. Sound(w, <<>>, phase, pc, seqS, seqC, cphase, waits, kind)
    BY <1>1, <1>8 DEF StreamInv
  <2>2. phase \in Phases /\ w \in Seq(Tokens) BY <1>3, <1>8, JoinFacts
  <2>3. /\ buf \o (net \o <<t>>) \in Seq(Tokens)
        /\ Len(buf \o (net \o <<t>>)) = Len(w) + 1
        /\ (buf \o (net \o <<t>>))[Len(w) + 1] = t
        /\ \A i \in 1 .. Len(w) : (buf \o (net \o <<t>>))[i] = w[i]
        /\ buf \o (net \o <<t, u>>) \in Seq(Tokens)
        /\ Len(buf \o (net \o <<t, u>>)) = Len(w) + 2
        /\ (buf \o (net \o <<t, u>>))[Len(w) + 1] = t
        /\ (buf \o (net \o <<t, u>>))[Len(w) + 2] = u
        /\ \A i \in 1 .. Len(w) : (buf \o (net \o <<t, u>>))[i] = w[i]
    <3>1. buf \in Seq(Tokens) /\ net \in Seq(Tokens) /\ t \in Tokens /\ u \in Tokens
      BY <1>3, <1>5
    <3> HIDE DEF w
    <3>2. w = buf \o net BY DEF w
    <3> QED BY <3>1, <3>2, SentFacts
  <2> DEFINE v == buf \o net'
  <2>4. /\ v \in Seq(Tokens) /\ \A i \in 1 .. Len(w) : v[i] = w[i]
        /\ v[Len(w) + 1] = t
        /\ Sequenced(cphase, op) => Len(v) = Len(w) + 2 /\ v[Len(w) + 2] = u
        /\ ~Sequenced(cphase, op) => Len(v) = Len(w) + 1
    BY <1>5, <2>3
  <2> HIDE DEF w, v
  <2>5. ~(phase = "Handshake" /\ pc = "enter")
    BY <1>1, <2>1 DEF Sound, HandshakeAlternates, Phases
  <2>6. cphase = phase
    <3>1. Unread(<<>>, "SetClientPhase") = {} BY DEF Unread
    <3> QED BY <2>1, <2>5, <3>1 DEF Sound, PhaseIsTold
  <2>7. CASE phase = "Handshake"
    <3>1. op = "FetchChannelList" /\ kind = "lister" BY <1>2, <2>6, <2>7, OpcodesAreKnown
    <3>2. ~Sequenced(cphase, op) BY <2>6, <2>7 DEF Sequenced
    <3>3. Sound(w, <<>>, "Handshake", pc, seqS, seqC, cphase, waits, "lister")
      BY <2>1, <2>7, <3>1
    <3>4. pc # "enter" BY <2>5, <2>7
    <3>5. Len(v) = Len(w) + 1 /\ t.op = "FetchChannelList" /\ seqC' = seqC
      BY <1>5, <1>6, <2>4, <3>1, <3>2
    <3>6. Sound(v, <<>>, "Handshake", pc, seqS, seqC, cphase, waits', "lister")
      BY <1>5, <2>2, <2>4, <3>3, <3>4, <3>5, SoundAsksForList
    <3> QED BY <1>1, <2>7, <3>1, <3>5, <3>6 DEF v
  <2>8. CASE phase # "Handshake"
    <3>1. Sequenced(cphase, op) BY <1>2, <2>6, <2>8 DEF Sequenced
    <3>2. Len(v) = Len(w) + 2 /\ v[Len(w) + 2] = u /\ seqC' = Following(seqC)
      BY <1>5, <2>4, <3>1
    <3>3. t.op \in Opcodes(phase) \ Unsequenced BY <1>2, <1>6, <2>6
    <3>4. /\ Sound(v, <<>>, phase, pc, seqS, Following(seqC), cphase, TRUE, kind)
          /\ t.op \notin Awaited =>
                Sound(v, <<>>, phase, pc, seqS, Following(seqC), cphase, FALSE, kind)
      <4>1. /\ t \in Tokens /\ u \in Tokens /\ v \in Seq(Tokens) /\ v[Len(w) + 1] = t
            /\ \A i \in 1 .. Len(w) : v[i] = w[i]
        BY <1>1, <1>5, <2>4
      <4>2. /\ w \in Seq(Tokens) /\ phase \in Phases /\ phase # "Handshake"
            /\ Len(v) = Len(w) + 2 /\ v[Len(w) + 2] = u /\ u.op = "seq" /\ u.x = seqC
        BY <1>6, <2>2, <2>8, <3>2
      <4>3. NoRequest(w) BY <1>1, <2>1 DEF Sound, RequestIsAwaited, NoRequest
      <4> QED BY <2>1, <3>3, <4>1, <4>2, <4>3, SoundRequests
    <3>5. Sound(v, <<>>, phase, pc, seqS, Following(seqC), cphase, waits', kind)
      <4>1. waits' = (op \in Awaited) BY <1>2
      <4>2. CASE op \in Awaited
        <5>1. waits' = TRUE BY <4>1, <4>2
        <5> QED BY <3>4, <5>1
      <4>3. CASE op \notin Awaited
        <5>1. (op \in Awaited) = FALSE BY <4>3
        <5>2. waits' = FALSE BY <4>1, <5>1
        <5> QED BY <1>6, <3>4, <4>3, <5>2
      <4> QED BY <4>2, <4>3
    <3> QED BY <1>1, <3>2, <3>5 DEF v
  <2> QED BY <2>7, <2>8
<1> QED BY <1>1, <1>7, <1>8, OutsideStream

\* What the client has in hand when it reads a packet.
LEMMA AnswerSent ==
    ASSUME StreamTypes, NEW op \in Unsequenced, NEW x \in Int, Sends(op, x)
    PROVE  /\ net' \in Seq(Tokens) /\ seqC' = seqC /\ buf \o net \in Seq(Tokens)
           /\ buf \o net' \in Seq(Tokens) /\ Tok(op, x) \in Tokens /\ Tok(op, x).op = op
           /\ Len(buf \o net') = Len(buf \o net) + 1
           /\ (buf \o net')[Len(buf \o net) + 1] = Tok(op, x)
           /\ \A i \in 1 .. Len(buf \o net) : (buf \o net')[i] = (buf \o net)[i]
<1> DEFINE t == Tok(op, x)
<1>1. op \in AnyOpcode BY OpcodeFacts, OpcodesAreKnown
<1>2. ~Sequenced(cphase, op) BY DEF Sequenced
<1>3. net' \in Seq(Tokens) /\ t \in Tokens /\ net' = net \o <<t>> /\ seqC' = seqC
  BY <1>1, <1>2, SendsFacts
<1>4. t.op = op BY DEF Tok
<1>5. buf \in Seq(Tokens) /\ net \in Seq(Tokens) BY DEF StreamTypes
<1> HIDE DEF t
<1>6. /\ buf \o (net \o <<t>>) \in Seq(Tokens)
      /\ Len(buf \o (net \o <<t>>)) = Len(buf \o net) + 1
      /\ (buf \o (net \o <<t>>))[Len(buf \o net) + 1] = t
      /\ \A i \in 1 .. Len(buf \o net) : (buf \o (net \o <<t>>))[i] = (buf \o net)[i]
  BY <1>3, <1>5, SentFacts
<1>7. buf \o net \in Seq(Tokens) BY <1>5, JoinFacts
<1>8. t = Tok(op, x) BY DEF t
<1> QED BY <1>3, <1>4, <1>6, <1>7, <1>8

\* The client reads a packet and answers it.
LEMMA ReadsStream == ASSUME StreamInv, ClientReads PROVE StreamInv'
<1> DEFINE m == Head(inbox)
           w == buf \o net
           v == buf \o net'
<1>1. /\ inbox # <<>> /\ inbox' = Tail(inbox)
      /\ UNCHANGED <<kind, why, phase, pc, seqS, sentAge, loopAge, buf>>
  BY DEF ClientReads, rigid, server
<1>2. /\ StreamTypes /\ buf \in Seq(Tokens) /\ net \in Seq(Tokens) /\ inbox \in Seq(Packets)
      /\ phase \in Phases \cup {"Closed"} /\ seqC \in Int /\ w \in Seq(Tokens)
  BY JoinFacts DEF StreamInv, StreamTypes
<1>3. Tail(inbox) \in Seq(Packets) /\ m = inbox[1] /\ m \in Packets /\ 1 \in DOMAIN inbox
  BY <1>1, <1>2, TailUnread
<1>4. inbox' \in Seq(Packets) BY <1>1, <1>3
<1>5. ASSUME kind # "stray", phase # "Closed"
      PROVE  /\ Sound(w, inbox, phase, pc, seqS, seqC, cphase, waits, kind)
             /\ phase \in Phases
  BY <1>2, <1>5 DEF StreamInv
<1>6. \/ /\ m.op = "SetClientPhase" /\ cphase' = m.x /\ waits' = FALSE
         /\ net' = net /\ seqC' = seqC
      \/ /\ m.op = "RequestHeartbeat" /\ Sends("HeartbeatResponse", 0)
         /\ cphase' = cphase /\ waits' = waits
      \/ /\ m.op \notin {"SetClientPhase", "RequestHeartbeat"}
         /\ kind # "lister" /\ (cphase = "Handshake" \/ AnswersAlways)
         /\ \E a \in {m.x, m.x - 2 * m.d} : Sends("HandshakeResponse", a)
         /\ cphase' = cphase /\ waits' = waits
      \/ /\ m.op \notin {"SetClientPhase", "RequestHeartbeat"}
         /\ net' = net /\ seqC' = seqC /\ cphase' = cphase /\ waits' = waits
  BY DEF ClientReads
<1> HIDE DEF m, w, v
<1>7. CASE /\ m.op = "SetClientPhase" /\ cphase' = m.x /\ waits' = FALSE
           /\ net' = net /\ seqC' = seqC
  <2>1. m.x \in Phases BY <1>3, <1>7 DEF Packets
  <2>2. StreamTypes' BY <1>1, <1>2, <1>4, <1>7, <2>1 DEF StreamTypes
  <2>3. ASSUME kind # "stray", phase # "Closed"
        PROVE  Sound(buf' \o net', inbox', phase', pc', seqS', seqC', cphase', waits', kind)
    <3>1. /\ inbox[1].x = phase
          /\ Sound(w, Tail(inbox), phase, pc, seqS, seqC, phase, FALSE, kind)
      BY <1>1, <1>2, <1>3, <1>5, <1>7, <2>3, SoundReadsPhase
    <3> QED BY <1>1, <1>3, <1>7, <3>1 DEF w
  <2> QED BY <1>1, <2>2, <2>3, OutsideStream
<1>8. CASE /\ m.op = "RequestHeartbeat" /\ Sends("HeartbeatResponse", 0)
           /\ cphase' = cphase /\ waits' = waits
  <2> DEFINE t == Tok("HeartbeatResponse", 0)
  <2>1. /\ net' \in Seq(Tokens) /\ seqC' = seqC /\ v \in Seq(Tokens) /\ t \in Tokens
        /\ t.op = "HeartbeatResponse" /\ Len(v) = Len(w) + 1 /\ v[Len(w) + 1] = t
        /\ \A i \in 1 .. Len(w) : v[i] = w[i]
    BY <1>2, <1>8, AnswerSent DEF Unsequenced, w, v
  <2> HIDE DEF t
  <2>2. StreamTypes' BY <1>1, <1>2, <1>4, <1>8, <2>1 DEF StreamTypes
  <2>3. ASSUME kind # "stray", phase # "Closed"
        PROVE  Sound(buf' \o net', inbox', phase', pc', seqS', seqC', cphase', waits', kind)
    <3>1. Sound(w, Tail(inbox), phase, pc, seqS, seqC, cphase, waits, kind)
      BY <1>1, <1>2, <1>3, <1>5, <1>8, <2>3, SoundSkips
    <3>2. phase # "Handshake"
      <4>1. 1 \in Unread(inbox, "RequestHeartbeat") BY <1>3, <1>8 DEF Unread
      <4> QED BY <1>5, <2>3, <4>1 DEF Sound, HandshakeAlternates
    <3>3. t.op \in Unsequenced /\ t.op # "HandshakeResponse" BY <2>1 DEF Unsequenced
    <3>4. Sound(v, Tail(inbox), phase, pc, seqS, seqC, cphase, waits, kind)
      BY <1>2, <1>5, <2>1, <2>3, <3>1, <3>2, <3>3, SoundReplies
    <3> QED BY <1>1, <1>8, <2>1, <3>4 DEF v
  <2> QED BY <1>1, <2>2, <2>3, OutsideStream
<1>9. CASE /\ m.op \notin {"SetClientPhase", "RequestHeartbeat"}
           /\ kind # "lister" /\ (cphase = "Handshake" \/ AnswersAlways)
           /\ \E a \in {m.x, m.x - 2 * m.d} : Sends("HandshakeResponse", a)
           /\ cphase' = cphase /\ waits' = waits
  <2>1. PICK a \in {m.x, m.x - 2 * m.d} : Sends("HandshakeResponse", a) BY <1>9
  <2>2. m.op = "RequestHandshake" /\ m.x \in Int /\ m.d \in Int BY <1>3, <1>9 DEF Packets
  <2>3. a \in Int BY <2>1, <2>2
  <2> DEFINE t == Tok("HandshakeResponse", a)
  <2>4. /\ net' \in Seq(Tokens) /\ seqC' = seqC /\ v \in Seq(Tokens) /\ t \in Tokens
        /\ t.op = "HandshakeResponse" /\ Len(v) = Len(w) + 1 /\ v[Len(w) + 1] = t
        /\ \A i \in 1 .. Len(w) : v[i] = w[i]
    BY <1>2, <2>1, <2>3, AnswerSent DEF Unsequenced, w, v
  <2> HIDE DEF t
  <2>5. StreamTypes' BY <1>1, <1>2, <1>4, <1>9, <2>4 DEF StreamTypes
  <2>6. ASSUME kind # "stray", phase # "Closed"
        PROVE  Sound(buf' \o net', inbox', phase', pc', seqS', seqC', cphase', waits', kind)
    <3>1. Sound(w, Tail(inbox), phase, pc, seqS, seqC, cphase, waits, kind)
      BY <1>1, <1>2, <1>3, <1>5, <1>9, <2>6, SoundSkips
    <3>2. CASE phase = "Handshake"
      <4>1. Sound(w, inbox, "Handshake", pc, seqS, seqC, cphase, waits, kind)
        BY <1>5, <2>6, <3>2
      <4>2. inbox[1].op = "RequestHandshake" BY <1>3, <2>2
      <4>3. Sound(v, Tail(inbox), "Handshake", pc, seqS, seqC, cphase, waits, kind)
        BY <1>1, <1>2, <1>9, <2>4, <4>1, <4>2, SoundShakesHands
      <4> QED BY <1>1, <1>9, <2>4, <3>2, <4>3 DEF v
    <3>3. CASE phase # "Handshake"
      <4>1. AnswersAlways
        BY <1>3, <1>5, <1>9, <2>2, <2>6, <3>3 DEF Sound, HandshakeIsOver
      <4>2. t.op \in Unsequenced BY <2>4 DEF Unsequenced
      <4>3. Sound(v, Tail(inbox), phase, pc, seqS, seqC, cphase, waits, kind)
        BY <1>2, <1>5, <2>4, <2>6, <3>1, <3>3, <4>1, <4>2, SoundReplies
      <4> QED BY <1>1, <1>9, <2>4, <4>3 DEF v
    <3> QED BY <3>2, <3>3
  <2> QED BY <1>1, <2>5, <2>6, OutsideStream
<1>10. CASE /\ m.op \notin {"SetClientPhase", "RequestHeartbeat"}
            /\ net' = net /\ seqC' = seqC /\ cphase' = cphase /\ waits' = waits
  <2>1. StreamTypes' BY <1>1, <1>2, <1>4, <1>10 DEF StreamTypes
  <2>2. ASSUME kind # "stray", phase # "Closed"
        PROVE  Sound(buf' \o net', inbox', phase', pc', seqS', seqC', cphase', waits', kind)
    <3>1. Sound(w, Tail(inbox), phase, pc, seqS, seqC, cphase, waits, kind)
      BY <1>1, <1>2, <1>3, <1>5, <1>10, <2>2, SoundSkips
    <3> QED BY <1>1, <1>10, <3>1 DEF w
  <2> QED BY <1>1, <2>1, <2>2, OutsideStream
<1> QED BY <1>6, <1>7, <1>8, <1>9, <1>10

\* The client stops waiting, strays, falls silent or closes its end.
LEMMA OtherClientStream ==
    ASSUME StreamInv, \/ ClientGivesUpWaiting \/ ClientStrays \/ ClientEnds \/ ClientRecovers
                      \/ BeginDraining \/ MapTraffic \/ UNCHANGED vars
    PROVE  StreamInv'
<1>1. StreamTypes /\ buf \in Seq(Tokens) /\ net \in Seq(Tokens) /\ seqC \in Int
  BY DEF StreamInv, StreamTypes
<1>2. CASE ClientGivesUpWaiting
  <2>1. /\ net = <<>> /\ buf = <<>> /\ waits' = FALSE
        /\ UNCHANGED <<kind, why, phase, pc, seqS, sentAge, loopAge, buf, net, inbox, cphase, seqC>>
    BY <1>2 DEF ClientGivesUpWaiting, rigid, server
  <2>2. StreamTypes' BY <1>1, <2>1 DEF StreamTypes
  <2>3. ASSUME kind # "stray", phase # "Closed"
        PROVE  Sound(buf' \o net', inbox', phase', pc', seqS', seqC', cphase', waits', kind)
    <3> DEFINE w == buf \o net
    <3>1. w = <<>> BY <2>1
    <3>2. Sound(w, inbox, phase, pc, seqS, seqC, cphase, waits, kind) BY <2>3 DEF StreamInv
    <3> HIDE DEF w
    <3>3. Sound(w, inbox, phase, pc, seqS, seqC, cphase, FALSE, kind)
      BY <3>1, <3>2, SoundGivesUp
    <3> QED BY <2>1, <3>3 DEF w
  <2> QED BY <2>1, <2>2, <2>3, OutsideStream
<1>3. CASE ClientStrays
  <2>1. /\ kind = "stray"
        /\ UNCHANGED <<kind, why, phase, pc, seqS, sentAge, loopAge, buf, inbox, cphase, waits>>
    BY <1>3 DEF ClientStrays, rigid, server
  <2>2. net' \in Seq(Tokens) /\ seqC' \in Int
    <3>1. CASE \E op \in Control \cup {"Intent"} : Sends(op, 0)
      <4>1. PICK op \in Control \cup {"Intent"} : Sends(op, 0) BY <3>1
      <4>2. op \in AnyOpcode /\ 0 \in Int BY <4>1, OpcodesAreKnown
      <4> QED BY <1>1, <4>1, <4>2, SendsFacts
    <3>2. CASE /\ \E op \in Opcodes(cphase) \ Control :
                     net' = net \o <<Tok(op, 0), Tok("seq", Following(seqC))>>
               /\ UNCHANGED seqC
      <4>1. PICK op \in Opcodes(cphase) :
               net' = net \o <<Tok(op, 0), Tok("seq", Following(seqC))>>
        BY <3>2
      <4>2. \A o \in {"seq"} \cup AnyOpcode, y \in Int : Tok(o, y) \in Tokens BY DEF Tok, Tokens
      <4>3. op \in AnyOpcode /\ Following(seqC) \in Int /\ 0 \in Int
        BY <1>1, <4>1, OpcodesAreKnown, FollowingType
      <4>4. Tok(op, 0) \in Tokens /\ Tok("seq", Following(seqC)) \in Tokens BY <4>2, <4>3
      <4> QED BY <1>1, <3>2, <4>1, <4>4
    <3> QED BY <1>3, <3>1, <3>2 DEF ClientStrays
  <2>3. StreamTypes' BY <1>1, <2>1, <2>2 DEF StreamTypes
  <2> QED BY <2>1, <2>3, OutsideStream
<1>4. CASE ClientEnds \/ ClientRecovers \/ BeginDraining \/ MapTraffic \/ UNCHANGED vars
  <2>1. UNCHANGED <<kind, why, phase, pc, seqS, sentAge, loopAge, buf, net, inbox, cphase,
                    seqC, waits>>
    BY <1>4 DEF ClientEnds, ClientRecovers, BeginDraining, MapTraffic, vars, rigid, server, client
  <2>2. StreamTypes' BY <1>1, <2>1 DEF StreamTypes
  <2> QED BY <2>1, <2>2, OutsideStream DEF StreamInv
<1> QED BY <1>2, <1>3, <1>4

\* At the start nothing has been sent.
LEMMA InitStream == Init => StreamInv
<1> SUFFICES ASSUME Init PROVE StreamInv
  OBVIOUS
<1>1. /\ phase = "Handshake" /\ why = "open" /\ pc = "enter" /\ seqS = 0 /\ sentAge = 0
      /\ loopAge = 0 /\ buf = <<>> /\ net = <<>> /\ inbox = <<>> /\ cphase = "Connected"
      /\ seqC = 0
  BY DEF Init
<1>2. <<>> \in Seq(Tokens) /\ <<>> \in Seq(Packets) OBVIOUS
<1>3. StreamTypes BY <1>1, <1>2 DEF StreamTypes, Phases
<1> DEFINE w == buf \o net
<1>4. w = <<>> BY <1>1
<1> HIDE DEF w
<1>5. DOMAIN w = {} /\ Len(w) = 0 BY <1>4
<1>6. Framed(w, phase) /\ NothingBehind(w) BY <1>5 DEF Framed, NothingBehind
<1>7. InStep(w, seqS, seqC)
  <2>1. SeqBytes(w) = {} BY <1>5 DEF SeqBytes
  <2> QED BY <1>1, <2>1 DEF InStep
<1>8. \A op : Unread(inbox, op) = {} BY <1>1 DEF Unread
<1>9. PhaseIsTold(inbox, phase, pc, cphase) BY <1>1, <1>8 DEF PhaseIsTold
<1>10. RequestIsAwaited(w, inbox, waits) BY <1>5 DEF RequestIsAwaited
<1>11. HandshakeAlternates(w, inbox, pc, cphase, seqS, kind)
  BY <1>1, <1>4, <1>5, <1>8 DEF HandshakeAlternates
<1>12. Sound(w, inbox, phase, pc, seqS, seqC, cphase, waits, kind)
  BY <1>1, <1>6, <1>7, <1>9, <1>10, <1>11 DEF Sound
<1> QED BY <1>1, <1>3, <1>12 DEF StreamInv, ConformingIsKept, w

\* The stream's invariant holds whatever the length of the table, the bound on
\* what is in flight and the client's way with a late RequestHandshake.
THEOREM StreamInvariant == Spec => []StreamInv
<1>1. StreamInv /\ [Next]_vars => StreamInv'
  <2> SUFFICES ASSUME StreamInv, [Next]_vars PROVE StreamInv'
    OBVIOUS
  <2>1. CASE ServerStep BY <2>1, ServerStream
  <2>2. CASE MapHandsOff BY <2>2, FarewellStream DEF MapHandsOff, Running, At
  <2>3. CASE Arrive BY <2>3, ArriveStream
  <2>4. CASE ClientRequests BY <2>4, RequestsStream
  <2>5. CASE ClientReads BY <2>5, ReadsStream
  <2>6. CASE ClientGivesUpWaiting \/ ClientStrays \/ ClientEnds \/ ClientRecovers
             \/ BeginDraining \/ MapTraffic \/ UNCHANGED vars
    BY <2>6, OtherClientStream
  <2>7. CASE Time BY <2>7, TimeStream
  <2> QED BY <2>1, <2>2, <2>3, <2>4, <2>5, <2>6, <2>7 DEF Next
<1> QED BY <1>1, InitStream, PTL DEF Spec

\* The sequencers of a client that keeps to the protocol and of the server
\* (PacketSequencer::next_byte on both ends) never lose step, for a table of
\* any length and a stream of any length, cut anywhere.
THEOREM SequencersStayInStep == Spec => []SequencersAgree
<1>1. StreamInv => SequencersAgree BY DEF StreamInv, SequencersAgree, Sound
<1> QED BY <1>1, StreamInvariant, PTL

\* A client that keeps to the protocol and answers no RequestHandshake outside
\* the handshake is never disconnected for a protocol error.
THEOREM ConformingClientsAreKept ==
    ASSUME ~AnswersAlways PROVE Spec => []ConformingIsKept
<1>1. StreamInv => ConformingIsKept BY DEF StreamInv
<1> QED BY <1>1, StreamInvariant, PTL
================================================================================
