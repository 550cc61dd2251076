----------------------------- MODULE Connection -----------------------------
(***************************************************************************)
(* One client connection of a game server: the byte stream and its codecs  *)
(* (zohar-net), the time handshake (zohar-protocol) and the phase handlers *)
(* (zohar-gamesrv/src/handlers): Handshake, Login, Select, Loading, InGame *)
(* and back to Select, on a map core or on the channel gateway.            *)
(*                                                                         *)
(* The client's bytes are abstracted to tokens: the body of a packet is    *)
(* one token and the sequence byte behind it is another, and they reach    *)
(* the server's read buffer one at a time, as segments of a stream do.     *)
(* Answers of the server that tell the client nothing it acts on are left  *)
(* out of `inbox`.  Time is relative: a time stamp is held as its age.     *)
(***************************************************************************)
EXTENDS Integers, Sequences

CONSTANTS Clients,             \* the kinds of client, see `kind`
          HeartbeatInterval,   \* in units of time
          Tolerance,           \* HANDSHAKE_BIAS_TOLERANCE_MS
          RetryLimit,          \* HANDSHAKE_RETRY_LIMIT
          SeqLength,           \* length of the table of sequence bytes
          AnswersAlways,       \* does the client answer a late RequestHandshake?
          MaxInFlight,         \* bound, for each kind: tokens on their way when it sends
          MaxUnread,           \* bound: packets a living client leaves unread
          MaxHangs,            \* bound: times the client hangs
          MaxAge               \* bound: beyond it all ages are alike

ASSUME ConnectionAssumption ==
    /\ {HeartbeatInterval, Tolerance, RetryLimit, SeqLength, MaxUnread, MaxHangs, MaxAge}
          \subseteq Nat
    /\ HeartbeatInterval > 0 /\ SeqLength > 0
    /\ MaxAge > Tolerance /\ MaxAge >= HeartbeatInterval
    /\ AnswersAlways \in BOOLEAN
    /\ Clients \subseteq {"player", "hanging", "lister", "stray"}
    /\ MaxInFlight \in [Clients -> Nat]

VARIABLES role,      \* "core" or "gateway", for ever
          kind,      \* the client: "player", "hanging" (a player that only goes from
                     \* phase to phase and hangs), "lister" (asks for the channel
                     \* list and never answers the handshake) or "stray" (ClientStrays)
          phase,     \* the type of the server's Connection<S>, or "Closed"
          why,       \* why it is closed, "open" until then
          pc,        \* "enter": at the top of the phase's drive function; "entering":
                     \* past its drain check; "loop"; "leaving": in a last send
          stuck,     \* is the task inside a send that the client's socket does not take?
          seqS,      \* position of the server's PacketSequencer
          retries,   \* HandshakeState.retries
          sentAge,   \* age of HandshakeState.last_sent
          idle,      \* age of SessionTracker.last_rx
          loopAge,   \* age of the `now` the loop took before it waits
          hbIn,      \* time to the next heartbeat tick
          draining,  \* ServerDrainController.draining, the flag
          notice,    \* the value stored in its watch channel
          buf,       \* the read buffer of the Framed stream
          net,       \* tokens sent and not yet received
          inbox,     \* packets sent to the client and not yet read
          cphase,    \* the phase the client knows of
          seqC,      \* position of the client's sequencer
          waits,     \* the client waits for the next SetClientPhase
          peer,      \* "alive", "dead" (silent for ever, though its socket takes all it is
                     \* sent), "hung" (silent, its socket may be full), "fin" (closed)
          hangs,     \* times the client has hung
          asked,     \* history: was a heartbeat requested since the last packet heard?
          stalled    \* history: did a send outlast a unit of time since then?

server == <<phase, why, pc, stuck, seqS, retries, sentAge, idle, loopAge, hbIn, buf>>
client == <<cphase, seqC, waits, peer, hangs>>
rigid  == <<role, kind>>
drain  == <<draining, notice>>
history == <<asked, stalled>>
vars   == <<rigid, server, drain, net, inbox, client, history>>

Phases == {"Handshake", "Login", "Select", "Loading", "InGame"}

(***************************************************************************)
(* Packets.  Tok(op, x): x is the age of the time stamp of a sync packet,  *)
(* the position of a sequence byte, and 0 otherwise.                       *)
(***************************************************************************)
Tok(op, x) == [op |-> op, x |-> x]

Control == {"HeartbeatResponse", "HandshakeResponse", "RequestTimeSync"}

\* The opcodes each phase's packet enum routes.
Opcodes(p) ==
    Control \cup
    CASE p = "Handshake" -> {"FetchChannelList"}
      [] p = "Login"     -> {"RequestTokenLogin"}
      [] p = "Select"    -> {"EditPlayers", "SubmitPlayerChoice"}
      [] p = "Loading"   -> {"SubmitClientVersion", "SignalLoadingComplete"}
      [] p = "InGame"    -> {"Intent", "Command"}
      [] OTHER           -> {}

Unsequenced == {"HeartbeatResponse", "HandshakeResponse"}

\* Does a packet of this opcode end in a sequence byte under the phase's codec?
Sequenced(p, op) == p # "Handshake" /\ op \notin Unsequenced

\* PacketSequencer::next_byte: the position behind x in the table.
Following(x) == (x + 1) % SeqLength

Capped(a) == IF a > MaxAge THEN MaxAge ELSE a

Older(s) == [i \in DOMAIN s |->
                IF s[i].op \in {"HandshakeResponse", "RequestTimeSync", "RequestHandshake"}
                THEN [s[i] EXCEPT !.x = Capped(@ + 1)] ELSE s[i]]

(***************************************************************************)
(* HandshakeState.handle: `a` and `s` are the ages of the client's time    *)
(* and of the last sync sent, seen from the `now` the caller passes.       *)
(***************************************************************************)
Half(x) == IF x < 0 THEN -((-x) \div 2) ELSE x \div 2      \* i64 division

InTolerance(a) == a \in 0..Tolerance

Delta(a, s) == LET d == IF Half(a) < 0 THEN Half(s) ELSE Half(a)
               IN  IF d < 0 THEN 0 ELSE d

\* RequestHandshake, its time stamp taken at a `now` that is `age` old.
Sync(age, delta) == [op |-> "RequestHandshake", x |-> age, d |-> delta]

SetClientPhase(p) == [op |-> "SetClientPhase", x |-> p, d |-> 0]
RequestHeartbeat  == [op |-> "RequestHeartbeat", x |-> 0, d |-> 0]

Init ==
    /\ \/ role = "core" /\ kind \in {"player", "hanging", "stray"} \cap Clients
       \/ role = "gateway" /\ kind \in {"player", "hanging", "lister"} \cap Clients
    /\ phase = "Handshake" /\ why = "open" /\ pc = "enter" /\ stuck = FALSE
    /\ seqS = 0 /\ retries = 0 /\ sentAge = 0
    /\ idle = 0 /\ loopAge = 0 /\ hbIn = HeartbeatInterval
    /\ draining = FALSE /\ notice = FALSE
    /\ buf = <<>> /\ net = <<>> /\ inbox = <<>>
    /\ cphase = "Connected" /\ seqC = 0 /\ waits = FALSE /\ peer = "alive" /\ hangs = 0
    /\ asked = FALSE /\ stalled = FALSE

(***************************************************************************)
(* The end of a connection: the handler returns a SessionEnd, the stream   *)
(* is dropped.                                                             *)
(***************************************************************************)
Closed(reason) ==
    /\ phase' = "Closed" /\ why' = reason /\ pc' = "loop" /\ stuck' = FALSE
    /\ buf' = <<>> /\ net' = <<>> /\ inbox' = <<>>
    /\ seqS' = 0 /\ retries' = 0 /\ sentAge' = 0
    /\ idle' = 0 /\ loopAge' = 0 /\ hbIn' = HeartbeatInterval
    /\ cphase' = "Closed" /\ seqC' = 0 /\ waits' = FALSE
    /\ UNCHANGED <<rigid, drain, peer, hangs, history>>

\* The task is at this point of the phase, and not inside a send.
At(p, point) == phase = p /\ pc = point /\ ~stuck

Running(p) == At(p, "loop")

(***************************************************************************)
(* Sending.  `send_many` returns when the socket has taken all of it, and  *)
(* no timeout limits it: packets for a hung client may keep the task in    *)
(* the send.  `inbox` holds what is sent, the part the send still holds    *)
(* included.                                                               *)
(***************************************************************************)
Stalls == IF peer = "hung" THEN BOOLEAN ELSE {FALSE}

\* The client reads again (or its host does): the send returns, the loop goes on.
SendReturns ==
    /\ stuck /\ peer \in {"alive", "dead"}
    /\ stuck' = FALSE /\ loopAge' = 0
    /\ UNCHANGED <<rigid, phase, why, pc, seqS, retries, sentAge, idle, hbIn, buf, drain,
                   net, inbox, client, history>>

\* The client closed its socket: a send or a receive fails.
ConnectionResets == phase # "Closed" /\ peer = "fin" /\ Closed("peer")

\* A last packet before the end of the connection.
Farewell(reason) ==
    \/ Closed(reason)
    \/ /\ peer = "hung" /\ stuck' = TRUE /\ pc' = "leaving"
       /\ UNCHANGED <<rigid, phase, why, seqS, retries, sentAge, idle, loopAge, hbIn, buf,
                      drain, net, inbox, client, history>>

Leaves == phase # "Closed" /\ pc = "leaving" /\ ~stuck /\ Closed("left")

\* Mutant: the loop of the loading phase has no drain branch.
DrainSeenButLoading == notice /\ phase \notin {"Handshake", "Closed", "Loading"}

\* wait_for_server_drain: what the channel holds, in every phase but Handshake.
DrainSeen == notice /\ phase \notin {"Handshake", "Closed"}

DrainNotice == pc = "loop" /\ ~stuck /\ DrainSeen /\ Closed("drain")

(***************************************************************************)
(* Entering a phase: is_draining(), the database reads of the phase and    *)
(* its first packets, and only then the subscription and the heartbeat.    *)
(***************************************************************************)
Entered(send, stalls) ==
    /\ pc' = IF phase = "Handshake" THEN "loop" ELSE "entering"
    /\ inbox' = inbox \o send /\ stuck' \in stalls
    /\ UNCHANGED <<rigid, phase, why, seqS, retries, idle, loopAge, hbIn, drain, buf, net,
                   client, history>>

EnterHandshake ==
    /\ At("Handshake", "enter")
    /\ \/ draining /\ Closed("drain")
       \/ /\ ~draining /\ sentAge' = 0
          /\ Entered(<<SetClientPhase("Handshake"), Sync(0, 0)>>, Stalls)

EnterLogin ==
    /\ At("Login", "enter")
    /\ \/ draining /\ Closed("drain")
       \/ ~draining /\ Entered(<<>>, {FALSE}) /\ UNCHANGED sentAge

\* The list of the account's characters, with the endpoint of each one's map.
EnterSelect ==
    /\ At("Select", "enter")
    /\ \/ draining /\ Closed("drain")
       \/ ~draining /\ Closed("db")
       \/ ~draining /\ Entered(<<>>, Stalls) /\ UNCHANGED sentAge

\* The character, its stats and the place it enters at.
EnterLoading ==
    /\ At("Loading", "enter")
    /\ \/ draining /\ Closed("drain")
       \/ ~draining /\ Closed("db")
       \/ ~draining /\ Entered(<<>>, Stalls) /\ UNCHANGED sentAge

\* prepare_ingame and the head of drive_ingame.
EnterInGame ==
    /\ At("InGame", "enter")
    /\ \/ draining /\ Closed("drain")
       \/ ~draining /\ Closed("wrong map")
       \/ ~draining /\ Entered(<<Sync(0, 0)>>, Stalls) /\ sentAge' = 0

\* The ticker and the subscription are made, the loop begins.
Subscribe ==
    /\ pc = "entering" /\ ~stuck /\ phase # "Closed"
    /\ pc' = "loop" /\ hbIn' = HeartbeatInterval /\ loopAge' = 0
    /\ UNCHANGED <<rigid, phase, why, stuck, seqS, retries, sentAge, idle, buf, drain, net,
                   inbox, client, history>>

(***************************************************************************)
(* The codec and the dispatch of one packet.                               *)
(***************************************************************************)
\* Mutant: decode does not wait for the sequence byte behind the body.
CompleteBody(b) == b # <<>>

\* Is there a whole packet in the buffer?  If not, decode waits for more.
Complete(b) == b # <<>> /\ (Sequenced(phase, b[1].op) => Len(b) >= 2)

\* decode fails: an opcode of another phase, or a wrong sequence byte.
Undecodable(b) ==
    /\ b # <<>>
    /\ \/ b[1].op \notin Opcodes(phase)
       \/ Complete(b) /\ Sequenced(phase, b[1].op) /\ ~(Len(b) >= 2 /\ b[2] = Tok("seq", seqS))

Malformed == phase # "Closed" /\ pc = "loop" /\ ~stuck /\ Undecodable(buf) /\ Closed("protocol")

\* decode yields the packet at the head of the buffer.
Decodes(op) ==
    /\ pc = "loop" /\ ~stuck /\ phase # "Closed"
    /\ Complete(buf) /\ ~Undecodable(buf) /\ buf[1].op = op

\* Mutant: a transition to the next phase starts a new sequencer.
ConsumedAnew(op, next) ==
    /\ buf' = SubSeq(buf, IF Sequenced(phase, op) THEN 3 ELSE 2, Len(buf))
    /\ seqS' = IF next # phase THEN 0
               ELSE IF Sequenced(phase, op) THEN Following(seqS) ELSE seqS

\* The packet leaves the buffer; the sequencer and what is left of the buffer
\* go over to the next phase.
Consumed(op, next) ==
    /\ buf' = SubSeq(buf, IF Sequenced(phase, op) THEN 3 ELSE 2, Len(buf))
    /\ seqS' = IF next = "Login" /\ phase = "Handshake" THEN 0
               ELSE IF Sequenced(phase, op) THEN Following(seqS) ELSE seqS

\* How old `now` is when the handler of a phase uses it: the loops of Login,
\* Select and Loading take it before they wait, InGame and Handshake after.
NowAge == IF phase \in {"Login", "Select", "Loading"} THEN loopAge ELSE 0

\* Mutant: only packets of the phase's own kind count as a sign of life.
HeardButControl(op) ==
    /\ idle' = IF op \in Control THEN idle ELSE NowAge
    /\ asked' = FALSE /\ stalled' = FALSE /\ loopAge' = 0

\* mark_rx(now), and the loop goes round.
Heard(op) == idle' = NowAge /\ asked' = FALSE /\ stalled' = FALSE /\ loopAge' = 0

\* A packet that sends `send` and keeps the phase.  Most are answered, also
\* where `send` is empty; the answer to a heartbeat request is not.
Stays(op, send) ==
    /\ Decodes(op) /\ Consumed(op, phase) /\ Heard(op)
    /\ inbox' = inbox \o send
    /\ stuck' \in IF op = "HeartbeatResponse" THEN {FALSE} ELSE Stalls
    /\ UNCHANGED <<rigid, phase, why, pc, hbIn, drain, net, client>>

\* A packet that moves to the next phase: into_next_with_phase.
Moves(op, next) ==
    /\ Decodes(op) /\ Consumed(op, next) /\ Heard(op)
    /\ phase' = next /\ pc' = "enter"
    /\ inbox' = Append(inbox, SetClientPhase(next)) /\ stuck' \in Stalls
    /\ retries' = 0
    /\ UNCHANGED <<rigid, why, sentAge, hbIn, drain, net, client>>

(***************************************************************************)
(* handlers/handshake.rs                                                   *)
(***************************************************************************)
HandshakeReplies ==
    LET a == buf[1].x IN
    /\ Running("Handshake") /\ Decodes("HandshakeResponse")
    /\ \/ InTolerance(a) /\ Moves("HandshakeResponse", "Login")
       \/ ~InTolerance(a) /\ retries + 1 > RetryLimit /\ Closed("retries")
       \/ /\ ~InTolerance(a) /\ retries + 1 <= RetryLimit
          /\ Stays("HandshakeResponse", <<Sync(0, Delta(a, sentAge))>>)
          /\ sentAge' = 0 /\ retries' = retries + 1

FetchChannelList ==
    Running("Handshake") /\ Stays("FetchChannelList", <<>>) /\ UNCHANGED <<retries, sentAge>>

HandshakeRefuses ==
    /\ Running("Handshake")
    /\ \E op \in {"HeartbeatResponse", "RequestTimeSync"} : Decodes(op)
    /\ Closed("protocol")

(***************************************************************************)
(* handle_session_control, the same in Login, Select, Loading and InGame.  *)
(***************************************************************************)
SessionHeartbeat ==
    phase # "Handshake" /\ Stays("HeartbeatResponse", <<>>) /\ UNCHANGED <<retries, sentAge>>

SessionTimeSync ==
    LET a == buf[1].x - NowAge IN
    /\ phase # "Handshake" /\ Decodes("RequestTimeSync")
    /\ \/ InTolerance(a) /\ Stays("RequestTimeSync", <<>>) /\ UNCHANGED sentAge
       \/ /\ ~InTolerance(a)
          /\ Stays("RequestTimeSync", <<Sync(NowAge, Delta(a, sentAge - NowAge))>>)
          /\ sentAge' = NowAge
    /\ UNCHANGED retries

SessionSyncReply == phase # "Handshake" /\ Decodes("HandshakeResponse") /\ Closed("protocol")

(***************************************************************************)
(* handlers/login.rs, select.rs, loading.rs                                *)
(***************************************************************************)
TokenLogin ==
    /\ Running("Login") /\ Decodes("RequestTokenLogin")
    /\ \/ Moves("RequestTokenLogin", "Select")
       \/ Farewell("rejected")
       \/ Closed("db")

\* Empire choice, creating and deleting a character: answered in place.
EditPlayers ==
    /\ Running("Select") /\ Decodes("EditPlayers")
    /\ \/ Stays("EditPlayers", <<>>) /\ UNCHANGED <<retries, sentAge>>
       \/ Closed("db")

\* An empty slot is met with silence.
SubmitPlayerChoice ==
    /\ Running("Select") /\ Decodes("SubmitPlayerChoice")
    /\ \/ role = "gateway" /\ Closed("rejected")
       \/ role = "core" /\ Moves("SubmitPlayerChoice", "Loading")
       \/ role = "core" /\ Stays("SubmitPlayerChoice", <<>>) /\ UNCHANGED <<retries, sentAge>>
       \/ role = "core" /\ Closed("db")

SubmitClientVersion ==
    Running("Loading") /\ Stays("SubmitClientVersion", <<>>) /\ UNCHANGED <<retries, sentAge>>

SignalLoadingComplete == Running("Loading") /\ Moves("SignalLoadingComplete", "InGame")

(***************************************************************************)
(* handlers/ingame.rs.  Intents go to the map and are answered by it.      *)
(***************************************************************************)
Intent == Running("InGame") /\ Stays("Intent", <<>>) /\ UNCHANGED <<retries, sentAge>>

\* phase_select moves to Select, or ends when the player's state cannot be
\* stored; logout and quit end.
SessionCommand ==
    /\ Running("InGame") /\ Decodes("Command")
    /\ \/ Moves("Command", "Select")
       \/ Farewell("left")
       \/ Closed("db")

\* A teleport hands off, or fails and is reported.
TeleportCommand ==
    /\ Running("InGame") /\ Decodes("Command")
    /\ \/ Farewell("handoff")
       \/ Stays("Command", <<>>) /\ UNCHANGED <<retries, sentAge>>

\* Help, errors and the commands that are intents of the map.
PlainCommand == Running("InGame") /\ Stays("Command", <<>>) /\ UNCHANGED <<retries, sentAge>>

\* An event of the map: a portal entered or a restart in town.
MapHandsOff == Running("InGame") /\ Farewell("handoff")

\* What else the map has to tell is taken by any socket but a full one.
MapTraffic ==
    /\ Running("InGame") /\ peer = "hung" /\ stuck' = TRUE
    /\ UNCHANGED <<rigid, phase, why, pc, seqS, retries, sentAge, idle, loopAge, hbIn, buf,
                   drain, net, inbox, client, history>>

(***************************************************************************)
(* The heartbeat and the end of the stream.                                *)
(***************************************************************************)
\* Mutant: the heartbeat request counts as a sign of life.
TicksForEver ==
    /\ pc = "loop" /\ ~stuck /\ phase \notin {"Handshake", "Closed"} /\ hbIn = 0
    /\ hbIn' = HeartbeatInterval /\ loopAge' = 0 /\ idle' = 0
    /\ inbox' = IF Len(inbox) <= MaxUnread THEN Append(inbox, RequestHeartbeat) ELSE inbox
    /\ UNCHANGED <<rigid, phase, why, pc, stuck, seqS, retries, sentAge, drain, buf, net,
                   client, history>>

HeartbeatTick ==
    LET since == idle - NowAge IN
    /\ pc = "loop" /\ ~stuck /\ phase \notin {"Handshake", "Closed"} /\ hbIn = 0
    /\ \/ since >= 3 * HeartbeatInterval /\ Closed("timeout")
       \/ /\ since < 3 * HeartbeatInterval
          /\ hbIn' = HeartbeatInterval /\ loopAge' = 0
          /\ LET ask == since >= HeartbeatInterval IN
             /\ inbox' = IF ask THEN Append(inbox, RequestHeartbeat) ELSE inbox
             /\ asked' = (asked \/ ask)
             /\ stuck' \in IF ask THEN Stalls ELSE {FALSE}
          /\ UNCHANGED <<rigid, phase, why, pc, seqS, retries, sentAge, idle, drain,
                         buf, net, client, stalled>>

StreamEnds ==
    /\ phase # "Closed" /\ pc = "loop" /\ ~stuck /\ peer = "fin"
    /\ net = <<>> /\ ~Complete(buf) /\ ~Undecodable(buf)
    /\ Closed("peer")

\* This connection holds a receiver of the watch channel.
Subscribed == pc \in {"loop", "leaving"} /\ phase \notin {"Handshake", "Closed"}

\* A core is told to shut down; the gateway has no drain controller.  The flag
\* is set; the channel stores the value only if it has a receiver: this
\* connection's, or another one's on the core.
BeginDraining ==
    /\ role = "core" /\ phase # "Closed" /\ ~draining /\ draining' = TRUE
    /\ notice' \in IF Subscribed THEN {TRUE} ELSE BOOLEAN
    /\ UNCHANGED <<rigid, server, net, inbox, client, history>>

-----------------------------------------------------------------------------
(***************************************************************************)
(* The network and the client (external: the client of the repository's   *)
(* tests, which waits for the phase its request leads to).                 *)
(***************************************************************************)
Arrive ==
    /\ net # <<>>
    /\ buf' = Append(buf, Head(net)) /\ net' = Tail(net)
    /\ UNCHANGED <<rigid, phase, why, pc, seqS, retries, sentAge, idle, loopAge, hbIn,
                   stuck, drain, inbox, client, history>>

\* What the client puts on the wire for a packet, in the phase it knows of.
Encoded(op, x) == IF Sequenced(cphase, op) THEN <<Tok(op, x), Tok("seq", seqC)>>
                  ELSE <<Tok(op, x)>>

Sends(op, x) ==
    /\ net' = net \o Encoded(op, x)
    /\ seqC' = IF Sequenced(cphase, op) THEN Following(seqC) ELSE seqC

Awaited == {"RequestTokenLogin", "SubmitPlayerChoice", "SignalLoadingComplete", "Command"}

ClientRequests ==
    /\ peer = "alive" /\ cphase \in Phases /\ ~waits /\ inbox = <<>>
    /\ Len(net) + Len(buf) < MaxInFlight[kind]
    /\ \E op \in (Opcodes(cphase) \ Unsequenced) :
          /\ op = "FetchChannelList" => kind = "lister"
          /\ kind = "hanging" => op \in Awaited
          /\ op = "RequestTimeSync" => cphase # "Handshake"
          /\ Sends(op, 0) /\ waits' = (op \in Awaited)
    /\ UNCHANGED <<rigid, server, drain, inbox, cphase, peer, hangs, history>>

\* The client reads one packet and answers it: the handshake by repeating the
\* time, or by advancing it by twice the delta.
ClientReads ==
    /\ peer = "alive" /\ inbox # <<>> /\ Len(net) + Len(buf) < MaxInFlight[kind]
    /\ LET m == Head(inbox) IN
       /\ inbox' = Tail(inbox)
       /\ CASE m.op = "SetClientPhase" ->
                 /\ cphase' = m.x /\ waits' = FALSE
                 /\ UNCHANGED <<net, seqC>>
            [] m.op = "RequestHeartbeat" ->
                 /\ Sends("HeartbeatResponse", 0) /\ UNCHANGED <<cphase, waits>>
            [] OTHER ->
                 /\ IF kind # "lister" /\ (cphase = "Handshake" \/ AnswersAlways)
                    THEN \E a \in {m.x, m.x - 2 * m.d} : Sends("HandshakeResponse", a)
                    ELSE UNCHANGED <<net, seqC>>
                 /\ UNCHANGED <<cphase, waits>>
    /\ UNCHANGED <<rigid, server, drain, peer, hangs, history>>

\* An empty slot and a command that stays leave the client waiting for nothing.
ClientGivesUpWaiting ==
    /\ peer = "alive" /\ waits /\ inbox = <<>> /\ net = <<>> /\ buf = <<>>
    /\ pc = "loop" /\ cphase = phase
    /\ waits' = FALSE
    /\ UNCHANGED <<rigid, server, drain, net, inbox, cphase, seqC, peer, hangs, history>>

\* A client that breaks the protocol: it sends one packet out of place (of
\* another phase, of the handshake, or one already sent) and nothing more.
ClientStrays ==
    /\ kind = "stray" /\ peer = "alive" /\ cphase \in Phases
    /\ Len(net) + Len(buf) < MaxInFlight[kind]
    /\ \/ \E op \in Control \cup {"Intent"} : Sends(op, 0)
       \/ /\ \E op \in Opcodes(cphase) \ Control :
                net' = net \o <<Tok(op, 0), Tok("seq", Following(seqC))>>
          /\ UNCHANGED seqC
    /\ peer' = "dead"
    /\ UNCHANGED <<rigid, server, drain, inbox, cphase, waits, hangs, history>>

ClientEnds ==
    /\ peer = "alive" /\ phase # "Closed"
    /\ \/ kind # "hanging" /\ peer' \in {"dead", "fin"} /\ UNCHANGED hangs
       \/ kind = "hanging" /\ hangs < MaxHangs /\ peer' = "hung" /\ hangs' = hangs + 1
       \/ kind = "hanging" /\ hangs = MaxHangs /\ peer' = "dead" /\ UNCHANGED hangs
    /\ UNCHANGED <<rigid, server, drain, net, inbox, cphase, seqC, waits, history>>

\* A hung client goes on, or is ended.
ClientRecovers ==
    /\ peer = "hung" /\ phase # "Closed" /\ peer' \in {"alive", "fin"}
    /\ UNCHANGED <<rigid, server, drain, net, inbox, cphase, seqC, waits, hangs, history>>

-----------------------------------------------------------------------------
(***************************************************************************)
(* Time passes while the server has nothing to do: its work is short       *)
(* beside a unit of time, but for a send that is stuck.  A living client   *)
(* reads: one that leaves more than MaxUnread packets unread counts as     *)
(* dead or hung.                                                           *)
(***************************************************************************)
ServerReady ==
    IF stuck THEN peer # "hung"
    ELSE \/ pc # "loop" \/ Complete(buf) \/ Undecodable(buf)
         \/ DrainSeen \/ (hbIn = 0 /\ phase # "Handshake")

\* run_core_connection makes the SessionTracker between Handshake and Login.
Tracked == phase # "Handshake" /\ ~(phase = "Login" /\ pc = "enter")

Time ==
    /\ phase # "Closed" /\ ~ServerReady
    /\ peer = "alive" => Len(inbox) <= MaxUnread
    /\ sentAge' = Capped(sentAge + 1)
    /\ CASE ~Tracked -> UNCHANGED <<idle, loopAge, hbIn>>
         [] Tracked /\ ~stuck ->
               idle' = idle + 1 /\ loopAge' = Capped(loopAge + 1) /\ hbIn' = hbIn - 1
         [] Tracked /\ stuck ->    \* the ticker falls due, once; beyond the timeout
                                  \* all silences are alike
               /\ idle' = IF idle < 3 * HeartbeatInterval THEN idle + 1 ELSE idle
               /\ hbIn' = IF hbIn > 0 THEN hbIn - 1 ELSE 0
               /\ UNCHANGED loopAge
    /\ stalled' = (stalled \/ stuck)
    /\ buf' = Older(buf) /\ net' = Older(net) /\ inbox' = Older(inbox)
    /\ UNCHANGED <<rigid, phase, why, pc, stuck, seqS, retries, drain, client, asked>>

ServerStep ==
    \/ EnterHandshake \/ EnterLogin \/ EnterSelect \/ EnterLoading \/ EnterInGame
    \/ Subscribe \/ SendReturns \/ ConnectionResets \/ Leaves
    \/ Malformed \/ HandshakeReplies \/ FetchChannelList \/ HandshakeRefuses
    \/ SessionHeartbeat \/ SessionTimeSync \/ SessionSyncReply
    \/ TokenLogin \/ EditPlayers \/ SubmitPlayerChoice
    \/ SubmitClientVersion \/ SignalLoadingComplete
    \/ Intent \/ SessionCommand \/ TeleportCommand \/ PlainCommand
    \/ HeartbeatTick \/ DrainNotice \/ StreamEnds

Next ==
    \/ ServerStep \/ MapHandsOff \/ MapTraffic \/ BeginDraining
    \/ Arrive \/ ClientRequests \/ ClientReads \/ ClientGivesUpWaiting \/ ClientStrays
    \/ ClientEnds \/ ClientRecovers
    \/ Time

\* The server's task runs whenever it is not inside a send that the client's
\* socket does not take, its select! is unbiased, so that no branch of it waits
\* for ever, and the database answers or fails; timers fire, the network
\* delivers, and a client that lives reads what it is sent.  A hung client need
\* never recover.
Spec == Init /\ [][Next]_vars
        /\ WF_vars(ServerStep) /\ WF_vars(DrainNotice)
        /\ WF_vars(Arrive) /\ WF_vars(Time) /\ WF_vars(ClientReads)

-----------------------------------------------------------------------------
(***************************************************************************)
(* The sequence bytes on their way are, in order, the ones the server will *)
(* ask for, and the client's next one follows them: however the stream is  *)
(* cut, whatever control packet without a byte comes between, and across   *)
(* every change of phase (transition_with_sequencer, the codec's peek at   *)
(* the opcode).                                                            *)
(***************************************************************************)
SeqBytes(w) == {i \in DOMAIN w : w[i].op = "seq"}

InStep(w, s, c) ==
    LET bytes == SeqBytes(w) IN
    /\ bytes = {} => c = s
    /\ \A i \in bytes :
          /\ (\A h \in bytes : h >= i) => w[i].x = s
          /\ (\A h \in bytes : h <= i) => c = Following(w[i].x)
          /\ \A j \in bytes :
                i < j /\ (\A h \in bytes : h <= i \/ j <= h) => w[j].x = Following(w[i].x)

SequencersAgree ==
    kind # "stray" /\ phase # "Closed" => InStep(buf \o net, seqS, seqC)

(***************************************************************************)
(* A client that keeps to the protocol, waits for the phase its request    *)
(* leads to and leaves a RequestHandshake outside the handshake alone is   *)
(* never disconnected for a protocol error: no packet of it is in the      *)
(* stream when the server changes the phase and with it the opcodes.       *)
(***************************************************************************)
ConformingIsKept == kind # "stray" => why # "protocol"

(***************************************************************************)
(* No client is given up without having been asked: a heartbeat request    *)
(* went out after the last packet heard from it, though the loops of       *)
(* Login, Select and Loading measure with a `now` taken before they waited *)
(* (which counts a packet up to one interval too early) and the tracker is *)
(* carried from phase to phase.  The exception is a send that stood still  *)
(* for a while: the ticks missed meanwhile are not made up, and the client *)
(* that reads again may be dropped by the first one, unasked.              *)
(***************************************************************************)
TimeoutIsEarned == why = "timeout" => asked \/ stalled

(***************************************************************************)
(* A client that falls silent is dropped (SessionTracker): past the        *)
(* handshake a phase does not wait for ever, unless it waits in a send     *)
(* that the client's socket does not take, where no timer is looked at.    *)
(***************************************************************************)
SilenceEnds ==
    (peer # "alive" /\ phase # "Handshake") ~> (phase = "Closed" \/ peer = "alive" \/ stuck)

(***************************************************************************)
(* A draining core gets rid of every connection past the handshake that    *)
(* the notice can reach: the channel holds it, whether it was stored       *)
(* before or after this connection subscribed, or the connection has yet   *)
(* to check the flag as it enters a phase.  A send that is stuck does not  *)
(* see it.                                                                 *)
(***************************************************************************)
DrainEmpties ==
    (draining /\ phase # "Handshake" /\ (notice \/ pc = "enter"))
        ~> (phase = "Closed" \/ stuck)

(***************************************************************************)
(* The core says "Shutdown signal received; draining active connections"   *)
(* (zohar-core/src/app.rs:98): the drain ends every connection past the    *)
(* handshake that is not stuck.                                            *)
(***************************************************************************)
ActiveConnectionsDrain ==
    (draining /\ phase # "Handshake") ~> (phase = "Closed" \/ stuck)

(***************************************************************************)
(* "reply_to_ingame_handshake" of the server's tests answers each          *)
(* RequestHandshake the session receives with a HandshakeResponse and goes *)
(* on playing: a client that does so is not disconnected for it.           *)
(***************************************************************************)
AnswersAreAccepted == kind # "stray" => why # "protocol"
=============================================================================
