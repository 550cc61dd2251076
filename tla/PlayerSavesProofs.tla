--------------------------- MODULE PlayerSavesProofs ---------------------------
(***************************************************************************)
(* Proofs about how what happens to a player reaches its row, for every    *)
(* capacity of the worker's channel, every interval and every number of    *)
(* changes and exits.                                                      *)
(***************************************************************************)
EXTENDS PlayerSaves, Integers, TLAPS

-----------------------------------------------------------------------------
(* The requests on their way, oldest first: the running statement, the     *)
(* lane's exit and save, and the channel.                                  *)

PipeOf(run, ex, sv, ch) ==
    [i \in -2 .. Len(ch) |->
        IF i = -2 THEN run ELSE IF i = -1 THEN ex ELSE IF i = 0 THEN sv ELSE ch[i]]
Pipe == PipeOf(running, exit, save, chan)

IsSave(r) == r.kind \in {"autosave", "flush"}
IsExit(r) == r.kind = "exit"
IsRequest(r) == r.kind # "none"

\* Does `who' wait for the answer to r?
Asks(r, who) == IsRequest(r) /\ r.reply = who

\* a was taken no earlier than b and, under one epoch, contains all of b.
Newer(a, b) == a.epoch >= b.epoch /\ (a.epoch = b.epoch => AtLeast(a.snap, b.snap))

SavesInOrder(P) ==
    \A i, j \in DOMAIN P : i < j /\ IsSave(P[i]) /\ IsSave(P[j]) => Newer(P[j], P[i])

AnswersAreUnique(P) ==
    \A who \in {"sim", "hand"} : \A i, j \in DOMAIN P :
       Asks(P[i], who) /\ Asks(P[j], who) => i = j

\* The flush on the way to character select is the last thing of its player.
SelectIsLast(P) ==
    \A i, j \in DOMAIN P : i < j /\ IsSave(P[i]) /\ P[i].reply = "hand" => ~IsExit(P[j])

FlushesAreAwaited(P) ==
    \A i \in DOMAIN P : IsSave(P[i]) => (P[i].kind = "flush" <=> P[i].reply # "none")

Ordered(P) ==
    SavesInOrder(P) /\ AnswersAreUnique(P) /\ SelectIsLast(P) /\ FlushesAreAwaited(P)

-----------------------------------------------------------------------------
(* How a request relates to the row, the player and the handler.           *)

FitsRow(r, rw) ==
    /\ r.epoch <= rw.epoch
    /\ IsSave(r) /\ r.epoch = rw.epoch => AtLeast(r.snap, rw.snap)

FitsPlayer(r, here, e, lv, fl) ==
    /\ here = TRUE => r.epoch <= e /\ (IsSave(r) /\ r.epoch = e => AtLeast(lv, r.snap))
    /\ r.reply = "sim" => /\ here = TRUE /\ fl = "waiting"
                          /\ r.epoch = e /\ r.snap.prog >= lv.prog

FitsHand(r, h) ==
    /\ h.kind # "none" => r.epoch <= h.epoch
    /\ h.kind = "select" /\ h.phase # "err" /\ IsSave(r) /\ r.epoch = h.epoch =>
          AtLeast(h.snap, r.snap)
    /\ h.kind = "select" /\ h.phase = "ok" => ~IsExit(r)
    /\ r.reply = "hand" => /\ h.kind # "none" /\ h.phase = "sent"
                           /\ r.epoch = h.epoch /\ AtLeast(r.snap, h.snap)
                           /\ IsExit(r) <=> h.kind # "select"

AllFit(P, rw, here, e, lv, fl, h) ==
    \A i \in DOMAIN P : IsRequest(P[i]) =>
       FitsRow(P[i], rw) /\ FitsPlayer(P[i], here, e, lv, fl) /\ FitsHand(P[i], h)

\* The player's state against the row.
PlayerFits(rw, here, e, lv, fl) ==
    /\ here = TRUE => e <= rw.epoch /\ (e = rw.epoch => AtLeast(lv, rw.snap))
    /\ fl # "none" => here = TRUE
    /\ fl = "ok" /\ rw.epoch = e => rw.snap.prog = lv.prog

\* The handler's save against the row and the player.
HandFits(rw, here, e, h) ==
    h.kind # "none" =>
       /\ h.epoch <= rw.epoch
       /\ here = TRUE <=> h.kind = "handoff"
       /\ here = TRUE => h.epoch = e
       /\ h.kind = "left" => h.phase = "ok"
       /\ h.kind = "select" /\ h.phase # "err" /\ h.epoch = rw.epoch => AtLeast(h.snap, rw.snap)
       /\ h.phase = "ok" => /\ AtLeast(rw.snap, h.snap)
                            /\ h.kind = "select" => h.epoch = rw.epoch
                            /\ h.kind # "select" => h.epoch < rw.epoch

Requests == {None} \cup Saves \cup Exits
Rows == [snap : Snapshots, epoch : Epochs]
Hands == {None} \cup
         [kind : {"handoff", "disconnect", "select", "left"}, snap : Snapshots,
          epoch : Epochs, phase : {"captured", "sent", "ok", "err"}]

Typed(P, rw, e, lv, h) ==
    /\ DOMAIN P \subseteq Int /\ \A i \in DOMAIN P : P[i] \in Requests
    /\ rw \in Rows /\ e \in Epochs /\ lv \in Snapshots /\ h \in Hands

Good(P, rw, here, e, lv, fl, h) ==
    /\ Typed(P, rw, e, lv, h)
    /\ Ordered(P)
    /\ AllFit(P, rw, here, e, lv, fl, h)
    /\ PlayerFits(rw, here, e, lv, fl)
    /\ HandFits(rw, here, e, h)

StageFits ==
    /\ stage # "frame" => present = TRUE
    /\ stage = "intents" => flush = "none"
    /\ exit.kind = "none" \/ save.kind = "none"

\* A save of that epoch with everything of lv, and that P has one.
Has(r, e, lv) == IsSave(r) /\ r.epoch = e /\ AtLeast(r.snap, lv)
Holds(P, e, lv) == \E i \in DOMAIN P : Has(P[i], e, lv)

\* NothingForgotten in every stage, and while a handoff that has not reached
\* the lane is on its way.
Covered ==
    present = TRUE /\ row.epoch = epoch /\ unheard = FALSE /\ ~IsExit(exit) /\ ~IsExit(running) =>
       \/ dirty = TRUE \/ fact = TRUE \/ flush = "err" \/ AtLeast(row.snap, live)
       \/ Holds(Pipe, epoch, live)

SavesInv ==
    /\ TypeOK
    /\ StageFits
    /\ Good(Pipe, row, present, epoch, live, flush, hand)
    /\ Covered

-----------------------------------------------------------------------------
(* Numbers.                                                                *)

\* The parts of snapshots, requests, rows and saves of the handler.
LEMMA PartFacts ==
    /\ \A s \in Snapshots : s.res \in Int /\ s.prog \in Int
    /\ Epochs \subseteq Int
    /\ \A r \in Requests : IsRequest(r) => r.epoch \in Epochs /\ r.snap \in Snapshots
    /\ \A w \in Rows : w.epoch \in Epochs /\ w.snap \in Snapshots
    /\ \A h \in Hands : h.kind # "none" => h.epoch \in Epochs /\ h.snap \in Snapshots
<1>1. MaxRes \in Nat /\ MaxProg \in Nat /\ MaxEpoch \in Nat BY SavesAssumption
<1>2. \A s \in Snapshots : s.res \in Int /\ s.prog \in Int BY <1>1 DEF Snapshots
<1>3. Epochs \subseteq Int BY <1>1 DEF Epochs
<1>4. ASSUME NEW r \in Requests, IsRequest(r) PROVE r.epoch \in Epochs /\ r.snap \in Snapshots
  <2>1. r # None BY <1>4 DEF IsRequest, None
  <2> QED BY <2>1 DEF Requests, Saves, Exits
<1>5. \A w \in Rows : w.epoch \in Epochs /\ w.snap \in Snapshots BY DEF Rows
<1>6. ASSUME NEW h \in Hands, h.kind # "none" PROVE h.epoch \in Epochs /\ h.snap \in Snapshots
  <2>1. h # None BY <1>6 DEF None
  <2> QED BY <2>1 DEF Hands
<1> QED BY <1>2, <1>3, <1>4, <1>5, <1>6

\* AtLeast is an order.
LEMMA AtLeastFacts ==
    /\ \A a \in Snapshots : AtLeast(a, a)
    /\ \A a, b, c \in Snapshots : AtLeast(a, b) /\ AtLeast(b, c) => AtLeast(a, c)
BY PartFacts DEF AtLeast

\* What kind of request it is.
LEMMA KindFacts ==
    \A r \in Requests : /\ IsRequest(r) <=> IsSave(r) \/ IsExit(r)
                        /\ ~(IsSave(r) /\ IsExit(r))
                        /\ IsSave(r) <=> r \in Saves
                        /\ IsExit(r) <=> r \in Exits
                        /\ ~IsRequest(r) <=> r = None
BY DEF Requests, Saves, Exits, None, IsRequest, IsSave, IsExit

-----------------------------------------------------------------------------
(* Requests move along, or disappear.                                      *)

\* Every request of Q is one of P, in the same order.
DrawnBy(g, Q, P) ==
    /\ DOMAIN Q \subseteq Int
    /\ \A i \in DOMAIN Q : Q[i] \in Requests
    /\ \A i \in DOMAIN Q : IsRequest(Q[i]) => g[i] \in DOMAIN P /\ Q[i] = P[g[i]]
    /\ \A i, j \in DOMAIN Q :
          i < j /\ IsRequest(Q[i]) /\ IsRequest(Q[j]) => g[i] < g[j]

\* What holds of P holds of what is drawn from it.
LEMMA DrawnIsGood ==
    ASSUME NEW P, NEW Q, NEW g, DrawnBy(g, Q, P),
           NEW rw, NEW here, NEW e, NEW lv, NEW fl, NEW h,
           Good(P, rw, here, e, lv, fl, h)
    PROVE  Good(Q, rw, here, e, lv, fl, h)
<1>1. Typed(Q, rw, e, lv, h) BY DEF Good, Typed, DrawnBy
<1>2. \A i \in DOMAIN Q : IsSave(Q[i]) \/ IsExit(Q[i]) => IsRequest(Q[i])
  BY DEF IsSave, IsExit, IsRequest
<1>3. DOMAIN P \subseteq Int /\ DOMAIN Q \subseteq Int /\ Ordered(P)
  BY DEF Good, Typed, DrawnBy
<1>4. SavesInOrder(Q)
  <2> SUFFICES ASSUME NEW i \in DOMAIN Q, NEW j \in DOMAIN Q, i < j, IsSave(Q[i]), IsSave(Q[j])
               PROVE  Newer(Q[j], Q[i])
    BY DEF SavesInOrder
  <2>1. g[i] \in DOMAIN P /\ g[j] \in DOMAIN P /\ g[i] < g[j] /\ Q[i] = P[g[i]] /\ Q[j] = P[g[j]]
    BY <1>2 DEF DrawnBy
  <2> QED BY <1>3, <2>1 DEF Ordered, SavesInOrder
<1>5. AnswersAreUnique(Q)
  <2> SUFFICES ASSUME NEW who \in {"sim", "hand"}, NEW i \in DOMAIN Q, NEW j \in DOMAIN Q,
                      Asks(Q[i], who), Asks(Q[j], who)
               PROVE  i = j
    BY DEF AnswersAreUnique
  <2>1. IsRequest(Q[i]) /\ IsRequest(Q[j]) BY DEF Asks
  <2>2. g[i] \in DOMAIN P /\ g[j] \in DOMAIN P /\ Q[i] = P[g[i]] /\ Q[j] = P[g[j]]
    BY <2>1 DEF DrawnBy
  <2>3. g[i] = g[j] BY <1>3, <2>2 DEF Ordered, AnswersAreUnique
  <2>4. ~(i < j) /\ ~(j < i) BY <1>3, <2>1, <2>2, <2>3 DEF DrawnBy
  <2> QED BY <1>3, <2>4
<1>6. SelectIsLast(Q)
  <2> SUFFICES ASSUME NEW i \in DOMAIN Q, NEW j \in DOMAIN Q, i < j, IsSave(Q[i]),
                      Q[i].reply = "hand", IsExit(Q[j])
               PROVE  FALSE
    BY DEF SelectIsLast
  <2>1. g[i] \in DOMAIN P /\ g[j] \in DOMAIN P /\ g[i] < g[j] /\ Q[i] = P[g[i]] /\ Q[j] = P[g[j]]
    BY <1>2 DEF DrawnBy
  <2> QED BY <1>3, <2>1 DEF Ordered, SelectIsLast
<1>7. FlushesAreAwaited(Q)
  BY <1>2, <1>3 DEF FlushesAreAwaited, Ordered, DrawnBy
<1>8. AllFit(Q, rw, here, e, lv, fl, h) BY DEF Good, AllFit, DrawnBy
<1> QED BY <1>1, <1>4, <1>5, <1>6, <1>7, <1>8 DEF Good, Ordered

\* A request that is gone takes its question with it.
LEMMA DrawnAsksNot ==
    ASSUME NEW P, NEW Q, NEW g, DrawnBy(g, Q, P), AnswersAreUnique(P),
           NEW k \in DOMAIN P, NEW who \in {"sim", "hand"}, Asks(P[k], who),
           \A i \in DOMAIN Q : IsRequest(Q[i]) => g[i] # k
    PROVE  \A i \in DOMAIN Q : ~Asks(Q[i], who)
<1> SUFFICES ASSUME NEW i \in DOMAIN Q, Asks(Q[i], who) PROVE FALSE
  OBVIOUS
<1>1. IsRequest(Q[i]) BY DEF Asks
<1>2. g[i] \in DOMAIN P /\ Q[i] = P[g[i]] BY <1>1 DEF DrawnBy
<1>3. g[i] = k BY <1>2 DEF AnswersAreUnique
<1> QED BY <1>1, <1>3

-----------------------------------------------------------------------------
(* The row changes.                                                        *)

\* The oldest request, a save of the row's epoch, is written.
LEMMA RowWritten ==
    ASSUME NEW P, NEW rw, NEW here, NEW e, NEW lv, NEW fl, NEW h,
           Good(P, rw, here, e, lv, fl, h),
           NEW k \in DOMAIN P, \A i \in DOMAIN P : k <= i,
           IsSave(P[k]), P[k].epoch = rw.epoch,
           NEW rw2 \in Rows, rw2.epoch = rw.epoch, rw2.snap = P[k].snap
    PROVE  Good(P, rw2, here, e, lv, fl, h) /\ AtLeast(rw2.snap, rw.snap)
<1> USE DEF Good
<1>1. /\ Typed(P, rw, e, lv, h) /\ DOMAIN P \subseteq Int /\ \A i \in DOMAIN P : P[i] \in Requests
      /\ rw \in Rows /\ e \in Epochs /\ lv \in Snapshots /\ h \in Hands
  BY DEF Typed
<1>2. Typed(P, rw2, e, lv, h) BY <1>1 DEF Typed
<1>3. /\ \A i \in DOMAIN P : IsRequest(P[i]) => P[i].epoch \in Int /\ P[i].snap \in Snapshots
      /\ rw.epoch \in Int /\ rw.snap \in Snapshots /\ rw2.snap \in Snapshots /\ e \in Int
      /\ h.kind # "none" => h.epoch \in Int /\ h.snap \in Snapshots
  BY <1>1, PartFacts
<1>4. IsRequest(P[k]) /\ \A i \in DOMAIN P : IsSave(P[i]) => IsRequest(P[i])
  BY DEF IsSave, IsRequest
<1>5. /\ FitsRow(P[k], rw) /\ FitsPlayer(P[k], here, e, lv, fl) /\ FitsHand(P[k], h)
  BY <1>4 DEF AllFit
<1>6. AtLeast(rw2.snap, rw.snap) BY <1>5 DEF FitsRow
<1>7. ASSUME NEW i \in DOMAIN P, IsRequest(P[i]) PROVE FitsRow(P[i], rw2)
  <2>1. FitsRow(P[i], rw) BY <1>7 DEF AllFit
  <2>2. ASSUME IsSave(P[i]), P[i].epoch = rw2.epoch PROVE AtLeast(P[i].snap, rw2.snap)
    <3>1. CASE i = k BY <1>3, <1>4, <3>1, AtLeastFacts
    <3>2. CASE i # k
      <4>1. k < i BY <1>1, <3>2
      <4>2. Newer(P[i], P[k]) BY <2>2, <4>1 DEF Ordered, SavesInOrder
      <4> QED BY <2>2, <4>2 DEF Newer
    <3> QED BY <3>1, <3>2
  <2> QED BY <2>1, <2>2 DEF FitsRow
<1>8. AllFit(P, rw2, here, e, lv, fl, h) BY <1>7 DEF AllFit
<1>9. PlayerFits(rw2, here, e, lv, fl)
  <2>1. here = TRUE /\ e = rw.epoch => AtLeast(lv, rw2.snap) BY <1>5 DEF FitsPlayer
  <2>2. ASSUME fl = "ok", rw.epoch = e PROVE rw2.snap.prog = lv.prog
    <3>1. here = TRUE /\ rw.snap.prog = lv.prog BY <2>2 DEF PlayerFits
    <3>2. AtLeast(lv, rw2.snap) BY <2>1, <2>2, <3>1
    <3> QED BY <1>1, <1>3, <1>6, <3>1, <3>2, PartFacts DEF AtLeast
  <2> QED BY <2>1, <2>2 DEF PlayerFits
<1>10. HandFits(rw2, here, e, h)
  <2> SUFFICES ASSUME h.kind # "none" PROVE HandFits(rw2, here, e, h)
    BY DEF HandFits
  <2>1. h.kind = "select" /\ h.phase # "err" /\ h.epoch = rw.epoch => AtLeast(h.snap, rw2.snap)
    BY <1>5 DEF FitsHand
  <2>2. h.phase = "ok" => AtLeast(rw2.snap, h.snap)
    BY <1>3, <1>6, AtLeastFacts DEF HandFits
  <2> QED BY <2>1, <2>2 DEF HandFits
<1> QED BY <1>2, <1>6, <1>8, <1>9, <1>10

\* An exit of the row's epoch commits.
LEMMA ExitIsCommitted ==
    ASSUME NEW P, NEW rw, NEW here, NEW e, NEW lv, NEW fl, NEW h,
           Good(P, rw, here, e, lv, fl, h),
           NEW k \in DOMAIN P, IsExit(P[k]), P[k].epoch = rw.epoch,
           NEW rw2 \in Rows, rw2.epoch = rw.epoch + 1, rw2.snap = P[k].snap
    PROVE  Good(P, rw2, here, e, lv, fl, h)
<1> USE DEF Good
<1>1. /\ DOMAIN P \subseteq Int /\ \A i \in DOMAIN P : P[i] \in Requests
      /\ rw \in Rows /\ e \in Epochs /\ lv \in Snapshots /\ h \in Hands
  BY DEF Typed
<1>2. Typed(P, rw2, e, lv, h) BY <1>1 DEF Typed
<1>3. /\ \A i \in DOMAIN P : IsRequest(P[i]) => P[i].epoch \in Int
      /\ rw.epoch \in Int /\ e \in Int /\ (h.kind # "none" => h.epoch \in Int)
  BY <1>1, PartFacts
<1>4. IsRequest(P[k]) BY DEF IsExit, IsRequest
<1>5. AllFit(P, rw2, here, e, lv, fl, h) BY <1>3 DEF AllFit, FitsRow
<1>6. PlayerFits(rw2, here, e, lv, fl) BY <1>3 DEF PlayerFits
<1>7. HandFits(rw2, here, e, h)
  <2> SUFFICES ASSUME h.kind # "none" PROVE HandFits(rw2, here, e, h)
    BY DEF HandFits
  <2>1. h.phase # "ok" BY <1>3, <1>4 DEF AllFit, FitsHand, HandFits
  <2> QED BY <1>3, <2>1 DEF HandFits
<1> QED BY <1>2, <1>5, <1>6, <1>7

-----------------------------------------------------------------------------
(* Answers.                                                                *)

\* The simulation hears of its flush.
LEMMA FlushIsAnswered ==
    ASSUME NEW P, NEW rw, NEW here, NEW e, NEW lv, NEW fl, NEW h,
           Good(P, rw, here, e, lv, fl, h), fl = "waiting",
           \A i \in DOMAIN P : ~Asks(P[i], "sim"),
           NEW fl2 \in {"ok", "err"}, fl2 = "ok" /\ rw.epoch = e => rw.snap.prog = lv.prog
    PROVE  Good(P, rw, here, e, lv, fl2, h)
<1>1. AllFit(P, rw, here, e, lv, fl2, h)
  <2> SUFFICES ASSUME NEW i \in DOMAIN P, IsRequest(P[i])
               PROVE  FitsPlayer(P[i], here, e, lv, fl2)
    BY DEF Good, AllFit
  <2>1. P[i].reply # "sim" BY DEF Asks
  <2> QED BY <2>1 DEF Good, AllFit, FitsPlayer
<1>2. PlayerFits(rw, here, e, lv, fl2) BY DEF Good, PlayerFits
<1> QED BY <1>1, <1>2 DEF Good

\* A flush that was heard of is forgotten.
LEMMA FlushIsFinalized ==
    ASSUME NEW P, NEW rw, NEW here, NEW e, NEW lv, NEW fl, NEW h,
           Good(P, rw, here, e, lv, fl, h), fl # "waiting"
    PROVE  Good(P, rw, here, e, lv, "none", h)
<1>1. AllFit(P, rw, here, e, lv, "none", h) BY DEF Good, AllFit, FitsPlayer
<1>2. PlayerFits(rw, here, e, lv, "none") BY DEF Good, PlayerFits
<1> QED BY <1>1, <1>2 DEF Good

\* The handler hears of its save, or gives up.
LEMMA HandIsAnswered ==
    ASSUME NEW P, NEW rw, NEW here, NEW e, NEW lv, NEW fl, NEW h,
           Good(P, rw, here, e, lv, fl, h), h.kind # "none", h.phase \in {"captured", "sent"},
           \A i \in DOMAIN P : ~Asks(P[i], "hand"),
           NEW h2 \in Hands, h2.kind = h.kind, h2.snap = h.snap, h2.epoch = h.epoch,
           h2.phase \in {"ok", "err"},
           h2.phase = "ok" =>
              /\ AtLeast(rw.snap, h.snap)
              /\ h.kind = "select" => /\ h.epoch = rw.epoch
                                      /\ \A i \in DOMAIN P : ~IsExit(P[i])
              /\ h.kind # "select" => h.epoch < rw.epoch
    PROVE  Good(P, rw, here, e, lv, fl, h2)
<1>1. Typed(P, rw, e, lv, h2) BY DEF Good, Typed
<1>2. AllFit(P, rw, here, e, lv, fl, h2)
  <2> SUFFICES ASSUME NEW i \in DOMAIN P, IsRequest(P[i]) PROVE FitsHand(P[i], h2)
    BY DEF Good, AllFit
  <2>1. P[i].reply # "hand" BY DEF Asks
  <2>2. FitsHand(P[i], h) BY DEF Good, AllFit
  <2> QED BY <2>1, <2>2 DEF FitsHand
<1>3. HandFits(rw, here, e, h2) BY DEF Good, HandFits
<1> QED BY <1>1, <1>2, <1>3 DEF Good

-----------------------------------------------------------------------------
(* Requests are sent.                                                      *)

\* Q is P with the request r behind it.
Grown(Q, P, n, r) ==
    /\ n \in Int /\ DOMAIN Q = DOMAIN P \cup {n} /\ Q[n] = r
    /\ \A i \in DOMAIN P : i < n /\ Q[i] = P[i]

\* The order, with a request more.
LEMMA GrownIsOrdered ==
    ASSUME NEW P, NEW Q, NEW n, NEW r, Grown(Q, P, n, r), DOMAIN P \subseteq Int, Ordered(P),
           IsSave(r) => \A i \in DOMAIN P : IsSave(P[i]) => Newer(r, P[i]),
           r.reply \in {"sim", "hand"} => \A i \in DOMAIN P : ~Asks(P[i], r.reply),
           IsExit(r) => \A i \in DOMAIN P : ~Asks(P[i], "hand"),
           IsSave(r) => (r.kind = "flush" <=> r.reply # "none")
    PROVE  Ordered(Q)
<1>1. \A i \in DOMAIN Q : i \in Int /\ i <= n /\ (i # n => i \in DOMAIN P /\ Q[i] = P[i])
  BY DEF Grown
<1>2. Q[n] = r BY DEF Grown
<1>3. SavesInOrder(Q)
  <2> SUFFICES ASSUME NEW i \in DOMAIN Q, NEW j \in DOMAIN Q, i < j, IsSave(Q[i]), IsSave(Q[j])
               PROVE  Newer(Q[j], Q[i])
    BY DEF SavesInOrder
  <2>1. i \in DOMAIN P /\ Q[i] = P[i] BY <1>1
  <2>2. CASE j = n BY <1>2, <2>1, <2>2
  <2>3. CASE j # n BY <1>1, <2>1, <2>3 DEF Ordered, SavesInOrder
  <2> QED BY <2>2, <2>3
<1>4. AnswersAreUnique(Q)
  <2> SUFFICES ASSUME NEW who \in {"sim", "hand"}, NEW i \in DOMAIN Q, NEW j \in DOMAIN Q,
                      Asks(Q[i], who), Asks(Q[j], who)
               PROVE  i = j
    BY DEF AnswersAreUnique
  <2>1. Asks(r, who) => r.reply = who BY DEF Asks
  <2>2. CASE i # n /\ j # n BY <1>1, <2>2 DEF Ordered, AnswersAreUnique
  <2>3. CASE i = n /\ j # n BY <1>1, <1>2, <2>1, <2>3
  <2>4. CASE i # n /\ j = n BY <1>1, <1>2, <2>1, <2>4
  <2> QED BY <2>2, <2>3, <2>4
<1>5. SelectIsLast(Q)
  <2> SUFFICES ASSUME NEW i \in DOMAIN Q, NEW j \in DOMAIN Q, i < j, IsSave(Q[i]),
                      Q[i].reply = "hand", IsExit(Q[j])
               PROVE  FALSE
    BY DEF SelectIsLast
  <2>1. i \in DOMAIN P /\ Q[i] = P[i] BY <1>1
  <2>2. Asks(P[i], "hand") BY <2>1 DEF Asks, IsSave, IsRequest
  <2>3. CASE j = n BY <1>2, <2>1, <2>2, <2>3
  <2>4. CASE j # n BY <1>1, <2>1, <2>4 DEF Ordered, SelectIsLast
  <2> QED BY <2>3, <2>4
<1>6. FlushesAreAwaited(Q) BY <1>1, <1>2 DEF Ordered, FlushesAreAwaited
<1> QED BY <1>3, <1>4, <1>5, <1>6 DEF Ordered

\* A snapshot of the player as it is: newer than every save on its way.
LEMMA LiveIsNewer ==
    ASSUME NEW P, NEW rw, NEW here, NEW e, NEW lv, NEW fl, NEW h,
           Good(P, rw, here, e, lv, fl, h), here = TRUE,
           NEW r \in Requests, IsRequest(r), r.epoch = e, r.snap = lv
    PROVE  \A i \in DOMAIN P : IsSave(P[i]) => Newer(r, P[i])
<1> SUFFICES ASSUME NEW i \in DOMAIN P, IsSave(P[i]) PROVE Newer(r, P[i])
  OBVIOUS
<1>1. IsRequest(P[i]) BY DEF IsSave, IsRequest
<1>2. FitsPlayer(P[i], here, e, lv, fl) BY <1>1 DEF Good, AllFit
<1>3. P[i].epoch \in Int /\ e \in Int BY <1>1, PartFacts DEF Good, Typed
<1> QED BY <1>2, <1>3 DEF FitsPlayer, Newer

\* An autosave.
LEMMA AutosaveIsSent ==
    ASSUME NEW P, NEW rw, NEW here, NEW e, NEW lv, NEW fl, NEW h,
           Good(P, rw, here, e, lv, fl, h), here = TRUE,
           NEW r \in Requests, r.kind = "autosave", r.epoch = e, r.snap = lv, r.reply = "none",
           NEW Q, NEW n, Grown(Q, P, n, r)
    PROVE  Good(Q, rw, here, e, lv, fl, h)
<1>1. IsSave(r) /\ IsRequest(r) /\ ~IsExit(r) BY DEF IsSave, IsRequest, IsExit
<1>2. \A i \in DOMAIN P : IsSave(P[i]) => Newer(r, P[i]) BY <1>1, LiveIsNewer
<1>3. DOMAIN P \subseteq Int /\ Ordered(P) /\ Typed(P, rw, e, lv, h) BY DEF Good, Typed
<1>4. Ordered(Q) BY <1>1, <1>2, <1>3, GrownIsOrdered
<1>5. Typed(Q, rw, e, lv, h) BY <1>3 DEF Typed, Grown
<1>6. e \in Int /\ rw.epoch \in Int /\ AtLeast(lv, lv)
  BY PartFacts, AtLeastFacts DEF Good, Typed
<1>7. FitsRow(r, rw) BY <1>6 DEF Good, PlayerFits, FitsRow
<1>8. FitsPlayer(r, here, e, lv, fl) BY <1>6 DEF FitsPlayer
<1>9. FitsHand(r, h) BY <1>1, <1>6 DEF Good, HandFits, FitsHand
<1>10. AllFit(Q, rw, here, e, lv, fl, h) BY <1>7, <1>8, <1>9 DEF Good, AllFit, Grown
<1> QED BY <1>4, <1>5, <1>10 DEF Good

\* What the player has grows.
LEMMA LiveGrows ==
    ASSUME NEW P, NEW rw, NEW here, NEW e, NEW lv, NEW fl, NEW h,
           Good(P, rw, here, e, lv, fl, h),
           NEW lv2 \in Snapshots, AtLeast(lv2, lv), fl = "none" \/ lv2.prog = lv.prog
    PROVE  Good(P, rw, here, e, lv2, fl, h)
<1>1. Typed(P, rw, e, lv2, h) BY DEF Good, Typed
<1>2. /\ \A i \in DOMAIN P : IsRequest(P[i]) => P[i].snap \in Snapshots
      /\ rw.snap \in Snapshots /\ lv \in Snapshots
  BY PartFacts DEF Good, Typed
<1>3. AllFit(P, rw, here, e, lv2, fl, h)
  <2> SUFFICES ASSUME NEW i \in DOMAIN P, IsRequest(P[i])
               PROVE  FitsPlayer(P[i], here, e, lv2, fl)
    BY DEF Good, AllFit
  <2>1. FitsPlayer(P[i], here, e, lv, fl) BY DEF Good, AllFit
  <2>2. AtLeast(lv, P[i].snap) => AtLeast(lv2, P[i].snap) BY <1>2, AtLeastFacts
  <2> QED BY <2>1, <2>2 DEF FitsPlayer
<1>4. PlayerFits(rw, here, e, lv2, fl)
  <2>1. AtLeast(lv, rw.snap) => AtLeast(lv2, rw.snap) BY <1>2, AtLeastFacts
  <2> QED BY <2>1 DEF Good, PlayerFits
<1> QED BY <1>1, <1>3, <1>4 DEF Good

\* A durable flush of a core stat change.
LEMMA FlushIsSent ==
    ASSUME NEW P, NEW rw, NEW here, NEW e, NEW lv, NEW h,
           Good(P, rw, here, e, lv, "none", h), here = TRUE,
           NEW r \in Requests, r.kind = "flush", r.epoch = e, r.snap = lv, r.reply = "sim",
           NEW Q, NEW n, Grown(Q, P, n, r)
    PROVE  Good(Q, rw, here, e, lv, "waiting", h)
<1>1. IsSave(r) /\ IsRequest(r) /\ ~IsExit(r) BY DEF IsSave, IsRequest, IsExit
<1>2. \A i \in DOMAIN P : IsSave(P[i]) => Newer(r, P[i]) BY <1>1, LiveIsNewer
<1>3. DOMAIN P \subseteq Int /\ Ordered(P) /\ Typed(P, rw, e, lv, h) BY DEF Good, Typed
<1>4. \A i \in DOMAIN P : ~Asks(P[i], "sim") BY DEF Good, AllFit, FitsPlayer, Asks
<1>5. Ordered(Q) BY <1>1, <1>2, <1>3, <1>4, GrownIsOrdered
<1>6. Typed(Q, rw, e, lv, h) BY <1>3 DEF Typed, Grown
<1>7. e \in Int /\ rw.epoch \in Int /\ lv.prog \in Int /\ AtLeast(lv, lv)
  BY PartFacts, AtLeastFacts DEF Good, Typed
<1>8. FitsRow(r, rw) BY <1>7 DEF Good, PlayerFits, FitsRow
<1>9. FitsPlayer(r, here, e, lv, "waiting") BY <1>7 DEF FitsPlayer
<1>10. FitsHand(r, h) BY <1>1, <1>7 DEF Good, HandFits, FitsHand
<1>11. AllFit(Q, rw, here, e, lv, "waiting", h)
  <2> SUFFICES ASSUME NEW i \in DOMAIN P, IsRequest(P[i])
               PROVE  /\ FitsRow(P[i], rw) /\ FitsPlayer(P[i], here, e, lv, "waiting")
                      /\ FitsHand(P[i], h)
    BY <1>8, <1>9, <1>10 DEF AllFit, Grown
  <2> QED BY DEF Good, AllFit, FitsPlayer
<1>12. PlayerFits(rw, here, e, lv, "waiting") BY DEF Good, PlayerFits
<1> QED BY <1>5, <1>6, <1>11, <1>12 DEF Good

\* The handler's save is admitted: the flush of the way to character select,
\* or an exit.
LEMMA HandIsSent ==
    ASSUME NEW P, NEW rw, NEW here, NEW e, NEW lv, NEW fl, NEW h,
           Good(P, rw, here, e, lv, fl, h), h.kind # "none", h.phase = "captured",
           NEW r \in Requests, r.kind = IF h.kind = "select" THEN "flush" ELSE "exit",
           r.epoch = h.epoch, r.snap = h.snap, r.reply = "hand",
           NEW h2 \in Hands, h2.kind = h.kind, h2.snap = h.snap, h2.epoch = h.epoch,
           h2.phase = "sent",
           NEW Q, NEW n, Grown(Q, P, n, r)
    PROVE  Good(Q, rw, here, e, lv, fl, h2)
<1>1. IsRequest(r) /\ (IsSave(r) <=> h.kind = "select") /\ (IsExit(r) <=> h.kind # "select")
  BY DEF IsSave, IsRequest, IsExit
<1>2. DOMAIN P \subseteq Int /\ Ordered(P) /\ Typed(P, rw, e, lv, h) BY DEF Good, Typed
<1>3. \A i \in DOMAIN P : ~Asks(P[i], "hand") BY DEF Good, AllFit, FitsHand, Asks
<1>4. /\ \A i \in DOMAIN P : IsRequest(P[i]) => P[i].epoch \in Int
      /\ h.epoch \in Int /\ e \in Int /\ rw.epoch \in Int /\ AtLeast(h.snap, h.snap)
  BY <1>2, PartFacts, AtLeastFacts DEF Typed
<1>5. ASSUME IsSave(r) PROVE \A i \in DOMAIN P : IsSave(P[i]) => Newer(r, P[i])
  <2> SUFFICES ASSUME NEW i \in DOMAIN P, IsSave(P[i]) PROVE Newer(r, P[i])
    OBVIOUS
  <2>1. IsRequest(P[i]) BY DEF IsSave, IsRequest
  <2>2. FitsHand(P[i], h) BY <2>1 DEF Good, AllFit
  <2> QED BY <1>1, <1>4, <1>5, <2>1, <2>2 DEF FitsHand, Newer
<1>6. Ordered(Q) BY <1>1, <1>2, <1>3, <1>5, GrownIsOrdered
<1>7. Typed(Q, rw, e, lv, h2) BY <1>2 DEF Typed, Grown
<1>8. FitsRow(r, rw) BY <1>1, <1>4 DEF Good, HandFits, FitsRow
<1>9. FitsPlayer(r, here, e, lv, fl) BY <1>1, <1>4 DEF Good, HandFits, FitsPlayer
<1>10. FitsHand(r, h2) BY <1>1, <1>4 DEF FitsHand
<1>11. AllFit(Q, rw, here, e, lv, fl, h2)
  <2> SUFFICES ASSUME NEW i \in DOMAIN P, IsRequest(P[i])
               PROVE  /\ FitsRow(P[i], rw) /\ FitsPlayer(P[i], here, e, lv, fl)
                      /\ FitsHand(P[i], h2)
    BY <1>8, <1>9, <1>10 DEF AllFit, Grown
  <2>1. FitsRow(P[i], rw) /\ FitsPlayer(P[i], here, e, lv, fl) /\ FitsHand(P[i], h)
    BY DEF Good, AllFit
  <2> QED BY <2>1 DEF FitsHand
<1>12. HandFits(rw, here, e, h2) BY DEF Good, HandFits
<1> QED BY <1>6, <1>7, <1>11, <1>12 DEF Good

-----------------------------------------------------------------------------
(* Receivers are dropped, players leave and come back.                     *)

\* A request without its listener.
LEMMA DeafFacts ==
    ASSUME NEW r \in Requests, NEW who \in {"sim", "hand"}
    PROVE  /\ Deaf(r, who) \in Requests /\ Deaf(r, who).kind = r.kind
           /\ r = None => Deaf(r, who) = None
           /\ IsRequest(r) => /\ Deaf(r, who).snap = r.snap /\ Deaf(r, who).epoch = r.epoch
                              /\ Deaf(r, who).reply = IF r.reply = who THEN "gone" ELSE r.reply
           /\ (IsSave(r) <=> IsSave(Deaf(r, who))) /\ (IsExit(r) <=> IsExit(Deaf(r, who)))
           /\ (IsRequest(r) <=> IsRequest(Deaf(r, who)))
           /\ (r \in Saves => Deaf(r, who) \in Saves) /\ (r \in Exits => Deaf(r, who) \in Exits)
<1>1. CASE r = None BY <1>1 DEF Deaf, None, IsRequest, IsSave, IsExit, Saves, Exits
<1>2. CASE r \in Saves
  <2>1. r # None BY <1>2 DEF None, Saves
  <2>2. Deaf(r, who) = IF r.reply = who THEN [r EXCEPT !.reply = "gone"] ELSE r
    BY <2>1 DEF Deaf
  <2>3. Deaf(r, who) \in Saves BY <1>2, <2>2 DEF Saves, Repliers
  <2>4. /\ Deaf(r, who).kind = r.kind /\ Deaf(r, who).snap = r.snap /\ Deaf(r, who).epoch = r.epoch
        /\ Deaf(r, who).reply = IF r.reply = who THEN "gone" ELSE r.reply
    BY <1>2, <2>2 DEF Saves
  <2>5. r.kind \in {"autosave", "flush"} BY <1>2 DEF Saves
  <2> QED BY <2>1, <2>3, <2>4, <2>5, <1>2 DEF Requests, IsRequest, IsSave, IsExit, Saves, Exits
<1>3. CASE r \in Exits
  <2>1. r # None BY <1>3 DEF None, Exits
  <2>2. Deaf(r, who) = IF r.reply = who THEN [r EXCEPT !.reply = "gone"] ELSE r
    BY <2>1 DEF Deaf
  <2>3. Deaf(r, who) \in Exits BY <1>3, <2>2 DEF Exits
  <2>4. /\ Deaf(r, who).kind = r.kind /\ Deaf(r, who).snap = r.snap /\ Deaf(r, who).epoch = r.epoch
        /\ Deaf(r, who).reply = IF r.reply = who THEN "gone" ELSE r.reply
    BY <1>3, <2>2 DEF Exits
  <2>5. r.kind = "exit" BY <1>3 DEF Exits
  <2> QED BY <2>1, <2>3, <2>4, <2>5, <1>3 DEF Requests, IsRequest, IsSave, IsExit, Saves, Exits
<1> QED BY <1>1, <1>2, <1>3 DEF Requests

\* Dropping a receiver leaves the requests as they are.
LEMMA DeafenedIsGood ==
    ASSUME NEW P, NEW rw, NEW here, NEW e, NEW lv, NEW fl, NEW h,
           Good(P, rw, here, e, lv, fl, h), NEW who \in {"sim", "hand"},
           NEW Q, DOMAIN Q = DOMAIN P, \A i \in DOMAIN P : Q[i] = Deaf(P[i], who)
    PROVE  Good(Q, rw, here, e, lv, fl, h) /\ \A i \in DOMAIN Q : ~Asks(Q[i], who)
<1>1. Typed(P, rw, e, lv, h) /\ DOMAIN P \subseteq Int /\ Ordered(P)
      /\ \A i \in DOMAIN P : P[i] \in Requests
  BY DEF Good, Typed
<1>2. \A i \in DOMAIN P :
         /\ Q[i] \in Requests /\ Q[i].kind = P[i].kind
         /\ IsRequest(P[i]) => /\ Q[i].snap = P[i].snap /\ Q[i].epoch = P[i].epoch
                               /\ Q[i].reply = IF P[i].reply = who THEN "gone" ELSE P[i].reply
         /\ (IsSave(P[i]) <=> IsSave(Q[i])) /\ (IsExit(P[i]) <=> IsExit(Q[i]))
         /\ (IsRequest(P[i]) <=> IsRequest(Q[i]))
  BY <1>1, DeafFacts
<1>3. \A i \in DOMAIN P : IsSave(P[i]) => IsRequest(P[i]) BY DEF IsSave, IsRequest
<1>4. Typed(Q, rw, e, lv, h) BY <1>1, <1>2 DEF Typed
<1>5. SavesInOrder(Q) BY <1>1, <1>2, <1>3 DEF Ordered, SavesInOrder, Newer
<1>6. \A i \in DOMAIN Q, w \in {"sim", "hand"} : Asks(Q[i], w) => Asks(P[i], w)
  BY <1>2 DEF Asks
<1>7. AnswersAreUnique(Q) BY <1>1, <1>6 DEF Ordered, AnswersAreUnique
<1>8. SelectIsLast(Q) BY <1>1, <1>2, <1>3 DEF Ordered, SelectIsLast
<1>9. FlushesAreAwaited(Q) BY <1>1, <1>2, <1>3 DEF Ordered, FlushesAreAwaited
<1>10. AllFit(Q, rw, here, e, lv, fl, h)
  <2> SUFFICES ASSUME NEW i \in DOMAIN Q, IsRequest(Q[i])
               PROVE  FitsRow(Q[i], rw) /\ FitsPlayer(Q[i], here, e, lv, fl) /\ FitsHand(Q[i], h)
    BY DEF AllFit
  <2>1. /\ IsRequest(P[i]) /\ Q[i].snap = P[i].snap /\ Q[i].epoch = P[i].epoch
        /\ (IsSave(P[i]) <=> IsSave(Q[i])) /\ (IsExit(P[i]) <=> IsExit(Q[i]))
        /\ Q[i].reply = "sim" => P[i].reply = "sim"
        /\ Q[i].reply = "hand" => P[i].reply = "hand"
    BY <1>2
  <2>2. FitsRow(P[i], rw) /\ FitsPlayer(P[i], here, e, lv, fl) /\ FitsHand(P[i], h)
    BY <2>1 DEF Good, AllFit
  <2> QED BY <2>1, <2>2 DEF FitsRow, FitsPlayer, FitsHand
<1>11. \A i \in DOMAIN Q : ~Asks(Q[i], who) BY <1>2 DEF Asks
<1> QED BY <1>4, <1>5, <1>7, <1>8, <1>9, <1>10, <1>11 DEF Good, Ordered

\* A handoff is captured.
LEMMA HandoffIsCaptured ==
    ASSUME NEW P, NEW rw, NEW here, NEW e, NEW lv, NEW fl, NEW h,
           Good(P, rw, here, e, lv, fl, h), here = TRUE, h.kind = "none",
           NEW h2 \in Hands, h2.kind = "handoff", h2.epoch = e, h2.phase = "captured"
    PROVE  Good(P, rw, here, e, lv, fl, h2)
<1>1. Typed(P, rw, e, lv, h2) BY DEF Good, Typed
<1>2. AllFit(P, rw, here, e, lv, fl, h2)
  BY DEF Good, AllFit, FitsPlayer, FitsHand
<1>3. HandFits(rw, here, e, h2) BY DEF Good, PlayerFits, HandFits
<1> QED BY <1>1, <1>2, <1>3 DEF Good

\* The player leaves with a snapshot, or after a handoff that committed.
LEMMA PlayerLeaves ==
    ASSUME NEW P, NEW rw, NEW here, NEW e, NEW lv, NEW fl, NEW h,
           Good(P, rw, here, e, lv, fl, h), here = TRUE,
           \A i \in DOMAIN P : ~Asks(P[i], "sim"),
           NEW e2 \in Epochs, NEW lv2 \in Snapshots, NEW h2 \in Hands,
           \/ /\ h.kind = "none" /\ h2.kind \in {"disconnect", "select"} /\ h2.epoch = e
              /\ h2.snap = lv /\ h2.phase = "captured"
           \/ /\ h.kind = "handoff" /\ h.phase = "ok" /\ h2.kind = "left" /\ h2.epoch = h.epoch
              /\ h2.snap = h.snap /\ h2.phase = "ok"
    PROVE  Good(P, rw, FALSE, e2, lv2, "none", h2)
<1>1. Typed(P, rw, e2, lv2, h2) BY DEF Good, Typed
<1>2. AllFit(P, rw, FALSE, e2, lv2, "none", h2)
  <2> SUFFICES ASSUME NEW i \in DOMAIN P, IsRequest(P[i])
               PROVE  FitsPlayer(P[i], FALSE, e2, lv2, "none") /\ FitsHand(P[i], h2)
    BY DEF Good, AllFit
  <2>1. FitsPlayer(P[i], here, e, lv, fl) /\ FitsHand(P[i], h) BY DEF Good, AllFit
  <2>2. P[i].reply # "sim" BY DEF Asks
  <2>3. FitsPlayer(P[i], FALSE, e2, lv2, "none") BY <2>2 DEF FitsPlayer
  <2>4. FitsHand(P[i], h2) BY <2>1 DEF FitsPlayer, FitsHand
  <2> QED BY <2>3, <2>4
<1>3. PlayerFits(rw, FALSE, e2, lv2, "none") BY DEF PlayerFits
<1>4. HandFits(rw, FALSE, e2, h2) BY DEF Good, PlayerFits, HandFits
<1> QED BY <1>1, <1>2, <1>3, <1>4 DEF Good

\* A handoff that failed is over, and the player stays.
LEMMA HandoffIsOver ==
    ASSUME NEW P, NEW rw, NEW here, NEW e, NEW lv, NEW fl, NEW h,
           Good(P, rw, here, e, lv, fl, h), h.kind = "handoff", h.phase = "err"
    PROVE  Good(P, rw, here, e, lv, fl, None)
<1>1. None.kind = "none" BY DEF None
<1>2. Typed(P, rw, e, lv, None) BY DEF Good, Typed, Hands
<1>3. AllFit(P, rw, here, e, lv, fl, None) BY <1>1 DEF Good, AllFit, FitsHand
<1>4. HandFits(rw, here, e, None) BY <1>1 DEF HandFits
<1> QED BY <1>2, <1>3, <1>4 DEF Good

\* The way to character select failed: a disconnect takes over its snapshot.
LEMMA SelectBecomesExit ==
    ASSUME NEW P, NEW rw, NEW here, NEW e, NEW lv, NEW fl, NEW h,
           Good(P, rw, here, e, lv, fl, h), h.kind = "select", h.phase = "err",
           NEW h2 \in Hands, h2.kind = "disconnect", h2.snap = h.snap, h2.epoch = h.epoch,
           h2.phase = "captured"
    PROVE  Good(P, rw, here, e, lv, fl, h2)
<1>1. Typed(P, rw, e, lv, h2) BY DEF Good, Typed
<1>2. AllFit(P, rw, here, e, lv, fl, h2) BY DEF Good, AllFit, FitsHand
<1>3. HandFits(rw, here, e, h2) BY DEF Good, HandFits
<1> QED BY <1>1, <1>2, <1>3 DEF Good

\* The player comes back and is loaded from the row.
LEMMA PlayerReturns ==
    ASSUME NEW P, NEW rw, NEW here, NEW e, NEW lv, NEW fl, NEW h,
           Good(P, rw, here, e, lv, fl, h), here = FALSE,
           h.kind \notin {"none", "handoff"}, h.phase = "ok"
    PROVE  Good(P, rw, TRUE, rw.epoch, rw.snap, "none", None)
<1>1. None.kind = "none" BY DEF None
<1>2. /\ rw.epoch \in Epochs /\ rw.snap \in Snapshots /\ rw.epoch \in Int /\ AtLeast(rw.snap, rw.snap)
      /\ h.epoch \in Int /\ h.snap \in Snapshots
      /\ \A i \in DOMAIN P : IsRequest(P[i]) => P[i].epoch \in Int /\ P[i].snap \in Snapshots
  BY PartFacts, AtLeastFacts DEF Good, Typed
<1>3. Typed(P, rw, rw.epoch, rw.snap, None) BY <1>2 DEF Good, Typed, Hands
<1>4. AllFit(P, rw, TRUE, rw.epoch, rw.snap, "none", None)
  <2> SUFFICES ASSUME NEW i \in DOMAIN P, IsRequest(P[i])
               PROVE  /\ FitsPlayer(P[i], TRUE, rw.epoch, rw.snap, "none")
                      /\ FitsHand(P[i], None)
    BY DEF Good, AllFit
  <2>1. FitsRow(P[i], rw) /\ FitsPlayer(P[i], here, e, lv, fl) /\ FitsHand(P[i], h)
    BY DEF Good, AllFit
  <2>2. P[i].reply # "sim" /\ P[i].reply # "hand" BY <2>1 DEF FitsPlayer, FitsHand
  <2>3. ASSUME IsSave(P[i]), P[i].epoch = rw.epoch PROVE AtLeast(rw.snap, P[i].snap)
    <3>1. h.kind = "select" BY <1>2, <2>1, <2>3 DEF Good, HandFits, FitsHand
    <3>2. AtLeast(h.snap, P[i].snap) /\ AtLeast(rw.snap, h.snap)
      BY <2>1, <2>3, <3>1 DEF Good, HandFits, FitsHand
    <3> QED BY <1>2, <3>2, AtLeastFacts
  <2> QED BY <1>1, <2>1, <2>2, <2>3 DEF FitsRow, FitsPlayer, FitsHand
<1>5. PlayerFits(rw, TRUE, rw.epoch, rw.snap, "none") BY <1>2 DEF PlayerFits
<1>6. HandFits(rw, TRUE, rw.epoch, None) BY <1>1 DEF HandFits
<1> QED BY <1>3, <1>4, <1>5, <1>6 DEF Good

-----------------------------------------------------------------------------
(* The worker's lane.                                                      *)

\* M is P with the save at a merged into the next one, at b.
MergedAt(M, P, a, b) ==
    /\ a < b /\ \A i \in DOMAIN P : i <= a \/ b <= i
    /\ DOMAIN M = DOMAIN P /\ M[a] = None
    /\ \A i \in DOMAIN P \ {a, b} : M[i] = P[i]
    /\ M[b] \in Requests /\ M[b].snap = P[b].snap /\ M[b].epoch = P[b].epoch
    /\ M[b].kind = IF P[a].kind = "flush" THEN "flush" ELSE P[b].kind
    /\ M[b].reply = IF P[a].reply = "none" THEN P[b].reply ELSE P[a].reply

\* Two saves become one, which answers for both as far as it can.
LEMMA MergedIsGood ==
    ASSUME NEW P, NEW rw, NEW here, NEW e, NEW lv, NEW fl, NEW h,
           Good(P, rw, here, e, lv, fl, h),
           NEW a \in DOMAIN P, NEW b \in DOMAIN P, IsSave(P[a]), IsSave(P[b]),
           NEW M, MergedAt(M, P, a, b)
    PROVE  Good(M, rw, here, e, lv, fl, h)
<1>1. /\ Typed(P, rw, e, lv, h) /\ DOMAIN P \subseteq Int /\ Ordered(P)
      /\ \A i \in DOMAIN P : P[i] \in Requests
      /\ a < b /\ DOMAIN M = DOMAIN P /\ a \in Int /\ b \in Int
      /\ \A i \in DOMAIN P : i <= a \/ b <= i
  BY DEF Good, Typed, MergedAt
<1>2. ~IsSave(M[a]) /\ ~IsExit(M[a]) /\ ~IsRequest(M[a]) /\ M[a] \in Requests
  BY DEF MergedAt, None, IsSave, IsExit, IsRequest, Requests
<1>3. IsSave(M[b]) /\ IsRequest(M[b]) /\ ~IsExit(M[b])
  BY DEF MergedAt, IsSave, IsExit, IsRequest
<1>4. \A i \in DOMAIN M : i # a /\ i # b => M[i] = P[i] BY DEF MergedAt
<1>5. M[b].snap = P[b].snap /\ M[b].epoch = P[b].epoch /\ M[b] \in Requests BY DEF MergedAt
<1>6. M[b].reply = P[b].reply \/ (P[a].reply # "none" /\ M[b].reply = P[a].reply)
  BY DEF MergedAt
<1>7. IsRequest(P[a]) /\ IsRequest(P[b]) /\ \A i \in DOMAIN P : IsSave(P[i]) => IsRequest(P[i])
  BY DEF IsSave, IsRequest
<1>8. Typed(M, rw, e, lv, h) BY <1>1, <1>2, <1>4, <1>5 DEF Typed
<1>9. SavesInOrder(M)
  <2> SUFFICES ASSUME NEW i \in DOMAIN M, NEW j \in DOMAIN M, i < j, IsSave(M[i]), IsSave(M[j])
               PROVE  Newer(M[j], M[i])
    BY DEF SavesInOrder
  <2>1. i # a /\ j # a BY <1>2
  <2>2. \A k \in DOMAIN M : k # a /\ IsSave(M[k]) =>
           IsSave(P[k]) /\ M[k].snap = P[k].snap /\ M[k].epoch = P[k].epoch
    BY <1>4, <1>5
  <2>3. Newer(P[j], P[i]) BY <1>1, <2>1, <2>2 DEF Ordered, SavesInOrder
  <2> QED BY <2>1, <2>2, <2>3 DEF Newer
<1>10. AnswersAreUnique(M)
  <2> SUFFICES ASSUME NEW who \in {"sim", "hand"}, NEW i \in DOMAIN M, NEW j \in DOMAIN M,
                      Asks(M[i], who), Asks(M[j], who), i # b, i # j
               PROVE  FALSE
    BY DEF AnswersAreUnique
  <2>1. i # a /\ j # a BY <1>2 DEF Asks
  <2>2. Asks(P[i], who) BY <1>4, <2>1
  <2>3. CASE j # b BY <1>1, <1>4, <2>1, <2>2, <2>3 DEF Ordered, AnswersAreUnique
  <2>4. CASE j = b
    <3>1. Asks(P[a], who) \/ Asks(P[b], who) BY <1>6, <1>7, <2>4 DEF Asks
    <3> QED BY <1>1, <2>1, <2>2, <3>1 DEF Ordered, AnswersAreUnique
  <2> QED BY <2>3, <2>4
<1>11. SelectIsLast(M)
  <2> SUFFICES ASSUME NEW i \in DOMAIN M, NEW j \in DOMAIN M, i < j, IsSave(M[i]),
                      M[i].reply = "hand", IsExit(M[j])
               PROVE  FALSE
    BY DEF SelectIsLast
  <2>1. i # a /\ j # a /\ j # b BY <1>2, <1>3
  <2>2. IsExit(P[j]) BY <1>4, <2>1
  <2>3. CASE i # b BY <1>1, <1>4, <2>1, <2>2, <2>3 DEF Ordered, SelectIsLast
  <2>4. CASE i = b
    <3>1. a < j /\ b < j BY <1>1, <2>4
    <3>2. P[a].reply = "hand" \/ P[b].reply = "hand" BY <1>6, <2>4
    <3> QED BY <1>1, <2>2, <3>1, <3>2 DEF Ordered, SelectIsLast
  <2> QED BY <2>3, <2>4
<1>12. FlushesAreAwaited(M)
  <2>1. /\ P[a].kind = "flush" <=> P[a].reply # "none"
        /\ P[b].kind = "flush" <=> P[b].reply # "none"
    BY <1>1 DEF Ordered, FlushesAreAwaited
  <2>2. M[b].kind = "flush" <=> M[b].reply # "none" BY <2>1 DEF MergedAt
  <2> QED BY <1>1, <1>2, <1>4, <2>2 DEF Ordered, FlushesAreAwaited
<1>13. AllFit(M, rw, here, e, lv, fl, h)
  <2> SUFFICES FitsRow(M[b], rw) /\ FitsPlayer(M[b], here, e, lv, fl) /\ FitsHand(M[b], h)
    BY <1>1, <1>2, <1>4 DEF Good, AllFit
  <2>1. /\ FitsRow(P[a], rw) /\ FitsPlayer(P[a], here, e, lv, fl) /\ FitsHand(P[a], h)
        /\ FitsRow(P[b], rw) /\ FitsPlayer(P[b], here, e, lv, fl) /\ FitsHand(P[b], h)
    BY <1>7 DEF Good, AllFit
  <2>2. Newer(P[b], P[a]) BY <1>1 DEF Ordered, SavesInOrder
  <2>3. /\ P[a].epoch \in Int /\ P[b].epoch \in Int /\ P[a].snap \in Snapshots
        /\ P[b].snap \in Snapshots /\ e \in Int /\ lv \in Snapshots
        /\ h.kind # "none" => h.epoch \in Int /\ h.snap \in Snapshots
    BY <1>1, <1>7, PartFacts DEF Typed
  <2>4. FitsRow(M[b], rw) BY <1>3, <1>5, <2>1 DEF FitsRow
  <2>5. ASSUME P[a].reply = "sim"
        PROVE  here = TRUE /\ fl = "waiting" /\ P[b].epoch = e /\ P[b].snap.prog >= lv.prog
    <3>1. here = TRUE /\ fl = "waiting" /\ P[a].epoch = e /\ P[a].snap.prog >= lv.prog
      BY <2>1, <2>5 DEF FitsPlayer
    <3>2. P[b].epoch <= e BY <2>1, <3>1 DEF FitsPlayer
    <3>3. P[b].epoch = e BY <2>2, <2>3, <3>1, <3>2 DEF Newer
    <3>4. P[b].snap.prog >= P[a].snap.prog BY <2>2, <3>1, <3>3 DEF Newer, AtLeast
    <3>5. /\ P[b].snap.prog \in Int /\ P[a].snap.prog \in Int /\ lv.prog \in Int
      BY <2>3, PartFacts
    <3>6. P[b].snap.prog >= lv.prog BY <3>1, <3>4, <3>5
    <3> QED BY <3>1, <3>3, <3>6
  <2>6. FitsPlayer(M[b], here, e, lv, fl) BY <1>3, <1>5, <1>6, <2>1, <2>5 DEF FitsPlayer
  <2>7. ASSUME P[a].reply = "hand"
        PROVE  /\ h.kind = "select" /\ h.phase = "sent"
               /\ P[b].epoch = h.epoch /\ AtLeast(P[b].snap, h.snap)
    <3>1. /\ h.kind # "none" /\ h.phase = "sent" /\ P[a].epoch = h.epoch
          /\ AtLeast(P[a].snap, h.snap) /\ h.kind = "select"
      BY <2>1, <2>7 DEF FitsHand, IsSave, IsExit
    <3>2. P[b].epoch <= h.epoch BY <2>1, <3>1 DEF FitsHand
    <3>3. P[b].epoch = h.epoch BY <2>2, <2>3, <3>1, <3>2 DEF Newer
    <3>4. AtLeast(P[b].snap, P[a].snap) BY <2>2, <3>1, <3>3 DEF Newer
    <3>5. AtLeast(P[b].snap, h.snap) BY <2>3, <3>1, <3>4, AtLeastFacts
    <3> QED BY <3>1, <3>3, <3>5
  <2>8. FitsHand(M[b], h)
    <3>1. CASE M[b].reply = P[b].reply
      BY <1>3, <1>5, <2>1, <3>1 DEF FitsHand, IsExit, IsSave
    <3>2. CASE M[b].reply = P[a].reply
      <4>1. ~IsExit(P[b]) BY DEF IsSave, IsExit
      <4>2. CASE P[a].reply = "hand" BY <1>3, <1>5, <2>1, <2>7, <4>2 DEF FitsHand
      <4>3. CASE P[a].reply # "hand" BY <1>3, <1>5, <2>1, <3>2, <4>1, <4>3 DEF FitsHand
      <4> QED BY <4>2, <4>3
    <3> QED BY <1>6, <3>1, <3>2
  <2> QED BY <2>4, <2>6, <2>8
<1> QED BY <1>8, <1>9, <1>10, <1>11, <1>12, <1>13 DEF Good, Ordered

\* Who waited for the later of the two is left without an answer, if someone
\* waited for the earlier.
LEMMA MergedAsksNot ==
    ASSUME NEW P, NEW a \in DOMAIN P, NEW b \in DOMAIN P, AnswersAreUnique(P),
           NEW M, MergedAt(M, P, a, b), a \in Int, b \in Int,
           IsSave(P[a]), P[a].reply # "none",
           NEW who \in {"sim", "hand"}, Asks(P[b], who)
    PROVE  \A i \in DOMAIN M : ~Asks(M[i], who)
<1> SUFFICES ASSUME NEW i \in DOMAIN M, Asks(M[i], who) PROVE FALSE
  OBVIOUS
<1>1. i # a BY DEF MergedAt, None, Asks, IsRequest
<1>2. a # b /\ i \in DOMAIN P BY DEF MergedAt
<1>3. CASE i # b
  <2>1. M[i] = P[i] BY <1>1, <1>2, <1>3 DEF MergedAt
  <2> QED BY <1>2, <1>3, <2>1 DEF AnswersAreUnique
<1>4. CASE i = b
  <2>1. P[a].reply = who BY <1>4 DEF MergedAt, Asks
  <2>2. Asks(P[a], who) BY <2>1 DEF Asks, IsSave, IsRequest
  <2> QED BY <1>2, <2>2 DEF AnswersAreUnique
<1> QED BY <1>3, <1>4

-----------------------------------------------------------------------------
(* The pipe.                                                               *)

\* Where everything is.
LEMMA PipeFacts ==
    ASSUME NEW run, NEW ex, NEW sv, NEW ch \in Seq(Requests)
    PROVE  LET P == PipeOf(run, ex, sv, ch) IN
           /\ Len(ch) \in Nat /\ DOMAIN P = -2 .. Len(ch)
           /\ P[-2] = run /\ P[-1] = ex /\ P[0] = sv
           /\ \A i \in 1 .. Len(ch) : P[i] = ch[i] /\ ch[i] \in Requests
<1> DEFINE P == PipeOf(run, ex, sv, ch)
<1>1. Len(ch) \in Nat OBVIOUS
<1>2. DOMAIN P = -2 .. Len(ch) BY DEF PipeOf
<1>3. -2 \in -2 .. Len(ch) /\ -1 \in -2 .. Len(ch) /\ 0 \in -2 .. Len(ch) BY <1>1
<1>4. P[-2] = run BY <1>3 DEF PipeOf
<1>5. P[-1] = ex BY <1>3 DEF PipeOf
<1>6. P[0] = sv BY <1>3 DEF PipeOf
<1>7. ASSUME NEW i \in 1 .. Len(ch) PROVE P[i] = ch[i] /\ ch[i] \in Requests
  <2>1. i \in -2 .. Len(ch) /\ i # -2 /\ i # -1 /\ i # 0 BY <1>1
  <2> QED BY <2>1 DEF PipeOf
<1> QED BY <1>1, <1>2, <1>4, <1>5, <1>6, <1>7

\* The lane changes and the channel does not.
LEMMA LaneDraws ==
    ASSUME NEW run, NEW ex, NEW sv, NEW ch \in Seq(Requests),
           NEW run2 \in Requests, NEW ex2 \in Requests, NEW sv2 \in Requests,
           NEW g, \A i \in Nat \ {0} : g[i] = i,
           IsRequest(run2) => \/ g[-2] = -2 /\ run2 = run
                              \/ g[-2] = -1 /\ run2 = ex
                              \/ g[-2] = 0 /\ run2 = sv,
           IsRequest(ex2) => g[-1] = -1 /\ ex2 = ex,
           IsRequest(sv2) => \/ g[0] = 0 /\ sv2 = sv
                             \/ g[0] = -2 /\ sv2 = run,
           IsRequest(run2) /\ IsRequest(ex2) => g[-2] < g[-1],
           IsRequest(run2) /\ IsRequest(sv2) => g[-2] < g[0],
           IsRequest(ex2) /\ IsRequest(sv2) => g[-1] < g[0]
    PROVE  DrawnBy(g, PipeOf(run2, ex2, sv2, ch), PipeOf(run, ex, sv, ch))
<1> DEFINE P == PipeOf(run, ex, sv, ch)
           Q == PipeOf(run2, ex2, sv2, ch)
<1>1. /\ Len(ch) \in Nat /\ DOMAIN P = -2 .. Len(ch)
      /\ P[-2] = run /\ P[-1] = ex /\ P[0] = sv
      /\ \A i \in 1 .. Len(ch) : P[i] = ch[i] /\ ch[i] \in Requests
  BY PipeFacts
<1>2. /\ DOMAIN Q = -2 .. Len(ch)
      /\ Q[-2] = run2 /\ Q[-1] = ex2 /\ Q[0] = sv2
      /\ \A i \in 1 .. Len(ch) : Q[i] = ch[i]
  BY PipeFacts
<1> HIDE DEF P, Q
<1>3. \A i \in DOMAIN Q : i \in Int /\ (i = -2 \/ i = -1 \/ i = 0 \/ (i \in 1 .. Len(ch) /\ i \in Nat \ {0}))
  BY <1>1, <1>2
<1>4. \A i \in DOMAIN Q : Q[i] \in Requests BY <1>1, <1>2, <1>3
<1>5. ASSUME NEW i \in DOMAIN Q, IsRequest(Q[i]) PROVE g[i] \in DOMAIN P /\ Q[i] = P[g[i]]
  BY <1>1, <1>2, <1>3, <1>5
<1>6. ASSUME NEW i \in DOMAIN Q, NEW j \in DOMAIN Q, i < j, IsRequest(Q[i]), IsRequest(Q[j])
      PROVE  g[i] < g[j]
  <2>1. CASE j \in 1 .. Len(ch)
    <3>1. g[j] = j /\ j \in Nat /\ j > 0 BY <1>1, <2>1
    <3>2. CASE i \in 1 .. Len(ch) BY <1>1, <1>6, <3>1, <3>2
    <3>3. CASE i \in {-2, -1, 0}
      <4>1. g[i] \in {-2, -1, 0} BY <1>2, <1>6, <3>3
      <4> QED BY <3>1, <4>1
    <3> QED BY <1>3, <3>2, <3>3
  <2>2. CASE j \in {-2, -1, 0} BY <1>2, <1>3, <1>6, <2>2
  <2> QED BY <1>3, <2>1, <2>2
<1> QED BY <1>3, <1>4, <1>5, <1>6 DEF DrawnBy, P, Q

\* d is c without its first element.
Rest(d, c) == Len(c) = Len(d) + 1 /\ \A i \in 1 .. Len(d) : d[i] = c[i + 1]

\* How the places behind the first one move up.
Behind(i) == i + 1
MovesUp(g) == g[-2] = -2 /\ \A i \in Nat \ {0} : g[i] = Behind(i)

\* The first request leaves the channel, for the lane or for good.
LEMMA ChannelDraws ==
    ASSUME NEW run \in Requests, NEW ex, NEW sv, NEW ch \in Seq(Requests),
           NEW ch2 \in Seq(Requests), Rest(ch2, ch),
           NEW ex2 \in Requests, NEW sv2 \in Requests,
           NEW g, MovesUp(g),
           IsRequest(ex2) => (g[-1] = -1 /\ ex2 = ex) \/ (g[-1] = 1 /\ ex2 = ch[1]),
           IsRequest(sv2) => (g[0] = 0 /\ sv2 = sv) \/ (g[0] = 1 /\ sv2 = ch[1]),
           IsRequest(ex2) /\ IsRequest(sv2) => g[-1] < g[0]
    PROVE  DrawnBy(g, PipeOf(run, ex2, sv2, ch2), PipeOf(run, ex, sv, ch))
<1> DEFINE P == PipeOf(run, ex, sv, ch)
           Q == PipeOf(run, ex2, sv2, ch2)
<1>1. /\ Len(ch) \in Nat /\ DOMAIN P = -2 .. Len(ch)
      /\ P[-2] = run /\ P[-1] = ex /\ P[0] = sv
      /\ \A i \in 1 .. Len(ch) : P[i] = ch[i] /\ ch[i] \in Requests
  BY PipeFacts
<1>2. /\ Len(ch2) \in Nat /\ DOMAIN Q = -2 .. Len(ch2)
      /\ Q[-2] = run /\ Q[-1] = ex2 /\ Q[0] = sv2
      /\ \A i \in 1 .. Len(ch2) : Q[i] = ch2[i] /\ ch2[i] \in Requests
  BY PipeFacts
<1> HIDE DEF P, Q
<1>3. \A i \in DOMAIN Q : i \in Int /\ (i = -2 \/ i = -1 \/ i = 0 \/ (i \in 1 .. Len(ch2) /\ i \in Nat \ {0}))
  BY <1>1, <1>2
<1>4. \A i \in DOMAIN Q : Q[i] \in Requests BY <1>1, <1>2, <1>3
<1>5. ASSUME NEW i \in DOMAIN Q, IsRequest(Q[i]) PROVE g[i] \in DOMAIN P /\ Q[i] = P[g[i]]
  <2>1. CASE i \in 1 .. Len(ch2)
    <3>0. i \in Nat \ {0} BY <1>2, <2>1
    <3>1. i + 1 \in 1 .. Len(ch) BY <1>1, <1>2, <2>1 DEF Rest
    <3>2. g[i] = Behind(i) BY <3>0 DEF MovesUp
    <3>3. g[i] = i + 1 BY <3>2 DEF Behind
    <3> QED BY <1>1, <1>2, <2>1, <3>1, <3>3 DEF Rest
  <2>2. CASE i \in {-2, -1, 0} BY <1>1, <1>2, <1>5, <2>2 DEF Rest, MovesUp
  <2> QED BY <1>3, <2>1, <2>2
<1>6. ASSUME NEW i \in DOMAIN Q, NEW j \in DOMAIN Q, i < j, IsRequest(Q[i]), IsRequest(Q[j])
      PROVE  g[i] < g[j]
  <2>1. CASE j \in 1 .. Len(ch2)
    <3>0. j \in Nat \ {0} BY <1>2, <2>1
    <3>1. g[j] = Behind(j) BY <3>0 DEF MovesUp
    <3>2. g[j] = j + 1 BY <3>1 DEF Behind
    <3>3. CASE i \in 1 .. Len(ch2)
      <4>1. i \in Nat \ {0} BY <1>2, <3>3
      <4>2. g[i] = Behind(i) BY <4>1 DEF MovesUp
      <4>3. g[i] = i + 1 BY <4>2 DEF Behind
      <4> QED BY <1>6, <3>0, <3>2, <4>1, <4>3
    <3>4. CASE i \in {-2, -1, 0}
      <4>1. g[i] \in {-2, -1, 0, 1} BY <1>2, <1>6, <3>4 DEF MovesUp
      <4> QED BY <3>0, <3>2, <4>1
    <3> QED BY <1>3, <3>3, <3>4
  <2>2. CASE j \in {-2, -1, 0} BY <1>2, <1>3, <1>6, <2>2 DEF MovesUp
  <2> QED BY <1>3, <2>1, <2>2
<1> QED BY <1>3, <1>4, <1>5, <1>6 DEF DrawnBy, P, Q

\* A request is put at the end of the channel.
LEMMA ChannelGrows ==
    ASSUME NEW run, NEW ex, NEW sv, NEW ch \in Seq(Requests), NEW r \in Requests
    PROVE  Grown(PipeOf(run, ex, sv, Append(ch, r)), PipeOf(run, ex, sv, ch), Len(ch) + 1, r)
<1> DEFINE P == PipeOf(run, ex, sv, ch)
           c2 == Append(ch, r)
           Q == PipeOf(run, ex, sv, c2)
<1>1. /\ c2 \in Seq(Requests) /\ Len(c2) = Len(ch) + 1
      /\ \A i \in 1 .. Len(ch) : c2[i] = ch[i]
      /\ c2[Len(ch) + 1] = r
  OBVIOUS
<1>2. /\ Len(ch) \in Nat /\ DOMAIN P = -2 .. Len(ch)
      /\ P[-2] = run /\ P[-1] = ex /\ P[0] = sv
      /\ \A i \in 1 .. Len(ch) : P[i] = ch[i]
  BY PipeFacts
<1> HIDE DEF c2
<1>3. /\ Len(c2) \in Nat /\ DOMAIN Q = -2 .. Len(c2)
      /\ Q[-2] = run /\ Q[-1] = ex /\ Q[0] = sv
      /\ \A i \in 1 .. Len(c2) : Q[i] = c2[i]
  BY <1>1, PipeFacts
<1> HIDE DEF P, Q
<1>4. Grown(Q, P, Len(ch) + 1, r)
  <2>1. Len(ch) + 1 \in Int /\ DOMAIN Q = DOMAIN P \cup {Len(ch) + 1} BY <1>1, <1>2, <1>3
  <2>2. Q[Len(ch) + 1] = r BY <1>1, <1>2, <1>3
  <2>3. ASSUME NEW i \in DOMAIN P PROVE i < Len(ch) + 1 /\ Q[i] = P[i]
    <3>1. i \in -2 .. Len(ch) BY <1>2
    <3>2. i = -2 \/ i = -1 \/ i = 0 \/ i \in 1 .. Len(ch) BY <1>2, <3>1
    <3>3. i \in 1 .. Len(ch) => i \in 1 .. Len(c2) BY <1>1, <1>2
    <3> QED BY <1>1, <1>2, <1>3, <3>1, <3>2, <3>3
  <2> QED BY <2>1, <2>2, <2>3 DEF Grown
<1> QED BY <1>4 DEF P, Q, c2

\* The requests on their way when `who' has left each of them.
LEMMA LeftBehind ==
    ASSUME NEW run, NEW ex, NEW sv, NEW ch \in Seq(Requests), NEW who,
           NEW run2, NEW ex2, NEW sv2, NEW c2 \in Seq(Requests),
           run2 = Deaf(run, who), ex2 = Deaf(ex, who), sv2 = Deaf(sv, who),
           Len(c2) = Len(ch), \A i \in 1 .. Len(ch) : c2[i] = Deaf(ch[i], who)
    PROVE  LET P == PipeOf(run, ex, sv, ch)
               Q == PipeOf(run2, ex2, sv2, c2)
           IN  DOMAIN Q = DOMAIN P /\ \A i \in DOMAIN P : Q[i] = Deaf(P[i], who)
<1> DEFINE P == PipeOf(run, ex, sv, ch)
           Q == PipeOf(run2, ex2, sv2, c2)
<1>1. /\ Len(ch) \in Nat /\ DOMAIN P = -2 .. Len(ch)
      /\ P[-2] = run /\ P[-1] = ex /\ P[0] = sv
      /\ \A i \in 1 .. Len(ch) : P[i] = ch[i]
  BY PipeFacts
<1>2. /\ DOMAIN Q = -2 .. Len(c2)
      /\ Q[-2] = run2 /\ Q[-1] = ex2 /\ Q[0] = sv2
      /\ \A i \in 1 .. Len(c2) : Q[i] = c2[i]
  BY PipeFacts
<1> HIDE DEF P, Q
<1>3. \A i \in DOMAIN P : i = -2 \/ i = -1 \/ i = 0 \/ i \in 1 .. Len(ch) BY <1>1
<1>4. DOMAIN Q = DOMAIN P BY <1>1, <1>2
<1>5. \A i \in DOMAIN P : Q[i] = Deaf(P[i], who) BY <1>1, <1>2, <1>3
<1> QED BY <1>4, <1>5 DEF P, Q

\* A receiver is dropped along the whole pipe.
LEMMA PipeIsDeafened ==
    ASSUME NEW run, NEW ex, NEW sv, NEW ch \in Seq(Requests), NEW who \in {"sim", "hand"},
           NEW run2, NEW ex2, NEW sv2, NEW c2,
           run2 = Deaf(run, who), ex2 = Deaf(ex, who), sv2 = Deaf(sv, who),
           c2 = [i \in DOMAIN ch |-> Deaf(ch[i], who)]
    PROVE  LET P == PipeOf(run, ex, sv, ch)
               Q == PipeOf(run2, ex2, sv2, c2)
           IN  DOMAIN Q = DOMAIN P /\ \A i \in DOMAIN P : Q[i] = Deaf(P[i], who)
<1>1. DOMAIN ch = 1 .. Len(ch) /\ Len(ch) \in Nat /\ \A i \in 1 .. Len(ch) : ch[i] \in Requests
  OBVIOUS
<1>2. \A i \in 1 .. Len(ch) : Deaf(ch[i], who) \in Requests BY <1>1, DeafFacts
<1>3. c2 \in Seq(Requests) /\ Len(c2) = Len(ch) /\ \A i \in 1 .. Len(ch) : c2[i] = Deaf(ch[i], who)
  BY <1>1, <1>2
<1> QED BY <1>3, LeftBehind

-----------------------------------------------------------------------------
(* Answers reach whoever still waits for them.                             *)

Silent(P, who) == \A i \in DOMAIN P : ~Asks(P[i], who)

FlushHears(fl, fl2, who, v) == fl2 = IF "sim" \in who /\ fl = "waiting" THEN v ELSE fl
HandHears(h, h2, who, v) ==
    h2 = IF "hand" \in who /\ h # None /\ h.phase = "sent" THEN [h EXCEPT !.phase = v] ELSE h

\* The handler's save with its answer.
LEMMA HandFacts ==
    ASSUME NEW h \in Hands, h # None, NEW v \in {"captured", "sent", "ok", "err"}
    PROVE  LET h2 == [h EXCEPT !.phase = v] IN
           /\ h2 \in Hands /\ h2 # None /\ h2.kind = h.kind /\ h2.snap = h.snap
           /\ h2.epoch = h.epoch /\ h2.phase = v /\ h.kind # "none" /\ h2.kind # "none"
           /\ h.kind \in {"handoff", "disconnect", "select", "left"}
<1>1. h \in [kind : {"handoff", "disconnect", "select", "left"}, snap : Snapshots,
             epoch : Epochs, phase : {"captured", "sent", "ok", "err"}]
  BY DEF Hands
<1>2. [h EXCEPT !.phase = v] \in
         [kind : {"handoff", "disconnect", "select", "left"}, snap : Snapshots,
          epoch : Epochs, phase : {"captured", "sent", "ok", "err"}]
  BY <1>1
<1>3. [h EXCEPT !.phase = v] \in Hands BY <1>2 DEF Hands
<1>4. /\ [h EXCEPT !.phase = v].kind = h.kind /\ [h EXCEPT !.phase = v].snap = h.snap
      /\ [h EXCEPT !.phase = v].epoch = h.epoch /\ [h EXCEPT !.phase = v].phase = v
  BY <1>1
<1>5. h.kind \in {"handoff", "disconnect", "select", "left"} BY <1>1
<1>6. h.kind # "none" BY <1>5
<1>7. [h EXCEPT !.phase = v] # None BY <1>4, <1>6 DEF None
<1> QED BY <1>3, <1>4, <1>5, <1>6, <1>7

\* A failure is heard.
LEMMA ErrIsHeard ==
    ASSUME NEW P, NEW rw, NEW here, NEW e, NEW lv, NEW fl, NEW h,
           Good(P, rw, here, e, lv, fl, h), NEW who, NEW fl2, NEW h2,
           "sim" \in who => Silent(P, "sim"), "hand" \in who => Silent(P, "hand"),
           FlushHears(fl, fl2, who, "err"), HandHears(h, h2, who, "err")
    PROVE  Good(P, rw, here, e, lv, fl2, h2) /\ h2 \in Hands
           /\ (fl2 = fl \/ (fl = "waiting" /\ fl2 = "err"))
<1>1. h \in Hands BY DEF Good, Typed
<1>2. fl2 = fl \/ (fl = "waiting" /\ fl2 = "err") BY DEF FlushHears
<1>3. Good(P, rw, here, e, lv, fl2, h)
  <2>1. CASE "sim" \in who /\ fl = "waiting"
    <3>1. fl2 = "err" /\ Silent(P, "sim") BY <2>1 DEF FlushHears
    <3>2. \A i \in DOMAIN P : ~Asks(P[i], "sim") BY <3>1 DEF Silent
    <3>3. Good(P, rw, here, e, lv, "err", h) BY <2>1, <3>2, FlushIsAnswered
    <3> QED BY <3>1, <3>3
  <2>2. CASE ~("sim" \in who /\ fl = "waiting") BY <2>2 DEF FlushHears
  <2> QED BY <2>1, <2>2
<1>4. CASE "hand" \in who /\ h # None /\ h.phase = "sent"
  <2>1. h2 = [h EXCEPT !.phase = "err"] /\ Silent(P, "hand") BY <1>4 DEF HandHears
  <2>2. /\ h2 \in Hands /\ h2.kind = h.kind /\ h2.snap = h.snap /\ h2.epoch = h.epoch
        /\ h2.phase = "err" /\ h.kind # "none"
    BY <1>1, <1>4, <2>1, HandFacts
  <2>3. \A i \in DOMAIN P : ~Asks(P[i], "hand") BY <2>1 DEF Silent
  <2>4. Good(P, rw, here, e, lv, fl2, h2) BY <1>3, <1>4, <2>2, <2>3, HandIsAnswered
  <2> QED BY <1>2, <2>2, <2>4
<1>5. CASE ~("hand" \in who /\ h # None /\ h.phase = "sent")
  BY <1>1, <1>2, <1>3, <1>5 DEF HandHears
<1> QED BY <1>4, <1>5

\* A success is heard, and the row has what was asked for.
LEMMA OkIsHeard ==
    ASSUME NEW P, NEW rw, NEW here, NEW e, NEW lv, NEW fl, NEW h,
           Good(P, rw, here, e, lv, fl, h), NEW who, NEW fl2, NEW h2,
           "sim" \in who => Silent(P, "sim"), "hand" \in who => Silent(P, "hand"),
           FlushHears(fl, fl2, who, "ok"), HandHears(h, h2, who, "ok"),
           "sim" \in who /\ fl = "waiting" => (rw.epoch = e => rw.snap.prog = lv.prog),
           "hand" \in who /\ h # None =>
              /\ AtLeast(rw.snap, h.snap)
              /\ h.kind = "select" => /\ h.epoch = rw.epoch
                                      /\ \A i \in DOMAIN P : ~IsExit(P[i])
              /\ h.kind # "select" => h.epoch < rw.epoch
    PROVE  Good(P, rw, here, e, lv, fl2, h2) /\ h2 \in Hands
           /\ (fl2 = fl \/ (fl = "waiting" /\ fl2 = "ok"))
<1>1. h \in Hands BY DEF Good, Typed
<1>2. fl2 = fl \/ (fl = "waiting" /\ fl2 = "ok") BY DEF FlushHears
<1>3. Good(P, rw, here, e, lv, fl2, h)
  <2>1. CASE "sim" \in who /\ fl = "waiting"
    <3>1. fl2 = "ok" /\ Silent(P, "sim") BY <2>1 DEF FlushHears
    <3>2. \A i \in DOMAIN P : ~Asks(P[i], "sim") BY <3>1 DEF Silent
    <3>3. Good(P, rw, here, e, lv, "ok", h) BY <2>1, <3>2, FlushIsAnswered
    <3> QED BY <3>1, <3>3
  <2>2. CASE ~("sim" \in who /\ fl = "waiting") BY <2>2 DEF FlushHears
  <2> QED BY <2>1, <2>2
<1>4. CASE "hand" \in who /\ h # None /\ h.phase = "sent"
  <2>1. h2 = [h EXCEPT !.phase = "ok"] /\ Silent(P, "hand") BY <1>4 DEF HandHears
  <2>2. /\ h2 \in Hands /\ h2.kind = h.kind /\ h2.snap = h.snap /\ h2.epoch = h.epoch
        /\ h2.phase = "ok" /\ h.kind # "none"
    BY <1>1, <1>4, <2>1, HandFacts
  <2>3. \A i \in DOMAIN P : ~Asks(P[i], "hand") BY <2>1 DEF Silent
  <2>4. Good(P, rw, here, e, lv, fl2, h2) BY <1>3, <1>4, <2>2, <2>3, HandIsAnswered
  <2> QED BY <1>2, <2>2, <2>4
<1>5. CASE ~("hand" \in who /\ h # None /\ h.phase = "sent")
  BY <1>1, <1>2, <1>3, <1>5 DEF HandHears
<1> QED BY <1>4, <1>5

-----------------------------------------------------------------------------
(* The map thread's steps.                                                 *)

\* What the invariant says of the pipe.
LEMMA InvFacts ==
    ASSUME TypeOK
    PROVE  /\ chan \in Seq(Requests) /\ Len(chan) \in Nat
           /\ running \in Requests /\ exit \in Requests /\ save \in Requests
           /\ row \in Rows /\ hand \in Hands
           /\ DOMAIN Pipe = -2 .. Len(chan)
           /\ Pipe[-2] = running /\ Pipe[-1] = exit /\ Pipe[0] = save
           /\ \A i \in 1 .. Len(chan) : Pipe[i] = chan[i]
<1>1. Len(chan) \in Nat /\ DOMAIN chan = 1 .. Len(chan) BY DEF TypeOK
<1>2. \A i \in 1 .. Len(chan) : chan[i] \in Saves \cup Exits BY DEF TypeOK
<1>3. \A i \in 1 .. Len(chan) : chan[i] \in Requests BY <1>2 DEF Requests
<1>4. chan \in Seq(Requests) BY <1>1, <1>3 DEF TypeOK
<1>5. running \in Requests /\ exit \in Requests /\ save \in Requests
  BY DEF TypeOK, Requests
<1>6. row \in Rows /\ hand \in Hands BY DEF TypeOK, Rows, Hands
<1>7. /\ DOMAIN Pipe = -2 .. Len(chan)
      /\ Pipe[-2] = running /\ Pipe[-1] = exit /\ Pipe[0] = save
      /\ \A i \in 1 .. Len(chan) : Pipe[i] = chan[i]
  BY <1>4, PipeFacts DEF Pipe
<1> QED BY <1>1, <1>4, <1>5, <1>6, <1>7

\* An intent arrives.
LEMMA IntentArrivesKeeps == SavesInv /\ IntentArrives => SavesInv'
<1> SUFFICES ASSUME SavesInv, IntentArrives PROVE SavesInv'
  OBVIOUS
<1>1. UNCHANGED <<stage, present, epoch, live, fact, unsynced, dirty, due,
                  flush, hand, chan, save, exit, running, row, unheard>>
  BY DEF IntentArrives
<1>2. intents' \in 0 .. IntentCap BY SavesAssumption DEF SavesInv, TypeOK, IntentArrives, WithIntent
<1>3. TypeOK' BY <1>1, <1>2 DEF SavesInv, TypeOK
<1>4. Pipe' = Pipe BY <1>1 DEF Pipe
<1> QED BY <1>1, <1>3, <1>4 DEF SavesInv, StageFits, Covered

\* A handoff begins.
LEMMA CaptureKeeps == SavesInv /\ CapturePlayerSnapshot => SavesInv'
<1> SUFFICES ASSUME SavesInv, CapturePlayerSnapshot PROVE SavesInv'
  OBVIOUS
<1>1. /\ UNCHANGED <<stage, present, epoch, live, fact, unsynced, dirty, due, intents,
                     flush, chan, save, exit, running, row, unheard>>
      /\ present = TRUE /\ hand = None /\ hand' = Captured("handoff")
  BY DEF CapturePlayerSnapshot, Frame, simVars, SavesInv, TypeOK
<1>2. live \in Snapshots /\ epoch \in Epochs BY DEF SavesInv, TypeOK
<1>3. /\ hand' \in Hands /\ hand'.kind = "handoff" /\ hand'.epoch = epoch
      /\ hand'.phase = "captured" /\ hand.kind = "none"
  BY <1>1, <1>2 DEF Captured, Hands, None
<1>4. TypeOK' BY <1>1, <1>3 DEF SavesInv, TypeOK, Hands
<1>5. Pipe' = Pipe BY <1>1 DEF Pipe
<1>6. Good(Pipe, row, present, epoch, live, flush, hand')
  BY <1>1, <1>3, HandoffIsCaptured DEF SavesInv
<1> QED BY <1>1, <1>4, <1>5, <1>6 DEF SavesInv, StageFits, Covered

\* The flush is polled.
LEMMA FinalizeKeeps ==
    SavesInv /\ (BeginTick \/ FinalizeAgain) => SavesInv'
<1> SUFFICES ASSUME SavesInv, BeginTick \/ FinalizeAgain PROVE SavesInv'
  OBVIOUS
<1>1. /\ UNCHANGED <<present, epoch, live, unsynced, dirty, intents, hand, chan, save, exit,
                     running, row, unheard>>
      /\ flush' = IF flush = "waiting" THEN flush ELSE "none"
      /\ fact' = (fact \/ flush = "err")
  BY DEF BeginTick, FinalizeAgain, FinalizePendingSave
<1>2. /\ stage' \in {"act", "intents"} /\ (stage' = "intents" => flush' = "none")
      /\ due' \in Nat /\ present = TRUE
  <2>1. CASE BeginTick
    <3>1. due' \in Nat BY <2>1 DEF BeginTick, Nearer, SavesInv, TypeOK
    <3>2. present = TRUE BY <2>1 DEF BeginTick, Frame, SavesInv, TypeOK
    <3>3. stage' \in {"act", "intents"} /\ (stage' = "intents" => flush' # "waiting")
      BY <2>1 DEF BeginTick
    <3> QED BY <1>1, <3>1, <3>2, <3>3
  <2>2. CASE FinalizeAgain BY <2>2 DEF FinalizeAgain, SavesInv, StageFits, TypeOK
  <2> QED BY <2>1, <2>2
<1>3. fact' \in BOOLEAN /\ flush' \in {"none", "waiting"} BY <1>1
<1>4. TypeOK' BY <1>1, <1>2, <1>3 DEF SavesInv, TypeOK
<1>5. Pipe' = Pipe BY <1>1 DEF Pipe
<1>6. Good(Pipe, row, present, epoch, live, flush', hand)
  <2>1. CASE flush = "waiting" BY <1>1, <2>1 DEF SavesInv
  <2>2. CASE flush # "waiting"
    <3>1. Good(Pipe, row, present, epoch, live, "none", hand)
      BY <2>2, FlushIsFinalized DEF SavesInv
    <3> QED BY <1>1, <2>2, <3>1
  <2> QED BY <2>1, <2>2
<1>7. StageFits' BY <1>1, <1>2 DEF SavesInv, StageFits
<1>8. Covered'
  <2>1. fact = TRUE \/ flush = "err" => fact' = TRUE BY <1>1
  <2> QED BY <1>1, <1>5, <2>1 DEF SavesInv, Covered
<1> QED BY <1>1, <1>4, <1>5, <1>6, <1>7, <1>8 DEF SavesInv

\* Something happens to the player.
LEMMA ChangeKeeps == SavesInv /\ Change => SavesInv'
<1> SUFFICES ASSUME SavesInv, Change PROVE SavesInv'
  OBVIOUS
<1>1. /\ UNCHANGED <<stage, present, epoch, dirty, due, intents, flush, hand, chan, save,
                     exit, running, row, unheard>>
      /\ fact' = TRUE /\ unsynced' \in {unsynced, TRUE}
      /\ live' = [live EXCEPT !.res = @ + 1] /\ live.res < MaxRes
  BY DEF Change
<1>2. live \in Snapshots BY DEF SavesInv, TypeOK
<1>3. live' \in Snapshots /\ live'.res = live.res + 1 /\ live'.prog = live.prog
  BY <1>1, <1>2, SavesAssumption DEF Snapshots
<1>4. AtLeast(live', live) BY <1>2, <1>3, PartFacts DEF AtLeast
<1>5. TypeOK'
  <2>1. fact' \in BOOLEAN /\ unsynced' \in BOOLEAN BY <1>1 DEF SavesInv, TypeOK
  <2> QED BY <1>1, <1>3, <2>1 DEF SavesInv, TypeOK
<1>6. Pipe' = Pipe BY <1>1 DEF Pipe
<1>7. Good(Pipe, row, present, epoch, live', flush, hand)
  BY <1>3, <1>4, LiveGrows DEF SavesInv
<1>8. StageFits' BY <1>1 DEF SavesInv, StageFits
<1>9. Covered' BY <1>1 DEF Covered
<1> QED BY <1>1, <1>5, <1>6, <1>7, <1>8, <1>9 DEF SavesInv

\* The facts of the tick become marks.
LEMMA ProjectKeeps == SavesInv /\ Project => SavesInv'
<1> SUFFICES ASSUME SavesInv, Project PROVE SavesInv'
  OBVIOUS
<1>1. /\ UNCHANGED <<present, epoch, live, due, intents, flush, hand, chan, save, exit,
                     running, row, unheard>>
      /\ stage = "act" /\ stage' = "autosave"
      /\ dirty' = (dirty \/ fact) /\ fact' = unsynced /\ unsynced' = FALSE
  BY DEF Project, SyncMarks
<1>2. dirty' \in BOOLEAN /\ fact' \in BOOLEAN /\ unsynced' \in BOOLEAN
  BY <1>1 DEF SavesInv, TypeOK
<1>3. TypeOK' BY <1>1, <1>2 DEF SavesInv, TypeOK
<1>4. Pipe' = Pipe BY <1>1 DEF Pipe
<1>5. StageFits' BY <1>1 DEF SavesInv, StageFits
<1>6. dirty = TRUE \/ fact = TRUE => dirty' = TRUE BY <1>1
<1>7. Covered' BY <1>1, <1>4, <1>6 DEF SavesInv, Covered
<1> QED BY <1>1, <1>3, <1>4, <1>5, <1>7 DEF SavesInv

\* A request more is no save less.
LEMMA HoldsMore ==
    ASSUME NEW P, NEW Q, NEW n, NEW r, Grown(Q, P, n, r), NEW e, NEW lv
    PROVE  /\ Holds(P, e, lv) => Holds(Q, e, lv)
           /\ IsSave(r) /\ r.epoch = e /\ AtLeast(r.snap, lv) => Holds(Q, e, lv)
<1>1. n \in DOMAIN Q /\ Q[n] = r BY DEF Grown
<1>2. \A i \in DOMAIN P : i \in DOMAIN Q /\ Q[i] = P[i] BY DEF Grown
<1> QED BY <1>1, <1>2 DEF Holds, Has

\* The channel with a request more.
LEMMA ChannelAppends ==
    ASSUME TypeOK, Len(chan) < QueueCap, NEW r \in Saves \cup Exits,
           chan' = Append(chan, r), UNCHANGED <<save, exit, running>>
    PROVE  /\ chan' \in Seq(Saves \cup Exits) /\ Len(chan') <= QueueCap
           /\ r \in Requests /\ Grown(Pipe', Pipe, Len(chan) + 1, r)
<1>1. QueueCap \in Nat BY SavesAssumption
<1>2. chan' \in Seq(Saves \cup Exits) /\ Len(chan') = Len(chan) + 1 BY DEF TypeOK
<1>3. Len(chan') <= QueueCap BY <1>1, <1>2 DEF TypeOK
<1>4. r \in Requests BY DEF Requests
<1>5. Grown(PipeOf(running, exit, save, Append(chan, r)), PipeOf(running, exit, save, chan),
            Len(chan) + 1, r)
  BY <1>4, InvFacts, ChannelGrows
<1>6. Pipe' = PipeOf(running, exit, save, Append(chan, r)) BY DEF Pipe
<1> QED BY <1>2, <1>3, <1>4, <1>5, <1>6 DEF Pipe

\* Intents are refused, or one is flushed and applied.
LEMMA TakeIntentsKeeps == SavesInv /\ TakeIntents => SavesInv'
<1> SUFFICES ASSUME SavesInv, TakeIntents PROVE SavesInv'
  OBVIOUS
<1>1. /\ stage = "intents" /\ stage' = "finalize"
      /\ UNCHANGED <<present, epoch, fact, dirty, due, hand, save, exit, running, row>>
  BY DEF TakeIntents
<1>2. present = TRUE /\ flush = "none" BY <1>1 DEF SavesInv, StageFits
<1>3. PICK k \in 0 .. intents :
         \/ /\ k = intents
            /\ intents' = 0
            /\ UNCHANGED <<live, unsynced, flush, chan, unheard>>
         \/ /\ k < intents
            /\ Len(chan) < QueueCap
            /\ live.prog < MaxProg
            /\ live' = [live EXCEPT !.prog = @ + 1]
            /\ chan' = Append(chan, Request("flush", FlushSnapshot, "sim"))
            /\ flush' = "waiting"
            /\ unsynced' = TRUE
            /\ intents' = intents - k - 1
            /\ unheard' = FALSE
  BY DEF TakeIntents
<1>4. CASE k = intents /\ intents' = 0 /\ UNCHANGED <<live, unsynced, flush, chan, unheard>>
  <2>1. intents' \in 0 .. IntentCap BY <1>4, SavesAssumption
  <2>2. TypeOK' BY <1>1, <1>4, <2>1 DEF SavesInv, TypeOK
  <2>3. Pipe' = Pipe BY <1>1, <1>4 DEF Pipe
  <2>4. StageFits' BY <1>1, <1>2, <1>4 DEF SavesInv, StageFits
  <2> QED BY <1>1, <1>4, <2>2, <2>3, <2>4 DEF SavesInv, Covered
<1>5. CASE /\ k < intents
           /\ Len(chan) < QueueCap
           /\ live.prog < MaxProg
           /\ live' = [live EXCEPT !.prog = @ + 1]
           /\ chan' = Append(chan, Request("flush", FlushSnapshot, "sim"))
           /\ flush' = "waiting"
           /\ unsynced' = TRUE
           /\ intents' = intents - k - 1
           /\ unheard' = FALSE
  <2> DEFINE r == Request("flush", FlushSnapshot, "sim")
  <2>1. live \in Snapshots /\ epoch \in Epochs BY DEF SavesInv, TypeOK
  <2>2. live' \in Snapshots /\ live'.prog = live.prog + 1 /\ live'.res = live.res
    <3>1. live' = [live EXCEPT !.prog = @ + 1] /\ live.prog < MaxProg BY <1>5
    <3> QED BY <2>1, <3>1, SavesAssumption DEF Snapshots
  <2>3. AtLeast(live', live) /\ AtLeast(live', live')
    BY <2>1, <2>2, PartFacts DEF AtLeast
  <2>4. r = [kind |-> "flush", snap |-> live', epoch |-> epoch, reply |-> "sim"]
    BY <1>5 DEF Request, FlushSnapshot
  <2>5. /\ r \in Saves /\ r.kind = "flush" /\ r.snap = live' /\ r.epoch = epoch
        /\ r.reply = "sim" /\ IsSave(r)
    BY <2>1, <2>2, <2>4 DEF Saves, Repliers, IsSave
  <2>6. chan' = Append(chan, r) /\ r \in Saves \cup Exits BY <1>5, <2>5
  <2> HIDE DEF r
  <2>7. /\ chan' \in Seq(Saves \cup Exits) /\ Len(chan') <= QueueCap
        /\ r \in Requests /\ Grown(Pipe', Pipe, Len(chan) + 1, r)
    BY <1>1, <1>5, <2>6, ChannelAppends DEF SavesInv
  <2>8. intents' \in 0 .. IntentCap BY <1>5, SavesAssumption DEF SavesInv, TypeOK
  <2>9. TypeOK' BY <1>1, <1>5, <2>2, <2>7, <2>8 DEF SavesInv, TypeOK
  <2>10. Good(Pipe, row, present, epoch, live', "none", hand)
    BY <1>2, <2>2, <2>3, LiveGrows DEF SavesInv
  <2>11. Good(Pipe', row, present, epoch, live', "waiting", hand)
    BY <1>2, <2>5, <2>7, <2>10, FlushIsSent
  <2>12. Holds(Pipe', epoch, live') BY <2>3, <2>5, <2>7, HoldsMore
  <2>13. Covered' BY <1>1, <2>12 DEF Covered
  <2>14. StageFits' BY <1>1, <1>2 DEF SavesInv, StageFits
  <2> QED BY <1>1, <1>5, <2>9, <2>11, <2>13, <2>14 DEF SavesInv
<1> QED BY <1>3, <1>4, <1>5

\* An autosave is due, or not, and is accepted, or not.
LEMMA AutosaveKeeps == SavesInv /\ EnqueueDueAutosaves => SavesInv'
<1> SUFFICES ASSUME SavesInv, EnqueueDueAutosaves PROVE SavesInv'
  OBVIOUS
<1>1. /\ stage = "autosave" /\ stage' = "frame"
      /\ UNCHANGED <<present, epoch, live, fact, unsynced, intents, flush, hand,
                     save, exit, running, row>>
  BY DEF EnqueueDueAutosaves
<1>2. present = TRUE /\ live \in Snapshots /\ epoch \in Epochs
  BY <1>1 DEF SavesInv, StageFits, TypeOK
<1>3. StageFits' BY <1>1 DEF SavesInv, StageFits
<1>4. Interval \in Nat /\ RetryDelay \in Nat /\ due \in Nat
  BY SavesAssumption DEF SavesInv, TypeOK
<1>5. \/ UNCHANGED <<dirty, chan, unheard>> /\ due' \in Nat
      \/ /\ Len(chan) < QueueCap
         /\ chan' = Append(chan, Request("autosave", live, "none"))
         /\ dirty' = FALSE /\ due' \in Nat /\ unheard' = FALSE
  BY <1>4 DEF EnqueueDueAutosaves, ScheduleAutosave
<1>6. CASE UNCHANGED <<dirty, chan, unheard>> /\ due' \in Nat
  <2>1. TypeOK' BY <1>1, <1>6 DEF SavesInv, TypeOK
  <2>2. Pipe' = Pipe BY <1>1, <1>6 DEF Pipe
  <2> QED BY <1>1, <1>3, <1>6, <2>1, <2>2 DEF SavesInv, Covered
<1>7. CASE /\ Len(chan) < QueueCap
           /\ chan' = Append(chan, Request("autosave", live, "none"))
           /\ dirty' = FALSE /\ due' \in Nat /\ unheard' = FALSE
  <2> DEFINE r == Request("autosave", live, "none")
  <2>1. /\ r \in Saves /\ r.kind = "autosave" /\ r.snap = live /\ r.epoch = epoch
        /\ r.reply = "none" /\ IsSave(r)
    BY <1>2 DEF Request, Saves, Repliers, IsSave
  <2>2. chan' = Append(chan, r) /\ r \in Saves \cup Exits BY <1>7, <2>1
  <2> HIDE DEF r
  <2>3. /\ chan' \in Seq(Saves \cup Exits) /\ Len(chan') <= QueueCap
        /\ r \in Requests /\ Grown(Pipe', Pipe, Len(chan) + 1, r)
    BY <1>1, <1>7, <2>2, ChannelAppends DEF SavesInv
  <2>4. TypeOK'
    <3>1. dirty' \in BOOLEAN /\ unheard' \in BOOLEAN /\ due' \in Nat BY <1>7
    <3> QED BY <1>1, <2>3, <3>1 DEF SavesInv, TypeOK
  <2>5. Good(Pipe', row, present, epoch, live, flush, hand)
    BY <1>2, <2>1, <2>3, AutosaveIsSent DEF SavesInv
  <2>6. AtLeast(live, live) BY <1>2, AtLeastFacts
  <2>7. Holds(Pipe', epoch, live) BY <2>1, <2>3, <2>6, HoldsMore
  <2>8. Covered' BY <1>1, <2>7 DEF Covered
  <2> QED BY <1>1, <1>3, <2>4, <2>5, <2>8 DEF SavesInv
<1> QED BY <1>5, <1>6, <1>7

-----------------------------------------------------------------------------
(* The handler's steps.                                                    *)

\* Dropping a receiver, along the pipe.
LEMMA ForsakenFacts ==
    ASSUME TypeOK, NEW who \in {"sim", "hand"}, Forsaken(who)
    PROVE  /\ chan' \in Seq(Saves \cup Exits) /\ Len(chan') <= QueueCap
           /\ save' \in {None} \cup Saves /\ exit' \in {None} \cup Exits
           /\ running' \in {None} \cup Saves \cup Exits
           /\ exit'.kind = exit.kind /\ save'.kind = save.kind /\ running'.kind = running.kind
           /\ DOMAIN Pipe' = DOMAIN Pipe /\ \A i \in DOMAIN Pipe : Pipe'[i] = Deaf(Pipe[i], who)
<1>1. /\ chan' = [i \in DOMAIN chan |-> Deaf(chan[i], who)]
      /\ save' = Deaf(save, who) /\ exit' = Deaf(exit, who) /\ running' = Deaf(running, who)
  BY DEF Forsaken
<1>2. /\ chan \in Seq(Requests) /\ Len(chan) \in Nat
      /\ running \in Requests /\ exit \in Requests /\ save \in Requests
  BY InvFacts
<1>3. DOMAIN chan = 1 .. Len(chan) /\ \A i \in 1 .. Len(chan) : chan[i] \in Saves \cup Exits
  BY DEF TypeOK
<1>4. \A i \in 1 .. Len(chan) : Deaf(chan[i], who) \in Saves \cup Exits
  BY <1>3, DeafFacts DEF Requests
<1>5. chan' \in Seq(Saves \cup Exits) /\ Len(chan') = Len(chan) BY <1>1, <1>2, <1>3, <1>4
<1>6. Len(chan') <= QueueCap BY <1>5 DEF TypeOK
<1>7. save' \in {None} \cup Saves /\ save'.kind = save.kind
  BY <1>1, <1>2, DeafFacts DEF TypeOK
<1>8. exit' \in {None} \cup Exits /\ exit'.kind = exit.kind
  BY <1>1, <1>2, DeafFacts DEF TypeOK
<1>9. running' \in {None} \cup Saves \cup Exits /\ running'.kind = running.kind
  BY <1>1, <1>2, DeafFacts DEF TypeOK
<1>10. LET P == PipeOf(running, exit, save, chan)
           Q == PipeOf(running', exit', save', chan')
       IN  DOMAIN Q = DOMAIN P /\ \A i \in DOMAIN P : Q[i] = Deaf(P[i], who)
  BY <1>1, <1>2, PipeIsDeafened
<1>11. Pipe' = PipeOf(running', exit', save', chan') BY DEF Pipe
<1> QED BY <1>5, <1>6, <1>7, <1>8, <1>9, <1>10, <1>11 DEF Pipe

\* What the requests contain does not depend on who listens.
LEMMA HoldsDeafened ==
    ASSUME NEW P, NEW Q, NEW who \in {"sim", "hand"}, DOMAIN Q = DOMAIN P,
           \A i \in DOMAIN P : P[i] \in Requests,
           \A i \in DOMAIN P : Q[i] = Deaf(P[i], who), NEW e, NEW lv, Holds(P, e, lv)
    PROVE  Holds(Q, e, lv)
<1>1. PICK i \in DOMAIN P : IsSave(P[i]) /\ P[i].epoch = e /\ AtLeast(P[i].snap, lv)
  BY DEF Holds, Has
<1>2. IsRequest(P[i]) BY <1>1 DEF IsSave, IsRequest
<1>3. IsSave(Q[i]) /\ Q[i].snap = P[i].snap /\ Q[i].epoch = P[i].epoch
  BY <1>1, <1>2, DeafFacts
<1> QED BY <1>1, <1>3 DEF Holds, Has

\* The entity is despawned.
LEMMA DespawnedKeeps ==
    ASSUME SavesInv, Despawned, present = TRUE, stage = "frame", UNCHANGED <<row, unheard>>,
           hand' \in Hands,
           \/ /\ hand.kind = "none" /\ hand'.kind \in {"disconnect", "select"}
              /\ hand'.epoch = epoch /\ hand'.snap = live /\ hand'.phase = "captured"
           \/ /\ hand.kind = "handoff" /\ hand.phase = "ok" /\ hand'.kind = "left"
              /\ hand'.epoch = hand.epoch /\ hand'.snap = hand.snap /\ hand'.phase = "ok"
    PROVE  SavesInv'
<1>1. /\ present' = FALSE /\ fact' = FALSE /\ unsynced' = FALSE /\ dirty' = FALSE
      /\ intents' = 0 /\ flush' = "none" /\ Forsaken("sim")
      /\ live' = Nothing /\ epoch' = 0 /\ due' = 0 /\ UNCHANGED stage
  BY DEF Despawned
<1>2. TypeOK /\ Good(Pipe, row, present, epoch, live, flush, hand) BY DEF SavesInv
<1>3. /\ chan' \in Seq(Saves \cup Exits) /\ Len(chan') <= QueueCap
      /\ save' \in {None} \cup Saves /\ exit' \in {None} \cup Exits
      /\ running' \in {None} \cup Saves \cup Exits
      /\ exit'.kind = exit.kind /\ save'.kind = save.kind
      /\ DOMAIN Pipe' = DOMAIN Pipe /\ \A i \in DOMAIN Pipe : Pipe'[i] = Deaf(Pipe[i], "sim")
  BY <1>1, <1>2, ForsakenFacts
<1>4. live' \in Snapshots /\ epoch' \in Epochs /\ intents' \in 0 .. IntentCap /\ due' \in Nat
  BY <1>1, SavesAssumption DEF Nothing, Snapshots, Epochs
<1>5. TypeOK'
  <2>1. /\ stage' \in {"frame", "intents", "finalize", "act", "autosave"}
        /\ row' \in [snap : Snapshots, epoch : Epochs] /\ unheard' \in BOOLEAN
    BY <1>1, <1>2 DEF TypeOK
  <2> QED BY <1>1, <1>3, <1>4, <2>1 DEF TypeOK, Hands
<1>6. Good(Pipe', row, present, epoch, live, flush, hand) /\ \A i \in DOMAIN Pipe' : ~Asks(Pipe'[i], "sim")
  BY <1>2, <1>3, DeafenedIsGood
<1>7. Good(Pipe', row, FALSE, epoch', live', "none", hand')
  BY <1>4, <1>6, PlayerLeaves
<1>8. StageFits' BY <1>1, <1>3 DEF SavesInv, StageFits
<1>9. Covered' BY <1>1 DEF Covered
<1> QED BY <1>1, <1>5, <1>7, <1>8, <1>9 DEF SavesInv

\* The player leaves with a snapshot.
LEMMA LeaveKeeps ==
    ASSUME NEW kind \in {"disconnect", "select"}, SavesInv, LeaveAndSnapshot(kind)
    PROVE  SavesInv'
<1>1. /\ present = TRUE /\ stage = "frame" /\ hand = None /\ hand' = Captured(kind)
      /\ Despawned /\ UNCHANGED <<row, unheard>>
  BY DEF LeaveAndSnapshot, Frame, SavesInv, TypeOK
<1>2. live \in Snapshots /\ epoch \in Epochs BY DEF SavesInv, TypeOK
<1>3. /\ hand' \in Hands /\ hand'.kind = kind /\ hand'.epoch = epoch /\ hand'.snap = live
      /\ hand'.phase = "captured" /\ hand.kind = "none"
  BY <1>1, <1>2 DEF Captured, Hands, None
<1> QED BY <1>1, <1>3, DespawnedKeeps

\* The handler's save is admitted.
LEMMA HandSendsKeeps == SavesInv /\ HandSends => SavesInv'
<1> SUFFICES ASSUME SavesInv, HandSends PROVE SavesInv'
  OBVIOUS
<1> DEFINE k == IF hand.kind = "select" THEN "flush" ELSE "exit"
           r == [kind |-> k, snap |-> hand.snap, epoch |-> hand.epoch, reply |-> "hand"]
<1>1. /\ UNCHANGED <<stage, present, epoch, live, fact, unsynced, dirty, due, intents,
                     flush, save, exit, running, row, unheard>>
      /\ hand # None /\ hand.phase = "captured" /\ Len(chan) < QueueCap
      /\ chan' = Append(chan, r) /\ hand' = [hand EXCEPT !.phase = "sent"]
  BY DEF HandSends, simVars
<1>2. TypeOK /\ hand \in Hands BY InvFacts DEF SavesInv
<1>3. /\ hand' \in Hands /\ hand'.kind = hand.kind /\ hand'.snap = hand.snap
      /\ hand'.epoch = hand.epoch /\ hand'.phase = "sent" /\ hand.kind # "none"
  BY <1>1, <1>2, HandFacts
<1>4. hand.snap \in Snapshots /\ hand.epoch \in Epochs BY <1>2, <1>3, PartFacts
<1>5. r \in Saves \cup Exits
  <2>1. CASE hand.kind = "select" BY <1>4, <2>1 DEF Saves, Repliers
  <2>2. CASE hand.kind # "select" BY <1>4, <2>2 DEF Exits
  <2> QED BY <2>1, <2>2
<1>6. /\ r.kind = IF hand.kind = "select" THEN "flush" ELSE "exit"
      /\ r.epoch = hand.epoch /\ r.snap = hand.snap /\ r.reply = "hand"
  OBVIOUS
<1> HIDE DEF r
<1>7. /\ chan' \in Seq(Saves \cup Exits) /\ Len(chan') <= QueueCap
      /\ r \in Requests /\ Grown(Pipe', Pipe, Len(chan) + 1, r)
  BY <1>1, <1>2, <1>5, ChannelAppends
<1>8. TypeOK'
  <2>1. hand' \in {None} \cup
           [kind : {"handoff", "disconnect", "select", "left"}, snap : Snapshots,
            epoch : Epochs, phase : {"captured", "sent", "ok", "err"}]
    BY <1>3 DEF Hands
  <2> QED BY <1>1, <1>2, <1>7, <2>1 DEF TypeOK
<1>9. Good(Pipe', row, present, epoch, live, flush, hand')
  BY <1>1, <1>3, <1>6, <1>7, HandIsSent DEF SavesInv
<1>10. StageFits' BY <1>1 DEF SavesInv, StageFits
<1>11. Holds(Pipe, epoch, live) => Holds(Pipe', epoch, live) BY <1>7, HoldsMore
<1>12. Covered' BY <1>1, <1>11 DEF SavesInv, Covered
<1> QED BY <1>1, <1>8, <1>9, <1>10, <1>12 DEF SavesInv

\* The handler gives up.
LEMMA HandTimesOutKeeps == SavesInv /\ HandTimesOut => SavesInv'
<1> SUFFICES ASSUME SavesInv, HandTimesOut PROVE SavesInv'
  OBVIOUS
<1>1. /\ UNCHANGED <<stage, present, epoch, live, fact, unsynced, dirty, due, intents,
                     flush, row, unheard>>
      /\ hand # None /\ hand.phase \in {"captured", "sent"}
      /\ hand' = [hand EXCEPT !.phase = "err"] /\ Forsaken("hand")
  BY DEF HandTimesOut, simVars
<1>2. TypeOK /\ hand \in Hands /\ Good(Pipe, row, present, epoch, live, flush, hand)
  BY InvFacts DEF SavesInv
<1>3. /\ hand' \in Hands /\ hand'.kind = hand.kind /\ hand'.snap = hand.snap
      /\ hand'.epoch = hand.epoch /\ hand'.phase = "err" /\ hand.kind # "none"
  BY <1>1, <1>2, HandFacts
<1>4. /\ chan' \in Seq(Saves \cup Exits) /\ Len(chan') <= QueueCap
      /\ save' \in {None} \cup Saves /\ exit' \in {None} \cup Exits
      /\ running' \in {None} \cup Saves \cup Exits
      /\ exit'.kind = exit.kind /\ save'.kind = save.kind /\ running'.kind = running.kind
      /\ DOMAIN Pipe' = DOMAIN Pipe /\ \A i \in DOMAIN Pipe : Pipe'[i] = Deaf(Pipe[i], "hand")
  BY <1>1, <1>2, ForsakenFacts
<1>5. TypeOK'
  <2>1. hand' \in {None} \cup
           [kind : {"handoff", "disconnect", "select", "left"}, snap : Snapshots,
            epoch : Epochs, phase : {"captured", "sent", "ok", "err"}]
    BY <1>3 DEF Hands
  <2> QED BY <1>1, <1>2, <1>4, <2>1 DEF TypeOK
<1>6. Good(Pipe', row, present, epoch, live, flush, hand)
      /\ \A i \in DOMAIN Pipe' : ~Asks(Pipe'[i], "hand")
  BY <1>2, <1>4, DeafenedIsGood
<1>7. Good(Pipe', row, present, epoch, live, flush, hand') BY <1>1, <1>3, <1>6, HandIsAnswered
<1>8. StageFits' BY <1>1, <1>4 DEF SavesInv, StageFits
<1>9. Holds(Pipe, epoch, live) => Holds(Pipe', epoch, live)
  BY <1>2, <1>4, HoldsDeafened DEF Good, Typed
<1>10. (IsExit(exit') <=> IsExit(exit)) /\ (IsExit(running') <=> IsExit(running))
  BY <1>4 DEF IsExit
<1>11. Covered' BY <1>1, <1>9, <1>10 DEF SavesInv, Covered
<1> QED BY <1>1, <1>5, <1>7, <1>8, <1>11 DEF SavesInv

\* A handoff is over.
LEMMA HandoffEndsKeeps == SavesInv /\ HandoffEnds => SavesInv'
<1> SUFFICES ASSUME SavesInv, HandoffEnds PROVE SavesInv'
  OBVIOUS
<1>1. /\ hand # None /\ hand.kind = "handoff" /\ stage = "frame"
      /\ UNCHANGED <<row, unheard>>
  BY DEF HandoffEnds
<1>2. TypeOK /\ hand \in Hands /\ Good(Pipe, row, present, epoch, live, flush, hand)
  BY InvFacts DEF SavesInv
<1>3. CASE hand.phase = "ok"
  <2>1. Despawned /\ hand' = [hand EXCEPT !.kind = "left"] BY <1>3 DEF HandoffEnds
  <2>2. hand \in [kind : {"handoff", "disconnect", "select", "left"}, snap : Snapshots,
                  epoch : Epochs, phase : {"captured", "sent", "ok", "err"}]
    BY <1>1, <1>2 DEF Hands
  <2>3. hand' \in [kind : {"handoff", "disconnect", "select", "left"}, snap : Snapshots,
                   epoch : Epochs, phase : {"captured", "sent", "ok", "err"}]
    BY <2>1, <2>2
  <2>4. /\ hand' \in Hands /\ hand'.kind = "left" /\ hand'.epoch = hand.epoch
        /\ hand'.snap = hand.snap /\ hand'.phase = "ok"
    BY <1>3, <2>1, <2>2, <2>3 DEF Hands
  <2>5. present = TRUE BY <1>1, <1>2 DEF Good, HandFits
  <2> QED BY <1>1, <1>3, <2>1, <2>4, <2>5, DespawnedKeeps
<1>4. CASE hand.phase = "err"
  <2>1. /\ UNCHANGED <<stage, present, epoch, live, fact, unsynced, dirty, due, intents,
                       flush, chan, save, exit, running>>
        /\ hand' = None
    BY <1>4 DEF HandoffEnds, simVars
  <2>2. Good(Pipe, row, present, epoch, live, flush, None) BY <1>1, <1>2, <1>4, HandoffIsOver
  <2>3. Pipe' = Pipe BY <2>1 DEF Pipe
  <2>4. TypeOK' BY <1>1, <1>2, <2>1 DEF TypeOK
  <2> QED BY <1>1, <2>1, <2>2, <2>3, <2>4 DEF SavesInv, StageFits, Covered
<1> QED BY <1>3, <1>4 DEF HandoffEnds

\* The flush of the way to character select failed.
LEMMA SelectFailsKeeps == SavesInv /\ SelectFails => SavesInv'
<1> SUFFICES ASSUME SavesInv, SelectFails PROVE SavesInv'
  OBVIOUS
<1>1. /\ UNCHANGED <<stage, present, epoch, live, fact, unsynced, dirty, due, intents,
                     flush, chan, save, exit, running, row, unheard>>
      /\ hand # None /\ hand.kind = "select" /\ hand.phase = "err"
      /\ hand' = [hand EXCEPT !.kind = "disconnect", !.phase = "captured"]
  BY DEF SelectFails, simVars
<1>2. TypeOK /\ hand \in Hands /\ Good(Pipe, row, present, epoch, live, flush, hand)
  BY InvFacts DEF SavesInv
<1>3. hand \in [kind : {"handoff", "disconnect", "select", "left"}, snap : Snapshots,
                epoch : Epochs, phase : {"captured", "sent", "ok", "err"}]
  BY <1>1, <1>2 DEF Hands
<1>4. hand' \in [kind : {"handoff", "disconnect", "select", "left"}, snap : Snapshots,
                 epoch : Epochs, phase : {"captured", "sent", "ok", "err"}]
  BY <1>1, <1>3
<1>5. /\ hand' \in Hands /\ hand'.kind = "disconnect" /\ hand'.snap = hand.snap
      /\ hand'.epoch = hand.epoch /\ hand'.phase = "captured"
  BY <1>1, <1>3, <1>4 DEF Hands
<1>6. Good(Pipe, row, present, epoch, live, flush, hand')
  BY <1>1, <1>2, <1>5, SelectBecomesExit
<1>7. Pipe' = Pipe BY <1>1 DEF Pipe
<1>8. TypeOK' BY <1>1, <1>2, <1>4 DEF TypeOK
<1> QED BY <1>1, <1>6, <1>7, <1>8 DEF SavesInv, StageFits, Covered

\* The player comes back.
LEMMA ReenterKeeps == SavesInv /\ Reenter => SavesInv'
<1> SUFFICES ASSUME SavesInv, Reenter PROVE SavesInv'
  OBVIOUS
<1>1. /\ UNCHANGED <<stage, chan, save, exit, running, row>>
      /\ stage = "frame" /\ hand # None /\ hand.kind # "handoff" /\ hand.phase = "ok"
      /\ present' = TRUE /\ live' = row.snap /\ epoch' = row.epoch
      /\ fact' = FALSE /\ unsynced' = FALSE /\ dirty' = FALSE
      /\ due' \in 1 .. Interval /\ intents' = 0 /\ flush' = "none"
      /\ hand' = None /\ unheard' = FALSE
  BY DEF Reenter, Entered
<1>2. TypeOK /\ hand \in Hands /\ Good(Pipe, row, present, epoch, live, flush, hand)
  BY InvFacts DEF SavesInv
<1>3. present = FALSE BY DEF Reenter, SavesInv, TypeOK
<1>4. hand.kind \notin {"none", "handoff"} BY <1>1, <1>2, HandFacts
<1>5. Good(Pipe, row, TRUE, row.epoch, row.snap, "none", None)
  BY <1>1, <1>2, <1>3, <1>4, PlayerReturns
<1>6. Pipe' = Pipe BY <1>1 DEF Pipe
<1>7. row \in Rows /\ row.epoch \in Epochs /\ row.snap \in Snapshots
  BY <1>2, InvFacts, PartFacts
<1>8. due' \in Nat /\ intents' \in 0 .. IntentCap BY <1>1, SavesAssumption
<1>9. TypeOK'
  <2>1. /\ stage' \in {"frame", "intents", "finalize", "act", "autosave"}
        /\ present' \in BOOLEAN /\ fact' \in BOOLEAN /\ unsynced' \in BOOLEAN
        /\ dirty' \in BOOLEAN /\ unheard' \in BOOLEAN
        /\ live' \in Snapshots /\ epoch' \in Epochs
    BY <1>1, <1>7
  <2> QED BY <1>1, <1>2, <1>8, <2>1 DEF TypeOK
<1>10. AtLeast(row.snap, row.snap) BY <1>7, AtLeastFacts
<1>11. Covered' BY <1>1, <1>10 DEF Covered
<1>12. StageFits' BY <1>1 DEF SavesInv, StageFits
<1> QED BY <1>1, <1>5, <1>6, <1>9, <1>11, <1>12 DEF SavesInv

-----------------------------------------------------------------------------
(* The worker's steps.                                                     *)

\* Nobody asks of a part of the pipe what nobody asks of the whole.
LEMMA DrawnIsSilent ==
    ASSUME NEW P, NEW Q, NEW g, DrawnBy(g, Q, P), NEW who, Silent(P, who)
    PROVE  Silent(Q, who)
BY DEF DrawnBy, Silent, Asks

\* A request that is gone, with its question.
LEMMA DrawnIsSilentOf ==
    ASSUME NEW P, NEW rw, NEW here, NEW e, NEW lv, NEW fl, NEW h,
           Good(P, rw, here, e, lv, fl, h), NEW Q, NEW g, DrawnBy(g, Q, P),
           NEW k \in DOMAIN P, NEW who \in {"sim", "hand"}, P[k] # None, P[k].reply = who,
           \A i \in DOMAIN Q : IsRequest(Q[i]) => g[i] # k
    PROVE  Silent(Q, who)
<1>1. P[k] \in Requests /\ AnswersAreUnique(P) BY DEF Good, Typed, Ordered
<1>2. Asks(P[k], who) BY <1>1, KindFacts DEF Asks
<1>3. \A i \in DOMAIN Q : ~Asks(Q[i], who) BY <1>1, <1>2, DrawnAsksNot
<1> QED BY <1>3 DEF Silent

\* Where a save can be.
LEMMA HoldsWhere ==
    ASSUME NEW run, NEW ex, NEW sv, NEW ch \in Seq(Requests), NEW e, NEW lv
    PROVE  Holds(PipeOf(run, ex, sv, ch), e, lv) <=>
              \/ Has(run, e, lv) \/ Has(ex, e, lv) \/ Has(sv, e, lv)
              \/ \E i \in 1 .. Len(ch) : Has(ch[i], e, lv)
<1> DEFINE P == PipeOf(run, ex, sv, ch)
<1>1. /\ Len(ch) \in Nat /\ DOMAIN P = -2 .. Len(ch)
      /\ P[-2] = run /\ P[-1] = ex /\ P[0] = sv
      /\ \A i \in 1 .. Len(ch) : P[i] = ch[i]
  BY PipeFacts
<1> HIDE DEF P
<1>2. \A i \in DOMAIN P : i = -2 \/ i = -1 \/ i = 0 \/ i \in 1 .. Len(ch) BY <1>1
<1>3. -2 \in DOMAIN P /\ -1 \in DOMAIN P /\ 0 \in DOMAIN P /\ \A i \in 1 .. Len(ch) : i \in DOMAIN P
  BY <1>1
<1>4. Holds(P, e, lv) => \/ Has(run, e, lv) \/ Has(ex, e, lv) \/ Has(sv, e, lv)
                         \/ \E i \in 1 .. Len(ch) : Has(ch[i], e, lv)
  <2> SUFFICES ASSUME NEW i \in DOMAIN P, Has(P[i], e, lv)
               PROVE  \/ Has(run, e, lv) \/ Has(ex, e, lv) \/ Has(sv, e, lv)
                      \/ \E j \in 1 .. Len(ch) : Has(ch[j], e, lv)
    BY DEF Holds
  <2> QED BY <1>1, <1>2
<1>5. \/ Has(run, e, lv) \/ Has(ex, e, lv) \/ Has(sv, e, lv)
      \/ \E i \in 1 .. Len(ch) : Has(ch[i], e, lv)
      => Holds(P, e, lv)
  BY <1>1, <1>3 DEF Holds
<1> QED BY <1>4, <1>5 DEF P

\* Nothing has no save, and an exit is none.
LEMMA HasFacts ==
    /\ \A e, lv : ~Has(None, e, lv)
    /\ \A r, e, lv : r \in Exits => ~Has(r, e, lv)
BY DEF Has, IsSave, None, Exits

\* The worker takes up what waits in the lane.
LEMMA DispatchKeeps == SavesInv /\ Dispatch => SavesInv'
<1> SUFFICES ASSUME SavesInv, Dispatch PROVE SavesInv'
  OBVIOUS
<1>1. /\ UNCHANGED <<stage, present, epoch, live, fact, unsynced, dirty, due, intents,
                     flush, hand, chan, row, unheard>>
      /\ running = None /\ exit' = None
      /\ \/ exit # None /\ running' = exit /\ save' = save
         \/ exit = None /\ running' = save /\ save' = None
  BY DEF Dispatch, simVars
<1>2. TypeOK /\ Good(Pipe, row, present, epoch, live, flush, hand) BY DEF SavesInv
<1>3. /\ chan \in Seq(Requests) /\ exit \in Requests /\ save \in Requests /\ None \in Requests
  BY <1>2, InvFacts DEF Requests
<1>4. TypeOK' BY <1>1, <1>2 DEF TypeOK
<1>5. ~IsRequest(None) BY DEF IsRequest, None
<1>6. Pipe' = PipeOf(running', exit', save', chan) BY <1>1 DEF Pipe
<1>7. StageFits' BY <1>1 DEF SavesInv, StageFits, None
<1>8. CASE exit # None /\ running' = exit /\ save' = save
  <2> DEFINE g == [i \in Int |-> IF i = -2 THEN -1 ELSE i]
  <2>1. g[-2] = -1 /\ g[0] = 0 /\ \A i \in Nat \ {0} : g[i] = i OBVIOUS
  <2> HIDE DEF g
  <2>2. DrawnBy(g, PipeOf(exit, None, save, chan), PipeOf(running, exit, save, chan))
    BY <1>3, <1>5, <2>1, LaneDraws
  <2>3. DrawnBy(g, Pipe', Pipe) BY <1>1, <1>6, <1>8, <2>2 DEF Pipe
  <2>4. Good(Pipe', row, present, epoch, live, flush, hand) BY <1>2, <2>3, DrawnIsGood
  <2>5. IsExit(running') BY <1>2, <1>8 DEF TypeOK, Exits, IsExit
  <2>6. Covered' BY <2>5 DEF Covered
  <2> QED BY <1>1, <1>4, <1>7, <2>4, <2>6 DEF SavesInv
<1>9. CASE exit = None /\ running' = save /\ save' = None
  <2> DEFINE g == [i \in Int |-> IF i = -2 THEN 0 ELSE i]
  <2>1. g[-2] = 0 /\ \A i \in Nat \ {0} : g[i] = i OBVIOUS
  <2> HIDE DEF g
  <2>2. DrawnBy(g, PipeOf(save, None, None, chan), PipeOf(running, exit, save, chan))
    BY <1>3, <1>5, <2>1, LaneDraws
  <2>3. DrawnBy(g, Pipe', Pipe) BY <1>1, <1>6, <1>9, <2>2 DEF Pipe
  <2>4. Good(Pipe', row, present, epoch, live, flush, hand) BY <1>2, <2>3, DrawnIsGood
  <2>5. Pipe' = PipeOf(save, None, None, chan) BY <1>1, <1>6, <1>9
  <2>6. Holds(PipeOf(running, exit, save, chan), epoch, live) =>
          Holds(PipeOf(save, None, None, chan), epoch, live)
    BY <1>1, <1>3, <1>9, HoldsWhere, HasFacts
  <2>7. Holds(Pipe, epoch, live) => Holds(Pipe', epoch, live) BY <2>5, <2>6 DEF Pipe
  <2>8. ~IsExit(exit) /\ ~IsExit(running) BY <1>1, <1>9 DEF IsExit, None
  <2>9. Covered' BY <1>1, <2>7, <2>8 DEF SavesInv, Covered
  <2> QED BY <1>1, <1>4, <1>7, <2>4, <2>9 DEF SavesInv
<1> QED BY <1>1, <1>8, <1>9

\* A channel is a sequence of requests.
LEMMA ChannelHoldsRequests ==
    ASSUME NEW c \in Seq(Saves \cup Exits) PROVE c \in Seq(Requests)
<1>1. \A i \in 1 .. Len(c) : c[i] \in Saves \cup Exits OBVIOUS
<1>2. \A i \in 1 .. Len(c) : c[i] \in Requests BY <1>1 DEF Requests
<1> QED BY <1>2

\* The channel without its first request.
LEMMA TakenFacts ==
    ASSUME TypeOK, chan # <<>>, chan' = Tail(chan)
    PROVE  /\ chan' \in Seq(Saves \cup Exits) /\ Len(chan') <= QueueCap
           /\ chan' \in Seq(Requests) /\ Rest(chan', chan)
           /\ Head(chan) = chan[1] /\ chan[1] \in Saves \cup Exits /\ 1 \in 1 .. Len(chan)
<1>1. /\ chan' \in Seq(Saves \cup Exits) /\ Len(chan) = Len(chan') + 1 /\ Len(chan') \in Nat
      /\ \A i \in 1 .. Len(chan') : chan'[i] = chan[i + 1]
      /\ Head(chan) = chan[1] /\ chan[1] \in Saves \cup Exits /\ 1 \in 1 .. Len(chan)
  BY DEF TypeOK
<1>2. Len(chan') <= QueueCap BY <1>1, SavesAssumption DEF TypeOK
<1>3. chan' \in Seq(Requests) BY <1>1, ChannelHoldsRequests
<1> QED BY <1>1, <1>2, <1>3 DEF Rest

\* What of the invariant is left to show when the channel's head was taken.
LEMMA TakenKeeps ==
    ASSUME SavesInv, chan # <<>>, chan' = Tail(chan),
           UNCHANGED <<simVars, running, row, unheard>>,
           save' \in {None} \cup Saves, exit' \in {None} \cup Exits,
           exit'.kind = "none" \/ save'.kind = "none",
           flush' = flush \/ (flush = "waiting" /\ flush' = "err"), hand' \in Hands,
           Good(Pipe', row, present, epoch, live, flush', hand'),
           \/ IsExit(exit')
           \/ ~IsExit(exit) /\ (present = TRUE /\ Holds(Pipe, epoch, live) => Holds(Pipe', epoch, live))
    PROVE  SavesInv'
<1>1. UNCHANGED <<stage, present, epoch, live, fact, unsynced, dirty, due, intents,
                  running, row, unheard>>
  BY DEF simVars
<1>2. chan' \in Seq(Saves \cup Exits) /\ Len(chan') <= QueueCap
  BY TakenFacts DEF SavesInv
<1>3. flush' \in {"none", "waiting", "ok", "err"} BY DEF SavesInv, TypeOK
<1>4. TypeOK' BY <1>1, <1>2, <1>3 DEF SavesInv, TypeOK, Hands
<1>5. StageFits' BY <1>1 DEF SavesInv, StageFits
<1>6. Covered' BY <1>1 DEF SavesInv, Covered
<1> QED BY <1>1, <1>4, <1>5, <1>6 DEF SavesInv

\* Where a save can be, of the worker's state as it is and as it will be.
LEMMA PipeHolds ==
    ASSUME TypeOK, chan' \in Seq(Requests), NEW e, NEW lv
    PROVE  /\ Holds(Pipe, e, lv) <=>
                \/ Has(running, e, lv) \/ Has(exit, e, lv) \/ Has(save, e, lv)
                \/ \E i \in 1 .. Len(chan) : Has(chan[i], e, lv)
           /\ Holds(Pipe', e, lv) <=>
                \/ Has(running', e, lv) \/ Has(exit', e, lv) \/ Has(save', e, lv)
                \/ \E i \in 1 .. Len(chan') : Has(chan'[i], e, lv)
<1>1. chan \in Seq(Requests) BY InvFacts
<1>2. Holds(PipeOf(running, exit, save, chan), e, lv) <=>
                \/ Has(running, e, lv) \/ Has(exit, e, lv) \/ Has(save, e, lv)
                \/ \E i \in 1 .. Len(chan) : Has(chan[i], e, lv)
  BY <1>1, HoldsWhere
<1>3. Holds(PipeOf(running', exit', save', chan'), e, lv) <=>
                \/ Has(running', e, lv) \/ Has(exit', e, lv) \/ Has(save', e, lv)
                \/ \E i \in 1 .. Len(chan') : Has(chan'[i], e, lv)
  BY HoldsWhere
<1>4. Pipe' = PipeOf(running', exit', save', chan') BY DEF Pipe
<1> QED BY <1>2, <1>3, <1>4 DEF Pipe

\* The pipe as it will be.
LEMMA NextPipeFacts ==
    ASSUME chan' \in Seq(Requests)
    PROVE  /\ Len(chan') \in Nat /\ DOMAIN Pipe' = -2 .. Len(chan')
           /\ Pipe'[-2] = running' /\ Pipe'[-1] = exit' /\ Pipe'[0] = save'
           /\ \A i \in 1 .. Len(chan') : Pipe'[i] = chan'[i]
<1>1. LET P == PipeOf(running', exit', save', chan') IN
      /\ Len(chan') \in Nat /\ DOMAIN P = -2 .. Len(chan')
      /\ P[-2] = running' /\ P[-1] = exit' /\ P[0] = save'
      /\ \A i \in 1 .. Len(chan') : P[i] = chan'[i]
  BY PipeFacts
<1>2. Pipe' = PipeOf(running', exit', save', chan') BY DEF Pipe
<1> QED BY <1>1, <1>2

\* An exit enters the lane and clears it.
LEMMA TakeExitKeeps ==
    ASSUME SavesInv, chan # <<>>, chan' = Tail(chan),
           UNCHANGED <<simVars, running, row, unheard>>,
           Head(chan).kind = "exit", TakeExit(Head(chan))
    PROVE  SavesInv'
<1> DEFINE r == chan[1]
           who == {w.reply : w \in {save, exit} \ {None}}
           g == [i \in Int |-> IF i = -2 THEN -2 ELSE IF i = -1 THEN 1 ELSE Behind(i)]
<1>1. TypeOK /\ Good(Pipe, row, present, epoch, live, flush, hand) BY DEF SavesInv
<1>2. /\ chan' \in Seq(Requests) /\ Rest(chan', chan) /\ Head(chan) = r
      /\ r \in Saves \cup Exits /\ 1 \in 1 .. Len(chan)
  BY <1>1, TakenFacts
<1>3. /\ exit' = r /\ save' = None
      /\ flush' = (IF "sim" \in who /\ flush = "waiting" THEN "err" ELSE flush)
      /\ hand' = (IF "hand" \in who /\ hand # None /\ hand.phase = "sent"
                  THEN [hand EXCEPT !.phase = "err"] ELSE hand)
  BY <1>2 DEF TakeExit, Answer
<1>4. r \in Exits /\ r \in Requests /\ IsExit(r)
  BY <1>2 DEF Saves, Exits, Requests, IsExit
<1>5. /\ chan \in Seq(Requests) /\ running \in Requests /\ save \in Requests /\ exit \in Requests
      /\ DOMAIN Pipe = -2 .. Len(chan) /\ Pipe[-1] = exit /\ Pipe[0] = save
      /\ Len(chan) \in Nat
  BY <1>1, InvFacts
<1>6. None \in Requests /\ ~IsRequest(None) /\ None.kind = "none"
  BY DEF Requests, IsRequest, None
<1>7. /\ g[-2] = -2 /\ g[-1] = 1 /\ MovesUp(g)
      /\ \A i \in Nat \ {0} : g[i] = Behind(i)
  BY DEF MovesUp
<1> HIDE DEF g
<1>8. DrawnBy(g, PipeOf(running, r, None, chan'), PipeOf(running, exit, save, chan))
  BY <1>2, <1>4, <1>5, <1>6, <1>7, ChannelDraws
<1>9. Pipe' = PipeOf(running, r, None, chan') BY <1>3 DEF Pipe
<1>10. DrawnBy(g, Pipe', Pipe) BY <1>8, <1>9 DEF Pipe
<1>11. Good(Pipe', row, present, epoch, live, flush, hand) BY <1>1, <1>10, DrawnIsGood
<1>12. DOMAIN Pipe' = -2 .. Len(chan') /\ Pipe'[0] = None /\ Len(chan') \in Nat
  BY <1>2, <1>3, NextPipeFacts
<1>13. \A i \in DOMAIN Pipe' : IsRequest(Pipe'[i]) => g[i] # -1 /\ g[i] # 0
  <2> SUFFICES ASSUME NEW i \in DOMAIN Pipe', IsRequest(Pipe'[i]) PROVE g[i] # -1 /\ g[i] # 0
    OBVIOUS
  <2>1. i # 0 BY <1>6, <1>12
  <2>2. i = -2 \/ i = -1 \/ (i \in Nat \ {0}) BY <1>12, <2>1
  <2>3. CASE i \in Nat \ {0}
    <3>1. g[i] = Behind(i) BY <1>7, <2>3
    <3> QED BY <2>3, <3>1 DEF Behind
  <2> QED BY <1>7, <2>2, <2>3
<1>14. ASSUME NEW w \in {"sim", "hand"}, w \in who PROVE Silent(Pipe', w)
  <2>1. (save # None /\ save.reply = w) \/ (exit # None /\ exit.reply = w) BY <1>14
  <2>2. -1 \in DOMAIN Pipe /\ 0 \in DOMAIN Pipe BY <1>5
  <2>3. CASE save # None /\ save.reply = w
    BY <1>1, <1>5, <1>10, <1>13, <2>2, <2>3, DrawnIsSilentOf
  <2>4. CASE exit # None /\ exit.reply = w
    BY <1>1, <1>5, <1>10, <1>13, <2>2, <2>4, DrawnIsSilentOf
  <2> QED BY <2>1, <2>3, <2>4
<1> HIDE DEF who
<1>15. FlushHears(flush, flush', who, "err") /\ HandHears(hand, hand', who, "err")
  BY <1>3 DEF FlushHears, HandHears
<1>16. ("sim" \in who => Silent(Pipe', "sim")) /\ ("hand" \in who => Silent(Pipe', "hand"))
  BY <1>14
<1>17. /\ Good(Pipe', row, present, epoch, live, flush', hand') /\ hand' \in Hands
       /\ flush' = flush \/ (flush = "waiting" /\ flush' = "err")
  BY <1>11, <1>15, <1>16, ErrIsHeard
<1> QED BY <1>3, <1>4, <1>6, <1>17, TakenKeeps

\* A save that meets a waiting exit is refused.
LEMMA RefusedSaveKeeps ==
    ASSUME SavesInv, chan # <<>>, chan' = Tail(chan),
           UNCHANGED <<simVars, running, row, unheard>>,
           exit # None, Answer({Head(chan).reply}, FALSE), UNCHANGED <<save, exit>>
    PROVE  SavesInv'
<1> DEFINE who == {chan[1].reply}
           g == [i \in Int |-> IF i < 1 THEN i ELSE Behind(i)]
<1>1. TypeOK /\ Good(Pipe, row, present, epoch, live, flush, hand) BY DEF SavesInv
<1>2. /\ chan' \in Seq(Requests) /\ Rest(chan', chan) /\ Head(chan) = chan[1]
      /\ chan[1] \in Saves \cup Exits /\ 1 \in 1 .. Len(chan)
  BY <1>1, TakenFacts
<1>3. /\ flush' = (IF "sim" \in who /\ flush = "waiting" THEN "err" ELSE flush)
      /\ hand' = (IF "hand" \in who /\ hand # None /\ hand.phase = "sent"
                  THEN [hand EXCEPT !.phase = "err"] ELSE hand)
  BY <1>2 DEF Answer
<1>4. chan[1] \in Requests /\ chan[1] # None
  BY <1>2 DEF Saves, Exits, Requests, None
<1>5. /\ chan \in Seq(Requests) /\ running \in Requests /\ save \in Requests /\ exit \in Requests
      /\ DOMAIN Pipe = -2 .. Len(chan) /\ Pipe[1] = chan[1] /\ Len(chan) \in Nat
  BY <1>1, <1>2, InvFacts
<1>6. /\ g[-2] = -2 /\ g[-1] = -1 /\ g[0] = 0 /\ MovesUp(g)
      /\ \A i \in Nat \ {0} : g[i] = Behind(i)
  BY DEF MovesUp
<1> HIDE DEF g
<1>7. DrawnBy(g, PipeOf(running, exit, save, chan'), PipeOf(running, exit, save, chan))
  <2>1. /\ (g[-1] = -1 /\ exit = exit) \/ (g[-1] = 1 /\ exit = chan[1])
        /\ (g[0] = 0 /\ save = save) \/ (g[0] = 1 /\ save = chan[1])
        /\ g[-1] < g[0] /\ MovesUp(g)
    BY <1>6
  <2> QED BY <1>2, <1>5, <2>1, ChannelDraws
<1>8. DrawnBy(g, Pipe', Pipe) BY <1>7 DEF Pipe
<1>9. Good(Pipe', row, present, epoch, live, flush, hand) BY <1>1, <1>8, DrawnIsGood
<1>10. DOMAIN Pipe' = -2 .. Len(chan') /\ Len(chan') \in Nat BY <1>2, NextPipeFacts
<1>11. \A i \in DOMAIN Pipe' : IsRequest(Pipe'[i]) => g[i] # 1
  <2> SUFFICES ASSUME NEW i \in DOMAIN Pipe' PROVE g[i] # 1
    OBVIOUS
  <2>1. i = -2 \/ i = -1 \/ i = 0 \/ (i \in Nat \ {0}) BY <1>10
  <2>2. CASE i \in Nat \ {0}
    <3>1. g[i] = Behind(i) BY <1>6, <2>2
    <3> QED BY <2>2, <3>1 DEF Behind
  <2> QED BY <1>6, <2>1, <2>2
<1>12. ASSUME NEW w \in {"sim", "hand"}, w \in who PROVE Silent(Pipe', w)
  <2>1. chan[1].reply = w /\ 1 \in DOMAIN Pipe BY <1>2, <1>5, <1>12
  <2> QED BY <1>1, <1>4, <1>5, <1>8, <1>11, <2>1, DrawnIsSilentOf
<1> HIDE DEF who
<1>13. FlushHears(flush, flush', who, "err") /\ HandHears(hand, hand', who, "err")
  BY <1>3 DEF FlushHears, HandHears
<1>14. ("sim" \in who => Silent(Pipe', "sim")) /\ ("hand" \in who => Silent(Pipe', "hand"))
  BY <1>12
<1>15. /\ Good(Pipe', row, present, epoch, live, flush', hand') /\ hand' \in Hands
       /\ flush' = flush \/ (flush = "waiting" /\ flush' = "err")
  BY <1>9, <1>13, <1>14, ErrIsHeard
<1>16. save' \in {None} \cup Saves /\ exit' \in {None} \cup Exits BY <1>1 DEF TypeOK
<1>17. IsExit(exit') BY <1>16 DEF Exits, IsExit
<1>18. exit'.kind = "none" \/ save'.kind = "none" BY DEF SavesInv, StageFits
<1> QED BY <1>15, <1>16, <1>17, <1>18, TakenKeeps

\* A save enters an empty lane.
LEMMA StoredSaveKeeps ==
    ASSUME SavesInv, chan # <<>>, chan' = Tail(chan),
           UNCHANGED <<simVars, running, row, unheard, flush, hand, exit>>,
           exit = None, save = None, Head(chan).kind # "exit", save' = Head(chan)
    PROVE  SavesInv'
<1> DEFINE g == [i \in Int |-> IF i < 0 THEN i ELSE Behind(i)]
<1>1. TypeOK /\ Good(Pipe, row, present, epoch, live, flush, hand) BY DEF SavesInv
<1>2. /\ chan' \in Seq(Requests) /\ Rest(chan', chan) /\ Head(chan) = chan[1]
      /\ chan[1] \in Saves \cup Exits /\ 1 \in 1 .. Len(chan)
  BY <1>1, TakenFacts
<1>3. save' = chan[1] /\ chan[1] \in Saves /\ chan[1] \in Requests
  BY <1>2 DEF Requests, Exits
<1>4. /\ chan \in Seq(Requests) /\ running \in Requests /\ None \in Requests /\ ~IsRequest(None)
      /\ None.kind = "none" /\ ~IsExit(None) /\ Len(chan) \in Nat /\ hand \in Hands
  BY <1>1, InvFacts DEF Requests, IsRequest, IsExit, None
<1>5. g[0] = 1 /\ MovesUp(g)
  <2>1. g[-2] = -2 /\ g[0] = Behind(0) /\ \A i \in Nat \ {0} : g[i] = Behind(i) OBVIOUS
  <2> QED BY <2>1 DEF MovesUp, Behind
<1> HIDE DEF g
<1>6. DrawnBy(g, PipeOf(running, None, save', chan'), PipeOf(running, exit, save, chan))
  BY <1>2, <1>3, <1>4, <1>5, ChannelDraws
<1>7. DrawnBy(g, Pipe', Pipe) BY <1>6 DEF Pipe
<1>8. Good(Pipe', row, present, epoch, live, flush, hand) BY <1>1, <1>7, DrawnIsGood
<1>9. Holds(Pipe, epoch, live) => Holds(Pipe', epoch, live)
  <2>1. ASSUME NEW i \in 1 .. Len(chan), Has(chan[i], epoch, live)
        PROVE  Has(save', epoch, live) \/ \E j \in 1 .. Len(chan') : Has(chan'[j], epoch, live)
    <3>1. CASE i = 1 BY <1>3, <2>1, <3>1
    <3>2. CASE i # 1
      <4>1. i - 1 \in 1 .. Len(chan') /\ chan'[i - 1] = chan[i]
        BY <1>2, <1>4, <3>2 DEF Rest
      <4> QED BY <2>1, <4>1
    <3> QED BY <3>1, <3>2
  <2>2. \/ Has(running, epoch, live) \/ Has(exit, epoch, live) \/ Has(save, epoch, live)
        \/ \E i \in 1 .. Len(chan) : Has(chan[i], epoch, live)
        => \/ Has(running', epoch, live) \/ Has(exit', epoch, live) \/ Has(save', epoch, live)
           \/ \E i \in 1 .. Len(chan') : Has(chan'[i], epoch, live)
    BY <2>1, HasFacts
  <2> QED BY <1>1, <1>2, <2>2, PipeHolds
<1> QED BY <1>3, <1>4, <1>8, <1>9, TakenKeeps

\* Two saves made one.
LEMMA MergedFacts ==
    ASSUME save \in Saves, NEW r \in Saves
    PROVE  /\ Merged(r) \in Saves /\ Merged(r).snap = r.snap /\ Merged(r).epoch = r.epoch
           /\ Merged(r).kind = IF save.kind = "flush" THEN "flush" ELSE r.kind
           /\ Merged(r).reply = IF save.reply = "none" THEN r.reply ELSE save.reply
<1> DEFINE k == IF save.kind = "flush" THEN "flush" ELSE r.kind
           p == IF save.reply = "none" THEN r.reply ELSE save.reply
<1>1. k \in {"autosave", "flush"} /\ p \in Repliers BY DEF Saves
<1>2. Merged(r) = [r EXCEPT !.kind = k, !.reply = p] BY DEF Merged, Saves
<1> HIDE DEF k, p
<1>3. Merged(r) \in Saves BY <1>1, <1>2 DEF Saves
<1>4. /\ Merged(r).snap = r.snap /\ Merged(r).epoch = r.epoch
      /\ Merged(r).kind = k /\ Merged(r).reply = p
  BY <1>2 DEF Saves
<1> QED BY <1>3, <1>4 DEF k, p

\* The channel's first request replaced, which the rest does not notice.
LEMMA ReplacedFacts ==
    ASSUME NEW c \in Seq(Requests), NEW d, NEW m \in Requests, 1 \in 1 .. Len(c), Rest(d, c),
           NEW c2, c2 = [c EXCEPT ![1] = m]
    PROVE  /\ c2 \in Seq(Requests) /\ Len(c2) = Len(c) /\ c2[1] = m /\ Rest(d, c2)
           /\ \A i \in 1 .. Len(c) : i # 1 => c2[i] = c[i]
<1>1. DOMAIN c = 1 .. Len(c) /\ Len(c) \in Nat OBVIOUS
<1>2. c2 \in Seq(Requests) /\ Len(c2) = Len(c) OBVIOUS
<1>3. c2[1] = m BY <1>1
<1>4. \A i \in 1 .. Len(c) : i # 1 => c2[i] = c[i] BY <1>1
<1>5. Rest(d, c2)
  <2>1. Len(c2) = Len(d) + 1 BY <1>2 DEF Rest
  <2>2. ASSUME NEW i \in 1 .. Len(d) PROVE d[i] = c2[i + 1]
    <3>1. d[i] = c[i + 1] BY DEF Rest
    <3>2. i + 1 \in 1 .. Len(c) /\ i + 1 # 1 BY <1>1 DEF Rest
    <3> QED BY <1>4, <3>1, <3>2
  <2> QED BY <2>1, <2>2 DEF Rest
<1> QED BY <1>2, <1>3, <1>4, <1>5

\* A save is merged with the one that waits.
LEMMA MergedSaveKeeps ==
    ASSUME SavesInv, chan # <<>>, chan' = Tail(chan),
           UNCHANGED <<simVars, running, row, unheard, exit>>,
           exit = None, save # None, Head(chan).kind # "exit", save' = Merged(Head(chan)),
           \/ save.reply # "none" /\ Answer({Head(chan).reply}, FALSE)
           \/ save.reply = "none" /\ UNCHANGED <<flush, hand>>
    PROVE  SavesInv'
<1> DEFINE r == chan[1]
           m == Merged(r)
           c2 == [chan EXCEPT ![1] = m]
           M == PipeOf(running, None, None, c2)
           who == {r.reply}
           g == [i \in Int |-> IF i < 0 THEN i ELSE Behind(i)]
<1>1. TypeOK /\ Good(Pipe, row, present, epoch, live, flush, hand) BY DEF SavesInv
<1>2. /\ chan' \in Seq(Requests) /\ Rest(chan', chan) /\ Head(chan) = r
      /\ r \in Saves \cup Exits /\ 1 \in 1 .. Len(chan)
  BY <1>1, TakenFacts
<1>3. r \in Saves /\ r \in Requests /\ save \in Saves /\ save \in Requests
  BY <1>1, <1>2 DEF Requests, Exits, TypeOK
<1>4. /\ m \in Saves /\ m.snap = r.snap /\ m.epoch = r.epoch
      /\ m.kind = IF save.kind = "flush" THEN "flush" ELSE r.kind
      /\ m.reply = IF save.reply = "none" THEN r.reply ELSE save.reply
  BY <1>3, MergedFacts
<1>5. save' = m /\ m \in Requests BY <1>2, <1>4 DEF Requests
<1>6. /\ chan \in Seq(Requests) /\ running \in Requests /\ None \in Requests /\ ~IsRequest(None)
      /\ None.kind = "none" /\ ~IsExit(None) /\ Len(chan) \in Nat /\ hand \in Hands
      /\ DOMAIN Pipe = -2 .. Len(chan) /\ Pipe[-2] = running /\ Pipe[-1] = None
      /\ Pipe[0] = save /\ \A i \in 1 .. Len(chan) : Pipe[i] = chan[i]
  BY <1>1, InvFacts DEF Requests, IsRequest, IsExit, None
<1>7. IsSave(save) /\ IsSave(r) /\ IsSave(m) /\ IsRequest(save) /\ IsRequest(r)
  BY <1>3, <1>4 DEF Saves, IsSave, IsRequest
<1> HIDE DEF m
<1>8. /\ c2 \in Seq(Requests) /\ Len(c2) = Len(chan) /\ c2[1] = m /\ Rest(chan', c2)
      /\ \A i \in 1 .. Len(chan) : i # 1 => c2[i] = chan[i]
  BY <1>2, <1>5, <1>6, ReplacedFacts
<1> HIDE DEF c2
<1>9. /\ DOMAIN M = -2 .. Len(c2) /\ M[-2] = running /\ M[-1] = None /\ M[0] = None
      /\ \A i \in 1 .. Len(c2) : M[i] = c2[i]
  BY <1>8, PipeFacts
<1>10. g[0] = 1 /\ MovesUp(g)
  <2>1. g[-2] = -2 /\ g[0] = Behind(0) /\ \A i \in Nat \ {0} : g[i] = Behind(i) OBVIOUS
  <2> QED BY <2>1 DEF MovesUp, Behind
<1> HIDE DEF g
<1>11. DrawnBy(g, PipeOf(running, None, m, chan'), PipeOf(running, None, None, c2))
  BY <1>2, <1>5, <1>6, <1>8, <1>10, ChannelDraws
<1>12. Pipe' = PipeOf(running, None, m, chan') BY <1>5 DEF Pipe
<1>13. DrawnBy(g, Pipe', M) BY <1>11, <1>12
<1> HIDE DEF M, r
<1>14. 0 \in DOMAIN Pipe /\ 1 \in DOMAIN Pipe /\ Pipe[1] = r BY <1>2, <1>6 DEF r
<1>15. MergedAt(M, Pipe, 0, 1)
  <2>1. DOMAIN M = DOMAIN Pipe /\ M[0] = None /\ \A i \in DOMAIN Pipe : i <= 0 \/ 1 <= i
    BY <1>6, <1>8, <1>9
  <2>2. ASSUME NEW i \in DOMAIN Pipe \ {0, 1} PROVE M[i] = Pipe[i]
    <3>1. i = -2 \/ i = -1 \/ (i \in 1 .. Len(chan) /\ i # 1) BY <1>6
    <3> QED BY <1>6, <1>8, <1>9, <3>1
  <2>3. M[1] = m BY <1>2, <1>8, <1>9
  <2> QED BY <1>4, <1>5, <1>6, <1>14, <2>1, <2>2, <2>3 DEF MergedAt
<1>16. Good(M, row, present, epoch, live, flush, hand)
  BY <1>1, <1>6, <1>7, <1>14, <1>15, MergedIsGood
<1>17. Good(Pipe', row, present, epoch, live, flush, hand) BY <1>13, <1>16, DrawnIsGood
<1>18. /\ Good(Pipe', row, present, epoch, live, flush', hand') /\ hand' \in Hands
       /\ flush' = flush \/ (flush = "waiting" /\ flush' = "err")
  <2>1. CASE save.reply = "none" BY <1>6, <1>17, <2>1
  <2>2. CASE save.reply # "none"
    <3>1. /\ flush' = (IF "sim" \in who /\ flush = "waiting" THEN "err" ELSE flush)
          /\ hand' = (IF "hand" \in who /\ hand # None /\ hand.phase = "sent"
                      THEN [hand EXCEPT !.phase = "err"] ELSE hand)
      BY <1>2, <2>2 DEF Answer
    <3>2. ASSUME NEW w \in {"sim", "hand"}, w \in who PROVE Silent(Pipe', w)
      <4>1. Asks(Pipe[1], w) BY <1>7, <1>14, <3>2 DEF Asks
      <4>2. AnswersAreUnique(Pipe) BY <1>1 DEF Good, Ordered
      <4>3. \A i \in DOMAIN M : ~Asks(M[i], w)
        BY <1>6, <1>7, <1>14, <1>15, <2>2, <4>1, <4>2, MergedAsksNot
      <4>4. Silent(M, w) BY <4>3 DEF Silent
      <4> QED BY <1>13, <4>4, DrawnIsSilent
    <3> HIDE DEF who
    <3>3. FlushHears(flush, flush', who, "err") /\ HandHears(hand, hand', who, "err")
      BY <3>1 DEF FlushHears, HandHears
    <3>4. ("sim" \in who => Silent(Pipe', "sim")) /\ ("hand" \in who => Silent(Pipe', "hand"))
      BY <3>2
    <3> QED BY <1>17, <3>3, <3>4, ErrIsHeard
  <2> QED BY <2>1, <2>2
<1>19. present = TRUE /\ Holds(Pipe, epoch, live) => Holds(Pipe', epoch, live)
  <2> SUFFICES ASSUME present = TRUE, Holds(Pipe, epoch, live) PROVE Holds(Pipe', epoch, live)
    OBVIOUS
  <2>1. Has(r, epoch, live) => Has(m, epoch, live) BY <1>4, <1>7 DEF Has
  <2>2. Has(save, epoch, live) => Has(r, epoch, live)
    <3> SUFFICES ASSUME Has(save, epoch, live) PROVE Has(r, epoch, live)
      OBVIOUS
    <3>1. Newer(r, save)
      BY <1>1, <1>6, <1>7, <1>14 DEF Good, Ordered, SavesInOrder
    <3>2. FitsPlayer(r, present, epoch, live, flush) BY <1>1, <1>7, <1>14 DEF Good, AllFit
    <3>3. r.epoch <= epoch /\ r.epoch >= epoch BY <3>1, <3>2 DEF FitsPlayer, Newer, Has
    <3>4. r.epoch \in Int /\ epoch \in Int /\ r.snap \in Snapshots /\ save.snap \in Snapshots
          /\ live \in Snapshots
      BY <1>1, <1>3, <1>7, PartFacts DEF TypeOK
    <3>5. r.epoch = epoch BY <3>3, <3>4
    <3>6. AtLeast(r.snap, save.snap) /\ AtLeast(save.snap, live) BY <3>1, <3>5 DEF Newer, Has
    <3>7. AtLeast(r.snap, live) BY <3>4, <3>6, AtLeastFacts
    <3> QED BY <1>7, <3>5, <3>7 DEF Has
  <2>3. ASSUME NEW i \in 1 .. Len(chan), Has(chan[i], epoch, live)
        PROVE  Has(m, epoch, live) \/ \E j \in 1 .. Len(chan') : Has(chan'[j], epoch, live)
    <3>1. CASE i = 1 BY <2>1, <2>3, <3>1 DEF r
    <3>2. CASE i # 1
      <4>1. i - 1 \in 1 .. Len(chan') /\ chan'[i - 1] = chan[i]
        BY <1>2, <1>6, <3>2 DEF Rest
      <4> QED BY <2>3, <4>1
    <3> QED BY <3>1, <3>2
  <2>4. \/ Has(running, epoch, live) \/ Has(exit, epoch, live) \/ Has(save, epoch, live)
        \/ \E i \in 1 .. Len(chan) : Has(chan[i], epoch, live)
    BY <1>1, <1>2, PipeHolds
  <2>5. \/ Has(running', epoch, live) \/ Has(exit', epoch, live) \/ Has(save', epoch, live)
        \/ \E i \in 1 .. Len(chan') : Has(chan'[i], epoch, live)
    BY <1>5, <2>1, <2>2, <2>3, <2>4, HasFacts
  <2> QED BY <1>1, <1>2, <2>5, PipeHolds
<1> QED BY <1>4, <1>5, <1>6, <1>18, <1>19, TakenKeeps

\* The worker takes a request from its channel.
LEMMA TakeKeeps == SavesInv /\ Take => SavesInv'
<1> SUFFICES ASSUME SavesInv, Take PROVE SavesInv'
  OBVIOUS
<1>1. chan # <<>> /\ chan' = Tail(chan) /\ UNCHANGED <<simVars, running, row, unheard>>
  BY DEF Take
<1>2. CASE Head(chan).kind = "exit"
  BY <1>1, <1>2, TakeExitKeeps DEF Take
<1>3. CASE Head(chan).kind # "exit"
  <2>1. TakeSave(Head(chan)) BY <1>3 DEF Take
  <2>2. CASE exit # None
    <3>1. Answer({Head(chan).reply}, FALSE) /\ UNCHANGED <<save, exit>>
      BY <2>1, <2>2 DEF TakeSave
    <3> QED BY <1>1, <2>2, <3>1, RefusedSaveKeeps
  <2>3. CASE exit = None /\ save = None
    <3>1. save' = Head(chan) /\ UNCHANGED <<flush, hand, exit>>
      BY <2>1, <2>3 DEF TakeSave
    <3> QED BY <1>1, <1>3, <2>3, <3>1, StoredSaveKeeps
  <2>4. CASE exit = None /\ save # None
    <3>1. /\ save' = Merged(Head(chan)) /\ UNCHANGED exit
          /\ \/ save.reply # "none" /\ Answer({Head(chan).reply}, FALSE)
             \/ save.reply = "none" /\ UNCHANGED <<flush, hand>>
      BY <2>1, <2>4 DEF TakeSave
    <3> QED BY <1>1, <1>3, <2>4, <3>1, MergedSaveKeeps
  <2> QED BY <2>2, <2>3, <2>4
<1> QED BY <1>2, <1>3

\* The statement in flight, as the oldest request of the pipe.
LEMMA RunningFacts ==
    ASSUME SavesInv, running # None
    PROVE  /\ -2 \in DOMAIN Pipe /\ Pipe[-2] = running /\ \A i \in DOMAIN Pipe : -2 <= i
           /\ running \in Requests /\ IsRequest(running)
           /\ FitsRow(running, row) /\ FitsPlayer(running, present, epoch, live, flush)
           /\ FitsHand(running, hand)
           /\ running.snap \in Snapshots /\ running.epoch \in Epochs /\ running.epoch \in Int
           /\ row.snap \in Snapshots /\ row.epoch \in Epochs /\ row.epoch \in Int
           /\ live \in Snapshots /\ epoch \in Int
<1>1. TypeOK /\ Good(Pipe, row, present, epoch, live, flush, hand) BY DEF SavesInv
<1>2. /\ DOMAIN Pipe = -2 .. Len(chan) /\ Len(chan) \in Nat /\ Pipe[-2] = running
      /\ running \in Requests /\ row \in Rows
  BY <1>1, InvFacts
<1>3. -2 \in DOMAIN Pipe /\ \A i \in DOMAIN Pipe : -2 <= i BY <1>2
<1>4. IsRequest(running) BY <1>2, KindFacts
<1>5. /\ FitsRow(running, row) /\ FitsPlayer(running, present, epoch, live, flush)
      /\ FitsHand(running, hand)
  BY <1>1, <1>2, <1>3, <1>4 DEF Good, AllFit
<1>6. /\ running.snap \in Snapshots /\ running.epoch \in Epochs /\ running.epoch \in Int
      /\ row.snap \in Snapshots /\ row.epoch \in Epochs /\ row.epoch \in Int
      /\ live \in Snapshots /\ epoch \in Int
  BY <1>1, <1>2, <1>4, PartFacts DEF TypeOK
<1> QED BY <1>2, <1>3, <1>4, <1>5, <1>6

\* The pipe once the statement in flight is done with.
Done == PipeOf(None, exit, save, chan)

\* What is left of the pipe.
LEMMA DoneFacts ==
    ASSUME SavesInv, running # None, NEW rw, NEW fl, NEW h,
           Good(Pipe, rw, present, epoch, live, fl, h)
    PROVE  /\ Good(Done, rw, present, epoch, live, fl, h)
           /\ \A w \in {"sim", "hand"} : running.reply = w => Silent(Done, w)
           /\ IsSave(running) /\ running.reply = "hand" => \A i \in DOMAIN Done : ~IsExit(Done[i])
<1> DEFINE g == [i \in Int |-> i]
<1>1. TypeOK BY DEF SavesInv
<1>2. /\ chan \in Seq(Requests) /\ exit \in Requests /\ save \in Requests /\ None \in Requests
      /\ ~IsRequest(None) /\ None.kind = "none" /\ Len(chan) \in Nat /\ ~IsExit(None)
      /\ DOMAIN Pipe = -2 .. Len(chan) /\ Pipe[-2] = running
  BY <1>1, InvFacts DEF Requests, IsRequest, IsExit, None
<1>3. g[-2] = -2 /\ g[-1] = -1 /\ g[0] = 0 /\ \A i \in Int : g[i] = i OBVIOUS
<1>4. g[-1] < g[0] /\ \A i \in Nat \ {0} : g[i] = i BY <1>3
<1> HIDE DEF g
<1>5. DrawnBy(g, PipeOf(None, exit, save, chan), PipeOf(running, exit, save, chan))
  BY <1>2, <1>3, <1>4, LaneDraws
<1>6. DrawnBy(g, Done, Pipe) BY <1>5 DEF Done, Pipe
<1>7. Good(Done, rw, present, epoch, live, fl, h) BY <1>6, DrawnIsGood
<1>8. DOMAIN Done = -2 .. Len(chan) /\ Done[-2] = None BY <1>2, PipeFacts DEF Done
<1>9. \A i \in DOMAIN Done : IsRequest(Done[i]) => g[i] # -2
  <2> SUFFICES ASSUME NEW i \in DOMAIN Done, IsRequest(Done[i]) PROVE g[i] # -2
    OBVIOUS
  <2>1. i # -2 /\ i \in Int BY <1>2, <1>8
  <2> QED BY <1>3, <2>1
<1>10. -2 \in DOMAIN Pipe BY <1>2
<1>11. ASSUME NEW w \in {"sim", "hand"}, running.reply = w PROVE Silent(Done, w)
  BY <1>2, <1>6, <1>9, <1>10, <1>11, DrawnIsSilentOf
<1>12. ASSUME IsSave(running), running.reply = "hand", NEW i \in DOMAIN Done, IsExit(Done[i])
       PROVE  FALSE
  <2>1. IsRequest(Done[i]) BY <1>12 DEF IsExit, IsRequest
  <2>2. g[i] = i /\ i \in DOMAIN Pipe /\ Done[i] = Pipe[i]
    BY <1>2, <1>3, <1>6, <1>8, <2>1 DEF DrawnBy
  <2>3. -2 < i BY <1>2, <1>8, <2>1
  <2> QED BY <1>2, <1>10, <1>12, <2>2, <2>3 DEF Good, Ordered, SelectIsLast
<1> QED BY <1>7, <1>11, <1>12

\* A save that is written, or is not.
LEMMA SaveIsWritten ==
    ASSUME SavesInv, RunningSave,
           row' = row \/ (OwnsRow(running) /\ row' = [row EXCEPT !.snap = running.snap])
    PROVE  /\ Good(Pipe, row', present, epoch, live, flush, hand)
           /\ row' \in Rows /\ row'.epoch = row.epoch /\ AtLeast(row'.snap, row.snap)
           /\ OwnsRow(running) /\ row' # row => row'.snap = running.snap
<1>1. running # None /\ running.kind # "exit" BY DEF RunningSave
<1>2. /\ -2 \in DOMAIN Pipe /\ Pipe[-2] = running /\ \A i \in DOMAIN Pipe : -2 <= i
      /\ running \in Requests /\ IsRequest(running) /\ running.snap \in Snapshots
      /\ row.snap \in Snapshots /\ row.epoch \in Epochs
  BY <1>1, RunningFacts
<1>3. IsSave(running) BY <1>1, <1>2, KindFacts DEF IsExit
<1>4. row \in Rows /\ Good(Pipe, row, present, epoch, live, flush, hand)
  BY InvFacts DEF SavesInv
<1>5. CASE row' = row BY <1>2, <1>4, <1>5, AtLeastFacts
<1>6. CASE OwnsRow(running) /\ row' = [row EXCEPT !.snap = running.snap]
  <2>1. row' \in Rows /\ row'.epoch = row.epoch /\ row'.snap = running.snap
    BY <1>2, <1>4, <1>6 DEF Rows
  <2>2. running.epoch = row.epoch BY <1>6 DEF OwnsRow
  <2>3. Good(Pipe, row', present, epoch, live, flush, hand) /\ AtLeast(row'.snap, row.snap)
    BY <1>2, <1>3, <1>4, <2>1, <2>2, RowWritten
  <2> QED BY <2>1, <2>3
<1> QED BY <1>5, <1>6

\* A save answers.
LEMMA SaveAnswersKeeps == SavesInv /\ SaveAnswers => SavesInv'
<1> SUFFICES ASSUME SavesInv, SaveAnswers PROVE SavesInv'
  OBVIOUS
<1> DEFINE who == {running.reply}
<1>1. /\ UNCHANGED <<stage, present, epoch, live, fact, unsynced, dirty, due, intents,
                     chan, save, exit, unheard>>
      /\ RunningSave /\ running' = None
      /\ row' = IF OwnsRow(running) THEN [row EXCEPT !.snap = running.snap] ELSE row
  BY DEF SaveAnswers, simVars
<1>2. TypeOK /\ running # None /\ running.kind # "exit" BY <1>1 DEF SavesInv, RunningSave
<1>3. /\ Good(Pipe, row', present, epoch, live, flush, hand)
      /\ row' \in Rows /\ row'.epoch = row.epoch /\ AtLeast(row'.snap, row.snap)
  BY <1>1, SaveIsWritten
<1>4. /\ running \in Requests /\ IsRequest(running)
      /\ FitsPlayer(running, present, epoch, live, flush) /\ FitsHand(running, hand)
      /\ running.snap \in Snapshots /\ running.epoch \in Int
      /\ row.snap \in Snapshots /\ row.epoch \in Int
      /\ live \in Snapshots /\ epoch \in Int /\ -2 \in DOMAIN Pipe /\ Pipe[-2] = running
  BY <1>2, RunningFacts
<1>5. IsSave(running) /\ ~IsExit(running) BY <1>2, <1>4, KindFacts DEF IsExit
<1>6. OwnsRow(running) => row'.snap = running.snap /\ running.epoch = row.epoch
  <2>1. row \in Rows BY <1>2, InvFacts
  <2> QED BY <1>1, <2>1 DEF OwnsRow, Rows
<1>7. /\ Good(Done, row', present, epoch, live, flush, hand)
      /\ \A w \in {"sim", "hand"} : running.reply = w => Silent(Done, w)
      /\ running.reply = "hand" => \A i \in DOMAIN Done : ~IsExit(Done[i])
  BY <1>2, <1>3, <1>5, DoneFacts
<1>8. ("sim" \in who => Silent(Done, "sim")) /\ ("hand" \in who => Silent(Done, "hand"))
  BY <1>7
<1>9. /\ Good(Done, row', present, epoch, live, flush', hand') /\ hand' \in Hands
      /\ flush' = flush \/ (flush = "waiting" /\ flush' \in {"ok", "err"})
  <2>1. CASE Accepted(running)
    <3>1. FlushHears(flush, flush', who, "ok") /\ HandHears(hand, hand', who, "ok")
      BY <2>1 DEF SaveAnswers, Answer, FlushHears, HandHears
    <3>2. running.reply # "none" => OwnsRow(running)
      <4>1. running.reply # "none" => running.kind = "flush"
        BY <1>4, <1>5 DEF SavesInv, Good, Ordered, FlushesAreAwaited
      <4> QED BY <2>1, <4>1 DEF Accepted
    <3>3. ASSUME "sim" \in who, flush = "waiting" PROVE row'.epoch = epoch => row'.snap.prog = live.prog
      <4>1. running.reply = "sim" BY <3>3
      <4>2. row'.snap = running.snap BY <1>6, <3>2, <4>1
      <4>3. present = TRUE /\ running.epoch = epoch /\ running.snap.prog >= live.prog
        BY <1>4, <4>1 DEF FitsPlayer
      <4>4. AtLeast(live, running.snap) BY <1>4, <1>5, <4>3 DEF FitsPlayer
      <4>5. running.snap.prog \in Int /\ live.prog \in Int BY <1>4, PartFacts
      <4>6. live.prog >= running.snap.prog BY <4>4 DEF AtLeast
      <4>7. running.snap.prog = live.prog BY <4>3, <4>5, <4>6
      <4> QED BY <4>2, <4>7
    <3>4. ASSUME "hand" \in who, hand # None
          PROVE  /\ AtLeast(row'.snap, hand.snap)
                 /\ hand.kind = "select" => /\ hand.epoch = row'.epoch
                                            /\ \A i \in DOMAIN Done : ~IsExit(Done[i])
                 /\ hand.kind # "select" => hand.epoch < row'.epoch
      <4>1. running.reply = "hand" BY <3>4
      <4>2. row'.snap = running.snap /\ running.epoch = row.epoch BY <1>6, <3>2, <4>1
      <4>3. running.epoch = hand.epoch /\ AtLeast(running.snap, hand.snap) /\ hand.kind = "select"
        BY <1>4, <1>5, <4>1 DEF FitsHand
      <4> QED BY <1>3, <1>7, <4>1, <4>2, <4>3
    <3> HIDE DEF who
    <3>5. /\ Good(Done, row', present, epoch, live, flush', hand') /\ hand' \in Hands
          /\ flush' = flush \/ (flush = "waiting" /\ flush' = "ok")
      BY <1>7, <1>8, <3>1, <3>3, <3>4, OkIsHeard
    <3> QED BY <3>5
  <2>2. CASE ~Accepted(running)
    <3>1. FlushHears(flush, flush', who, "err") /\ HandHears(hand, hand', who, "err")
      BY <2>2 DEF SaveAnswers, Answer, FlushHears, HandHears
    <3> HIDE DEF who
    <3>2. /\ Good(Done, row', present, epoch, live, flush', hand') /\ hand' \in Hands
          /\ flush' = flush \/ (flush = "waiting" /\ flush' = "err")
      BY <1>7, <1>8, <3>1, ErrIsHeard
    <3> QED BY <3>2
  <2> QED BY <2>1, <2>2
<1>10. Pipe' = Done BY <1>1 DEF Pipe, Done
<1>11. TypeOK'
  <2>1. flush' \in {"none", "waiting", "ok", "err"} BY <1>2, <1>9 DEF TypeOK
  <2> QED BY <1>1, <1>2, <1>3, <1>9, <2>1 DEF TypeOK, Hands, Rows
<1>12. StageFits' BY <1>1, <1>9 DEF SavesInv, StageFits
<1>13. Covered'
  <2> SUFFICES ASSUME present = TRUE, row.epoch = epoch, unheard = FALSE, ~IsExit(exit),
                      dirty # TRUE, fact # TRUE, flush' # "err"
               PROVE  AtLeast(row'.snap, live) \/ Holds(Pipe', epoch, live)
    BY <1>1, <1>3 DEF Covered
  <2>1. flush # "err" BY <1>9
  <2>2. AtLeast(row.snap, live) \/ Holds(Pipe, epoch, live)
    BY <1>5, <2>1 DEF SavesInv, Covered
  <2>3. row'.snap \in Snapshots BY <1>3, PartFacts
  <2>4. CASE AtLeast(row.snap, live) BY <1>3, <1>4, <2>3, <2>4, AtLeastFacts
  <2>5. CASE Holds(Pipe, epoch, live)
    <3>1. chan' \in Seq(Requests) BY <1>1, <1>2, InvFacts
    <3>2. \/ Has(running, epoch, live) \/ Has(exit, epoch, live) \/ Has(save, epoch, live)
          \/ \E i \in 1 .. Len(chan) : Has(chan[i], epoch, live)
      BY <1>2, <2>5, <3>1, PipeHolds
    <3>3. CASE Has(running, epoch, live)
      <4>1. OwnsRow(running) BY <3>3 DEF Has, OwnsRow
      <4> QED BY <1>6, <3>3, <4>1 DEF Has
    <3>4. CASE \/ Has(exit, epoch, live) \/ Has(save, epoch, live)
               \/ \E i \in 1 .. Len(chan) : Has(chan[i], epoch, live)
      BY <1>1, <1>2, <3>1, <3>4, PipeHolds
    <3> QED BY <3>2, <3>3, <3>4
  <2> QED BY <2>2, <2>4, <2>5
<1> QED BY <1>1, <1>9, <1>10, <1>11, <1>12, <1>13 DEF SavesInv

\* A save fails.
LEMMA SaveFailsKeeps == SavesInv /\ SaveFails => SavesInv'
<1> SUFFICES ASSUME SavesInv, SaveFails PROVE SavesInv'
  OBVIOUS
<1> DEFINE who == {running.reply}
<1>1. /\ UNCHANGED <<stage, present, epoch, live, fact, unsynced, dirty, due, intents,
                     chan, exit>>
      /\ RunningSave /\ running' = None
      /\ row' = row \/ (OwnsRow(running) /\ row' = [row EXCEPT !.snap = running.snap])
      /\ unheard' = (unheard \/ (present /\ running.reply = "gone"))
  BY DEF SaveFails, simVars
<1>2. TypeOK /\ running # None /\ running.kind # "exit" BY <1>1 DEF SavesInv, RunningSave
<1>3. /\ Good(Pipe, row', present, epoch, live, flush, hand)
      /\ row' \in Rows /\ row'.epoch = row.epoch /\ AtLeast(row'.snap, row.snap)
  BY <1>1, SaveIsWritten
<1>4. /\ running \in Requests /\ IsRequest(running)
      /\ FitsPlayer(running, present, epoch, live, flush) /\ FitsHand(running, hand)
      /\ running.snap \in Snapshots /\ running.epoch \in Int
      /\ row.snap \in Snapshots /\ row.epoch \in Int
      /\ live \in Snapshots /\ epoch \in Int /\ -2 \in DOMAIN Pipe /\ Pipe[-2] = running
  BY <1>2, RunningFacts
<1>5. IsSave(running) /\ ~IsExit(running) /\ running \in Saves
  BY <1>2, <1>4, KindFacts DEF IsExit
<1>6. /\ chan \in Seq(Requests) /\ exit \in Requests /\ save \in Requests /\ None \in Requests
      /\ ~IsRequest(None) /\ None.kind = "none" /\ hand \in Hands /\ Len(chan) \in Nat
      /\ DOMAIN Pipe = -2 .. Len(chan) /\ Pipe[0] = save
  BY <1>2, InvFacts DEF Requests, IsRequest, None
<1>7. /\ Good(Done, row', present, epoch, live, flush, hand)
      /\ \A w \in {"sim", "hand"} : running.reply = w => Silent(Done, w)
  BY <1>2, <1>3, DoneFacts
<1>8. unheard' \in BOOLEAN /\ (unheard = TRUE => unheard' = TRUE)
      /\ (present = TRUE /\ running.reply = "gone" => unheard' = TRUE)
  BY <1>1
\* What is left to show of the invariant.
<1>9. ASSUME save' \in {None} \cup Saves, exit = None \/ save' = save, hand' \in Hands,
             flush' = flush \/ (flush = "waiting" /\ flush' = "err"),
             Good(Pipe', row', present, epoch, live, flush', hand'),
             Has(save, epoch, live) => Has(save', epoch, live),
             /\ present = TRUE /\ Has(running, epoch, live) /\ unheard' = FALSE /\ ~IsExit(exit)
                => Has(save', epoch, live) \/ flush' = "err"
      PROVE  SavesInv'
  <2>1. TypeOK'
    <3>1. flush' \in {"none", "waiting", "ok", "err"} BY <1>2, <1>9 DEF TypeOK
    <3> QED BY <1>1, <1>2, <1>3, <1>8, <1>9, <3>1 DEF TypeOK, Hands, Rows
  <2>2. StageFits'
    <3>1. exit'.kind = "none" \/ save'.kind = "none"
      BY <1>1, <1>6, <1>9 DEF SavesInv, StageFits
    <3> QED BY <1>1, <1>9, <3>1 DEF SavesInv, StageFits
  <2>3. Covered'
    <3> SUFFICES ASSUME present = TRUE, row.epoch = epoch, unheard' = FALSE, ~IsExit(exit),
                        dirty # TRUE, fact # TRUE, flush' # "err"
                 PROVE  AtLeast(row'.snap, live) \/ Holds(Pipe', epoch, live)
      BY <1>1, <1>3 DEF Covered
    <3>1. flush # "err" /\ unheard = FALSE BY <1>2, <1>8, <1>9 DEF TypeOK
    <3>2. AtLeast(row.snap, live) \/ Holds(Pipe, epoch, live)
      BY <1>5, <3>1 DEF SavesInv, Covered
    <3>3. row'.snap \in Snapshots BY <1>3, PartFacts
    <3>4. CASE AtLeast(row.snap, live) BY <1>3, <1>4, <3>3, <3>4, AtLeastFacts
    <3>5. CASE Holds(Pipe, epoch, live)
      <4>1. chan' \in Seq(Requests) BY <1>1, <1>6
      <4>2. \/ Has(running, epoch, live) \/ Has(exit, epoch, live) \/ Has(save, epoch, live)
            \/ \E i \in 1 .. Len(chan) : Has(chan[i], epoch, live)
        BY <1>2, <3>5, <4>1, PipeHolds
      <4>3. \/ Has(exit', epoch, live) \/ Has(save', epoch, live)
            \/ \E i \in 1 .. Len(chan') : Has(chan'[i], epoch, live)
        BY <1>1, <1>9, <4>2
      <4> QED BY <1>2, <4>1, <4>3, PipeHolds
    <3> QED BY <3>2, <3>4, <3>5
  <2> QED BY <1>1, <1>9, <2>1, <2>2, <2>3 DEF SavesInv
<1>10. CASE running.kind = "autosave" /\ exit = None /\ save = None
  <2>1. save' = running /\ UNCHANGED <<flush, hand>> BY <1>10 DEF SaveFails
  <2> DEFINE g == [i \in Int |-> IF i = 0 THEN -2 ELSE i]
  <2>2. g[0] = -2 /\ \A i \in Nat \ {0} : g[i] = i OBVIOUS
  <2> HIDE DEF g
  <2>3. DrawnBy(g, PipeOf(None, None, running, chan), PipeOf(running, exit, save, chan))
    BY <1>4, <1>6, <2>2, LaneDraws
  <2>4. Pipe' = PipeOf(None, None, running, chan) BY <1>1, <1>10, <2>1 DEF Pipe
  <2>5. DrawnBy(g, Pipe', Pipe) BY <2>3, <2>4 DEF Pipe
  <2>6. Good(Pipe', row', present, epoch, live, flush, hand) BY <1>3, <2>5, DrawnIsGood
  <2> QED BY <1>5, <1>6, <1>9, <1>10, <2>1, <2>6, HasFacts
<1>11. CASE running.kind = "autosave" /\ ~(exit = None /\ save = None)
  <2>1. save' = save /\ UNCHANGED <<flush, hand>> BY <1>11 DEF SaveFails
  <2>2. Pipe' = Done BY <1>1, <2>1 DEF Pipe, Done
  <2>3. ASSUME present = TRUE, Has(running, epoch, live), ~IsExit(exit) PROVE Has(save, epoch, live)
    <3>1. exit = None BY <1>2, <2>3 DEF TypeOK, Exits, IsExit
    <3>2. IsSave(save) /\ IsRequest(save) BY <1>2, <1>6, <1>11, <3>1, KindFacts DEF TypeOK
    <3>3. 0 \in DOMAIN Pipe BY <1>6
    <3>4. Newer(save, running)
      BY <1>4, <1>5, <1>6, <3>2, <3>3 DEF SavesInv, Good, Ordered, SavesInOrder
    <3>5. FitsPlayer(save, present, epoch, live, flush)
      BY <1>6, <3>2, <3>3 DEF SavesInv, Good, AllFit
    <3>6. save.epoch \in Int /\ save.snap \in Snapshots BY <1>6, <3>2, PartFacts
    <3>7. save.epoch <= epoch /\ save.epoch >= epoch BY <2>3, <3>4, <3>5 DEF FitsPlayer, Newer, Has
    <3>8. save.epoch = epoch BY <1>4, <3>6, <3>7
    <3>9. AtLeast(save.snap, running.snap) /\ AtLeast(running.snap, live)
      BY <2>3, <3>4, <3>8 DEF Newer, Has
    <3>10. AtLeast(save.snap, live) BY <1>4, <3>6, <3>9, AtLeastFacts
    <3> QED BY <3>2, <3>8, <3>10 DEF Has
  <2>4. save' \in {None} \cup Saves BY <1>2, <2>1 DEF TypeOK
  <2> QED BY <1>6, <1>7, <1>9, <2>1, <2>2, <2>3, <2>4
<1>12. CASE running.kind # "autosave"
  <2>1. /\ save' = save
        /\ FlushHears(flush, flush', who, "err") /\ HandHears(hand, hand', who, "err")
    BY <1>12 DEF SaveFails, Answer, FlushHears, HandHears
  <2>2. Pipe' = Done BY <1>1, <2>1 DEF Pipe, Done
  <2>3. ("sim" \in who => Silent(Done, "sim")) /\ ("hand" \in who => Silent(Done, "hand"))
    BY <1>7
  <2>4. ASSUME present = TRUE, unheard' = FALSE PROVE flush' = "err"
    <3>1. running.reply \in Repliers /\ running.kind = "flush" BY <1>5, <1>12 DEF Saves
    <3>2. running.reply # "none"
      BY <1>4, <1>5, <3>1 DEF SavesInv, Good, Ordered, FlushesAreAwaited
    <3>3. running.reply # "gone" BY <1>8, <2>4
    <3>4. running.reply # "hand"
      <4> SUFFICES ASSUME running.reply = "hand" PROVE FALSE
        OBVIOUS
      <4>1. hand.kind = "select" BY <1>4, <1>5 DEF FitsHand
      <4>2. HandFits(row, present, epoch, hand) BY DEF SavesInv, Good
      <4> QED BY <2>4, <4>1, <4>2 DEF HandFits
    <3>5. running.reply = "sim" BY <3>1, <3>2, <3>3, <3>4 DEF Repliers
    <3>6. flush = "waiting" BY <1>4, <3>5 DEF FitsPlayer
    <3> QED BY <2>1, <3>5, <3>6 DEF FlushHears
  <2> HIDE DEF who
  <2>5. /\ Good(Done, row', present, epoch, live, flush', hand') /\ hand' \in Hands
        /\ flush' = flush \/ (flush = "waiting" /\ flush' = "err")
    BY <1>7, <2>1, <2>3, ErrIsHeard
  <2>6. save' \in {None} \cup Saves BY <1>2, <2>1 DEF TypeOK
  <2> QED BY <1>9, <2>1, <2>2, <2>4, <2>5, <2>6
<1> QED BY <1>10, <1>11, <1>12

\* An exit is over: it committed, or it rolled back.
LEMMA ExitEndsKeeps ==
    ASSUME SavesInv, RunningExit, running' = None,
           UNCHANGED <<stage, present, epoch, live, fact, unsynced, dirty, due, intents,
                       chan, save, exit>>,
           row' \in Rows, unheard' \in BOOLEAN, hand' \in Hands,
           flush' = flush \/ (flush = "waiting" /\ flush' \in {"ok", "err"}),
           Good(Done, row', present, epoch, live, flush', hand'),
           present = TRUE => row'.epoch # epoch \/ unheard' = TRUE
    PROVE  SavesInv'
<1>1. TypeOK BY DEF SavesInv
<1>2. Pipe' = Done BY DEF Pipe, Done
<1>3. flush' \in {"none", "waiting", "ok", "err"} BY <1>1 DEF TypeOK
<1>4. TypeOK' BY <1>1, <1>3 DEF TypeOK, Hands, Rows
<1>5. StageFits' BY DEF SavesInv, StageFits
<1>6. Covered' BY DEF Covered
<1> QED BY <1>2, <1>4, <1>5, <1>6 DEF SavesInv

\* An exit commits.
LEMMA ExitCommitsKeeps == SavesInv /\ ExitCommits => SavesInv'
<1> SUFFICES ASSUME SavesInv, ExitCommits PROVE SavesInv'
  OBVIOUS
<1> DEFINE who == {running.reply}
<1>1. /\ UNCHANGED <<stage, present, epoch, live, fact, unsynced, dirty, due, intents,
                     chan, save, exit, unheard>>
      /\ RunningExit /\ running' = None /\ OwnsRow(running) /\ row.epoch < MaxEpoch
      /\ row' = [snap |-> running.snap, epoch |-> row.epoch + 1]
  BY DEF ExitCommits, simVars
<1>2. TypeOK /\ running # None /\ IsExit(running) BY <1>1 DEF SavesInv, RunningExit, IsExit
<1>3. /\ IsRequest(running) /\ FitsHand(running, hand)
      /\ running.snap \in Snapshots /\ running.epoch \in Int /\ row.epoch \in Int
      /\ row.epoch \in Epochs /\ epoch \in Int /\ -2 \in DOMAIN Pipe /\ Pipe[-2] = running
  BY <1>2, RunningFacts
<1>4. running.epoch = row.epoch BY <1>1 DEF OwnsRow
<1>5. row' \in Rows /\ row'.epoch = row.epoch + 1 /\ row'.snap = running.snap
  <2>1. row.epoch + 1 \in Epochs BY <1>1, <1>3, SavesAssumption DEF Epochs
  <2> QED BY <1>1, <1>3, <2>1 DEF Rows
<1>6. Good(Pipe, row', present, epoch, live, flush, hand)
  BY <1>2, <1>3, <1>4, <1>5, ExitIsCommitted DEF SavesInv
<1>7. /\ Good(Done, row', present, epoch, live, flush, hand)
      /\ \A w \in {"sim", "hand"} : running.reply = w => Silent(Done, w)
  BY <1>2, <1>6, DoneFacts
<1>8. ("sim" \in who => Silent(Done, "sim")) /\ ("hand" \in who => Silent(Done, "hand"))
  BY <1>7
<1>9. "sim" \notin who
  <2>1. running \in Exits BY <1>2, RunningFacts, KindFacts
  <2> QED BY <2>1 DEF Exits
<1>10. ASSUME "hand" \in who, hand # None
       PROVE  /\ AtLeast(row'.snap, hand.snap)
              /\ hand.kind = "select" => /\ hand.epoch = row'.epoch
                                         /\ \A i \in DOMAIN Done : ~IsExit(Done[i])
              /\ hand.kind # "select" => hand.epoch < row'.epoch
  <2>1. running.reply = "hand" BY <1>10
  <2>2. running.epoch = hand.epoch /\ AtLeast(running.snap, hand.snap) /\ hand.kind # "select"
    BY <1>2, <1>3, <2>1 DEF FitsHand
  <2> QED BY <1>3, <1>4, <1>5, <2>2
<1>11. PICK ok \in BOOLEAN : Answer(who, ok) BY DEF ExitCommits
<1>12. /\ Good(Done, row', present, epoch, live, flush', hand') /\ hand' \in Hands
       /\ flush' = flush \/ (flush = "waiting" /\ flush' \in {"ok", "err"})
  <2>1. CASE ok = TRUE
    <3>1. FlushHears(flush, flush', who, "ok") /\ HandHears(hand, hand', who, "ok")
      BY <1>11, <2>1 DEF Answer, FlushHears, HandHears
    <3> HIDE DEF who
    <3>2. /\ Good(Done, row', present, epoch, live, flush', hand') /\ hand' \in Hands
          /\ flush' = flush \/ (flush = "waiting" /\ flush' = "ok")
      BY <1>7, <1>8, <1>9, <1>10, <3>1, OkIsHeard
    <3> QED BY <3>2
  <2>2. CASE ok = FALSE
    <3>1. FlushHears(flush, flush', who, "err") /\ HandHears(hand, hand', who, "err")
      BY <1>11, <2>2 DEF Answer, FlushHears, HandHears
    <3> HIDE DEF who
    <3>2. /\ Good(Done, row', present, epoch, live, flush', hand') /\ hand' \in Hands
          /\ flush' = flush \/ (flush = "waiting" /\ flush' = "err")
      BY <1>7, <1>8, <3>1, ErrIsHeard
    <3> QED BY <3>2
  <2> QED BY <2>1, <2>2
<1>13. present = TRUE => row'.epoch # epoch
  <2>1. PlayerFits(row, present, epoch, live, flush) BY DEF SavesInv, Good
  <2>2. present = TRUE => epoch <= row.epoch BY <2>1 DEF PlayerFits
  <2> QED BY <1>3, <1>5, <2>2
<1>14. unheard' \in BOOLEAN BY <1>1, <1>2 DEF TypeOK
<1> QED BY <1>1, <1>5, <1>12, <1>13, <1>14, ExitEndsKeeps

\* An exit rolls back.
LEMMA ExitFailsKeeps == SavesInv /\ ExitFails => SavesInv'
<1> SUFFICES ASSUME SavesInv, ExitFails PROVE SavesInv'
  OBVIOUS
<1> DEFINE who == {running.reply}
<1>1. /\ UNCHANGED <<stage, present, epoch, live, fact, unsynced, dirty, due, intents,
                     chan, save, exit, row>>
      /\ RunningExit /\ running' = None /\ unheard' = present
      /\ FlushHears(flush, flush', who, "err") /\ HandHears(hand, hand', who, "err")
  BY DEF ExitFails, simVars, Answer, FlushHears, HandHears
<1>2. TypeOK /\ running # None BY <1>1 DEF SavesInv, RunningExit
<1>3. /\ Good(Done, row, present, epoch, live, flush, hand)
      /\ \A w \in {"sim", "hand"} : running.reply = w => Silent(Done, w)
  BY <1>2, DoneFacts DEF SavesInv
<1>4. ("sim" \in who => Silent(Done, "sim")) /\ ("hand" \in who => Silent(Done, "hand"))
  BY <1>3
<1> HIDE DEF who
<1>5. /\ Good(Done, row, present, epoch, live, flush', hand') /\ hand' \in Hands
      /\ flush' = flush \/ (flush = "waiting" /\ flush' = "err")
  BY <1>1, <1>3, <1>4, ErrIsHeard
<1>6. row' \in Rows /\ unheard' \in BOOLEAN BY <1>1, <1>2, InvFacts DEF TypeOK
<1>7. Good(Done, row', present, epoch, live, flush', hand') BY <1>1, <1>5
<1> QED BY <1>1, <1>5, <1>6, <1>7, ExitEndsKeeps

-----------------------------------------------------------------------------
(* The theorems.                                                           *)

\* The invariant holds when the player has just entered.
LEMMA InitIsGood == Init => SavesInv
<1> SUFFICES ASSUME Init PROVE SavesInv
  OBVIOUS
<1>1. /\ stage = "frame" /\ present = TRUE /\ live = Nothing /\ epoch = 0
      /\ fact = FALSE /\ unsynced = FALSE /\ dirty = FALSE /\ due \in 1 .. Interval
      /\ intents = 0 /\ flush = "none" /\ hand = None /\ chan = <<>> /\ save = None
      /\ exit = None /\ running = None /\ row = [snap |-> live, epoch |-> 0] /\ unheard = FALSE
  BY DEF Init
<1>2. live \in Snapshots /\ epoch \in Epochs /\ due \in Nat /\ intents \in 0 .. IntentCap
  BY <1>1, SavesAssumption DEF Nothing, Snapshots, Epochs
<1>3. row \in [snap : Snapshots, epoch : Epochs] /\ row.snap = live /\ row.epoch = epoch
  BY <1>1, <1>2
<1>4. chan \in Seq(Saves \cup Exits) /\ Len(chan) = 0 BY <1>1
<1>5. TypeOK
  <2>1. Len(chan) <= QueueCap BY <1>4, SavesAssumption
  <2>2. /\ present \in BOOLEAN /\ fact \in BOOLEAN /\ unsynced \in BOOLEAN
        /\ dirty \in BOOLEAN /\ unheard \in BOOLEAN
    BY <1>1
  <2> QED BY <1>1, <1>2, <1>3, <1>4, <2>1, <2>2 DEF TypeOK
<1>6. /\ DOMAIN Pipe = -2 .. 0 /\ Pipe[-2] = None /\ Pipe[-1] = None /\ Pipe[0] = None
  BY <1>1, <1>4, <1>5, InvFacts
<1>7. \A i \in DOMAIN Pipe : Pipe[i] = None
  <2> SUFFICES ASSUME NEW i \in DOMAIN Pipe PROVE Pipe[i] = None
    OBVIOUS
  <2>1. i = -2 \/ i = -1 \/ i = 0 BY <1>6
  <2> QED BY <1>6, <2>1
<1>8. ~IsRequest(None) /\ ~IsSave(None) /\ ~IsExit(None) /\ None \in Requests /\ None.kind = "none"
  BY DEF IsRequest, IsSave, IsExit, None, Requests
<1>9. Typed(Pipe, row, epoch, live, hand)
  BY <1>1, <1>2, <1>3, <1>6, <1>7, <1>8 DEF Typed, Rows, Hands
<1>10. Ordered(Pipe)
  <2>1. \A i \in DOMAIN Pipe : ~IsSave(Pipe[i]) /\ \A w : ~Asks(Pipe[i], w)
    BY <1>7, <1>8 DEF Asks
  <2> QED BY <2>1 DEF Ordered, SavesInOrder, AnswersAreUnique, SelectIsLast, FlushesAreAwaited
<1>11. AllFit(Pipe, row, present, epoch, live, flush, hand) BY <1>7, <1>8 DEF AllFit
<1>12. AtLeast(row.snap, live) /\ AtLeast(live, row.snap) /\ epoch \in Int
  BY <1>2, <1>3, AtLeastFacts, PartFacts
<1>13. PlayerFits(row, present, epoch, live, flush) BY <1>1, <1>3, <1>12 DEF PlayerFits
<1>14. HandFits(row, present, epoch, hand) BY <1>1, <1>8 DEF HandFits
<1>15. StageFits BY <1>1, <1>8 DEF StageFits
<1>16. Covered BY <1>12 DEF Covered
<1> QED BY <1>5, <1>9, <1>10, <1>11, <1>13, <1>14, <1>15, <1>16 DEF SavesInv, Good

\* Every step keeps the invariant.
LEMMA StepIsGood == SavesInv /\ [Next]_vars => SavesInv'
<1> SUFFICES ASSUME SavesInv, [Next]_vars PROVE SavesInv'
  OBVIOUS
<1>1. CASE UNCHANGED vars
  <2>1. Pipe' = Pipe BY <1>1 DEF vars, Pipe
  <2> QED BY <1>1, <2>1 DEF vars, SavesInv, TypeOK, StageFits, Covered
<1>2. CASE Sim
  BY <1>2, IntentArrivesKeeps, CaptureKeeps, LeaveKeeps, FinalizeKeeps, TakeIntentsKeeps,
     ChangeKeeps, ProjectKeeps, AutosaveKeeps DEF Sim
<1>3. CASE Handler
  BY <1>3, HandSendsKeeps, HandTimesOutKeeps, HandoffEndsKeeps, SelectFailsKeeps, ReenterKeeps
  DEF Handler
<1>4. CASE Worker
  BY <1>4, TakeKeeps, DispatchKeeps, SaveAnswersKeeps, SaveFailsKeeps, ExitCommitsKeeps,
     ExitFailsKeeps DEF Worker
<1>5. CASE Lost BY <1>1, <1>5 DEF Lost
<1> QED BY <1>1, <1>2, <1>3, <1>4, <1>5 DEF Next

\* In every reachable state of the map thread, the handler and the worker the
\* requests on their way are in order, fit the row, the player and whoever
\* waits for them, and no change is without a mark or a request.
THEOREM SavesInvariant == Spec => []SavesInv
<1>1. Init => SavesInv BY InitIsGood
<1>2. SavesInv /\ [Next]_vars => SavesInv' BY StepIsGood
<1> QED BY <1>1, <1>2, PTL DEF Spec

\* The state keeps its type.
THEOREM SavesTypes == Spec => []TypeOK
<1>1. SavesInv => TypeOK BY DEF SavesInv
<1> QED BY <1>1, SavesInvariant, PTL

\* A core stat change whose flush was answered Ok is in the row of its epoch,
\* also when the worker answered for a merged save (finalize_pending_save).
THEOREM FlushesAreDurable == Spec => []FlushedIsDurable
<1>1. SavesInv => FlushedIsDurable
  BY DEF SavesInv, Good, PlayerFits, FlushedIsDurable
<1> QED BY <1>1, SavesInvariant, PTL

\* Whoever left and was told that it was saved comes back to everything it
\* had when its snapshot was taken (leave_player_and_snapshot, the handoff).
THEOREM PlayersComeBackToAll == Spec => []ComesBackToAll
<1>1. ASSUME SavesInv PROVE ComesBackToAll
  <2>1. hand \in Hands BY <1>1, InvFacts DEF SavesInv
  <2>2. hand # None => hand.kind # "none" BY <2>1 DEF Hands
  <2> QED BY <1>1, <2>2 DEF SavesInv, Good, HandFits, ComesBackToAll
<1> QED BY <1>1, SavesInvariant, PTL

\* Between two ticks every change is in the row, held by the worker, or
\* marked for a later autosave (process_player_dirty_events,
\* enqueue_due_autosaves, finalize_pending_save).
THEOREM NoChangeIsForgotten == Spec => []NothingForgotten
<1>1. ASSUME SavesInv PROVE NothingForgotten
  <2> SUFFICES ASSUME present, row.epoch = epoch, ~unheard, ~ExitPending
               PROVE  \/ dirty \/ fact \/ flush = "err"
                      \/ AtLeast(row.snap, live)
                      \/ \E r \in Held : AtLeast(r.snap, live)
    BY DEF NothingForgotten
  <2>1. exit = None /\ ~(running # None /\ running.kind = "exit")
    BY DEF ExitPending, RunningExit
  <2>2. ~IsExit(exit) /\ ~IsExit(running) BY <2>1 DEF IsExit, None
  <2>3. present = TRUE /\ unheard = FALSE BY <1>1 DEF SavesInv, TypeOK
  <2>4. \/ dirty = TRUE \/ fact = TRUE \/ flush = "err" \/ AtLeast(row.snap, live)
        \/ Holds(Pipe, epoch, live)
    BY <1>1, <2>2, <2>3 DEF SavesInv, Covered
  <2>5. ASSUME Holds(Pipe, epoch, live) PROVE \E r \in Held : AtLeast(r.snap, live)
    <3>1. chan \in Seq(Requests) /\ DOMAIN chan = 1 .. Len(chan)
      BY <1>1, InvFacts DEF SavesInv
    <3>2. \/ Has(running, epoch, live) \/ Has(exit, epoch, live) \/ Has(save, epoch, live)
          \/ \E i \in 1 .. Len(chan) : Has(chan[i], epoch, live)
      BY <2>5, <3>1, HoldsWhere DEF Pipe
    <3>3. PICK r \in {chan[i] : i \in DOMAIN chan} \cup {save, running} : Has(r, epoch, live)
      BY <2>1, <3>1, <3>2, HasFacts
    <3>4. r # None /\ r.kind # "exit" /\ r.epoch = epoch /\ AtLeast(r.snap, live)
      BY <3>3 DEF Has, IsSave, None
    <3>5. r \in Held BY <3>3, <3>4 DEF Held
    <3> QED BY <3>4, <3>5
  <2> QED BY <2>4, <2>5
<1> QED BY <1>1, SavesInvariant, PTL

\* Within one epoch the row's content never goes back, whatever the worker
\* merged, retried, refused or answered late (save_player_snapshot).
THEOREM RowsNeverRegress == Spec => ContentNeverRegresses
<1>1. ASSUME SavesInv, [Next]_vars
      PROVE  [row'.epoch = row.epoch => AtLeast(row'.snap, row.snap)]_vars
  <2> SUFFICES ASSUME row'.epoch = row.epoch PROVE AtLeast(row'.snap, row.snap)
    OBVIOUS
  <2>1. row \in Rows /\ row.snap \in Snapshots /\ row.epoch \in Int
    BY <1>1, InvFacts, PartFacts DEF SavesInv
  <2>2. AtLeast(row.snap, row.snap) BY <2>1, AtLeastFacts
  <2>3. CASE UNCHANGED vars \/ Sim \/ Handler \/ Lost \/ Take \/ Dispatch \/ ExitFails
    <3>1. row' = row
      BY <2>3 DEF vars, Sim, Handler, Lost, IntentArrives, CapturePlayerSnapshot,
         LeaveAndSnapshot, BeginTick, TakeIntents, FinalizeAgain, Change, Project,
         EnqueueDueAutosaves, HandSends, HandTimesOut, HandoffEnds, SelectFails, Reenter,
         Take, Dispatch, ExitFails
    <3> QED BY <2>2, <3>1
  <2>4. CASE SaveAnswers \/ SaveFails
    <3>1. /\ RunningSave
          /\ row' = row \/ (OwnsRow(running) /\ row' = [row EXCEPT !.snap = running.snap])
      BY <2>4 DEF SaveAnswers, SaveFails
    <3> QED BY <1>1, <3>1, SaveIsWritten
  <2>5. CASE ExitCommits
    <3>1. row' = [snap |-> running.snap, epoch |-> row.epoch + 1] BY <2>5 DEF ExitCommits
    <3> QED BY <2>1, <3>1
  <2> QED BY <1>1, <2>3, <2>4, <2>5 DEF Next, Worker
<1> QED BY <1>1, SavesInvariant, PTL DEF Spec, ContentNeverRegresses
================================================================================
