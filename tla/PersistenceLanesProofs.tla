----------------------- MODULE PersistenceLanesProofs -----------------------
(***************************************************************************)
(* Proofs about the persistence worker, for every value of the constants.  *)
(***************************************************************************)
EXTENDS PersistenceLanes, FiniteSetTheorems, TLAPS

-----------------------------------------------------------------------------
(* Helper operators have the types the worker relies on.                   *)

\* What a request leaves in a lane is again a pending operation.
LEMMA CoalesceType ==
    ASSUME NEW old \in Pending, NEW r \in Requests
    PROVE  Coalesce(old, r) \in Pending
BY LanesAssumption DEF Coalesce, Pending, Requests, ReplyOf, Versions, Kinds

\* Using or dropping reply channels keeps the table of replies well typed.
LEMMA SettleType ==
    ASSUME reply \in [Players -> [Versions -> ReplyStates]],
           NEW p \in Players, NEW rs, NEW st \in ReplyStates
    PROVE  Settle(p, rs, st) \in [Players -> [Versions -> ReplyStates]]
BY DEF Settle

\* The empty Option and the absent lane are well typed.
LEMMA NothingType == Nothing \in Pending /\ IdleLane \in Lanes
BY LanesAssumption DEF Nothing, IdleLane, Pending, Lanes, Kinds, Epochs

-----------------------------------------------------------------------------
(* Pending operations are well formed: only ver = 0 is the empty Option,   *)
(* the two Options hold operations of their kind and never both hold one.  *)
WellFormed ==
  /\ \A o \in inFlight : o.kind = "autosave" => o.reply = 0
  /\ \A p \in Players :
        LET l == lane[p] IN
        /\ l.save.ver = 0 => l.save = Nothing
        /\ l.exit.ver = 0 => l.exit = Nothing
        /\ l.save.kind # "exit"
        /\ l.exit # Nothing => l.exit.kind = "exit" /\ l.save = Nothing
        /\ l.save.kind = "autosave" => l.save.reply = 0

\* The lanes and operations of a step of the worker are well typed and well
\* formed.
Shape == TypeOK /\ WellFormed

\* What the worker spawns for a ready lane is an operation.
LEMMA SpawnedType ==
    ASSUME Shape, NEW p \in Players, Ready(lane[p])
    PROVE  Spawned(p) \in Ops
<1>1. lane[p] \in Lanes /\ lane[p].save \in Pending /\ lane[p].exit \in Pending
  BY DEF Shape, TypeOK, Lanes
<1>2. NextPending(lane[p]) \in Pending /\ NextPending(lane[p]) # Nothing
  BY <1>1 DEF Ready, NextPending
<1>3. NextPending(lane[p]).ver # 0
  BY <1>1, <1>2 DEF Shape, WellFormed, NextPending
<1> QED BY <1>2, <1>3, LanesAssumption DEF Spawned, Ops, Pending, Versions

\* A lane after a completed operation.
LEMMA AfterCompletionType ==
    ASSUME NEW l \in Lanes, NEW o \in Ops
    PROVE  AfterCompletion(l, o) \in Lanes
<1>1. [kind |-> o.kind, ver |-> o.ver, epoch |-> o.epoch, reply |-> o.reply]
        \in Pending
  BY LanesAssumption DEF Ops, Pending, Versions
<1> QED BY <1>1, NothingType DEF AfterCompletion, Lanes

\* Finishing an operation keeps the JoinSet well typed.
LEMMA FinishType ==
    ASSUME inFlight \in SUBSET Ops, NEW o \in inFlight,
           NEW ph \in {"running", "ok", "err"}, Finish(o, ph)
    PROVE  inFlight' \in SUBSET Ops
BY DEF Finish, Ops

\* A request that is received is well typed, and so is the queue it leaves.
LEMMA HeadTail ==
    ASSUME queue \in Seq(Requests), queue # <<>>
    PROVE  /\ Head(queue) \in Requests
           /\ Tail(queue) \in Seq(Requests)
           /\ Len(Tail(queue)) = Len(queue) - 1
           /\ Head(queue) = queue[1]
           /\ \A i \in 1 .. Len(queue) - 1 : Tail(queue)[i] = queue[i + 1]
OBVIOUS

\* Every action of the worker, its requesters and the database keeps the types.
LEMMA TypeStep == Shape /\ [Next]_vars => TypeOK'
<1> SUFFICES ASSUME Shape, [Next]_vars PROVE TypeOK'
  OBVIOUS
<1> USE LanesAssumption
<1>0. TypeOK BY DEF Shape
<1>1. ASSUME NEW p \in Players, NEW k \in Kinds, Submit(p, k) PROVE TypeOK'
  <2> DEFINE v == latest[p].ver + 1
             rq == [player |-> p, kind |-> k, ver |-> v, epoch |-> owner[p]]
  <2>1. v \in Versions /\ owner[p] \in Epochs
    BY <1>0, <1>1 DEF TypeOK, Submit, Versions
  <2>2. queue' \in Seq(Requests)
    <3>1. rq \in Requests BY <2>1 DEF Requests
    <3>2. queue' = Append(queue, rq) BY <1>1 DEF Submit
    <3> QED BY <1>0, <3>1, <3>2 DEF TypeOK
  <2>3. latest' \in [Players -> [ver : 0 .. MaxSubmits, epoch : Epochs]]
    BY <1>0, <1>1, <2>1 DEF TypeOK, Submit, Versions
  <2>4. reply' \in [Players -> [Versions -> ReplyStates]]
    BY <1>0, <1>1, <2>1 DEF TypeOK, Submit, ReplyStates
  <2> QED BY <1>0, <1>1, <2>2, <2>3, <2>4 DEF TypeOK, Submit
<1>2. CASE DropSenders BY <1>0, <1>2 DEF TypeOK, DropSenders
<1>3. ASSUME NEW p \in Players, Reload(p) PROVE TypeOK'
  BY <1>0, <1>3 DEF TypeOK, Reload
<1>4. ASSUME NEW p \in Players, OwnershipMoves(p) PROVE TypeOK'
  <2> DEFINE R == [ver : 0 .. MaxSubmits, epoch : Epochs]
  <2>1. row \in [Players -> R] BY <1>0 DEF TypeOK
  <2>2. row[p].epoch < MaxEpoch /\ row' = [row EXCEPT ![p].epoch = @ + 1]
    BY <1>4 DEF OwnershipMoves
  <2>3. ASSUME NEW x \in R, x.epoch < MaxEpoch PROVE [x EXCEPT !.epoch = @ + 1] \in R
    BY <2>3 DEF Epochs
  <2>4. row' \in [Players -> R] BY <2>1, <2>2, <2>3
  <2> QED BY <1>0, <1>4, <2>4 DEF TypeOK, OwnershipMoves
<1>5. ASSUME NEW p \in Players, DeletePlayer(p) PROVE TypeOK'
  BY <1>0, <1>5 DEF TypeOK, DeletePlayer
<1>6. ASSUME NEW p \in Players, RetryElapses(p) PROVE TypeOK'
  <2>1. lane' = [lane EXCEPT ![p] = [lane[p] EXCEPT !.retry = "due"]]
    BY <1>0, <1>6 DEF TypeOK, RetryElapses
  <2>2. [lane[p] EXCEPT !.retry = "due"] \in Lanes
    <3>1. lane[p] \in Lanes BY <1>0, <1>6 DEF TypeOK
    <3> QED BY <3>1 DEF Lanes
  <2> QED BY <1>0, <1>6, <2>1, <2>2 DEF TypeOK, RetryElapses
<1>7. CASE Recv
  <2> DEFINE r == Head(queue)
  <2>1. r \in Requests /\ queue' \in Seq(Requests) /\ r.player \in Players
    BY <1>0, <1>7, HeadTail DEF TypeOK, Recv, Requests
  <2>2. lane[r.player] \in Lanes /\ lane[r.player].save \in Pending
        /\ lane[r.player].exit \in Pending
    BY <1>0, <2>1 DEF TypeOK, Lanes
  <2>3. CASE RefuseSave(r)
    <3>1. reply' \in [Players -> [Versions -> ReplyStates]]
      BY <1>0, <2>1, <2>3, SettleType DEF TypeOK, RefuseSave, ReplyStates
    <3>2. swallowed' \in [Players -> [ver : 0 .. MaxSubmits, exit : 0 .. MaxSubmits]]
      <4>1. r.ver \in 0 .. MaxSubmits /\ lane[r.player].exit.ver \in 0 .. MaxSubmits
        BY <2>1, <2>2 DEF Pending, Requests, Versions
      <4> QED BY <1>0, <2>1, <2>3, <4>1 DEF TypeOK, RefuseSave
    <3> QED BY <1>0, <1>7, <2>1, <2>3, <3>1, <3>2 DEF TypeOK, Recv, RefuseSave
  <2>4. CASE StoreSave(r)
    <3>1. reply' \in [Players -> [Versions -> ReplyStates]]
      BY <1>0, <2>1, <2>4, SettleType DEF TypeOK, StoreSave, ReplyStates
    <3>2. Coalesce(lane[r.player].save, r) \in Pending
      BY <2>1, <2>2, CoalesceType
    <3>3. lane' \in [Players -> Lanes]
      <4> DEFINE l == [lane[r.player] EXCEPT
                          !.save = Coalesce(lane[r.player].save, r),
                          !.retry = "none"]
      <4>1. lane' = [lane EXCEPT ![r.player] = l]
        BY <1>0, <2>1, <2>4 DEF TypeOK, StoreSave
      <4>2. l \in Lanes BY <2>2, <3>2 DEF Lanes
      <4> QED BY <1>0, <2>1, <4>1, <4>2 DEF TypeOK
    <3> QED BY <1>0, <1>7, <2>1, <2>4, <3>1, <3>3 DEF TypeOK, Recv, StoreSave
  <2>5. CASE StoreExit(r)
    <3>1. reply' \in [Players -> [Versions -> ReplyStates]]
      BY <1>0, <2>1, <2>5, SettleType DEF TypeOK, StoreExit, ReplyStates
    <3>2. [kind |-> "exit", ver |-> r.ver, epoch |-> r.epoch, reply |-> r.ver]
            \in Pending
      BY <2>1 DEF Pending, Requests, Versions, Kinds
    <3>3. lane' \in [Players -> Lanes]
      BY <1>0, <2>1, <2>5, <3>2, NothingType DEF TypeOK, StoreExit, Lanes
    <3> QED BY <1>0, <1>7, <2>1, <2>5, <3>1, <3>3 DEF TypeOK, Recv, StoreExit
  <2> QED BY <1>7, <2>3, <2>4, <2>5 DEF Recv
<1>8. CASE RecvClosed BY <1>0, <1>8 DEF TypeOK, RecvClosed
<1>9. CASE Dispatch
  <2>1. PICK S \in SUBSET {p \in Players : Ready(lane[p])} :
          /\ lane' = [p \in Players |->
                        IF p \in S THEN TakeNext(lane[p]) ELSE lane[p]]
          /\ inFlight' = inFlight \cup {Spawned(p) : p \in S}
    BY <1>9 DEF Dispatch, Picks
  <2>2. \A p \in S : Spawned(p) \in Ops BY SpawnedType
  <2>3. lane' \in [Players -> Lanes]
    BY <1>0, <2>1, NothingType DEF TypeOK, TakeNext, Lanes
  <2>4. worker' \in {"dispatch", "select", "ended", "panicked"}
    BY <1>9 DEF Dispatch
  <2>5. inFlight' \in SUBSET Ops BY <1>0, <2>1, <2>2 DEF TypeOK
  <2> QED BY <1>0, <1>9, <2>3, <2>4, <2>5 DEF TypeOK, Dispatch
<1>10. CASE RetryTimer BY <1>0, <1>10 DEF TypeOK, RetryTimer
<1>11. CASE SelectPanics BY <1>0, <1>11 DEF TypeOK, SelectPanics
<1>12. ASSUME NEW o \in inFlight, Join(o) PROVE TypeOK'
  <2>1. o \in Ops /\ o.player \in Players /\ lane[o.player] \in Lanes
        /\ o.phase \in ReplyStates /\ o.ver \in 0 .. MaxSubmits
    BY <1>0, <1>12 DEF TypeOK, Join, Ops, ReplyStates, Versions
  <2>2. lane' \in [Players -> Lanes]
    BY <1>0, <1>12, <2>1, AfterCompletionType DEF TypeOK, Join
  <2>3. reply' \in [Players -> [Versions -> ReplyStates]]
    BY <1>0, <1>12, <2>1, SettleType DEF TypeOK, Join
  <2> QED BY <1>0, <1>12, <2>1, <2>2, <2>3 DEF TypeOK, Join
<1>13. ASSUME NEW o \in inFlight, JoinPanicked(o) PROVE TypeOK'
  <2>1. o \in Ops /\ o.player \in Players
    BY <1>0 DEF TypeOK, Ops
  <2>2. reply' \in [Players -> [Versions -> ReplyStates]]
    BY <1>0, <1>13, <2>1, SettleType DEF TypeOK, JoinPanicked, ReplyStates
  <2> QED BY <1>0, <1>13, <2>2 DEF TypeOK, JoinPanicked
<1>14. ASSUME NEW o \in inFlight, DbAnswers(o) PROVE TypeOK'
  <2>1. /\ o \in Ops /\ o.player \in Players /\ o.ver \in 0 .. MaxSubmits
        /\ o.epoch \in Epochs /\ row[o.player].ver \in 0 .. MaxSubmits
        /\ row[o.player].epoch \in Epochs
    BY <1>0 DEF TypeOK, Ops, Versions
  <2>2. inFlight' \in SUBSET Ops
    BY <1>0, <1>14, FinishType DEF TypeOK, DbAnswers, SaveApplies, SaveIsStale,
       SaveFails, ExitCommits, ExitRefused, AnswerLost
  <2>3. row' \in [Players -> [ver : 0 .. MaxSubmits, epoch : Epochs]]
    <3>1. row \in [Players -> [ver : 0 .. MaxSubmits, epoch : Epochs]]
      BY <1>0 DEF TypeOK
    <3>2. CASE row' = row BY <3>1, <3>2
    <3>3. CASE row' = [row EXCEPT ![o.player].ver = o.ver]
      BY <2>1, <3>1, <3>3
    <3>4. CASE /\ row[o.player].epoch < MaxEpoch
               /\ o.epoch = row[o.player].epoch
               /\ row' = [row EXCEPT ![o.player] =
                             [ver |-> o.ver, epoch |-> o.epoch + 1]]
      <4>1. o.epoch + 1 \in Epochs BY <2>1, <3>4 DEF Epochs
      <4> QED BY <2>1, <3>1, <3>4, <4>1
    <3> QED BY <1>14, <3>2, <3>3, <3>4 DEF DbAnswers, SaveApplies, SaveIsStale,
          SaveFails, ExitCommits, ExitRefused, AnswerLost
  <2>4. DbUnchanged
    BY <1>14 DEF DbAnswers, SaveApplies, SaveIsStale, SaveFails, ExitCommits,
       ExitRefused, AnswerLost
  <2> QED BY <1>0, <2>2, <2>3, <2>4 DEF TypeOK, DbUnchanged
<1>15. CASE UNCHANGED vars BY <1>0, <1>15 DEF TypeOK, vars
<1> QED BY <1>1, <1>2, <1>3, <1>4, <1>5, <1>6, <1>7, <1>8, <1>9, <1>10, <1>11,
           <1>12, <1>13, <1>14, <1>15 DEF Next, Ended

-----------------------------------------------------------------------------
(* Well-formedness is preserved.                                           *)

\* The pending save left by a SaveSnapshot request is well formed.
LEMMA CoalesceWellFormed ==
    ASSUME NEW old \in Pending, NEW r \in Requests, r.kind # "exit",
           old.kind # "exit", old.kind = "autosave" => old.reply = 0
    PROVE  LET c == Coalesce(old, r) IN
           /\ c.ver = r.ver /\ c.ver # 0 /\ c.epoch = r.epoch
           /\ c.kind # "exit"
           /\ c.kind = "autosave" => c.reply = 0
           /\ c.reply \in {old.reply, 0, r.ver}
BY DEF Coalesce, Pending, Requests, ReplyOf, Versions, Nothing, Kinds

\* A lane whose last operation completed is well formed.
LEMMA AfterCompletionWellFormed ==
    ASSUME NEW l \in Lanes, NEW o \in Ops,
           l.save.ver = 0 => l.save = Nothing,
           l.exit.ver = 0 => l.exit = Nothing,
           l.save.kind # "exit",
           l.exit # Nothing => l.exit.kind = "exit" /\ l.save = Nothing,
           l.save.kind = "autosave" => l.save.reply = 0,
           o.kind = "autosave" => o.reply = 0
    PROVE  LET a == AfterCompletion(l, o) IN
           /\ a.save.ver = 0 => a.save = Nothing
           /\ a.exit = l.exit
           /\ a.save.kind # "exit"
           /\ a.exit # Nothing => a.exit.kind = "exit" /\ a.save = Nothing
           /\ a.save.kind = "autosave" => a.save.reply = 0
           /\ \/ a.save = l.save
              \/ /\ l.save = Nothing /\ l.exit = Nothing
                 /\ o.kind = "autosave" /\ o.phase = "err"
                 /\ a.save.ver = o.ver /\ a.save.epoch = o.epoch
                 /\ a.save.reply = o.reply
           /\ o.kind = "autosave" /\ o.phase = "err"
              /\ l.save = Nothing /\ l.exit = Nothing => a.save.ver = o.ver
           /\ ~a.inFlight
           /\ a.save = Nothing /\ a.exit = Nothing => a = IdleLane
<1> DEFINE a == AfterCompletion(l, o)
           requeue == o.kind = "autosave" /\ o.phase = "err" /\
                      l.exit = Nothing /\ l.save = Nothing
           nsave == [kind |-> o.kind, ver |-> o.ver, epoch |-> o.epoch,
                     reply |-> o.reply]
<1>1. CASE requeue
  <2>1. nsave # Nothing /\ nsave.ver # 0
    BY DEF Ops, Versions, Nothing
  <2>2. a = [l EXCEPT !.inFlight = FALSE, !.retry = "waiting", !.save = nsave]
    BY <1>1, <2>1 DEF AfterCompletion, Lanes
  <2>3. a.save = nsave /\ a.exit = l.exit /\ a.inFlight = FALSE
    BY <2>2 DEF Lanes
  <2> QED BY <1>1, <2>1, <2>3
<1>2. CASE ~requeue
  <2>1. /\ a.save = l.save /\ a.exit = l.exit /\ a.inFlight = FALSE
        /\ a.save = Nothing /\ a.exit = Nothing => a = IdleLane
    BY <1>2 DEF AfterCompletion, Lanes, IdleLane
  <2> QED BY <1>2, <2>1
<1> QED BY <1>1, <1>2

\* next_dispatch empties one of the two Options and touches nothing else.
LEMMA TakeNextEffect ==
    ASSUME NEW l \in Lanes
    PROVE  LET t == TakeNext(l) IN
           /\ t.inFlight = TRUE /\ t.retry = l.retry
           /\ t.exit = Nothing
           /\ t.save = IF l.exit # Nothing THEN l.save ELSE Nothing
BY DEF TakeNext, Lanes

\* Every action keeps the Options of the lanes well formed.
LEMMA WellFormedStep == Shape /\ [Next]_vars => WellFormed'
<1> SUFFICES ASSUME Shape, [Next]_vars PROVE WellFormed'
  OBVIOUS
<1>0. TypeOK /\ WellFormed BY DEF Shape
<1>1. CASE lane' = lane /\ inFlight' = inFlight
  BY <1>0, <1>1 DEF WellFormed
<1>2. ASSUME NEW p \in Players, RetryElapses(p) PROVE WellFormed'
  <2>1. \A q \in Players : lane'[q].save = lane[q].save /\ lane'[q].exit = lane[q].exit
    BY <1>0, <1>2 DEF TypeOK, RetryElapses, Lanes
  <2> QED BY <1>0, <1>2, <2>1 DEF WellFormed, RetryElapses
<1>3. CASE Recv
  <2> DEFINE r == Head(queue)
  <2>1. r \in Requests /\ r.player \in Players
    BY <1>0, <1>3, HeadTail DEF TypeOK, Recv, Requests
  <2>2. lane[r.player] \in Lanes /\ lane[r.player].save \in Pending
    BY <1>0, <2>1 DEF TypeOK, Lanes
  <2>3. inFlight' = inFlight BY <1>3 DEF Recv
  <2>4. CASE RefuseSave(r) BY <1>1, <2>3, <2>4 DEF RefuseSave
  <2>5. CASE StoreSave(r) /\ r.kind # "exit"
    <3> DEFINE c == Coalesce(lane[r.player].save, r)
    <3>1. /\ lane'[r.player].save = c /\ lane'[r.player].exit = Nothing
          /\ \A q \in Players : q # r.player => lane'[q] = lane[q]
      BY <1>0, <2>1, <2>2, <2>5 DEF TypeOK, StoreSave, Lanes
    <3>2. c.ver # 0 /\ c.kind # "exit" /\ (c.kind = "autosave" => c.reply = 0)
      BY <1>0, <2>1, <2>2, <2>5, CoalesceWellFormed DEF WellFormed
    <3> QED BY <1>0, <2>1, <2>3, <3>1, <3>2 DEF WellFormed
  <2>6. CASE StoreExit(r)
    <3>1. /\ lane'[r.player].save = Nothing
          /\ lane'[r.player].exit.kind = "exit" /\ lane'[r.player].exit.ver = r.ver
          /\ \A q \in Players : q # r.player => lane'[q] = lane[q]
      BY <1>0, <2>1, <2>2, <2>6 DEF TypeOK, StoreExit, Lanes
    <3>2. r.ver # 0 BY <2>1 DEF Requests, Versions
    <3> QED BY <1>0, <2>1, <2>3, <3>1, <3>2 DEF WellFormed, Nothing
  <2> QED BY <1>3, <2>4, <2>5, <2>6 DEF Recv
<1>4. CASE Dispatch
  <2>1. PICK S \in SUBSET {p \in Players : Ready(lane[p])} :
          /\ lane' = [p \in Players |->
                        IF p \in S THEN TakeNext(lane[p]) ELSE lane[p]]
          /\ inFlight' = inFlight \cup {Spawned(p) : p \in S}
    BY <1>4 DEF Dispatch, Picks
  <2>2. \A p \in Players : \/ lane'[p] = lane[p]
                           \/ /\ lane'[p].save \in {lane[p].save, Nothing}
                              /\ lane'[p].exit = Nothing
    BY <1>0, <2>1, TakeNextEffect DEF TypeOK
  <2>3. \A p \in S : Spawned(p).kind = "autosave" => Spawned(p).reply = 0
    BY <1>0, <2>1 DEF WellFormed, Spawned, NextPending, Ready
  <2>4. \A o \in inFlight' : o.kind = "autosave" => o.reply = 0
    BY <1>0, <2>1, <2>3 DEF WellFormed
  <2> QED BY <1>0, <2>2, <2>4 DEF WellFormed, Nothing
<1>5. ASSUME NEW o \in inFlight, Join(o) PROVE WellFormed'
  <2>1. o \in Ops /\ o.player \in Players /\ lane[o.player] \in Lanes
    BY <1>0, <1>5 DEF TypeOK, Ops
  <2>2. /\ lane'[o.player] = AfterCompletion(lane[o.player], o)
        /\ \A q \in Players : q # o.player => lane'[q] = lane[q]
    BY <1>0, <1>5, <2>1 DEF TypeOK, Join
  <2>3. LET a == lane'[o.player] IN
           /\ a.save.ver = 0 => a.save = Nothing
           /\ a.exit.ver = 0 => a.exit = Nothing
           /\ a.save.kind # "exit"
           /\ a.exit # Nothing => a.exit.kind = "exit" /\ a.save = Nothing
           /\ a.save.kind = "autosave" => a.save.reply = 0
    BY <1>0, <1>5, <2>1, <2>2, AfterCompletionWellFormed DEF WellFormed
  <2> QED BY <1>0, <1>5, <2>1, <2>2, <2>3 DEF WellFormed, Join
<1>6. ASSUME NEW o \in inFlight, JoinPanicked(o) PROVE WellFormed'
  BY <1>0, <1>6 DEF WellFormed, JoinPanicked
<1>7. ASSUME NEW o \in inFlight, DbAnswers(o) PROVE WellFormed'
  <2>1. PICK ph \in {"ok", "err"} : Finish(o, ph)
    BY <1>7 DEF DbAnswers, SaveApplies, SaveIsStale, SaveFails, ExitCommits,
       ExitRefused, AnswerLost
  <2>2. lane' = lane
    BY <1>7 DEF DbAnswers, SaveApplies, SaveIsStale, SaveFails, ExitCommits,
       ExitRefused, AnswerLost, DbUnchanged
  <2>3. [o EXCEPT !.phase = ph].kind = o.kind
        /\ [o EXCEPT !.phase = ph].reply = o.reply
    BY <1>0, <1>7 DEF TypeOK, Ops
  <2> QED BY <1>0, <2>1, <2>2, <2>3 DEF WellFormed, Finish
<1> QED
  BY <1>1, <1>2, <1>3, <1>4, <1>5, <1>6, <1>7
  DEF Next, Ended, vars, Submit, DropSenders, Reload, OwnershipMoves,
      DeletePlayer, RecvClosed, RetryTimer, SelectPanics

\* The worker's data is well typed and its lanes are well formed in every
\* reachable state.
THEOREM ShapeInvariant == Spec => []Shape
<1>1. Init => Shape
  <2> SUFFICES ASSUME Init PROVE Shape
    OBVIOUS
  <2>1. TypeOK
    <3>1. queue \in Seq(Requests) /\ inFlight \in SUBSET Ops
      BY DEF Init
    <3>2. 0 \in Epochs /\ 0 \in 0 .. MaxSubmits /\ "none" \in ReplyStates
      BY LanesAssumption DEF Epochs, ReplyStates
    <3> QED BY <3>1, <3>2, NothingType DEF Init, TypeOK
  <2>2. WellFormed BY DEF Init, WellFormed, IdleLane, Nothing
  <2> QED BY <2>1, <2>2 DEF Shape
<1>2. Shape /\ [Next]_vars => Shape'
  BY TypeStep, WellFormedStep DEF Shape
<1> QED BY <1>1, <1>2, PTL DEF Spec

\* Every variable of the worker keeps its type, for every number of players,
\* queue capacity and concurrency limit.
THEOREM TypeCorrect == Spec => []TypeOK
BY ShapeInvariant, PTL DEF Shape

-----------------------------------------------------------------------------
(* The order of admission.  For each player, what the row holds is not     *)
(* newer than what runs, which is older than what waits in the lane, which *)
(* is older than what waits in the queue.                                  *)

\* The running operation of p is alone behind its lane's in_flight flag and
\* lies between the row and everything that waits.
OpsInOrder(p) ==
    \A o \in inFlight : o.player = p =>
        /\ lane[p].inFlight
        /\ row[p].ver <= o.ver
        /\ o.ver <= latest[p].ver
        /\ o.reply <= o.ver
        /\ lane[p].save.ver # 0 => o.ver < lane[p].save.ver
        /\ lane[p].exit.ver # 0 => o.ver < lane[p].exit.ver
        /\ \A i \in 1 .. Len(queue) :
             queue[i].player = p => o.ver < queue[i].ver

LaneInOrder(p) ==
    /\ lane[p].save.ver # 0 => row[p].ver <= lane[p].save.ver
    /\ lane[p].exit.ver # 0 => row[p].ver < lane[p].exit.ver
    /\ lane[p].save.ver <= latest[p].ver
    /\ lane[p].exit.ver <= latest[p].ver
    /\ row[p].ver <= latest[p].ver
    /\ lane[p].save.reply <= lane[p].save.ver
    /\ lane[p].exit.reply <= lane[p].exit.ver

QueueInOrder(p) ==
    \A i \in 1 .. Len(queue) : queue[i].player = p =>
        /\ row[p].ver < queue[i].ver
        /\ lane[p].save.ver < queue[i].ver
        /\ lane[p].exit.ver < queue[i].ver
        /\ queue[i].ver <= latest[p].ver
        /\ \A j \in 1 .. Len(queue) :
             i < j /\ queue[j].player = p => queue[i].ver < queue[j].ver

OneOpPerPlayer == \A o1, o2 \in inFlight : o1.player = o2.player => o1 = o2

Order ==
    /\ OneOpPerPlayer
    /\ \A p \in Players : OpsInOrder(p) /\ LaneInOrder(p) /\ QueueInOrder(p)

\* A database answer changes one operation's phase, and the row either stays
\* or takes the snapshot of that operation.
LEMMA DbAnswerEffect ==
    ASSUME TypeOK, NEW o \in inFlight, DbAnswers(o)
    PROVE  \E n \in Ops :
             /\ n = [o EXCEPT !.phase = n.phase]
             /\ n.phase \in {"ok", "err"}
             /\ n.player = o.player /\ n.kind = o.kind /\ n.ver = o.ver
             /\ n.epoch = o.epoch /\ n.reply = o.reply
             /\ inFlight' = (inFlight \ {o}) \cup {n}
             /\ DbUnchanged
             /\ \A p \in Players : p # o.player => row'[p] = row[p]
             /\ \/ row' = row /\ (n.phase = "ok" => o.kind # "exit"
                                     /\ o.epoch # row[o.player].epoch)
                \/ /\ row'[o.player].ver = o.ver
                   /\ o.epoch = row[o.player].epoch
                   /\ row'[o.player].epoch =
                        IF o.kind = "exit" THEN o.epoch + 1 ELSE o.epoch
             /\ n.phase = "ok" /\ o.kind # "autosave" => row'[o.player].ver = o.ver
<1>1. o \in Ops /\ o.player \in Players /\ row[o.player].epoch \in Epochs
  BY DEF TypeOK, Ops
<1>2. PICK ph \in {"ok", "err"} :
        /\ Finish(o, ph)
        /\ DbUnchanged
        /\ \/ row' = row /\ (ph = "ok" => o.kind = "autosave" /\ o.epoch # row[o.player].epoch)
           \/ /\ row' = [row EXCEPT ![o.player].ver = o.ver]
              /\ o.epoch = row[o.player].epoch /\ o.kind # "exit"
           \/ /\ row' = [row EXCEPT ![o.player] = [ver |-> o.ver, epoch |-> o.epoch + 1]]
              /\ o.epoch = row[o.player].epoch /\ o.kind = "exit"
  <2>1. CASE SaveApplies(o) BY <2>1 DEF SaveApplies
  <2>2. CASE SaveIsStale(o)
    BY <1>1, <2>2 DEF SaveIsStale, Ops, Kinds
  <2>3. CASE SaveFails(o) BY <2>3 DEF SaveFails
  <2>4. CASE ExitCommits(o) BY <2>4 DEF ExitCommits
  <2>5. CASE ExitRefused(o) BY <2>5 DEF ExitRefused
  <2>6. CASE AnswerLost(o) BY <2>6 DEF AnswerLost
  <2> QED BY <2>1, <2>2, <2>3, <2>4, <2>5, <2>6 DEF DbAnswers
<1> DEFINE n == [o EXCEPT !.phase = ph]
<1>3. /\ n \in Ops /\ n.phase = ph
      /\ n.player = o.player /\ n.kind = o.kind /\ n.ver = o.ver
      /\ n.epoch = o.epoch /\ n.reply = o.reply
  BY <1>1 DEF Ops
<1>4. inFlight' = (inFlight \ {o}) \cup {n} BY <1>2 DEF Finish
<1>5. row \in [Players -> [ver : 0 .. MaxSubmits, epoch : Epochs]]
  BY DEF TypeOK
<1>6. /\ \A p \in Players : p # o.player => row'[p] = row[p]
      /\ \/ row' = row /\ (ph = "ok" => o.kind = "autosave"
                                        /\ o.epoch # row[o.player].epoch)
         \/ /\ row'[o.player].ver = o.ver
            /\ o.epoch = row[o.player].epoch
            /\ row'[o.player].epoch =
                 IF o.kind = "exit" THEN o.epoch + 1 ELSE o.epoch
  BY <1>1, <1>2, <1>5
<1>7. n = [o EXCEPT !.phase = n.phase] BY <1>3
<1>8. ph = "ok" /\ o.kind # "autosave" => row'[o.player].ver = o.ver
  BY <1>6
<1>9. row' = row /\ (ph = "ok" => o.kind = "autosave" /\ o.epoch # row[o.player].epoch)
      => row' = row /\ (ph = "ok" => o.kind # "exit" /\ o.epoch # row[o.player].epoch)
  OBVIOUS
<1> QED BY <1>2, <1>3, <1>4, <1>6, <1>7, <1>8, <1>9

\* The numbers the ordering compares are natural numbers.
LEMMA OrderTypes ==
    ASSUME TypeOK
    PROVE  /\ \A p \in Players :
                /\ row[p].ver \in Nat /\ latest[p].ver \in Nat
                /\ row[p].epoch \in Nat /\ latest[p].epoch \in Nat
                /\ lane[p] \in Lanes
                /\ lane[p].save \in Pending /\ lane[p].exit \in Pending
                /\ lane[p].save.ver \in Nat /\ lane[p].save.reply \in Nat
                /\ lane[p].exit.ver \in Nat /\ lane[p].exit.reply \in Nat
           /\ \A o \in inFlight : /\ o \in Ops /\ o.player \in Players
                                  /\ o.ver \in Nat /\ o.ver # 0
                                  /\ o.reply \in Nat /\ o.epoch \in Nat
           /\ \A i \in 1 .. Len(queue) :
                /\ queue[i] \in Requests /\ queue[i].player \in Players
                /\ queue[i].ver \in Nat /\ queue[i].ver # 0
                /\ queue[i].epoch \in Nat
           /\ Len(queue) \in Nat
<1>1. row \in [Players -> [ver : 0 .. MaxSubmits, epoch : Epochs]]
      /\ latest \in [Players -> [ver : 0 .. MaxSubmits, epoch : Epochs]]
      /\ lane \in [Players -> Lanes] /\ inFlight \in SUBSET Ops
      /\ queue \in Seq(Requests)
  BY DEF TypeOK
<1>2. \A l \in Lanes : l.save \in Pending /\ l.exit \in Pending BY DEF Lanes
<1>3. \A x \in Pending : x.ver \in Nat /\ x.reply \in Nat
  BY LanesAssumption DEF Pending
<1>4. \A o \in Ops : /\ o.player \in Players /\ o.ver \in Nat /\ o.ver # 0
                     /\ o.reply \in Nat /\ o.epoch \in Nat
  BY LanesAssumption DEF Ops, Versions, Epochs
<1>5. \A r \in Requests : /\ r.player \in Players /\ r.ver \in Nat /\ r.ver # 0
                          /\ r.epoch \in Nat
  BY LanesAssumption DEF Requests, Versions, Epochs
<1>6. \A i \in 1 .. Len(queue) : queue[i] \in Requests BY <1>1
<1>7. Len(queue) \in Nat BY <1>1
<1>8. \A p \in Players : /\ row[p].ver \in Nat /\ latest[p].ver \in Nat
                         /\ row[p].epoch \in Nat /\ latest[p].epoch \in Nat
  BY <1>1, LanesAssumption DEF Epochs
<1> QED BY <1>1, <1>2, <1>3, <1>4, <1>5, <1>6, <1>7, <1>8

\* Every action keeps the order of admission.
LEMMA OrderStep == Shape /\ Shape' /\ Order /\ [Next]_vars => Order'
<1> SUFFICES ASSUME Shape, Shape', Order, [Next]_vars PROVE Order'
  OBVIOUS
<1>0. TypeOK /\ TypeOK' /\ WellFormed BY DEF Shape
<1>1. CASE UNCHANGED <<queue, lane, inFlight, row, latest>>
  BY <1>1 DEF Order, OneOpPerPlayer, OpsInOrder, LaneInOrder, QueueInOrder
<1>2. ASSUME NEW p \in Players, NEW k \in Kinds, Submit(p, k) PROVE Order'
  <2> DEFINE v == latest[p].ver + 1
  <2>1. /\ Len(queue') = Len(queue) + 1
        /\ \A i \in 1 .. Len(queue) : queue'[i] = queue[i]
        /\ queue'[Len(queue) + 1].player = p
        /\ queue'[Len(queue) + 1].ver = v
    <3> DEFINE rq == [player |-> p, kind |-> k, ver |-> v, epoch |-> owner[p]]
    <3>1. queue' = Append(queue, rq) BY <1>2 DEF Submit
    <3>2. queue \in Seq(Requests) BY <1>0 DEF TypeOK
    <3>3. rq \in Requests
      BY <1>0, <1>2, LanesAssumption DEF TypeOK, Submit, Requests, Versions
    <3> QED BY <3>1, <3>2, <3>3
  <2>2. latest'[p].ver = v /\ \A q \in Players : q # p => latest'[q] = latest[q]
    BY <1>0, <1>2 DEF TypeOK, Submit
  <2>3. UNCHANGED <<lane, inFlight, row>> BY <1>2 DEF Submit
  <2>4. SUFFICES ASSUME NEW q \in Players
                 PROVE  (OpsInOrder(q) /\ LaneInOrder(q) /\ QueueInOrder(q))'
    BY <2>3 DEF Order, OneOpPerPlayer
  <2>5. OpsInOrder(q) /\ LaneInOrder(q) /\ QueueInOrder(q) BY DEF Order
  <2>6. /\ row[q].ver \in Nat /\ latest[q].ver \in Nat /\ Len(queue) \in Nat
        /\ lane[q].save.ver \in Nat /\ lane[q].exit.ver \in Nat
        /\ \A o \in inFlight : o.ver \in Nat
        /\ \A i \in 1 .. Len(queue) : queue[i].ver \in Nat
    BY <1>0, <2>4, OrderTypes
  <2>a. /\ latest'[q].ver \in Nat /\ latest[q].ver <= latest'[q].ver
        /\ q = p => latest[q].ver < latest'[q].ver
    BY <1>2, <2>2, <2>4, <2>6
  <2>b. \A i \in 1 .. Len(queue') :
            \/ i \in 1 .. Len(queue) /\ queue'[i] = queue[i]
            \/ i = Len(queue) + 1 /\ (queue'[i].player = q =>
                                        q = p /\ queue'[i].ver = latest'[q].ver)
    BY <2>1, <2>2, <2>6
  <2>7. OpsInOrder(q)'
    BY <2>3, <2>5, <2>6, <2>a, <2>b DEF OpsInOrder
  <2>8. LaneInOrder(q)'
    BY <2>3, <2>5, <2>6, <2>a DEF LaneInOrder
  <2>9. QueueInOrder(q)'
    <3> SUFFICES ASSUME NEW i \in 1 .. Len(queue'), queue'[i].player = q
                 PROVE  /\ row'[q].ver < queue'[i].ver
                        /\ lane'[q].save.ver < queue'[i].ver
                        /\ lane'[q].exit.ver < queue'[i].ver
                        /\ queue'[i].ver <= latest'[q].ver
                        /\ \A j \in 1 .. Len(queue') :
                             i < j /\ queue'[j].player = q =>
                               queue'[i].ver < queue'[j].ver
      BY DEF QueueInOrder
    <3>1. CASE i \in 1 .. Len(queue) /\ queue'[i] = queue[i]
      <4>1. queue[i].ver \in Nat /\ queue[i].ver <= latest[q].ver
        BY <2>5, <2>6, <3>1 DEF QueueInOrder
      <4>2. ASSUME NEW j \in 1 .. Len(queue'), i < j, queue'[j].player = q
            PROVE  queue'[i].ver < queue'[j].ver
        <5>1. CASE j \in 1 .. Len(queue) /\ queue'[j] = queue[j]
          BY <2>5, <3>1, <4>2, <5>1 DEF QueueInOrder
        <5>2. CASE q = p /\ queue'[j].ver = latest'[q].ver
          BY <2>6, <2>a, <3>1, <4>1, <5>2
        <5> QED BY <2>b, <4>2, <5>1, <5>2
      <4>3. /\ row[q].ver < queue[i].ver /\ lane[q].save.ver < queue[i].ver
            /\ lane[q].exit.ver < queue[i].ver
        BY <2>5, <3>1 DEF QueueInOrder
      <4> QED BY <2>3, <2>6, <2>a, <3>1, <4>1, <4>2, <4>3
    <3>2. CASE i = Len(queue) + 1 /\ q = p /\ queue'[i].ver = latest'[q].ver
      <4>1. \A j \in 1 .. Len(queue') : ~(i < j)
        BY <2>1, <2>6, <3>2
      <4> QED BY <2>3, <2>5, <2>6, <2>a, <3>2, <4>1 DEF LaneInOrder
    <3> QED BY <2>b, <3>1, <3>2
  <2> QED BY <2>7, <2>8, <2>9
<1>3. ASSUME NEW p \in Players, OwnershipMoves(p) PROVE Order'
  <2>1. \A q \in Players : row'[q].ver = row[q].ver
    BY <1>0, <1>3 DEF TypeOK, OwnershipMoves
  <2> QED BY <1>3, <2>1 DEF OwnershipMoves, Order, OneOpPerPlayer, OpsInOrder,
             LaneInOrder, QueueInOrder
<1>4. ASSUME NEW p \in Players, RetryElapses(p) PROVE Order'
  <2>1. \A q \in Players : /\ lane'[q].save = lane[q].save
                           /\ lane'[q].exit = lane[q].exit
                           /\ lane'[q].inFlight = lane[q].inFlight
    BY <1>0, <1>4 DEF TypeOK, RetryElapses, Lanes
  <2> QED BY <1>4, <2>1 DEF RetryElapses, Order, OneOpPerPlayer, OpsInOrder,
             LaneInOrder, QueueInOrder
<1>5. CASE Recv
  <2> DEFINE r == Head(queue)
  <2>1. /\ r \in Requests /\ r.player \in Players /\ r.ver \in Nat /\ r.ver # 0
        /\ r = queue[1] /\ 1 \in 1 .. Len(queue)
        /\ Len(queue') = Len(queue) - 1
        /\ \A i \in 1 .. Len(queue') : /\ queue'[i] = queue[i + 1]
                                       /\ i + 1 \in 1 .. Len(queue) /\ 1 < i + 1
    <3>1. queue \in Seq(Requests) /\ queue # <<>> /\ queue' = Tail(queue)
      BY <1>0, <1>5 DEF TypeOK, Recv
    <3>2. Len(queue) \in Nat /\ Len(queue) > 0 BY <3>1
    <3>3. r = queue[1] /\ 1 \in 1 .. Len(queue) BY <3>1, <3>2, HeadTail
    <3>4. /\ Len(queue') = Len(queue) - 1
          /\ \A i \in 1 .. Len(queue') : /\ queue'[i] = queue[i + 1]
                                         /\ i + 1 \in 1 .. Len(queue) /\ 1 < i + 1
      BY <3>1, <3>2, HeadTail
    <3> QED BY <1>0, <3>3, <3>4, OrderTypes
  <2>2. UNCHANGED <<inFlight, row, latest>> BY <1>5 DEF Recv
  <2> DEFINE l == lane[r.player]
             m == lane'[r.player]
  <2>3. /\ m.inFlight = l.inFlight
        /\ \A q \in Players : q # r.player => lane'[q] = lane[q]
        /\ \/ m = l
           \/ /\ m.save.ver = r.ver /\ m.exit.ver = 0 /\ m.exit.reply = 0
              /\ m.save.reply \in {l.save.reply, 0, r.ver}
           \/ /\ m.save.ver = 0 /\ m.save.reply = 0
              /\ m.exit.ver = r.ver /\ m.exit.reply = r.ver
    <3>1. l \in Lanes /\ l.save \in Pending /\ l.save.kind # "exit"
          /\ (l.save.kind = "autosave" => l.save.reply = 0)
      BY <1>0, <2>1, OrderTypes DEF WellFormed
    <3>2. lane \in [Players -> Lanes] BY <1>0 DEF TypeOK
    <3>3. CASE RefuseSave(r) BY <3>3 DEF RefuseSave
    <3>4. CASE StoreSave(r) /\ r.kind # "exit"
      <4>1. /\ m.save = Coalesce(l.save, r) /\ m.exit = Nothing
            /\ m.inFlight = l.inFlight
            /\ \A q \in Players : q # r.player => lane'[q] = lane[q]
        BY <2>1, <3>1, <3>2, <3>4 DEF StoreSave, Lanes
      <4>2. m.save.ver = r.ver /\ m.save.reply \in {l.save.reply, 0, r.ver}
        BY <2>1, <3>1, <3>4, <4>1, CoalesceWellFormed
      <4> QED BY <4>1, <4>2 DEF Nothing
    <3>5. CASE StoreExit(r)
      <4>1. /\ m.save = Nothing /\ m.inFlight = l.inFlight
            /\ m.exit.ver = r.ver /\ m.exit.reply = r.ver
            /\ \A q \in Players : q # r.player => lane'[q] = lane[q]
        BY <2>1, <3>1, <3>2, <3>5 DEF StoreExit, Lanes
      <4> QED BY <4>1 DEF Nothing
    <3> QED BY <1>5, <3>3, <3>4, <3>5 DEF Recv
  <2>4. SUFFICES ASSUME NEW q \in Players
                 PROVE  (OpsInOrder(q) /\ LaneInOrder(q) /\ QueueInOrder(q))'
    BY <2>2 DEF Order, OneOpPerPlayer
  <2>5. OpsInOrder(q) /\ LaneInOrder(q) /\ QueueInOrder(q) BY DEF Order
  <2>6. CASE q # r.player
    <3>1. lane'[q] = lane[q] BY <2>3, <2>6
    <3>2. OpsInOrder(q)' BY <2>1, <2>2, <2>5, <3>1 DEF OpsInOrder
    <3>3. LaneInOrder(q)' BY <2>2, <2>5, <3>1 DEF LaneInOrder
    <3>4. QueueInOrder(q)'
      <4>1. \A i, j \in 1 .. Len(queue') : i < j => i + 1 < j + 1
        OBVIOUS
      <4> QED BY <2>1, <2>2, <2>5, <3>1, <4>1 DEF QueueInOrder
    <3> QED BY <3>2, <3>3, <3>4
  <2>7. CASE q = r.player
    <3>1. /\ row[q].ver < r.ver /\ lane[q].save.ver < r.ver
          /\ lane[q].exit.ver < r.ver /\ r.ver <= latest[q].ver
          /\ \A i \in 1 .. Len(queue') : queue'[i].player = q => r.ver < queue'[i].ver
      BY <2>1, <2>5, <2>7 DEF QueueInOrder
    <3>2. \A o \in inFlight : o.player = q => o.ver < r.ver
      BY <2>1, <2>5, <2>7 DEF OpsInOrder
    <3>a. /\ row[q].ver \in Nat /\ latest[q].ver \in Nat
          /\ lane[q].save.reply \in Nat /\ lane[q].save.ver \in Nat
      BY <1>0, <2>4, OrderTypes
    <3>b. lane[q].save.reply <= r.ver /\ 0 < r.ver
      BY <2>1, <2>5, <3>1, <3>a DEF LaneInOrder
    <3>c. \/ lane'[q] = lane[q]
          \/ /\ lane'[q].save.ver = r.ver /\ lane'[q].save.reply <= r.ver
             /\ lane'[q].exit.ver = 0 /\ lane'[q].exit.reply = 0
          \/ /\ lane'[q].save.ver = 0 /\ lane'[q].save.reply = 0
             /\ lane'[q].exit.ver = r.ver /\ lane'[q].exit.reply <= r.ver
      BY <2>1, <2>3, <2>7, <3>b
    <3>d. lane'[q].inFlight = lane[q].inFlight BY <2>3, <2>7
    <3>3. OpsInOrder(q)'
      BY <2>1, <2>2, <2>5, <3>2, <3>c, <3>d DEF OpsInOrder
    <3>4. LaneInOrder(q)'
      BY <2>1, <2>2, <2>5, <3>1, <3>a, <3>c DEF LaneInOrder
    <3>5. QueueInOrder(q)'
      <4>1. \A i, j \in 1 .. Len(queue') : i < j => i + 1 < j + 1
        OBVIOUS
      <4>2. \A i \in 1 .. Len(queue') : queue'[i].player = q =>
              /\ row'[q].ver < queue'[i].ver /\ queue'[i].ver <= latest'[q].ver
              /\ \A j \in 1 .. Len(queue') :
                   i < j /\ queue'[j].player = q => queue'[i].ver < queue'[j].ver
        BY <2>1, <2>2, <2>5, <4>1 DEF QueueInOrder
      <4>3. \A i \in 1 .. Len(queue') : queue'[i].player = q =>
              /\ lane'[q].save.ver < queue'[i].ver
              /\ lane'[q].exit.ver < queue'[i].ver
        <5>1. CASE lane'[q] = lane[q] BY <2>1, <2>5, <5>1 DEF QueueInOrder
        <5>2. CASE lane'[q] # lane[q]
          <6>1. \A i \in 1 .. Len(queue') : queue'[i].player = q => 0 < queue'[i].ver
            BY <1>0, <2>1, OrderTypes
          <6> QED BY <3>1, <3>c, <5>2, <6>1
        <5> QED BY <5>1, <5>2
      <4> QED BY <4>2, <4>3 DEF QueueInOrder
    <3> QED BY <3>3, <3>4, <3>5
  <2> QED BY <2>6, <2>7
<1>6. CASE Dispatch
  <2>1. PICK S \in SUBSET {p \in Players : Ready(lane[p])} :
          /\ lane' = [p \in Players |->
                        IF p \in S THEN TakeNext(lane[p]) ELSE lane[p]]
          /\ inFlight' = inFlight \cup {Spawned(p) : p \in S}
    BY <1>6 DEF Dispatch, Picks
  <2>2. UNCHANGED <<queue, row, latest>> BY <1>6 DEF Dispatch
  <2>3. \A p \in S : ~lane[p].inFlight BY DEF Ready
  <2>4. \A p \in S : \A o \in inFlight : o.player # p
    BY <1>0, <2>3, OrderTypes DEF Order, OpsInOrder
  <2>5. \A p \in S : /\ Spawned(p).player = p
                     /\ Spawned(p).ver = NextPending(lane[p]).ver
                     /\ Spawned(p).reply = NextPending(lane[p]).reply
    BY DEF Spawned
  <2>6. OneOpPerPlayer' BY <2>1, <2>4, <2>5 DEF Order, OneOpPerPlayer
  <2>7. ASSUME NEW q \in Players
        PROVE  (OpsInOrder(q) /\ LaneInOrder(q) /\ QueueInOrder(q))'
    <3>1. OpsInOrder(q) /\ LaneInOrder(q) /\ QueueInOrder(q) BY DEF Order
    <3>2. CASE q \notin S
      <4>1. lane'[q] = lane[q] BY <2>1, <2>7, <3>2
      <4>2. \A o \in inFlight' : o.player = q => o \in inFlight
        BY <2>1, <2>5, <3>2
      <4>3. OpsInOrder(q)' BY <2>2, <3>1, <4>1, <4>2 DEF OpsInOrder
      <4>4. LaneInOrder(q)' BY <2>2, <3>1, <4>1 DEF LaneInOrder
      <4>5. QueueInOrder(q)' BY <2>2, <3>1, <4>1 DEF QueueInOrder
      <4> QED BY <4>3, <4>4, <4>5
    <3>3. CASE q \in S
      <4> DEFINE n == NextPending(lane[q])
      <4>1. lane'[q] = TakeNext(lane[q]) /\ lane[q] \in Lanes
        BY <1>0, <2>1, <2>7, <3>3, OrderTypes
      <4>2. /\ lane'[q].inFlight = TRUE
            /\ lane'[q].save.ver = 0 /\ lane'[q].save.reply = 0
            /\ lane'[q].exit.ver = 0 /\ lane'[q].exit.reply = 0
        <5>1. lane[q].exit # Nothing => lane[q].save = Nothing
          BY <1>0, <2>7 DEF WellFormed
        <5>2. lane'[q].inFlight = TRUE /\ lane'[q].exit = Nothing
              /\ lane'[q].save = Nothing
          BY <4>1, <5>1, TakeNextEffect
        <5> QED BY <5>2 DEF Nothing
      <4>3. \A o \in inFlight' : o.player = q => o = Spawned(q)
        BY <2>1, <2>4, <2>5, <3>3
      <4>4. /\ row[q].ver <= n.ver /\ n.ver <= latest[q].ver /\ n.reply <= n.ver
            /\ \A i \in 1 .. Len(queue) : queue[i].player = q => n.ver < queue[i].ver
        <5>1. CASE lane[q].exit # Nothing
          <6>1. lane[q].exit.ver # 0 /\ n = lane[q].exit
            BY <1>0, <2>7, <5>1 DEF WellFormed, NextPending
          <6> QED BY <1>0, <2>7, <3>1, <6>1, OrderTypes DEF LaneInOrder, QueueInOrder
        <5>2. CASE lane[q].exit = Nothing
          <6>1. lane[q].save.ver # 0 /\ n = lane[q].save
            BY <1>0, <2>1, <2>7, <3>3, <5>2 DEF WellFormed, NextPending, Ready
          <6> QED BY <1>0, <2>7, <3>1, <6>1, OrderTypes DEF LaneInOrder, QueueInOrder
        <5> QED BY <5>1, <5>2
      <4>5. OpsInOrder(q)'
        BY <2>2, <2>5, <3>3, <4>2, <4>3, <4>4 DEF OpsInOrder
      <4>6. LaneInOrder(q)'
        BY <1>0, <2>2, <2>7, <3>1, <4>2, OrderTypes DEF LaneInOrder
      <4>7. QueueInOrder(q)'
        <5>1. \A i \in 1 .. Len(queue) : 0 < queue[i].ver
          BY <1>0, OrderTypes
        <5> QED BY <2>2, <3>1, <4>2, <5>1 DEF QueueInOrder
      <4> QED BY <4>5, <4>6, <4>7
    <3> QED BY <3>2, <3>3
  <2> QED BY <2>6, <2>7 DEF Order
<1>7. ASSUME NEW o \in inFlight, Join(o) PROVE Order'
  <2>1. UNCHANGED <<queue, row, latest>> /\ inFlight' = inFlight \ {o}
    BY <1>7 DEF Join
  <2>2. o \in Ops /\ o.player \in Players /\ lane[o.player] \in Lanes
    BY <1>0, <1>7, OrderTypes
  <2>3. /\ lane'[o.player] = AfterCompletion(lane[o.player], o)
        /\ \A q \in Players : q # o.player => lane'[q] = lane[q]
    BY <1>0, <1>7, <2>2 DEF TypeOK, Join
  <2>4. \A x \in inFlight' : x.player # o.player
    BY <1>7, <2>1 DEF Order, OneOpPerPlayer
  <2>5. LET l == lane[o.player]
            m == lane'[o.player] IN
        /\ m.exit = l.exit
        /\ \/ m.save = l.save
           \/ /\ m.save.ver = o.ver /\ m.save.reply = o.reply
              /\ l.save = Nothing /\ l.exit = Nothing
    BY <1>0, <1>7, <2>2, <2>3, AfterCompletionWellFormed DEF WellFormed
  <2>6. ASSUME NEW q \in Players
        PROVE  (OpsInOrder(q) /\ LaneInOrder(q) /\ QueueInOrder(q))'
    <3>1. OpsInOrder(q) /\ LaneInOrder(q) /\ QueueInOrder(q) BY DEF Order
    <3>2. OpsInOrder(q)'
      BY <2>1, <2>3, <2>4, <2>6, <3>1 DEF OpsInOrder
    <3>3. o.player = q => /\ row[q].ver <= o.ver /\ o.ver <= latest[q].ver
                          /\ o.reply <= o.ver
                          /\ \A i \in 1 .. Len(queue) :
                               queue[i].player = q => o.ver < queue[i].ver
      BY <1>7, <3>1 DEF OpsInOrder
    <3>4. LaneInOrder(q)'
      BY <2>1, <2>3, <2>5, <2>6, <3>1, <3>3 DEF LaneInOrder
    <3>5. QueueInOrder(q)'
      BY <2>1, <2>3, <2>5, <2>6, <3>1, <3>3 DEF QueueInOrder
    <3> QED BY <3>2, <3>4, <3>5
  <2> QED BY <2>1, <2>6 DEF Order, OneOpPerPlayer
<1>8. ASSUME NEW o \in inFlight, JoinPanicked(o) PROVE Order'
  BY <1>8 DEF JoinPanicked, Order, OneOpPerPlayer, OpsInOrder, LaneInOrder,
     QueueInOrder
<1>9. ASSUME NEW o \in inFlight, DbAnswers(o) PROVE Order'
  <2>1. PICK n \in Ops :
             /\ n.player = o.player /\ n.ver = o.ver /\ n.reply = o.reply
             /\ inFlight' = (inFlight \ {o}) \cup {n}
             /\ DbUnchanged
             /\ \A p \in Players : p # o.player => row'[p] = row[p]
             /\ row' = row \/ row'[o.player].ver = o.ver
    BY <1>0, <1>9, DbAnswerEffect
  <2>2. UNCHANGED <<queue, lane, latest>> BY <2>1 DEF DbUnchanged
  <2>3. OneOpPerPlayer' BY <1>9, <2>1 DEF Order, OneOpPerPlayer
  <2>4. ASSUME NEW q \in Players
        PROVE  (OpsInOrder(q) /\ LaneInOrder(q) /\ QueueInOrder(q))'
    <3>1. OpsInOrder(q) /\ LaneInOrder(q) /\ QueueInOrder(q) BY DEF Order
    <3>2. o.player = q => \A x \in inFlight' : x.player = q => x = n
      BY <1>9, <2>1 DEF Order, OneOpPerPlayer
    <3>3. row'[q].ver = row[q].ver \/ (o.player = q /\ row'[q].ver = o.ver)
      BY <2>1, <2>4
    <3>4. OpsInOrder(q)'
      <4>1. CASE o.player = q
        BY <1>0, <1>9, <2>1, <2>2, <3>1, <3>2, <3>3, <4>1, OrderTypes DEF OpsInOrder
      <4>2. CASE o.player # q
        BY <1>9, <2>1, <2>2, <3>1, <3>3, <4>2 DEF OpsInOrder
      <4> QED BY <4>1, <4>2
    <3>5. LaneInOrder(q)'
      BY <1>0, <1>9, <2>2, <2>4, <3>1, <3>3, OrderTypes DEF LaneInOrder, OpsInOrder
    <3>6. QueueInOrder(q)'
      BY <1>0, <1>9, <2>2, <2>4, <3>1, <3>3, OrderTypes DEF QueueInOrder, OpsInOrder
    <3> QED BY <3>4, <3>5, <3>6
  <2> QED BY <2>3, <2>4 DEF Order
<1> QED
  BY <1>1, <1>2, <1>3, <1>4, <1>5, <1>6, <1>7, <1>8, <1>9
  DEF Next, Ended, vars, DropSenders, Reload, DeletePlayer, RecvClosed,
      RetryTimer, SelectPanics

\* The order of admission is kept in every reachable state.
THEOREM OrderInvariant == Spec => []Order
<1>1. Init => Order
  BY DEF Init, Order, OneOpPerPlayer, OpsInOrder, LaneInOrder, QueueInOrder,
         IdleLane, Nothing
<1>2. Shape /\ Shape' /\ Order /\ [Next]_vars => Order'
  BY OrderStep
<1> QED BY <1>1, <1>2, ShapeInvariant, PTL DEF Spec

\* Running, waiting and queued snapshots of a player are in admission order.
THEOREM LanesStayInOrder == Spec => []LanesInOrder
<1>1. Shape /\ Order => LanesInOrder
  <2> SUFFICES ASSUME Shape, Order, NEW p \in Players
               PROVE  /\ \A r \in Running(p), w \in Waiting(p) \cup Queued(p) : r < w
                      /\ \A w \in Waiting(p), q \in Queued(p) : w < q
    BY DEF LanesInOrder
  <2>1. queue \in Seq(Requests) /\ DOMAIN queue = 1 .. Len(queue)
    BY DEF Shape, TypeOK
  <2>2. OpsInOrder(p) /\ QueueInOrder(p) BY DEF Order
  <2>3. \A r \in Running(p), w \in Waiting(p) : r < w
    BY <2>2 DEF Running, Waiting, OpsInOrder
  <2>4. \A r \in Running(p), w \in Queued(p) : r < w
    BY <2>1, <2>2 DEF Running, Queued, OpsInOrder
  <2>5. \A w \in Waiting(p), q \in Queued(p) : w < q
    BY <2>1, <2>2 DEF Waiting, Queued, QueueInOrder
  <2> QED BY <2>3, <2>4, <2>5
<1> QED BY <1>1, ShapeInvariant, OrderInvariant, PTL

\* No statement the worker runs replaces a row by an older snapshot.
THEOREM RowsNeverRegress == Spec => DbNeverRegresses
<1>1. Shape /\ Order /\ [Next]_vars
        => [\A p \in Players : row'[p].ver >= row[p].ver]_vars
  <2> SUFFICES ASSUME Shape, Order, Next, NEW p \in Players
               PROVE  row'[p].ver >= row[p].ver
    BY DEF Next
  <2>0. TypeOK /\ row[p].ver \in Nat BY OrderTypes DEF Shape
  <2>1. CASE row' = row BY <2>0, <2>1
  <2>2. ASSUME NEW q \in Players, OwnershipMoves(q) PROVE row'[p].ver = row[p].ver
    BY <2>0, <2>2 DEF TypeOK, OwnershipMoves
  <2>3. ASSUME NEW o \in inFlight, DbAnswers(o) PROVE row'[p].ver >= row[p].ver
    <3>1. /\ \A q \in Players : q # o.player => row'[q] = row[q]
          /\ row' = row \/ row'[o.player].ver = o.ver
      BY <2>0, <2>3, DbAnswerEffect
    <3>2. o.player = p => row[p].ver <= o.ver /\ o.ver \in Nat
      BY <2>0, <2>3, OrderTypes DEF Order, OpsInOrder
    <3> QED BY <2>0, <3>1, <3>2
  <2>4. \/ row' = row
        \/ \E q \in Players : OwnershipMoves(q)
        \/ \E o \in inFlight : DbAnswers(o)
    BY DEF Next, Ended, vars, Submit, DropSenders, Reload, DeletePlayer,
         RetryElapses, Recv, RecvClosed, Dispatch, RetryTimer, SelectPanics,
         Join, JoinPanicked
  <2>5. row'[p].ver = row[p].ver => row'[p].ver >= row[p].ver BY <2>0
  <2> QED BY <2>1, <2>2, <2>3, <2>4, <2>5
<1> QED BY <1>1, ShapeInvariant, OrderInvariant, PTL DEF Spec, DbNeverRegresses

-----------------------------------------------------------------------------
(* A success that was replied, or is about to be, is in the database.      *)
OkIsApplied ==
    \A o \in inFlight : o.phase = "ok" /\ o.kind # "autosave"
                          => row[o.player].ver >= o.ver

\* Every action keeps acknowledged snapshots durable.
LEMMA AckedStep ==
    Shape /\ Order /\ AckedIsDurable /\ OkIsApplied /\ [Next]_vars
      => AckedIsDurable' /\ OkIsApplied'
<1> SUFFICES ASSUME Shape, Order, AckedIsDurable, OkIsApplied, [Next]_vars
             PROVE  AckedIsDurable' /\ OkIsApplied'
  OBVIOUS
<1>0. TypeOK /\ reply \in [Players -> [Versions -> ReplyStates]]
      /\ \A v \in Versions : v \in Nat
  BY LanesAssumption DEF Shape, TypeOK, Versions
<1>1. CASE UNCHANGED <<inFlight, row, reply>>
  BY <1>1 DEF AckedIsDurable, OkIsApplied
<1>2. ASSUME NEW p \in Players, NEW k \in Kinds, Submit(p, k)
      PROVE  AckedIsDurable' /\ OkIsApplied'
  <2>1. \A q \in Players, v \in Versions : reply'[q][v] \in {reply[q][v], "open"}
    BY <1>0, <1>2 DEF Submit
  <2> QED BY <1>2, <2>1 DEF Submit, AckedIsDurable, OkIsApplied
<1>3. ASSUME NEW p \in Players, OwnershipMoves(p)
      PROVE  AckedIsDurable' /\ OkIsApplied'
  <2>1. \A q \in Players : row'[q].ver = row[q].ver
    BY <1>0, <1>3 DEF TypeOK, OwnershipMoves
  <2> QED BY <1>0, <1>3, <2>1, OrderTypes
     DEF OwnershipMoves, AckedIsDurable, OkIsApplied
<1>4. CASE Recv
  <2> DEFINE r == Head(queue)
  <2>1. r.player \in Players
    BY <1>0, <1>4, HeadTail DEF TypeOK, Recv, Requests
  <2>2. \A q \in Players, v \in Versions :
            reply'[q][v] \in {reply[q][v], "err", "dropped"}
    BY <1>0, <1>4, <2>1 DEF Recv, RefuseSave, StoreSave, StoreExit, Settle
  <2> QED BY <1>4, <2>2 DEF Recv, AckedIsDurable, OkIsApplied
<1>5. CASE Dispatch
  <2>1. PICK S : inFlight' = inFlight \cup {Spawned(p) : p \in S}
    BY <1>5 DEF Dispatch
  <2>2. \A p \in S : Spawned(p).phase = "running" BY DEF Spawned
  <2> QED BY <1>5, <2>1, <2>2 DEF Dispatch, AckedIsDurable, OkIsApplied
<1>6. ASSUME NEW o \in inFlight, Join(o)
      PROVE  AckedIsDurable' /\ OkIsApplied'
  <2>1. /\ o.player \in Players /\ o.ver \in Nat /\ o.reply \in Nat
        /\ o.reply <= o.ver /\ row[o.player].ver \in Nat
    BY <1>0, <1>6, OrderTypes DEF Order, OpsInOrder
  <2>2. ASSUME NEW q \in Players, NEW v \in Versions, reply'[q][v] = "ok"
        PROVE  row[q].ver >= v
    <3>1. CASE reply[q][v] = "ok" BY <3>1 DEF AckedIsDurable
    <3>2. CASE reply[q][v] # "ok"
      <4>1. q = o.player /\ v = o.reply /\ o.phase = "ok" /\ o.kind # "autosave"
        BY <1>0, <1>6, <2>1, <2>2, <3>2 DEF Join, Settle
      <4>2. row[o.player].ver >= o.ver BY <1>6, <4>1 DEF OkIsApplied
      <4> QED BY <2>1, <4>1, <4>2
    <3> QED BY <3>1, <3>2
  <2> QED BY <1>6, <2>2 DEF Join, AckedIsDurable, OkIsApplied
<1>7. ASSUME NEW o \in inFlight, JoinPanicked(o)
      PROVE  AckedIsDurable' /\ OkIsApplied'
  <2>1. o.player \in Players BY <1>0, <1>7, OrderTypes
  <2>2. \A q \in Players, v \in Versions : reply'[q][v] \in {reply[q][v], "dropped"}
    BY <1>0, <1>7, <2>1 DEF JoinPanicked, Settle
  <2> QED BY <1>7, <2>2 DEF JoinPanicked, AckedIsDurable, OkIsApplied
<1>8. ASSUME NEW o \in inFlight, DbAnswers(o)
      PROVE  AckedIsDurable' /\ OkIsApplied'
  <2>1. PICK n \in Ops :
             /\ n.player = o.player /\ n.kind = o.kind /\ n.ver = o.ver
             /\ inFlight' = (inFlight \ {o}) \cup {n}
             /\ DbUnchanged
             /\ \A p \in Players : p # o.player => row'[p] = row[p]
             /\ row' = row \/ row'[o.player].ver = o.ver
             /\ n.phase = "ok" /\ o.kind # "autosave" => row'[o.player].ver = o.ver
    BY <1>0, <1>8, DbAnswerEffect
  <2>2. /\ o.player \in Players /\ o.ver \in Nat /\ row[o.player].ver \in Nat
        /\ row[o.player].ver <= o.ver
    BY <1>0, <1>8, OrderTypes DEF Order, OpsInOrder
  <2>3. \A q \in Players : row'[q].ver = row[q].ver
                           \/ (q = o.player /\ row'[q].ver = o.ver)
    BY <2>1
  <2>4. AckedIsDurable'
    BY <1>0, <2>1, <2>2, <2>3, OrderTypes DEF DbUnchanged, AckedIsDurable
  <2>5. OkIsApplied'
    <3>1. ASSUME NEW x \in inFlight', x.phase = "ok", x.kind # "autosave"
          PROVE  row'[x.player].ver >= x.ver
      <4>1. CASE x = n BY <2>1, <2>2, <3>1, <4>1
      <4>2. CASE x \in inFlight /\ x # o
        <5>1. x.player # o.player BY <1>8, <4>2 DEF Order, OneOpPerPlayer
        <5>2. x.player \in Players BY <1>0, <4>2, OrderTypes
        <5> QED BY <2>1, <3>1, <4>2, <5>1, <5>2 DEF OkIsApplied
      <4> QED BY <2>1, <4>1, <4>2
    <3> QED BY <3>1 DEF OkIsApplied
  <2> QED BY <2>4, <2>5
<1> QED
  BY <1>1, <1>2, <1>3, <1>4, <1>5, <1>6, <1>7, <1>8
  DEF Next, Ended, vars, DropSenders, Reload, DeletePlayer, RecvClosed,
      RetryTimer, SelectPanics, RetryElapses

\* A reply of Ok means the snapshot it was asked for, or a newer one, is in
\* the database.
THEOREM AcksAreDurable == Spec => []AckedIsDurable
<1>1. Init => AckedIsDurable /\ OkIsApplied
  BY DEF Init, AckedIsDurable, OkIsApplied
<1>2. Shape /\ Order /\ AckedIsDurable /\ OkIsApplied /\ [Next]_vars
        => AckedIsDurable' /\ OkIsApplied'
  BY AckedStep
<1> QED BY <1>1, <1>2, ShapeInvariant, OrderInvariant, PTL DEF Spec

-----------------------------------------------------------------------------
(* The JoinSet respects its capacity.                                      *)

BoundedJoinSet == IsFiniteSet(inFlight) /\ Cardinality(inFlight) <= MaxInFlight

\* Every action keeps the JoinSet within MAX_CONCURRENT_SAVES.
LEMMA BoundedStep == Shape /\ BoundedJoinSet /\ [Next]_vars => BoundedJoinSet'
<1> SUFFICES ASSUME Shape, BoundedJoinSet, [Next]_vars PROVE BoundedJoinSet'
  OBVIOUS
<1>0. /\ TypeOK /\ IsFiniteSet(inFlight)
      /\ Cardinality(inFlight) \in Nat /\ Cardinality(inFlight) <= MaxInFlight
      /\ MaxInFlight \in Nat
  BY FS_CardinalityType, LanesAssumption DEF Shape, BoundedJoinSet
<1>1. CASE inFlight' = inFlight BY <1>1 DEF BoundedJoinSet
<1>2. ASSUME NEW o \in inFlight, inFlight' = inFlight \ {o} PROVE BoundedJoinSet'
  <2>1. /\ IsFiniteSet(inFlight \ {o})
        /\ Cardinality(inFlight \ {o}) = Cardinality(inFlight) - 1
    BY <1>0, <1>2, FS_RemoveElement
  <2> QED BY <1>0, <1>2, <2>1 DEF BoundedJoinSet
<1>3. ASSUME NEW o \in inFlight, NEW n, inFlight' = (inFlight \ {o}) \cup {n}
      PROVE  BoundedJoinSet'
  <2>1. /\ IsFiniteSet(inFlight \ {o})
        /\ Cardinality(inFlight \ {o}) = Cardinality(inFlight) - 1
    BY <1>0, <1>3, FS_RemoveElement
  <2> DEFINE R == inFlight \ {o}
  <2>a. IsFiniteSet(R) /\ Cardinality(R) = Cardinality(inFlight) - 1
    BY <2>1
  <2> HIDE DEF R
  <2>b. /\ IsFiniteSet(R \cup {n})
        /\ Cardinality(R \cup {n}) =
             IF n \in R THEN Cardinality(R) ELSE Cardinality(R) + 1
    BY <2>a, FS_AddElement
  <2>2. /\ IsFiniteSet(inFlight')
        /\ Cardinality(inFlight') <= Cardinality(inFlight)
    BY <1>0, <1>3, <2>a, <2>b DEF R
  <2>3. Cardinality(inFlight') \in Nat BY <2>2, FS_CardinalityType
  <2> QED BY <1>0, <2>2, <2>3 DEF BoundedJoinSet
<1>4. CASE Dispatch
  <2>1. CASE Cardinality(inFlight) >= MaxInFlight
    <3>1. inFlight' = inFlight BY <1>4, <2>1 DEF Dispatch
    <3> QED BY <1>1, <3>1
  <2>2. CASE ~(Cardinality(inFlight) >= MaxInFlight)
    <3>1. PICK S \in Picks(MaxInFlight - Cardinality(inFlight)) :
            inFlight' = inFlight \cup {Spawned(p) : p \in S}
      BY <1>4, <2>2 DEF Dispatch
    <3>2. S \in SUBSET Players /\ Cardinality(S) <= MaxInFlight - Cardinality(inFlight)
      BY <3>1 DEF Picks
    <3>3. IsFiniteSet(S) /\ Cardinality(S) \in Nat
      BY <3>2, FS_Subset, FS_CardinalityType, LanesAssumption
    <3> DEFINE T == {Spawned(p) : p \in S}
               f == [p \in S |-> Spawned(p)]
    <3>4. f \in Surjection(S, T) BY DEF Surjection
    <3>5. IsFiniteSet(T) /\ Cardinality(T) <= Cardinality(S)
      BY <3>3, <3>4, FS_Surjection
    <3>6. Cardinality(T) \in Nat BY <3>5, FS_CardinalityType
    <3>7. IsFiniteSet(inFlight \cap T) /\ Cardinality(inFlight \cap T) \in Nat
      BY FS_Intersection, FS_CardinalityType DEF BoundedJoinSet
    <3>8. /\ IsFiniteSet(inFlight \cup T)
          /\ Cardinality(inFlight \cup T) =
               Cardinality(inFlight) + Cardinality(T) - Cardinality(inFlight \cap T)
      BY <3>5, FS_Union DEF BoundedJoinSet
    <3>9. Cardinality(inFlight \cup T) <= MaxInFlight
      BY <1>0, <3>2, <3>3, <3>5, <3>6, <3>7, <3>8, LanesAssumption
    <3> QED BY <3>1, <3>8, <3>9 DEF BoundedJoinSet
  <2> QED BY <2>1, <2>2
<1>5. ASSUME NEW o \in inFlight, DbAnswers(o) PROVE BoundedJoinSet'
  BY <1>0, <1>3, <1>5, DbAnswerEffect
<1> QED
  BY <1>1, <1>2, <1>4, <1>5
  DEF Next, Ended, vars, Submit, DropSenders, Reload, OwnershipMoves,
      DeletePlayer, RetryElapses, Recv, RecvClosed, RetryTimer, SelectPanics,
      Join, JoinPanicked

\* At most MAX_CONCURRENT_SAVES statements run, and never two of one player.
THEOREM OneWriter == Spec => []OneWriterPerPlayer
<1>1. Init => BoundedJoinSet
  BY FS_EmptySet, LanesAssumption DEF Init, BoundedJoinSet
<1>2. Shape /\ BoundedJoinSet /\ [Next]_vars => BoundedJoinSet'
  BY BoundedStep
<1>3. BoundedJoinSet /\ Order => OneWriterPerPlayer
  BY DEF BoundedJoinSet, Order, OneOpPerPlayer, OneWriterPerPlayer
<1> QED BY <1>1, <1>2, <1>3, ShapeInvariant, OrderInvariant, PTL DEF Spec

-----------------------------------------------------------------------------
(* The newest snapshot.  Beyond the order of admission the argument needs  *)
(* that a held copy of the newest snapshot carries the newest epoch, that  *)
(* epochs are never ahead of the row, that a flush or an exit always has   *)
(* somebody to report to, and that the exit which swallowed an autosave    *)
(* can be told from every other operation by its reply channel.            *)

EpochsKnown(p) ==
    LET e == latest[p].epoch
        v == latest[p].ver IN
    /\ owner[p] <= row[p].epoch
    /\ e <= row[p].epoch
    /\ \A i \in 1 .. Len(queue) :
         queue[i].player = p /\ queue[i].ver = v => queue[i].epoch = e
    /\ v # 0 /\ lane[p].save.ver = v => lane[p].save.epoch = e
    /\ v # 0 /\ lane[p].exit.ver = v => lane[p].exit.epoch = e
    /\ \A o \in inFlight : o.player = p /\ o.ver = v => o.epoch = e

SomebodyToTell(p) ==
    /\ lane[p].save.kind = "flush" => lane[p].save.reply # 0
    /\ lane[p].exit # Nothing => lane[p].exit.reply = lane[p].exit.ver
    /\ \A o \in inFlight : o.player = p =>
         /\ o.kind = "flush" => o.reply # 0
         /\ o.kind = "exit" => o.reply = o.ver

\* reported and swallowed are history: older than all that is still held.
HistoryIsOld(p) ==
    /\ reported[p] <= latest[p].ver
    /\ swallowed[p].ver <= latest[p].ver
    /\ swallowed[p].exit <= latest[p].ver
    /\ swallowed[p].ver # 0 => swallowed[p].exit # 0
    /\ lane[p].save.ver # 0 => reported[p] < lane[p].save.ver
    /\ lane[p].exit.ver # 0 => reported[p] < lane[p].exit.ver
    /\ \A o \in inFlight : o.player = p => reported[p] < o.ver
    /\ \A i \in 1 .. Len(queue) : queue[i].player = p =>
         /\ reported[p] < queue[i].ver
         /\ swallowed[p].ver < queue[i].ver
         /\ swallowed[p].exit < queue[i].ver
    /\ lane[p].save.reply # 0 => lane[p].save.reply # swallowed[p].exit
    /\ \A o \in inFlight : o.player = p /\ o.reply # 0
                             /\ o.reply = swallowed[p].exit => o.kind = "exit"

\* A finished operation reported Ok is in the row or was fenced off, and an
\* exit reported Ok has fenced off the autosave it swallowed.
OkIsFinal(p) ==
    \A o \in inFlight : o.player = p /\ o.phase = "ok" =>
        /\ o.ver = latest[p].ver =>
             row[p].ver = o.ver \/ o.epoch < row[p].epoch
        /\ o.kind = "exit" /\ swallowed[p].exit = o.ver
             /\ swallowed[p].ver = latest[p].ver
           => latest[p].epoch < row[p].epoch

NewestKept(p) ==
    LET v == latest[p].ver IN
    v # 0 => \/ \E i \in 1 .. Len(queue) : queue[i].player = p /\ queue[i].ver = v
             \/ lane[p].save.ver = v
             \/ lane[p].exit.ver = v
             \/ \E o \in inFlight : o.player = p /\ o.ver = v
             \/ row[p].ver = v
             \/ reported[p] = v
             \/ reply[p][v] = "err"
             \/ latest[p].epoch < row[p].epoch
             \/ swallowed[p].ver = v /\ reply[p][swallowed[p].exit] # "ok"
             \/ lane[p].inFlight /\ \A o \in inFlight : o.player # p

Newest == \A p \in Players :
    /\ EpochsKnown(p) /\ SomebodyToTell(p) /\ HistoryIsOld(p) /\ OkIsFinal(p)
    /\ NewestKept(p)

\* The history variables and the reply table hold numbers and states.
LEMMA NewestTypes ==
    ASSUME TypeOK, NEW p \in Players
    PROVE  /\ reported[p] \in Nat /\ swallowed[p].ver \in Nat
           /\ swallowed[p].exit \in Nat /\ owner[p] \in Nat
           /\ reply[p] \in [Versions -> ReplyStates]
           /\ lane[p].save.epoch \in Nat /\ lane[p].exit.epoch \in Nat
<1>1. /\ reported \in [Players -> 0 .. MaxSubmits]
      /\ swallowed \in [Players -> [ver : 0 .. MaxSubmits, exit : 0 .. MaxSubmits]]
      /\ owner \in [Players -> Epochs]
      /\ reply \in [Players -> [Versions -> ReplyStates]]
  BY DEF TypeOK
<1>2. lane[p].save.epoch \in Epochs /\ lane[p].exit.epoch \in Epochs
  BY OrderTypes DEF Pending
<1> QED BY <1>1, <1>2, LanesAssumption DEF Epochs

\* Requesters, other cores and the retry delay keep the newest snapshot.
LEMMA NewestEnvStep ==
    ASSUME Shape, Order, Newest, NEW p \in Players,
           \/ \E k \in Kinds : Submit(p, k)
           \/ Reload(p) \/ OwnershipMoves(p) \/ RetryElapses(p)
    PROVE  Newest'
<1>0. TypeOK BY DEF Shape
<1>1. ASSUME NEW k \in Kinds, Submit(p, k) PROVE Newest'
  <2> DEFINE v == latest[p].ver + 1
             rq == [player |-> p, kind |-> k, ver |-> v, epoch |-> owner[p]]
  <2>1. /\ Len(queue') = Len(queue) + 1 /\ Len(queue) \in Nat
        /\ \A i \in 1 .. Len(queue) : queue'[i] = queue[i]
        /\ queue'[Len(queue) + 1] = rq
    <3>1. queue' = Append(queue, rq) BY <1>1 DEF Submit
    <3>2. queue \in Seq(Requests) BY <1>0 DEF TypeOK
    <3>3. rq \in Requests
      BY <1>0, <1>1, LanesAssumption DEF TypeOK, Submit, Requests, Versions
    <3> QED BY <3>1, <3>2, <3>3
  <2>2. /\ latest'[p].ver = v /\ latest'[p].epoch = owner[p]
        /\ \A q \in Players : q # p => latest'[q] = latest[q]
    BY <1>0, <1>1 DEF TypeOK, Submit
  <2>3. UNCHANGED <<lane, inFlight, row, owner, swallowed, reported>>
    BY <1>1 DEF Submit
  <2>4. \A q \in Players, u \in Versions : q # p => reply'[q][u] = reply[q][u]
    BY <1>0, <1>1 DEF Submit, TypeOK
  <2>5. \A i \in 1 .. Len(queue') :
          \/ i \in 1 .. Len(queue) /\ queue'[i] = queue[i]
          \/ i = Len(queue) + 1 /\ queue'[i] = rq
    BY <2>1
  <2>6. SUFFICES ASSUME NEW q \in Players
                 PROVE  (/\ EpochsKnown(q) /\ SomebodyToTell(q)
                         /\ HistoryIsOld(q) /\ OkIsFinal(q) /\ NewestKept(q))'
    BY DEF Newest
  <2>7. /\ EpochsKnown(q) /\ SomebodyToTell(q) /\ HistoryIsOld(q)
        /\ OkIsFinal(q) /\ NewestKept(q)
    BY DEF Newest
  <2>8. SomebodyToTell(q)' BY <2>3, <2>7 DEF SomebodyToTell
  <2>9. CASE q # p
    <3>1. latest'[q] = latest[q] BY <2>2, <2>9
    <3>2. \A i \in 1 .. Len(queue') : queue'[i].player = q =>
             i \in 1 .. Len(queue) /\ queue'[i] = queue[i]
      BY <2>5, <2>9
    <3>3. \A i \in 1 .. Len(queue) : i \in 1 .. Len(queue') BY <2>1
    <3>4. EpochsKnown(q)' BY <2>3, <2>7, <3>1, <3>2 DEF EpochsKnown
    <3>5. HistoryIsOld(q)' BY <2>3, <2>7, <3>1, <3>2 DEF HistoryIsOld
    <3>6. OkIsFinal(q)' BY <2>3, <2>7, <3>1 DEF OkIsFinal
    <3>7. reply'[q] = reply[q] BY <1>0, <1>1, <2>9 DEF Submit, TypeOK
    <3>8. NewestKept(q)' BY <2>1, <2>3, <2>7, <3>1, <3>3, <3>7 DEF NewestKept
    <3> QED BY <2>8, <3>4, <3>5, <3>6, <3>8
  <2>10. CASE q = p
    <3>1. OpsInOrder(p) /\ LaneInOrder(p) /\ QueueInOrder(p) BY DEF Order
    <3>2. /\ latest[p].ver \in Nat /\ row[p].epoch \in Nat /\ owner[p] \in Nat
          /\ reported[p] \in Nat /\ swallowed[p].ver \in Nat
          /\ swallowed[p].exit \in Nat /\ lane[p].save.ver \in Nat
          /\ lane[p].exit.ver \in Nat
          /\ \A o \in inFlight : o.ver \in Nat
          /\ \A i \in 1 .. Len(queue) : queue[i].ver \in Nat
      BY <1>0, OrderTypes, NewestTypes
    <3>3. /\ lane[p].save.ver < v /\ lane[p].exit.ver < v
          /\ \A o \in inFlight : o.player = p => o.ver < v
          /\ \A i \in 1 .. Len(queue) : queue[i].player = p => queue[i].ver < v
          /\ swallowed[p].ver < v /\ swallowed[p].exit < v /\ reported[p] < v
      <4>1. lane[p].save.ver < v /\ lane[p].exit.ver < v
        BY <3>1, <3>2 DEF LaneInOrder
      <4>2. \A o \in inFlight : o.player = p => o.ver < v
        BY <3>1, <3>2 DEF OpsInOrder
      <4>3. \A i \in 1 .. Len(queue) : queue[i].player = p => queue[i].ver < v
        BY <3>1, <3>2 DEF QueueInOrder
      <4>4. swallowed[p].ver < v /\ swallowed[p].exit < v /\ reported[p] < v
        BY <2>7, <2>10, <3>2 DEF HistoryIsOld
      <4> QED BY <4>1, <4>2, <4>3, <4>4
    <3>a. /\ v \in Nat
          /\ \A i \in 1 .. Len(queue') :
               \/ i \in 1 .. Len(queue) /\ queue'[i] = queue[i]
               \/ queue'[i].ver = v /\ queue'[i].epoch = owner[p]
      BY <2>5, <3>2
    <3>b. /\ EpochsKnown(p) /\ HistoryIsOld(p) BY <2>7, <2>10
    <3> HIDE DEF v
    <3>4. EpochsKnown(p)'
      <4>1. owner'[p] <= row'[p].epoch /\ latest'[p].epoch <= row'[p].epoch
        BY <2>2, <2>3, <3>b DEF EpochsKnown
      <4>2. ASSUME NEW i \in 1 .. Len(queue'), queue'[i].player = p, queue'[i].ver = v
            PROVE  queue'[i].epoch = owner[p]
        <5>1. CASE i \in 1 .. Len(queue) /\ queue'[i] = queue[i]
          <6>1. queue[i].ver < v /\ queue[i].ver \in Nat
            BY <3>2, <3>3, <4>2, <5>1
          <6> QED BY <3>a, <4>2, <5>1, <6>1
        <5> QED BY <3>a, <4>2, <5>1
      <4> QED BY <2>2, <2>3, <3>2, <3>3, <3>a, <4>1, <4>2 DEF EpochsKnown
    <3>5. HistoryIsOld(p)'
      <4>1. \A i \in 1 .. Len(queue') : queue'[i].player = p =>
              /\ reported[p] < queue'[i].ver
              /\ swallowed[p].ver < queue'[i].ver
              /\ swallowed[p].exit < queue'[i].ver
        BY <3>3, <3>a, <3>b DEF HistoryIsOld
      <4>2. reported[p] <= v /\ swallowed[p].ver <= v /\ swallowed[p].exit <= v
        BY <3>2, <3>3, <3>a
      <4> QED BY <2>2, <2>3, <3>b, <4>1, <4>2 DEF HistoryIsOld
    <3>6. OkIsFinal(p)'
      BY <2>2, <2>3, <2>7, <2>10, <3>2, <3>3 DEF OkIsFinal
    <3>7. NewestKept(p)'
      <4>1. Len(queue) + 1 \in 1 .. Len(queue') BY <2>1
      <4> QED BY <2>1, <2>2, <4>1 DEF NewestKept, v
    <3> QED BY <2>8, <2>10, <3>4, <3>5, <3>6, <3>7
  <2> QED BY <2>9, <2>10
<1>2. CASE Reload(p)
  <2>1. \A q \in Players : owner'[q] \in {owner[q], row[q].epoch}
    BY <1>0, <1>2 DEF TypeOK, Reload
  <2>2. UNCHANGED <<queue, lane, inFlight, row, reply, latest, swallowed, reported>>
    BY <1>2 DEF Reload
  <2>3. ASSUME NEW q \in Players
        PROVE  (/\ EpochsKnown(q) /\ SomebodyToTell(q)
                /\ HistoryIsOld(q) /\ OkIsFinal(q) /\ NewestKept(q))'
    <3>1. /\ EpochsKnown(q) /\ SomebodyToTell(q) /\ HistoryIsOld(q)
          /\ OkIsFinal(q) /\ NewestKept(q)
      BY <2>3 DEF Newest
    <3>2. row[q].epoch <= row[q].epoch BY <1>0, <2>3, OrderTypes
    <3>3. EpochsKnown(q)' BY <2>1, <2>2, <2>3, <3>1, <3>2 DEF EpochsKnown
    <3>4. (SomebodyToTell(q) /\ HistoryIsOld(q) /\ OkIsFinal(q) /\ NewestKept(q))'
      BY <2>2, <3>1 DEF SomebodyToTell, HistoryIsOld, OkIsFinal, NewestKept
    <3> QED BY <3>3, <3>4
  <2> QED BY <2>3 DEF Newest
<1>3. CASE OwnershipMoves(p)
  <2>1. \A q \in Players : /\ row'[q].ver = row[q].ver
                           /\ row'[q].epoch \in {row[q].epoch, row[q].epoch + 1}
    BY <1>0, <1>3 DEF TypeOK, OwnershipMoves
  <2>2. UNCHANGED <<queue, lane, inFlight, owner, reply, latest, swallowed, reported>>
    BY <1>3 DEF OwnershipMoves
  <2>3. ASSUME NEW q \in Players
        PROVE  (/\ EpochsKnown(q) /\ SomebodyToTell(q)
                /\ HistoryIsOld(q) /\ OkIsFinal(q) /\ NewestKept(q))'
    <3>1. /\ EpochsKnown(q) /\ SomebodyToTell(q) /\ HistoryIsOld(q)
          /\ OkIsFinal(q) /\ NewestKept(q)
      BY <2>3 DEF Newest
    <3>2. /\ row[q].epoch \in Nat /\ owner[q] \in Nat /\ latest[q].epoch \in Nat
          /\ \A o \in inFlight : o.epoch \in Nat
      BY <1>0, <2>3, OrderTypes, NewestTypes
    <3>3. EpochsKnown(q)' BY <2>1, <2>2, <2>3, <3>1, <3>2 DEF EpochsKnown
    <3>4. (SomebodyToTell(q) /\ HistoryIsOld(q))'
      BY <2>2, <3>1 DEF SomebodyToTell, HistoryIsOld
    <3>5. OkIsFinal(q)' BY <2>1, <2>2, <2>3, <3>1, <3>2 DEF OkIsFinal
    <3>6. NewestKept(q)' BY <2>1, <2>2, <2>3, <3>1, <3>2 DEF NewestKept
    <3> QED BY <3>3, <3>4, <3>5, <3>6
  <2> QED BY <2>3 DEF Newest
<1>4. CASE RetryElapses(p)
  <2>1. \A q \in Players : /\ lane'[q].save = lane[q].save
                           /\ lane'[q].exit = lane[q].exit
                           /\ lane'[q].inFlight = lane[q].inFlight
    BY <1>0, <1>4 DEF TypeOK, RetryElapses, Lanes
  <2>2. UNCHANGED <<queue, inFlight, row, owner, reply, latest, swallowed, reported>>
    BY <1>4 DEF RetryElapses
  <2> QED BY <2>1, <2>2 DEF Newest, EpochsKnown, SomebodyToTell, HistoryIsOld,
             OkIsFinal, NewestKept
<1> QED BY <1>1, <1>2, <1>3, <1>4

\* A merged save that must be flushed has a reply channel.
LEMMA CoalesceTells ==
    ASSUME NEW old \in Pending, NEW r \in Requests,
           old.kind = "flush" => old.reply # 0
    PROVE  Coalesce(old, r).kind = "flush" => Coalesce(old, r).reply # 0
BY DEF Coalesce, Pending, Requests, ReplyOf, Versions, Nothing, Kinds

\* Receiving a request keeps the newest snapshot.
LEMMA NewestRecvStep ==
    ASSUME Shape, Order, AckedIsDurable, Newest, Recv
    PROVE  Newest'
<1>0. TypeOK /\ WellFormed BY DEF Shape
<1>a. Head(queue) \in Requests /\ Head(queue).player \in Players
  BY <1>0, HeadTail DEF TypeOK, Recv, Requests
<1>b. PICK r \in Requests : r = Head(queue) BY <1>a
<1>c. PICK p \in Players : p = r.player BY <1>a, <1>b
<1> DEFINE l == lane[p]
           m == lane'[p]
<1>d. \/ r.kind = "exit" /\ StoreExit(r)
      \/ r.kind # "exit" /\ (RefuseSave(r) \/ StoreSave(r))
  BY <1>b DEF Recv, StoreExit, RefuseSave, StoreSave
<1>1. /\ r \in Requests /\ p \in Players /\ r.player = p /\ r.ver \in Nat /\ r.ver # 0
      /\ r.ver \in Versions
      /\ r = queue[1] /\ 1 \in 1 .. Len(queue)
      /\ \A i \in 1 .. Len(queue') : /\ queue'[i] = queue[i + 1]
                                     /\ i + 1 \in 1 .. Len(queue) /\ 1 < i + 1
      /\ \A i \in 1 .. Len(queue) :
           i = 1 \/ (i - 1 \in 1 .. Len(queue') /\ queue'[i - 1] = queue[i])
  <2>1. queue \in Seq(Requests) /\ queue # <<>> /\ queue' = Tail(queue)
    BY <1>0 DEF TypeOK, Recv
  <2>2. Len(queue) \in Nat /\ Len(queue) > 0 BY <2>1
  <2>3. r = queue[1] /\ 1 \in 1 .. Len(queue) BY <1>b, <2>1, <2>2, HeadTail
  <2>4. /\ Len(queue') = Len(queue) - 1
        /\ \A i \in 1 .. Len(queue') : /\ queue'[i] = queue[i + 1]
                                       /\ i + 1 \in 1 .. Len(queue) /\ 1 < i + 1
    BY <2>1, <2>2, HeadTail
  <2>5. ASSUME NEW i \in 1 .. Len(queue), i # 1
        PROVE  i - 1 \in 1 .. Len(queue') /\ queue'[i - 1] = queue[i]
    <3>1. i - 1 \in 1 .. Len(queue') /\ (i - 1) + 1 = i BY <2>2, <2>4, <2>5
    <3> QED BY <2>4, <3>1
  <2>6. r.ver \in Versions /\ p = r.player BY <1>b, <1>c DEF Requests
  <2> QED BY <1>b, <1>c, <2>3, <2>4, <2>5, <2>6, LanesAssumption DEF Versions
<1>2. UNCHANGED <<inFlight, row, latest, owner, reported>> BY DEF Recv
<1>3. /\ OpsInOrder(p) /\ LaneInOrder(p) /\ QueueInOrder(p)
      /\ EpochsKnown(p) /\ SomebodyToTell(p) /\ HistoryIsOld(p) /\ OkIsFinal(p)
      /\ NewestKept(p)
  BY <1>1 DEF Order, Newest
<1>4. /\ l \in Lanes /\ l.save \in Pending /\ l.exit \in Pending
      /\ row[p].ver \in Nat /\ latest[p].ver \in Nat
      /\ l.save.ver \in Nat /\ l.exit.ver \in Nat
      /\ l.save.reply \in Nat /\ l.exit.reply \in Nat
      /\ reported[p] \in Nat /\ swallowed[p].ver \in Nat
      /\ swallowed[p].exit \in Nat
      /\ \A o \in inFlight : o.ver \in Nat /\ o.ver # 0 /\ o.reply \in Nat
  BY <1>0, <1>1, OrderTypes, NewestTypes
<1>5. /\ row[p].ver < r.ver /\ l.save.ver < r.ver /\ l.exit.ver < r.ver
      /\ r.ver <= latest[p].ver
      /\ l.save.reply < r.ver /\ l.exit.reply < r.ver
      /\ reported[p] < r.ver /\ swallowed[p].ver < r.ver
      /\ swallowed[p].exit < r.ver
      /\ r.ver = latest[p].ver => r.epoch = latest[p].epoch
  BY <1>1, <1>3, <1>4 DEF QueueInOrder, LaneInOrder, HistoryIsOld, EpochsKnown
<1>6. \A o \in inFlight : o.player = p => o.ver < r.ver
  BY <1>1, <1>3 DEF OpsInOrder
<1>7. /\ \A q \in Players : q # p => lane'[q] = lane[q]
      /\ m.inFlight = l.inFlight
  <2>1. lane \in [Players -> Lanes] BY <1>0 DEF TypeOK
  <2>2. CASE RefuseSave(r)
    <3>1. lane' = lane BY <2>2 DEF RefuseSave
    <3> QED BY <3>1
  <2>3. CASE StoreSave(r)
    <3>1. lane' = [lane EXCEPT ![p].save = Coalesce(lane[p].save, r), ![p].retry = "none"]
      BY <1>c, <2>3 DEF StoreSave
    <3>2. \A x \in Lanes : \A s : [[x EXCEPT !.save = s] EXCEPT !.retry = "none"].inFlight
                                  = x.inFlight
      BY DEF Lanes
    <3> QED BY <1>4, <2>1, <3>1, <3>2
  <2>4. CASE StoreExit(r)
    <3> DEFINE e == [kind |-> "exit", ver |-> r.ver, epoch |-> r.epoch, reply |-> r.ver]
    <3>1. lane' = [lane EXCEPT ![p].save = Nothing, ![p].retry = "none", ![p].exit = e]
      BY <1>c, <2>4 DEF StoreExit
    <3> HIDE DEF e
    <3> QED BY <1>4, <2>1, <3>1 DEF Lanes
  <2> QED BY <1>d, <2>2, <2>3, <2>4
<1>8. \A q \in Players : q # p => reply'[q] = reply[q] /\ swallowed'[q] = swallowed[q]
  <2>1. /\ reply \in [Players -> [Versions -> ReplyStates]]
        /\ swallowed \in [Players -> [ver : 0 .. MaxSubmits, exit : 0 .. MaxSubmits]]
    BY <1>0 DEF TypeOK
  <2> QED BY <1>c, <1>d, <1>1, <2>1 DEF RefuseSave, StoreSave, StoreExit, Settle
<1>9. ASSUME NEW q \in Players, q # p
      PROVE  (/\ EpochsKnown(q) /\ SomebodyToTell(q) /\ HistoryIsOld(q)
              /\ OkIsFinal(q) /\ NewestKept(q))'
  <2>1. /\ EpochsKnown(q) /\ SomebodyToTell(q) /\ HistoryIsOld(q)
        /\ OkIsFinal(q) /\ NewestKept(q)
    BY <1>9 DEF Newest
  <2>2. lane'[q] = lane[q] /\ reply'[q] = reply[q] /\ swallowed'[q] = swallowed[q]
    BY <1>7, <1>8, <1>9
  <2>3. \A i \in 1 .. Len(queue) : queue[i].player = q =>
           i - 1 \in 1 .. Len(queue') /\ queue'[i - 1] = queue[i]
    BY <1>1, <1>9
  <2>a. UNCHANGED <<inFlight, row, latest, owner>> BY <1>2
  <2>4. EpochsKnown(q)'
    <3>1. ASSUME NEW i \in 1 .. Len(queue'),
                 queue'[i].player = q, queue'[i].ver = latest[q].ver
          PROVE  queue'[i].epoch = latest[q].epoch
      <4>1. PICK j \in 1 .. Len(queue) : queue'[i] = queue[j] BY <1>1
      <4> QED BY <2>1, <3>1, <4>1 DEF EpochsKnown
    <3>2. \A i \in 1 .. Len(queue') :
             queue'[i].player = q /\ queue'[i].ver = latest[q].ver
               => queue'[i].epoch = latest[q].epoch
      BY <3>1
    <3> QED BY <2>1, <2>2, <2>a, <3>2 DEF EpochsKnown
  <2>5. SomebodyToTell(q)' BY <1>2, <2>1, <2>2 DEF SomebodyToTell
  <2>6. HistoryIsOld(q)'
    <3>1. ASSUME NEW i \in 1 .. Len(queue'), queue'[i].player = q
          PROVE  /\ reported[q] < queue'[i].ver
                 /\ swallowed[q].ver < queue'[i].ver
                 /\ swallowed[q].exit < queue'[i].ver
      <4>1. PICK j \in 1 .. Len(queue) : queue'[i] = queue[j] BY <1>1
      <4> QED BY <2>1, <3>1, <4>1 DEF HistoryIsOld
    <3>2. UNCHANGED <<inFlight, latest, reported>> BY <1>2
    <3> QED BY <2>1, <2>2, <3>1, <3>2 DEF HistoryIsOld
  <2>7. OkIsFinal(q)' BY <1>2, <2>1, <2>2 DEF OkIsFinal
  <2>8. NewestKept(q)'
    <3>1. (\E i \in 1 .. Len(queue) : queue[i].player = q /\ queue[i].ver = latest[q].ver)
          => \E i \in 1 .. Len(queue') :
               queue'[i].player = q /\ queue'[i].ver = latest[q].ver
      BY <2>3
    <3> QED BY <1>2, <2>1, <2>2, <3>1 DEF NewestKept
  <2> QED BY <2>4, <2>5, <2>6, <2>7, <2>8
\* Only four of the cases of NewestKept can hold while r is in the queue.
<1>10. \/ latest[p].ver = r.ver
       \/ \E i \in 1 .. Len(queue') : queue'[i].player = p /\ queue'[i].ver = latest[p].ver
       \/ reply[p][latest[p].ver] = "err" /\ latest[p].ver # r.ver
       \/ latest[p].epoch < row[p].epoch
       \/ l.inFlight /\ \A o \in inFlight : o.player # p
  <2>1. latest[p].ver # 0 BY <1>1, <1>4, <1>5
  <2>2. /\ l.save.ver # latest[p].ver /\ l.exit.ver # latest[p].ver
        /\ row[p].ver # latest[p].ver /\ reported[p] # latest[p].ver
        /\ swallowed[p].ver # latest[p].ver
    BY <1>1, <1>4, <1>5
  <2>3. \A o \in inFlight : o.player = p => o.ver # latest[p].ver
    BY <1>1, <1>4, <1>5, <1>6
  <2>4. (\E i \in 1 .. Len(queue) : queue[i].player = p /\ queue[i].ver = latest[p].ver)
        => \/ latest[p].ver = r.ver
           \/ \E i \in 1 .. Len(queue') :
                queue'[i].player = p /\ queue'[i].ver = latest[p].ver
    <3> SUFFICES ASSUME NEW i \in 1 .. Len(queue), queue[i].player = p,
                        queue[i].ver = latest[p].ver, latest[p].ver # r.ver
                 PROVE  \E j \in 1 .. Len(queue') :
                          queue'[j].player = p /\ queue'[j].ver = latest[p].ver
      OBVIOUS
    <3>1. i # 1 BY <1>1
    <3>2. i - 1 \in 1 .. Len(queue') /\ queue'[i - 1] = queue[i] BY <1>1, <3>1
    <3> QED BY <3>2
  <2> QED BY <1>3, <2>1, <2>2, <2>3, <2>4 DEF NewestKept
<1>11. reply \in [Players -> [Versions -> ReplyStates]]
  BY <1>0 DEF TypeOK
<1>12. latest[p].ver \in Versions
  BY <1>0, <1>1, <1>4, <1>5, LanesAssumption DEF TypeOK, Versions
<1>13. /\ \A i \in 1 .. Len(queue') : queue'[i].player = p => r.ver < queue'[i].ver
       /\ \A i \in 1 .. Len(queue') :
            queue'[i].player = p /\ queue'[i].ver = latest[p].ver
              => queue'[i].epoch = latest[p].epoch
  <2>1. ASSUME NEW i \in 1 .. Len(queue'), queue'[i].player = p
        PROVE  r.ver < queue'[i].ver
    <3>1. PICK j \in 1 .. Len(queue) : queue'[i] = queue[j] /\ 1 < j
      BY <1>1
    <3>2. queue[1].ver < queue[j].ver
      BY <1>1, <1>3, <2>1, <3>1 DEF QueueInOrder
    <3> QED BY <1>1, <3>1, <3>2
  <2>2. ASSUME NEW i \in 1 .. Len(queue'), queue'[i].player = p,
               queue'[i].ver = latest[p].ver
        PROVE  queue'[i].epoch = latest[p].epoch
    <3>1. PICK j \in 1 .. Len(queue) : queue'[i] = queue[j]
      BY <1>1
    <3>2. queue[j].player = p /\ queue[j].ver = latest[p].ver
      BY <2>2, <3>1
    <3>3. queue[j].epoch = latest[p].epoch
      BY <1>3, <3>1, <3>2 DEF EpochsKnown
    <3> QED BY <3>1, <3>3
  <2> QED BY <2>1, <2>2
<1>14. CASE RefuseSave(r)
  <2>1. l.exit # Nothing /\ l.exit.ver # 0 /\ l.save = Nothing /\ m = l
    BY <1>0, <1>1, <1>14 DEF RefuseSave, WellFormed
  <2>2. l.exit.ver \in Versions /\ row[p].ver < l.exit.ver
    BY <1>3, <1>4, <2>1, LanesAssumption DEF LaneInOrder, Pending, Versions
  <2>3. \A o \in inFlight : o.player = p => o.ver < l.exit.ver /\ o.reply < l.exit.ver
    BY <1>3, <1>4, <2>1 DEF OpsInOrder
  <2>4. reply[p][l.exit.ver] # "ok"
    BY <1>1, <1>4, <2>2 DEF AckedIsDurable
  <2>5. swallowed \in [Players -> [ver : 0 .. MaxSubmits, exit : 0 .. MaxSubmits]]
    BY <1>0 DEF TypeOK
  <2>6. IF r.kind = "autosave"
        THEN /\ swallowed'[p].ver = r.ver /\ swallowed'[p].exit = l.exit.ver
             /\ reply'[p] = reply[p]
        ELSE /\ swallowed'[p] = swallowed[p]
             /\ reply'[p][r.ver] = "err"
             /\ \A u \in Versions : u # r.ver => reply'[p][u] = reply[p][u]
    <3>1. reply' = Settle(p, {ReplyOf(r)}, "err")
      BY <1>1, <1>14 DEF RefuseSave, Settle
    <3>2. CASE r.kind = "autosave"
      <4>1. \A u \in Versions : u # 0 BY LanesAssumption DEF Versions
      <4>2. reply'[p] = [u \in Versions |-> reply[p][u]]
        BY <1>1, <1>11, <3>1, <3>2, <4>1 DEF Settle, ReplyOf
      <4>3. reply'[p] = reply[p] BY <1>1, <1>11, <4>2
      <4> QED BY <1>1, <1>14, <2>5, <3>2, <4>3 DEF RefuseSave
    <3>3. CASE r.kind # "autosave"
      <4>1. reply'[p] = [u \in Versions |-> IF u = r.ver THEN "err" ELSE reply[p][u]]
        BY <1>1, <1>11, <3>1, <3>3 DEF Settle, ReplyOf
      <4> QED BY <1>1, <1>14, <3>3, <4>1 DEF RefuseSave
    <3> QED BY <3>2, <3>3
  <2>7. EpochsKnown(p)' BY <1>2, <1>3, <1>13, <2>1 DEF EpochsKnown
  <2>8. SomebodyToTell(p)' BY <1>2, <1>3, <2>1 DEF SomebodyToTell
  <2>9. HistoryIsOld(p)'
    <3>1. \A i \in 1 .. Len(queue') : queue'[i].player = p =>
             /\ reported[p] < queue'[i].ver /\ swallowed'[p].ver < queue'[i].ver
             /\ swallowed'[p].exit < queue'[i].ver
      <4> SUFFICES ASSUME NEW i \in 1 .. Len(queue'), queue'[i].player = p
                   PROVE  /\ reported[p] < queue'[i].ver
                          /\ swallowed'[p].ver < queue'[i].ver
                          /\ swallowed'[p].exit < queue'[i].ver
        OBVIOUS
      <4>1. queue'[i].ver \in Nat BY <1>0, <1>1, OrderTypes
      <4>2. r.ver < queue'[i].ver BY <1>13
      <4>3. /\ swallowed'[p].ver \in Nat /\ swallowed'[p].ver <= r.ver
            /\ swallowed'[p].exit \in Nat /\ swallowed'[p].exit < r.ver
        <5>1. /\ swallowed'[p].ver \in {swallowed[p].ver, r.ver}
              /\ swallowed'[p].exit \in {swallowed[p].exit, l.exit.ver}
          BY <2>6
        <5>2. /\ r.ver \in Nat /\ swallowed[p].ver \in Nat
              /\ swallowed[p].exit \in Nat /\ l.exit.ver \in Nat
          BY <1>1, <1>4
        <5>3. swallowed[p].ver < r.ver /\ swallowed[p].exit < r.ver /\ l.exit.ver < r.ver
          BY <1>5
        <5> HIDE DEF l
        <5> QED BY <5>1, <5>2, <5>3
      <4>4. r.ver \in Nat /\ reported[p] \in Nat /\ reported[p] < r.ver
        BY <1>1, <1>4, <1>5
      <4> QED BY <4>1, <4>2, <4>3, <4>4
    <3>2. swallowed'[p].ver <= latest[p].ver /\ swallowed'[p].exit <= latest[p].ver
      BY <1>1, <1>3, <1>4, <1>5, <2>6 DEF HistoryIsOld
    <3>3. lane'[p].save.reply = 0 BY <2>1 DEF Nothing
    <3>4. \A o \in inFlight : o.player = p /\ o.reply # 0
             /\ o.reply = swallowed'[p].exit => o.kind = "exit"
      BY <1>3, <1>4, <2>3, <2>6 DEF HistoryIsOld
    <3>5. swallowed'[p].ver # 0 => swallowed'[p].exit # 0
      <4>1. l.exit.ver # 0 BY <1>0, <2>1 DEF WellFormed
      <4>2. swallowed[p].ver # 0 => swallowed[p].exit # 0 BY <1>3 DEF HistoryIsOld
      <4> QED BY <2>6, <4>1, <4>2
    <3> QED BY <1>2, <1>3, <2>1, <3>1, <3>2, <3>3, <3>4, <3>5 DEF HistoryIsOld
  <2>10. OkIsFinal(p)'
    BY <1>2, <1>3, <1>4, <2>3, <2>6 DEF OkIsFinal
  <2>11. NewestKept(p)'
    <3>1. CASE latest[p].ver = r.ver
      BY <1>2, <2>4, <2>6, <3>1 DEF NewestKept
    <3>2. CASE latest[p].ver # r.ver
      <4>1. reply[p][latest[p].ver] = "err" => reply'[p][latest[p].ver] = "err"
        BY <1>12, <2>6, <3>2
      <4> QED BY <1>2, <1>10, <2>1, <3>2, <4>1 DEF NewestKept
    <3> QED BY <3>1, <3>2
  <2> QED BY <1>9, <2>7, <2>8, <2>9, <2>10, <2>11 DEF Newest
<1>15. CASE StoreSave(r) /\ r.kind # "exit"
  <2>1. lane \in [Players -> Lanes] BY <1>0 DEF TypeOK
  <2>2. m.save = Coalesce(l.save, r) /\ m.exit = Nothing /\ swallowed' = swallowed
    BY <1>1, <1>4, <1>15, <2>1 DEF StoreSave, Lanes
  <2>3. /\ m.save.ver = r.ver /\ m.save.epoch = r.epoch
        /\ m.save.reply \in {l.save.reply, 0, r.ver}
    BY <1>0, <1>1, <1>4, <1>15, <2>2, CoalesceWellFormed DEF WellFormed
  <2>4. m.save.kind = "flush" => m.save.reply # 0
    BY <1>1, <1>3, <1>4, <2>2, CoalesceTells DEF SomebodyToTell
  <2>5. \A u \in Versions : reply'[p][u] \in {reply[p][u], "err"}
    BY <1>1, <1>11, <1>15 DEF StoreSave, Settle
  <2>6. m.exit.ver = 0 /\ m.exit.reply = 0 BY <2>2 DEF Nothing
  <2>7. EpochsKnown(p)'
    BY <1>2, <1>3, <1>5, <1>13, <2>3, <2>6 DEF EpochsKnown
  <2>8. SomebodyToTell(p)' BY <1>2, <1>3, <2>2, <2>4 DEF SomebodyToTell
  <2>9. HistoryIsOld(p)'
    <3>1. m.save.reply # 0 => m.save.reply # swallowed[p].exit
      BY <1>1, <1>3, <1>4, <1>5, <2>3 DEF HistoryIsOld
    <3> QED BY <1>1, <1>2, <1>3, <1>5, <2>2, <2>3, <2>6, <3>1 DEF HistoryIsOld
  <2>10. OkIsFinal(p)' BY <1>2, <1>3, <2>2 DEF OkIsFinal
  <2>11. NewestKept(p)'
    BY <1>2, <1>7, <1>10, <1>12, <2>3, <2>5 DEF NewestKept
  <2> QED BY <1>9, <2>7, <2>8, <2>9, <2>10, <2>11 DEF Newest
<1>16. CASE StoreExit(r)
  <2>1. lane \in [Players -> Lanes] BY <1>0 DEF TypeOK
  <2>2. /\ m.save = Nothing /\ swallowed' = swallowed
        /\ m.exit.ver = r.ver /\ m.exit.epoch = r.epoch /\ m.exit.reply = r.ver
    BY <1>1, <1>4, <1>16, <2>1 DEF StoreExit, Lanes
  <2>3. m.save.ver = 0 /\ m.save.reply = 0 /\ m.save.kind # "flush"
    BY <2>2 DEF Nothing
  <2>4. reply'[p][latest[p].ver] = reply[p][latest[p].ver]
    <3>1. latest[p].ver # l.save.reply /\ latest[p].ver # l.exit.reply
      BY <1>1, <1>4, <1>5
    <3> QED BY <1>1, <1>11, <1>12, <1>16, <3>1 DEF StoreExit, Settle
  <2>7. EpochsKnown(p)'
    BY <1>2, <1>3, <1>5, <1>13, <2>2, <2>3 DEF EpochsKnown
  <2>8. SomebodyToTell(p)' BY <1>2, <1>3, <2>2, <2>3 DEF SomebodyToTell
  <2>9. HistoryIsOld(p)'
    BY <1>1, <1>2, <1>3, <1>5, <2>2, <2>3 DEF HistoryIsOld
  <2>10. OkIsFinal(p)' BY <1>2, <1>3, <2>2 DEF OkIsFinal
  <2>11. NewestKept(p)'
    BY <1>2, <1>7, <1>10, <2>2, <2>4 DEF NewestKept
  <2> QED BY <1>9, <2>7, <2>8, <2>9, <2>10, <2>11 DEF Newest
<1> QED BY <1>d, <1>14, <1>15, <1>16

\* Moving operations from the lanes to the JoinSet keeps it.
LEMMA NewestDispatchStep ==
    ASSUME Shape, Order, Newest, Dispatch
    PROVE  Newest'
<1>0. TypeOK /\ WellFormed BY DEF Shape
<1>1. PICK S \in SUBSET {p \in Players : Ready(lane[p])} :
        /\ lane' = [p \in Players |->
                      IF p \in S THEN TakeNext(lane[p]) ELSE lane[p]]
        /\ inFlight' = inFlight \cup {Spawned(p) : p \in S}
  BY DEF Dispatch, Picks
<1>2. UNCHANGED <<queue, row, latest, owner, reply, swallowed, reported>>
  BY DEF Dispatch
<1>3. \A p \in S : \A o \in inFlight : o.player # p
  BY <1>0, OrderTypes DEF Order, OpsInOrder, Ready
<1>4. \A p \in S : LET n == NextPending(lane[p]) IN
        /\ Spawned(p).player = p /\ Spawned(p).ver = n.ver
        /\ Spawned(p).kind = n.kind /\ Spawned(p).epoch = n.epoch
        /\ Spawned(p).reply = n.reply /\ Spawned(p).phase = "running"
  BY DEF Spawned
<1>5. SUFFICES ASSUME NEW q \in Players
               PROVE  (/\ EpochsKnown(q) /\ SomebodyToTell(q) /\ HistoryIsOld(q)
                       /\ OkIsFinal(q) /\ NewestKept(q))'
  BY DEF Newest
<1>6. /\ EpochsKnown(q) /\ SomebodyToTell(q) /\ HistoryIsOld(q)
      /\ OkIsFinal(q) /\ NewestKept(q)
  BY DEF Newest
<1>7. CASE q \notin S
  <2>1. lane'[q] = lane[q] BY <1>1, <1>5, <1>7
  <2>2. \A o \in inFlight' : o.player = q => o \in inFlight
    BY <1>1, <1>4, <1>7
  <2>3. inFlight \subseteq inFlight' BY <1>1
  <2>4. EpochsKnown(q)' BY <1>2, <1>6, <2>1, <2>2 DEF EpochsKnown
  <2>5. SomebodyToTell(q)' BY <1>6, <2>1, <2>2 DEF SomebodyToTell
  <2>6. HistoryIsOld(q)' BY <1>2, <1>6, <2>1, <2>2 DEF HistoryIsOld
  <2>7. OkIsFinal(q)' BY <1>2, <1>6, <2>2 DEF OkIsFinal
  <2>8. NewestKept(q)' BY <1>2, <1>6, <2>1, <2>2, <2>3 DEF NewestKept
  <2> QED BY <2>4, <2>5, <2>6, <2>7, <2>8
<1>8. CASE q \in S
  <2> DEFINE n == NextPending(lane[q])
             sp == Spawned(q)
  <2>1. lane'[q] = TakeNext(lane[q]) /\ lane[q] \in Lanes /\ ~lane[q].inFlight
    BY <1>0, <1>1, <1>5, <1>8, OrderTypes DEF Ready
  <2>2. lane[q].exit # Nothing => lane[q].save = Nothing /\ lane[q].exit.kind = "exit"
    BY <1>0, <1>5 DEF WellFormed
  <2>3. /\ lane'[q].inFlight = TRUE
        /\ lane'[q].save = Nothing /\ lane'[q].exit = Nothing
    BY <2>1, <2>2, TakeNextEffect
  <2>4. /\ lane'[q].save.ver = 0 /\ lane'[q].save.reply = 0
        /\ lane'[q].exit.ver = 0 /\ lane'[q].save.kind # "flush"
    BY <2>3 DEF Nothing
  <2>5. \A o \in inFlight' : o.player = q => o = sp
    BY <1>1, <1>3, <1>4, <1>8
  <2>6. /\ sp \in inFlight' /\ sp.player = q /\ sp.ver = n.ver /\ sp.kind = n.kind
        /\ sp.epoch = n.epoch /\ sp.reply = n.reply /\ sp.phase = "running"
    BY <1>1, <1>4, <1>8
  <2>7. \/ n = lane[q].exit /\ n.ver # 0 /\ n.kind = "exit" /\ lane[q].save.ver = 0
           /\ lane[q].exit # Nothing
        \/ n = lane[q].save /\ n.ver # 0 /\ n.kind # "exit" /\ lane[q].exit.ver = 0
    <3>1. CASE lane[q].exit # Nothing
      BY <1>0, <1>5, <2>2, <3>1 DEF WellFormed, NextPending, Nothing
    <3>2. CASE lane[q].exit = Nothing
      BY <1>0, <1>1, <1>5, <1>8, <3>2 DEF WellFormed, NextPending, Nothing, Ready
    <3> QED BY <3>1, <3>2
  <2> HIDE DEF n, sp
  <2>8. EpochsKnown(q)'
    BY <1>2, <1>6, <2>4, <2>5, <2>6, <2>7 DEF EpochsKnown
  <2>9. SomebodyToTell(q)'
    BY <1>6, <2>3, <2>4, <2>5, <2>6, <2>7 DEF SomebodyToTell
  <2>10. HistoryIsOld(q)'
    BY <1>2, <1>6, <2>4, <2>5, <2>6, <2>7 DEF HistoryIsOld
  <2>11. OkIsFinal(q)' BY <2>5, <2>6 DEF OkIsFinal
  <2>12. NewestKept(q)'
    BY <1>2, <1>3, <1>6, <1>8, <2>1, <2>6, <2>7 DEF NewestKept
  <2> QED BY <2>8, <2>9, <2>10, <2>11, <2>12
<1> QED BY <1>7, <1>8

\* Joining a finished or panicked task keeps it.
LEMMA NewestJoinStep ==
    ASSUME Shape, Order, Newest, NEW o \in inFlight, Join(o) \/ JoinPanicked(o)
    PROVE  Newest'
<1>0. TypeOK /\ WellFormed BY DEF Shape
<1>1. UNCHANGED <<queue, row, latest, owner, swallowed>> /\ inFlight' = inFlight \ {o}
  BY DEF Join, JoinPanicked
<1>2. PICK p \in Players : p = o.player BY <1>0, OrderTypes
<1>3. /\ lane \in [Players -> Lanes] /\ reported \in [Players -> 0 .. MaxSubmits]
      /\ reply \in [Players -> [Versions -> ReplyStates]]
  BY <1>0 DEF TypeOK
<1>4. \A x \in inFlight' : x.player # p
  BY <1>1, <1>2 DEF Order, OneOpPerPlayer
<1>5. ASSUME NEW q \in Players, q # p
      PROVE  (/\ EpochsKnown(q) /\ SomebodyToTell(q) /\ HistoryIsOld(q)
              /\ OkIsFinal(q) /\ NewestKept(q))'
  <2>1. /\ EpochsKnown(q) /\ SomebodyToTell(q) /\ HistoryIsOld(q)
        /\ OkIsFinal(q) /\ NewestKept(q)
    BY <1>5 DEF Newest
  <2>2. lane'[q] = lane[q] /\ reply'[q] = reply[q] /\ reported'[q] = reported[q]
    BY <1>2, <1>3, <1>5 DEF Join, JoinPanicked, Settle
  <2>3. \A x \in inFlight : x.player = q => x \in inFlight'
    BY <1>1, <1>2, <1>5
  <2>4. EpochsKnown(q)' BY <1>1, <2>1, <2>2 DEF EpochsKnown
  <2>5. SomebodyToTell(q)' BY <1>1, <2>1, <2>2 DEF SomebodyToTell
  <2>6. HistoryIsOld(q)' BY <1>1, <2>1, <2>2 DEF HistoryIsOld
  <2>7. OkIsFinal(q)' BY <1>1, <2>1, <2>2 DEF OkIsFinal
  <2>8. NewestKept(q)' BY <1>1, <2>1, <2>2, <2>3 DEF NewestKept
  <2> QED BY <2>4, <2>5, <2>6, <2>7, <2>8
<1>6. /\ OpsInOrder(p) /\ LaneInOrder(p)
      /\ EpochsKnown(p) /\ SomebodyToTell(p) /\ HistoryIsOld(p) /\ OkIsFinal(p)
      /\ NewestKept(p)
  BY DEF Order, Newest
<1>7. /\ o \in Ops /\ o.ver \in Nat /\ o.ver # 0 /\ o.reply \in Nat
      /\ o.epoch \in Nat
      /\ row[p].ver \in Nat /\ latest[p].ver \in Nat
      /\ lane[p].save.ver \in Nat /\ lane[p].exit.ver \in Nat
      /\ lane[p] \in Lanes
      /\ reported[p] \in Nat /\ swallowed[p].exit \in Nat
  BY <1>0, OrderTypes, NewestTypes
<1>8. /\ lane[p].inFlight /\ o.ver <= latest[p].ver /\ o.reply <= o.ver
      /\ row[p].ver <= o.ver /\ reported[p] < o.ver
      /\ \A i \in 1 .. Len(queue) : queue[i].player = p => o.ver < queue[i].ver
      /\ lane[p].save.ver # 0 => o.ver < lane[p].save.ver
      /\ lane[p].exit.ver # 0 => o.ver < lane[p].exit.ver
      /\ o.kind = "flush" => o.reply # 0
      /\ o.kind = "exit" => o.reply = o.ver
      /\ o.reply # 0 /\ o.reply = swallowed[p].exit => o.kind = "exit"
      /\ o.ver = latest[p].ver => o.epoch = latest[p].epoch
  BY <1>2, <1>6 DEF OpsInOrder, SomebodyToTell, HistoryIsOld, EpochsKnown
<1>9. CASE JoinPanicked(o)
  <2>1. lane' = lane /\ reported' = reported BY <1>9 DEF JoinPanicked
  <2>2. EpochsKnown(p)' BY <1>1, <1>6, <2>1 DEF EpochsKnown
  <2>3. SomebodyToTell(p)' BY <1>1, <1>6, <2>1 DEF SomebodyToTell
  <2>4. HistoryIsOld(p)' BY <1>1, <1>6, <2>1 DEF HistoryIsOld
  <2>5. OkIsFinal(p)' BY <1>1, <1>6 DEF OkIsFinal
  <2>6. NewestKept(p)' BY <1>4, <1>8, <2>1 DEF NewestKept
  <2> QED BY <1>5, <2>2, <2>3, <2>4, <2>5, <2>6 DEF Newest
<1>10. CASE Join(o)
  <2> DEFINE l == lane[p]
             m == lane'[p]
  <2>1. m = AfterCompletion(l, o) BY <1>2, <1>3, <1>10 DEF Join
  <2>2. /\ m.exit = l.exit /\ m.save.kind # "exit"
        /\ m.save.kind = "autosave" => m.save.reply = 0
        /\ \/ m.save = l.save
           \/ /\ l.save = Nothing
              /\ m.save.ver = o.ver /\ m.save.epoch = o.epoch
              /\ m.save.reply = o.reply /\ o.kind = "autosave" /\ o.phase = "err"
        /\ o.kind = "autosave" /\ o.phase = "err"
              /\ l.save = Nothing /\ l.exit = Nothing => m.save.ver = o.ver
    BY <1>0, <1>2, <1>7, <2>1, AfterCompletionWellFormed DEF WellFormed
  <2>3. o.kind = "autosave" => o.reply = 0 BY <1>0 DEF WellFormed
  <2>4. m.save = l.save \/ (m.save.ver = o.ver /\ m.save.epoch = o.epoch
                            /\ m.save.reply = 0 /\ m.save.kind # "flush")
    <3>1. CASE m.save = l.save BY <3>1
    <3>2. CASE m.save # l.save
      <4>1. m.save.kind \in Kinds
        <5>1. m \in Lanes BY <1>7, <2>1, AfterCompletionType
        <5> QED BY <5>1 DEF Lanes, Pending
      <4>2. m.save = [kind |-> o.kind, ver |-> o.ver, epoch |-> o.epoch, reply |-> o.reply]
        BY <1>7, <2>1, <3>2 DEF AfterCompletion, Lanes, IdleLane
      <4> QED BY <2>2, <2>3, <3>2, <4>2
    <3> QED BY <3>1, <3>2
  <2>5. reported'[p] = IF o.phase = "err" /\ o.reply # 0 THEN o.ver ELSE reported[p]
    BY <1>2, <1>3, <1>10 DEF Join
  <2>6. EpochsKnown(p)'
    BY <1>1, <1>6, <1>8, <2>2, <2>4 DEF EpochsKnown
  <2>7. SomebodyToTell(p)'
    BY <1>1, <1>6, <2>2, <2>4 DEF SomebodyToTell
  <2>8. HistoryIsOld(p)'
    <3>1. CASE reported'[p] = reported[p]
      BY <1>1, <1>4, <1>6, <1>8, <2>2, <2>4, <3>1 DEF HistoryIsOld
    <3>2. CASE reported'[p] = o.ver /\ o.reply # 0
      <4>1. m.save = l.save BY <2>2, <2>3, <3>2
      <4> QED BY <1>1, <1>4, <1>6, <1>8, <2>2, <3>2, <4>1 DEF HistoryIsOld
    <3> QED BY <2>5, <3>1, <3>2
  <2>9. OkIsFinal(p)' BY <1>4 DEF OkIsFinal
  <2>10. NewestKept(p)'
    <3>1. CASE o.ver = latest[p].ver
      <4>1. CASE o.phase = "ok"
        BY <1>1, <1>2, <1>6, <1>8, <3>1, <4>1 DEF OkIsFinal, NewestKept
      <4>2. CASE o.phase # "ok" /\ o.kind # "autosave"
        <5>1. o.phase = "err" /\ o.reply # 0
          BY <1>7, <1>8, <1>10, <4>2 DEF Join, Ops, Kinds
        <5> QED BY <1>1, <2>5, <3>1, <5>1 DEF NewestKept
      <4>3. CASE o.phase # "ok" /\ o.kind = "autosave"
        <5>1. o.phase = "err" BY <1>7, <1>10, <4>3 DEF Join, Ops
        <5>2. l.save.ver = 0 /\ l.exit.ver = 0
          BY <1>6, <1>7, <1>8, <3>1 DEF LaneInOrder
        <5>3. l.save = Nothing /\ l.exit = Nothing
          BY <1>0, <5>2 DEF WellFormed
        <5> QED BY <1>1, <2>2, <3>1, <4>3, <5>1, <5>3 DEF NewestKept
      <4> QED BY <4>1, <4>2, <4>3
    <3>2. CASE o.ver # latest[p].ver
      <4> DEFINE v == latest[p].ver
      <4>1. SUFFICES ASSUME v # 0 PROVE NewestKept(p)'
        BY <1>1 DEF NewestKept
      <4>2. v \in Versions
        BY <1>0, <4>1, LanesAssumption DEF TypeOK, Versions
      <4>3. o.reply # v BY <1>7, <1>8, <3>2
      <4>4. reply'[p][v] = reply[p][v]
        BY <1>2, <1>3, <1>10, <4>2, <4>3 DEF Join, Settle
      <4>5. \A x \in inFlight : x.player = p => x.ver # v
        BY <1>2, <3>2 DEF Order, OneOpPerPlayer
      <4>6. reported[p] # v BY <1>7, <1>8
      <4>7. l.save.ver = v => m.save.ver = v
        <5>1. CASE m.save = l.save BY <5>1
        <5>2. CASE l.save = Nothing BY <4>1, <5>2 DEF Nothing
        <5> QED BY <2>2, <5>1, <5>2
      <4>8. swallowed[p].ver = v /\ reply[p][swallowed[p].exit] # "ok"
            => reply'[p][swallowed[p].exit] # "ok" \/ latest[p].epoch < row[p].epoch
        <5> SUFFICES ASSUME swallowed[p].ver = v, reply[p][swallowed[p].exit] # "ok",
                            reply'[p][swallowed[p].exit] = "ok"
                     PROVE  latest[p].epoch < row[p].epoch
          OBVIOUS
        <5>1. o.kind # "autosave" /\ reply' = Settle(p, {o.reply}, o.phase)
          BY <1>2, <1>10 DEF Join, Settle
        <5>2. reply'[p] = [u \in Versions |-> IF u = o.reply THEN o.phase ELSE reply[p][u]]
          BY <1>3, <5>1 DEF Settle
        <5>3. swallowed[p].exit \in Versions
          <6>1. swallowed[p].exit \in 0 .. MaxSubmits /\ swallowed[p].exit # 0
            BY <1>0, <1>6, <4>1 DEF TypeOK, HistoryIsOld
          <6> QED BY <6>1, LanesAssumption DEF Versions
        <5>4. swallowed[p].exit = o.reply /\ o.phase = "ok" BY <5>2, <5>3
        <5>5. o.reply # 0 BY <5>3, <5>4, LanesAssumption DEF Versions
        <5>6. o.kind = "exit" /\ swallowed[p].exit = o.ver
          BY <1>8, <5>4, <5>5
        <5> QED BY <1>2, <1>6, <5>4, <5>6 DEF OkIsFinal
      <4>9. ~(l.inFlight /\ \A x \in inFlight : x.player # p)
        BY <1>2
      <4>10. \/ \E i \in 1 .. Len(queue) : queue[i].player = p /\ queue[i].ver = v
             \/ l.save.ver = v
             \/ l.exit.ver = v
             \/ row[p].ver = v
             \/ reply[p][v] = "err"
             \/ latest[p].epoch < row[p].epoch
             \/ swallowed[p].ver = v /\ reply[p][swallowed[p].exit] # "ok"
        BY <1>6, <4>1, <4>5, <4>6, <4>9 DEF NewestKept
      <4>11. m.exit.ver = l.exit.ver BY <2>2
      <4> HIDE DEF v, l, m
      <4>12. \/ \E i \in 1 .. Len(queue) : queue[i].player = p /\ queue[i].ver = v
             \/ m.save.ver = v
             \/ m.exit.ver = v
             \/ row[p].ver = v
             \/ reply'[p][v] = "err"
             \/ latest[p].epoch < row[p].epoch
             \/ swallowed[p].ver = v /\ reply'[p][swallowed[p].exit] # "ok"
        BY <4>4, <4>7, <4>8, <4>10, <4>11
      <4> USE DEF v, m
      <4> QED BY <1>1, <4>12 DEF NewestKept
    <3> QED BY <3>1, <3>2
  <2> QED BY <1>5, <2>6, <2>7, <2>8, <2>9, <2>10 DEF Newest
<1> QED BY <1>9, <1>10

\* A database answer keeps it: a save or an exit that is reported Ok is in
\* the row, or belongs to an epoch that is over.
LEMMA NewestDbStep ==
    ASSUME Shape, Order, Newest, NEW o \in inFlight, DbAnswers(o)
    PROVE  Newest'
<1>0. TypeOK /\ WellFormed BY DEF Shape
<1>1. PICK n \in Ops :
        /\ n.phase \in {"ok", "err"}
        /\ n.player = o.player /\ n.kind = o.kind /\ n.ver = o.ver
        /\ n.epoch = o.epoch /\ n.reply = o.reply
        /\ inFlight' = (inFlight \ {o}) \cup {n}
        /\ DbUnchanged
        /\ \A p \in Players : p # o.player => row'[p] = row[p]
        /\ \/ row' = row /\ (n.phase = "ok" => o.kind # "exit"
                                /\ o.epoch # row[o.player].epoch)
           \/ /\ row'[o.player].ver = o.ver
              /\ o.epoch = row[o.player].epoch
              /\ row'[o.player].epoch =
                   IF o.kind = "exit" THEN o.epoch + 1 ELSE o.epoch
  BY <1>0, DbAnswerEffect
<1>2. UNCHANGED <<queue, lane, owner, reply, latest, swallowed, reported>>
  BY <1>1 DEF DbUnchanged
<1>3. PICK p \in Players : p = o.player BY <1>0, OrderTypes
<1>4. \A x \in inFlight' : x = n \/ x \in inFlight BY <1>1
<1>5. \A x \in inFlight : x \in inFlight' \/ x = o BY <1>1
<1>6. ASSUME NEW q \in Players, q # p
      PROVE  (/\ EpochsKnown(q) /\ SomebodyToTell(q) /\ HistoryIsOld(q)
              /\ OkIsFinal(q) /\ NewestKept(q))'
  <2>1. /\ EpochsKnown(q) /\ SomebodyToTell(q) /\ HistoryIsOld(q)
        /\ OkIsFinal(q) /\ NewestKept(q)
    BY <1>6 DEF Newest
  <2>2. row'[q] = row[q] BY <1>1, <1>3, <1>6
  <2>3. \A x \in inFlight' : x.player = q => x \in inFlight
    BY <1>1, <1>3, <1>4, <1>6
  <2>4. \A x \in inFlight : x.player = q => x \in inFlight'
    BY <1>3, <1>5, <1>6
  <2>5. EpochsKnown(q)' BY <1>2, <1>6, <2>1, <2>2, <2>3 DEF EpochsKnown
  <2>6. SomebodyToTell(q)' BY <1>2, <1>6, <2>1, <2>3 DEF SomebodyToTell
  <2>7. HistoryIsOld(q)' BY <1>2, <1>6, <2>1, <2>3 DEF HistoryIsOld
  <2>8. OkIsFinal(q)' BY <1>2, <1>6, <2>1, <2>2, <2>3 DEF OkIsFinal
  <2>9. NewestKept(q)' BY <1>2, <1>6, <2>1, <2>2, <2>3, <2>4 DEF NewestKept
  <2> QED BY <2>5, <2>6, <2>7, <2>8, <2>9
<1>7. /\ EpochsKnown(p) /\ SomebodyToTell(p) /\ HistoryIsOld(p) /\ OkIsFinal(p)
      /\ NewestKept(p) /\ OpsInOrder(p)
  BY DEF Order, Newest
<1>8. \A x \in inFlight' : x.player = p => x = n
  BY <1>1, <1>3, <1>4 DEF Order, OneOpPerPlayer
<1>9. /\ row[p].epoch \in Nat /\ latest[p].epoch \in Nat /\ owner[p] \in Nat
      /\ o.epoch \in Nat /\ o.ver \in Nat /\ row[p].ver \in Nat
      /\ latest[p].ver \in Nat
  BY <1>0, OrderTypes, NewestTypes, LanesAssumption DEF Ops, Epochs
<1>10. row'[p].epoch \in Nat /\ row[p].epoch <= row'[p].epoch
  BY <1>1, <1>3, <1>9
<1>11. EpochsKnown(p)'
  <2>1. owner[p] <= row'[p].epoch /\ latest[p].epoch <= row'[p].epoch
    BY <1>7, <1>9, <1>10 DEF EpochsKnown
  <2>2. n.ver = latest[p].ver => n.epoch = latest[p].epoch
    BY <1>1, <1>3, <1>7 DEF EpochsKnown
  <2> QED BY <1>2, <1>7, <1>8, <2>1, <2>2 DEF EpochsKnown
<1>12. SomebodyToTell(p)'
  BY <1>1, <1>2, <1>3, <1>7, <1>8 DEF SomebodyToTell
<1>13. HistoryIsOld(p)'
  BY <1>1, <1>2, <1>3, <1>7, <1>8 DEF HistoryIsOld
<1>14. OkIsFinal(p)'
  <2> SUFFICES ASSUME n.phase = "ok"
               PROVE  /\ n.ver = latest[p].ver =>
                           row'[p].ver = n.ver \/ n.epoch < row'[p].epoch
                      /\ n.kind = "exit" /\ swallowed[p].exit = n.ver
                           /\ swallowed[p].ver = latest[p].ver
                         => latest[p].epoch < row'[p].epoch
    BY <1>2, <1>8 DEF OkIsFinal
  <2>1. CASE row' = row /\ o.kind # "exit" /\ o.epoch # row[p].epoch
    <3>1. n.ver = latest[p].ver => n.epoch <= row[p].epoch
      BY <1>1, <1>3, <1>7 DEF EpochsKnown
    <3> QED BY <1>1, <1>9, <2>1, <3>1
  <2>2. CASE /\ row'[p].ver = o.ver /\ o.epoch = row[p].epoch
             /\ row'[p].epoch = IF o.kind = "exit" THEN o.epoch + 1 ELSE o.epoch
    BY <1>1, <1>7, <1>9, <2>2 DEF EpochsKnown
  <2> QED BY <1>1, <1>3, <2>1, <2>2
<1>15. NewestKept(p)'
  <2>1. \E x \in inFlight' : x.player = p BY <1>1, <1>3
  <2>2. CASE o.ver = latest[p].ver
    <3>1. n \in inFlight' /\ n.player = p /\ n.ver = latest[p].ver
      BY <1>1, <1>3, <2>2
    <3> QED BY <1>2, <3>1 DEF NewestKept
  <2>3. CASE o.ver # latest[p].ver
    <3>1. o.ver < latest[p].ver /\ row[p].ver <= o.ver
      BY <1>3, <1>7, <1>9, <2>3 DEF OpsInOrder
    <3>2. row[p].ver # latest[p].ver BY <1>9, <3>1
    <3>3. \A x \in inFlight : x.player = p => x.ver # latest[p].ver
      BY <1>3, <2>3 DEF Order, OneOpPerPlayer
    <3>4. latest[p].epoch < row[p].epoch => latest[p].epoch < row'[p].epoch
      BY <1>9, <1>10
    <3>5. ~ \A x \in inFlight : x.player # p BY <1>3
    <3> QED BY <1>2, <1>7, <3>2, <3>3, <3>4, <3>5 DEF NewestKept
  <2> QED BY <2>2, <2>3
<1> QED BY <1>6, <1>11, <1>12, <1>13, <1>14, <1>15 DEF Newest

\* Every step keeps the invariant on the newest snapshot.
LEMMA NewestStep ==
    Shape /\ Order /\ AckedIsDurable /\ Newest /\ [Next]_vars => Newest'
<1> SUFFICES ASSUME Shape, Order, AckedIsDurable, Newest, [Next]_vars
             PROVE  Newest'
  OBVIOUS
<1>1. CASE UNCHANGED <<queue, lane, inFlight, row, owner, reply, latest,
                       swallowed, reported>>
  BY <1>1 DEF Newest, EpochsKnown, SomebodyToTell, HistoryIsOld, OkIsFinal, NewestKept
<1>2. ASSUME NEW p \in Players,
             \/ \E k \in Kinds : Submit(p, k)
             \/ Reload(p) \/ OwnershipMoves(p) \/ RetryElapses(p)
      PROVE  Newest'
  BY <1>2, NewestEnvStep
<1>3. ASSUME NEW p \in Players, DeletePlayer(p) PROVE Newest'
  BY <1>1, <1>3 DEF DeletePlayer
<1>4. CASE DropSenders BY <1>1, <1>4 DEF DropSenders
<1>5. CASE Recv BY <1>5, NewestRecvStep
<1>6. CASE RecvClosed BY <1>1, <1>6 DEF RecvClosed
<1>7. CASE Dispatch BY <1>7, NewestDispatchStep
<1>8. CASE RetryTimer BY <1>1, <1>8 DEF RetryTimer
<1>9. CASE SelectPanics BY <1>1, <1>9 DEF SelectPanics
<1>10. ASSUME NEW o \in inFlight, Join(o) \/ JoinPanicked(o) PROVE Newest'
  BY <1>10, NewestJoinStep
<1>11. ASSUME NEW o \in inFlight, DbAnswers(o) PROVE Newest'
  BY <1>11, NewestDbStep
<1>12. CASE UNCHANGED vars BY <1>1, <1>12 DEF vars
<1> QED BY <1>2, <1>3, <1>4, <1>5, <1>6, <1>7, <1>8, <1>9, <1>10, <1>11, <1>12
        DEF Next, Ended

\* The last snapshot admitted for a player is never lost silently.
THEOREM NewestIsNeverLost == Spec => []NewestSurvives
<1>1. Init => Newest
  <2> SUFFICES ASSUME Init, NEW p \in Players
               PROVE  /\ EpochsKnown(p) /\ SomebodyToTell(p) /\ HistoryIsOld(p)
                      /\ OkIsFinal(p) /\ NewestKept(p)
    BY DEF Newest
  <2>1. /\ Len(queue) = 0 /\ inFlight = {} /\ owner[p] = 0
        /\ row[p].ver = 0 /\ row[p].epoch = 0
        /\ latest[p].ver = 0 /\ latest[p].epoch = 0
        /\ lane[p].save = Nothing /\ lane[p].exit = Nothing
        /\ swallowed[p].ver = 0 /\ swallowed[p].exit = 0 /\ reported[p] = 0
    BY DEF Init, IdleLane
  <2> QED BY <2>1 DEF EpochsKnown, SomebodyToTell, HistoryIsOld, OkIsFinal,
             NewestKept, Nothing
<1>2. Shape /\ Order /\ AckedIsDurable /\ Newest /\ [Next]_vars => Newest'
  BY NewestStep
<1>3. Shape /\ Newest => NewestSurvives
  <2> SUFFICES ASSUME Shape, Newest, NEW p \in Players, latest[p].ver # 0
               PROVE  LET v == latest[p].ver IN
                      \/ v \in Queued(p) \cup Waiting(p) \cup Running(p)
                      \/ row[p].ver = v
                      \/ reported[p] = v
                      \/ reply[p][v] = "err"
                      \/ latest[p].epoch < row[p].epoch
                      \/ /\ swallowed[p].ver = v
                         /\ reply[p][swallowed[p].exit] # "ok"
                      \/ Wedged(p)
    BY DEF NewestSurvives
  <2> DEFINE v == latest[p].ver
  <2>1. NewestKept(p) BY DEF Newest
  <2>2. DOMAIN queue = 1 .. Len(queue) BY DEF Shape, TypeOK
  <2>3. ASSUME NEW i \in 1 .. Len(queue), queue[i].player = p, queue[i].ver = v
        PROVE  v \in Queued(p)
    BY <2>2, <2>3 DEF Queued
  <2>4. lane[p].save.ver = v \/ lane[p].exit.ver = v => v \in Waiting(p)
    BY DEF Waiting
  <2>5. ASSUME NEW o \in inFlight, o.player = p, o.ver = v PROVE v \in Running(p)
    BY <2>5 DEF Running
  <2>6. (\A o \in inFlight : o.player # p) => Running(p) = {}
    BY DEF Running
  <2> QED BY <2>1, <2>3, <2>4, <2>5, <2>6 DEF NewestKept, Wedged
<1> QED BY <1>1, <1>2, <1>3, ShapeInvariant, OrderInvariant, AcksAreDurable,
        PTL DEF Spec

-----------------------------------------------------------------------------
(* The worker implements DurableRows.  Beyond what is proved above the     *)
(* mapping needs that an answer is final: a reply channel that a lane or a *)
(* running operation holds has not been told Ok, and no two of them hold   *)
(* the same one.                                                           *)

RepliesAreOwed ==
    \A p \in Players :
        /\ lane[p].save.reply # 0 => reply[p][lane[p].save.reply] # "ok"
        /\ lane[p].exit.reply # 0 => reply[p][lane[p].exit.reply] # "ok"
        /\ \A o \in inFlight : o.player = p /\ o.reply # 0 =>
             /\ reply[p][o.reply] # "ok"
             /\ lane[p].save.reply # o.reply /\ lane[p].exit.reply # o.reply

\* The step gives no Ok and takes none back.
SameOks == \A q \in Players, v \in Versions : reply'[q][v] = "ok" <=> reply[q][v] = "ok"

\* What Settle makes of each reply.
LEMMA SettleAt ==
    ASSUME TypeOK, NEW p \in Players, NEW rs, NEW st, NEW q \in Players, NEW v \in Versions
    PROVE  Settle(p, rs, st)[q][v] = IF q = p /\ v \in rs THEN st ELSE reply[q][v]
<1>1. reply \in [Players -> [Versions -> ReplyStates]] BY DEF TypeOK
<1> QED BY <1>1 DEF Settle

\* A reply that is held is one of a version.
LEMMA HeldReplies ==
    ASSUME TypeOK, NEW p \in Players
    PROVE  /\ lane[p].save.reply \in 0 .. MaxSubmits /\ lane[p].exit.reply \in 0 .. MaxSubmits
           /\ lane[p].save.reply # 0 => lane[p].save.reply \in Versions
           /\ lane[p].exit.reply # 0 => lane[p].exit.reply \in Versions
           /\ \A o \in inFlight : o.reply # 0 => o.reply \in Versions
           /\ 0 \notin Versions
<1>1. \A n \in 0 .. MaxSubmits : n # 0 => n \in Versions
  BY LanesAssumption DEF Versions
<1>2. 0 \notin Versions BY DEF Versions
<1>3. lane[p].save.reply \in 0 .. MaxSubmits /\ lane[p].exit.reply \in 0 .. MaxSubmits
  BY OrderTypes DEF Pending
<1>4. \A o \in inFlight : o.reply \in 0 .. MaxSubmits BY DEF TypeOK, Ops
<1> QED BY <1>1, <1>2, <1>3, <1>4

\* A snapshot that is newer than the row was not acknowledged.
LEMMA NewIsUntold ==
    ASSUME TypeOK, AckedIsDurable, NEW p \in Players, NEW v \in Versions, row[p].ver < v
    PROVE  reply[p][v] # "ok"
<1>1. row[p].ver \in Nat /\ v \in Nat BY OrderTypes, LanesAssumption DEF Versions
<1> QED BY <1>1 DEF AckedIsDurable

\* A step that keeps the answers and only moves or drops held replies.
LEMMA StillOwed ==
    ASSUME TypeOK, RepliesAreOwed, SameOks, NEW p \in Players,
           lane'[p].save.reply \in {0, lane[p].save.reply},
           lane'[p].exit.reply \in {0, lane[p].exit.reply},
           \A o \in inFlight' :
             o.player = p => \E x \in inFlight : x.player = p /\ x.reply = o.reply
    PROVE  /\ lane'[p].save.reply # 0 => reply'[p][lane'[p].save.reply] # "ok"
           /\ lane'[p].exit.reply # 0 => reply'[p][lane'[p].exit.reply] # "ok"
           /\ \A o \in inFlight' : o.player = p /\ o.reply # 0 =>
                /\ reply'[p][o.reply] # "ok"
                /\ lane'[p].save.reply # o.reply /\ lane'[p].exit.reply # o.reply
<1>1. /\ lane[p].save.reply # 0 => /\ reply[p][lane[p].save.reply] # "ok"
                                   /\ reply'[p][lane[p].save.reply] # "ok"
      /\ lane[p].exit.reply # 0 => /\ reply[p][lane[p].exit.reply] # "ok"
                                   /\ reply'[p][lane[p].exit.reply] # "ok"
  BY HeldReplies DEF RepliesAreOwed, SameOks
<1>2. \A x \in inFlight : x.player = p /\ x.reply # 0 =>
         /\ reply[p][x.reply] # "ok" /\ reply'[p][x.reply] # "ok"
         /\ lane[p].save.reply # x.reply /\ lane[p].exit.reply # x.reply
  BY HeldReplies DEF RepliesAreOwed, SameOks
<1> QED BY <1>1, <1>2

\* Admitting a request opens a reply that was never used.
LEMMA SubmitOks ==
    ASSUME Shape, Order, AckedIsDurable, NEW p \in Players, NEW k \in Kinds, Submit(p, k)
    PROVE  SameOks
<1>0. TypeOK BY DEF Shape
<1> DEFINE v == latest[p].ver + 1
<1>1. /\ latest[p].ver < MaxSubmits
      /\ reply' = IF k = "autosave" THEN reply ELSE [reply EXCEPT ![p][v] = "open"]
  BY DEF Submit
<1>2. latest[p].ver \in Nat /\ row[p].ver \in Nat /\ row[p].ver <= latest[p].ver
  BY <1>0, OrderTypes DEF Order, LaneInOrder
<1>3. v \in Versions /\ row[p].ver < v
  BY <1>1, <1>2, LanesAssumption DEF Versions
<1>4. reply[p][v] # "ok" BY <1>0, <1>3, NewIsUntold
<1>5. reply \in [Players -> [Versions -> ReplyStates]] BY <1>0 DEF TypeOK
<1> HIDE DEF v
<1>6. \A q \in Players, u \in Versions :
         reply'[q][u] = IF k # "autosave" /\ q = p /\ u = v THEN "open" ELSE reply[q][u]
  BY <1>1, <1>3, <1>5
<1> QED BY <1>4, <1>6 DEF SameOks

\* Receiving a request refuses or drops only replies that were not told Ok,
\* and what the lane holds afterwards it held before or is the request's own.
LEMMA RecvOks ==
    ASSUME Shape, Order, AckedIsDurable, RepliesAreOwed, Recv
    PROVE  SameOks /\ RepliesAreOwed'
<1>0. TypeOK BY DEF Shape
<1>1. PICK r \in Requests : r = Head(queue) BY <1>0, HeadTail DEF TypeOK, Recv
<1>2. PICK p \in Players : p = r.player BY DEF Requests
<1>3. \/ r.kind = "exit" /\ StoreExit(r)
      \/ r.kind # "exit" /\ (RefuseSave(r) \/ StoreSave(r))
  BY <1>1 DEF Recv, StoreExit, RefuseSave, StoreSave
<1>4. r = queue[1] /\ 1 \in 1 .. Len(queue)
  <2>1. queue \in Seq(Requests) /\ queue # <<>> BY <1>0 DEF TypeOK, Recv
  <2>2. Len(queue) \in Nat /\ Len(queue) > 0 BY <2>1
  <2> QED BY <1>1, <2>1, <2>2, HeadTail
<1>5. r.ver \in Versions /\ r.ver \in Nat /\ r.ver # 0 /\ ReplyOf(r) \in {0, r.ver}
  BY LanesAssumption DEF Requests, Versions, ReplyOf
<1>6. /\ row[p].ver < r.ver /\ lane[p].save.ver < r.ver /\ lane[p].exit.ver < r.ver
      /\ \A o \in inFlight : o.player = p => o.ver < r.ver /\ o.reply <= o.ver
  BY <1>2, <1>4 DEF Order, OpsInOrder, QueueInOrder
<1>7. reply[p][r.ver] # "ok" BY <1>0, <1>5, <1>6, NewIsUntold
<1>8. \A o \in inFlight : o.player = p => o.reply # r.ver
  BY <1>0, <1>5, <1>6, OrderTypes
<1>9. 0 \notin Versions /\ UNCHANGED inFlight BY <1>0, <1>2, HeldReplies DEF Recv
<1>10. PICK rs \in SUBSET {0, r.ver, lane[p].save.reply, lane[p].exit.reply},
            st \in {"err", "dropped"} :
         reply' = Settle(p, rs, st)
  <2>1. CASE StoreExit(r)
    <3>1. reply' = Settle(p, {lane[p].save.reply, lane[p].exit.reply}, "dropped")
      BY <1>2, <2>1 DEF StoreExit
    <3> QED BY <3>1
  <2>2. CASE RefuseSave(r)
    <3>1. reply' = Settle(p, {ReplyOf(r)}, "err") BY <1>2, <2>2 DEF RefuseSave
    <3> QED BY <1>5, <3>1
  <2>3. CASE StoreSave(r) /\ lane[p].save.reply # 0
    <3>1. reply' = Settle(p, {ReplyOf(r)}, "err") BY <1>2, <2>3 DEF StoreSave
    <3> QED BY <1>5, <3>1
  <2>4. CASE StoreSave(r) /\ lane[p].save.reply = 0
    <3>1. reply' = reply BY <1>2, <2>4 DEF StoreSave
    <3>2. reply \in [Players -> [Versions -> ReplyStates]] BY <1>0 DEF TypeOK
    <3>3. [v \in Versions |-> IF v \in {} THEN "err" ELSE reply[p][v]] = reply[p] BY <3>2
    <3>4. Settle(p, {}, "err") = reply BY <3>2, <3>3 DEF Settle
    <3> QED BY <3>1, <3>4
  <2> QED BY <1>3, <2>1, <2>2, <2>3, <2>4
<1>11. SameOks
  <2> SUFFICES ASSUME NEW q \in Players, NEW v \in Versions
               PROVE  reply'[q][v] = "ok" <=> reply[q][v] = "ok"
    BY DEF SameOks
  <2>1. reply'[q][v] = IF q = p /\ v \in rs THEN st ELSE reply[q][v]
    BY <1>0, <1>10, SettleAt
  <2>2. q = p /\ v \in rs => reply[q][v] # "ok"
    BY <1>7, <1>9 DEF RepliesAreOwed
  <2> QED BY <2>1, <2>2
<1>12. /\ lane'[p].save.reply \in {0, lane[p].save.reply, r.ver}
       /\ lane'[p].exit.reply \in {0, lane[p].exit.reply, r.ver}
       /\ \A q \in Players : q # p => lane'[q] = lane[q]
  <2>1. lane \in [Players -> Lanes] /\ lane[p] \in Lanes BY <1>0 DEF TypeOK
  <2>2. CASE RefuseSave(r) BY <2>2 DEF RefuseSave
  <2>3. CASE StoreSave(r)
    <3> DEFINE c == Coalesce(lane[p].save, r)
    <3>1. lane' = [lane EXCEPT ![p].save = c, ![p].retry = "none"]
      BY <1>2, <2>3 DEF StoreSave
    <3>2. c.reply \in {0, lane[p].save.reply, r.ver} BY <1>5 DEF Coalesce
    <3> HIDE DEF c
    <3>3. \A x \in Lanes : /\ [[x EXCEPT !.save = c] EXCEPT !.retry = "none"].save = c
                           /\ [[x EXCEPT !.save = c] EXCEPT !.retry = "none"].exit = x.exit
      BY DEF Lanes
    <3> QED BY <2>1, <3>1, <3>2, <3>3
  <2>4. CASE StoreExit(r)
    <3> DEFINE e == [kind |-> "exit", ver |-> r.ver, epoch |-> r.epoch, reply |-> r.ver]
    <3>1. lane' = [lane EXCEPT ![p].save = Nothing, ![p].retry = "none", ![p].exit = e]
      BY <1>2, <2>4 DEF StoreExit
    <3>2. e.reply = r.ver /\ Nothing.reply = 0 BY DEF Nothing
    <3> HIDE DEF e
    <3>3. \A x \in Lanes :
            /\ [[[x EXCEPT !.save = Nothing] EXCEPT !.retry = "none"] EXCEPT !.exit = e].save
                 = Nothing
            /\ [[[x EXCEPT !.save = Nothing] EXCEPT !.retry = "none"] EXCEPT !.exit = e].exit
                 = e
      BY DEF Lanes
    <3> QED BY <2>1, <3>1, <3>2, <3>3
  <2> QED BY <1>3, <2>2, <2>3, <2>4
<1>13. RepliesAreOwed'
  <2> SUFFICES ASSUME NEW q \in Players
               PROVE  /\ lane'[q].save.reply # 0 => reply'[q][lane'[q].save.reply] # "ok"
                      /\ lane'[q].exit.reply # 0 => reply'[q][lane'[q].exit.reply] # "ok"
                      /\ \A o \in inFlight : o.player = q /\ o.reply # 0 =>
                           /\ reply'[q][o.reply] # "ok"
                           /\ lane'[q].save.reply # o.reply /\ lane'[q].exit.reply # o.reply
    BY <1>9 DEF RepliesAreOwed
  <2>1. CASE q # p
    <3>1. lane'[q] = lane[q] BY <1>12, <2>1
    <3> QED BY <1>0, <1>9, <1>11, <3>1, StillOwed
  <2>2. CASE q = p
    <3>1. reply'[p][r.ver] # "ok" BY <1>5, <1>7, <1>11 DEF SameOks
    <3>2. /\ lane[p].save.reply # 0 => reply'[p][lane[p].save.reply] # "ok"
          /\ lane[p].exit.reply # 0 => reply'[p][lane[p].exit.reply] # "ok"
          /\ \A o \in inFlight : o.player = p /\ o.reply # 0 =>
               /\ reply'[p][o.reply] # "ok"
               /\ lane[p].save.reply # o.reply /\ lane[p].exit.reply # o.reply
      BY <1>0, <1>11, HeldReplies DEF RepliesAreOwed, SameOks
    <3> QED BY <1>5, <1>8, <1>12, <2>2, <3>1, <3>2
  <2> QED BY <2>1, <2>2
<1> QED BY <1>11, <1>13

\* What is dispatched takes its reply with it, and the lane is empty then.
LEMMA DispatchOwes ==
    ASSUME Shape, Order, RepliesAreOwed, Dispatch
    PROVE  RepliesAreOwed'
<1>0. TypeOK /\ WellFormed BY DEF Shape
<1>1. PICK S \in SUBSET {p \in Players : Ready(lane[p])} :
        /\ lane' = [p \in Players |->
                      IF p \in S THEN TakeNext(lane[p]) ELSE lane[p]]
        /\ inFlight' = inFlight \cup {Spawned(p) : p \in S}
  BY DEF Dispatch, Picks
<1>2. reply' = reply BY DEF Dispatch
<1>3. \A p \in S : \A o \in inFlight : o.player # p
  BY <1>0, OrderTypes DEF Order, OpsInOrder, Ready
<1>4. \A p \in S : Spawned(p).player = p /\ Spawned(p).reply = NextPending(lane[p]).reply
  BY DEF Spawned
<1> SUFFICES ASSUME NEW q \in Players
             PROVE  /\ lane'[q].save.reply # 0 => reply[q][lane'[q].save.reply] # "ok"
                    /\ lane'[q].exit.reply # 0 => reply[q][lane'[q].exit.reply] # "ok"
                    /\ \A o \in inFlight' : o.player = q /\ o.reply # 0 =>
                         /\ reply[q][o.reply] # "ok"
                         /\ lane'[q].save.reply # o.reply /\ lane'[q].exit.reply # o.reply
  BY <1>2 DEF RepliesAreOwed
<1>5. CASE q \notin S
  <2>1. lane'[q] = lane[q] BY <1>1, <1>5
  <2>2. \A o \in inFlight' : o.player = q => o \in inFlight BY <1>1, <1>4, <1>5
  <2> QED BY <2>1, <2>2 DEF RepliesAreOwed
<1>6. CASE q \in S
  <2>1. lane'[q] = TakeNext(lane[q]) /\ lane[q] \in Lanes
    BY <1>0, <1>1, <1>6, OrderTypes
  <2>2. lane[q].exit # Nothing => lane[q].save = Nothing BY <1>0 DEF WellFormed
  <2>3. lane'[q].save = Nothing /\ lane'[q].exit = Nothing
    BY <2>1, <2>2, TakeNextEffect
  <2>4. lane'[q].save.reply = 0 /\ lane'[q].exit.reply = 0 BY <2>3 DEF Nothing
  <2>5. \A o \in inFlight' : o.player = q => o = Spawned(q) BY <1>1, <1>3, <1>4, <1>6
  <2>6. NextPending(lane[q]).reply \in {lane[q].save.reply, lane[q].exit.reply}
    BY DEF NextPending
  <2> QED BY <1>4, <1>6, <2>4, <2>5, <2>6 DEF RepliesAreOwed
<1> QED BY <1>5, <1>6

\* What completion leaves in a lane.
LEMMA AfterCompletionReplies ==
    ASSUME NEW l \in Lanes, NEW o \in Ops, o.kind = "autosave" => o.reply = 0
    PROVE  /\ AfterCompletion(l, o).save.reply \in {0, l.save.reply}
           /\ AfterCompletion(l, o).exit.reply \in {0, l.exit.reply}
<1>1. Nothing.reply = 0 /\ IdleLane.save = Nothing /\ IdleLane.exit = Nothing
  BY DEF Nothing, IdleLane
<1>2. IdleLane.save.reply = 0 /\ IdleLane.exit.reply = 0 BY <1>1
<1> DEFINE again == [kind |-> o.kind, ver |-> o.ver, epoch |-> o.epoch, reply |-> o.reply]
<1>3. again.reply = o.reply OBVIOUS
<1>4. \/ AfterCompletion(l, o) = IdleLane
      \/ AfterCompletion(l, o) = [l EXCEPT !.inFlight = FALSE]
      \/ AfterCompletion(l, o) = [[l EXCEPT !.inFlight = FALSE] EXCEPT !.retry = "none"]
      \/ /\ o.kind = "autosave"
         /\ AfterCompletion(l, o) = [[l EXCEPT !.inFlight = FALSE]
                                       EXCEPT !.retry = "waiting", !.save = again]
  BY DEF AfterCompletion
<1> HIDE DEF again
<1>5. /\ [l EXCEPT !.inFlight = FALSE].save = l.save
      /\ [l EXCEPT !.inFlight = FALSE].exit = l.exit
      /\ [[l EXCEPT !.inFlight = FALSE] EXCEPT !.retry = "none"].save = l.save
      /\ [[l EXCEPT !.inFlight = FALSE] EXCEPT !.retry = "none"].exit = l.exit
      /\ [[l EXCEPT !.inFlight = FALSE] EXCEPT !.retry = "waiting", !.save = again].save
           = again
      /\ [[l EXCEPT !.inFlight = FALSE] EXCEPT !.retry = "waiting", !.save = again].exit
           = l.exit
  BY DEF Lanes
<1> QED BY <1>2, <1>3, <1>4, <1>5

\* The replies after a task was joined.
LEMMA JoinOks ==
    ASSUME Shape, Order, RepliesAreOwed, NEW o \in inFlight, Join(o)
    PROVE  /\ o.player \in Players
           /\ \A q \in Players, v \in Versions :
                reply'[q][v] = "ok" <=>
                   \/ reply[q][v] = "ok"
                   \/ /\ q = o.player /\ v = o.reply
                      /\ o.phase = "ok" /\ o.kind # "autosave"
           /\ RepliesAreOwed'
<1>0. TypeOK /\ WellFormed BY DEF Shape
<1>1. o \in Ops /\ o.player \in Players /\ o.phase \in {"ok", "err"}
  BY <1>0, OrderTypes DEF Join, Ops
<1>2. PICK p \in Players : p = o.player BY <1>1
<1>3. /\ inFlight' = inFlight \ {o}
      /\ lane' = [lane EXCEPT ![p] = AfterCompletion(lane[p], o)]
      /\ reply' = IF o.kind = "autosave" THEN reply ELSE Settle(p, {o.reply}, o.phase)
  BY <1>2 DEF Join
<1>4. \A v \in Versions : v = o.reply => reply[p][v] # "ok"
  BY <1>0, <1>2, HeldReplies DEF RepliesAreOwed
<1>5. \A q \in Players, v \in Versions :
        reply'[q][v] = IF q = p /\ v = o.reply /\ o.kind # "autosave"
                       THEN o.phase ELSE reply[q][v]
  BY <1>0, <1>3, SettleAt
<1>6. \A q \in Players, v \in Versions :
        reply'[q][v] = "ok" <=>
           \/ reply[q][v] = "ok"
           \/ q = p /\ v = o.reply /\ o.phase = "ok" /\ o.kind # "autosave"
  BY <1>1, <1>4, <1>5
<1>7. RepliesAreOwed'
  <2> SUFFICES ASSUME NEW q \in Players
               PROVE  /\ lane'[q].save.reply # 0 => reply'[q][lane'[q].save.reply] # "ok"
                      /\ lane'[q].exit.reply # 0 => reply'[q][lane'[q].exit.reply] # "ok"
                      /\ \A x \in inFlight' : x.player = q /\ x.reply # 0 =>
                           /\ reply'[q][x.reply] # "ok"
                           /\ lane'[q].save.reply # x.reply /\ lane'[q].exit.reply # x.reply
    BY DEF RepliesAreOwed
  <2>1. lane \in [Players -> Lanes] BY <1>0 DEF TypeOK
  <2>2. /\ lane[q].save.reply # 0 => lane[q].save.reply \in Versions
                                     /\ reply[q][lane[q].save.reply] # "ok"
        /\ lane[q].exit.reply # 0 => lane[q].exit.reply \in Versions
                                     /\ reply[q][lane[q].exit.reply] # "ok"
    BY <1>0, HeldReplies DEF RepliesAreOwed
  <2>3. CASE q # p
    <3>1. lane'[q] = lane[q] BY <1>3, <2>1, <2>3
    <3>2. \A x \in inFlight' : x.player = q /\ x.reply # 0 =>
             /\ x.reply \in Versions /\ reply[q][x.reply] # "ok"
             /\ lane[q].save.reply # x.reply /\ lane[q].exit.reply # x.reply
      BY <1>0, <1>3, HeldReplies DEF RepliesAreOwed
    <3> QED BY <1>6, <2>2, <2>3, <3>1, <3>2
  <2>4. CASE q = p
    <3>1. \A x \in inFlight' : x.player # p BY <1>2, <1>3 DEF Order, OneOpPerPlayer
    <3>2. lane'[p] = AfterCompletion(lane[p], o) /\ lane[p] \in Lanes BY <1>3, <2>1
    <3>3. /\ lane'[p].save.reply \in {0, lane[p].save.reply}
          /\ lane'[p].exit.reply \in {0, lane[p].exit.reply}
      BY <1>0, <1>1, <3>2, AfterCompletionReplies DEF WellFormed
    <3>4. /\ lane[p].save.reply # 0 => lane[p].save.reply # o.reply
          /\ lane[p].exit.reply # 0 => lane[p].exit.reply # o.reply
      BY <1>2 DEF RepliesAreOwed
    <3>5. /\ lane[p].save.reply # 0 => reply'[p][lane[p].save.reply] # "ok"
          /\ lane[p].exit.reply # 0 => reply'[p][lane[p].exit.reply] # "ok"
      BY <1>6, <2>2, <2>4, <3>4
    <3> QED BY <2>4, <3>1, <3>3, <3>5
  <2> QED BY <2>3, <2>4
<1> QED BY <1>1, <1>2, <1>6, <1>7

\* A task that panicked drops a reply that was not told Ok.
LEMMA JoinPanickedOks ==
    ASSUME Shape, RepliesAreOwed, NEW o \in inFlight, JoinPanicked(o)
    PROVE  SameOks /\ RepliesAreOwed'
<1>0. TypeOK BY DEF Shape
<1>1. o.player \in Players BY <1>0, OrderTypes
<1>2. /\ inFlight' = inFlight \ {o} /\ lane' = lane
      /\ reply' = Settle(o.player, {o.reply}, "dropped")
  BY DEF JoinPanicked
<1>3. SameOks
  <2> SUFFICES ASSUME NEW q \in Players, NEW v \in Versions
               PROVE  reply'[q][v] = "ok" <=> reply[q][v] = "ok"
    BY DEF SameOks
  <2>1. reply'[q][v] = IF q = o.player /\ v = o.reply THEN "dropped" ELSE reply[q][v]
    BY <1>0, <1>1, <1>2, SettleAt
  <2>2. q = o.player /\ v = o.reply => reply[q][v] # "ok"
    BY <1>0, <1>1, HeldReplies DEF RepliesAreOwed
  <2> QED BY <2>1, <2>2
<1>4. RepliesAreOwed'
  <2> SUFFICES ASSUME NEW q \in Players
               PROVE  /\ lane'[q].save.reply # 0 => reply'[q][lane'[q].save.reply] # "ok"
                      /\ lane'[q].exit.reply # 0 => reply'[q][lane'[q].exit.reply] # "ok"
                      /\ \A x \in inFlight' : x.player = q /\ x.reply # 0 =>
                           /\ reply'[q][x.reply] # "ok"
                           /\ lane'[q].save.reply # x.reply /\ lane'[q].exit.reply # x.reply
    BY DEF RepliesAreOwed
  <2> QED BY <1>0, <1>2, <1>3, StillOwed
<1> QED BY <1>3, <1>4

\* An answer of the database changes no reply and no lane.
LEMMA DbAnswersOks ==
    ASSUME Shape, RepliesAreOwed, NEW o \in inFlight, DbAnswers(o)
    PROVE  SameOks /\ RepliesAreOwed'
<1>0. TypeOK BY DEF Shape
<1>1. PICK n : /\ n.player = o.player /\ n.reply = o.reply
               /\ inFlight' = (inFlight \ {o}) \cup {n} /\ DbUnchanged
  BY <1>0, DbAnswerEffect
<1>2. SameOks BY <1>1 DEF SameOks, DbUnchanged
<1>3. RepliesAreOwed' BY <1>1 DEF RepliesAreOwed, DbUnchanged
<1> QED BY <1>2, <1>3

\* Steps that change no reply, nothing a lane holds and no task.
LEMMA QuietOks ==
    ASSUME RepliesAreOwed, reply' = reply, inFlight' = inFlight,
           \A q \in Players : lane'[q].save = lane[q].save /\ lane'[q].exit = lane[q].exit
    PROVE  SameOks /\ RepliesAreOwed'
BY DEF RepliesAreOwed, SameOks

\* Every step keeps what is owed.
LEMMA OwedStep ==
    ASSUME Shape, Order, AckedIsDurable, RepliesAreOwed, [Next]_vars
    PROVE  RepliesAreOwed'
<1>0. TypeOK BY DEF Shape
<1>1. CASE UNCHANGED <<reply, inFlight, lane>> BY <1>1, QuietOks
<1>2. ASSUME NEW p \in Players, NEW k \in Kinds, Submit(p, k) PROVE RepliesAreOwed'
  <2>1. SameOks BY <1>2, SubmitOks
  <2>2. lane' = lane /\ inFlight' = inFlight BY <1>2 DEF Submit
  <2> SUFFICES ASSUME NEW q \in Players
               PROVE  /\ lane'[q].save.reply # 0 => reply'[q][lane'[q].save.reply] # "ok"
                      /\ lane'[q].exit.reply # 0 => reply'[q][lane'[q].exit.reply] # "ok"
                      /\ \A x \in inFlight' : x.player = q /\ x.reply # 0 =>
                           /\ reply'[q][x.reply] # "ok"
                           /\ lane'[q].save.reply # x.reply /\ lane'[q].exit.reply # x.reply
    BY DEF RepliesAreOwed
  <2> QED BY <1>0, <2>1, <2>2, StillOwed
<1>3. ASSUME NEW p \in Players, RetryElapses(p) PROVE RepliesAreOwed'
  <2>1. \A q \in Players : lane'[q].save = lane[q].save /\ lane'[q].exit = lane[q].exit
    BY <1>0, <1>3 DEF TypeOK, RetryElapses, Lanes
  <2> QED BY <1>3, <2>1, QuietOks DEF RetryElapses
<1>4. CASE Recv BY <1>4, RecvOks
<1>5. CASE Dispatch BY <1>5, DispatchOwes
<1>6. ASSUME NEW o \in inFlight, Join(o) PROVE RepliesAreOwed' BY <1>6, JoinOks
<1>7. ASSUME NEW o \in inFlight, JoinPanicked(o) PROVE RepliesAreOwed'
  BY <1>7, JoinPanickedOks
<1>8. ASSUME NEW o \in inFlight, DbAnswers(o) PROVE RepliesAreOwed' BY <1>8, DbAnswersOks
<1> QED
  BY <1>1, <1>2, <1>3, <1>4, <1>5, <1>6, <1>7, <1>8
  DEF Next, Ended, vars, DropSenders, Reload, OwnershipMoves, DeletePlayer, RecvClosed,
      RetryTimer, SelectPanics

\* A step that shows nothing.
LEMMA ShowsNothing ==
    ASSUME \A q \in Players : latest'[q].ver = latest[q].ver /\ row'[q].ver = row[q].ver,
           SameOks
    PROVE  UNCHANGED Rows!rows
<1>1. \A q \in Players : {v \in Versions : reply'[q][v] = "ok"}
                           = {v \in Versions : reply[q][v] = "ok"}
  BY DEF SameOks
<1> QED BY <1>1 DEF Rows!rows

\* Submit is Admit.
LEMMA SubmitAdmits ==
    ASSUME Shape, Order, AckedIsDurable, NEW p \in Players, NEW k \in Kinds, Submit(p, k)
    PROVE  Rows!Admit(p)
<1>0. TypeOK BY DEF Shape
<1>1. SameOks /\ row' = row BY SubmitOks DEF Submit
<1>2. latest \in [Players -> [ver : 0 .. MaxSubmits, epoch : Epochs]] BY <1>0 DEF TypeOK
<1>3. \A q \in Players : latest'[q].ver = IF q = p THEN latest[p].ver + 1 ELSE latest[q].ver
  BY <1>2 DEF Submit
<1>4. [q \in Players |-> latest'[q].ver]
        = [[q \in Players |-> latest[q].ver] EXCEPT ![p] = latest[p].ver + 1]
  BY <1>3
<1>5. \A q \in Players : {v \in Versions : reply'[q][v] = "ok"}
                           = {v \in Versions : reply[q][v] = "ok"}
  BY <1>1 DEF SameOks
<1>6. [q \in Players |-> {v \in Versions : reply'[q][v] = "ok"}]
        = [q \in Players |-> {v \in Versions : reply[q][v] = "ok"}]
  BY <1>5
<1> QED BY <1>1, <1>4, <1>6 DEF Rows!Admit

\* An answer of the database is Store, or shows nothing.
LEMMA DbAnswersStores ==
    ASSUME Shape, Order, RepliesAreOwed, NEW o \in inFlight, DbAnswers(o)
    PROVE  UNCHANGED Rows!rows \/ \E p \in Players : Rows!Store(p)
<1>0. TypeOK BY DEF Shape
<1>1. /\ DbUnchanged /\ \A q \in Players : q # o.player => row'[q] = row[q]
      /\ row' = row \/ row'[o.player].ver = o.ver
  BY <1>0, DbAnswerEffect
<1>2. SameOks BY DbAnswersOks
<1>3. latest' = latest /\ reply' = reply BY <1>1 DEF DbUnchanged
<1>4. CASE row' = row BY <1>2, <1>3, <1>4, ShowsNothing
<1>5. CASE row'[o.player].ver = o.ver
  <2>1. /\ o.player \in Players /\ o.ver \in Nat /\ row[o.player].ver \in Nat
        /\ latest[o.player].ver \in Nat
        /\ row[o.player].ver <= o.ver /\ o.ver <= latest[o.player].ver
    BY <1>0, OrderTypes DEF Order, OpsInOrder
  <2>2. o.ver \in row[o.player].ver .. latest[o.player].ver BY <2>1
  <2>3. \A q \in Players : row'[q].ver = IF q = o.player THEN o.ver ELSE row[q].ver
    BY <1>1, <1>5
  <2>4. [q \in Players |-> row'[q].ver]
          = [[q \in Players |-> row[q].ver] EXCEPT ![o.player] = o.ver]
    BY <2>3
  <2>5. Rows!Store(o.player) BY <1>3, <2>1, <2>2, <2>4 DEF Rows!Store
  <2> QED BY <2>1, <2>5
<1> QED BY <1>1, <1>4, <1>5

\* Joining a task is Acknowledge, or shows nothing.
LEMMA JoinAcknowledges ==
    ASSUME Shape, Order, OkIsApplied, RepliesAreOwed, NEW o \in inFlight, Join(o)
    PROVE  UNCHANGED Rows!rows \/ \E p \in Players : Rows!Acknowledge(p)
<1>0. TypeOK BY DEF Shape
<1>1. latest' = latest /\ row' = row BY DEF Join
<1>2. /\ o.player \in Players
      /\ \A q \in Players, v \in Versions :
           reply'[q][v] = "ok" <=>
              \/ reply[q][v] = "ok"
              \/ q = o.player /\ v = o.reply /\ o.phase = "ok" /\ o.kind # "autosave"
  BY JoinOks
<1>3. CASE ~(o.phase = "ok" /\ o.kind # "autosave" /\ o.reply \in Versions)
  <2>1. SameOks BY <1>2, <1>3 DEF SameOks
  <2> QED BY <1>1, <2>1, ShowsNothing
<1>4. CASE o.phase = "ok" /\ o.kind # "autosave" /\ o.reply \in Versions
  <2>1. row[o.player].ver >= o.ver BY <1>4 DEF OkIsApplied
  <2>2. /\ o.ver \in Nat /\ o.reply \in Nat /\ row[o.player].ver \in Nat /\ o.reply <= o.ver
    BY <1>0, <1>2, OrderTypes DEF Order, OpsInOrder
  <2>3. o.reply # 0 BY <1>4 DEF Versions
  <2>4. o.reply \in 1 .. row[o.player].ver BY <2>1, <2>2, <2>3
  <2>5. \A q \in Players :
          {v \in Versions : reply'[q][v] = "ok"}
            = IF q = o.player THEN {v \in Versions : reply[q][v] = "ok"} \cup {o.reply}
              ELSE {v \in Versions : reply[q][v] = "ok"}
    BY <1>2, <1>4
  <2> DEFINE f == [q \in Players |-> {v \in Versions : reply[q][v] = "ok"}]
             g == [q \in Players |-> {v \in Versions : reply'[q][v] = "ok"}]
  <2>6. g = [f EXCEPT ![o.player] = f[o.player] \cup {o.reply}]
    <3>1. \A q \in Players : g[q] = IF q = o.player THEN f[q] \cup {o.reply} ELSE f[q]
      BY <2>5
    <3>2. f = [q \in Players |-> f[q]] /\ g = [q \in Players |-> g[q]] OBVIOUS
    <3> HIDE DEF f, g
    <3> QED BY <1>2, <3>1, <3>2
  <2>7. Rows!Acknowledge(o.player) BY <1>1, <1>2, <2>4, <2>6 DEF Rows!Acknowledge
  <2> QED BY <1>2, <2>7
<1> QED BY <1>3, <1>4

\* Every step of the worker, its requesters and the database is a step of
\* DurableRows or shows nothing.
LEMMA RowsStep ==
    ASSUME Shape, Order, AckedIsDurable, OkIsApplied, RepliesAreOwed, [Next]_vars
    PROVE  [Rows!Next]_(Rows!rows)
<1>0. TypeOK BY DEF Shape
<1>1. CASE UNCHANGED <<row, latest, reply>>
  <2>1. SameOks BY <1>1 DEF SameOks
  <2> QED BY <1>1, <2>1, ShowsNothing
<1>2. ASSUME NEW p \in Players, NEW k \in Kinds, Submit(p, k) PROVE [Rows!Next]_(Rows!rows)
  BY <1>2, SubmitAdmits DEF Rows!Next
<1>3. ASSUME NEW p \in Players, OwnershipMoves(p) PROVE [Rows!Next]_(Rows!rows)
  <2>1. \A q \in Players : row'[q].ver = row[q].ver
    BY <1>0, <1>3 DEF TypeOK, OwnershipMoves
  <2>2. SameOks /\ latest' = latest BY <1>3 DEF OwnershipMoves, SameOks
  <2> QED BY <2>1, <2>2, ShowsNothing
<1>4. CASE Recv
  <2>1. SameOks /\ latest' = latest /\ row' = row BY <1>4, RecvOks DEF Recv
  <2> QED BY <2>1, ShowsNothing
<1>5. ASSUME NEW o \in inFlight, Join(o) PROVE [Rows!Next]_(Rows!rows)
  BY <1>5, JoinAcknowledges DEF Rows!Next
<1>6. ASSUME NEW o \in inFlight, JoinPanicked(o) PROVE [Rows!Next]_(Rows!rows)
  <2>1. SameOks /\ latest' = latest /\ row' = row
    BY <1>6, JoinPanickedOks DEF JoinPanicked
  <2> QED BY <2>1, ShowsNothing
<1>7. ASSUME NEW o \in inFlight, DbAnswers(o) PROVE [Rows!Next]_(Rows!rows)
  BY <1>7, DbAnswersStores DEF Rows!Next
<1> QED
  BY <1>1, <1>2, <1>3, <1>4, <1>5, <1>6, <1>7
  DEF Next, Ended, vars, DropSenders, Reload, DeletePlayer, RetryElapses, RecvClosed,
      Dispatch, RetryTimer, SelectPanics

\* Seen from its requesters the worker is DurableRows: behind merging, retries,
\* refusals, concurrent tasks and lost answers there is a row per player that
\* only moves on, and an Ok is given once the row has reached its snapshot.
THEOREM WorkerImplementsRows == Spec => ImplementsRows
<1>1. Init => RepliesAreOwed
  BY DEF Init, IdleLane, Nothing, RepliesAreOwed
<1>2. Init => AckedIsDurable /\ OkIsApplied
  BY DEF Init, AckedIsDurable, OkIsApplied
<1>3. Init => Rows!Init
  <2> SUFFICES ASSUME Init PROVE Rows!Init
    OBVIOUS
  <2>1. \A p \in Players : /\ latest[p].ver = 0 /\ row[p].ver = 0
                           /\ {v \in Versions : reply[p][v] = "ok"} = {}
    BY DEF Init
  <2> QED BY <2>1 DEF Rows!Init
<1>4. Shape /\ Order /\ AckedIsDurable /\ OkIsApplied /\ [Next]_vars
        => AckedIsDurable' /\ OkIsApplied'
  BY AckedStep
<1>5. Shape /\ Order /\ AckedIsDurable /\ RepliesAreOwed /\ [Next]_vars => RepliesAreOwed'
  BY OwedStep
<1>6. Shape /\ Order /\ AckedIsDurable /\ OkIsApplied /\ RepliesAreOwed /\ [Next]_vars
        => [Rows!Next]_(Rows!rows)
  BY RowsStep
<1> QED
  BY <1>1, <1>2, <1>3, <1>4, <1>5, <1>6, ShapeInvariant, OrderInvariant, PTL
  DEF Spec, ImplementsRows, Rows!Spec
================================================================================
