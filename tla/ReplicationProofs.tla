-------------------------- MODULE ReplicationProofs --------------------------
(***************************************************************************)
(* Proofs about the visibility graph and about what the clients come to    *)
(* show, for finite sets of players and mobs, every map, every pair of     *)
(* radii, every capacity and every bound.                                  *)
(*                                                                         *)
(* ShownAfter, Picked, PushedAll and FlattenSeq are recursive; what they   *)
(* compute is derived from the least number at which it would fail.        *)
(***************************************************************************)
EXTENDS Replication, WellFoundedInduction, SequenceTheorems, FiniteSetTheorems, TLAPS

\* The part of TypeOK the graph depends on.
GraphShape ==
    /\ live \subseteq used /\ used \subseteq Ids
    /\ pos \in [Ids -> 0 .. MaxPos]
    /\ vis \in [Players -> SUBSET Ids]
    /\ obs \in [Ids -> SUBSET Players]

\* v and o are each other's inverse.
Inverses(v, o) == \A p \in Players, t \in Ids : t \in v[p] <=> p \in o[t]

\* The visible sets v name entities of l only and are empty for absent players.
Inhabited(v, l) == \A p \in Players : v[p] # {} => p \in l /\ v[p] \subseteq l \ {p}

\* The inductive invariant.
GraphInv == GraphShape /\ GraphAgrees /\ CleanIsExact

\* GraphAgrees in the two parts the lemmas speak of.
LEMMA GraphParts == GraphAgrees <=> Inverses(vis, obs) /\ Inhabited(vis, live)
BY DEF GraphAgrees, Inverses, Inhabited

-----------------------------------------------------------------------------
(* The operations of ReplicationGraph.                                     *)

\* reconcile_observer keeps the reverse index the inverse of the visible sets.
LEMMA ReindexedInverts ==
    ASSUME NEW o \in [Ids -> SUBSET Players], NEW old, NEW new, Inverses(old, o)
    PROVE  /\ Reindexed(o, old, new) \in [Ids -> SUBSET Players]
           /\ Inverses(new, Reindexed(o, old, new))
BY DEF Reindexed, Inverses

\* on_player_removed takes a player out of both indexes and out of the map.
LEMMA RemovalInverts ==
    ASSUME GraphShape, GraphAgrees, NEW p \in LivePlayers
    PROVE  /\ VisWithout(p) \in [Players -> SUBSET Ids]
           /\ ObsWithout(p) \in [Ids -> SUBSET Players]
           /\ Inverses(VisWithout(p), ObsWithout(p))
           /\ Inhabited(VisWithout(p), LiveWithout(p))
<1>1. p \in Players /\ p \in Ids /\ p \in live BY DEF LivePlayers, Ids
<1>2. \A q \in Players : VisWithout(p)[q] = IF q = p THEN {} ELSE vis[q] \ {p}
  BY <1>1 DEF VisWithout, WithoutTarget, GraphShape
<1>3. \A t \in Ids : ObsWithout(p)[t] = IF t = p THEN {} ELSE obs[t] \ {p}
  BY DEF ObsWithout
<1>4. VisWithout(p) \in [Players -> SUBSET Ids]
  BY <1>1 DEF VisWithout, WithoutTarget, GraphShape
<1>5. ObsWithout(p) \in [Ids -> SUBSET Players]
  BY DEF ObsWithout, GraphShape
<1>6. Inverses(VisWithout(p), ObsWithout(p))
  <2> SUFFICES ASSUME NEW q \in Players, NEW t \in Ids
               PROVE  t \in VisWithout(p)[q] <=> q \in ObsWithout(p)[t]
    BY DEF Inverses
  <2>1. t \in vis[q] <=> q \in obs[t] BY DEF GraphAgrees
  <2>2. VisWithout(p)[q] = IF q = p THEN {} ELSE vis[q] \ {p} BY <1>2
  <2>3. ObsWithout(p)[t] = IF t = p THEN {} ELSE obs[t] \ {p} BY <1>3
  <2> QED BY <2>1, <2>2, <2>3
<1>7. Inhabited(VisWithout(p), LiveWithout(p))
  <2> SUFFICES ASSUME NEW q \in Players, VisWithout(p)[q] # {}
               PROVE  /\ q \in live \ {p}
                      /\ VisWithout(p)[q] \subseteq (live \ {p}) \ {q}
    BY DEF Inhabited, LiveWithout
  <2>1. q # p /\ VisWithout(p)[q] = vis[q] \ {p} BY <1>2
  <2>2. q \in live /\ vis[q] \subseteq live \ {q} BY <2>1 DEF GraphAgrees
  <2> QED BY <2>1, <2>2
<1> QED BY <1>4, <1>5, <1>6, <1>7

\* destroy_mob_entity: remove_target for a mob.
LEMMA DestructionInverts ==
    ASSUME GraphShape, GraphAgrees, NEW t \in Mobs \cap live
    PROVE  /\ WithoutTarget(vis, t) \in [Players -> SUBSET Ids]
           /\ [obs EXCEPT ![t] = {}] \in [Ids -> SUBSET Players]
           /\ Inverses(WithoutTarget(vis, t), [obs EXCEPT ![t] = {}])
           /\ Inhabited(WithoutTarget(vis, t), live \ {t})
<1>1. t \in Ids /\ t \notin Players BY ReplicationAssumption DEF Ids
<1>2. \A q \in Players : WithoutTarget(vis, t)[q] = vis[q] \ {t}
  BY DEF WithoutTarget
<1>3. WithoutTarget(vis, t) \in [Players -> SUBSET Ids]
  BY DEF WithoutTarget, GraphShape
<1>4. [obs EXCEPT ![t] = {}] \in [Ids -> SUBSET Players] BY DEF GraphShape
<1>5. Inverses(WithoutTarget(vis, t), [obs EXCEPT ![t] = {}])
  BY <1>2 DEF Inverses, GraphAgrees, GraphShape
<1>6. Inhabited(WithoutTarget(vis, t), live \ {t})
  BY <1>1, <1>2 DEF Inhabited, GraphAgrees
<1> QED BY <1>3, <1>4, <1>5, <1>6

\* Despawned entities leave well-typed positions behind.
LEMMA ForgetType ==
    ASSUME NEW gone, NEW places \in [Ids -> 0 .. MaxPos], Forget(gone, places)
    PROVE  pos' \in [Ids -> 0 .. MaxPos]
BY ReplicationAssumption DEF Forget

\* The hysteresis of the two radii: what is near enough to appear is near
\* enough to stay.
LEMMA RadiiNest ==
    ASSUME pos \in [Ids -> 0 .. MaxPos], live \subseteq Ids, NEW p \in Ids
    PROVE  Within(p, SpawnRadius) \subseteq Within(p, DespawnRadius)
<1> SUFFICES ASSUME NEW t \in Within(p, SpawnRadius) PROVE t \in Within(p, DespawnRadius)
  OBVIOUS
<1>1. t \in live \ {p} /\ t \in Ids /\ Dist(p, t) <= SpawnRadius BY DEF Within
<1>2. Dist(p, t) \in Int BY <1>1, ReplicationAssumption DEF Dist
<1>3. Dist(p, t) <= DespawnRadius BY <1>1, <1>2, ReplicationAssumption
<1> QED BY <1>1, <1>3 DEF Within

-----------------------------------------------------------------------------
(* Every step keeps the graph.                                             *)

\* What an entering player despawns of its own first, as the graph sees it.
LEMMA EnterStep ==
    ASSUME GraphInv, NEW p \in Players, NEW x \in 0 .. MaxPos, Enter(p, x)
    PROVE  GraphInv'
<1> DEFINE old == {q \in LivePlayers : CharOf[q] = CharOf[p]}
           q0 == CHOOSE q \in old : TRUE
           l == IF old = {} THEN live ELSE LiveWithout(q0)
           v == IF old = {} THEN vis ELSE VisWithout(q0)
           o == IF old = {} THEN obs ELSE ObsWithout(q0)
           near == {t \in l : (IF x >= pos[t] THEN x - pos[t] ELSE pos[t] - x)
                                <= SpawnRadius}
<1>1. GraphShape /\ GraphAgrees BY DEF GraphInv
<1>2. old # {} => q0 \in LivePlayers OBVIOUS
<1>3. /\ p \in Ids /\ p \notin used /\ used' = used \cup {p}
      /\ Forget(old, [pos EXCEPT ![p] = x]) /\ dirty' = TRUE
  BY DEF Enter, Ids
<1>4. /\ live' = l \cup {p}
      /\ vis' = [v EXCEPT ![p] = near]
      /\ obs' = Reindexed(o, v, vis')
  <2>1. CASE old = {} BY <2>1 DEF Enter
  <2>2. CASE old # {} BY <2>2 DEF Enter
  <2> QED BY <2>1, <2>2
<1>5. /\ l \subseteq live /\ v \in [Players -> SUBSET Ids] /\ o \in [Ids -> SUBSET Players]
      /\ Inverses(v, o) /\ Inhabited(v, l)
  <2>1. CASE old = {} BY <1>1, <2>1, GraphParts DEF GraphShape
  <2>2. CASE old # {} BY <1>1, <1>2, <2>2, RemovalInverts DEF LiveWithout
  <2> QED BY <2>1, <2>2
<1>6. near \subseteq l /\ near \subseteq Ids /\ p \notin l /\ p \notin near
  BY <1>1, <1>3, <1>5 DEF GraphShape
<1> HIDE DEF near, l, v, o, old
<1>7. vis' \in [Players -> SUBSET Ids] BY <1>4, <1>5, <1>6
<1>8. obs' \in [Ids -> SUBSET Players] /\ Inverses(vis', obs')
  BY <1>4, <1>5, ReindexedInverts
<1>9. \A q \in Players : vis'[q] = IF q = p THEN near ELSE v[q] BY <1>4, <1>5
<1>10. Inhabited(vis', live') BY <1>4, <1>5, <1>6, <1>9 DEF Inhabited
<1>11. pos' \in [Ids -> 0 .. MaxPos]
  <2>1. [pos EXCEPT ![p] = x] \in [Ids -> 0 .. MaxPos] BY <1>1, <1>3 DEF GraphShape
  <2> QED BY <1>3, <2>1, ForgetType
<1>12. GraphShape' BY <1>1, <1>3, <1>4, <1>5, <1>7, <1>8, <1>11 DEF GraphShape
<1>13. GraphAgrees' BY <1>8, <1>10 DEF GraphAgrees, Inverses, Inhabited
<1>14. CleanIsExact' BY <1>3 DEF CleanIsExact
<1> QED BY <1>12, <1>13, <1>14 DEF GraphInv

\* A player leaves: the map is dirty or without players.
LEMMA LeaveStep ==
    ASSUME GraphInv, NEW p \in Players, Leave(p) PROVE GraphInv'
<1>1. GraphShape /\ GraphAgrees BY DEF GraphInv
<1>2. /\ p \in LivePlayers /\ live' = LiveWithout(p) /\ vis' = VisWithout(p)
      /\ obs' = ObsWithout(p) /\ dirty' = DirtyAfterLeave(live') /\ used' = used
      /\ Forget({p}, pos)
  BY DEF Leave
<1>3. pos' \in [Ids -> 0 .. MaxPos] BY <1>1, <1>2, ForgetType DEF GraphShape
<1>4. GraphShape' BY <1>1, <1>2, <1>3, RemovalInverts DEF GraphShape, LiveWithout
<1>5. Inverses(vis', obs') /\ Inhabited(vis', live') BY <1>1, <1>2, RemovalInverts
<1>6. GraphAgrees' BY <1>5 DEF GraphAgrees, Inverses, Inhabited
<1>7. CleanIsExact' BY <1>2 DEF CleanIsExact, DirtyAfterLeave, LivePlayers
<1> QED BY <1>4, <1>6, <1>7 DEF GraphInv

\* aoi_reconcile makes a dirty map exact and leaves a clean one alone.
LEMMA ReconcileStep == ASSUME GraphInv, Reconcile PROVE GraphInv'
<1>1. GraphShape /\ GraphAgrees /\ CleanIsExact BY DEF GraphInv
<1>2. /\ vis' = NewVis /\ obs' = Reindexed(obs, vis, NewVis)
      /\ UNCHANGED <<live, used, pos>>
  BY DEF Reconcile
<1>3. live \subseteq Ids BY <1>1 DEF GraphShape
<1>4. ASSUME NEW p \in Players, p \in live, dirty
      PROVE  /\ NewVis[p] = NewVisible(vis[p], Within(p, SpawnRadius), Within(p, DespawnRadius))
             /\ Within(p, SpawnRadius) \subseteq NewVis[p]
             /\ NewVis[p] \subseteq Within(p, DespawnRadius)
             /\ NewVis[p] \subseteq live \ {p}
  <2>1. NewVis[p] = NewVisible(vis[p], Within(p, SpawnRadius), Within(p, DespawnRadius))
    BY <1>4 DEF NewVis
  <2>2. Within(p, SpawnRadius) \subseteq Within(p, DespawnRadius)
    BY <1>1, <1>3, RadiiNest DEF GraphShape, Ids
  <2>3. Within(p, DespawnRadius) \subseteq live \ {p} BY DEF Within
  <2> QED BY <2>1, <2>2, <2>3 DEF NewVisible
<1>5. ASSUME NEW p \in Players, ~(p \in live /\ dirty) PROVE NewVis[p] = vis[p]
  BY <1>5 DEF NewVis
<1>6. \A p \in Players : NewVis[p] \subseteq Ids
  BY <1>1, <1>3, <1>4, <1>5 DEF GraphShape
<1>7. NewVis \in [Players -> SUBSET Ids]
  <2>1. NewVis = [p \in Players |-> NewVis[p]] BY DEF NewVis
  <2> QED BY <1>6, <2>1
<1>8. obs' \in [Ids -> SUBSET Players] /\ Inverses(vis', obs')
  BY <1>1, <1>2, GraphParts, ReindexedInverts DEF GraphShape
<1>9. Inhabited(vis', live')
  BY <1>1, <1>2, <1>4, <1>5 DEF Inhabited, GraphAgrees
<1>10. GraphShape' BY <1>1, <1>2, <1>7, <1>8 DEF GraphShape
<1>11. GraphAgrees' BY <1>8, <1>9 DEF GraphAgrees, Inverses, Inhabited
<1>12. CleanIsExact'
  <2> SUFFICES ASSUME NEW p \in LivePlayers
               PROVE  /\ Within(p, SpawnRadius) \subseteq NewVis[p]
                      /\ NewVis[p] \subseteq Within(p, DespawnRadius)
    BY <1>2 DEF CleanIsExact, Within, Dist, LivePlayers
  <2>1. p \in Players /\ p \in live BY DEF LivePlayers
  <2>2. CASE dirty BY <1>4, <2>1, <2>2
  <2>3. CASE ~dirty BY <1>1, <1>5, <2>1, <2>3 DEF CleanIsExact
  <2> QED BY <2>2, <2>3
<1> QED BY <1>10, <1>11, <1>12 DEF GraphInv

\* A mob is destroyed.
LEMMA DestroyStep ==
    ASSUME GraphInv, NEW t \in Ids, DestroyMob(t) PROVE GraphInv'
<1>1. GraphShape /\ GraphAgrees BY DEF GraphInv
<1>2. /\ t \in Mobs \cap live /\ live' = live \ {t} /\ vis' = WithoutTarget(vis, t)
      /\ obs' = [obs EXCEPT ![t] = {}] /\ dirty' = TRUE /\ used' = used
      /\ Forget({t}, pos)
  BY DEF DestroyMob
<1>3. pos' \in [Ids -> 0 .. MaxPos] BY <1>1, <1>2, ForgetType DEF GraphShape
<1>4. GraphShape' BY <1>1, <1>2, <1>3, DestructionInverts DEF GraphShape
<1>5. Inverses(vis', obs') /\ Inhabited(vis', live') BY <1>1, <1>2, DestructionInverts
<1>6. GraphAgrees' BY <1>5 DEF GraphAgrees, Inverses, Inhabited
<1>7. CleanIsExact' BY <1>2 DEF CleanIsExact
<1> QED BY <1>4, <1>6, <1>7 DEF GraphInv

\* Steps that leave the population, the positions and the graph alone keep the
\* invariant when they do not clean the map.
LEMMA QuietStep ==
    ASSUME GraphInv, UNCHANGED <<live, used, pos, vis, obs>>, ~dirty' => ~dirty
    PROVE  GraphInv'
<1>1. GraphShape' BY DEF GraphInv, GraphShape
<1>2. GraphAgrees' BY DEF GraphInv, GraphAgrees
<1>3. CleanIsExact' BY DEF GraphInv, CleanIsExact, LivePlayers, Within, Dist
<1> QED BY <1>1, <1>2, <1>3 DEF GraphInv

\* A step that moves or adds one entity and marks the map dirty.
LEMMA DirtyStep ==
    ASSUME GraphInv, UNCHANGED <<vis, obs>>, dirty' = TRUE,
           NEW t \in Ids, NEW x \in 0 .. MaxPos, pos' = [pos EXCEPT ![t] = x],
           \/ UNCHANGED <<live, used>>
           \/ live' = live \cup {t} /\ used' = used \cup {t}
    PROVE  GraphInv'
<1>1. GraphShape' BY DEF GraphInv, GraphShape
<1>2. GraphAgrees' BY DEF GraphInv, GraphAgrees
<1>3. CleanIsExact' BY DEF CleanIsExact
<1> QED BY <1>1, <1>2, <1>3 DEF GraphInv

\* The visibility graph is consistent and a clean map is exact, always.
THEOREM GraphInvariant == Spec => []GraphInv
<1>1. Init => GraphInv
  BY ReplicationAssumption
  DEF Init, GraphInv, GraphShape, GraphAgrees, CleanIsExact, LivePlayers, Ids
<1>2. GraphInv /\ [Next]_vars => GraphInv'
  <2> SUFFICES ASSUME GraphInv, [Next]_vars PROVE GraphInv'
    OBVIOUS
  <2>1. CASE UNCHANGED vars BY <2>1, QuietStep DEF vars, simVars
  <2>2. ASSUME NEW p \in Players, NEW x \in 0 .. MaxPos, Enter(p, x) PROVE GraphInv'
    BY <2>2, EnterStep
  <2>3. ASSUME NEW p \in Players, Leave(p) PROVE GraphInv' BY <2>3, LeaveStep
  <2>4. ASSUME NEW p \in Players, RestartHere(p) PROVE GraphInv'
    BY <2>4, QuietStep DEF RestartHere
  <2>5. ASSUME NEW p \in Players, Flush(p) PROVE GraphInv'
    BY <2>5, QuietStep DEF Flush, SendOne, SendStops, SendClosed, simVars
  <2>6. ASSUME NEW p \in Players, Receive(p) \/ Hangup(p) PROVE GraphInv'
    BY <2>6, QuietStep DEF Receive, Hangup, simVars
  <2>7. ASSUME NEW t \in Ids, NEW x \in 0 .. MaxPos,
               SpawnMob(t, x) \/ Drift(t, x) \/ Move(t, x)
        PROVE  GraphInv'
    <3>1. CASE SpawnMob(t, x) BY <3>1, DirtyStep DEF SpawnMob
    <3>2. CASE Drift(t, x) BY <3>2, DirtyStep DEF Drift, DriftDirty
    <3>3. CASE Move(t, x) BY <3>3, DirtyStep DEF Move
    <3> QED BY <2>7, <3>1, <3>2, <3>3
  <2>8. ASSUME NEW t \in Ids, Attack(t) PROVE GraphInv' BY <2>8, QuietStep DEF Attack
  <2>9. ASSUME NEW t \in Ids, DestroyMob(t) PROVE GraphInv' BY <2>9, DestroyStep
  <2>10. CASE StartTick \/ EndTick BY <2>10, QuietStep DEF StartTick, EndTick
  <2>11. CASE Reconcile BY <2>11, ReconcileStep
  <2> QED
    BY <2>1, <2>2, <2>3, <2>4, <2>5, <2>6, <2>7, <2>8, <2>9, <2>10, <2>11 DEF Next
<1> QED BY <1>1, <1>2, PTL DEF Spec

\* visible_by_observer and observers_by_target are each other's inverse and
\* name entities of the map only, whatever enters, leaves, dies or moves.
THEOREM GraphAgreement == Spec => []GraphAgrees
<1>1. GraphInv => GraphAgrees BY DEF GraphInv
<1> QED BY <1>1, GraphInvariant, PTL

\* A map that is not marked dirty needs no reconcile.
THEOREM CleanMapsAreExact == Spec => []CleanIsExact
<1>1. GraphInv => CleanIsExact BY DEF GraphInv
<1> QED BY <1>1, GraphInvariant, PTL

-----------------------------------------------------------------------------
(* Sequences, element by element.                                          *)

\* What holds of 0 and of each number up to l when it holds of the one before
\* holds up to l: otherwise there would be a least one of which it does not.
LEMMA UpTo ==
    ASSUME NEW l \in Nat, NEW S, 0 \in S, \A n \in 1 .. l : n - 1 \in S => n \in S
    PROVE  0 .. l \subseteq S
<1> DEFINE T == {n \in 0 .. l : n \notin S}
<1>1. T = {}
  <2> SUFFICES ASSUME T # {} PROVE FALSE OBVIOUS
  <2> DEFINE R == OpToRel(<, Nat)
  <2>1. IsWellFoundedOn(R, Nat) BY NatLessThanWellFounded
  <2>2. \A x, y \in Nat : <<y, x>> \in R <=> y < x BY DEF OpToRel
  <2> HIDE DEF R
  <2>3. T \subseteq Nat /\ T # {} OBVIOUS
  <2>4. PICK n \in T : \A m \in T : ~(<<m, n>> \in R) BY <2>1, <2>3, WFMin
  <2>5. n \in 1 .. l /\ n \notin S OBVIOUS
  <2>6. n - 1 \in Nat /\ n - 1 < n /\ n - 1 \in 0 .. l /\ n \in Nat BY <2>5
  <2>7. n - 1 \notin T BY <2>2, <2>4, <2>6
  <2> QED BY <2>5, <2>6, <2>7
<1> QED BY <1>1

\* The l steps keep to V; f is the way of b through them.
KeepTo(V, l, step) == \A n \in 1 .. l : \A v \in V : step[n][v] \in V
IsWay(f, b, l, step) == f[0] = b /\ \A n \in 1 .. l : f[n] = step[n][f[n - 1]]

\* A value of V can be carried through l steps that keep it in V.
LEMMA Carried ==
    ASSUME NEW l \in Nat, NEW V, NEW b \in V, NEW step, KeepTo(V, l, step)
    PROVE  \E f \in [0 .. l -> V] : IsWay(f, b, l, step)
<1> USE DEF KeepTo, IsWay
<1> DEFINE Through(f, k) == f[0] = b /\ \A n \in 1 .. k : f[n] = step[n][f[n - 1]]
           S == {k \in 0 .. l : \E f \in [0 .. k -> V] : Through(f, k)}
<1>1. 0 \in S
  <2> DEFINE f == [n \in 0 .. 0 |-> b]
  <2>1. f \in [0 .. 0 -> V] /\ f[0] = b OBVIOUS
  <2> HIDE DEF f
  <2>2. Through(f, 0) BY <2>1
  <2>3. 0 \in 0 .. l OBVIOUS
  <2> QED BY <2>1, <2>2, <2>3
<1>2. ASSUME NEW k \in 1 .. l, k - 1 \in S PROVE k \in S
  <2>1. PICK f \in [0 .. k - 1 -> V] : Through(f, k - 1) BY <1>2
  <2> DEFINE g == [n \in 0 .. k |-> IF n = k THEN step[k][f[k - 1]] ELSE f[n]]
  <2>2. k - 1 \in 0 .. k - 1 /\ k - 1 \in Nat /\ k \in 0 .. k /\ k \in Nat /\ k > 0 OBVIOUS
  <2>3. f[k - 1] \in V /\ step[k][f[k - 1]] \in V BY <2>2
  <2>4. \A n \in 0 .. k : n = k \/ n \in 0 .. k - 1 BY <2>2
  <2>5. g \in [0 .. k -> V] BY <2>3, <2>4
  <2>6. \A n \in 0 .. k - 1 : g[n] = f[n] BY <2>2
  <2>7. g[k] = step[k][f[k - 1]] BY <2>2
  <2> HIDE DEF g
  <2>8. g[0] = b BY <2>1, <2>2, <2>6
  <2>9. ASSUME NEW n \in 1 .. k PROVE g[n] = step[n][g[n - 1]]
    <3>1. n - 1 \in 0 .. k - 1 /\ g[n - 1] = f[n - 1] BY <2>2, <2>6
    <3>2. CASE n = k BY <2>7, <3>1, <3>2
    <3>3. CASE n # k
      <4>1. n \in 1 .. k - 1 /\ n \in 0 .. k - 1 BY <2>2, <3>3
      <4> QED BY <2>1, <2>6, <3>1, <4>1
    <3> QED BY <3>2, <3>3
  <2>10. Through(g, k) BY <2>8, <2>9
  <2>11. k \in 0 .. l OBVIOUS
  <2> QED BY <2>5, <2>10, <2>11
<1> HIDE DEF S
<1>3. 0 .. l \subseteq S BY <1>1, <1>2, UpTo
<1>4. l \in S BY <1>3
<1> QED BY <1>4 DEF S

\* A function that takes the steps as long as it is in V is their way.
LEMMA TakesSteps ==
    ASSUME NEW l \in Nat, NEW V, NEW b \in V, NEW step, KeepTo(V, l, step), NEW x,
           x[0] = b, \A n \in 1 .. l : x[n - 1] \in V => x[n] = step[n][x[n - 1]]
    PROVE  IsWay(x, b, l, step) /\ \A n \in 0 .. l : x[n] \in V
<1> DEFINE S == {n \in 0 .. l : x[n] \in V}
<1>1. 0 \in S OBVIOUS
<1>2. \A n \in 1 .. l : n - 1 \in S => n \in S BY DEF KeepTo
<1> HIDE DEF S
<1>3. 0 .. l \subseteq S BY <1>1, <1>2, UpTo
<1>4. \A n \in 0 .. l : x[n] \in V BY <1>3 DEF S
<1>5. \A n \in 1 .. l : n - 1 \in 0 .. l OBVIOUS
<1>6. IsWay(x, b, l, step) BY <1>4, <1>5 DEF IsWay
<1> QED BY <1>4, <1>6

-----------------------------------------------------------------------------
(* Picked members of a sequence.                                           *)

\* The members picked from a sequence make a sequence again.
LEMMA PickedType ==
    ASSUME NEW M, NEW ms \in Seq(M), NEW I PROVE Picked(ms, I) \in Seq(M)
<1> DEFINE L == Len(ms)
           V == Seq(M)
           empty == <<>>
           Step(n, v) == IF n \in I THEN Append(v, ms[n]) ELSE v
           upTo[n \in 0 .. Len(ms)] ==
              IF n = 0 THEN <<>>
              ELSE IF n \in I THEN Append(upTo[n - 1], ms[n]) ELSE upTo[n - 1]
           step == [n \in 1 .. L |-> [v \in V |-> Step(n, v)]]
<1>1. L \in Nat /\ \A n \in 1 .. L : ms[n] \in M BY LenProperties, ElementOfSeq
<1>2. \A n \in 1 .. L : \A v \in V : step[n][v] = Step(n, v) OBVIOUS
<1>3. \A n \in 1 .. L : \A v \in V : Step(n, v) \in V BY <1>1, AppendProperties
<1>4. empty \in V OBVIOUS
<1>8. upTo = CHOOSE x : x = [n \in 0 .. L |-> IF n = 0 THEN empty ELSE Step(n, x[n - 1])]
  OBVIOUS
<1>9. Picked(ms, I) = upTo[L] BY DEF Picked
<1> HIDE DEF L, V, empty, Step, step, upTo
<1>5. PICK f \in [0 .. L -> V] : IsWay(f, empty, L, step)
  <2>1. KeepTo(V, L, step) BY <1>2, <1>3 DEF KeepTo
  <2> QED BY <1>1, <1>4, <2>1, Carried
<1>6. f = [n \in 0 .. L |-> IF n = 0 THEN empty ELSE Step(n, f[n - 1])]
  <2>1. ASSUME NEW n \in 0 .. L PROVE f[n] = IF n = 0 THEN empty ELSE Step(n, f[n - 1])
    <3>1. CASE n = 0 BY <1>5, <3>1 DEF IsWay
    <3>2. CASE n # 0
      <4>1. n \in 1 .. L /\ n - 1 \in 0 .. L BY <1>1, <3>2
      <4> QED BY <1>2, <1>5, <3>2, <4>1 DEF IsWay
    <3> QED BY <3>1, <3>2
  <2> QED BY <2>1
<1>7. upTo = [n \in 0 .. L |-> IF n = 0 THEN empty ELSE Step(n, upTo[n - 1])]
  BY <1>6, <1>8
<1>10. upTo[0] = empty /\ \A n \in 1 .. L : upTo[n] = Step(n, upTo[n - 1])
  <2>1. \A n \in 1 .. L : n \in 0 .. L /\ n # 0 BY <1>1
  <2> QED BY <1>1, <1>7, <2>1
<1>11. \A n \in 0 .. L : upTo[n] \in V
  <2>1. KeepTo(V, L, step) BY <1>2, <1>3 DEF KeepTo
  <2>2. \A n \in 1 .. L : upTo[n - 1] \in V => upTo[n] = step[n][upTo[n - 1]] BY <1>2, <1>10
  <2>3. IsWay(upTo, empty, L, step) /\ \A n \in 0 .. L : upTo[n] \in V
    BY <1>1, <1>4, <1>10, <2>1, <2>2, TakesSteps
  <2> QED BY <2>3
<1>12. L \in 0 .. L BY <1>1
<1> QED BY <1>9, <1>11, <1>12 DEF V

-----------------------------------------------------------------------------
(* What a client shows.                                                    *)

AllEvents == [type : {"spawn", "despawn", "move"}, id : Ids, ver : Nat]

\* f is what the client shows after each of the events.
ShowsWay(p, S, q, f) ==
    f[0] = S /\ \A n \in 1 .. Len(q) : f[n] = Shows(p, f[n - 1], q[n])

\* What a client shows after all events is where such a way ends.
LEMMA ShownAfterWay ==
    ASSUME NEW p, NEW S \in SUBSET Ids, NEW q \in Seq(AllEvents)
    PROVE  \E f \in [0 .. Len(q) -> SUBSET Ids] :
              ShowsWay(p, S, q, f) /\ ShownAfter(p, S, q) = f[Len(q)]
<1> DEFINE L == Len(q)
           V == SUBSET Ids
           Step(n, v) == Shows(p, v, q[n])
           after[n \in 0 .. Len(q)] == IF n = 0 THEN S ELSE Shows(p, after[n - 1], q[n])
           step == [n \in 1 .. L |-> [v \in V |-> Step(n, v)]]
<1>1. L \in Nat /\ \A n \in 1 .. L : q[n] \in AllEvents BY LenProperties, ElementOfSeq
<1>2. \A n \in 1 .. L : \A v \in V : step[n][v] = Step(n, v) OBVIOUS
<1>3. \A n \in 1 .. L : \A v \in V : Step(n, v) \in V
  <2> TAKE n \in 1 .. L
  <2> TAKE v \in V
  <2>1. q[n].id \in Ids BY <1>1 DEF AllEvents
  <2> QED BY <2>1 DEF Shows
<1>4. S \in V OBVIOUS
<1>5. after = CHOOSE x : x = [n \in 0 .. L |-> IF n = 0 THEN S ELSE Step(n, x[n - 1])]
  OBVIOUS
<1>6. ShownAfter(p, S, q) = after[L] BY DEF ShownAfter
<1> HIDE DEF L, V, Step, step, after
<1>7. KeepTo(V, L, step) BY <1>2, <1>3 DEF KeepTo
<1>8. PICK f \in [0 .. L -> V] : IsWay(f, S, L, step) BY <1>1, <1>4, <1>7, Carried
<1>9. f = [n \in 0 .. L |-> IF n = 0 THEN S ELSE Step(n, f[n - 1])]
  <2>1. ASSUME NEW n \in 0 .. L PROVE f[n] = IF n = 0 THEN S ELSE Step(n, f[n - 1])
    <3>1. CASE n = 0 BY <1>8, <3>1 DEF IsWay
    <3>2. CASE n # 0
      <4>1. n \in 1 .. L /\ n - 1 \in 0 .. L BY <1>1, <3>2
      <4> QED BY <1>2, <1>8, <3>2, <4>1 DEF IsWay
    <3> QED BY <3>1, <3>2
  <2> QED BY <2>1
<1>10. after = [n \in 0 .. L |-> IF n = 0 THEN S ELSE Step(n, after[n - 1])] BY <1>5, <1>9
<1>11. after[0] = S /\ \A n \in 1 .. L : after[n] = Step(n, after[n - 1])
  <2>1. \A n \in 1 .. L : n \in 0 .. L /\ n # 0 BY <1>1
  <2> QED BY <1>1, <1>10, <2>1
<1>12. \A n \in 0 .. L : after[n] \in V
  <2>1. \A n \in 1 .. L : after[n - 1] \in V => after[n] = step[n][after[n - 1]]
    BY <1>2, <1>11
  <2>2. L \in Nat /\ after[0] = S BY <1>1, <1>11
  <2>3. IsWay(after, S, L, step) /\ \A n \in 0 .. L : after[n] \in V
    BY <1>4, <1>7, <2>1, <2>2, TakesSteps
  <2> QED BY <2>3
<1>13. after \in [0 .. L -> V] BY <1>10, <1>12
<1>14. ShowsWay(p, S, q, after) BY <1>11 DEF ShowsWay, L, Step
<1> QED BY <1>6, <1>13, <1>14 DEF V, L

\* Any way through the events ends with what the client shows.
LEMMA WayIsShown ==
    ASSUME NEW p, NEW S \in SUBSET Ids, NEW q \in Seq(AllEvents), NEW f, ShowsWay(p, S, q, f)
    PROVE  ShownAfter(p, S, q) = f[Len(q)]
<1> DEFINE L == Len(q)
<1>1. PICK g : ShowsWay(p, S, q, g) /\ ShownAfter(p, S, q) = g[L] BY ShownAfterWay
<1>2. L \in Nat BY LenProperties
<1> HIDE DEF L
<1> DEFINE T == {n \in 0 .. L : f[n] = g[n]}
<1>3. 0 \in T BY <1>1, <1>2 DEF ShowsWay
<1>4. ASSUME NEW n \in 1 .. L, n - 1 \in T PROVE n \in T
  <2>1. n \in 0 .. L BY <1>2
  <2>2. f[n] = Shows(p, f[n - 1], q[n]) /\ g[n] = Shows(p, g[n - 1], q[n])
    BY <1>1 DEF ShowsWay, L
  <2> QED BY <1>4, <2>1, <2>2
<1> HIDE DEF T
<1>5. 0 .. L \subseteq T BY <1>2, <1>3, <1>4, UpTo
<1>6. L \in 0 .. L BY <1>2
<1> QED BY <1>1, <1>5, <1>6 DEF T, L

\* What is shown are entities.
LEMMA ShownAfterType ==
    ASSUME NEW p, NEW S \in SUBSET Ids, NEW q \in Seq(AllEvents)
    PROVE  ShownAfter(p, S, q) \in SUBSET Ids
<1>1. PICK f \in [0 .. Len(q) -> SUBSET Ids] : ShownAfter(p, S, q) = f[Len(q)]
  BY ShownAfterWay
<1>2. Len(q) \in 0 .. Len(q) BY LenProperties
<1> QED BY <1>1, <1>2

\* Events shown one part after the other.
LEMMA ShownInParts ==
    ASSUME NEW p, NEW S \in SUBSET Ids, NEW a \in Seq(AllEvents), NEW b \in Seq(AllEvents)
    PROVE  ShownAfter(p, S, a \o b) = ShownAfter(p, ShownAfter(p, S, a), b)
<1> DEFINE q == a \o b
           A == Len(a)
           B == Len(b)
<1>1. A \in Nat /\ B \in Nat BY LenProperties
<1>2. /\ q \in Seq(AllEvents) /\ Len(q) = A + B
      /\ \A i \in 1 .. A + B : q[i] = IF i <= A THEN a[i] ELSE b[i - A]
  BY ConcatProperties
<1> HIDE DEF q, A, B
<1>3. PICK f : ShowsWay(p, S, q, f) /\ ShownAfter(p, S, q) = f[A + B]
  BY <1>2, ShownAfterWay
<1>4. f[0] = S /\ \A n \in 1 .. A + B : f[n] = Shows(p, f[n - 1], q[n])
  BY <1>2, <1>3 DEF ShowsWay
<1>5. ShowsWay(p, S, a, f)
  <2>1. \A n \in 1 .. A : n \in 1 .. A + B /\ q[n] = a[n] BY <1>1, <1>2
  <2> QED BY <1>4, <2>1 DEF ShowsWay, A
<1>6. ShownAfter(p, S, a) = f[A] BY <1>5, WayIsShown DEF A
<1> DEFINE g == [n \in 0 .. B |-> f[A + n]]
<1>7. g[0] = f[A] /\ g[B] = f[A + B] BY <1>1
<1>8. ASSUME NEW n \in 1 .. B PROVE g[n] = Shows(p, g[n - 1], b[n])
  <2>1. A + n \in 1 .. A + B /\ ~(A + n <= A) /\ (A + n) - A = n /\ (A + n) - 1 = A + (n - 1)
        /\ n \in 0 .. B /\ n - 1 \in 0 .. B
    BY <1>1
  <2>2. q[A + n] = b[n] BY <1>2, <2>1
  <2>3. f[A + n] = Shows(p, f[A + (n - 1)], q[A + n]) BY <1>4, <2>1
  <2>4. g[n] = f[A + n] /\ g[n - 1] = f[A + (n - 1)] BY <2>1
  <2> QED BY <2>2, <2>3, <2>4
<1> HIDE DEF g
<1>9. ShowsWay(p, ShownAfter(p, S, a), b, g) BY <1>6, <1>7, <1>8 DEF ShowsWay, B
<1>10. ShownAfter(p, ShownAfter(p, S, a), b) = g[B]
  BY <1>9, ShownAfterType, WayIsShown DEF B
<1> QED BY <1>3, <1>7, <1>10 DEF q

\* No event, one event.
LEMMA ShownAfterFew ==
    ASSUME NEW p, NEW S \in SUBSET Ids
    PROVE  /\ ShownAfter(p, S, <<>>) = S
           /\ \A e \in AllEvents : ShownAfter(p, S, <<e>>) = Shows(p, S, e)
<1>1. ShownAfter(p, S, <<>>) = S
  <2> DEFINE f == [n \in 0 .. 0 |-> S]
         q == <<>>
  <2>1. f[0] = S OBVIOUS
  <2>2. q \in Seq(AllEvents) /\ Len(q) = 0 BY EmptySeq
  <2> HIDE DEF f, q
  <2>3. ShowsWay(p, S, q, f) BY <2>1, <2>2 DEF ShowsWay
  <2>4. ShownAfter(p, S, q) = S BY <2>1, <2>2, <2>3, WayIsShown
  <2> QED BY <2>4 DEF q
<1>2. ASSUME NEW e \in AllEvents PROVE ShownAfter(p, S, <<e>>) = Shows(p, S, e)
  <2> DEFINE f == [n \in 0 .. 1 |-> IF n = 0 THEN S ELSE Shows(p, S, e)]
  <2>1. f[0] = S /\ f[1] = Shows(p, S, e) OBVIOUS
  <2> HIDE DEF f
  <2>2. <<e>> \in Seq(AllEvents) /\ Len(<<e>>) = 1 /\ <<e>>[1] = e OBVIOUS
  <2>3. \A n \in 1 .. 1 : n = 1 /\ n - 1 = 0 OBVIOUS
  <2>4. ShowsWay(p, S, <<e>>, f) BY <2>1, <2>2, <2>3 DEF ShowsWay
  <2> QED BY <2>1, <2>2, <2>4, WayIsShown
<1> QED BY <1>1, <1>2

\* Events of one type: entities appear, disappear, or stay where they are.
IdsOf(q) == {q[i].id : i \in 1 .. Len(q)}
AllOf(q, type) == \A i \in 1 .. Len(q) : q[i].type = type

\* Spawns add their entities.
LEMMA SpawnsShow ==
    ASSUME NEW p, NEW S \in SUBSET Ids, NEW q \in Seq(AllEvents), AllOf(q, "spawn")
    PROVE  ShownAfter(p, S, q) = S \cup IdsOf(q)
<1> DEFINE f == [n \in 0 .. Len(q) |-> S \cup {q[i].id : i \in 1 .. n}]
<1>1. Len(q) \in Nat BY LenProperties
<1>2. f[0] = S BY <1>1
<1>3. ASSUME NEW n \in 1 .. Len(q) PROVE f[n] = Shows(p, f[n - 1], q[n])
  <2>1. n \in 0 .. Len(q) /\ n - 1 \in 0 .. Len(q) BY <1>1
  <2>2. 1 .. n = (1 .. n - 1) \cup {n} BY <1>1
  <2>3. f[n] = f[n - 1] \cup {q[n].id} BY <2>1, <2>2
  <2>4. q[n].type = "spawn" BY DEF AllOf
  <2> QED BY <2>3, <2>4 DEF Shows
<1>4. f[Len(q)] = S \cup IdsOf(q) BY <1>1 DEF IdsOf
<1> HIDE DEF f
<1>5. ShowsWay(p, S, q, f) BY <1>2, <1>3 DEF ShowsWay
<1> QED BY <1>4, <1>5, WayIsShown

\* Despawns of others take theirs away.
LEMMA DespawnsHide ==
    ASSUME NEW p, NEW S \in SUBSET Ids, NEW q \in Seq(AllEvents), AllOf(q, "despawn"),
           p \notin IdsOf(q)
    PROVE  ShownAfter(p, S, q) = S \ IdsOf(q)
<1> DEFINE f == [n \in 0 .. Len(q) |-> S \ {q[i].id : i \in 1 .. n}]
<1>1. Len(q) \in Nat BY LenProperties
<1>2. f[0] = S BY <1>1
<1>3. ASSUME NEW n \in 1 .. Len(q) PROVE f[n] = Shows(p, f[n - 1], q[n])
  <2>1. n \in 0 .. Len(q) /\ n - 1 \in 0 .. Len(q) BY <1>1
  <2>2. 1 .. n = (1 .. n - 1) \cup {n} BY <1>1
  <2>3. f[n] = f[n - 1] \ {q[n].id} BY <2>1, <2>2
  <2>4. q[n].type = "despawn" /\ q[n].id # p BY DEF AllOf, IdsOf
  <2> QED BY <2>3, <2>4 DEF Shows
<1>4. f[Len(q)] = S \ IdsOf(q) BY <1>1 DEF IdsOf
<1> HIDE DEF f
<1>5. ShowsWay(p, S, q, f) BY <1>2, <1>3 DEF ShowsWay
<1> QED BY <1>4, <1>5, WayIsShown

\* Movements add and take nothing.
LEMMA MovesChangeNothing ==
    ASSUME NEW p, NEW S \in SUBSET Ids, NEW q \in Seq(AllEvents), AllOf(q, "move")
    PROVE  ShownAfter(p, S, q) = S
<1> DEFINE f == [n \in 0 .. Len(q) |-> S]
<1>1. Len(q) \in Nat BY LenProperties
<1>2. f[0] = S /\ f[Len(q)] = S BY <1>1
<1>3. ASSUME NEW n \in 1 .. Len(q) PROVE f[n] = Shows(p, f[n - 1], q[n])
  <2>1. n \in 0 .. Len(q) /\ n - 1 \in 0 .. Len(q) BY <1>1
  <2>2. q[n].type = "move" BY DEF AllOf
  <2> QED BY <2>1, <2>2 DEF Shows
<1> HIDE DEF f
<1>4. ShowsWay(p, S, q, f) BY <1>2, <1>3 DEF ShowsWay
<1> QED BY <1>2, <1>4, WayIsShown

-----------------------------------------------------------------------------
(* Sequences of movements and of visibility events.                        *)

\* Sequences of sequences, one after the other.
LEMMA FlattenType ==
    ASSUME NEW M, NEW seqs \in Seq(Seq(M)) PROVE FlattenSeq(seqs) \in Seq(M)
<1> DEFINE L == Len(seqs)
           V == Seq(M)
           empty == <<>>
           Step(n, v) == v \o seqs[n]
           flat[i \in 1 .. Len(seqs)] == IF i = 1 THEN seqs[i] ELSE flat[i - 1] \o seqs[i]
           step == [n \in 1 .. L |-> [v \in V |-> Step(n, v)]]
<1>1. L \in Nat /\ \A n \in 1 .. L : seqs[n] \in V BY LenProperties, ElementOfSeq
<1>2. \A n \in 1 .. L : \A v \in V : step[n][v] = Step(n, v) OBVIOUS
<1>3. \A n \in 1 .. L : \A v \in V : Step(n, v) \in V BY <1>1, ConcatProperties
<1>4. empty \in V /\ \A n \in 1 .. L : Step(n, empty) = seqs[n] BY <1>1, ConcatEmptySeq
<1>5. flat = CHOOSE x : x = [i \in 1 .. L |-> IF i = 1 THEN seqs[i] ELSE Step(i, x[i - 1])]
  OBVIOUS
<1>6. FlattenSeq(seqs) = IF L = 0 THEN seqs ELSE flat[L] BY DEF FlattenSeq
<1>7. L = 0 => seqs \in V
  <2> SUFFICES ASSUME L = 0 PROVE seqs = <<>> OBVIOUS
  <2> QED BY EmptySeq
<1> HIDE DEF L, V, empty, Step, step, flat
<1>8. KeepTo(V, L, step) BY <1>2, <1>3 DEF KeepTo
<1>9. PICK f \in [0 .. L -> V] : IsWay(f, empty, L, step) BY <1>1, <1>4, <1>8, Carried
<1> DEFINE g == [i \in 1 .. L |-> f[i]]
<1>10. g = [i \in 1 .. L |-> IF i = 1 THEN seqs[i] ELSE Step(i, g[i - 1])]
  <2>1. ASSUME NEW i \in 1 .. L PROVE g[i] = IF i = 1 THEN seqs[i] ELSE Step(i, g[i - 1])
    <3>1. i - 1 \in 0 .. L /\ f[i - 1] \in V BY <1>1
    <3>2. f[i] = Step(i, f[i - 1]) BY <1>2, <1>9, <3>1 DEF IsWay
    <3>3. CASE i = 1
      <4>1. f[i - 1] = empty BY <1>9, <3>3 DEF IsWay
      <4> QED BY <1>4, <3>2, <3>3, <4>1
    <3>4. CASE i # 1
      <4>1. i - 1 \in 1 .. L BY <1>1, <3>4
      <4> QED BY <3>2, <3>4, <4>1
    <3> QED BY <3>3, <3>4
  <2> QED BY <2>1
<1> HIDE DEF g
<1>11. flat = [i \in 1 .. L |-> IF i = 1 THEN seqs[i] ELSE Step(i, flat[i - 1])]
  BY <1>5, <1>10
<1> DEFINE S == {n \in 0 .. L : n = 0 \/ flat[n] \in V}
<1>12. 0 \in S BY <1>1
<1>13. ASSUME NEW n \in 1 .. L, n - 1 \in S PROVE n \in S
  <2>1. n \in 0 .. L BY <1>1
  <2>2. flat[n] = IF n = 1 THEN seqs[n] ELSE Step(n, flat[n - 1]) BY <1>11
  <2>3. n = 1 \/ flat[n - 1] \in V BY <1>1, <1>13
  <2>4. flat[n] \in V BY <1>1, <1>3, <2>2, <2>3
  <2> QED BY <2>1, <2>4
<1> HIDE DEF S
<1>14. 0 .. L \subseteq S BY <1>1, <1>12, <1>13, UpTo
<1>15. L # 0 => flat[L] \in V
  <2>1. L \in 0 .. L BY <1>1
  <2> QED BY <1>14, <2>1 DEF S
<1> QED BY <1>6, <1>7, <1>15 DEF V

\* A finite set as a sequence.
LEMMA ListedFacts ==
    ASSUME NEW S, IsFiniteSet(S)
    PROVE  /\ Cardinality(S) \in Nat
           /\ \A i \in 1 .. Cardinality(S) : Listed(S)[i] \in S
           /\ {Listed(S)[i] : i \in 1 .. Cardinality(S)} = S
<1> DEFINE n == Cardinality(S)
           f == Listed(S)
<1>1. n \in Nat /\ ExistsBijection(1 .. n, S) BY FS_CardinalityType
<1>2. \E g \in [1 .. n -> S] : IsInjective(g)
  BY <1>1 DEF ExistsBijection, Bijection, Injection
<1>3. f = CHOOSE g \in [1 .. n -> S] : IsInjective(g) BY DEF Listed, SetToSeq
<1> HIDE DEF f
<1>4. f \in [1 .. n -> S] /\ IsInjective(f) BY <1>2, <1>3
<1>5. f \in Injection(1 .. n, S) BY <1>4 DEF Injection
<1>6. Cardinality(1 .. n) = n
  <2>1. IsFiniteSet(1 .. n) /\ Cardinality(1 .. n) = n BY <1>1, FS_Interval
  <2> QED BY <2>1
<1>7. f \in Surjection(1 .. n, S) BY <1>5, <1>6, FS_Injection
<1>8. {f[i] : i \in 1 .. n} = S BY <1>4, <1>7 DEF Surjection
<1> QED BY <1>1, <1>4, <1>8 DEF f

\* There are finitely many entities.
LEMMA IdsAreFinite == \A S : S \subseteq Ids => IsFiniteSet(S)
<1>1. IsFiniteSet(Ids) BY ReplicationAssumption, FS_Union DEF Ids
<1> QED BY <1>1, FS_Subset

\* queue_visibility_diff: a spawn for each entity that entered, a despawn for
\* each one that is gone.
LEMMA EnteredFacts ==
    ASSUME NEW new \in SUBSET Ids, NEW old, ver \in [Ids -> Nat]
    PROVE  /\ Entered(new, old) \in Seq(AllEvents)
           /\ AllOf(Entered(new, old), "spawn")
           /\ IdsOf(Entered(new, old)) = new \ old
<1> DEFINE S == new \ old
           n == Cardinality(S)
           q == Entered(new, old)
<1>1. S \subseteq Ids /\ IsFiniteSet(S) BY IdsAreFinite
<1>2. /\ n \in Nat /\ \A i \in 1 .. n : Listed(S)[i] \in S
      /\ {Listed(S)[i] : i \in 1 .. n} = S
  BY <1>1, ListedFacts
<1>3. q = [i \in 1 .. n |-> Spawn(Listed(S)[i])] BY DEF Entered
<1> HIDE DEF S, n, q
<1>4. \A t \in Ids : Spawn(t) \in AllEvents /\ Spawn(t).type = "spawn" /\ Spawn(t).id = t
  BY DEF Spawn, AllEvents
<1>5. \A i \in 1 .. n : /\ Spawn(Listed(S)[i]) \in AllEvents
                        /\ Spawn(Listed(S)[i]).type = "spawn"
                        /\ Spawn(Listed(S)[i]).id = Listed(S)[i]
  BY <1>1, <1>2, <1>4
<1>6. q \in [1 .. n -> AllEvents] BY <1>3, <1>5
<1>7. q \in Seq(AllEvents) /\ Len(q) = n BY <1>2, <1>6
<1>8. AllOf(q, "spawn") BY <1>3, <1>5, <1>7 DEF AllOf
<1>9. IdsOf(q) = S BY <1>2, <1>3, <1>5, <1>7 DEF IdsOf
<1> QED BY <1>7, <1>8, <1>9 DEF q, S

\* The same of the entities that are gone.
LEMMA GoneFacts ==
    ASSUME NEW new, NEW old \in SUBSET Ids
    PROVE  /\ Gone(new, old) \in Seq(AllEvents)
           /\ AllOf(Gone(new, old), "despawn")
           /\ IdsOf(Gone(new, old)) = old \ new
<1> DEFINE S == old \ new
           n == Cardinality(S)
           q == Gone(new, old)
<1>1. S \subseteq Ids /\ IsFiniteSet(S) BY IdsAreFinite
<1>2. /\ n \in Nat /\ \A i \in 1 .. n : Listed(S)[i] \in S
      /\ {Listed(S)[i] : i \in 1 .. n} = S
  BY <1>1, ListedFacts
<1>3. q = [i \in 1 .. n |-> Despawn(Listed(S)[i])] BY DEF Gone
<1> HIDE DEF S, n, q
<1>4. \A t \in Ids : Despawn(t) \in AllEvents /\ Despawn(t).type = "despawn" /\ Despawn(t).id = t
  BY DEF Despawn, AllEvents
<1>5. \A i \in 1 .. n : /\ Despawn(Listed(S)[i]) \in AllEvents
                        /\ Despawn(Listed(S)[i]).type = "despawn"
                        /\ Despawn(Listed(S)[i]).id = Listed(S)[i]
  BY <1>1, <1>2, <1>4
<1>6. q \in [1 .. n -> AllEvents] BY <1>3, <1>5
<1>7. q \in Seq(AllEvents) /\ Len(q) = n BY <1>2, <1>6
<1>8. AllOf(q, "despawn") BY <1>3, <1>5, <1>7 DEF AllOf
<1>9. IdsOf(q) = S BY <1>2, <1>3, <1>5, <1>7 DEF IdsOf
<1> QED BY <1>7, <1>8, <1>9 DEF q, S

-----------------------------------------------------------------------------
(* Outboxes.                                                               *)

Places == [id : Ids, ver : Nat]
Movements == [id : Ids, ver : Nat, kind : {"move", "attack"}]
Outboxes == [events : Seq(AllEvents), latest : [Ids -> Nat], remote : Seq(Places)]

\* The movements that go to an observer are movements.
LEMMA MovesForType ==
    ASSUME NEW p, NEW nv, pending \in Seq(Movements) PROVE MovesFor(p, nv) \in Seq(Movements)
<1> DEFINE n == Cardinality(Ids)
           seqs == [i \in 1 .. n |-> Those(pending, {Listed(Ids)[i]})]
<1>1. n \in Nat BY ListedFacts, IdsAreFinite
<1>2. \A i \in 1 .. n : Those(pending, {Listed(Ids)[i]}) \in Seq(Movements)
  BY PickedType DEF Those
<1>3. seqs \in [1 .. n -> Seq(Movements)] BY <1>2
<1>4. seqs \in Seq(Seq(Movements))
  <2> DEFINE V == Seq(Movements)
  <2>1. seqs \in [1 .. n -> V] BY <1>3
  <2> HIDE DEF V, seqs, n
  <2>2. seqs \in Seq(V) BY <1>1, <2>1
  <2> QED BY <2>2 DEF V
<1>5. ByEntity(pending) = FlattenSeq(seqs) BY DEF ByEntity
<1> HIDE DEF seqs
<1>6. ByEntity(pending) \in Seq(Movements) BY <1>4, <1>5, FlattenType
<1> QED BY <1>6, PickedType DEF MovesFor

\* An outbox with events pushed to it.
LEMMA PushAllFacts ==
    ASSUME NEW o \in Outboxes, NEW es \in Seq(AllEvents)
    PROVE  PushAll(o, es) \in Outboxes /\ PushAll(o, es).events = o.events \o es
<1>1. o.events \in Seq(AllEvents) BY DEF Outboxes
<1>2. o.events \o es \in Seq(AllEvents) BY <1>1, ConcatProperties
<1>3. PushAll(o, es) = [o EXCEPT !.events = o.events \o es] BY DEF PushAll, Outboxes
<1> QED BY <1>2, <1>3 DEF Outboxes

\* Sequences of events put together.
LEMMA Associates ==
    ASSUME NEW x \in Seq(AllEvents), NEW y \in Seq(AllEvents), NEW z \in Seq(AllEvents)
    PROVE  (x \o y) \o z = x \o (y \o z)
BY ConcatAssociative

\* The events of b are those of a and moves after them.
MoreMoves(a, b) ==
    \E es \in Seq(AllEvents) : AllOf(es, "move") /\ b.events = a.events \o es

\* An outbox with the same events.
LEMMA SameEventsMoreMoves ==
    ASSUME NEW a \in Outboxes, NEW b, b.events = a.events PROVE MoreMoves(a, b)
<1> DEFINE es == <<>>
<1>1. es \in Seq(AllEvents) /\ Len(es) = 0 BY EmptySeq
<1>2. a.events \in Seq(AllEvents) BY DEF Outboxes
<1>3. a.events \o es = a.events BY <1>2, ConcatEmptySeq
<1> HIDE DEF es
<1>4. AllOf(es, "move") BY <1>1 DEF AllOf
<1> QED BY <1>1, <1>3, <1>4 DEF MoreMoves

\* Movements after movements.
LEMMA MoreMovesAgain ==
    ASSUME NEW a \in Outboxes, NEW b \in Outboxes, NEW c, MoreMoves(a, b), MoreMoves(b, c)
    PROVE  MoreMoves(a, c)
<1>1. PICK d \in Seq(AllEvents) : AllOf(d, "move") /\ b.events = a.events \o d
  BY DEF MoreMoves
<1>2. PICK e \in Seq(AllEvents) : AllOf(e, "move") /\ c.events = b.events \o e
  BY DEF MoreMoves
<1>3. a.events \in Seq(AllEvents) BY DEF Outboxes
<1>4. c.events = a.events \o (d \o e)
  <2>1. c.events = (a.events \o d) \o e BY <1>1, <1>2
  <2> QED BY <1>3, <2>1, Associates
<1>5. d \o e \in Seq(AllEvents) BY ConcatProperties
<1>6. AllOf(d \o e, "move")
  <2>1. Len(d) \in Nat /\ Len(e) \in Nat BY LenProperties
  <2>2. /\ Len(d \o e) = Len(d) + Len(e)
        /\ \A i \in 1 .. Len(d) + Len(e) :
              (d \o e)[i] = IF i <= Len(d) THEN d[i] ELSE e[i - Len(d)]
    BY ConcatProperties
  <2>3. \A i \in 1 .. Len(d) + Len(e) : i <= Len(d) => i \in 1 .. Len(d) BY <2>1
  <2>4. \A i \in 1 .. Len(d) + Len(e) : ~(i <= Len(d)) => i - Len(d) \in 1 .. Len(e) BY <2>1
  <2> QED BY <1>1, <1>2, <2>2, <2>3, <2>4 DEF AllOf
<1> QED BY <1>4, <1>5, <1>6 DEF MoreMoves

\* push_movement_event sends an attack with the reliable events; a movement
\* waits in a bucket of its own.
LEMMA PushedFacts ==
    ASSUME NEW o \in Outboxes, NEW m \in Movements
    PROVE  Pushed(o, m) \in Outboxes /\ MoreMoves(o, Pushed(o, m))
<1> DEFINE place == [id |-> m.id, ver |-> m.ver]
<1>1. /\ o = [events |-> o.events, latest |-> o.latest, remote |-> o.remote]
      /\ o.events \in Seq(AllEvents) /\ o.latest \in [Ids -> Nat] /\ o.remote \in Seq(Places)
      /\ m.id \in Ids /\ m.ver \in Nat
  BY DEF Outboxes, Movements
<1>2. place \in Places BY <1>1 DEF Places
<1>3. CASE m.kind = "attack"
  <2> DEFINE es == <<MoveTo(m)>>
  <2>1. MoveTo(m) \in AllEvents /\ MoveTo(m).type = "move" BY <1>1 DEF MoveTo, AllEvents
  <2>2. es \in Seq(AllEvents) /\ Len(es) = 1 /\ es[1] = MoveTo(m) BY <2>1
  <2>3. Pushed(o, m) = PushAll(o, es) BY <1>3 DEF Pushed
  <2> HIDE DEF es
  <2>4. AllOf(es, "move") BY <2>1, <2>2 DEF AllOf
  <2> QED BY <2>2, <2>3, <2>4, PushAllFacts DEF MoreMoves
<1>4. CASE m.kind # "attack"
  <2> DEFINE a == Prioritized(o, place)
             b == PushRemote(o, place)
  <2>1. a \in Outboxes /\ a.events = o.events
    <3> DEFINE r == Without(o.remote, {place.id})
               l == [o.latest EXCEPT ![place.id] = place.ver]
    <3>1. a = [o EXCEPT !.remote = r, !.latest = l]
      BY <1>1 DEF Prioritized
    <3>2. r \in Seq(Places) BY <1>1, PickedType DEF Without
    <3>3. l \in [Ids -> Nat] BY <1>1
    <3> HIDE DEF r, l
    <3> QED BY <1>1, <3>1, <3>2, <3>3 DEF Outboxes
  <2>2. b \in Outboxes /\ b.events = o.events
    <3>1. Append(o.remote, place) \in Seq(Places) BY <1>1, <1>2, AppendProperties
    <3>2. b = o \/ b = [o EXCEPT !.remote = Append(o.remote, place)]
      BY <1>1 DEF PushRemote
    <3> QED BY <1>1, <3>1, <3>2 DEF Outboxes
  <2>3. Pushed(o, m) = IF m.kind = "move" /\ m.id \in Players THEN a ELSE b
    BY <1>4 DEF Pushed
  <2> HIDE DEF a, b
  <2>4. MoreMoves(o, a) /\ MoreMoves(o, b) BY <2>1, <2>2, SameEventsMoreMoves
  <2> QED BY <2>1, <2>2, <2>3, <2>4
<1> QED BY <1>3, <1>4

\* flush_pending_movements adds nothing but movements to an outbox.
LEMMA PushedAllFacts ==
    ASSUME NEW o \in Outboxes, NEW ms \in Seq(Movements)
    PROVE  PushedAll(o, ms) \in Outboxes /\ MoreMoves(o, PushedAll(o, ms))
<1> DEFINE L == Len(ms)
           V == {x \in Outboxes : MoreMoves(o, x)}
           Step(n, v) == Pushed(v, ms[n])
           after[n \in 0 .. Len(ms)] == IF n = 0 THEN o ELSE Pushed(after[n - 1], ms[n])
           step == [n \in 1 .. L |-> [v \in V |-> Step(n, v)]]
<1>1. L \in Nat /\ \A n \in 1 .. L : ms[n] \in Movements BY LenProperties, ElementOfSeq
<1>2. \A n \in 1 .. L : \A v \in V : step[n][v] = Step(n, v) OBVIOUS
<1>3. ASSUME NEW n \in 1 .. L, NEW v \in V PROVE Step(n, v) \in V
  <2>1. ms[n] \in Movements BY <1>1
  <2>2. Step(n, v) \in Outboxes /\ MoreMoves(v, Step(n, v)) BY <2>1, PushedFacts
  <2>3. MoreMoves(o, Step(n, v)) BY <2>2, MoreMovesAgain
  <2> QED BY <2>2, <2>3
<1>4. o \in V BY SameEventsMoreMoves
<1>5. after = CHOOSE x : x = [n \in 0 .. L |-> IF n = 0 THEN o ELSE Step(n, x[n - 1])]
  OBVIOUS
<1>6. PushedAll(o, ms) = after[L] BY DEF PushedAll
<1> HIDE DEF L, V, Step, step, after
<1>7. KeepTo(V, L, step) BY <1>2, <1>3 DEF KeepTo
<1>8. PICK f \in [0 .. L -> V] : IsWay(f, o, L, step) BY <1>1, <1>4, <1>7, Carried
<1>9. f = [n \in 0 .. L |-> IF n = 0 THEN o ELSE Step(n, f[n - 1])]
  <2>1. ASSUME NEW n \in 0 .. L PROVE f[n] = IF n = 0 THEN o ELSE Step(n, f[n - 1])
    <3>1. CASE n = 0 BY <1>8, <3>1 DEF IsWay
    <3>2. CASE n # 0
      <4>1. n \in 1 .. L /\ n - 1 \in 0 .. L BY <1>1, <3>2
      <4> QED BY <1>2, <1>8, <3>2, <4>1 DEF IsWay
    <3> QED BY <3>1, <3>2
  <2> QED BY <2>1
<1>10. after = [n \in 0 .. L |-> IF n = 0 THEN o ELSE Step(n, after[n - 1])] BY <1>5, <1>9
<1>11. after[0] = o /\ \A n \in 1 .. L : after[n] = Step(n, after[n - 1])
  <2>1. \A n \in 1 .. L : n \in 0 .. L /\ n # 0 BY <1>1
  <2> QED BY <1>1, <1>10, <2>1
<1>12. \A n \in 0 .. L : after[n] \in V
  <2>1. \A n \in 1 .. L : after[n - 1] \in V => after[n] = step[n][after[n - 1]]
    BY <1>2, <1>11
  <2>2. L \in Nat /\ after[0] = o BY <1>1, <1>11
  <2>3. IsWay(after, o, L, step) /\ \A n \in 0 .. L : after[n] \in V
    BY <1>4, <1>7, <2>1, <2>2, TakesSteps
  <2> QED BY <2>3
<1>13. L \in 0 .. L BY <1>1
<1>14. PushedAll(o, ms) \in V BY <1>6, <1>12, <1>13
<1> QED BY <1>14 DEF V

\* A client that has read more movements shows the same entities.
LEMMA MoreMovesShowNothing ==
    ASSUME NEW p, NEW S \in SUBSET Ids, NEW c \in Seq(AllEvents), NEW a \in Outboxes, NEW b,
           MoreMoves(a, b)
    PROVE  ShownAfter(p, S, c \o b.events) = ShownAfter(p, S, c \o a.events)
<1>1. PICK es \in Seq(AllEvents) : AllOf(es, "move") /\ b.events = a.events \o es
  BY DEF MoreMoves
<1>2. a.events \in Seq(AllEvents) /\ c \o a.events \in Seq(AllEvents)
  BY ConcatProperties DEF Outboxes
<1>3. c \o b.events = (c \o a.events) \o es
  <2>1. c \o b.events = c \o (a.events \o es) BY <1>1
  <2> QED BY <1>2, <2>1, Associates
<1>4. ShownAfter(p, S, c \o a.events) \in SUBSET Ids BY <1>2, ShownAfterType
<1>5. ShownAfter(p, S, c \o b.events)
        = ShownAfter(p, ShownAfter(p, S, c \o a.events), es)
  <2> DEFINE x == c \o a.events
             y == c \o b.events
  <2>1. x \in Seq(AllEvents) /\ y = x \o es BY <1>2, <1>3
  <2> HIDE DEF x, y
  <2>2. ShownAfter(p, S, x \o es) = ShownAfter(p, ShownAfter(p, S, x), es)
    BY <2>1, ShownInParts
  <2> QED BY <2>1, <2>2 DEF x, y
<1> QED BY <1>1, <1>4, <1>5, MovesChangeNothing

-----------------------------------------------------------------------------
(* What a client comes to show.                                            *)

\* A client of p that shows the entities k, before it reads the events c and
\* those of the outbox o, comes to show itself and v.
ComesToShow(p, k, c, o, v) == ShownAfter(p, k, c \o o.events) = {p} \cup v

\* The part of the state between an outbox and what the client shows.
ViewShape ==
    /\ ver \in [Ids -> Nat]
    /\ pending \in Seq(Movements)
    /\ out \in [Players -> Outboxes]
    /\ chan \in [Players -> Seq(AllEvents)]
    /\ known \in [Players -> SUBSET Ids]
    /\ open \in [Players -> BOOLEAN]

\* A net id that was not handed out yet has no connection.
NobodyYet ==
    \A p \in Players : p \notin used => chan[p] = <<>> /\ known[p] = {} /\ ~open[p]

\* The inductive invariant, next to GraphInv.
ViewInv == ViewShape /\ NobodyYet /\ ViewConverges
\* Events pushed to an outbox are read after those that are there.
LEMMA PushedShown ==
    ASSUME NEW p \in Players, NEW k \in SUBSET Ids, NEW c \in Seq(AllEvents),
           NEW o \in Outboxes, NEW es \in Seq(AllEvents), NEW v, ComesToShow(p, k, c, o, v)
    PROVE  /\ {p} \cup v \in SUBSET Ids
           /\ \A w : ShownAfter(p, {p} \cup v, es) = {p} \cup w
                    => ComesToShow(p, k, c, PushAll(o, es), w)
<1> DEFINE x == c \o o.events
           y == c \o PushAll(o, es).events
<1>1. o.events \in Seq(AllEvents) BY DEF Outboxes
<1>2. x \in Seq(AllEvents) BY <1>1, ConcatProperties
<1>3. y = x \o es
  <2>1. PushAll(o, es).events = o.events \o es BY PushAllFacts
  <2>2. y = c \o (o.events \o es) BY <2>1
  <2> HIDE DEF y
  <2> QED BY <1>1, <2>2, Associates
<1>4. ShownAfter(p, k, x) = {p} \cup v BY DEF ComesToShow
<1> HIDE DEF x, y
<1>5. {p} \cup v \in SUBSET Ids BY <1>2, <1>4, ShownAfterType
<1>6. ShownAfter(p, k, y) = ShownAfter(p, {p} \cup v, es)
  <2>1. ShownAfter(p, k, x \o es) = ShownAfter(p, ShownAfter(p, k, x), es)
    BY <1>2, ShownInParts
  <2> QED BY <1>3, <1>4, <2>1
<1>7. ASSUME NEW w, ShownAfter(p, {p} \cup v, es) = {p} \cup w
      PROVE  ComesToShow(p, k, c, PushAll(o, es), w)
  BY <1>6, <1>7 DEF ComesToShow, y
<1> QED BY <1>5, <1>7

\* More movements in the outbox show nothing else.
LEMMA MovesShown ==
    ASSUME NEW p \in Players, NEW k \in SUBSET Ids, NEW c \in Seq(AllEvents),
           NEW a \in Outboxes, NEW b, MoreMoves(a, b), NEW v, ComesToShow(p, k, c, a, v)
    PROVE  ComesToShow(p, k, c, b, v)
<1>1. ShownAfter(p, k, c \o b.events) = ShownAfter(p, k, c \o a.events)
  BY MoreMovesShowNothing
<1> QED BY <1>1 DEF ComesToShow

\* Two events, one after the other.
LEMMA ShownAfterTwo ==
    ASSUME NEW p, NEW S \in SUBSET Ids, NEW d \in AllEvents, NEW e \in AllEvents
    PROVE  /\ <<d, e>> \in Seq(AllEvents)
           /\ ShownAfter(p, S, <<d, e>>) = Shows(p, Shows(p, S, d), e)
<1>1. <<d>> \in Seq(AllEvents) /\ <<e>> \in Seq(AllEvents) /\ <<d, e>> \in Seq(AllEvents)
  OBVIOUS
<1>7. <<d, e>> = <<d>> \o <<e>>
  <2>1. <<d, e>> = Append(<<d>>, e) OBVIOUS
  <2> QED BY <1>1, <2>1, AppendIsConcat
<1>2. d.id \in Ids BY DEF AllEvents
<1>3. Shows(p, S, d) \in SUBSET Ids BY <1>2 DEF Shows
<1>4. ShownAfter(p, S, <<d>>) = Shows(p, S, d) BY ShownAfterFew
<1>5. ShownAfter(p, Shows(p, S, d), <<e>>) = Shows(p, Shows(p, S, d), e)
  BY <1>3, ShownAfterFew
<1>6. ShownAfter(p, S, <<d>> \o <<e>>) = ShownAfter(p, ShownAfter(p, S, <<d>>), <<e>>)
  BY <1>1, ShownInParts
<1> QED BY <1>1, <1>4, <1>5, <1>6, <1>7

\* The spawn and the despawn of an entity.
LEMMA EventFacts ==
    ASSUME NEW t \in Ids, ver \in [Ids -> Nat]
    PROVE  /\ Spawn(t) \in AllEvents /\ Despawn(t) \in AllEvents
           /\ \A p, S : Shows(p, S, Spawn(t)) = S \cup {t}
           /\ \A p, S : Shows(p, S, Despawn(t)) = IF t = p THEN {} ELSE S \ {t}
BY DEF Spawn, Despawn, AllEvents, Shows

\* NotifyGone: an observer is told that entity t is gone.
LEMMA DespawnShown ==
    ASSUME NEW p \in Players, NEW k \in SUBSET Ids, NEW c \in Seq(AllEvents),
           NEW o \in Outboxes, NEW v, ComesToShow(p, k, c, o, v),
           NEW t \in Ids, t # p, ver \in [Ids -> Nat]
    PROVE  /\ PushAll(o, <<Despawn(t)>>) \in Outboxes
           /\ ComesToShow(p, k, c, PushAll(o, <<Despawn(t)>>), v \ {t})
<1>1. Despawn(t) \in AllEvents /\ \A S : Shows(p, S, Despawn(t)) = S \ {t} BY EventFacts
<1> DEFINE es == <<Despawn(t)>>
<1>2. es \in Seq(AllEvents) BY <1>1
<1>3. ASSUME NEW S \in SUBSET Ids PROVE ShownAfter(p, S, es) = S \ {t}
  <2>1. ShownAfter(p, S, es) = Shows(p, S, Despawn(t)) BY <1>1, ShownAfterFew
  <2> QED BY <1>1, <2>1
<1> HIDE DEF es
<1>4. {p} \cup v \in SUBSET Ids BY <1>2, PushedShown
<1>5. ShownAfter(p, {p} \cup v, es) = {p} \cup (v \ {t}) BY <1>3, <1>4
<1>6. ComesToShow(p, k, c, PushAll(o, es), v \ {t}) BY <1>2, <1>5, PushedShown
<1>7. PushAll(o, es) \in Outboxes BY <1>2, PushAllFacts
<1> QED BY <1>6, <1>7 DEF es

\* restart_player: an observer is sent a despawn and a spawn of entity t.
LEMMA RespawnShown ==
    ASSUME NEW p \in Players, NEW k \in SUBSET Ids, NEW c \in Seq(AllEvents),
           NEW o \in Outboxes, NEW v, ComesToShow(p, k, c, o, v),
           NEW t \in Ids, t # p, t \in v, ver \in [Ids -> Nat]
    PROVE  /\ PushAll(o, <<Despawn(t), Spawn(t)>>) \in Outboxes
           /\ ComesToShow(p, k, c, PushAll(o, <<Despawn(t), Spawn(t)>>), v)
<1>1. /\ Despawn(t) \in AllEvents /\ Spawn(t) \in AllEvents
      /\ \A S : Shows(p, Shows(p, S, Despawn(t)), Spawn(t)) = (S \ {t}) \cup {t}
  BY EventFacts
<1> DEFINE es == <<Despawn(t), Spawn(t)>>
<1>2. es \in Seq(AllEvents) BY <1>1
<1>3. ASSUME NEW S \in SUBSET Ids PROVE ShownAfter(p, S, es) = (S \ {t}) \cup {t}
  <2>1. ShownAfter(p, S, es) = Shows(p, Shows(p, S, Despawn(t)), Spawn(t))
    BY <1>1, ShownAfterTwo
  <2> QED BY <1>1, <2>1
<1> HIDE DEF es
<1>4. {p} \cup v \in SUBSET Ids BY <1>2, PushedShown
<1>5. ShownAfter(p, {p} \cup v, es) = {p} \cup v BY <1>3, <1>4
<1>6. ComesToShow(p, k, c, PushAll(o, es), v) BY <1>2, <1>5, PushedShown
<1>7. PushAll(o, es) \in Outboxes BY <1>2, PushAllFacts
<1> QED BY <1>6, <1>7 DEF es

\* restart_player: the client of a restarted player shows its view anew.
LEMMA RestartShown ==
    ASSUME NEW p \in Players, NEW k \in SUBSET Ids, NEW c \in Seq(AllEvents),
           NEW o \in Outboxes, ComesToShow(p, k, c, o, vis[p]), vis[p] \in SUBSET Ids,
           ver \in [Ids -> Nat]
    PROVE  /\ PushAll(o, RestartView(p)) \in Outboxes
           /\ ComesToShow(p, k, c, PushAll(o, RestartView(p)), vis[p])
<1> DEFINE w == vis[p]
           a == <<Despawn(p), Spawn(p)>>
           b == Entered(w, {})
           es == a \o b
<1>1. p \in Ids BY DEF Ids
<1>2. /\ Despawn(p) \in AllEvents /\ Spawn(p) \in AllEvents
      /\ \A S : Shows(p, Shows(p, S, Despawn(p)), Spawn(p)) = {p}
  BY <1>1, EventFacts
<1>3. a \in Seq(AllEvents) BY <1>2
<1>4. ASSUME NEW S \in SUBSET Ids PROVE ShownAfter(p, S, a) = {p}
  <2>1. ShownAfter(p, S, a) = Shows(p, Shows(p, S, Despawn(p)), Spawn(p))
    BY <1>2, ShownAfterTwo
  <2> QED BY <1>2, <2>1
<1>6. RestartView(p) = es BY DEF RestartView
<1> HIDE DEF w, a
<1>5. b \in Seq(AllEvents) /\ AllOf(b, "spawn") /\ IdsOf(b) = w
  <2>1. w \in SUBSET Ids /\ w \ {} = w BY DEF w
  <2> QED BY <2>1, EnteredFacts
<1> HIDE DEF b
<1>7. es \in Seq(AllEvents) BY <1>3, <1>5, ConcatProperties
<1>8. ASSUME NEW S \in SUBSET Ids PROVE ShownAfter(p, S, es) = {p} \cup w
  <2>1. ShownAfter(p, S, es) = ShownAfter(p, ShownAfter(p, S, a), b)
    BY <1>3, <1>5, ShownInParts
  <2>2. ShownAfter(p, {p}, b) = {p} \cup IdsOf(b) BY <1>1, <1>5, SpawnsShow
  <2>3. ShownAfter(p, S, a) = {p} BY <1>4
  <2> QED BY <1>5, <2>1, <2>2, <2>3
<1> HIDE DEF es
<1>9. {p} \cup w \in SUBSET Ids BY <1>7, PushedShown DEF w
<1>10. ShownAfter(p, {p} \cup w, es) = {p} \cup w BY <1>8, <1>9
<1>11. ComesToShow(p, k, c, PushAll(o, es), w) BY <1>7, <1>10, PushedShown DEF w
<1>12. PushAll(o, es) \in Outboxes BY <1>7, PushAllFacts
<1> QED BY <1>6, <1>11, <1>12 DEF w
\* queue_visibility_diff: the client comes to show the new visible set.
LEMMA DiffShown ==
    ASSUME NEW p \in Players, NEW k \in SUBSET Ids, NEW c \in Seq(AllEvents),
           NEW o \in Outboxes, NEW old \in SUBSET Ids, NEW new \in SUBSET Ids,
           p \notin old, p \notin new, ComesToShow(p, k, c, o, old), ver \in [Ids -> Nat]
    PROVE  /\ PushAll(o, Entered(new, old) \o Gone(new, old)) \in Outboxes
           /\ ComesToShow(p, k, c, PushAll(o, Entered(new, old) \o Gone(new, old)), new)
<1> DEFINE a == Entered(new, old)
           b == Gone(new, old)
           es == a \o b
<1>1. a \in Seq(AllEvents) /\ AllOf(a, "spawn") /\ IdsOf(a) = new \ old BY EnteredFacts
<1>2. b \in Seq(AllEvents) /\ AllOf(b, "despawn") /\ IdsOf(b) = old \ new BY GoneFacts
<1> HIDE DEF a, b
<1>3. es \in Seq(AllEvents) BY <1>1, <1>2, ConcatProperties
<1>4. {p} \cup old \in SUBSET Ids BY <1>3, PushedShown
<1>5. ShownAfter(p, {p} \cup old, es) = {p} \cup new
  <2> DEFINE S == {p} \cup old
             T == S \cup (new \ old)
  <2>1. S \in SUBSET Ids /\ T \in SUBSET Ids BY <1>4
  <2>2. T \ (old \ new) = {p} \cup new OBVIOUS
  <2> HIDE DEF S, T
  <2>3. ShownAfter(p, S, a) = T BY <1>1, <2>1, SpawnsShow DEF T
  <2>4. ShownAfter(p, T, b) = T \ (old \ new)
    <3>1. p \notin IdsOf(b) BY <1>2
    <3> QED BY <1>2, <2>1, <3>1, DespawnsHide
  <2>5. ShownAfter(p, S, a \o b) = ShownAfter(p, ShownAfter(p, S, a), b)
    BY <1>1, <1>2, <2>1, ShownInParts
  <2> QED BY <2>2, <2>3, <2>4, <2>5 DEF S
<1> HIDE DEF es
<1>6. ComesToShow(p, k, c, PushAll(o, es), new) BY <1>3, <1>5, PushedShown
<1>7. PushAll(o, es) \in Outboxes BY <1>3, PushAllFacts
<1> QED BY <1>6, <1>7 DEF es, a, b

\* handle_player_enter: the first view of a client that shows nothing yet.
LEMMA FirstViewShown ==
    ASSUME NEW p \in Players, NEW near \in SUBSET Ids, ver \in [Ids -> Nat]
    PROVE  /\ PushAll(EmptyOutbox, <<Spawn(p)>> \o Entered(near, {})) \in Outboxes
           /\ ComesToShow(p, {}, <<>>,
                          PushAll(EmptyOutbox, <<Spawn(p)>> \o Entered(near, {})), near)
<1> DEFINE a == <<Spawn(p)>>
           b == Entered(near, {})
           es == a \o b
           o == PushAll(EmptyOutbox, es)
           none == <<>>
<1>1. p \in Ids BY DEF Ids
<1>2. Spawn(p) \in AllEvents /\ Shows(p, {}, Spawn(p)) = {p} BY <1>1, EventFacts
<1>3. a \in Seq(AllEvents) BY <1>2
<1>4. ShownAfter(p, {}, a) = {p}
  <2>1. ASSUME NEW S \in SUBSET Ids PROVE ShownAfter(p, S, a) = Shows(p, S, Spawn(p))
    BY <1>2, ShownAfterFew
  <2>2. {} \in SUBSET Ids OBVIOUS
  <2> HIDE DEF a
  <2> QED BY <1>2, <2>1, <2>2
<1>5. b \in Seq(AllEvents) /\ AllOf(b, "spawn") /\ IdsOf(b) = near
  <2>1. near \ {} = near OBVIOUS
  <2> QED BY <2>1, EnteredFacts
<1>6. EmptyOutbox \in Outboxes /\ EmptyOutbox.events = none
  BY EmptySeq DEF EmptyOutbox, Outboxes
<1>7. none \in Seq(AllEvents) BY EmptySeq
<1> HIDE DEF a, b
<1>8. es \in Seq(AllEvents) BY <1>3, <1>5, ConcatProperties
<1>9. ShownAfter(p, {}, es) = {p} \cup near
  <2>1. ShownAfter(p, {}, a \o b) = ShownAfter(p, ShownAfter(p, {}, a), b)
    BY <1>3, <1>5, ShownInParts
  <2>2. ShownAfter(p, {p}, b) = {p} \cup near BY <1>1, <1>5, SpawnsShow
  <2> QED BY <1>4, <2>1, <2>2
<1>10. o \in Outboxes /\ o.events = none \o es BY <1>6, <1>8, PushAllFacts
<1> HIDE DEF es, o
<1>11. none \o es = es BY <1>8, ConcatEmptySeq
<1> HIDE DEF none
<1>12. none \o o.events = es
  <2> QED BY <1>10, <1>11
<1>13. ComesToShow(p, {}, none, o, near) BY <1>9, <1>12 DEF ComesToShow
<1> QED BY <1>10, <1>13 DEF none, o, es, a, b

\* flush sends the first reliable event.
LEMMA SentEventShown ==
    ASSUME NEW p \in Players, NEW k \in SUBSET Ids, NEW c \in Seq(AllEvents),
           NEW o \in Outboxes, o.events # <<>>, NEW v
    PROVE  /\ Head(o.events) \in AllEvents
           /\ Append(c, Head(o.events)) \in Seq(AllEvents)
           /\ Taken(o, "events", Head(o.events)) \in Outboxes
           /\ ComesToShow(p, k, c, o, v)
                => ComesToShow(p, k, Append(c, Head(o.events)),
                               Taken(o, "events", Head(o.events)), v)
<1> DEFINE s == o.events
           h == Head(s)
           t == Tail(s)
           n == Taken(o, "events", h)
<1>1. s \in Seq(AllEvents) /\ s # <<>> BY DEF Outboxes
<1>2. /\ o = [events |-> s, latest |-> o.latest, remote |-> o.remote]
      /\ o.latest \in [Ids -> Nat] /\ o.remote \in Seq(Places)
  BY DEF Outboxes
<1>3. n = [o EXCEPT !.events = t] BY DEF Taken, Outboxes
<1> HIDE DEF s, n
<1>4. h \in AllEvents /\ t \in Seq(AllEvents) /\ s = <<h>> \o t
  BY <1>1, HeadTailProperties
<1>5. n \in Outboxes /\ n.events = t
  <2> HIDE DEF t
  <2> QED BY <1>2, <1>3, <1>4 DEF Outboxes
<1> HIDE DEF h, t
<1>6. Append(c, h) \in Seq(AllEvents) BY <1>4, AppendProperties
<1>7. Append(c, h) \o t = c \o s
  <2>1. Append(c, h) = c \o <<h>> BY <1>4, AppendIsConcat
  <2>2. <<h>> \in Seq(AllEvents) BY <1>4
  <2>3. (c \o <<h>>) \o t = c \o (<<h>> \o t) BY <1>4, <2>2, Associates
  <2> QED BY <1>4, <2>1, <2>3
<1>8. ComesToShow(p, k, c, o, v) => ComesToShow(p, k, Append(c, h), n, v)
  BY <1>5, <1>7 DEF ComesToShow, s
<1> QED BY <1>4, <1>5, <1>6, <1>8 DEF n, h, s

\* flush sends a movement before reliable events that did not fit.
LEMMA SentMoveShown ==
    ASSUME NEW p \in Players, NEW k \in SUBSET Ids, NEW c \in Seq(AllEvents),
           NEW o \in Outboxes, NEW n \in Outboxes, n.events = o.events,
           NEW e \in AllEvents, e.type = "move", NEW v
    PROVE  /\ Append(c, e) \in Seq(AllEvents)
           /\ ComesToShow(p, k, c, o, v) => ComesToShow(p, k, Append(c, e), n, v)
<1> DEFINE s == o.events
           d == Append(c, e)
<1>1. s \in Seq(AllEvents) /\ n.events = s BY DEF Outboxes
<1>2. <<e>> \in Seq(AllEvents) /\ d \in Seq(AllEvents) BY AppendProperties
<1>3. d = c \o <<e>> BY AppendIsConcat
<1>4. ComesToShow(p, k, c, o, v) <=> ShownAfter(p, k, c \o s) = {p} \cup v
  BY DEF ComesToShow
<1> HIDE DEF s, d
<1>5. ShownAfter(p, k, c) \in SUBSET Ids BY ShownAfterType
<1>6. ShownAfter(p, k, d) = ShownAfter(p, k, c)
  <2>1. ShownAfter(p, k, c \o <<e>>) = ShownAfter(p, ShownAfter(p, k, c), <<e>>)
    BY <1>2, ShownInParts
  <2>2. ShownAfter(p, ShownAfter(p, k, c), <<e>>) = Shows(p, ShownAfter(p, k, c), e)
    BY <1>5, ShownAfterFew
  <2>3. Shows(p, ShownAfter(p, k, c), e) = ShownAfter(p, k, c) BY DEF Shows
  <2> QED BY <1>3, <2>1, <2>2, <2>3
<1>7. ShownAfter(p, k, d \o s) = ShownAfter(p, ShownAfter(p, k, d), s)
  BY <1>1, <1>2, ShownInParts
<1>8. ShownAfter(p, k, c \o s) = ShownAfter(p, ShownAfter(p, k, c), s)
  BY <1>1, ShownInParts
<1>9. ShownAfter(p, k, d \o n.events) = ShownAfter(p, k, c \o s) BY <1>1, <1>6, <1>7, <1>8
<1> QED BY <1>2, <1>4, <1>9 DEF ComesToShow, d

\* The client reads the next event.
LEMMA ReceivedShown ==
    ASSUME NEW p \in Players, NEW k \in SUBSET Ids, NEW c \in Seq(AllEvents), c # <<>>,
           NEW o \in Outboxes, NEW v
    PROVE  /\ Tail(c) \in Seq(AllEvents)
           /\ Shows(p, k, Head(c)) \in SUBSET Ids
           /\ ComesToShow(p, k, c, o, v)
                => ComesToShow(p, Shows(p, k, Head(c)), Tail(c), o, v)
<1> DEFINE h == Head(c)
           t == Tail(c)
           s == o.events
           r == t \o s
<1>1. h \in AllEvents /\ t \in Seq(AllEvents) /\ c = <<h>> \o t BY HeadTailProperties
<1>2. s \in Seq(AllEvents) BY DEF Outboxes
<1>3. ComesToShow(p, k, c, o, v) <=> ShownAfter(p, k, c \o s) = {p} \cup v
  BY DEF ComesToShow
<1> HIDE DEF h, t, s
<1>4. <<h>> \in Seq(AllEvents) /\ h.id \in Ids BY <1>1 DEF AllEvents
<1>5. Shows(p, k, h) \in SUBSET Ids BY <1>4 DEF Shows
<1>6. r \in Seq(AllEvents) BY <1>1, <1>2, ConcatProperties
<1>7. c \o s = <<h>> \o r BY <1>1, <1>2, <1>4, Associates
<1> HIDE DEF r
<1>8. ShownAfter(p, k, <<h>> \o r) = ShownAfter(p, ShownAfter(p, k, <<h>>), r)
  BY <1>4, <1>6, ShownInParts
<1>9. ShownAfter(p, k, <<h>>) = Shows(p, k, h) BY <1>1, ShownAfterFew
<1>10. ShownAfter(p, Shows(p, k, h), r) = ShownAfter(p, k, c \o s) BY <1>7, <1>8, <1>9
<1> QED BY <1>1, <1>3, <1>5, <1>10 DEF ComesToShow, r, h, t, s
-----------------------------------------------------------------------------
(* Every step keeps what the clients come to show.                         *)

\* The views of the players of the map.
LEMMA ViewsNow ==
    ASSUME ViewInv
    PROVE  \A p \in LivePlayers :
              open[p] => ComesToShow(p, known[p], chan[p], out[p], vis[p])
BY DEF ViewInv, ViewConverges, ComesToShow

\* A step of the simulation that takes no one in leaves the connections alone.
LEMMA SimulationStep ==
    ASSUME ViewInv, used \subseteq used', UNCHANGED <<chan, known, open>>,
           ver' \in [Ids -> Nat], pending' \in Seq(Movements), out' \in [Players -> Outboxes],
           \A p \in Players : p \in live' /\ open[p]
              => ComesToShow(p, known[p], chan[p], out'[p], vis'[p])
    PROVE  ViewInv'
<1>1. ViewShape' BY DEF ViewInv, ViewShape
<1>2. NobodyYet' BY DEF ViewInv, NobodyYet
<1>3. ViewConverges' BY DEF ViewConverges, ComesToShow, LivePlayers
<1> QED BY <1>1, <1>2, <1>3 DEF ViewInv

\* The announced places of entities that stay are kept.
LEMMA ForgetVersions ==
    ASSUME NEW gone, NEW places, Forget(gone, places), ver \in [Ids -> Nat]
    PROVE  ver' \in [Ids -> Nat]
BY DEF Forget

\* Pending movements lose those of entities that are gone.
LEMMA WithoutType ==
    ASSUME NEW M, NEW ms \in Seq(M), NEW S PROVE Without(ms, S) \in Seq(M)
BY PickedType DEF Without

\* Every observer of an entity that goes comes to show its view without it.
LEMMA GoneShown ==
    ASSUME ViewInv, GraphInv, NEW t \in Ids, NEW q \in Players
    PROVE  /\ NotifyGone(out, t)[q] \in Outboxes
           /\ q \in live /\ q # t /\ open[q]
                => ComesToShow(q, known[q], chan[q], NotifyGone(out, t)[q], vis[q] \ {t})
<1>1. /\ ver \in [Ids -> Nat] /\ out[q] \in Outboxes /\ chan[q] \in Seq(AllEvents)
      /\ known[q] \in SUBSET Ids
  BY DEF ViewInv, ViewShape
<1>2. NotifyGone(out, t)[q] =
        IF q \in obs[t] \ {t} /\ q \in live THEN PushAll(out[q], <<Despawn(t)>>) ELSE out[q]
  BY DEF NotifyGone
<1>3. PushAll(out[q], <<Despawn(t)>>) \in Outboxes
  <2>1. Despawn(t) \in AllEvents BY <1>1, EventFacts
  <2>2. <<Despawn(t)>> \in Seq(AllEvents) BY <2>1
  <2> QED BY <1>1, <2>2, PushAllFacts
<1>4. ASSUME q \in live, q # t, open[q]
      PROVE  ComesToShow(q, known[q], chan[q], NotifyGone(out, t)[q], vis[q] \ {t})
  <2>1. ComesToShow(q, known[q], chan[q], out[q], vis[q]) BY <1>4, ViewsNow DEF LivePlayers
  <2>2. t \in vis[q] <=> q \in obs[t] BY DEF GraphInv, GraphAgrees
  <2>3. CASE q \in obs[t]
    <3>1. NotifyGone(out, t)[q] = PushAll(out[q], <<Despawn(t)>>) BY <1>2, <1>4, <2>3
    <3>2. ComesToShow(q, known[q], chan[q], PushAll(out[q], <<Despawn(t)>>), vis[q] \ {t})
      BY <1>1, <1>4, <2>1, DespawnShown
    <3> QED BY <3>1, <3>2
  <2>4. CASE q \notin obs[t]
    <3>1. NotifyGone(out, t)[q] = out[q] /\ vis[q] \ {t} = vis[q] BY <1>2, <2>2, <2>4
    <3> QED BY <2>1, <3>1
  <2> QED BY <2>3, <2>4
<1> QED BY <1>1, <1>2, <1>3, <1>4

\* on_player_removed: those who saw the player are told, its outbox goes.
LEMMA LeaveViews ==
    ASSUME ViewInv, GraphInv, NEW p \in Players, Leave(p) PROVE ViewInv'
<1>1. /\ p \in LivePlayers /\ live' = LiveWithout(p) /\ vis' = VisWithout(p)
      /\ out' = [NotifyGone(out, p) EXCEPT ![p] = EmptyOutbox]
      /\ pending' = Without(pending, {p}) /\ Forget({p}, pos)
      /\ UNCHANGED <<used, chan, known, open>>
  BY DEF Leave, clientVars
<1>2. p \in Ids BY DEF Ids
<1>3. ver' \in [Ids -> Nat] BY <1>1, ForgetVersions DEF ViewInv, ViewShape
<1>4. pending' \in Seq(Movements) BY <1>1, WithoutType DEF ViewInv, ViewShape
<1>5. \A q \in Players : out'[q] = IF q = p THEN EmptyOutbox ELSE NotifyGone(out, p)[q]
  BY <1>1 DEF NotifyGone
<1>6. out' \in [Players -> Outboxes]
  <2>1. EmptyOutbox \in Outboxes BY EmptySeq DEF EmptyOutbox, Outboxes
  <2>2. \A q \in Players : out'[q] \in Outboxes BY <1>2, <1>5, <2>1, GoneShown
  <2>3. out' = [q \in Players |-> out'[q]] BY <1>1 DEF NotifyGone
  <2> QED BY <2>2, <2>3
<1>7. \A q \in Players : q # p => vis'[q] = vis[q] \ {p}
  BY <1>1 DEF VisWithout, WithoutTarget
<1>8. ASSUME NEW q \in Players, q \in live', open[q]
      PROVE  ComesToShow(q, known[q], chan[q], out'[q], vis'[q])
  <2>1. q \in live /\ q # p BY <1>1, <1>8 DEF LiveWithout
  <2>2. ComesToShow(q, known[q], chan[q], NotifyGone(out, p)[q], vis[q] \ {p})
    BY <1>2, <1>8, <2>1, GoneShown
  <2> QED BY <1>5, <1>7, <2>1, <2>2
<1> QED BY <1>1, <1>3, <1>4, <1>6, <1>8, SimulationStep

\* destroy_mob_entity.
LEMMA DestroyViews ==
    ASSUME ViewInv, GraphInv, NEW t \in Ids, DestroyMob(t) PROVE ViewInv'
<1>1. /\ t \in Mobs \cap live /\ live' = live \ {t} /\ vis' = WithoutTarget(vis, t)
      /\ out' = NotifyGone(out, t)
      /\ pending' = Without(pending, {t}) /\ Forget({t}, pos)
      /\ UNCHANGED <<used, chan, known, open>>
  BY DEF DestroyMob, clientVars
<1>2. ver' \in [Ids -> Nat] BY <1>1, ForgetVersions DEF ViewInv, ViewShape
<1>3. pending' \in Seq(Movements) BY <1>1, WithoutType DEF ViewInv, ViewShape
<1>4. out' \in [Players -> Outboxes]
  <2>1. \A q \in Players : out'[q] \in Outboxes BY <1>1, GoneShown
  <2>2. out' = [q \in Players |-> out'[q]] BY <1>1 DEF NotifyGone
  <2> QED BY <2>1, <2>2
<1>5. ASSUME NEW q \in Players, q \in live', open[q]
      PROVE  ComesToShow(q, known[q], chan[q], out'[q], vis'[q])
  <2>1. q \in live /\ q # t BY <1>1, <1>5
  <2>2. ComesToShow(q, known[q], chan[q], NotifyGone(out, t)[q], vis[q] \ {t})
    BY <1>5, <2>1, GoneShown
  <2>3. vis'[q] = vis[q] \ {t} BY <1>1 DEF WithoutTarget
  <2> QED BY <1>1, <2>2, <2>3
<1> QED BY <1>1, <1>2, <1>3, <1>4, <1>5, SimulationStep

\* restart_here: the player's client starts anew, its observers see it again.
LEMMA RestartViews ==
    ASSUME ViewInv, GraphInv, NEW p \in Players, RestartHere(p) PROVE ViewInv'
<1>1. /\ p \in live /\ UNCHANGED <<live, used, ver, vis, pending, chan, known, open>>
      /\ out' = [q \in Players |->
                   IF q = p THEN PushAll(out[q], RestartView(p))
                   ELSE IF q \in obs[p] THEN PushAll(out[q], <<Despawn(p), Spawn(p)>>)
                   ELSE out[q]]
  BY DEF RestartHere, clientVars, LivePlayers
<1>2. ViewShape BY DEF ViewInv
<1>3. p \in Ids BY DEF Ids
<1>4. Despawn(p) \in AllEvents /\ Spawn(p) \in AllEvents BY <1>2, <1>3, EventFacts DEF ViewShape
<1>5. ASSUME NEW q \in Players
      PROVE  /\ out'[q] \in Outboxes
             /\ q \in live /\ open[q]
                  => ComesToShow(q, known[q], chan[q], out'[q], vis[q])
  <2>1. /\ out[q] \in Outboxes /\ chan[q] \in Seq(AllEvents) /\ known[q] \in SUBSET Ids
        /\ ver \in [Ids -> Nat] /\ vis[q] \in SUBSET Ids
    BY <1>2 DEF ViewShape, GraphInv, GraphShape
  <2>2. q \in live /\ open[q] => ComesToShow(q, known[q], chan[q], out[q], vis[q])
    BY ViewsNow DEF LivePlayers
  <2>3. CASE q = p
    <3>1. out'[q] = PushAll(out[q], RestartView(p)) BY <1>1, <2>3
    <3>2. PushAll(out[q], RestartView(p)) \in Outboxes
      <4>1. RestartView(p) \in Seq(AllEvents)
        <5>1. <<Despawn(p), Spawn(p)>> \in Seq(AllEvents) BY <1>4
        <5>2. Entered(vis[p], {}) \in Seq(AllEvents) BY <2>1, <2>3, EnteredFacts
        <5> QED BY <5>1, <5>2, ConcatProperties DEF RestartView
      <4> QED BY <2>1, <4>1, PushAllFacts
    <3>3. q \in live /\ open[q]
            => ComesToShow(q, known[q], chan[q], PushAll(out[q], RestartView(p)), vis[q])
      BY <2>1, <2>2, <2>3, RestartShown
    <3> QED BY <3>1, <3>2, <3>3
  <2>4. CASE q # p /\ q \in obs[p]
    <3>1. out'[q] = PushAll(out[q], <<Despawn(p), Spawn(p)>>) BY <1>1, <2>4
    <3>2. p \in vis[q] BY <1>3, <2>4 DEF GraphInv, GraphAgrees
    <3>3. <<Despawn(p), Spawn(p)>> \in Seq(AllEvents) BY <1>4
    <3>4. PushAll(out[q], <<Despawn(p), Spawn(p)>>) \in Outboxes BY <2>1, <3>3, PushAllFacts
    <3>5. q \in live /\ open[q]
            => ComesToShow(q, known[q], chan[q], PushAll(out[q], <<Despawn(p), Spawn(p)>>), vis[q])
      BY <1>3, <2>1, <2>2, <2>4, <3>2, RespawnShown
    <3> QED BY <3>1, <3>4, <3>5
  <2>5. CASE q # p /\ q \notin obs[p]
    <3>1. out'[q] = out[q] BY <1>1, <2>5
    <3> QED BY <2>1, <2>2, <3>1
  <2> QED BY <2>3, <2>4, <2>5
<1>6. out' \in [Players -> Outboxes]
  <2>1. out' = [q \in Players |-> out'[q]] BY <1>1
  <2> QED BY <1>5, <2>1
<1>7. ver' \in [Ids -> Nat] /\ pending' \in Seq(Movements) BY <1>1, <1>2 DEF ViewShape
<1>8. ASSUME NEW q \in Players, q \in live', open[q]
      PROVE  ComesToShow(q, known[q], chan[q], out'[q], vis'[q])
  BY <1>1, <1>5, <1>8
<1> QED BY <1>1, <1>6, <1>7, <1>8, SimulationStep

\* aoi_reconcile and replication_flush.
LEMMA ReconcileViews ==
    ASSUME ViewInv, GraphInv, Reconcile PROVE ViewInv'
<1>1. /\ vis' = NewVis /\ pending' = <<>>
      /\ UNCHANGED <<live, used, ver, chan, known, open>>
      /\ out' = [p \in Players |->
                   IF p \in live
                   THEN PushedAll(PushAll(out[p], Entered(NewVis[p], vis[p])
                                                    \o Gone(NewVis[p], vis[p])),
                                  MovesFor(p, NewVis))
                   ELSE out[p]]
  BY DEF Reconcile, clientVars
<1>2. ViewShape BY DEF ViewInv
<1>3. GraphShape /\ GraphAgrees /\ GraphShape' /\ GraphAgrees' BY ReconcileStep DEF GraphInv
<1>4. ASSUME NEW q \in Players
      PROVE  /\ out'[q] \in Outboxes
             /\ q \in live /\ open[q]
                  => ComesToShow(q, known[q], chan[q], out'[q], NewVis[q])
  <2>1. /\ out[q] \in Outboxes /\ chan[q] \in Seq(AllEvents) /\ known[q] \in SUBSET Ids
        /\ ver \in [Ids -> Nat]
    BY <1>2 DEF ViewShape
  <2>2. CASE q \notin live BY <1>1, <2>1, <2>2
  <2>3. CASE q \in live
    <3> DEFINE old == vis[q]
               new == NewVis[q]
               es == Entered(new, old) \o Gone(new, old)
               o == PushAll(out[q], es)
               ms == MovesFor(q, NewVis)
    <3>1. /\ old \in SUBSET Ids /\ new \in SUBSET Ids /\ q \notin old /\ q \notin new
      <4>1. old \in SUBSET Ids /\ q \notin old BY <1>3 DEF GraphShape, GraphAgrees
      <4>2. vis'[q] \in SUBSET Ids /\ q \notin vis'[q] BY <1>3 DEF GraphShape, GraphAgrees
      <4> QED BY <1>1, <4>1, <4>2
    <3>2. out'[q] = PushedAll(o, ms) BY <1>1, <2>3
    <3>3. ms \in Seq(Movements) BY <1>2, MovesForType DEF ViewShape
    <3>4. es \in Seq(AllEvents)
      <4>1. Entered(new, old) \in Seq(AllEvents) BY <2>1, <3>1, EnteredFacts
      <4>2. Gone(new, old) \in Seq(AllEvents) BY <3>1, GoneFacts
      <4> QED BY <4>1, <4>2, ConcatProperties
    <3>5. o \in Outboxes BY <2>1, <3>4, PushAllFacts
    <3>6. PushedAll(o, ms) \in Outboxes /\ MoreMoves(o, PushedAll(o, ms))
      BY <3>3, <3>5, PushedAllFacts
    <3>7. ASSUME open[q] PROVE ComesToShow(q, known[q], chan[q], PushedAll(o, ms), new)
      <4>1. ComesToShow(q, known[q], chan[q], out[q], old)
        BY <2>3, <3>7, ViewsNow DEF LivePlayers
      <4>2. ComesToShow(q, known[q], chan[q], o, new) BY <2>1, <3>1, <4>1, DiffShown
      <4> HIDE DEF o, ms, new
      <4> QED BY <2>1, <3>5, <3>6, <4>2, MovesShown
    <3> QED BY <3>2, <3>6, <3>7
  <2> QED BY <2>2, <2>3
<1>5. out' \in [Players -> Outboxes]
  <2>1. out' = [q \in Players |-> out'[q]] BY <1>1
  <2> QED BY <1>4, <2>1
<1>6. ver' \in [Ids -> Nat] /\ pending' \in Seq(Movements) BY <1>1, <1>2, EmptySeq DEF ViewShape
<1>7. ASSUME NEW q \in Players, q \in live', open[q]
      PROVE  ComesToShow(q, known[q], chan[q], out'[q], vis'[q])
  BY <1>1, <1>4, <1>7
<1> QED BY <1>1, <1>5, <1>6, <1>7, SimulationStep

\* An announcement goes to the pending movements.
LEMMA AnnounceViews ==
    ASSUME ViewInv, NEW t \in Ids,
           \/ \E x \in 0 .. MaxPos : SpawnMob(t, x) \/ Drift(t, x) \/ Move(t, x)
           \/ Attack(t)
    PROVE  ViewInv'
<1>1. ViewShape BY DEF ViewInv
<1>2. /\ UNCHANGED <<vis, out, chan, known, open>>
      /\ \A p \in Players : p \in live' => p \in live
      /\ used \subseteq used'
  BY ReplicationAssumption DEF SpawnMob, Drift, Move, Attack, clientVars
<1>3. ver' \in [Ids -> Nat] /\ pending' \in Seq(Movements)
  <2>1. CASE \E x \in 0 .. MaxPos : SpawnMob(t, x) \/ Drift(t, x)
    BY <1>1, <2>1 DEF SpawnMob, Drift, ViewShape
  <2>2. CASE \E x \in 0 .. MaxPos : Move(t, x)
    <3> DEFINE m == [id |-> t, ver |-> ver[t] + 1, kind |-> "move"]
    <3>1. ver' = [ver EXCEPT ![t] = ver[t] + 1] /\ pending' = Append(pending, m)
      BY <1>1, <2>2 DEF Move, ViewShape
    <3>2. ver[t] + 1 \in Nat BY <1>1 DEF ViewShape
    <3>3. m \in Movements BY <3>2 DEF Movements
    <3> HIDE DEF m
    <3>4. pending' \in Seq(Movements) BY <1>1, <3>1, <3>3, AppendProperties DEF ViewShape
    <3> QED BY <1>1, <3>1, <3>2, <3>4 DEF ViewShape
  <2>3. CASE Attack(t)
    <3> DEFINE m == [id |-> t, ver |-> ver'[t], kind |-> "attack"]
    <3>1. /\ ver' = IF t \in Mobs THEN [ver EXCEPT ![t] = ver[t] + 1] ELSE ver
          /\ pending' = Append(pending, m)
      BY <1>1, <2>3 DEF Attack, ViewShape
    <3>2. ver[t] + 1 \in Nat BY <1>1 DEF ViewShape
    <3>3. ver' \in [Ids -> Nat] BY <1>1, <3>1, <3>2 DEF ViewShape
    <3>4. m \in Movements BY <3>3 DEF Movements
    <3> HIDE DEF m
    <3>5. pending' \in Seq(Movements) BY <1>1, <3>1, <3>4, AppendProperties DEF ViewShape
    <3> QED BY <3>3, <3>5
  <2> QED BY <2>1, <2>2, <2>3
<1>4. out' \in [Players -> Outboxes] BY <1>1, <1>2 DEF ViewShape
<1>5. ASSUME NEW q \in Players, q \in live', open[q]
      PROVE  ComesToShow(q, known[q], chan[q], out'[q], vis'[q])
  <2>1. ComesToShow(q, known[q], chan[q], out[q], vis[q])
    BY <1>2, <1>5, ViewsNow DEF LivePlayers
  <2> QED BY <1>2, <2>1
<1> QED BY <1>2, <1>3, <1>4, <1>5, SimulationStep
\* handle_player_enter: an entity left behind goes, the client of the new one
\* starts with nothing and comes to show its first view.
LEMMA EnterViews ==
    ASSUME ViewInv, GraphInv, NEW p \in Players, NEW x \in 0 .. MaxPos, Enter(p, x)
    PROVE  ViewInv'
<1> DEFINE old == {q \in LivePlayers : CharOf[q] = CharOf[p]}
           q0 == CHOOSE q \in old : TRUE
           l == IF old = {} THEN live ELSE LiveWithout(q0)
           v == IF old = {} THEN vis ELSE VisWithout(q0)
           o == IF old = {} THEN out ELSE [NotifyGone(out, q0) EXCEPT ![q0] = EmptyOutbox]
           near == {t \in l : (IF x >= pos[t] THEN x - pos[t] ELSE pos[t] - x)
                                <= SpawnRadius}
           first == PushAll(EmptyOutbox, <<Spawn(p)>> \o Entered(near, {}))
<1>1. ViewShape /\ NobodyYet /\ GraphShape BY DEF ViewInv, GraphInv
<1>2. old # {} => q0 \in LivePlayers OBVIOUS
<1>3. /\ p \in Ids /\ p \notin used /\ used' = used \cup {p}
      /\ Forget(old, [pos EXCEPT ![p] = x]) /\ pending' = Without(pending, old)
      /\ open' = [open EXCEPT ![p] = p \notin Deaf] /\ UNCHANGED <<chan, known>>
  BY DEF Enter, Ids, clientVars
<1>4. live' = l \cup {p} /\ vis' = [v EXCEPT ![p] = near] /\ out' = [o EXCEPT ![p] = first]
  <2>1. CASE old = {} BY <2>1 DEF Enter
  <2>2. CASE old # {} BY <2>2 DEF Enter
  <2> QED BY <2>1, <2>2
<1>5. EmptyOutbox \in Outboxes BY EmptySeq DEF EmptyOutbox, Outboxes
<1>6. l \subseteq live /\ v \in [Players -> SUBSET Ids]
  <2>1. CASE old = {} BY <1>1, <2>1 DEF GraphShape
  <2>2. CASE old # {} BY <1>1, <1>2, <2>2, RemovalInverts DEF LiveWithout, GraphInv
  <2> QED BY <2>1, <2>2
<1>7. o \in [Players -> Outboxes]
  <2>1. CASE old = {} BY <1>1, <2>1 DEF ViewShape
  <2>2. CASE old # {}
    <3>1. q0 \in Ids BY <1>2, <2>2 DEF LivePlayers, Ids
    <3>2. \A q \in Players : NotifyGone(out, q0)[q] \in Outboxes BY <3>1, GoneShown
    <3>3. NotifyGone(out, q0) = [q \in Players |-> NotifyGone(out, q0)[q]] BY DEF NotifyGone
    <3>4. NotifyGone(out, q0) \in [Players -> Outboxes] BY <3>2, <3>3
    <3> QED BY <1>5, <2>2, <3>4
  <2> QED BY <2>1, <2>2
<1>8. ASSUME NEW q \in Players, q \in l, open[q]
      PROVE  ComesToShow(q, known[q], chan[q], o[q], v[q])
  <2>1. CASE old = {} BY <1>8, <2>1, ViewsNow DEF LivePlayers
  <2>2. CASE old # {}
    <3>1. q0 \in Ids /\ q \in live /\ q # q0
      BY <1>2, <1>8, <2>2 DEF LivePlayers, Ids, LiveWithout
    <3>2. ComesToShow(q, known[q], chan[q], NotifyGone(out, q0)[q], vis[q] \ {q0})
      BY <1>8, <3>1, GoneShown
    <3>3. v[q] = vis[q] \ {q0} BY <1>8, <2>2, <3>1 DEF VisWithout, WithoutTarget
    <3>4. o[q] = NotifyGone(out, q0)[q] BY <2>2, <3>1 DEF NotifyGone
    <3> QED BY <3>2, <3>3, <3>4
  <2> QED BY <2>1, <2>2
<1>9. near \in SUBSET Ids BY <1>1, <1>6 DEF GraphShape
<1>10. first \in Outboxes /\ ComesToShow(p, {}, <<>>, first, near)
  <2>1. ver \in [Ids -> Nat] BY <1>1 DEF ViewShape
  <2> HIDE DEF near
  <2> QED BY <1>9, <2>1, FirstViewShown
<1>11. ver' \in [Ids -> Nat] /\ pending' \in Seq(Movements)
  <2>1. ver' \in [Ids -> Nat] BY <1>1, <1>3, ForgetVersions DEF ViewShape
  <2>2. pending' \in Seq(Movements) BY <1>1, <1>3, WithoutType DEF ViewShape
  <2> QED BY <2>1, <2>2
<1> HIDE DEF old, q0, l, v, o, near, first
<1>12. out' \in [Players -> Outboxes] BY <1>4, <1>7, <1>10
<1>13. ViewShape' BY <1>1, <1>3, <1>11, <1>12 DEF ViewShape
<1>14. NobodyYet' BY <1>1, <1>3 DEF NobodyYet, ViewShape
<1>15. ASSUME NEW q \in Players, q \in live', open'[q]
       PROVE  ComesToShow(q, known'[q], chan'[q], out'[q], vis'[q])
  <2>1. CASE q = p
    <3>1. known'[q] = {} /\ chan'[q] = <<>> BY <1>1, <1>3, <2>1 DEF NobodyYet
    <3>2. out'[q] = first /\ vis'[q] = near BY <1>4, <1>6, <1>7, <2>1
    <3> QED BY <1>10, <2>1, <3>1, <3>2
  <2>2. CASE q # p
    <3>1. q \in l /\ open[q] BY <1>1, <1>3, <1>4, <1>15, <2>2 DEF ViewShape
    <3>2. out'[q] = o[q] /\ vis'[q] = v[q] /\ known'[q] = known[q] /\ chan'[q] = chan[q]
      BY <1>3, <1>4, <1>6, <1>7, <2>2
    <3> QED BY <1>8, <3>1, <3>2
  <2> QED BY <2>1, <2>2
<1>16. ViewConverges' BY <1>15 DEF ViewConverges, ComesToShow, LivePlayers
<1> QED BY <1>13, <1>14, <1>16 DEF ViewInv

\* A step of one connection, or of the flush to it.
LEMMA ConnectionStep ==
    ASSUME ViewInv, UNCHANGED simVars, NEW p \in Players,
           NEW o \in Outboxes, out' = [out EXCEPT ![p] = o],
           NEW c \in Seq(AllEvents), chan' = [chan EXCEPT ![p] = c],
           NEW k \in SUBSET Ids, known' = [known EXCEPT ![p] = k],
           NEW b \in BOOLEAN, open' = [open EXCEPT ![p] = b],
           p \notin used => c = <<>> /\ k = {} /\ ~b,
           p \in live /\ b => ComesToShow(p, k, c, o, vis[p])
    PROVE  ViewInv'
<1>1. ViewShape /\ NobodyYet BY DEF ViewInv
<1>2. UNCHANGED <<live, used, ver, vis, pending>> BY DEF simVars
<1>3. /\ out' \in [Players -> Outboxes] /\ chan' \in [Players -> Seq(AllEvents)]
      /\ known' \in [Players -> SUBSET Ids] /\ open' \in [Players -> BOOLEAN]
  <2>1. out' \in [Players -> Outboxes] BY <1>1 DEF ViewShape
  <2>2. chan' \in [Players -> Seq(AllEvents)] BY <1>1 DEF ViewShape
  <2>3. known' \in [Players -> SUBSET Ids] BY <1>1 DEF ViewShape
  <2>4. open' \in [Players -> BOOLEAN] BY <1>1 DEF ViewShape
  <2> QED BY <2>1, <2>2, <2>3, <2>4
<1>4. \A q \in Players : /\ out'[q] = IF q = p THEN o ELSE out[q]
                         /\ chan'[q] = IF q = p THEN c ELSE chan[q]
                         /\ known'[q] = IF q = p THEN k ELSE known[q]
                         /\ open'[q] = IF q = p THEN b ELSE open[q]
  BY <1>1 DEF ViewShape
<1>5. ViewShape' BY <1>1, <1>2, <1>3 DEF ViewShape
<1>6. NobodyYet' BY <1>1, <1>2, <1>4 DEF NobodyYet
<1>7. ASSUME NEW q \in Players, q \in live', open'[q]
      PROVE  ComesToShow(q, known'[q], chan'[q], out'[q], vis'[q])
  <2>1. CASE q = p BY <1>2, <1>4, <1>7, <2>1
  <2>2. CASE q # p
    <3>1. q \in LivePlayers /\ open[q] BY <1>2, <1>4, <1>7, <2>2 DEF LivePlayers
    <3> QED BY <1>2, <1>4, <2>2, <3>1, ViewsNow
  <2> QED BY <2>1, <2>2
<1>8. ViewConverges' BY <1>7 DEF ViewConverges, ComesToShow, LivePlayers
<1> QED BY <1>5, <1>6, <1>8 DEF ViewInv

\* try_send succeeds: the event is on its way to the client.
LEMMA SendViews ==
    ASSUME ViewInv, NEW p \in Players, NEW e \in NextOf(p, Bucket(p, flushing[p])), SendOne(p, e)
    PROVE  ViewInv'
<1> DEFINE b == Bucket(p, flushing[p])
           o == out[p]
           c == chan[p]
           n == Taken(o, b, e)
<1>1. ViewShape /\ NobodyYet BY DEF ViewInv
<1>2. /\ open[p] /\ chan' = [chan EXCEPT ![p] = Append(c, e)]
      /\ out' = [out EXCEPT ![p] = n] /\ UNCHANGED <<simVars, open, known>>
  BY <1>1 DEF SendOne, clientVars, ViewShape
<1>3. p \in used BY <1>1, <1>2 DEF NobodyYet
<1>4. o \in Outboxes /\ c \in Seq(AllEvents) /\ known[p] \in SUBSET Ids
  BY <1>1 DEF ViewShape
<1>5. p \in live => ComesToShow(p, known[p], c, o, vis[p])
  BY <1>2, ViewsNow DEF LivePlayers
<1>6. e \in NextOf(p, b) OBVIOUS
<1>7. /\ o = [events |-> o.events, latest |-> o.latest, remote |-> o.remote]
      /\ o.latest \in [Ids -> Nat] /\ o.remote \in Seq(Places) /\ o.events \in Seq(AllEvents)
  BY <1>4 DEF Outboxes
<1> HIDE DEF b, n
<1>8. /\ n \in Outboxes /\ Append(c, e) \in Seq(AllEvents)
      /\ p \in live => ComesToShow(p, known[p], Append(c, e), n, vis[p])
  <2>1. CASE b = "events"
    <3>1. o.events # <<>> /\ e = Head(o.events) BY <1>6, <2>1 DEF NextOf
    <3>2. n = Taken(o, "events", Head(o.events)) BY <2>1, <3>1 DEF n
    <3> QED BY <1>4, <1>5, <3>1, <3>2, SentEventShown
  <2>2. ASSUME e \in AllEvents, e.type = "move", n \in Outboxes, n.events = o.events
        PROVE  /\ Append(c, e) \in Seq(AllEvents)
               /\ p \in live => ComesToShow(p, known[p], Append(c, e), n, vis[p])
    BY <1>4, <1>5, <2>2, SentMoveShown
  <2>3. CASE b = "latest"
    <3>1. PICK t \in Ids : e = MoveTo([id |-> t, ver |-> o.latest[t]])
      BY <1>6, <2>3 DEF NextOf
    <3>2. e \in AllEvents /\ e.type = "move" BY <1>7, <3>1 DEF MoveTo, AllEvents
    <3>3. n = [o EXCEPT !.latest = [o.latest EXCEPT ![e.id] = 0]]
      BY <1>7, <2>3 DEF n, Taken
    <3>4. [o.latest EXCEPT ![e.id] = 0] \in [Ids -> Nat] BY <1>7
    <3>5. n \in Outboxes /\ n.events = o.events BY <1>7, <3>3, <3>4 DEF Outboxes
    <3> QED BY <2>2, <3>2, <3>5
  <2>4. CASE b = "remote"
    <3>1. o.remote # <<>> /\ e = MoveTo(Head(o.remote)) BY <1>6, <2>4 DEF NextOf
    <3>2. Head(o.remote) \in Places /\ Tail(o.remote) \in Seq(Places)
      BY <1>7, <3>1, HeadTailProperties
    <3>3. e \in AllEvents /\ e.type = "move" BY <3>1, <3>2 DEF MoveTo, AllEvents, Places
    <3>4. n = [o EXCEPT !.remote = Tail(o.remote)] BY <1>7, <2>4 DEF n, Taken
    <3>5. n \in Outboxes /\ n.events = o.events BY <1>7, <3>2, <3>4 DEF Outboxes
    <3> QED BY <2>2, <3>3, <3>5
  <2>5. b \in {"events", "latest", "remote"} BY <1>6 DEF NextOf
  <2> QED BY <2>1, <2>3, <2>4, <2>5
<1>9. known' = [known EXCEPT ![p] = known[p]] /\ open' = [open EXCEPT ![p] = TRUE]
  BY <1>1, <1>2 DEF ViewShape
<1>10. UNCHANGED simVars BY <1>2
<1> QED BY <1>2, <1>3, <1>4, <1>8, <1>9, <1>10, ConnectionStep
\* try_send finds the receiver gone: what is dropped is no one's.
LEMMA ClosedViews ==
    ASSUME ViewInv, NEW p \in Players, SendClosed(p) PROVE ViewInv'
<1> DEFINE b == Bucket(p, flushing[p])
           o == [EmptyOutbox EXCEPT !.events = IF b = "events" THEN <<>> ELSE out[p].events]
<1>1. ViewShape /\ NobodyYet BY DEF ViewInv
<1>2. /\ ~open[p] /\ out' = [out EXCEPT ![p] = o] /\ UNCHANGED <<simVars, chan, open, known>>
  BY DEF SendClosed, clientVars
<1>3. o \in Outboxes
  <2>1. out[p].events \in Seq(AllEvents) BY <1>1 DEF ViewShape, Outboxes
  <2>2. (IF b = "events" THEN <<>> ELSE out[p].events) \in Seq(AllEvents) BY <2>1, EmptySeq
  <2>3. EmptyOutbox \in Outboxes BY EmptySeq DEF EmptyOutbox, Outboxes
  <2> QED BY <2>2, <2>3 DEF Outboxes
<1> HIDE DEF o
<1>4. /\ chan' = [chan EXCEPT ![p] = chan[p]] /\ known' = [known EXCEPT ![p] = known[p]]
      /\ open' = [open EXCEPT ![p] = FALSE]
      /\ chan[p] \in Seq(AllEvents) /\ known[p] \in SUBSET Ids
  BY <1>1, <1>2 DEF ViewShape
<1>5. p \notin used => chan[p] = <<>> /\ known[p] = {} BY <1>1 DEF NobodyYet
<1>6. UNCHANGED simVars BY <1>2
<1> QED BY <1>2, <1>3, <1>4, <1>5, <1>6, ConnectionStep

\* The client takes the next event from the channel.
LEMMA ReceiveViews ==
    ASSUME ViewInv, NEW p \in Players, Receive(p) PROVE ViewInv'
<1> DEFINE c == chan[p]
           k == known[p]
<1>1. ViewShape /\ NobodyYet BY DEF ViewInv
<1>2. /\ open[p] /\ c # <<>> /\ chan' = [chan EXCEPT ![p] = Tail(c)]
      /\ known' = [known EXCEPT ![p] = Shows(p, k, Head(c))] /\ UNCHANGED <<simVars, out, open>>
  BY <1>1 DEF Receive, ViewShape
<1>3. c \in Seq(AllEvents) /\ k \in SUBSET Ids /\ out[p] \in Outboxes BY <1>1 DEF ViewShape
<1>4. p \in used BY <1>1, <1>2 DEF NobodyYet
<1>5. p \in live => ComesToShow(p, k, c, out[p], vis[p]) BY <1>2, ViewsNow DEF LivePlayers
<1>6. out' = [out EXCEPT ![p] = out[p]] /\ open' = [open EXCEPT ![p] = TRUE]
  BY <1>1, <1>2 DEF ViewShape
<1>7. UNCHANGED simVars BY <1>2
<1> HIDE DEF c, k
<1>8. /\ Tail(c) \in Seq(AllEvents) /\ Shows(p, k, Head(c)) \in SUBSET Ids
      /\ p \in live => ComesToShow(p, Shows(p, k, Head(c)), Tail(c), out[p], vis[p])
  BY <1>2, <1>3, <1>5, ReceivedShown
<1> QED BY <1>2, <1>3, <1>4, <1>6, <1>7, <1>8, ConnectionStep

\* The connection ends, and with it the client.
LEMMA HangupViews ==
    ASSUME ViewInv, NEW p \in Players, Hangup(p) PROVE ViewInv'
<1> DEFINE none == <<>>
<1>1. ViewShape BY DEF ViewInv
<1>2. /\ open' = [open EXCEPT ![p] = FALSE] /\ chan' = [chan EXCEPT ![p] = none]
      /\ known' = [known EXCEPT ![p] = {}] /\ UNCHANGED <<simVars, out>>
  BY DEF Hangup
<1>3. out[p] \in Outboxes /\ out' = [out EXCEPT ![p] = out[p]] BY <1>1, <1>2 DEF ViewShape
<1>4. none \in Seq(AllEvents) BY EmptySeq
<1>5. UNCHANGED simVars BY <1>2
<1>6. none = <<>> OBVIOUS
<1> HIDE DEF none
<1> QED BY <1>2, <1>3, <1>4, <1>5, <1>6, ConnectionStep

\* Steps that leave the views and what is on its way alone.
LEMMA ViewsStay ==
    ASSUME ViewInv, UNCHANGED <<live, used, ver, vis, pending, out, chan, known, open>>
    PROVE  ViewInv'
<1>1. ViewShape' BY DEF ViewInv, ViewShape
<1>2. NobodyYet' BY DEF ViewInv, NobodyYet
<1>3. ViewConverges' BY DEF ViewInv, ViewConverges, LivePlayers
<1> QED BY <1>1, <1>2, <1>3 DEF ViewInv

\* The views of the clients converge, always.
THEOREM ViewInvariant == Spec => []ViewInv
<1>1. Init => ViewInv
  <2> SUFFICES ASSUME Init PROVE ViewInv OBVIOUS
  <2>1. EmptyOutbox \in Outboxes /\ <<>> \in Seq(AllEvents) /\ <<>> \in Seq(Movements)
    BY EmptySeq DEF EmptyOutbox, Outboxes
  <2>2. ViewShape BY <2>1 DEF Init, ViewShape
  <2>3. NobodyYet BY DEF Init, NobodyYet
  <2>4. ViewConverges BY DEF Init, ViewConverges, LivePlayers
  <2> QED BY <2>2, <2>3, <2>4 DEF ViewInv
<1>2. ViewInv /\ GraphInv /\ [Next]_vars => ViewInv'
  <2> SUFFICES ASSUME ViewInv, GraphInv, [Next]_vars PROVE ViewInv'
    OBVIOUS
  <2>1. CASE UNCHANGED vars BY <2>1, ViewsStay DEF vars, simVars, clientVars
  <2>2. ASSUME NEW p \in Players, NEW x \in 0 .. MaxPos, Enter(p, x) PROVE ViewInv'
    BY <2>2, EnterViews
  <2>3. ASSUME NEW p \in Players, Leave(p) PROVE ViewInv' BY <2>3, LeaveViews
  <2>4. ASSUME NEW p \in Players, RestartHere(p) PROVE ViewInv' BY <2>4, RestartViews
  <2>5. ASSUME NEW p \in Players, Flush(p) PROVE ViewInv'
    <3>1. CASE \E e \in NextOf(p, Bucket(p, flushing[p])) : SendOne(p, e)
      BY <3>1, SendViews
    <3>2. CASE SendStops(p) BY <3>2, ViewsStay DEF SendStops, simVars, clientVars
    <3>3. CASE SendClosed(p) BY <3>3, ClosedViews
    <3> QED BY <2>5, <3>1, <3>2, <3>3 DEF Flush
  <2>6. ASSUME NEW p \in Players, Receive(p) PROVE ViewInv' BY <2>6, ReceiveViews
  <2>7. ASSUME NEW p \in Players, Hangup(p) PROVE ViewInv' BY <2>7, HangupViews
  <2>8. ASSUME NEW t \in Ids,
               \/ \E x \in 0 .. MaxPos : SpawnMob(t, x) \/ Drift(t, x) \/ Move(t, x)
               \/ Attack(t)
        PROVE  ViewInv'
    BY <2>8, AnnounceViews
  <2>9. ASSUME NEW t \in Ids, DestroyMob(t) PROVE ViewInv' BY <2>9, DestroyViews
  <2>10. CASE StartTick \/ EndTick
    BY <2>10, ViewsStay DEF StartTick, EndTick, clientVars
  <2>11. CASE Reconcile BY <2>11, ReconcileViews
  <2> QED
    BY <2>1, <2>2, <2>3, <2>4, <2>5, <2>6, <2>7, <2>8, <2>9, <2>10, <2>11 DEF Next
<1> QED BY <1>1, <1>2, GraphInvariant, PTL DEF Spec

\* A client that has read what is on its way shows itself and what its player
\* sees, whatever entered, left, died or restarted and whatever was full.
THEOREM ViewsConverge == Spec => []ViewConverges
<1>1. ViewInv => ViewConverges BY DEF ViewInv
<1> QED BY <1>1, ViewInvariant, PTL
=============================================================================
