--------------------------- MODULE ActorLifeProofs ---------------------------
(***************************************************************************)
(* Proofs about the life and death of the actors of a map, for every set   *)
(* of visitors, rules and delays and every outcome of a hit.               *)
(***************************************************************************)
EXTENDS ActorLife, FiniteSetTheorems, TLAPS

\* The systems before the attacks, those that see the victims of the tick's
\* attacks, and those from the first death that is final to the rewards.
BeforeAttacks == {"inbound", "spawn", "actions", "think", "release"}
UntilClaims == {"attack", "life", "claims"}
UntilRewards == UntilClaims \cup {"lifecycle", "restarts", "rewards"}

\* Whoever lives without hit points was struck down in this tick and is about
\* to be told so.
MortalInTick ==
    \A e \in Ids : Exists(e) /\ IsAlive(e) /\ ent[e].hp = 0 =>
       stage \in {"attack", "life"} /\ \E i \in DOMAIN depleted : depleted[i].victim = e

\* A victim of the tick is named once, with the one who took its last hit
\* point, lives without any until the life cycle hears of it, and dies then.
VictimsAreFresh ==
    /\ stage \in BeforeAttacks => depleted = <<>>
    /\ stage \in UntilClaims => \A i \in DOMAIN depleted :
          /\ Exists(depleted[i].victim)
          /\ stage # "claims" => /\ IsAlive(depleted[i].victim)
                                 /\ ent[depleted[i].victim].hp = 0
          /\ stage = "claims" => IsDying(depleted[i].victim)
          /\ IsMob(depleted[i].victim)
                => ent[depleted[i].victim].slayer = depleted[i].killer
          /\ \A j \in DOMAIN depleted : depleted[j].victim = depleted[i].victim => i = j

\* A claim is held by a dying mob, or by one whose death became final in this
\* tick and has not been rewarded yet; it names the slayer.
ClaimsInTick ==
    \A e \in Ids : ent[e].claim # None =>
       /\ IsMob(e)
       /\ ent[e].claim = ent[e].slayer
       /\ \/ IsDying(e)
          \/ /\ IsDead(e) /\ stage \in UntilRewards
             /\ \E i \in DOMAIN finalized : finalized[i] = e

\* A rule that waits has its entry in the heap.
WaitsAreScheduled ==
    \A r \in Rules : rule[r].respawn # None => <<rule[r].respawn, r>> \in heap

LifeInv ==
    /\ TypeOK /\ MortalInTick /\ VictimsAreFresh /\ ClaimsInTick
    /\ SlotsAreReal /\ WaitsAreScheduled

-----------------------------------------------------------------------------
(* The order of the systems.                                               *)

Stages == {"inbound", "spawn", "actions", "think", "release", "attack", "life",
           "claims", "lifecycle", "restarts", "rewards", "cleanup", "resources"}

\* The systems of a tick by their places.
LEMMA Places ==
    /\ DOMAIN SystemOrder = 1 .. 13 /\ Len(SystemOrder) = 13
    /\ SystemOrder[1] = "inbound" /\ SystemOrder[2] = "spawn" /\ SystemOrder[3] = "actions"
    /\ SystemOrder[4] = "think" /\ SystemOrder[5] = "release" /\ SystemOrder[6] = "attack"
    /\ SystemOrder[7] = "life" /\ SystemOrder[8] = "claims" /\ SystemOrder[9] = "lifecycle"
    /\ SystemOrder[10] = "restarts" /\ SystemOrder[11] = "rewards"
    /\ SystemOrder[12] = "cleanup" /\ SystemOrder[13] = "resources"
BY DEF SystemOrder

\* No system comes twice.
LEMMA PlacesDiffer ==
    \A i, j \in DOMAIN SystemOrder : SystemOrder[i] = SystemOrder[j] => i = j
<1> SUFFICES ASSUME NEW i \in 1 .. 13, NEW j \in 1 .. 13, SystemOrder[i] = SystemOrder[j]
             PROVE  i = j
  BY Places
<1>1. \A k \in 1 .. 13 : k = 1 \/ k = 2 \/ k = 3 \/ k = 4 \/ k = 5 \/ k = 6 \/ k = 7
                         \/ k = 8 \/ k = 9 \/ k = 10 \/ k = 11 \/ k = 12 \/ k = 13
  OBVIOUS
<1> QED BY <1>1, Places

\* The system after the one at place k.
LEMMA FollowerAt ==
    ASSUME NEW k \in 1 .. 13
    PROVE  Follower[SystemOrder[k]] = SystemOrder[(k % 13) + 1]
<1> DEFINE s == SystemOrder[k]
           c == CHOOSE i \in DOMAIN SystemOrder : SystemOrder[i] = s
<1>1. c \in DOMAIN SystemOrder /\ SystemOrder[c] = s BY Places
<1>2. c = k BY <1>1, PlacesDiffer, Places
<1>3. s \in {SystemOrder[i] : i \in DOMAIN SystemOrder} BY Places
<1>4. Follower[s] = SystemOrder[(c % Len(SystemOrder)) + 1] BY <1>3 DEF Follower
<1> QED BY <1>2, <1>4, Places

\* What Pass does in each stage.
LEMMA Succession ==
    /\ Follower["inbound"] = "spawn" /\ Follower["spawn"] = "actions"
    /\ Follower["actions"] = "think" /\ Follower["think"] = "release"
    /\ Follower["release"] = "attack" /\ Follower["attack"] = "life"
    /\ Follower["life"] = "claims" /\ Follower["claims"] = "lifecycle"
    /\ Follower["lifecycle"] = "restarts" /\ Follower["restarts"] = "rewards"
    /\ Follower["rewards"] = "cleanup" /\ Follower["cleanup"] = "resources"
    /\ Follower["resources"] = "inbound"
<1>1. \A k \in 1 .. 12 : Follower[SystemOrder[k]] = SystemOrder[k + 1]
  <2> SUFFICES ASSUME NEW k \in 1 .. 12 PROVE Follower[SystemOrder[k]] = SystemOrder[k + 1]
    OBVIOUS
  <2>1. k % 13 = k OBVIOUS
  <2>2. Follower[SystemOrder[k]] = SystemOrder[(k % 13) + 1] BY FollowerAt
  <2> QED BY <2>1, <2>2
<1>2. Follower[SystemOrder[13]] = SystemOrder[1]
  <2>1. 13 % 13 = 0 OBVIOUS
  <2>2. Follower[SystemOrder[13]] = SystemOrder[(13 % 13) + 1] BY FollowerAt
  <2> QED BY <2>1, <2>2
<1> QED BY <1>1, <1>2, Places

\* TypeOK names the stages by their places.
LEMMA StageIsNamed ==
    ASSUME NEW s PROVE (\E i \in DOMAIN SystemOrder : s = SystemOrder[i]) <=> s \in Stages
<1>1. \A k \in 1 .. 13 : k = 1 \/ k = 2 \/ k = 3 \/ k = 4 \/ k = 5 \/ k = 6 \/ k = 7
                         \/ k = 8 \/ k = 9 \/ k = 10 \/ k = 11 \/ k = 12 \/ k = 13
  OBVIOUS
<1>2. (\E i \in DOMAIN SystemOrder : s = SystemOrder[i]) => s \in Stages
  BY <1>1, Places DEF Stages
<1>3. s \in Stages => \E i \in 1 .. 13 : s = SystemOrder[i]
  BY Places DEF Stages
<1> QED BY <1>2, <1>3, Places

-----------------------------------------------------------------------------
(* What every step has in common.                                          *)

Commands == [by : Ids, on : Ids]
DelayedCommands == [by : Ids, on : Ids, due : Int, flies : BOOLEAN]
Depletions == [victim : Ids, killer : Ids]
RuleStates == [active : 0 .. world.max_count, members : SUBSET Ids,
               respawn : Int \cup {None}]

\* The numbers of the model.
LEMMA LifeNumbers ==
    /\ MaxHp \in Nat /\ MaxHp >= 2 /\ RestartHp \in 1 .. MaxHp /\ LastAge \in Nat
    /\ CorpseJitter \in Nat \ {0} /\ RegenTime \in Nat \ {0}
    /\ Ids \subseteq Nat /\ Rules \subseteq Nat /\ None \notin Int
    /\ Damages \subseteq Nat /\ Steps \subseteq Nat /\ Delays \subseteq Nat
    /\ MaxHits \in Nat
<1>1. DyingDelay \in Nat /\ CorpseDelay \in Nat /\ CorpseJitter \in Nat \ {0}
      /\ RegenTime \in Nat \ {0} /\ ForcedDelay \in Nat
  BY ActorLifeAssumption
<1>2. LastAge \in Nat BY <1>1 DEF LastAge
<1> QED BY <1>1, <1>2, ActorLifeAssumption

\* The numbers of the world at hand.
LEMMA WorldNumbers ==
    ASSUME TypeOK PROVE world.max_count \in Nat \ {0} /\ world.members \in Nat \ {0}
<1>1. world \in Worlds BY DEF TypeOK
<1> QED BY <1>1, ActorLifeAssumption

\* TypeOK by its parts.
LEMMA TypeParts ==
    ASSUME TypeOK
    PROVE  /\ world \in Worlds /\ stage \in Stages /\ ent \in [Ids -> Bodies]
           /\ cmds \in Seq(Commands) /\ delayed \in Seq(DelayedCommands)
           /\ depleted \in Seq(Depletions) /\ finalized \in Seq(Ids)
           /\ cleanup \subseteq Ids
           /\ rule \in [Rules -> RuleStates] /\ heap \subseteq Int \X Rules
BY StageIsNamed DEF TypeOK, Commands, DelayedCommands, Depletions, RuleStates

\* A step keeps the types part by part.
LEMMA TypesNext ==
    ASSUME TypeOK, world' = world, stage' \in Stages, ent' \in [Ids -> Bodies],
           cmds' \in Seq(Commands), delayed' \in Seq(DelayedCommands),
           depleted' \in Seq(Depletions), finalized' \in Seq(Ids), cleanup' \subseteq Ids,
           rule' \in [Rules -> RuleStates], heap' \subseteq Int \X Rules
    PROVE  TypeOK'
<1>1. \E i \in DOMAIN SystemOrder : stage' = SystemOrder[i] BY StageIsNamed
<1>2. Bodies' = Bodies BY DEF Bodies
<1>3. world' \in Worlds BY DEF TypeOK
<1>4. cmds' \in Seq([by : Ids, on : Ids])
      /\ delayed' \in Seq([by : Ids, on : Ids, due : Int, flies : BOOLEAN])
      /\ depleted' \in Seq([victim : Ids, killer : Ids])
  BY DEF Commands, DelayedCommands, Depletions
<1>5. rule' \in [Rules -> [active : 0 .. world'.max_count, members : SUBSET Ids,
                           respawn : Int \cup {None}]]
  BY DEF RuleStates
<1> QED BY <1>1, <1>2, <1>3, <1>4, <1>5 DEF TypeOK

\* The fields of a body.
LEMMA BodyFields ==
    ASSUME TypeOK, NEW e \in Ids
    PROVE  /\ ent[e] \in Bodies
           /\ ent[e].kind \in {"none", "player", "mob"}
           /\ ent[e].of \in world.players \cup Rules \cup {None}
           /\ ent[e].phase \in {"Alive", "Dying", "Dead"}
           /\ ent[e].age \in 0 .. LastAge /\ ent[e].hp \in 0 .. MaxHp
           /\ ent[e].claim \in Ids \cup {None} /\ ent[e].slayer \in Ids \cup {None}
<1>1. ent[e] \in Bodies BY TypeParts
<1> QED BY <1>1 DEF Bodies

\* A step of the systems up to the attacks that changes no body and no fact.
LEMMA QuietStep ==
    ASSUME LifeInv, ent' = ent, depleted' = depleted, finalized' = finalized,
           \/ stage' = stage
           \/ /\ stage \in {"spawn", "actions", "think", "release", "attack"}
              /\ stage' = Follower[stage]
    PROVE  MortalInTick' /\ VictimsAreFresh' /\ ClaimsInTick'
<1>1. CASE stage' = stage
  BY <1>1 DEF LifeInv, MortalInTick, VictimsAreFresh, ClaimsInTick, Exists, IsMob, IsAlive,
              IsDying, IsDead
<1>2. CASE stage = "attack" /\ stage' = "life"
  BY <1>2 DEF LifeInv, MortalInTick, VictimsAreFresh, ClaimsInTick, Exists, IsMob, IsAlive,
              IsDying, IsDead, BeforeAttacks, UntilClaims, UntilRewards
<1>3. CASE /\ stage \in {"spawn", "actions", "think", "release"}
           /\ stage' \in {"actions", "think", "release", "attack"}
  <2>1. depleted = <<>> BY <1>3 DEF LifeInv, VictimsAreFresh, BeforeAttacks
  <2>2. DOMAIN depleted = {} BY <2>1
  <2>3. MortalInTick'
    BY <1>3 DEF LifeInv, MortalInTick, Exists, IsAlive
  <2>4. VictimsAreFresh' BY <2>1, <2>2 DEF VictimsAreFresh
  <2>5. ClaimsInTick'
    BY <1>3 DEF LifeInv, ClaimsInTick, IsMob, IsDying, IsDead, UntilClaims, UntilRewards
  <2> QED BY <2>3, <2>4, <2>5
<1> QED BY <1>1, <1>2, <1>3, Succession

\* The books stay true while no mob comes or goes.
LEMMA SameMobs ==
    ASSUME LifeInv, rule' = rule,
           \A e \in Ids : /\ ent'[e].kind = "mob" <=> ent[e].kind = "mob"
                          /\ ent[e].kind = "mob" => ent'[e].of = ent[e].of
    PROVE  SlotsAreReal'
<1>1. \A r \in Rules : {e \in Ids : ent'[e].kind = "mob" /\ ent'[e].of = r}
                         = {e \in Ids : ent[e].kind = "mob" /\ ent[e].of = r}
  OBVIOUS
<1> QED BY <1>1 DEF LifeInv, SlotsAreReal, IsMob

\* Nothing of the spawn rules changes.
LEMMA SameSpawns ==
    ASSUME LifeInv, rule' = rule, heap' = heap
    PROVE  WaitsAreScheduled' /\ rule' \in [Rules -> RuleStates] /\ heap' \subseteq Int \X Rules
BY TypeParts DEF LifeInv, WaitsAreScheduled

-----------------------------------------------------------------------------
(* The systems that change no body.                                        *)

\* A step that leaves bodies, facts and spawn rules alone.
LEMMA QuietLife ==
    ASSUME LifeInv, world' = world, ent' = ent, depleted' = depleted,
           finalized' = finalized, cleanup' = cleanup, rule' = rule, heap' = heap,
           cmds' \in Seq(Commands), delayed' \in Seq(DelayedCommands),
           \/ stage' = stage
           \/ /\ stage \in {"spawn", "actions", "think", "release", "attack"}
              /\ stage' = Follower[stage]
    PROVE  LifeInv'
<1>0. TypeOK BY DEF LifeInv
<1>1. stage' \in Stages BY <1>0, TypeParts, Succession DEF Stages
<1>2. TypeOK' BY <1>0, <1>1, TypeParts, TypesNext
<1>3. MortalInTick' /\ VictimsAreFresh' /\ ClaimsInTick' BY QuietStep
<1>4. SlotsAreReal' BY SameMobs
<1>5. WaitsAreScheduled' BY SameSpawns
<1> QED BY <1>2, <1>3, <1>4, <1>5 DEF LifeInv

\* spawn_rules has nothing left to do.
LEMMA SpawnRulesDoneLife ==
    ASSUME LifeInv, SpawnRulesDone PROVE LifeInv'
<1>1. cmds \in Seq(Commands) /\ delayed \in Seq(DelayedCommands)
  BY TypeParts DEF LifeInv
<1> QED BY <1>1, QuietLife DEF SpawnRulesDone, Pass, facts, spawns

\* A choice of attacks is a sequence of commands.
LEMMA SomeAttacks ==
    ASSUME TypeOK, NEW S, S \subseteq Attacks, NEW a \in SeqUpTo(S, MaxHits)
    PROVE  a \in Seq(Commands)
<1>1. Attacks \subseteq Commands BY DEF Attacks, Commands
<1>2. PICK k \in 0 .. MaxHits : a \in [1 .. k -> S] BY DEF SeqUpTo
<1>3. k \in Nat BY <1>2, LifeNumbers
<1>4. a \in [1 .. k -> Commands] BY <1>1, <1>2
<1>5. a \in Seq(Commands) BY <1>3, <1>4
<1> QED BY <1>5

\* The players' attacks are appended to the buffer.
LEMMA ProcessPlayerActionsLife ==
    ASSUME LifeInv, NEW a \in SeqUpTo(PlayerAttacks, MaxHits), ProcessPlayerActions(a)
    PROVE  LifeInv'
<1>0. TypeOK BY DEF LifeInv
<1>1. cmds \in Seq(Commands) /\ delayed \in Seq(DelayedCommands) BY <1>0, TypeParts
<1>2. PlayerAttacks \subseteq Attacks BY DEF PlayerAttacks
<1>3. a \in Seq(Commands) BY <1>0, <1>2, SomeAttacks
<1>4. cmds' \in Seq(Commands) /\ delayed' \in Seq(DelayedCommands)
  BY <1>1, <1>3 DEF ProcessPlayerActions
<1> QED BY <1>4, QuietLife DEF ProcessPlayerActions, Pass, facts, spawns

\* So are the mobs', and one may be kept for later.
LEMMA ProcessMobAiLife ==
    ASSUME LifeInv, NEW a \in SeqUpTo(MobAttacks, MaxHits), NEW b \in MobShots \cup {None},
           ProcessMobAi(a, b)
    PROVE  LifeInv'
<1>0. TypeOK BY DEF LifeInv
<1>1. cmds \in Seq(Commands) /\ delayed \in Seq(DelayedCommands) BY <1>0, TypeParts
<1>2. MobAttacks \subseteq Attacks BY DEF MobAttacks
<1>3. a \in Seq(Commands) BY <1>0, <1>2, SomeAttacks
<1>4. cmds' \in Seq(Commands) BY <1>1, <1>3 DEF ProcessMobAi
<1>5. b # None => b \in DelayedCommands
  <2> SUFFICES ASSUME b \in MobShots PROVE b \in DelayedCommands
    OBVIOUS
  <2>1. PICK m \in MobAttacks, d \in Delays, fl \in BOOLEAN :
           b = [by |-> m.by, on |-> m.on, due |-> d, flies |-> fl]
    BY DEF MobShots
  <2>2. m.by \in Ids /\ m.on \in Ids BY <1>2 DEF Attacks
  <2>3. d \in Int BY LifeNumbers
  <2> QED BY <2>1, <2>2, <2>3 DEF DelayedCommands
<1>6. delayed' \in Seq(DelayedCommands) BY <1>1, <1>5 DEF ProcessMobAi
<1> QED BY <1>4, <1>6, QuietLife DEF ProcessMobAi, Pass, facts, spawns

\* A sequence without one of its elements.
LEMMA WithoutType ==
    ASSUME NEW S, NEW s \in Seq(S), NEW i \in DOMAIN s PROVE Without(s, i) \in Seq(S)
<1>1. i \in 1 .. Len(s) /\ Len(s) \in Nat OBVIOUS
<1>2. SubSeq(s, 1, i - 1) \in Seq(S) BY <1>1
<1>3. SubSeq(s, i + 1, Len(s)) \in Seq(S) BY <1>1
<1> QED BY <1>2, <1>3 DEF Without

\* A delayed attack is enqueued, delayed again or dropped.
LEMMA ReleaseDueAttackLife ==
    ASSUME LifeInv, NEW i \in DOMAIN delayed, NEW flight \in Delays,
           ReleaseDueAttack(i, flight)
    PROVE  LifeInv'
<1>0. TypeOK BY DEF LifeInv
<1>1. cmds \in Seq(Commands) /\ delayed \in Seq(DelayedCommands) BY <1>0, TypeParts
<1> DEFINE c == delayed[i]
           impact == IF c.flies THEN c.due + flight ELSE c.due
           rest == Without(delayed, i)
<1>2. c \in DelayedCommands BY <1>1
<1>3. /\ cmds' = IF BothExist(c) /\ impact <= 0 THEN Append(cmds, Strike(c)) ELSE cmds
      /\ delayed' = IF BothExist(c) /\ impact > 0
                    THEN Append(rest, [c EXCEPT !.due = impact, !.flies = FALSE]) ELSE rest
  BY DEF ReleaseDueAttack
<1>4. impact \in Int
  <2>1. c.due \in Int /\ flight \in Int BY <1>2, LifeNumbers DEF DelayedCommands
  <2> QED BY <2>1
<1>5. rest \in Seq(DelayedCommands) BY <1>1, WithoutType
<1>6. Strike(c) \in Commands BY <1>2 DEF Strike, Commands, DelayedCommands
<1> HIDE DEF c, impact, rest
<1>7. [c EXCEPT !.due = impact, !.flies = FALSE] \in DelayedCommands
  BY <1>2, <1>4 DEF DelayedCommands
<1>8. cmds' \in Seq(Commands) BY <1>1, <1>3, <1>6
<1>9. delayed' \in Seq(DelayedCommands) BY <1>3, <1>5, <1>7
<1> QED BY <1>8, <1>9, QuietLife DEF ReleaseDueAttack, facts, spawns

\* Nothing more is due.
LEMMA ReleaseDoneLife ==
    ASSUME LifeInv, ReleaseDone PROVE LifeInv'
<1>1. cmds \in Seq(Commands) /\ delayed \in Seq(DelayedCommands)
  BY TypeParts DEF LifeInv
<1> QED BY <1>1, QuietLife DEF ReleaseDone, Pass, facts, spawns

\* An attack is dropped with one of its actors, or comes too late.
LEMMA AttackIsDroppedLife ==
    ASSUME LifeInv, AttackIsDropped PROVE LifeInv'
<1>1. cmds \in Seq(Commands) /\ delayed \in Seq(DelayedCommands)
  BY TypeParts DEF LifeInv
<1>2. cmds' \in Seq(Commands) BY <1>1 DEF AttackIsDropped
<1> QED BY <1>1, <1>2, QuietLife DEF AttackIsDropped, facts, spawns

\* The buffer of attacks is empty.
LEMMA AttacksDoneLife ==
    ASSUME LifeInv, AttacksDone PROVE LifeInv'
<1>1. cmds \in Seq(Commands) /\ delayed \in Seq(DelayedCommands)
  BY TypeParts DEF LifeInv
<1> QED BY <1>1, QuietLife DEF AttacksDone, Pass, facts, spawns

-----------------------------------------------------------------------------
(* Bodies.                                                                 *)

\* A body as it is between two ticks.
Sane(b) ==
    /\ b.kind # "none" /\ b.phase = "Alive" => b.hp # 0
    /\ b.claim # None => b.kind = "mob" /\ b.claim = b.slayer /\ b.phase = "Dying"

\* Outside the systems between the attacks and the rewards all bodies are sane.
LEMMA SaneBodies ==
    ASSUME LifeInv, stage \notin UntilRewards PROVE \A e \in Ids : Sane(ent[e])
BY DEF LifeInv, MortalInTick, ClaimsInTick, Sane, Exists, IsMob, IsAlive, IsDying, IsDead,
       UntilClaims, UntilRewards

\* And sane bodies are all the invariant asks for there.
LEMMA SaneStep ==
    ASSUME stage' \in Stages \ UntilRewards, stage' \in BeforeAttacks => depleted' = <<>>,
           \A e \in Ids : Sane(ent'[e])
    PROVE  MortalInTick' /\ VictimsAreFresh' /\ ClaimsInTick'
<1>1. MortalInTick' BY DEF MortalInTick, Sane, Exists, IsAlive
<1>2. VictimsAreFresh' BY DEF VictimsAreFresh, UntilClaims, UntilRewards
<1>3. ClaimsInTick' BY DEF ClaimsInTick, Sane, IsMob, IsDying
<1> QED BY <1>1, <1>2, <1>3

\* The fields of a record that is a body.
LEMMA AnyBody ==
    ASSUME NEW b \in Bodies
    PROVE  /\ b.kind \in {"none", "player", "mob"}
           /\ b.of \in world.players \cup Rules \cup {None}
           /\ b.phase \in {"Alive", "Dying", "Dead"}
           /\ b.age \in 0 .. LastAge /\ b.hp \in 0 .. MaxHp
           /\ b.claim \in Ids \cup {None} /\ b.slayer \in Ids \cup {None}
BY DEF Bodies

\* The bodies that are made.
LEMMA NewBodies ==
    /\ Nobody \in Bodies /\ Sane(Nobody) /\ Nobody.kind = "none"
    /\ \A p \in world.players, hp \in 1 .. MaxHp :
          /\ PlayerBody(p, hp) \in Bodies /\ Sane(PlayerBody(p, hp))
          /\ PlayerBody(p, hp).kind = "player"
    /\ \A r \in Rules : /\ MobBody(r) \in Bodies /\ Sane(MobBody(r))
                        /\ MobBody(r).kind = "mob" /\ MobBody(r).of = r
<1>0. MaxHp \in 1 .. MaxHp /\ 0 \in 0 .. LastAge /\ 0 \in 0 .. MaxHp BY LifeNumbers
<1>1. Nobody \in Bodies /\ Nobody.kind = "none" /\ Nobody.claim = None
      /\ Nobody.phase = "Alive"
  BY <1>0 DEF Nobody, Bodies
<1>2. Sane(Nobody) BY <1>1 DEF Sane
<1>3. ASSUME NEW b \in Bodies, b.claim = None, b.phase = "Alive", NEW k \in {"player", "mob"},
             NEW o \in world.players \cup Rules, NEW hp \in 1 .. MaxHp
      PROVE  /\ [b EXCEPT !.kind = k, !.of = o, !.hp = hp] \in Bodies
             /\ Sane([b EXCEPT !.kind = k, !.of = o, !.hp = hp])
             /\ [b EXCEPT !.kind = k, !.of = o, !.hp = hp].kind = k
             /\ [b EXCEPT !.kind = k, !.of = o, !.hp = hp].of = o
  <2>1. hp \in 0 .. MaxHp /\ hp # 0 BY LifeNumbers
  <2>2. [b EXCEPT !.kind = k, !.of = o, !.hp = hp] \in Bodies BY <2>1 DEF Bodies
  <2>3. /\ [b EXCEPT !.kind = k, !.of = o, !.hp = hp].kind = k
        /\ [b EXCEPT !.kind = k, !.of = o, !.hp = hp].of = o
        /\ [b EXCEPT !.kind = k, !.of = o, !.hp = hp].hp = hp
        /\ [b EXCEPT !.kind = k, !.of = o, !.hp = hp].claim = b.claim
    BY DEF Bodies
  <2> QED BY <1>3, <2>1, <2>2, <2>3 DEF Sane
<1>4. ASSUME NEW p \in world.players, NEW hp \in 1 .. MaxHp
      PROVE  /\ PlayerBody(p, hp) \in Bodies /\ Sane(PlayerBody(p, hp))
             /\ PlayerBody(p, hp).kind = "player"
  <2>1. p \in world.players \cup Rules OBVIOUS
  <2>2. PlayerBody(p, hp) = [Nobody EXCEPT !.kind = "player", !.of = p, !.hp = hp]
    BY DEF PlayerBody
  <2> HIDE DEF PlayerBody
  <2>3. /\ [Nobody EXCEPT !.kind = "player", !.of = p, !.hp = hp] \in Bodies
        /\ Sane([Nobody EXCEPT !.kind = "player", !.of = p, !.hp = hp])
        /\ [Nobody EXCEPT !.kind = "player", !.of = p, !.hp = hp].kind = "player"
    BY <1>1, <1>3, <2>1
  <2> QED BY <2>2, <2>3
<1>5. \A r \in Rules : /\ MobBody(r) \in Bodies /\ Sane(MobBody(r))
                       /\ MobBody(r).kind = "mob" /\ MobBody(r).of = r
  BY <1>0, <1>1, <1>3 DEF MobBody
<1> QED BY <1>1, <1>2, <1>4, <1>5

-----------------------------------------------------------------------------
(* Inbound messages.                                                       *)

\* A name that is handed out is nobody's.
LEMMA FreshIsNobody ==
    ASSUME NEW n, NEW e \in Fresh(n) PROVE e \in Ids /\ ~Exists(e)
BY DEF Fresh, Unused

\* A player enters, alive and with hit points, in place of its last body.
LEMMA HandlePlayerEnterLife ==
    ASSUME LifeInv, NEW p \in world.players, NEW saved \in 0 .. MaxHp,
           HandlePlayerEnter(p, saved)
    PROVE  LifeInv'
<1>0. TypeOK BY DEF LifeInv
<1>1. PICK e \in Fresh(1) :
         ent' = [f \in Ids |-> IF f = e THEN PlayerBody(p, LoadedHp(saved))
                               ELSE IF f \in BodiesOf(p) THEN Nobody ELSE ent[f]]
  BY DEF HandlePlayerEnter
<1>2. /\ stage = "inbound" /\ stage' = stage /\ world' = world /\ cmds' = cmds
      /\ delayed' = delayed /\ depleted' = depleted /\ finalized' = finalized
      /\ cleanup' = cleanup /\ rule' = rule /\ heap' = heap
  BY DEF HandlePlayerEnter, facts, spawns
<1>3. e \in Ids /\ ent[e].kind = "none"
  <2>1. ent[e].kind \in {"none", "player", "mob"} BY <1>0, FreshIsNobody, BodyFields
  <2> QED BY <2>1, FreshIsNobody DEF Exists
<1>4. LoadedHp(saved) \in 1 .. MaxHp BY LifeNumbers DEF LoadedHp
<1>5. \A f \in BodiesOf(p) : ent[f].kind = "player" BY DEF BodiesOf, IsPlayer
<1>6. \A f \in Ids : Sane(ent[f])
  BY <1>2, SaneBodies DEF UntilClaims, UntilRewards
<1>7. \A f \in Ids : ent[f] \in Bodies BY <1>0, BodyFields
<1>8. \A f \in Ids : /\ ent'[f] \in Bodies /\ Sane(ent'[f])
                     /\ ent'[f].kind = "mob" <=> ent[f].kind = "mob"
                     /\ ent[f].kind = "mob" => ent'[f] = ent[f]
  BY <1>1, <1>3, <1>4, <1>5, <1>6, <1>7, NewBodies
<1>9. ent' \in [Ids -> Bodies] BY <1>1, <1>8
<1>10. TypeOK' BY <1>0, <1>2, <1>9, TypeParts, TypesNext
<1>11. depleted = <<>> BY <1>2 DEF LifeInv, VictimsAreFresh, BeforeAttacks
<1>12. stage' \in Stages \ UntilRewards
  BY <1>2 DEF Stages, UntilClaims, UntilRewards
<1>13. MortalInTick' /\ VictimsAreFresh' /\ ClaimsInTick'
  BY <1>2, <1>8, <1>11, <1>12, SaneStep
<1>14. SlotsAreReal' BY <1>2, <1>8, SameMobs
<1>15. WaitsAreScheduled' BY <1>2, SameSpawns
<1> QED BY <1>10, <1>13, <1>14, <1>15 DEF LifeInv

\* A player leaves and its body is gone.
LEMMA HandlePlayerLeaveLife ==
    ASSUME LifeInv, NEW p \in world.players, HandlePlayerLeave(p) PROVE LifeInv'
<1>0. TypeOK BY DEF LifeInv
<1>1. ent' = [f \in Ids |-> IF f \in BodiesOf(p) THEN Nobody ELSE ent[f]]
  BY DEF HandlePlayerLeave
<1>2. /\ stage = "inbound" /\ stage' = stage /\ world' = world /\ cmds' = cmds
      /\ delayed' = delayed /\ depleted' = depleted /\ finalized' = finalized
      /\ cleanup' = cleanup /\ rule' = rule /\ heap' = heap
  BY DEF HandlePlayerLeave, facts, spawns
<1>3. \A f \in BodiesOf(p) : ent[f].kind = "player" BY DEF BodiesOf, IsPlayer
<1>4. \A f \in Ids : Sane(ent[f])
  BY <1>2, SaneBodies DEF UntilClaims, UntilRewards
<1>5. \A f \in Ids : ent[f] \in Bodies BY <1>0, BodyFields
<1>6. \A f \in Ids : /\ ent'[f] \in Bodies /\ Sane(ent'[f])
                     /\ ent'[f].kind = "mob" <=> ent[f].kind = "mob"
                     /\ ent[f].kind = "mob" => ent'[f] = ent[f]
  BY <1>1, <1>3, <1>4, <1>5, NewBodies
<1>7. ent' \in [Ids -> Bodies] BY <1>1, <1>6
<1>8. TypeOK' BY <1>0, <1>2, <1>7, TypeParts, TypesNext
<1>9. depleted = <<>> BY <1>2 DEF LifeInv, VictimsAreFresh, BeforeAttacks
<1>10. stage' \in Stages \ UntilRewards
  BY <1>2 DEF Stages, UntilClaims, UntilRewards
<1>11. MortalInTick' /\ VictimsAreFresh' /\ ClaimsInTick'
  BY <1>2, <1>6, <1>9, <1>10, SaneStep
<1>12. SlotsAreReal' BY <1>2, <1>6, SameMobs
<1>13. WaitsAreScheduled' BY <1>2, SameSpawns
<1> QED BY <1>8, <1>11, <1>12, <1>13 DEF LifeInv

\* Time passes for the dying and the dead, for attacks under way and for the
\* rules that wait, all by the same amount.
LEMMA AdvanceSimTimeLife ==
    ASSUME LifeInv, NEW dt \in Steps, AdvanceSimTime(dt) PROVE LifeInv'
<1>0. TypeOK /\ dt \in Nat BY LifeNumbers DEF LifeInv
<1>1. /\ ent' = [e \in Ids |-> IF ent[e].phase = "Alive" THEN ent[e]
                   ELSE [ent[e] EXCEPT !.age = AtMost(ent[e].age + dt, LastAge)]]
      /\ delayed' = [i \in DOMAIN delayed |->
                       [delayed[i] EXCEPT !.due = delayed[i].due - dt]]
      /\ rule' = [r \in Rules |-> IF rule[r].respawn = None THEN rule[r]
                    ELSE [rule[r] EXCEPT !.respawn = rule[r].respawn - dt]]
      /\ heap' = {<<h[1] - dt, h[2]>> : h \in heap}
  BY DEF AdvanceSimTime
<1>2. /\ stage = "inbound" /\ stage' = "spawn" /\ world' = world /\ cmds' = cmds
      /\ depleted' = depleted /\ finalized' = finalized /\ cleanup' = cleanup
  BY Succession DEF AdvanceSimTime, Pass, facts
<1>3. ASSUME NEW b \in Bodies
      PROVE  /\ [b EXCEPT !.age = AtMost(b.age + dt, LastAge)] \in Bodies
             /\ Sane(b) => Sane([b EXCEPT !.age = AtMost(b.age + dt, LastAge)])
             /\ [b EXCEPT !.age = AtMost(b.age + dt, LastAge)].kind = b.kind
             /\ [b EXCEPT !.age = AtMost(b.age + dt, LastAge)].of = b.of
  <2>1. AtMost(b.age + dt, LastAge) \in 0 .. LastAge
    BY <1>0, AnyBody, LifeNumbers DEF AtMost
  <2> QED BY <2>1 DEF Bodies, Sane
<1>4. \A f \in Ids : Sane(ent[f])
  BY <1>2, SaneBodies DEF UntilClaims, UntilRewards
<1>5. \A f \in Ids : ent[f] \in Bodies BY <1>0, BodyFields
<1>6. \A f \in Ids : /\ ent'[f] \in Bodies /\ Sane(ent'[f])
                     /\ ent'[f].kind = ent[f].kind /\ ent'[f].of = ent[f].of
  BY <1>1, <1>3, <1>4, <1>5
<1>7. ent' \in [Ids -> Bodies] BY <1>1, <1>6
<1>8. delayed' \in Seq(DelayedCommands)
  <2>1. delayed \in Seq(DelayedCommands) BY <1>0, TypeParts
  <2>2. \A c \in DelayedCommands : [c EXCEPT !.due = c.due - dt] \in DelayedCommands
    BY <1>0 DEF DelayedCommands
  <2>3. /\ DOMAIN delayed = 1 .. Len(delayed) /\ Len(delayed) \in Nat
        /\ \A i \in DOMAIN delayed : delayed[i] \in DelayedCommands
    BY <2>1
  <2>4. delayed' \in [1 .. Len(delayed) -> DelayedCommands] BY <1>1, <2>2, <2>3
  <2> QED BY <2>3, <2>4
<1>9. /\ \A r \in Rules : rule[r] \in RuleStates
      /\ \A h \in heap : h[1] \in Int /\ h[2] \in Rules
  BY <1>0, TypeParts
<1>10. \A r \in Rules : /\ rule'[r] \in RuleStates
                        /\ rule'[r].members = rule[r].members
                        /\ rule'[r].active = rule[r].active
                        /\ rule[r].respawn = None => rule'[r].respawn = None
                        /\ rule[r].respawn # None =>
                              /\ rule[r].respawn \in Int
                              /\ rule'[r].respawn = rule[r].respawn - dt
  <2>1. ASSUME NEW s \in RuleStates, s.respawn # None
        PROVE  /\ s.respawn \in Int
               /\ [s EXCEPT !.respawn = s.respawn - dt] \in RuleStates
               /\ [s EXCEPT !.respawn = s.respawn - dt].members = s.members
               /\ [s EXCEPT !.respawn = s.respawn - dt].active = s.active
               /\ [s EXCEPT !.respawn = s.respawn - dt].respawn = s.respawn - dt
    BY <1>0, <2>1 DEF RuleStates
  <2> QED BY <1>1, <1>9, <2>1
<1>11. rule' \in [Rules -> RuleStates] BY <1>1, <1>10
<1>12. heap' \subseteq Int \X Rules BY <1>0, <1>1, <1>9
<1>13. stage' \in Stages \ UntilRewards
  BY <1>2 DEF Stages, UntilClaims, UntilRewards
<1>14. TypeOK' BY <1>0, <1>2, <1>7, <1>8, <1>11, <1>12, <1>13, TypeParts, TypesNext
<1>15. depleted = <<>> BY <1>2 DEF LifeInv, VictimsAreFresh, BeforeAttacks
<1>16. MortalInTick' /\ VictimsAreFresh' /\ ClaimsInTick'
  BY <1>2, <1>6, <1>13, <1>15, SaneStep
<1>17. SlotsAreReal'
  <2>1. \A r \in Rules : {e \in Ids : ent'[e].kind = "mob" /\ ent'[e].of = r}
                           = {e \in Ids : ent[e].kind = "mob" /\ ent[e].of = r}
    BY <1>6
  <2> QED BY <1>10, <2>1 DEF LifeInv, SlotsAreReal, IsMob
<1>18. WaitsAreScheduled'
  <2> SUFFICES ASSUME NEW r \in Rules, rule'[r].respawn # None
               PROVE  <<rule'[r].respawn, r>> \in heap'
    BY DEF WaitsAreScheduled
  <2>1. rule[r].respawn # None /\ rule'[r].respawn = rule[r].respawn - dt BY <1>10
  <2>2. <<rule[r].respawn, r>> \in heap BY <2>1 DEF LifeInv, WaitsAreScheduled
  <2> QED BY <1>1, <2>1, <2>2
<1> QED BY <1>14, <1>16, <1>17, <1>18 DEF LifeInv

-----------------------------------------------------------------------------
(* Spawn rules.                                                            *)

\* The entry h of the heap was for rule h[2]: once it is removed, every other
\* rule that waits still has its own.
LEMMA OtherEntries ==
    ASSUME LifeInv, NEW h \in heap, NEW r \in Rules, rule[r].respawn # None,
           r # h[2] \/ rule[r].respawn # h[1]
    PROVE  <<rule[r].respawn, r>> \in heap \ {h}
<1>1. <<rule[r].respawn, r>> \in heap BY DEF LifeInv, WaitsAreScheduled
<1>2. h \in Int \X Rules BY TypeParts DEF LifeInv
<1>3. h = <<h[1], h[2]>> BY <1>2
<1> QED BY <1>1, <1>3

\* An entry nobody waits for, or one of a full rule, is dropped.
LEMMA SpawnSkipsLife ==
    ASSUME LifeInv, NEW h \in heap, SpawnSkips(h) PROVE LifeInv'
<1>0. TypeOK BY DEF LifeInv
<1> DEFINE r == h[2]
<1>1. /\ rule' = IF rule[r].respawn = h[1] THEN [rule EXCEPT ![r].respawn = None] ELSE rule
      /\ heap' = heap \ {h}
      /\ stage = "spawn" /\ stage' = stage /\ world' = world /\ ent' = ent /\ cmds' = cmds
      /\ delayed' = delayed /\ depleted' = depleted /\ finalized' = finalized
      /\ cleanup' = cleanup
  BY DEF SpawnSkips, facts
<1>2. r \in Rules /\ h[1] \in Int /\ rule[r] \in RuleStates
  BY <1>0, TypeParts
<1>3. \A q \in Rules : /\ rule'[q] \in RuleStates
                       /\ rule'[q].members = rule[q].members
                       /\ rule'[q].active = rule[q].active
                       /\ rule'[q].respawn = IF q = r /\ rule[r].respawn = h[1] THEN None
                                             ELSE rule[q].respawn
  <2>1. ASSUME NEW s \in RuleStates
        PROVE  /\ [s EXCEPT !.respawn = None] \in RuleStates
               /\ [s EXCEPT !.respawn = None].members = s.members
               /\ [s EXCEPT !.respawn = None].active = s.active
               /\ [s EXCEPT !.respawn = None].respawn = None
    BY DEF RuleStates
  <2>2. rule \in [Rules -> RuleStates] BY <1>0, TypeParts
  <2>3. rule' = IF rule[r].respawn = h[1]
                THEN [q \in Rules |-> IF q = r THEN [rule[r] EXCEPT !.respawn = None]
                                      ELSE rule[q]]
                ELSE rule
    BY <1>1, <1>2, <2>2
  <2> QED BY <1>2, <2>1, <2>2, <2>3
<1>4. rule' \in [Rules -> RuleStates]
  <2>1. rule \in [Rules -> RuleStates] BY <1>0, TypeParts
  <2>2. rule' = [q \in Rules |-> rule'[q]] BY <1>1, <2>1
  <2> QED BY <1>3, <2>2
<1>5. heap' \subseteq Int \X Rules BY <1>0, <1>1, TypeParts
<1> HIDE DEF r
<1>6. TypeOK' BY <1>0, <1>1, <1>4, <1>5, TypeParts, TypesNext
<1>7. MortalInTick' /\ VictimsAreFresh' /\ ClaimsInTick' BY <1>1, QuietStep
<1>8. SlotsAreReal' BY <1>1, <1>3 DEF LifeInv, SlotsAreReal, IsMob
<1>9. WaitsAreScheduled'
  <2> SUFFICES ASSUME NEW q \in Rules, rule'[q].respawn # None
               PROVE  <<rule'[q].respawn, q>> \in heap'
    BY DEF WaitsAreScheduled
  <2>1. rule'[q].respawn = rule[q].respawn /\ rule[q].respawn # None
        /\ (q # h[2] \/ rule[q].respawn # h[1])
    BY <1>3 DEF r
  <2> QED BY <1>1, <2>1, OtherEntries
<1> QED BY <1>6, <1>7, <1>8, <1>9 DEF LifeInv

\* A rule places mobs: they are its own, it counts no more groups than mobs,
\* and if it is still short it waits for the entry it leaves in the heap.
LEMMA SpawnFillsLife ==
    ASSUME LifeInv, NEW h \in heap, NEW groups \in 0 .. world.max_count,
           NEW size \in groups .. (groups * world.members), SpawnFills(h, groups, size)
    PROVE  LifeInv'
<1>0. TypeOK BY DEF LifeInv
<1> DEFINE r == h[2]
           new == Fresh(size)
           now == rule[r]
<1>1. /\ stage = "spawn" /\ stage' = stage /\ world' = world /\ cmds' = cmds
      /\ delayed' = delayed /\ depleted' = depleted /\ finalized' = finalized
      /\ cleanup' = cleanup
      /\ groups <= world.max_count - now.active /\ Cardinality(new) = size
      /\ ent' = Place(ent, new, r)
  BY DEF SpawnFills, facts
<1>2. PICK t \in {1, None} :
        /\ rule' = [rule EXCEPT ![r] = [Placed(now, new, groups) EXCEPT !.respawn = t]]
        /\ heap' = IF t = None THEN heap \ {h} ELSE (heap \ {h}) \cup {<<t, r>>}
  <2>1. None # 1 BY LifeNumbers
  <2>2. CASE Placed(now, new, groups).active < world.max_count
    BY <2>1, <2>2 DEF SpawnFills
  <2>3. CASE ~(Placed(now, new, groups).active < world.max_count)
    BY <2>3 DEF SpawnFills
  <2> QED BY <2>2, <2>3
<1>3. r \in Rules /\ h[1] \in Int /\ now \in RuleStates /\ rule \in [Rules -> RuleStates]
  BY <1>0, TypeParts
<1>4. new \subseteq Ids /\ \A e \in new : ent[e].kind = "none"
  <2>1. \A e \in new : e \in Ids /\ ~Exists(e) BY FreshIsNobody
  <2> QED BY <2>1 DEF Exists
<1>5. groups \in Nat /\ size \in Nat /\ groups <= size /\ world.max_count \in Nat
  <2>1. world.max_count \in Nat /\ world.members \in Nat BY <1>0, WorldNumbers
  <2>2. groups \in Nat BY <2>1
  <2>3. groups * world.members \in Int BY <2>1, <2>2
  <2> QED BY <2>1, <2>2, <2>3
<1> HIDE DEF r, new, now
<1>6. ASSUME NEW s \in RuleStates, groups <= world.max_count - s.active
      PROVE  /\ [Placed(s, new, groups) EXCEPT !.respawn = t] \in RuleStates
             /\ [Placed(s, new, groups) EXCEPT !.respawn = t].members = s.members \cup new
             /\ [Placed(s, new, groups) EXCEPT !.respawn = t].active = s.active + groups
             /\ [Placed(s, new, groups) EXCEPT !.respawn = t].respawn = t
  <2>1. s.active + groups \in 0 .. world.max_count BY <1>5, <1>6 DEF RuleStates
  <2>2. s.members \cup new \in SUBSET Ids BY <1>4 DEF RuleStates
  <2>3. ASSUME NEW m \in SUBSET Ids, NEW a \in 0 .. world.max_count
        PROVE  /\ [s EXCEPT !.members = m, !.active = a] \in RuleStates
               /\ [s EXCEPT !.members = m, !.active = a].members = m
               /\ [s EXCEPT !.members = m, !.active = a].active = a
    BY DEF RuleStates
  <2>4. Placed(s, new, groups) = [s EXCEPT !.members = s.members \cup new,
                                           !.active = s.active + groups]
    BY DEF Placed
  <2>5. /\ Placed(s, new, groups) \in RuleStates
        /\ Placed(s, new, groups).members = s.members \cup new
        /\ Placed(s, new, groups).active = s.active + groups
    <3> DEFINE m == s.members \cup new
               a == s.active + groups
    <3> HIDE DEF m, a
    <3>1. m \in SUBSET Ids /\ a \in 0 .. world.max_count BY <2>1, <2>2 DEF m, a
    <3>2. /\ [s EXCEPT !.members = m, !.active = a] \in RuleStates
          /\ [s EXCEPT !.members = m, !.active = a].members = m
          /\ [s EXCEPT !.members = m, !.active = a].active = a
      BY <2>3, <3>1
    <3>3. Placed(s, new, groups) = [s EXCEPT !.members = m, !.active = a]
      BY <2>4 DEF m, a
    <3>4. /\ Placed(s, new, groups) \in RuleStates
          /\ Placed(s, new, groups).members = m /\ Placed(s, new, groups).active = a
      BY <3>2, <3>3
    <3> QED BY <3>4 DEF m, a
  <2>6. \A b \in RuleStates : /\ [b EXCEPT !.respawn = t] \in RuleStates
                              /\ [b EXCEPT !.respawn = t].members = b.members
                              /\ [b EXCEPT !.respawn = t].active = b.active
                              /\ [b EXCEPT !.respawn = t].respawn = t
    BY DEF RuleStates
  <2> QED BY <2>5, <2>6
<1>7. /\ rule'[r] \in RuleStates /\ rule'[r].members = now.members \cup new
      /\ rule'[r].active = now.active + groups /\ rule'[r].respawn = t
      /\ \A q \in Rules \ {r} : rule'[q] = rule[q]
      /\ rule' \in [Rules -> RuleStates]
  BY <1>1, <1>2, <1>3, <1>6
<1>8. \A e \in Ids : ent'[e] = IF e \in new THEN MobBody(r) ELSE ent[e]
  BY <1>1 DEF Place
<1>9. \A e \in Ids : Sane(ent[e]) /\ ent[e] \in Bodies
  BY <1>0, <1>1, SaneBodies, BodyFields DEF UntilClaims, UntilRewards
<1>10. \A e \in Ids : Sane(ent'[e]) /\ ent'[e] \in Bodies
  BY <1>3, <1>8, <1>9, NewBodies
<1>11. ent' \in [Ids -> Bodies]
  <2>1. ent' = [e \in Ids |-> ent'[e]] BY <1>1 DEF Place
  <2> QED BY <1>10, <2>1
<1>12. heap' \subseteq Int \X Rules
  <2>1. heap \subseteq Int \X Rules BY <1>0, TypeParts
  <2>2. t # None => t \in Int OBVIOUS
  <2> QED BY <1>2, <1>3, <2>1, <2>2
<1>13. TypeOK' BY <1>0, <1>1, <1>7, <1>11, <1>12, TypeParts, TypesNext
<1>14. MortalInTick' /\ VictimsAreFresh' /\ ClaimsInTick'
  <2>1. depleted = <<>> BY <1>1 DEF LifeInv, VictimsAreFresh, BeforeAttacks
  <2>2. stage' \in Stages \ UntilRewards BY <1>1 DEF Stages, UntilClaims, UntilRewards
  <2> QED BY <1>1, <1>10, <2>1, <2>2, SaneStep
<1>15. SlotsAreReal'
  <2>1. \A q \in Rules : /\ rule[q].members = {e \in Ids : ent[e].kind = "mob" /\ ent[e].of = q}
                         /\ rule[q].active <= Cardinality(rule[q].members)
    BY DEF LifeInv, SlotsAreReal, IsMob
  <2>2. MobBody(r).kind = "mob" /\ MobBody(r).of = r BY <1>3, NewBodies
  <2>3. \A q \in Rules \ {r} : /\ rule'[q].members
                                     = {e \in Ids : ent'[e].kind = "mob" /\ ent'[e].of = q}
                               /\ rule'[q].active <= Cardinality(rule'[q].members)
    BY <1>4, <1>7, <1>8, <2>1, <2>2
  <2>4. rule'[r].members = {e \in Ids : ent'[e].kind = "mob" /\ ent'[e].of = r}
    <3>1. rule[r].members = {e \in Ids : ent[e].kind = "mob" /\ ent[e].of = r}
      BY <1>3, <2>1
    <3>2. \A e \in Ids : (ent'[e].kind = "mob" /\ ent'[e].of = r)
                            <=> e \in rule[r].members \cup new
      BY <1>8, <2>2, <3>1
    <3>3. rule'[r].members = rule[r].members \cup new BY <1>7 DEF now
    <3> QED BY <1>4, <3>1, <3>2, <3>3
  <2>5. rule'[r].active <= Cardinality(rule'[r].members)
    <3> DEFINE M == now.members
    <3>1. IsFiniteSet(M) /\ IsFiniteSet(new)
      <4>1. M \in SUBSET Ids /\ new \in SUBSET Ids BY <1>3, <1>4 DEF RuleStates
      <4> QED BY <4>1, FS_Subset, ActorLifeAssumption
    <3>2. M \cap new = {} BY <1>3, <1>4, <2>1 DEF now
    <3>3. Cardinality(M \cap new) = 0 BY <3>2, FS_EmptySet
    <3>4. Cardinality(M \cup new) = Cardinality(M) + size - 0
      BY <1>1, <3>1, <3>3, FS_Union DEF new
    <3>5. Cardinality(M) \in Nat BY <3>1, FS_CardinalityType
    <3>6. now.active \in Int /\ now.active <= Cardinality(M)
      BY <1>3, <2>1 DEF now, RuleStates
    <3>7. now.active + groups <= Cardinality(M) + size BY <1>5, <3>5, <3>6
    <3> QED BY <1>5, <1>7, <3>4, <3>5, <3>7
  <2>6. \A q \in Rules : /\ rule'[q].members
                               = {e \in Ids : ent'[e].kind = "mob" /\ ent'[e].of = q}
                         /\ rule'[q].active <= Cardinality(rule'[q].members)
    BY <2>3, <2>4, <2>5
  <2> QED BY <2>6 DEF SlotsAreReal, IsMob
<1>16. WaitsAreScheduled'
  <2> SUFFICES ASSUME NEW q \in Rules, rule'[q].respawn # None
               PROVE  <<rule'[q].respawn, q>> \in heap'
    BY DEF WaitsAreScheduled
  <2>1. CASE q = r BY <1>2, <1>7, <2>1
  <2>2. CASE q # r
    <3>1. rule'[q] = rule[q] /\ q # h[2] BY <1>7, <2>2 DEF r
    <3>2. <<rule'[q].respawn, q>> \in heap \ {h} BY <3>1, OtherEntries
    <3> QED BY <1>2, <3>2
  <2> QED BY <2>1, <2>2
<1> QED BY <1>13, <1>14, <1>15, <1>16 DEF LifeInv

-----------------------------------------------------------------------------
(* Attacks.                                                                *)

\* The phases of life change nothing else of a body.
LEMMA PhasesOfLife ==
    ASSUME NEW b \in Bodies
    PROVE  /\ DeathPhase(b) \in Bodies /\ DeathPhase(b).phase = "Dead"
           /\ DeathPhase(b).kind = b.kind /\ DeathPhase(b).of = b.of
           /\ DeathPhase(b).claim = b.claim /\ DeathPhase(b).slayer = b.slayer
           /\ BeginDying(b) \in Bodies /\ BeginDying(b).phase = "Dying"
           /\ BeginDying(b).kind = b.kind /\ BeginDying(b).of = b.of
           /\ BeginDying(b).claim = b.claim /\ BeginDying(b).slayer = b.slayer
<1>1. 0 \in 0 .. LastAge BY LifeNumbers
<1>2. /\ DeathPhase(b) \in Bodies /\ DeathPhase(b).phase = "Dead"
      /\ DeathPhase(b).kind = b.kind /\ DeathPhase(b).of = b.of
      /\ DeathPhase(b).claim = b.claim /\ DeathPhase(b).slayer = b.slayer
  BY <1>1 DEF DeathPhase, Bodies
<1>3. /\ BeginDying(b) \in Bodies /\ BeginDying(b).phase = "Dying"
      /\ BeginDying(b).kind = b.kind /\ BeginDying(b).of = b.of
      /\ BeginDying(b).claim = b.claim /\ BeginDying(b).slayer = b.slayer
  BY <1>1 DEF BeginDying, Bodies
<1> QED BY <1>2, <1>3

\* The next command of the buffer.
LEMMA NextCommand ==
    ASSUME TypeOK, cmds # <<>>
    PROVE  Head(cmds).by \in Ids /\ Head(cmds).on \in Ids /\ Tail(cmds) \in Seq(Commands)
<1>1. cmds \in Seq(Commands) BY TypeParts
<1>2. Head(cmds) \in Commands /\ Tail(cmds) \in Seq(Commands) BY <1>1
<1> QED BY <1>2 DEF Commands

\* The names in the report of a kill.
LEMMA DepletionFields ==
    ASSUME TypeOK, NEW i \in DOMAIN depleted
    PROVE  depleted[i].victim \in Ids /\ depleted[i].killer \in Ids
<1>1. depleted \in Seq(Depletions) BY TypeParts
<1>2. depleted[i] \in Depletions BY <1>1
<1> QED BY <1>2 DEF Depletions

\* Growing a sequence of names keeps the old ones.
LEMMA Grows ==
    ASSUME NEW S, NEW s \in Seq(S), NEW x \in S
    PROVE  /\ Append(s, x) \in Seq(S)
           /\ DOMAIN Append(s, x) = DOMAIN s \cup {Len(s) + 1}
           /\ Len(s) + 1 \notin DOMAIN s
           /\ Append(s, x)[Len(s) + 1] = x
           /\ \A i \in DOMAIN s : Append(s, x)[i] = s[i]
OBVIOUS

\* A hit ends a dying victim: nothing but its phase changes, and it is named.
LEMMA AttackFinalizesLife ==
    ASSUME LifeInv, AttackFinalizes PROVE LifeInv'
<1>0. TypeOK BY DEF LifeInv
<1> DEFINE v == Head(cmds).on
<1>1. /\ stage = "attack" /\ stage' = stage /\ world' = world /\ cmds' = Tail(cmds)
      /\ delayed' = delayed /\ depleted' = depleted /\ cleanup' = cleanup
      /\ rule' = rule /\ heap' = heap /\ cmds # <<>>
      /\ ent' = [ent EXCEPT ![v] = DeathPhase(ent[v])] /\ finalized' = Append(finalized, v)
      /\ IsDying(v)
  BY DEF AttackFinalizes, Finalizes, spawns
<1>2. v \in Ids /\ cmds' \in Seq(Commands) BY <1>0, <1>1, NextCommand
<1> HIDE DEF v
<1>3. ent \in [Ids -> Bodies] /\ finalized \in Seq(Ids) BY <1>0, TypeParts
<1>4. /\ ent'[v] \in Bodies /\ ent'[v].phase = "Dead" /\ ent'[v].kind = ent[v].kind
      /\ ent'[v].of = ent[v].of
      /\ ent'[v].claim = ent[v].claim /\ ent'[v].slayer = ent[v].slayer
      /\ \A e \in Ids \ {v} : ent'[e] = ent[e]
  <2>1. ent[v] \in Bodies BY <1>2, <1>3
  <2>2. ent'[v] = DeathPhase(ent[v]) /\ \A e \in Ids \ {v} : ent'[e] = ent[e]
    BY <1>1, <1>2, <1>3
  <2> QED BY <2>1, <2>2, PhasesOfLife
<1>5. ent' \in [Ids -> Bodies] BY <1>1, <1>2, <1>3, <1>4
<1>6. /\ finalized' \in Seq(Ids)
      /\ \E i \in DOMAIN finalized' : finalized'[i] = v
      /\ \A i \in DOMAIN finalized : i \in DOMAIN finalized' /\ finalized'[i] = finalized[i]
  BY <1>1, <1>2, <1>3, Grows
<1>7. TypeOK' BY <1>0, <1>1, <1>2, <1>5, <1>6, TypeParts, TypesNext
<1>8. MortalInTick'
  <2> SUFFICES ASSUME NEW e \in Ids, Exists(e)', IsAlive(e)', ent'[e].hp = 0
               PROVE  stage' \in {"attack", "life"}
                      /\ \E i \in DOMAIN depleted' : depleted'[i].victim = e
    BY DEF MortalInTick
  <2>1. e # v BY <1>4 DEF IsAlive
  <2>2. ent'[e] = ent[e] BY <1>4, <2>1
  <2> QED BY <1>1, <2>2 DEF LifeInv, MortalInTick, Exists, IsAlive
<1>9. VictimsAreFresh'
  <2>1. \A i \in DOMAIN depleted : /\ depleted[i].victim \in Ids
                                   /\ depleted[i].victim # v
    <3>1. \A i \in DOMAIN depleted : depleted[i].victim \in Ids
      BY <1>0, DepletionFields
    <3>2. \A i \in DOMAIN depleted : IsAlive(depleted[i].victim)
      BY <1>1 DEF LifeInv, VictimsAreFresh, UntilClaims
    <3> QED BY <1>1, <3>1, <3>2 DEF IsAlive, IsDying
  <2>2. \A i \in DOMAIN depleted : ent'[depleted[i].victim] = ent[depleted[i].victim]
    BY <1>4, <2>1
  <2> QED BY <1>1, <2>2 DEF LifeInv, VictimsAreFresh, Exists, IsAlive, IsMob, IsDying,
                            BeforeAttacks, UntilClaims
<1>10. ClaimsInTick'
  <2> SUFFICES ASSUME NEW e \in Ids, ent'[e].claim # None
               PROVE  /\ IsMob(e)' /\ ent'[e].claim = ent'[e].slayer
                      /\ \/ IsDying(e)'
                         \/ /\ IsDead(e)' /\ stage' \in UntilRewards
                            /\ \E i \in DOMAIN finalized' : finalized'[i] = e
    BY DEF ClaimsInTick
  <2>1. ent[e].claim # None BY <1>4
  <2>2. /\ IsMob(e) /\ ent[e].claim = ent[e].slayer
        /\ \/ IsDying(e)
           \/ IsDead(e) /\ \E i \in DOMAIN finalized : finalized[i] = e
    BY <2>1 DEF LifeInv, ClaimsInTick
  <2>3. stage' \in UntilRewards BY <1>1 DEF UntilRewards, UntilClaims
  <2>4. CASE e = v BY <1>4, <1>6, <2>2, <2>3, <2>4 DEF IsMob, IsDead
  <2>5. CASE e # v
    <3>1. ent'[e] = ent[e] BY <1>4, <2>5
    <3> QED BY <1>6, <2>2, <2>3, <3>1 DEF IsMob, IsDead, IsDying
  <2> QED BY <2>4, <2>5
<1>11. SlotsAreReal' BY <1>1, <1>2, <1>4, SameMobs
<1>12. WaitsAreScheduled' BY <1>1, SameSpawns
<1> QED BY <1>7, <1>8, <1>9, <1>10, <1>11, <1>12 DEF LifeInv

\* A hit takes hit points. The one that takes the last is reported, and only
\* that one; a victim that has none left is struck without consequence.
LEMMA AttackHitsLife ==
    ASSUME LifeInv, NEW damage \in Damages, AttackHits(damage) PROVE LifeInv'
<1>0. TypeOK BY DEF LifeInv
<1> DEFINE v == Head(cmds).on
           k == Head(cmds).by
           before == ent[v].hp
           after == Damaged(before, damage)
           kills == before > 0 /\ after <= 0
<1>1. /\ stage = "attack" /\ stage' = stage /\ world' = world /\ cmds' = Tail(cmds)
      /\ delayed' = delayed /\ finalized' = finalized /\ cleanup' = cleanup
      /\ rule' = rule /\ heap' = heap /\ cmds # <<>>
      /\ Exists(v) /\ IsAlive(v)
      /\ ent' = [ent EXCEPT ![v].hp = after,
                            ![v].slayer = IF IsMob(v) /\ kills THEN k ELSE @]
      /\ depleted' = IF kills THEN Append(depleted, [victim |-> v, killer |-> k])
                     ELSE depleted
  BY DEF AttackHits, Lands, BothExist, Killed, spawns
<1>2. v \in Ids /\ k \in Ids /\ cmds' \in Seq(Commands) BY <1>0, <1>1, NextCommand
<1>3. before \in 0 .. MaxHp /\ after \in 0 .. MaxHp /\ (before = 0 => after = 0)
  <2>1. before \in 0 .. MaxHp BY <1>0, <1>2, BodyFields
  <2>2. damage \in Nat /\ MaxHp \in Nat BY LifeNumbers
  <2> QED BY <2>1, <2>2 DEF Damaged, AtLeast0
<1>4. kills <=> before # 0 /\ after = 0 BY <1>3
<1> HIDE DEF v, k, after
<1>5. ent \in [Ids -> Bodies] /\ depleted \in Seq(Depletions) BY <1>0, TypeParts
<1>6. /\ ent'[v] \in Bodies /\ ent'[v].hp = after /\ ent'[v].kind = ent[v].kind
      /\ ent'[v].of = ent[v].of /\ ent'[v].phase = ent[v].phase
      /\ ent'[v].claim = ent[v].claim
      /\ ent'[v].slayer = IF IsMob(v) /\ kills THEN k ELSE ent[v].slayer
      /\ \A e \in Ids \ {v} : ent'[e] = ent[e]
      /\ ent' \in [Ids -> Bodies]
  <2> DEFINE s == IF IsMob(v) /\ kills THEN k ELSE ent[v].slayer
  <2>1. s \in Ids \cup {None} BY <1>0, <1>2, BodyFields
  <2>2. ent[v] \in Bodies BY <1>2, <1>5
  <2>3. ent' = [ent EXCEPT ![v] = [ent[v] EXCEPT !.hp = after, !.slayer = s]]
    BY <1>1, <1>2, <1>5
  <2> HIDE DEF s
  <2>4. ASSUME NEW b \in Bodies
        PROVE  /\ [b EXCEPT !.hp = after, !.slayer = s] \in Bodies
               /\ [b EXCEPT !.hp = after, !.slayer = s].hp = after
               /\ [b EXCEPT !.hp = after, !.slayer = s].kind = b.kind
               /\ [b EXCEPT !.hp = after, !.slayer = s].of = b.of
               /\ [b EXCEPT !.hp = after, !.slayer = s].phase = b.phase
               /\ [b EXCEPT !.hp = after, !.slayer = s].claim = b.claim
               /\ [b EXCEPT !.hp = after, !.slayer = s].slayer = s
    BY <1>3, <2>1 DEF Bodies
  <2>5. /\ ent'[v] = [ent[v] EXCEPT !.hp = after, !.slayer = s]
        /\ \A e \in Ids \ {v} : ent'[e] = ent[e]
    BY <1>2, <1>5, <2>3
  <2>6. /\ ent'[v] \in Bodies /\ ent'[v].hp = after /\ ent'[v].kind = ent[v].kind
        /\ ent'[v].of = ent[v].of /\ ent'[v].phase = ent[v].phase
        /\ ent'[v].claim = ent[v].claim /\ ent'[v].slayer = s
    BY <2>2, <2>4, <2>5
  <2>7. ent' \in [Ids -> Bodies] BY <1>2, <1>5, <2>3, <2>5, <2>6
  <2> QED BY <2>5, <2>6, <2>7 DEF s
<1> DEFINE blow == [victim |-> v, killer |-> k]
<1>7. /\ depleted' \in Seq(Depletions)
      /\ \A i \in DOMAIN depleted : i \in DOMAIN depleted' /\ depleted'[i] = depleted[i]
      /\ \A i \in DOMAIN depleted' : i \in DOMAIN depleted \/ (kills /\ i = Len(depleted) + 1)
      /\ kills => /\ Len(depleted) + 1 \in DOMAIN depleted'
                  /\ depleted'[Len(depleted) + 1] = blow
  <2>1. blow \in Depletions BY <1>2 DEF Depletions
  <2> QED BY <1>1, <1>5, <2>1, Grows
<1>8. blow.victim = v /\ blow.killer = k OBVIOUS
<1> HIDE DEF blow, kills, before
<1>9. TypeOK' BY <1>0, <1>1, <1>2, <1>6, <1>7, TypeParts, TypesNext
<1>10. \A i \in DOMAIN depleted :
         /\ depleted[i].victim \in Ids /\ Exists(depleted[i].victim)
         /\ IsAlive(depleted[i].victim) /\ ent[depleted[i].victim].hp = 0
         /\ IsMob(depleted[i].victim) => ent[depleted[i].victim].slayer = depleted[i].killer
         /\ \A j \in DOMAIN depleted : depleted[j].victim = depleted[i].victim => i = j
  <2>1. \A i \in DOMAIN depleted : depleted[i].victim \in Ids BY <1>0, DepletionFields
  <2> QED BY <1>1, <2>1 DEF LifeInv, VictimsAreFresh, UntilClaims
<1>11. MortalInTick'
  <2> SUFFICES ASSUME NEW e \in Ids, Exists(e)', IsAlive(e)', ent'[e].hp = 0
               PROVE  stage' \in {"attack", "life"}
                      /\ \E i \in DOMAIN depleted' : depleted'[i].victim = e
    BY DEF MortalInTick
  <2>1. CASE e # v
    <3>1. ent'[e] = ent[e] BY <1>6, <2>1
    <3>2. PICK i \in DOMAIN depleted : depleted[i].victim = e
      BY <3>1 DEF LifeInv, MortalInTick, Exists, IsAlive
    <3> QED BY <1>1, <1>7, <3>2
  <2>2. CASE e = v /\ kills BY <1>1, <1>7, <1>8, <2>2
  <2>3. CASE e = v /\ ~kills
    <3>1. ent[v].hp = 0 BY <1>4, <1>6, <2>3 DEF before
    <3>2. PICK i \in DOMAIN depleted : depleted[i].victim = v
      BY <1>1, <1>2, <3>1 DEF LifeInv, MortalInTick
    <3> QED BY <1>1, <1>7, <2>3, <3>2
  <2> QED BY <2>1, <2>2, <2>3
<1>12. VictimsAreFresh'
  <2>1. ASSUME NEW i \in DOMAIN depleted
        PROVE  /\ ent'[depleted[i].victim].kind # "none" /\ ent'[depleted[i].victim].phase = "Alive"
               /\ ent'[depleted[i].victim].hp = 0
               /\ ent'[depleted[i].victim].kind = "mob"
                     => ent'[depleted[i].victim].slayer = depleted[i].killer
               /\ kills => depleted[i].victim # v
    <3>1. kills => depleted[i].victim # v BY <1>4, <1>10 DEF before
    <3>2. CASE depleted[i].victim = v
      <4>1. after = 0 /\ ~kills BY <1>3, <1>10, <3>1, <3>2 DEF before
      <4> QED BY <1>6, <1>10, <3>1, <3>2, <4>1 DEF Exists, IsAlive, IsMob
    <3>3. CASE depleted[i].victim # v
      <4>1. ent'[depleted[i].victim] = ent[depleted[i].victim] BY <1>6, <1>10, <3>3
      <4> QED BY <1>10, <3>3, <4>1 DEF Exists, IsAlive, IsMob
    <3> QED BY <3>2, <3>3
  <2>2. kills => /\ ent'[v].kind # "none" /\ ent'[v].phase = "Alive" /\ ent'[v].hp = 0
                 /\ ent'[v].kind = "mob" => ent'[v].slayer = k
    BY <1>1, <1>4, <1>6 DEF Exists, IsAlive, IsMob
  <2>3. ASSUME NEW i \in DOMAIN depleted'
        PROVE  /\ ent'[depleted'[i].victim].kind # "none"
               /\ ent'[depleted'[i].victim].phase = "Alive"
               /\ ent'[depleted'[i].victim].hp = 0
               /\ ent'[depleted'[i].victim].kind = "mob"
                     => ent'[depleted'[i].victim].slayer = depleted'[i].killer
               /\ \A j \in DOMAIN depleted' : depleted'[j].victim = depleted'[i].victim => i = j
    <3>1. CASE i \in DOMAIN depleted
      <4>1. depleted'[i] = depleted[i] BY <1>7, <3>1
      <4>2. \A j \in DOMAIN depleted' : depleted'[j].victim = depleted'[i].victim => i = j
        BY <1>7, <1>8, <1>10, <2>1, <3>1, <4>1
      <4> QED BY <2>1, <3>1, <4>1, <4>2
    <3>2. CASE kills /\ i = Len(depleted) + 1
      <4>1. depleted'[i].victim = v /\ depleted'[i].killer = k BY <1>7, <1>8, <3>2
      <4>2. \A j \in DOMAIN depleted' : depleted'[j].victim = v => i = j
        BY <1>7, <2>1, <3>2
      <4> QED BY <2>2, <3>2, <4>1, <4>2
    <3> QED BY <1>7, <3>1, <3>2
  <2> QED BY <1>1, <2>3 DEF VictimsAreFresh, BeforeAttacks, Exists, IsAlive, IsMob
<1>13. ClaimsInTick'
  <2>1. ent[v].claim = None BY <1>1, <1>2 DEF LifeInv, ClaimsInTick, IsAlive, IsDying, IsDead
  <2>2. \A e \in Ids : ent'[e].claim # None => ent'[e] = ent[e] /\ ent[e].claim # None
    BY <1>6, <2>1
  <2> SUFFICES ASSUME NEW e \in Ids, ent'[e].claim # None
               PROVE  /\ IsMob(e)' /\ ent'[e].claim = ent'[e].slayer
                      /\ \/ IsDying(e)'
                         \/ /\ IsDead(e)' /\ stage' \in UntilRewards
                            /\ \E i \in DOMAIN finalized' : finalized'[i] = e
    BY DEF ClaimsInTick
  <2>3. ent'[e] = ent[e] /\ ent[e].claim # None BY <2>2
  <2> QED BY <1>1, <2>3 DEF LifeInv, ClaimsInTick, IsMob, IsDying, IsDead
<1>14. SlotsAreReal' BY <1>1, <1>2, <1>6, SameMobs
<1>15. WaitsAreScheduled' BY <1>1, SameSpawns
<1> QED BY <1>9, <1>11, <1>12, <1>13, <1>14, <1>15 DEF LifeInv

-----------------------------------------------------------------------------
(* The life cycle.                                                         *)

\* The victims of the tick begin to die, all of them and nobody else.
LEMMA ProcessLifeEventsLife ==
    ASSUME LifeInv, ProcessLifeEvents PROVE LifeInv'
<1>0. TypeOK BY DEF LifeInv
<1>1. /\ stage = "life" /\ stage' = "claims" /\ world' = world /\ cmds' = cmds
      /\ delayed' = delayed /\ depleted' = depleted /\ finalized' = finalized
      /\ cleanup' = cleanup /\ rule' = rule /\ heap' = heap
      /\ ent' = [e \in Ids |-> IF e \in Victims /\ Exists(e) /\ IsAlive(e)
                               THEN BeginDying(ent[e]) ELSE ent[e]]
  BY Succession DEF ProcessLifeEvents, Pass, facts, spawns
<1>2. \A e \in Ids : ent[e] \in Bodies BY <1>0, BodyFields
<1>3. \A e \in Ids :
        /\ ent'[e] \in Bodies /\ ent'[e].kind = ent[e].kind /\ ent'[e].of = ent[e].of
        /\ ent'[e].claim = ent[e].claim /\ ent'[e].slayer = ent[e].slayer
        /\ e \in Victims /\ Exists(e) /\ IsAlive(e) => ent'[e].phase = "Dying"
        /\ ~(e \in Victims /\ Exists(e) /\ IsAlive(e)) => ent'[e] = ent[e]
  BY <1>1, <1>2, PhasesOfLife
<1>4. ent' \in [Ids -> Bodies] BY <1>1, <1>3
<1>5. TypeOK' BY <1>0, <1>1, <1>4, TypeParts, TypesNext DEF Stages
<1>6. MortalInTick'
  <2> SUFFICES ASSUME NEW e \in Ids, ent'[e].kind # "none", ent'[e].phase = "Alive",
                      ent'[e].hp = 0
               PROVE  FALSE
    BY DEF MortalInTick, Exists, IsAlive
  <2>1. ent'[e] = ent[e] BY <1>3
  <2>2. Exists(e) /\ IsAlive(e) /\ ent[e].hp = 0 BY <2>1 DEF Exists, IsAlive
  <2>3. PICK i \in DOMAIN depleted : depleted[i].victim = e
    BY <2>2 DEF LifeInv, MortalInTick
  <2>4. e \in Victims BY <2>3 DEF Victims
  <2>5. ent'[e].phase = "Dying" BY <1>3, <2>2, <2>4
  <2> QED BY <2>5
<1>7. VictimsAreFresh'
  <2>1. ASSUME NEW i \in DOMAIN depleted
        PROVE  /\ ent'[depleted[i].victim].kind # "none"
               /\ ent'[depleted[i].victim].phase = "Dying"
               /\ ent'[depleted[i].victim].kind = "mob"
                     => ent'[depleted[i].victim].slayer = depleted[i].killer
               /\ \A j \in DOMAIN depleted : depleted[j].victim = depleted[i].victim => i = j
    <3>1. depleted[i].victim \in Ids /\ depleted[i].victim \in Victims
      BY <1>0, DepletionFields DEF Victims
    <3>2. /\ Exists(depleted[i].victim) /\ IsAlive(depleted[i].victim)
          /\ IsMob(depleted[i].victim)
                => ent[depleted[i].victim].slayer = depleted[i].killer
          /\ \A j \in DOMAIN depleted : depleted[j].victim = depleted[i].victim => i = j
      BY <1>1 DEF LifeInv, VictimsAreFresh, UntilClaims
    <3> QED BY <1>3, <3>1, <3>2 DEF Exists, IsMob
  <2> QED BY <1>1, <2>1 DEF VictimsAreFresh, BeforeAttacks, Exists, IsMob, IsDying
<1>8. ClaimsInTick'
  <2> SUFFICES ASSUME NEW e \in Ids, ent'[e].claim # None
               PROVE  /\ ent'[e].kind = "mob" /\ ent'[e].claim = ent'[e].slayer
                      /\ \/ ent'[e].phase = "Dying"
                         \/ /\ ent'[e].phase = "Dead"
                            /\ \E i \in DOMAIN finalized : finalized[i] = e
    BY <1>1 DEF ClaimsInTick, IsMob, IsDying, IsDead, UntilRewards, UntilClaims
  <2> QED BY <1>3 DEF LifeInv, ClaimsInTick, IsMob, IsDying, IsDead
<1>9. SlotsAreReal' BY <1>1, <1>3, SameMobs
<1>10. WaitsAreScheduled' BY <1>1, SameSpawns
<1> QED BY <1>5, <1>6, <1>7, <1>8, <1>9, <1>10 DEF LifeInv

\* The claim to a mob's reward goes to the one who is its slayer.
LEMMA RecordClaimsLife ==
    ASSUME LifeInv, RecordMobDeathRewardClaims PROVE LifeInv'
<1>0. TypeOK BY DEF LifeInv
<1> DEFINE C(e) == depleted[CHOOSE i \in Claimants(e) :
                              \A j \in Claimants(e) : j <= i].killer
<1>1. /\ stage = "claims" /\ stage' = "lifecycle" /\ world' = world /\ cmds' = cmds
      /\ delayed' = delayed /\ depleted' = depleted /\ finalized' = finalized
      /\ cleanup' = cleanup /\ rule' = rule /\ heap' = heap
      /\ ent' = [e \in Ids |-> IF IsMob(e) /\ Claimants(e) # {}
                               THEN [ent[e] EXCEPT !.claim = C(e)] ELSE ent[e]]
  BY Succession DEF RecordMobDeathRewardClaims, Pass, facts, spawns
<1>2. \A e \in Ids : ent[e] \in Bodies BY <1>0, BodyFields
<1>3. ASSUME NEW e \in Ids, IsMob(e), Claimants(e) # {}
      PROVE  C(e) \in Ids /\ C(e) = ent[e].slayer /\ ent[e].phase = "Dying"
  <2>1. PICK i \in Claimants(e) : TRUE BY <1>3
  <2>2. i \in DOMAIN depleted /\ depleted[i].victim = e BY <2>1 DEF Claimants
  <2>3. /\ IsDying(e) /\ ent[e].slayer = depleted[i].killer
        /\ \A j \in DOMAIN depleted : depleted[j].victim = e => i = j
    BY <1>1, <1>3, <2>2 DEF LifeInv, VictimsAreFresh, UntilClaims
  <2>4. Claimants(e) = {i} BY <2>1, <2>3 DEF Claimants
  <2>5. i \in Int
    <3>1. depleted \in Seq(Depletions) BY <1>0, TypeParts
    <3>2. DOMAIN depleted = 1 .. Len(depleted) /\ Len(depleted) \in Nat BY <3>1
    <3> QED BY <2>2, <3>2
  <2>6. (CHOOSE x \in Claimants(e) : \A j \in Claimants(e) : j <= x) = i
    BY <2>4, <2>5
  <2>7. depleted[i].killer \in Ids BY <1>0, <2>2, DepletionFields
  <2> QED BY <2>3, <2>6, <2>7 DEF IsDying
<1> HIDE DEF C
<1>4. \A e \in Ids :
        /\ ent'[e] \in Bodies /\ ent'[e].kind = ent[e].kind /\ ent'[e].of = ent[e].of
        /\ ent'[e].slayer = ent[e].slayer /\ ent'[e].phase = ent[e].phase
        /\ ent'[e].hp = ent[e].hp
        /\ \/ ent'[e].claim = ent[e].claim
           \/ /\ ent[e].kind = "mob" /\ ent'[e].claim = ent[e].slayer
              /\ ent[e].phase = "Dying"
  <2>1. ASSUME NEW b \in Bodies, NEW c \in Ids
        PROVE  /\ [b EXCEPT !.claim = c] \in Bodies /\ [b EXCEPT !.claim = c].kind = b.kind
               /\ [b EXCEPT !.claim = c].of = b.of /\ [b EXCEPT !.claim = c].slayer = b.slayer
               /\ [b EXCEPT !.claim = c].phase = b.phase /\ [b EXCEPT !.claim = c].hp = b.hp
               /\ [b EXCEPT !.claim = c].claim = c
    BY DEF Bodies
  <2> SUFFICES ASSUME NEW e \in Ids
               PROVE  /\ ent'[e] \in Bodies /\ ent'[e].kind = ent[e].kind
                      /\ ent'[e].of = ent[e].of /\ ent'[e].slayer = ent[e].slayer
                      /\ ent'[e].phase = ent[e].phase /\ ent'[e].hp = ent[e].hp
                      /\ \/ ent'[e].claim = ent[e].claim
                         \/ /\ ent[e].kind = "mob" /\ ent'[e].claim = ent[e].slayer
                            /\ ent[e].phase = "Dying"
    OBVIOUS
  <2>2. CASE IsMob(e) /\ Claimants(e) # {}
    <3>1. C(e) \in Ids /\ C(e) = ent[e].slayer /\ ent[e].phase = "Dying" BY <1>3, <2>2
    <3>2. ent'[e] = [ent[e] EXCEPT !.claim = C(e)] BY <1>1, <2>2
    <3> QED BY <1>2, <2>1, <2>2, <3>1, <3>2 DEF IsMob
  <2>3. CASE ~(IsMob(e) /\ Claimants(e) # {})
    <3>1. ent'[e] = ent[e] BY <1>1, <2>3
    <3> QED BY <1>2, <3>1
  <2> QED BY <2>2, <2>3
<1>5. ent' \in [Ids -> Bodies] BY <1>1, <1>4
<1>6. TypeOK' BY <1>0, <1>1, <1>5, TypeParts, TypesNext DEF Stages
<1>7. MortalInTick' BY <1>1, <1>4 DEF LifeInv, MortalInTick, Exists, IsAlive
<1>8. VictimsAreFresh' BY <1>1 DEF VictimsAreFresh, BeforeAttacks, UntilClaims
<1>9. ClaimsInTick'
  <2> SUFFICES ASSUME NEW e \in Ids, ent'[e].claim # None
               PROVE  /\ ent'[e].kind = "mob" /\ ent'[e].claim = ent'[e].slayer
                      /\ \/ ent'[e].phase = "Dying"
                         \/ /\ ent'[e].phase = "Dead"
                            /\ \E i \in DOMAIN finalized : finalized[i] = e
    BY <1>1 DEF ClaimsInTick, IsMob, IsDying, IsDead, UntilRewards
  <2> QED BY <1>4 DEF LifeInv, ClaimsInTick, IsMob, IsDying, IsDead
<1>10. SlotsAreReal' BY <1>1, <1>4, SameMobs
<1>11. WaitsAreScheduled' BY <1>1, SameSpawns
<1> QED BY <1>6, <1>7, <1>8, <1>9, <1>10, <1>11 DEF LifeInv

\* A list of n different members of a set of n names them all.
LEMMA ListsAll ==
    ASSUME NEW S, IsFiniteSet(S), S \subseteq Nat, NEW f \in [1 .. Cardinality(S) -> S],
           \A i, j \in DOMAIN f : i < j => f[i] < f[j]
    PROVE  \A x \in S : \E i \in DOMAIN f : f[i] = x
<1> DEFINE n == Cardinality(S)
<1>1. n \in Nat BY FS_CardinalityType
<1>2. IsFiniteSet(1 .. n) /\ Cardinality(1 .. n) = n BY <1>1, FS_Interval
<1> HIDE DEF n
<1>3. f \in [1 .. n -> S] BY DEF n
<1>4. ASSUME NEW i \in 1 .. n, NEW j \in 1 .. n, f[i] = f[j] PROVE i = j
  <2>1. f[i] \in Nat /\ f[j] \in Nat BY <1>3
  <2>2. DOMAIN f = 1 .. n BY <1>3
  <2>3. i < j => f[i] < f[j] BY <2>2
  <2>4. j < i => f[j] < f[i] BY <2>2
  <2> QED BY <1>1, <1>4, <2>1, <2>3, <2>4
<1> SUFFICES ASSUME NEW x \in S, \A i \in 1 .. n : f[i] # x PROVE FALSE
  BY <1>3
<1>5. IsFiniteSet(S \ {x}) /\ Cardinality(S \ {x}) = n - 1
  BY FS_RemoveElement DEF n
<1>6. f \in [1 .. n -> S \ {x}] BY <1>3
<1>7. Cardinality(S \ {x}) < Cardinality(1 .. n) BY <1>1, <1>2, <1>5
<1>8. \E i, j \in 1 .. n : i # j /\ f[i] = f[j]
  <2> DEFINE A == 1 .. n
             B == S \ {x}
  <2>1. /\ IsFiniteSet(A) /\ IsFiniteSet(B) /\ Cardinality(B) < Cardinality(A)
        /\ f \in [A -> B]
    BY <1>2, <1>5, <1>6, <1>7
  <2> HIDE DEF A, B
  <2>2. \E i, j \in A : i # j /\ f[i] = f[j] BY <2>1, FS_PigeonHole
  <2> QED BY <2>2 DEF A
<1> QED BY <1>4, <1>8

\* The sequence l is t after s, element by element.
Lists(l, s, t) ==
    /\ \A i \in DOMAIN s : i \in DOMAIN l /\ l[i] = s[i]
    /\ \A i \in DOMAIN t : Len(s) + i \in DOMAIN l /\ l[Len(s) + i] = t[i]

\* Joining sequences keeps what is in both.
LEMMA Joined ==
    ASSUME NEW S, NEW s \in Seq(S), NEW t \in Seq(S)
    PROVE  s \o t \in Seq(S) /\ Lists(s \o t, s, t)
<1>1. /\ s \o t \in Seq(S) /\ Len(s \o t) = Len(s) + Len(t)
      /\ Len(s) \in Nat /\ Len(t) \in Nat
  OBVIOUS
<1>2. /\ DOMAIN s = 1 .. Len(s) /\ DOMAIN t = 1 .. Len(t)
      /\ DOMAIN (s \o t) = 1 .. Len(s) + Len(t)
  BY <1>1
<1>3. \A i \in 1 .. Len(s) + Len(t) :
         (s \o t)[i] = IF i <= Len(s) THEN s[i] ELSE t[i - Len(s)]
  OBVIOUS
<1>4. ASSUME NEW i \in DOMAIN s PROVE i \in DOMAIN (s \o t) /\ (s \o t)[i] = s[i]
  <2>1. i \in 1 .. Len(s) + Len(t) /\ i <= Len(s) BY <1>1, <1>2
  <2> QED BY <1>2, <1>3, <2>1
<1>5. ASSUME NEW i \in DOMAIN t
      PROVE  Len(s) + i \in DOMAIN (s \o t) /\ (s \o t)[Len(s) + i] = t[i]
  <2>1. /\ Len(s) + i \in 1 .. Len(s) + Len(t) /\ ~(Len(s) + i <= Len(s))
        /\ (Len(s) + i) - Len(s) = i
    BY <1>1, <1>2
  <2> QED BY <1>2, <1>3, <2>1
<1> QED BY <1>1, <1>4, <1>5 DEF Lists

\* Whoever has been dying long enough is dead and is named.
LEMMA ProcessActorLifecycleLife ==
    ASSUME LifeInv, ProcessActorLifecycle PROVE LifeInv'
<1>0. TypeOK BY DEF LifeInv
<1>1. PICK order :
         /\ order \in [1 .. Cardinality(NewlyDead) -> NewlyDead]
         /\ \A i, j \in DOMAIN order : i < j => order[i] < order[j]
         /\ finalized' = finalized \o order
  BY DEF ProcessActorLifecycle
<1>2. /\ stage = "lifecycle" /\ stage' = "restarts" /\ world' = world /\ cmds' = cmds
      /\ delayed' = delayed /\ depleted' = depleted /\ cleanup' = CleanupDue
      /\ rule' = rule /\ heap' = heap
      /\ ent' = [e \in Ids |-> IF e \in NewlyDead THEN DeathPhase(ent[e]) ELSE ent[e]]
  BY Succession DEF ProcessActorLifecycle, Pass, spawns
<1>3. NewlyDead \subseteq Ids /\ IsFiniteSet(NewlyDead) /\ NewlyDead \subseteq Nat
  <2>1. NewlyDead \in SUBSET Ids BY DEF NewlyDead
  <2> QED BY <2>1, FS_Subset, ActorLifeAssumption
<1>4. \A e \in NewlyDead : \E i \in DOMAIN order : order[i] = e
  BY <1>1, <1>3, ListsAll
<1>5. order \in Seq(Ids)
  <2>1. Cardinality(NewlyDead) \in Nat BY <1>3, FS_CardinalityType
  <2>2. order \in [1 .. Cardinality(NewlyDead) -> Ids] BY <1>1, <1>3
  <2> QED BY <2>1, <2>2
<1>6. finalized \in Seq(Ids) BY <1>0, TypeParts
<1>7. /\ finalized' \in Seq(Ids)
      /\ \A i \in DOMAIN finalized : i \in DOMAIN finalized' /\ finalized'[i] = finalized[i]
      /\ \A i \in DOMAIN order : /\ Len(finalized) + i \in DOMAIN finalized'
                                 /\ finalized'[Len(finalized) + i] = order[i]
  <2>1. finalized' = finalized \o order BY <1>1
  <2>2. finalized' \in Seq(Ids) /\ Lists(finalized', finalized, order)
    BY <1>5, <1>6, <2>1, Joined
  <2> QED BY <2>2 DEF Lists
<1>8. \A e \in NewlyDead : \E i \in DOMAIN finalized' : finalized'[i] = e
  <2> SUFFICES ASSUME NEW e \in NewlyDead
               PROVE  \E i \in DOMAIN finalized' : finalized'[i] = e
    OBVIOUS
  <2>1. PICK i \in DOMAIN order : order[i] = e BY <1>4
  <2> QED BY <1>7, <2>1
<1>9. \A e \in Ids : ent[e] \in Bodies BY <1>0, BodyFields
<1>10. \A e \in Ids :
        /\ ent'[e] \in Bodies /\ ent'[e].kind = ent[e].kind /\ ent'[e].of = ent[e].of
        /\ ent'[e].claim = ent[e].claim /\ ent'[e].slayer = ent[e].slayer
        /\ e \in NewlyDead => ent'[e].phase = "Dead"
        /\ e \notin NewlyDead => ent'[e] = ent[e]
  BY <1>2, <1>9, PhasesOfLife
<1>11. ent' \in [Ids -> Bodies] BY <1>2, <1>10
<1>12. CleanupDue \subseteq Ids BY DEF CleanupDue
<1>13. TypeOK' BY <1>0, <1>2, <1>7, <1>11, <1>12, TypeParts, TypesNext DEF Stages
<1>14. MortalInTick'
  <2>1. \A e \in Ids : ent'[e].phase = "Alive" => ent'[e] = ent[e] BY <1>10
  <2> QED BY <1>2, <2>1 DEF LifeInv, MortalInTick, Exists, IsAlive
<1>15. VictimsAreFresh' BY <1>2 DEF VictimsAreFresh, BeforeAttacks, UntilClaims
<1>16. ClaimsInTick'
  <2> SUFFICES ASSUME NEW e \in Ids, ent'[e].claim # None
               PROVE  /\ ent'[e].kind = "mob" /\ ent'[e].claim = ent'[e].slayer
                      /\ \/ ent'[e].phase = "Dying"
                         \/ /\ ent'[e].phase = "Dead"
                            /\ \E i \in DOMAIN finalized' : finalized'[i] = e
    BY <1>2 DEF ClaimsInTick, IsMob, IsDying, IsDead, UntilRewards
  <2>1. /\ ent[e].kind = "mob" /\ ent[e].claim = ent[e].slayer
        /\ \/ ent[e].phase = "Dying"
           \/ /\ ent[e].phase = "Dead"
              /\ \E i \in DOMAIN finalized : finalized[i] = e
    BY <1>10 DEF LifeInv, ClaimsInTick, IsMob, IsDying, IsDead
  <2>2. CASE e \in NewlyDead BY <1>8, <1>10, <2>1, <2>2
  <2>3. CASE e \notin NewlyDead BY <1>7, <1>10, <2>1, <2>3
  <2> QED BY <2>2, <2>3
<1>17. SlotsAreReal' BY <1>2, <1>10, SameMobs
<1>18. WaitsAreScheduled' BY <1>2, SameSpawns
<1> QED BY <1>13, <1>14, <1>15, <1>16, <1>17, <1>18 DEF LifeInv

-----------------------------------------------------------------------------
(* The systems after the life cycle.                                       *)

\* What a restart makes of a body.
LEMMA Restarted ==
    ASSUME NEW b \in Bodies, NEW hp \in 1 .. MaxHp
    PROVE  /\ Restart(b, hp) \in Bodies
           /\ Restart(b, hp).kind = b.kind /\ Restart(b, hp).of = b.of
           /\ Restart(b, hp).claim = b.claim /\ Restart(b, hp).slayer = b.slayer
           /\ Restart(b, hp).hp # 0
<1>1. hp \in 0 .. MaxHp /\ hp # 0 /\ 0 \in 0 .. LastAge BY LifeNumbers
<1>2. Restart(b, hp) = [b EXCEPT !.phase = "Alive", !.age = 0, !.hp = hp] BY DEF Restart
<1>3. /\ [b EXCEPT !.phase = "Alive", !.age = 0, !.hp = hp] \in Bodies
      /\ [b EXCEPT !.phase = "Alive", !.age = 0, !.hp = hp].kind = b.kind
      /\ [b EXCEPT !.phase = "Alive", !.age = 0, !.hp = hp].of = b.of
      /\ [b EXCEPT !.phase = "Alive", !.age = 0, !.hp = hp].claim = b.claim
      /\ [b EXCEPT !.phase = "Alive", !.age = 0, !.hp = hp].slayer = b.slayer
      /\ [b EXCEPT !.phase = "Alive", !.age = 0, !.hp = hp].hp = hp
  BY <1>1 DEF Bodies
<1> QED BY <1>1, <1>2, <1>3

\* Players are brought back with hit points, mobs and claims stay as they are.
LEMMA ProcessPlayerRestartsLife ==
    ASSUME LifeInv, NEW asked, ProcessPlayerRestarts(asked) PROVE LifeInv'
<1>0. TypeOK BY DEF LifeInv
<1>1. /\ stage = "restarts" /\ stage' = "rewards" /\ world' = world /\ cmds' = cmds
      /\ delayed' = delayed /\ depleted' = depleted /\ finalized' = finalized
      /\ cleanup' = cleanup /\ rule' = rule /\ heap' = heap
      /\ ent' = [e \in Ids |->
                   IF ~IsPlayer(e) THEN ent[e]
                   ELSE IF RestartAllowed(e, asked[e]) THEN Restart(ent[e], RestartHp)
                   ELSE IF ForcedRespawnDue(e) THEN Restart(ent[e], MaxHp \div 2)
                   ELSE ent[e]]
  BY Succession DEF ProcessPlayerRestarts, Pass, facts, spawns
<1>2. RestartHp \in 1 .. MaxHp /\ MaxHp \div 2 \in 1 .. MaxHp BY LifeNumbers
<1>3. \A e \in Ids : ent[e] \in Bodies BY <1>0, BodyFields
<1>4. \A e \in Ids : \/ ent'[e] = ent[e]
                     \/ /\ ent[e].kind = "player"
                        /\ \E hp \in 1 .. MaxHp : ent'[e] = Restart(ent[e], hp)
  BY <1>1, <1>2 DEF IsPlayer
<1>5. \A e \in Ids :
        /\ ent'[e] \in Bodies /\ ent'[e].kind = ent[e].kind /\ ent'[e].of = ent[e].of
        /\ ent'[e].claim = ent[e].claim /\ ent'[e].slayer = ent[e].slayer
        /\ ent'[e] = ent[e] \/ (ent[e].kind = "player" /\ ent'[e].hp # 0)
  BY <1>3, <1>4, Restarted
<1>6. ent' \in [Ids -> Bodies] BY <1>1, <1>5
<1>7. TypeOK' BY <1>0, <1>1, <1>6, TypeParts, TypesNext DEF Stages
<1>8. MortalInTick'
  <2>1. \A e \in Ids : ent[e].kind # "none" /\ ent[e].phase = "Alive" => ent[e].hp # 0
    BY <1>1 DEF LifeInv, MortalInTick, Exists, IsAlive
  <2> QED BY <1>5, <2>1 DEF MortalInTick, Exists, IsAlive
<1>9. VictimsAreFresh' BY <1>1 DEF VictimsAreFresh, BeforeAttacks, UntilClaims
<1>10. ClaimsInTick'
  <2> SUFFICES ASSUME NEW e \in Ids, ent'[e].claim # None
               PROVE  /\ ent'[e].kind = "mob" /\ ent'[e].claim = ent'[e].slayer
                      /\ \/ ent'[e].phase = "Dying"
                         \/ /\ ent'[e].phase = "Dead"
                            /\ \E i \in DOMAIN finalized : finalized[i] = e
    BY <1>1 DEF ClaimsInTick, IsMob, IsDying, IsDead, UntilRewards
  <2>1. /\ ent[e].kind = "mob" /\ ent[e].claim = ent[e].slayer
        /\ \/ ent[e].phase = "Dying"
           \/ /\ ent[e].phase = "Dead"
              /\ \E i \in DOMAIN finalized : finalized[i] = e
    BY <1>5 DEF LifeInv, ClaimsInTick, IsMob, IsDying, IsDead
  <2>2. ent'[e] = ent[e] BY <1>5, <2>1
  <2> QED BY <2>1, <2>2
<1>11. SlotsAreReal' BY <1>1, <1>5, SameMobs
<1>12. WaitsAreScheduled' BY <1>1, SameSpawns
<1> QED BY <1>7, <1>8, <1>9, <1>10, <1>11, <1>12 DEF LifeInv

\* Every claim to a death that is final is settled, so that all bodies are as
\* they are between two ticks.
LEMMA GrantMobDeathRewardsLife ==
    ASSUME LifeInv, NEW levelled, GrantMobDeathRewards(levelled) PROVE LifeInv'
<1>0. TypeOK BY DEF LifeInv
<1>1. /\ stage = "rewards" /\ stage' = "cleanup" /\ world' = world /\ cmds' = cmds
      /\ delayed' = delayed /\ depleted' = depleted /\ finalized' = finalized
      /\ cleanup' = cleanup /\ rule' = rule /\ heap' = heap
      /\ ent' = [e \in Ids |-> IF e \in Settled THEN [ent[e] EXCEPT !.claim = None]
                               ELSE IF e \in levelled THEN [ent[e] EXCEPT !.hp = MaxHp]
                               ELSE ent[e]]
  BY Succession DEF GrantMobDeathRewards, Pass, facts, spawns
<1>2. \A e \in Ids : ent[e] \in Bodies BY <1>0, BodyFields
<1>3. ASSUME NEW b \in Bodies
      PROVE  /\ [b EXCEPT !.claim = None] \in Bodies
             /\ [b EXCEPT !.claim = None].kind = b.kind /\ [b EXCEPT !.claim = None].of = b.of
             /\ [b EXCEPT !.claim = None].phase = b.phase
             /\ [b EXCEPT !.claim = None].hp = b.hp /\ [b EXCEPT !.claim = None].claim = None
  BY DEF Bodies
<1>4. ASSUME NEW b \in Bodies
      PROVE  /\ [b EXCEPT !.hp = MaxHp] \in Bodies
             /\ [b EXCEPT !.hp = MaxHp].kind = b.kind /\ [b EXCEPT !.hp = MaxHp].of = b.of
             /\ [b EXCEPT !.hp = MaxHp].phase = b.phase /\ [b EXCEPT !.hp = MaxHp].hp # 0
             /\ [b EXCEPT !.hp = MaxHp].claim = b.claim
             /\ [b EXCEPT !.hp = MaxHp].slayer = b.slayer
  <2>1. MaxHp \in 0 .. MaxHp /\ MaxHp # 0 BY LifeNumbers
  <2> QED BY <2>1 DEF Bodies
<1>5. \A e \in Ids :
        /\ ent[e].kind # "none" /\ ent[e].phase = "Alive" => ent[e].hp # 0
        /\ ent[e].claim # None /\ e \notin Settled =>
              ent[e].kind = "mob" /\ ent[e].claim = ent[e].slayer /\ ent[e].phase = "Dying"
  BY <1>1 DEF LifeInv, MortalInTick, ClaimsInTick, Settled, Exists, IsMob, IsAlive, IsDying,
              IsDead
<1>6. \A e \in Ids : /\ ent'[e] \in Bodies /\ ent'[e].kind = ent[e].kind
                     /\ ent'[e].of = ent[e].of /\ Sane(ent'[e])
  <2> SUFFICES ASSUME NEW e \in Ids
               PROVE  /\ ent'[e] \in Bodies /\ ent'[e].kind = ent[e].kind
                      /\ ent'[e].of = ent[e].of /\ Sane(ent'[e])
    OBVIOUS
  <2>1. CASE e \in Settled
    <3>1. ent'[e] = [ent[e] EXCEPT !.claim = None] BY <1>1, <2>1
    <3> QED BY <1>2, <1>3, <1>5, <3>1 DEF Sane
  <2>2. CASE e \notin Settled /\ e \in levelled
    <3>1. ent'[e] = [ent[e] EXCEPT !.hp = MaxHp] BY <1>1, <2>2
    <3> QED BY <1>2, <1>4, <1>5, <2>2, <3>1 DEF Sane
  <2>3. CASE e \notin Settled /\ e \notin levelled
    <3>1. ent'[e] = ent[e] BY <1>1, <2>3
    <3> QED BY <1>2, <1>5, <2>3, <3>1 DEF Sane
  <2> QED BY <2>1, <2>2, <2>3
<1>7. ent' \in [Ids -> Bodies] BY <1>1, <1>6
<1>8. TypeOK' BY <1>0, <1>1, <1>7, TypeParts, TypesNext DEF Stages
<1>9. MortalInTick' /\ VictimsAreFresh' /\ ClaimsInTick'
  BY <1>1, <1>6, SaneStep DEF Stages, UntilClaims, UntilRewards, BeforeAttacks
<1>10. SlotsAreReal' BY <1>1, <1>6, SameMobs
<1>11. WaitsAreScheduled' BY <1>1, SameSpawns
<1> QED BY <1>8, <1>9, <1>10, <1>11 DEF LifeInv

\* The living recover, and the facts of the frame are forgotten.
LEMMA ProcessResourcesLife ==
    ASSUME LifeInv, NEW recovered, ProcessResources(recovered) PROVE LifeInv'
<1>0. TypeOK BY DEF LifeInv
<1>1. /\ stage = "resources" /\ stage' = "inbound" /\ world' = world /\ cmds' = cmds
      /\ delayed' = delayed /\ depleted' = <<>> /\ finalized' = <<>>
      /\ cleanup' = {} /\ rule' = rule /\ heap' = heap
      /\ recovered \subseteq {e \in Ids : Recovers(e)}
      /\ ent' = [e \in Ids |-> IF e \in recovered
                               THEN [ent[e] EXCEPT !.hp = ent[e].hp + 1] ELSE ent[e]]
  BY Succession DEF ProcessResources, Pass, spawns
<1>2. \A e \in Ids : Sane(ent[e]) /\ ent[e] \in Bodies
  BY <1>0, <1>1, SaneBodies, BodyFields DEF UntilClaims, UntilRewards
<1>3. \A e \in recovered : e \in Ids /\ ent[e].hp < MaxHp
  BY <1>1 DEF Recovers
<1>4. ASSUME NEW b \in Bodies, b.hp < MaxHp
      PROVE  /\ [b EXCEPT !.hp = b.hp + 1] \in Bodies
             /\ [b EXCEPT !.hp = b.hp + 1].kind = b.kind
             /\ [b EXCEPT !.hp = b.hp + 1].of = b.of
             /\ Sane(b) => Sane([b EXCEPT !.hp = b.hp + 1])
  <2>1. b.hp + 1 \in 0 .. MaxHp /\ b.hp + 1 # 0 BY <1>4, AnyBody, LifeNumbers
  <2> QED BY <2>1 DEF Bodies, Sane
<1>5. \A e \in Ids : /\ ent'[e] \in Bodies /\ ent'[e].kind = ent[e].kind
                     /\ ent'[e].of = ent[e].of /\ Sane(ent'[e])
  BY <1>1, <1>2, <1>3, <1>4
<1>6. ent' \in [Ids -> Bodies] BY <1>1, <1>5
<1>7. depleted' \in Seq(Depletions) /\ finalized' \in Seq(Ids) /\ cleanup' \subseteq Ids
  BY <1>1
<1>8. TypeOK' BY <1>0, <1>1, <1>6, <1>7, TypeParts, TypesNext DEF Stages
<1>9. MortalInTick' /\ VictimsAreFresh' /\ ClaimsInTick'
  BY <1>1, <1>5, SaneStep DEF Stages, UntilClaims, UntilRewards, BeforeAttacks
<1>10. SlotsAreReal' BY <1>1, <1>5, SameMobs
<1>11. WaitsAreScheduled' BY <1>1, SameSpawns
<1> QED BY <1>8, <1>9, <1>10, <1>11 DEF LifeInv

\* A rule that gives up the slots of some of its mobs.
LEMMA SlotsReleased ==
    ASSUME NEW s \in RuleStates, NEW gone \in SUBSET s.members, world.max_count \in Nat
    PROVE  /\ ReleaseMobSpawnSlots(s, gone) \in RuleStates
           /\ ReleaseMobSpawnSlots(s, gone).members = s.members \ gone
           /\ ReleaseMobSpawnSlots(s, gone).respawn = RegenTime
           /\ s.active <= Cardinality(s.members) =>
                 ReleaseMobSpawnSlots(s, gone).active <= Cardinality(s.members \ gone)
<1> DEFINE m == s.members \ gone
           a == AtLeast0(s.active - Cardinality(gone))
<1>0. s.active \in 0 .. world.max_count /\ s.members \in SUBSET Ids BY DEF RuleStates
<1>1. ReleaseMobSpawnSlots(s, gone)
        = [s EXCEPT !.members = m, !.active = a, !.respawn = RegenTime]
  BY DEF ReleaseMobSpawnSlots
<1>2. IsFiniteSet(s.members) BY <1>0, FS_Subset, ActorLifeAssumption
<1>3. IsFiniteSet(gone) BY <1>2, FS_Subset
<1>4. Cardinality(gone) \in Nat /\ Cardinality(s.members) \in Nat
  BY <1>2, <1>3, FS_CardinalityType
<1>5. Cardinality(m) = Cardinality(s.members) - Cardinality(gone) /\ Cardinality(m) \in Nat
  <2>1. s.members \cap gone = gone OBVIOUS
  <2>2. IsFiniteSet(m) /\ Cardinality(m) = Cardinality(s.members) - Cardinality(s.members \cap gone)
    BY <1>2, FS_Difference
  <2>3. Cardinality(m) \in Nat BY <2>2, FS_CardinalityType
  <2> QED BY <2>1, <2>2, <2>3
<1>6. m \in SUBSET Ids BY <1>0
<1>7. a \in 0 .. world.max_count BY <1>0, <1>4 DEF AtLeast0
<1>8. s.active <= Cardinality(s.members) => a <= Cardinality(m)
  <2> HIDE DEF m
  <2> QED BY <1>0, <1>4, <1>5 DEF AtLeast0
<1>9. RegenTime \in Int \cup {None} BY LifeNumbers
<1> HIDE DEF m, a
<1>10. /\ [s EXCEPT !.members = m, !.active = a, !.respawn = RegenTime] \in RuleStates
       /\ [s EXCEPT !.members = m, !.active = a, !.respawn = RegenTime].members = m
       /\ [s EXCEPT !.members = m, !.active = a, !.respawn = RegenTime].active = a
       /\ [s EXCEPT !.members = m, !.active = a, !.respawn = RegenTime].respawn = RegenTime
  BY <1>6, <1>7, <1>9 DEF RuleStates
<1>11. /\ ReleaseMobSpawnSlots(s, gone) \in RuleStates
       /\ ReleaseMobSpawnSlots(s, gone).members = m
       /\ ReleaseMobSpawnSlots(s, gone).active = a
       /\ ReleaseMobSpawnSlots(s, gone).respawn = RegenTime
  BY <1>1, <1>10
<1> QED BY <1>8, <1>11 DEF m

\* Corpses are cleared away and their rules wait for the next spawn.
LEMMA ProcessCleanupEventsLife ==
    ASSUME LifeInv, ProcessCleanupEvents PROVE LifeInv'
<1>0. TypeOK BY DEF LifeInv
<1> DEFINE Lost(r) == cleanup \cap rule[r].members
<1>1. /\ stage = "cleanup" /\ stage' = "resources" /\ world' = world /\ cmds' = cmds
      /\ delayed' = delayed /\ depleted' = depleted /\ finalized' = finalized
      /\ cleanup' = cleanup
      /\ ent' = [e \in Ids |-> IF e \in cleanup THEN Nobody ELSE ent[e]]
  BY Succession DEF ProcessCleanupEvents, Pass, facts
<1>2. /\ rule' = [r \in Rules |-> IF Lost(r) # {} THEN ReleaseMobSpawnSlots(rule[r], Lost(r))
                                  ELSE rule[r]]
      /\ heap' = heap \cup {<<rule'[r].respawn, r>> : r \in {q \in Rules : Lost(q) # {}}}
  BY DEF ProcessCleanupEvents
<1>3. \A e \in Ids : Sane(ent[e]) /\ ent[e] \in Bodies
  BY <1>0, <1>1, SaneBodies, BodyFields DEF UntilClaims, UntilRewards
<1>4. \A e \in Ids : Sane(ent'[e]) /\ ent'[e] \in Bodies
  BY <1>1, <1>3, NewBodies
<1>5. ent' \in [Ids -> Bodies] BY <1>1, <1>4
<1>6. rule \in [Rules -> RuleStates] /\ heap \subseteq Int \X Rules BY <1>0, TypeParts
<1>7. \A q \in Rules : /\ rule[q].members = {e \in Ids : ent[e].kind = "mob" /\ ent[e].of = q}
                       /\ rule[q].active <= Cardinality(rule[q].members)
  BY DEF LifeInv, SlotsAreReal, IsMob
<1>8. \A r \in Rules : /\ rule'[r] \in RuleStates
                       /\ rule'[r].members = rule[r].members \ Lost(r)
                       /\ rule'[r].active <= Cardinality(rule'[r].members)
                       /\ rule'[r].respawn = IF Lost(r) # {} THEN RegenTime
                                             ELSE rule[r].respawn
  <2> SUFFICES ASSUME NEW r \in Rules
               PROVE  /\ rule'[r] \in RuleStates
                      /\ rule'[r].members = rule[r].members \ Lost(r)
                      /\ rule'[r].active <= Cardinality(rule'[r].members)
                      /\ rule'[r].respawn = IF Lost(r) # {} THEN RegenTime
                                            ELSE rule[r].respawn
    OBVIOUS
  <2>1. rule[r] \in RuleStates /\ rule[r].active <= Cardinality(rule[r].members)
    BY <1>6, <1>7
  <2>2. CASE Lost(r) # {}
    <3>1. world.max_count \in Nat BY <1>0, WorldNumbers
    <3>2. Lost(r) \in SUBSET rule[r].members OBVIOUS
    <3>3. rule'[r] = ReleaseMobSpawnSlots(rule[r], Lost(r)) BY <1>2, <2>2
    <3> HIDE DEF Lost
    <3>4. /\ ReleaseMobSpawnSlots(rule[r], Lost(r)) \in RuleStates
          /\ ReleaseMobSpawnSlots(rule[r], Lost(r)).members = rule[r].members \ Lost(r)
          /\ ReleaseMobSpawnSlots(rule[r], Lost(r)).respawn = RegenTime
          /\ ReleaseMobSpawnSlots(rule[r], Lost(r)).active
                <= Cardinality(rule[r].members \ Lost(r))
      BY <2>1, <3>1, <3>2, SlotsReleased
    <3> QED BY <2>2, <3>3, <3>4
  <2>3. CASE Lost(r) = {}
    <3>1. rule'[r] = rule[r] BY <1>2, <2>3
    <3>2. rule[r].members = rule[r].members \ Lost(r) BY <2>3
    <3> QED BY <2>1, <2>3, <3>1, <3>2
  <2> QED BY <2>2, <2>3
<1>9. rule' \in [Rules -> RuleStates] BY <1>2, <1>8
<1>10. heap' \subseteq Int \X Rules
  <2>1. \A r \in Rules : Lost(r) # {} => rule'[r].respawn \in Int BY <1>8, LifeNumbers
  <2> HIDE DEF Lost
  <2> QED BY <1>2, <1>6, <2>1
<1>11. TypeOK' BY <1>0, <1>1, <1>5, <1>9, <1>10, TypeParts, TypesNext DEF Stages
<1>12. MortalInTick' /\ VictimsAreFresh' /\ ClaimsInTick'
  BY <1>1, <1>4, SaneStep DEF Stages, UntilClaims, UntilRewards, BeforeAttacks
<1>13. SlotsAreReal'
  <2>1. ASSUME NEW r \in Rules
        PROVE  rule'[r].members = {e \in Ids : ent'[e].kind = "mob" /\ ent'[e].of = r}
    <3>1. \A e \in Ids : (ent'[e].kind = "mob" /\ ent'[e].of = r)
                           <=> (e \notin cleanup /\ ent[e].kind = "mob" /\ ent[e].of = r)
      BY <1>1, NewBodies
    <3>2. rule'[r].members = rule[r].members \ cleanup BY <1>8
    <3> QED BY <1>7, <3>1, <3>2
  <2> QED BY <1>8, <2>1 DEF SlotsAreReal, IsMob
<1>14. WaitsAreScheduled'
  <2> SUFFICES ASSUME NEW r \in Rules, rule'[r].respawn # None
               PROVE  <<rule'[r].respawn, r>> \in heap'
    BY DEF WaitsAreScheduled
  <2>1. CASE Lost(r) # {} BY <1>2, <2>1
  <2>2. CASE Lost(r) = {}
    <3>1. rule'[r].respawn = rule[r].respawn BY <1>8, <2>2
    <3>2. <<rule[r].respawn, r>> \in heap BY <3>1 DEF LifeInv, WaitsAreScheduled
    <3> QED BY <1>2, <3>1, <3>2
  <2> QED BY <2>1, <2>2
<1> QED BY <1>11, <1>12, <1>13, <1>14 DEF LifeInv

-----------------------------------------------------------------------------
(* The theorems.                                                           *)

\* The map as it is loaded.
LEMMA BootstrapLife ==
    ASSUME LifeInit PROVE LifeInv
<1>1. /\ world \in Worlds /\ stage = "inbound" /\ cmds = <<>> /\ delayed = <<>>
      /\ depleted = <<>> /\ finalized = <<>> /\ cleanup = {}
  BY DEF LifeInit
<1>2. PICK place \in [Ids -> Rules \cup {None}], groups \in [Rules -> 0 .. world.max_count] :
         BootstrapMapRuntime(place, groups)
  BY DEF LifeInit
<1> DEFINE M(r) == {e \in Ids : place[e] = r}
<1>3. /\ ent = [e \in Ids |-> IF place[e] = None THEN Nobody ELSE MobBody(place[e])]
      /\ rule = [r \in Rules |-> [active |-> groups[r], respawn |-> None, members |-> M(r)]]
      /\ heap = {}
      /\ \A r \in Rules : Cardinality(M(r)) \in groups[r] .. (groups[r] * world.members)
  BY <1>2 DEF BootstrapMapRuntime
<1>4. \A r \in Rules : M(r) \in SUBSET Ids OBVIOUS
<1> HIDE DEF M
<1>5. \A e \in Ids : /\ ent[e] \in Bodies /\ Sane(ent[e])
                     /\ place[e] = None => ent[e].kind = "none"
                     /\ place[e] # None => ent[e].kind = "mob" /\ ent[e].of = place[e]
  BY <1>3, NewBodies
<1>6. ent \in [Ids -> Bodies] BY <1>3, <1>5
<1>7. \A r \in Rules : /\ rule[r] \in RuleStates /\ rule[r].respawn = None
                       /\ rule[r].members = M(r) /\ rule[r].active = groups[r]
  BY <1>3, <1>4 DEF RuleStates
<1>8. rule \in [Rules -> RuleStates] BY <1>3, <1>7
<1>9. TypeOK
  <2>1. \E i \in DOMAIN SystemOrder : stage = SystemOrder[i]
    BY <1>1, StageIsNamed DEF Stages
  <2>2. /\ cmds \in Seq([by : Ids, on : Ids])
        /\ delayed \in Seq([by : Ids, on : Ids, due : Int, flies : BOOLEAN])
        /\ depleted \in Seq([victim : Ids, killer : Ids]) /\ finalized \in Seq(Ids)
        /\ cleanup \subseteq Ids /\ heap \subseteq Int \X Rules
    BY <1>1, <1>3
  <2> QED BY <1>1, <1>6, <1>8, <2>1, <2>2 DEF TypeOK, RuleStates
<1>10. MortalInTick BY <1>5 DEF MortalInTick, Sane, Exists, IsAlive
<1>11. VictimsAreFresh BY <1>1 DEF VictimsAreFresh, UntilClaims
<1>12. ClaimsInTick BY <1>5 DEF ClaimsInTick, Sane, IsMob, IsDying
<1>13. SlotsAreReal
  <2>1. ASSUME NEW r \in Rules
        PROVE  /\ rule[r].members = {e \in Ids : ent[e].kind = "mob" /\ ent[e].of = r}
               /\ rule[r].active <= Cardinality(rule[r].members)
    <3>1. r # None BY LifeNumbers
    <3>2. \A e \in Ids : (ent[e].kind = "mob" /\ ent[e].of = r) <=> place[e] = r
      BY <1>5, <3>1
    <3>3. rule[r].members = {e \in Ids : place[e] = r} BY <1>7 DEF M
    <3>4. rule[r].active <= Cardinality(M(r))
      <4>1. world.members \in Nat /\ world.max_count \in Nat BY <1>1, ActorLifeAssumption
      <4>2. groups[r] \in Int /\ groups[r] * world.members \in Int BY <4>1
      <4>3. Cardinality(M(r)) \in groups[r] .. (groups[r] * world.members) BY <1>3
      <4> QED BY <1>7, <4>2, <4>3
    <3> QED BY <1>7, <3>2, <3>3, <3>4
  <2> QED BY <2>1 DEF SlotsAreReal, IsMob
<1>14. WaitsAreScheduled BY <1>7 DEF WaitsAreScheduled
<1> QED BY <1>9, <1>10, <1>11, <1>12, <1>13, <1>14 DEF LifeInv

\* Every step keeps the invariant.
LEMMA LifeStep ==
    ASSUME LifeInv, [LifeNext]_lifeVars PROVE LifeInv'
<1>1. CASE UNCHANGED lifeVars
  <2>1. /\ world' = world /\ stage' = stage /\ ent' = ent /\ cmds' = cmds
        /\ delayed' = delayed /\ depleted' = depleted /\ finalized' = finalized
        /\ cleanup' = cleanup /\ rule' = rule /\ heap' = heap
    BY <1>1 DEF lifeVars
  <2>2. cmds \in Seq(Commands) /\ delayed \in Seq(DelayedCommands)
    BY TypeParts DEF LifeInv
  <2> QED BY <2>1, <2>2, QuietLife
<1>2. CASE Inbound
  <2>1. PICK p \in world.players : \/ \E saved \in 0 .. MaxHp : HandlePlayerEnter(p, saved)
                                   \/ HandlePlayerLeave(p)
    BY <1>2 DEF Inbound
  <2> QED BY <2>1, HandlePlayerEnterLife, HandlePlayerLeaveLife
<1>3. CASE Tick
  <2>1. CASE \E dt \in Steps : AdvanceSimTime(dt) BY <2>1, AdvanceSimTimeLife
  <2>2. CASE \E h \in heap : SpawnSkips(h) BY <2>2, SpawnSkipsLife
  <2>3. CASE \E h \in heap : \E groups \in 0 .. world.max_count :
                \E size \in groups .. (groups * world.members) : SpawnFills(h, groups, size)
    BY <2>3, SpawnFillsLife
  <2>4. CASE SpawnRulesDone BY <2>4, SpawnRulesDoneLife
  <2>5. CASE \E a \in SeqUpTo(PlayerAttacks, MaxHits) : ProcessPlayerActions(a)
    BY <2>5, ProcessPlayerActionsLife
  <2>6. CASE \E a \in SeqUpTo(MobAttacks, MaxHits), b \in MobShots \cup {None} :
                ProcessMobAi(a, b)
    BY <2>6, ProcessMobAiLife
  <2>7. CASE \E i \in DOMAIN delayed, flight \in Delays : ReleaseDueAttack(i, flight)
    BY <2>7, ReleaseDueAttackLife
  <2>8. CASE ReleaseDone BY <2>8, ReleaseDoneLife
  <2>9. CASE AttackFinalizes BY <2>9, AttackFinalizesLife
  <2>10. CASE \E damage \in Damages : AttackHits(damage) BY <2>10, AttackHitsLife
  <2>11. CASE AttackIsDropped BY <2>11, AttackIsDroppedLife
  <2>12. CASE AttacksDone BY <2>12, AttacksDoneLife
  <2>13. CASE ProcessLifeEvents BY <2>13, ProcessLifeEventsLife
  <2>14. CASE RecordMobDeathRewardClaims BY <2>14, RecordClaimsLife
  <2>15. CASE ProcessActorLifecycle BY <2>15, ProcessActorLifecycleLife
  <2>16. CASE \E asked \in [{e \in Ids : IsPlayer(e)} -> {"here", "town", None}] :
                 ProcessPlayerRestarts(asked)
    BY <2>16, ProcessPlayerRestartsLife
  <2>17. CASE \E levelled \in SUBSET Rewarded : GrantMobDeathRewards(levelled)
    BY <2>17, GrantMobDeathRewardsLife
  <2>18. CASE ProcessCleanupEvents BY <2>18, ProcessCleanupEventsLife
  <2>19. CASE \E recovered \in SUBSET {e \in Ids : Recovers(e)} : ProcessResources(recovered)
    BY <2>19, ProcessResourcesLife
  <2> QED
    BY <1>3, <2>1, <2>2, <2>3, <2>4, <2>5, <2>6, <2>7, <2>8, <2>9, <2>10, <2>11, <2>12,
       <2>13, <2>14, <2>15, <2>16, <2>17, <2>18, <2>19
    DEF Tick
<1> QED BY <1>1, <1>2, <1>3 DEF LifeNext

\* The inductive invariant of the life cycle holds in every reachable state.
THEOREM LifeInvariant == LifeSpec => []LifeInv
<1>1. LifeInit => LifeInv BY BootstrapLife
<1>2. LifeInv /\ [LifeNext]_lifeVars => LifeInv' BY LifeStep
<1> QED BY <1>1, <1>2, PTL DEF LifeSpec

\* Types: hit points stay within what an actor can have, a rule never counts
\* more groups than its cap, and every system that runs is one of the order.
THEOREM LifeTypes == LifeSpec => []TypeOK
<1>1. LifeInv => TypeOK BY DEF LifeInv
<1> QED BY <1>1, LifeInvariant, PTL

\* Between ticks whoever lives has hit points left, so that the next hit that
\* takes them can start a death (combat.rs, apply_resource_damage).
THEOREM LivingCanDie == LifeSpec => []AliveIsMortal
<1>1. ASSUME LifeInv PROVE AliveIsMortal
  <2> SUFFICES ASSUME stage = "inbound", NEW e \in Ids, Exists(e), IsAlive(e)
               PROVE  ent[e].hp > 0
    BY DEF AliveIsMortal
  <2>1. ent[e].hp \in 0 .. MaxHp /\ MaxHp \in Nat BY <1>1, BodyFields, LifeNumbers DEF LifeInv
  <2>2. ent[e].hp # 0 BY <1>1 DEF LifeInv, MortalInTick
  <2> QED BY <2>1, <2>2
<1> QED BY <1>1, LifeInvariant, PTL

\* The reward of a mob is claimed by the player who took its last hit point
\* (rewards.rs, record_mob_death_reward_claims).
THEOREM SlayersClaim == LifeSpec => []ClaimIsTheSlayers
<1>1. LifeInv => ClaimIsTheSlayers BY DEF LifeInv, ClaimsInTick, ClaimIsTheSlayers
<1> QED BY <1>1, LifeInvariant, PTL

\* Between ticks only a dying mob holds a claim (grant_mob_death_rewards).
THEOREM ClaimsSettle == LifeSpec => []ClaimsAreSettled
<1>1. LifeInv => ClaimsAreSettled
  BY DEF LifeInv, ClaimsInTick, ClaimsAreSettled, UntilRewards, UntilClaims
<1> QED BY <1>1, LifeInvariant, PTL

\* The books of the spawn rules agree with the map (release_mob_spawn_slot,
\* spawn_rules).
THEOREM SlotsHold == LifeSpec => []SlotsAreReal
<1>1. LifeInv => SlotsAreReal BY DEF LifeInv
<1> QED BY <1>1, LifeInvariant, PTL

\* What no step does to a rule: leave it short with nothing scheduled, unless
\* it already was.
NoShortRule ==
    \A r \in Rules : rule'[r].respawn = None /\ rule'[r].active < world.max_count
                        => rule[r].respawn = None /\ rule[r].active = rule'[r].active

\* Time passes for the rules that wait, and they go on waiting.
LEMMA AdvanceSimTimeRules ==
    ASSUME TypeOK, NEW dt \in Steps, AdvanceSimTime(dt) PROVE NoShortRule
<1> SUFFICES ASSUME NEW r \in Rules, rule'[r].respawn = None
             PROVE  rule[r].respawn = None /\ rule[r].active = rule'[r].active
  BY DEF NoShortRule
<1>1. rule'[r] = IF rule[r].respawn = None THEN rule[r]
                 ELSE [rule[r] EXCEPT !.respawn = rule[r].respawn - dt]
  BY DEF AdvanceSimTime
<1>2. rule[r] \in RuleStates BY TypeParts
<1>3. CASE rule[r].respawn = None BY <1>1, <1>3
<1>4. CASE rule[r].respawn # None
  <2>1. rule[r].respawn \in Int /\ dt \in Int BY <1>2, <1>4, LifeNumbers DEF RuleStates
  <2>2. rule[r].respawn - dt \in Int BY <2>1
  <2>3. [rule[r] EXCEPT !.respawn = rule[r].respawn - dt].respawn = rule[r].respawn - dt
    BY <1>2 DEF RuleStates
  <2> QED BY <1>1, <1>4, <2>2, <2>3, LifeNumbers
<1> QED BY <1>3, <1>4

\* Only a full rule stops waiting for an entry that is dropped.
LEMMA SpawnSkipsRules ==
    ASSUME TypeOK, NEW h \in heap, SpawnSkips(h) PROVE NoShortRule
<1> SUFFICES ASSUME NEW q \in Rules, rule'[q].respawn = None,
                    rule'[q].active < world.max_count
             PROVE  rule[q].respawn = None /\ rule[q].active = rule'[q].active
  BY DEF NoShortRule
<1> DEFINE r == h[2]
<1>1. rule' = IF rule[r].respawn = h[1] THEN [rule EXCEPT ![r].respawn = None] ELSE rule
  BY DEF SpawnSkips
<1>2. rule[r].respawn = h[1] => rule[r].active >= world.max_count BY DEF SpawnSkips
<1>3. r \in Rules /\ rule[r] \in RuleStates /\ rule \in [Rules -> RuleStates]
  BY TypeParts
<1>4. CASE q # r \/ rule[r].respawn # h[1]
  <2>1. rule'[q] = rule[q] BY <1>1, <1>3, <1>4
  <2> QED BY <2>1
<1>5. CASE q = r /\ rule[r].respawn = h[1]
  <2>1. rule'[r] = [rule[r] EXCEPT !.respawn = None] BY <1>1, <1>3, <1>5
  <2>2. rule'[r].active = rule[r].active BY <1>3, <2>1 DEF RuleStates
  <2>3. rule[r].active \in Int /\ world.max_count \in Int
    BY <1>3, WorldNumbers DEF RuleStates
  <2> QED BY <1>2, <1>5, <2>2, <2>3
<1> QED BY <1>4, <1>5

\* A rule that placed mobs and is still short waits.
LEMMA SpawnFillsRules ==
    ASSUME TypeOK, NEW h \in heap, NEW groups \in 0 .. world.max_count, NEW size,
           SpawnFills(h, groups, size)
    PROVE  NoShortRule
<1> SUFFICES ASSUME NEW q \in Rules, rule'[q].respawn = None,
                    rule'[q].active < world.max_count
             PROVE  rule[q].respawn = None /\ rule[q].active = rule'[q].active
  BY DEF NoShortRule
<1> DEFINE r == h[2]
           filled == Placed(rule[r], Fresh(size), groups)
<1>1. PICK t \in {1, None} :
        /\ rule' = [rule EXCEPT ![r] = [filled EXCEPT !.respawn = t]]
        /\ filled.active < world.max_count => t = 1
  <2>1. CASE filled.active < world.max_count
    <3>1. rule' = [rule EXCEPT ![r] = [filled EXCEPT !.respawn = 1]]
      BY <2>1 DEF SpawnFills
    <3> QED BY <3>1
  <2>2. CASE ~(filled.active < world.max_count)
    <3>1. rule' = [rule EXCEPT ![r] = [filled EXCEPT !.respawn = None]]
      BY <2>2 DEF SpawnFills
    <3> QED BY <2>2, <3>1
  <2> QED BY <2>1, <2>2
<1>2. r \in Rules /\ rule[r] \in RuleStates /\ rule \in [Rules -> RuleStates]
  BY TypeParts
<1>3. CASE q # r
  <2>1. rule'[q] = rule[q] BY <1>1, <1>2, <1>3
  <2> QED BY <2>1
<1>4. CASE q = r
  <2>1. rule'[r] = [filled EXCEPT !.respawn = t] BY <1>1, <1>2
  <2>2. /\ [filled EXCEPT !.respawn = t].active = filled.active
        /\ [filled EXCEPT !.respawn = t].respawn = t
    <3>1. ASSUME NEW s \in RuleStates, NEW m, NEW a
          PROVE  /\ [[s EXCEPT !.members = m, !.active = a] EXCEPT !.respawn = t].active
                      = [s EXCEPT !.members = m, !.active = a].active
                 /\ [[s EXCEPT !.members = m, !.active = a] EXCEPT !.respawn = t].respawn = t
      BY DEF RuleStates
    <3>2. filled = [rule[r] EXCEPT !.members = rule[r].members \cup Fresh(size),
                                   !.active = rule[r].active + groups]
      BY DEF Placed
    <3> HIDE DEF filled, r
    <3> QED BY <1>2, <3>1, <3>2
  <2>3. 1 # None BY LifeNumbers
  <2> HIDE DEF filled, r
  <2> QED BY <1>1, <1>4, <2>1, <2>2, <2>3
<1> QED BY <1>3, <1>4

\* A rule that loses a mob waits.
LEMMA ProcessCleanupEventsRules ==
    ASSUME TypeOK, ProcessCleanupEvents PROVE NoShortRule
<1> SUFFICES ASSUME NEW r \in Rules, rule'[r].respawn = None
             PROVE  rule[r].respawn = None /\ rule[r].active = rule'[r].active
  BY DEF NoShortRule
<1> DEFINE gone == cleanup \cap rule[r].members
<1>1. rule'[r] = IF gone # {} THEN ReleaseMobSpawnSlots(rule[r], gone) ELSE rule[r]
  BY DEF ProcessCleanupEvents
<1>2. rule[r] \in RuleStates /\ world.max_count \in Nat BY TypeParts, WorldNumbers
<1>3. gone \in SUBSET rule[r].members OBVIOUS
<1> HIDE DEF gone
<1>4. ReleaseMobSpawnSlots(rule[r], gone).respawn = RegenTime BY <1>2, <1>3, SlotsReleased
<1>5. RegenTime # None BY LifeNumbers
<1> QED BY <1>1, <1>4, <1>5

\* No step leaves a rule short with nothing scheduled.
LEMMA RulesStep ==
    ASSUME TypeOK, [LifeNext]_lifeVars PROVE NoShortRule
<1>1. CASE rule' = rule BY <1>1 DEF NoShortRule
<1>2. CASE \E dt \in Steps : AdvanceSimTime(dt) BY <1>2, AdvanceSimTimeRules
<1>3. CASE \E h \in heap : SpawnSkips(h) BY <1>3, SpawnSkipsRules
<1>4. CASE \E h \in heap : \E groups \in 0 .. world.max_count :
              \E size \in groups .. (groups * world.members) : SpawnFills(h, groups, size)
  BY <1>4, SpawnFillsRules
<1>5. CASE ProcessCleanupEvents BY <1>5, ProcessCleanupEventsRules
<1>6. CASE UNCHANGED lifeVars BY <1>1, <1>6 DEF lifeVars
<1>7. CASE Inbound
  <2>1. rule' = rule BY <1>7 DEF Inbound, HandlePlayerEnter, HandlePlayerLeave, spawns
  <2> QED BY <1>1, <2>1
<1>8. CASE Tick
  <2> SUFFICES ASSUME ~(\E dt \in Steps : AdvanceSimTime(dt)),
                      ~(\E h \in heap : SpawnSkips(h)),
                      ~(\E h \in heap : \E groups \in 0 .. world.max_count :
                          \E size \in groups .. (groups * world.members) :
                             SpawnFills(h, groups, size)),
                      ~ProcessCleanupEvents
               PROVE  rule' = rule
    BY <1>1, <1>2, <1>3, <1>4, <1>5
  <2> QED
    BY <1>8
    DEF Tick, SpawnRulesDone, ProcessPlayerActions, ProcessMobAi, ReleaseDueAttack,
        ReleaseDone, AttackFinalizes, AttackHits, AttackIsDropped, AttacksDone,
        ProcessLifeEvents, RecordMobDeathRewardClaims, ProcessActorLifecycle,
        ProcessPlayerRestarts, GrantMobDeathRewards, ProcessResources, spawns
<1> QED BY <1>6, <1>7, <1>8 DEF LifeNext

\* A rule that waits has its entry in the heap, and no step leaves a rule short
\* with nothing scheduled (spawn_rules, release_mob_spawn_slot).
THEOREM RulesKeepTheirSchedule == LifeSpec => ShortRuleIsScheduled
<1>1. LifeInv => \A r \in Rules : rule[r].respawn # None => <<rule[r].respawn, r>> \in heap
  BY DEF LifeInv, WaitsAreScheduled
<1>2. LifeInv /\ [LifeNext]_lifeVars =>
         [\A r \in Rules : rule'[r].respawn = None /\ rule'[r].active < world.max_count
             => rule[r].respawn = None /\ rule[r].active = rule'[r].active]_lifeVars
  BY RulesStep DEF LifeInv, NoShortRule
<1> QED BY <1>1, <1>2, LifeInvariant, PTL DEF LifeSpec, ShortRuleIsScheduled
================================================================================
