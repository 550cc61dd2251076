---------------------------- MODULE MobBrainProofs ----------------------------
(***************************************************************************)
(* Proofs about the mob AI, for every cast, map and set of tunables.       *)
(***************************************************************************)
EXTENDS MobBrain, WellFoundedInduction, TLAPS

Brains == [mode : Modes, target : Players \cup {Nobody}, attack : Nat, windup : Nat,
           rethink : Nat, decide : Nat, wait : Nat]
Motions == {s \in [from : Int, to : Int, left : Nat, total : Nat] : s.left <= s.total}
Bodies == [life : {"up", "dead", "gone"}, at : Int, to : Int]

\* The bodies and brains of a map are well typed and a queue is bounded.
BrainTypes ==
    /\ cast \in Casts
    /\ brain \in [Mobs -> Brains]
    /\ motion \in [Mobs -> Motions]
    /\ queue \in [Mobs -> Seq(Players)]
    /\ player \in [Players -> Bodies]
    /\ thinking \subseteq Mobs

\* Mode and target of a brain agree.
Coherent(b) == b.mode \in {"Idle", "Return"} <=> b.target = Nobody

\* A brain past its wind-up.
Awake(b) == b \in Brains /\ Coherent(b) /\ b.mode # "AttackWindup"

\* What a thought may end in.
Sound(o) ==
    /\ o.brain \in Brains /\ o.motion \in Motions /\ Coherent(o.brain)
    /\ o.brain.mode = "AttackWindup" => o.motion.from = o.motion.to /\ o.motion.left = 0

-----------------------------------------------------------------------------
(* Arithmetic of places and durations.                                     *)

\* The tunables are numbers.
LEMMA Tunables ==
    /\ Line \in Nat \ {0} /\ Grid \in Nat \ {0} /\ Speed \in Nat \ {0}
    /\ Stride \in Nat \ {0} /\ Reach \in Nat \ {0} /\ Gate \in Nat \ {0}
    /\ Windup \in Nat \ {0} /\ MaxStimuli \in Nat \ {0}
    /\ Sight \in Nat /\ Follow \in Nat /\ HomeRadius \in Nat /\ SameSpot \in Nat
    /\ Settle \in Nat /\ RangedSettle \in Nat /\ Rethink \in Nat /\ WanderStep \in Nat
    /\ Pauses \subseteq Nat /\ Spots \subseteq 0 .. Line
BY MobBrainAssumption

\* Distances are naturals, truncated places are places.
LEMMA PlaceTypes ==
    ASSUME NEW x \in Int, NEW y \in Int
    PROVE  Dist(x, y) \in Nat /\ Snap(x) \in Int
<1>1. Dist(x, y) \in Nat BY DEF Dist, Abs
<1>2. x % Grid \in Int BY Tunables
<1> QED BY <1>1, <1>2 DEF Snap

\* A step towards a place ends at a place.
LEMMA StepType ==
    ASSUME NEW x \in Int, NEW y \in Int, NEW n \in Int
    PROVE  StepTowards(x, y, n) \in Int
BY DEF StepTowards

\* A walk takes a number of ticks.
LEMMA DurationType ==
    ASSUME NEW x \in Int, NEW y \in Int
    PROVE  Duration(x, y) \in Nat
<1> DEFINE d == Dist(Snap(x), Snap(y))
<1>1. d \in Nat BY PlaceTypes
<1>2. Duration(x, y) = (d + Speed - 1) \div Speed BY DEF Duration, CeilDiv
<1> HIDE DEF d
<1>3. d + Speed - 1 \in Nat BY <1>1, Tunables
<1> DEFINE a == d + Speed - 1
<1> HIDE DEF a
<1>4. \A k \in Nat, n \in Nat \ {0} : k \div n \in Nat OBVIOUS
<1> QED BY <1>2, <1>3, <1>4, Tunables DEF a

\* sample_mob_motion_at gives a place.
LEMMA SampledType == ASSUME NEW s \in Motions PROVE Sampled(s) \in Int
<1>1. s.from \in Int /\ s.to \in Int /\ s.left \in Nat /\ s.total \in Nat /\ s.left <= s.total
  BY DEF Motions
<1>2. CASE s.left = 0 BY <1>1, <1>2 DEF Sampled
<1>3. CASE s.left # 0
  <2> DEFINE n == Dist(s.from, s.to) * (s.total - s.left)
  <2>1. Dist(s.from, s.to) \in Nat /\ s.total - s.left \in Nat /\ s.total \in Nat \ {0}
    <3>1. Dist(s.from, s.to) \in Nat BY <1>1, PlaceTypes
    <3>2. s.total - s.left \in Nat /\ s.total \in Nat \ {0} BY <1>1, <1>3
    <3> QED BY <3>1, <3>2
  <2>2. n \in Nat
    <3>1. \A a, b \in Nat : a * b \in Nat OBVIOUS
    <3> QED BY <2>1, <3>1
  <2> HIDE DEF n
  <2>3. \A k \in Nat, j \in Nat \ {0} : k \div j \in Nat OBVIOUS
  <2>4. n \div s.total \in Int BY <2>1, <2>2, <2>3
  <2>5. Sampled(s) = StepTowards(s.from, s.to, n \div s.total)
    BY <1>3 DEF Sampled, n
  <2> QED BY <1>1, <2>4, <2>5, StepType
<1> QED BY <1>2, <1>3

\* A mob that stands has a motion.
LEMMA StandingType ==
    ASSUME NEW x \in Int
    PROVE  Standing(x) \in Motions /\ Standing(x).from = Standing(x).to /\ Standing(x).left = 0
BY DEF Standing, Motions

-----------------------------------------------------------------------------
(* The stages of process_mob_ai keep a brain coherent.                     *)

\* handle_attack_windup.
LEMMA AfterWindupAwake ==
    ASSUME NEW b \in Brains, Coherent(b) PROVE Awake(AfterWindup(b))
<1>1. CASE b.mode # "AttackWindup" BY <1>1 DEF AfterWindup, Awake
<1>2. CASE b.mode = "AttackWindup"
  <2> DEFINE c == [b EXCEPT !.mode = "Pursuit", !.windup = 0, !.rethink = Settle]
  <2>1. AfterWindup(b) = c BY <1>2 DEF AfterWindup
  <2>2. c \in Brains BY Tunables DEF Brains, Modes
  <2>3. c.mode = "Pursuit" /\ c.target = b.target BY DEF Brains
  <2>4. b.target # Nobody BY <1>2 DEF Coherent
  <2> QED BY <2>1, <2>2, <2>3, <2>4 DEF Awake, Coherent
<1> QED BY <1>1, <1>2

\* A set of naturals that is not empty has a least element.
LEMMA LeastExists ==
    ASSUME NEW T \in SUBSET Nat, T # {} PROVE \E x \in T : \A y \in T : x <= y
<1> DEFINE R == OpToRel(<, Nat)
<1>1. IsWellFoundedOn(R, Nat) BY NatLessThanWellFounded
<1>2. \A x, y \in Nat : <<y, x>> \in R <=> y < x BY DEF OpToRel
<1> HIDE DEF R
<1>3. PICK x \in T : \A y \in T : ~(<<y, x>> \in R) BY <1>1, WFMin
<1>4. ASSUME NEW y \in T PROVE x <= y
  <2>1. x \in Nat /\ y \in Nat OBVIOUS
  <2>2. ~(y < x) BY <1>2, <1>3, <2>1
  <2> QED BY <2>1, <2>2
<1> QED BY <1>3, <1>4

\* A set of positions of a queue that is not empty has a last one.
LEMMA LastExists ==
    ASSUME NEW n \in Nat, NEW I \in SUBSET (1 .. n), I # {}
    PROVE  \E i \in I : \A j \in I : j <= i
<1> DEFINE T == {k \in Nat : \E i \in I : k = n - i}
<1>1. T \in SUBSET Nat OBVIOUS
<1>2. T # {}
  <2>1. PICK i \in I : TRUE OBVIOUS
  <2>2. n - i \in T OBVIOUS
  <2> QED BY <2>2
<1>3. PICK k \in T : \A y \in T : k <= y BY <1>1, <1>2, LeastExists
<1>4. PICK i \in I : k = n - i BY <1>3
<1>5. ASSUME NEW j \in I PROVE j <= i
  <2>1. n - j \in T OBVIOUS
  <2>2. k <= n - j BY <1>3, <2>1
  <2> QED BY <1>4, <2>2
<1> QED BY <1>5

\* The live provoker chosen from a queue is a player.
LEMMA LatestLiveIsPlayer ==
    ASSUME NEW q \in Seq(Players), Live(q) # {}
    PROVE  LatestLive(q) \in Players
<1>1. Live(q) \subseteq 1 .. Len(q) BY DEF Live
<1>2. \E i \in Live(q) : \A j \in Live(q) : j <= i
  <2>1. Len(q) \in Nat OBVIOUS
  <2> QED BY <1>1, <2>1, LastExists
<1> QED BY <1>1, <1>2 DEF LatestLive

\* apply_new_aggro.
LEMMA AfterAggroAwake ==
    ASSUME NEW b, Awake(b), NEW q \in Seq(Players) PROVE Awake(AfterAggro(b, q))
<1>1. CASE AfterAggro(b, q) = b BY <1>1
<1>2. CASE Live(q) # {}
           /\ AfterAggro(b, q) = [b EXCEPT !.target = LatestLive(q), !.mode = "Pursuit",
                                           !.rethink = 0]
  <2> DEFINE p == LatestLive(q)
             c == [b EXCEPT !.target = p, !.mode = "Pursuit", !.rethink = 0]
  <2>1. p \in Players /\ p # Nobody BY <1>2, LatestLiveIsPlayer, MobBrainAssumption
  <2> HIDE DEF p
  <2>2. c \in Brains BY <2>1 DEF Awake, Brains, Modes
  <2>3. c.mode = "Pursuit" /\ c.target = p BY DEF Awake, Brains
  <2> QED BY <1>2, <2>1, <2>2, <2>3 DEF Awake, Coherent, p
<1> QED BY <1>1, <1>2 DEF AfterAggro

\* acquire_idle_target.
LEMMA AfterAcquireAwake ==
    ASSUME NEW m \in Mobs, NEW x, NEW b, Awake(b), NEW c \in AfterAcquire(m, x, b)
    PROVE  Awake(c)
<1>1. CASE c = b BY <1>1
<1>2. ASSUME NEW p \in Players, Targetable(p),
             c = [b EXCEPT !.target = p, !.mode = "Pursuit", !.rethink = 0]
      PROVE  Awake(c)
  <2>1. p # Nobody BY MobBrainAssumption
  <2>2. c \in Brains BY <1>2 DEF Awake, Brains, Modes
  <2>3. c.mode = "Pursuit" /\ c.target = p BY <1>2 DEF Awake, Brains
  <2> QED BY <2>1, <2>2, <2>3 DEF Awake, Coherent
<1> QED BY <1>1, <1>2 DEF AfterAcquire, Nearest, InSight

\* validate_target.
LEMMA AfterValidateAwake == ASSUME NEW b, Awake(b) PROVE Awake(AfterValidate(b))
<1>1. CASE AfterValidate(b) = b BY <1>1
<1>2. CASE AfterValidate(b) = [b EXCEPT !.target = Nobody, !.mode = "Return"]
  <2> DEFINE c == [b EXCEPT !.target = Nobody, !.mode = "Return"]
  <2>1. c \in Brains /\ c.mode = "Return" /\ c.target = Nobody BY DEF Awake, Brains, Modes
  <2> QED BY <1>2, <2>1 DEF Awake, Coherent
<1> QED BY <1>1, <1>2 DEF AfterValidate

\* The pause after a wind-up.
LEMMA SettledAwake == ASSUME NEW a, NEW b, Awake(b) PROVE Awake(Settled(a, b))
<1>1. CASE Settled(a, b) = b BY <1>1
<1>2. CASE Settled(a, b) = [b EXCEPT !.rethink = Settle]
  <2> DEFINE c == [b EXCEPT !.rethink = Settle]
  <2>1. c \in Brains /\ c.mode = b.mode /\ c.target = b.target
    BY Tunables DEF Awake, Brains
  <2> QED BY <1>2, <2>1 DEF Awake, Coherent
<1> QED BY <1>1, <1>2 DEF Settled

-----------------------------------------------------------------------------
(* The outcomes.                                                           *)

\* Putting off the next thought keeps an awake brain awake.
LEMMA RethinkAwake ==
    ASSUME NEW b, Awake(b), NEW n \in Nat PROVE Awake([b EXCEPT !.rethink = n])
<1>1. /\ [b EXCEPT !.rethink = n] \in Brains
      /\ [b EXCEPT !.rethink = n].mode = b.mode
      /\ [b EXCEPT !.rethink = n].target = b.target
  BY DEF Awake, Brains
<1> QED BY <1>1 DEF Awake, Coherent

\* A mob that does nothing.
LEMMA StaysSound ==
    ASSUME NEW b, Awake(b), NEW s \in Motions PROVE Sound(Stays(b, s))
BY DEF Stays, Sound, Awake

\* A mob that walks.
LEMMA WalksSound ==
    ASSUME NEW b, Awake(b), NEW x \in Int, NEW y \in Int PROVE Sound(Walks(b, x, y))
<1> DEFINE d == Duration(x, y)
<1>1. d \in Nat /\ Snap(x) \in Int /\ Snap(y) \in Int BY DurationType, PlaceTypes
<1> HIDE DEF d
<1>2. [from |-> Snap(x), to |-> Snap(y), left |-> d, total |-> d] \in Motions
  BY <1>1 DEF Motions
<1> QED BY <1>2 DEF Walks, Sound, Awake, d

\* build_mob_move_action.
LEMMA MoveOrSound ==
    ASSUME NEW b, Awake(b), NEW s \in Motions, NEW x \in Int, NEW y \in Int
    PROVE  Sound(MoveOr(b, s, x, y))
<1>1. Lesser(Duration(x, y), Rethink) \in Nat BY DurationType, Tunables DEF Lesser
<1>2. Awake(FollowUp(b, Duration(x, y))) BY <1>1, RethinkAwake DEF FollowUp
<1> QED BY <1>2, StaysSound, WalksSound DEF MoveOr

\* handle_return.
LEMMA ReturnsSound ==
    ASSUME cast \in Casts, NEW m \in Mobs, NEW b, Awake(b), NEW s \in Motions
    PROVE  Sound(Returns(m, b, s))
<1>1. Sampled(s) \in Int /\ cast.home[m] \in Int
  BY SampledType, Tunables, MobBrainAssumption
<1>2. Awake(ToIdle(b))
  <2>1. ToIdle(b) \in Brains BY DEF Awake, ToIdle, Brains, Modes
  <2>2. ToIdle(b).mode = "Idle" /\ ToIdle(b).target = Nobody BY DEF Awake, ToIdle, Brains
  <2> QED BY <2>1, <2>2 DEF Awake, Coherent
<1> QED BY <1>1, <1>2, StaysSound, MoveOrSound DEF Returns

\* handle_idle.
LEMMA IdlesSound ==
    ASSUME NEW m \in Mobs, NEW b, Awake(b), NEW s \in Motions, NEW o \in Idles(m, b, s)
    PROVE  Sound(o)
<1>1. Sampled(s) \in Int BY SampledType
<1>2. ASSUME NEW w \in Nat, NEW d \in Nat
      PROVE  Awake([b EXCEPT !.decide = d, !.wait = w]) /\ Awake([b EXCEPT !.wait = w, !.decide = d])
  <2>1. /\ [b EXCEPT !.decide = d, !.wait = w] \in Brains
        /\ [b EXCEPT !.decide = d, !.wait = w].mode = b.mode
        /\ [b EXCEPT !.decide = d, !.wait = w].target = b.target
    BY DEF Awake, Brains
  <2>2. /\ [b EXCEPT !.wait = w, !.decide = d] \in Brains
        /\ [b EXCEPT !.wait = w, !.decide = d].mode = b.mode
        /\ [b EXCEPT !.wait = w, !.decide = d].target = b.target
    BY DEF Awake, Brains
  <2> QED BY <2>1, <2>2 DEF Awake, Coherent
<1>3. CASE o = Stays(b, s) BY <1>3, StaysSound
<1>4. ASSUME NEW d \in Pauses, o = Stays([b EXCEPT !.decide = d, !.wait = 0], s)
      PROVE  Sound(o)
  BY <1>2, <1>4, StaysSound, Tunables
<1>5. ASSUME NEW y \in WanderTargets(Sampled(s)), NEW d \in Pauses,
             o = Walks([b EXCEPT !.wait = Duration(Sampled(s), y),
                                 !.decide = Duration(Sampled(s), y) + d], Sampled(s), y)
      PROVE  Sound(o)
  <2>1. y \in Int BY Tunables DEF WanderTargets
  <2>2. Duration(Sampled(s), y) \in Nat /\ Duration(Sampled(s), y) + d \in Nat
    <3>1. Duration(Sampled(s), y) \in Nat BY <1>1, <2>1, DurationType
    <3>2. d \in Nat BY Tunables
    <3> QED BY <3>1, <3>2
  <2> DEFINE w == Duration(Sampled(s), y)
             e == Duration(Sampled(s), y) + d
  <2>3. w \in Nat /\ e \in Nat BY <2>2
  <2>4. o = Walks([b EXCEPT !.wait = w, !.decide = e], Sampled(s), y) BY <1>5
  <2> HIDE DEF w, e
  <2>5. Awake([b EXCEPT !.wait = w, !.decide = e]) BY <1>2, <2>3
  <2> DEFINE c == [b EXCEPT !.wait = w, !.decide = e]
  <2>6. Awake(c) /\ o = Walks(c, Sampled(s), y) BY <2>4, <2>5
  <2> HIDE DEF c
  <2>7. Sound(Walks(c, Sampled(s), y)) BY <1>1, <2>1, <2>6, WalksSound
  <2> QED BY <2>6, <2>7
<1>6. o = Stays(b, s) \/ o \in Decides(b, s) BY DEF Idles
<1>7. ASSUME o \in Decides(b, s)
      PROVE  \/ \E d \in Pauses : o = Stays([b EXCEPT !.decide = d, !.wait = 0], s)
             \/ \E y \in WanderTargets(Sampled(s)), d \in Pauses :
                  o = Walks([b EXCEPT !.wait = Duration(Sampled(s), y),
                                      !.decide = Duration(Sampled(s), y) + d], Sampled(s), y)
  BY <1>7 DEF Decides
<1> QED BY <1>3, <1>4, <1>5, <1>6, <1>7

\* apply_mob_attack: a mob that strikes stands still.
LEMMA StrikesSound ==
    ASSUME NEW b, Awake(b), b.target # Nobody, NEW s \in Motions PROVE Sound(Strikes(b, s))
<1>1. WoundUp(b) \in Brains BY Tunables DEF WoundUp, Awake, Brains, Modes
<1>2. WoundUp(b).mode = "AttackWindup" /\ WoundUp(b).target = b.target
  BY DEF WoundUp, Awake, Brains
<1>3. Snap(Sampled(s)) \in Int BY SampledType, PlaceTypes
<1> QED BY <1>1, <1>2, <1>3, StandingType DEF Strikes, Sound, Coherent

\* handle_pursuit.
LEMMA PursuesSound ==
    ASSUME NEW m \in Mobs, NEW b, Awake(b), b.target # Nobody, NEW s \in Motions,
           NEW t \in Bodies
    PROVE  Sound(Pursues(m, b, s, t))
<1> DEFINE x == Sampled(s)
           chase == ChaseTarget(m, x, t)
           len == ChaseStep(x, chase)
           dest == StepTowards(x, chase, len)
<1>1. x \in Int /\ t.at \in Int /\ t.to \in Int /\ s.left \in Nat
  BY SampledType DEF Bodies, Motions
<1> HIDE DEF x
<1>2. chase \in Int
  <2>1. Dist(x, t.at) \in Nat BY <1>1, PlaceTypes
  <2>2. Dist(x, t.at) * Speed \in Nat
    <3>1. \A i, j \in Nat : i * j \in Nat OBVIOUS
    <3> QED BY <2>1, <3>1, Tunables
  <2>3. \A k \in Nat, j \in Nat \ {0} : k \div j \in Nat OBVIOUS
  <2>4. (Dist(x, t.at) * Speed) \div (Speed + Stride) \in Int BY <2>2, <2>3, Tunables
  <2>5. Predicted(x, t) \in Int BY <1>1, <2>4, StepType DEF Predicted
  <2> QED BY <1>1, <2>5 DEF ChaseTarget
<1> HIDE DEF chase
<1>3. len \in Int BY <1>1, <1>2, PlaceTypes, Tunables DEF ChaseStep
<1> HIDE DEF len
<1>4. dest \in Int BY <1>1, <1>2, <1>3, StepType
<1> HIDE DEF dest
<1>5. Awake([b EXCEPT !.rethink = s.left + RangedSettle]) BY <1>1, RethinkAwake, Tunables
<1>6. Awake([b EXCEPT !.rethink = s.left]) BY <1>1, RethinkAwake
<1>7. Awake([b EXCEPT !.rethink = Rethink]) BY RethinkAwake, Tunables
<1>8. /\ Sound(Stays(b, s))
      /\ Sound(Stays([b EXCEPT !.rethink = s.left + RangedSettle], s))
      /\ Sound(Stays([b EXCEPT !.rethink = s.left], s))
      /\ Sound(Stays([b EXCEPT !.rethink = Rethink], s))
  BY <1>5, <1>6, <1>7, StaysSound
<1>9. Sound(Strikes(b, s)) BY StrikesSound
<1>10. Sound(MoveOr(b, s, x, dest)) BY <1>1, <1>4, MoveOrSound
<1> QED BY <1>8, <1>9, <1>10 DEF Pursues, x, chase, len, dest

\* Every thought of a mob is sound.
LEMMA ThoughtsSound ==
    ASSUME BrainTypes, NEW m \in Mobs, Coherent(brain[m]), NEW o \in Thoughts(m)
    PROVE  Sound(o)
<1> DEFINE b == brain[m]
           s == motion[m]
           woken == AfterAggro(AfterWindup(b), queue[m])
<1>1. b \in Brains /\ s \in Motions /\ queue[m] \in Seq(Players) BY DEF BrainTypes
<1>2. PICK c \in AfterAcquire(m, Sampled(s), woken) :
         o \in Chosen(m, Settled(b, AfterValidate(c)), s)
  BY DEF Thoughts
<1>3. Awake(woken)
  <2>1. Awake(AfterWindup(b)) BY <1>1, AfterWindupAwake
  <2> HIDE DEF b
  <2> QED BY <1>1, <2>1, AfterAggroAwake
<1> HIDE DEF woken
<1>4. Awake(c) BY <1>2, <1>3, AfterAcquireAwake
<1> DEFINE a == Settled(b, AfterValidate(c))
<1>5. Awake(a) BY <1>4, AfterValidateAwake, SettledAwake
<1>6. o \in Chosen(m, a, s) BY <1>2
<1> HIDE DEF a, b, s
<1>7. CASE a.target # Nobody
  <2>1. a.target \in Players BY <1>5, <1>7 DEF Awake, Brains
  <2>2. player[a.target] \in Bodies BY <2>1 DEF BrainTypes
  <2>3. o = Pursues(m, a, s, player[a.target]) BY <1>6, <1>7 DEF Chosen
  <2> QED BY <1>1, <1>5, <1>7, <2>2, <2>3, PursuesSound
<1>8. CASE a.target = Nobody /\ a.mode = "Return"
  <2>1. o = Returns(m, a, s) BY <1>6, <1>8 DEF Chosen
  <2> QED BY <1>1, <1>5, <2>1, ReturnsSound DEF BrainTypes
<1>9. CASE a.target = Nobody /\ a.mode # "Return"
  <2>1. o \in Idles(m, a, s) BY <1>6, <1>9 DEF Chosen
  <2> QED BY <1>1, <1>5, <2>1, IdlesSound
<1> QED BY <1>7, <1>8, <1>9

-----------------------------------------------------------------------------
(* The invariant.                                                          *)

BrainInv == BrainTypes /\ BrainsAreCoherent

\* A fresh brain.
LEMMA SpawnedBrain ==
    ASSUME NEW b \in Spawned
    PROVE  b \in Brains /\ b.mode = "Idle" /\ b.target = Nobody
<1>1. PICK d \in Pauses : b = [DefaultBrain EXCEPT !.decide = d] BY DEF Spawned
<1>2. d \in Nat BY Tunables
<1>3. b = [mode |-> "Idle", target |-> Nobody, attack |-> 0, windup |-> 0,
           rethink |-> 0, decide |-> d, wait |-> 0]
  BY <1>1 DEF DefaultBrain
<1> QED BY <1>2, <1>3 DEF Brains, Modes

\* A cast puts the homes of its mobs on the map.
LEMMA HomeType ==
    ASSUME NEW c \in Casts, NEW m \in Mobs PROVE c.home[m] \in Int
BY MobBrainAssumption, Tunables

\* A tick starts: instants come nearer, walks go on and end where they should.
LEMMA AdvanceStep == ASSUME BrainInv, Advance PROVE BrainInv'
<1>1. BrainTypes /\ BrainsAreCoherent BY DEF BrainInv
<1>2. ASSUME NEW b \in Brains
      PROVE  AgedBrain(b) \in Brains /\ AgedBrain(b).mode = b.mode
             /\ AgedBrain(b).target = b.target
  <2>1. \A n \in Nat : Down(n) \in Nat BY DEF Down
  <2>2. /\ Down(b.attack) \in Nat /\ Down(b.windup) \in Nat /\ Down(b.rethink) \in Nat
        /\ Down(b.decide) \in Nat /\ Down(b.wait) \in Nat
    BY <2>1 DEF Brains
  <2> QED BY <2>2 DEF AgedBrain, Brains
<1>3. ASSUME NEW s \in Motions
      PROVE  /\ AgedMotion(s) \in Motions
             /\ s.from = s.to /\ s.left = 0
                  => AgedMotion(s).from = AgedMotion(s).to /\ AgedMotion(s).left = 0
  <2>1. s.to \in Int /\ s.left \in Nat BY DEF Motions
  <2>2. CASE s.left <= 1 BY <2>1, <2>2, StandingType DEF AgedMotion
  <2>3. CASE ~(s.left <= 1) BY <2>1, <2>3 DEF AgedMotion, Motions
  <2> QED BY <2>2, <2>3
<1>4. ASSUME NEW p \in Players PROVE Walked(p) \in Bodies
  <2>1. player[p] \in Bodies /\ player[p].at \in Int /\ player[p].to \in Int
    BY <1>1 DEF BrainTypes, Bodies
  <2>2. StepTowards(player[p].at, player[p].to, Stride) \in Int
    <3>1. Stride \in Int BY Tunables
    <3> QED BY <2>1, <3>1, StepType
  <2> QED BY <2>1, <2>2 DEF Walked, Bodies
<1>5. brain' \in [Mobs -> Brains] BY <1>1, <1>2 DEF Advance, BrainTypes
<1>6. motion' \in [Mobs -> Motions] BY <1>1, <1>3 DEF Advance, BrainTypes
<1>7. player' \in [Players -> Bodies] BY <1>4 DEF Advance
<1>8. BrainTypes' BY <1>1, <1>5, <1>6, <1>7 DEF Advance, BrainTypes
<1>9. BrainsAreCoherent'
  <2> SUFFICES ASSUME NEW m \in Mobs
               PROVE  /\ Coherent(brain'[m])
                      /\ brain'[m].mode = "AttackWindup"
                           => motion'[m].from = motion'[m].to /\ motion'[m].left = 0
    BY DEF BrainsAreCoherent, Coherent
  <2>1. brain[m] \in Brains /\ motion[m] \in Motions BY <1>1 DEF BrainTypes
  <2>2. brain'[m].mode = brain[m].mode /\ brain'[m].target = brain[m].target
    BY <1>2, <2>1 DEF Advance
  <2>3. motion'[m] = AgedMotion(motion[m]) BY DEF Advance
  <2> QED BY <1>1, <1>3, <2>1, <2>2, <2>3 DEF BrainsAreCoherent, Coherent
<1> QED BY <1>8, <1>9 DEF BrainInv

\* A mob thinks.
LEMMA ThinkStep == ASSUME BrainInv, NEW m \in Mobs, Think(m) PROVE BrainInv'
<1>1. BrainTypes /\ BrainsAreCoherent BY DEF BrainInv
<1>2. PICK o \in Thoughts(m) : /\ brain' = [brain EXCEPT ![m] = o.brain]
                               /\ motion' = [motion EXCEPT ![m] = o.motion]
  BY DEF Think
<1>3. Sound(o) BY <1>1, <1>2, ThoughtsSound DEF BrainsAreCoherent, Coherent
<1>4. queue' \in [Mobs -> Seq(Players)] BY <1>1 DEF Think, BrainTypes
<1>5. BrainTypes' BY <1>1, <1>2, <1>3, <1>4 DEF Think, BrainTypes, Sound
<1>6. BrainsAreCoherent'
  BY <1>1, <1>2, <1>3 DEF BrainTypes, BrainsAreCoherent, Sound, Coherent
<1> QED BY <1>5, <1>6 DEF BrainInv

\* A provocation is queued, the oldest one lost when the queue is full.
LEMMA QueuedType ==
    ASSUME NEW q \in Seq(Players), NEW p \in Players PROVE Queued(q, p) \in Seq(Players)
BY DEF Queued

\* What happens between two ticks.
LEMMA OutsideStep ==
    ASSUME BrainInv,
           \/ \E p \in Players, m \in Mobs : Provoke(p, m)
           \/ \E p \in Players, x \in Spots : PlayerMoves(p, x)
           \/ \E p \in Players : PlayerFalls(p) \/ PlayerRestarts(p) \/ PlayerLeaves(p)
           \/ \E m \in Mobs : WindsUp(m) \/ MobDies(m) \/ MobRespawns(m)
    PROVE  BrainInv'
<1>1. BrainTypes /\ BrainsAreCoherent BY DEF BrainInv
<1>2. ASSUME NEW p \in Players, NEW m \in Mobs, Provoke(p, m) PROVE BrainInv'
  <2>1. queue' \in [Mobs -> Seq(Players)]
    BY <1>1, <1>2, QueuedType DEF Provoke, BrainTypes
  <2> QED BY <1>1, <1>2, <2>1 DEF Provoke, BrainInv, BrainTypes, BrainsAreCoherent
<1>3. ASSUME player' \in [Players -> Bodies],
             UNCHANGED <<cast, thinking, brain, motion, queue>>
      PROVE  BrainInv'
  BY <1>1, <1>3 DEF BrainInv, BrainTypes, BrainsAreCoherent
<1>4. ASSUME NEW p \in Players, NEW x \in Spots, PlayerMoves(p, x) PROVE BrainInv'
  <2>1. x \in Int BY Tunables
  <2>2. player' \in [Players -> Bodies]
    BY <1>1, <1>4, <2>1 DEF PlayerMoves, BrainTypes, Bodies
  <2> QED BY <1>3, <1>4, <2>2 DEF PlayerMoves
<1>5. ASSUME NEW p \in Players, PlayerFalls(p) PROVE BrainInv'
  <2>1. player' \in [Players -> Bodies] BY <1>1, <1>5 DEF PlayerFalls, BrainTypes, Bodies
  <2> QED BY <1>3, <1>5, <2>1 DEF PlayerFalls
<1>6. ASSUME NEW p \in Players, PlayerRestarts(p) PROVE BrainInv'
  <2>1. player' \in [Players -> Bodies] BY <1>1, <1>6 DEF PlayerRestarts, BrainTypes, Bodies
  <2> QED BY <1>3, <1>6, <2>1 DEF PlayerRestarts
<1>7. ASSUME NEW p \in Players, PlayerLeaves(p) PROVE BrainInv'
  <2>1. [life |-> "gone", at |-> 0, to |-> 0] \in Bodies BY DEF Bodies
  <2>2. player' \in [Players -> Bodies] BY <1>1, <1>7, <2>1 DEF PlayerLeaves, BrainTypes
  <2> QED BY <1>3, <1>7, <2>2 DEF PlayerLeaves
<1>8. ASSUME NEW m \in Mobs, WindsUp(m) PROVE BrainInv'
  BY <1>1, <1>8 DEF WindsUp, BrainInv, BrainTypes, BrainsAreCoherent
<1>9. ASSUME NEW m \in Mobs, NEW b \in Brains, b.mode = "Idle", b.target = Nobody,
             NEW x \in Int, brain' = [brain EXCEPT ![m] = b],
             motion' = [motion EXCEPT ![m] = Standing(x)],
             queue' = [queue EXCEPT ![m] = <<>>], UNCHANGED <<cast, thinking, player>>
      PROVE  BrainInv'
  <2>1. Standing(x) \in Motions BY <1>9, StandingType
  <2>2. queue' \in [Mobs -> Seq(Players)] BY <1>1, <1>9 DEF BrainTypes
  <2>3. BrainTypes' BY <1>1, <1>9, <2>1, <2>2 DEF BrainTypes
  <2>4. BrainsAreCoherent' BY <1>1, <1>9 DEF BrainTypes, BrainsAreCoherent
  <2> QED BY <2>3, <2>4 DEF BrainInv
<1>10. ASSUME NEW m \in Mobs, MobDies(m) PROVE BrainInv'
  <2> DEFINE b == [brain[m] EXCEPT !.mode = "Idle", !.target = Nobody, !.windup = 0,
                                   !.rethink = 0]
  <2>1. brain[m] \in Brains /\ motion[m].to \in Int BY <1>1 DEF BrainTypes, Motions
  <2>2. b \in Brains /\ b.mode = "Idle" /\ b.target = Nobody BY <2>1 DEF Brains, Modes
  <2>3. brain' = [brain EXCEPT ![m] = b] BY <1>1, <1>10 DEF MobDies, BrainTypes
  <2> HIDE DEF b
  <2> QED BY <1>9, <1>10, <2>1, <2>2, <2>3 DEF MobDies
<1>11. ASSUME NEW m \in Mobs, MobRespawns(m) PROVE BrainInv'
  <2>1. PICK b \in Spawned : brain' = [brain EXCEPT ![m] = b] BY <1>11 DEF MobRespawns
  <2>2. cast.home[m] \in Int BY <1>1, HomeType DEF BrainTypes
  <2> QED BY <1>9, <1>11, <2>1, <2>2, SpawnedBrain DEF MobRespawns
<1> QED BY <1>2, <1>4, <1>5, <1>6, <1>7, <1>8, <1>10, <1>11

\* Brains, motions, queues and players keep their types and every brain stays
\* coherent.
THEOREM BrainInvariant == Spec => []BrainInv
<1>1. Init => BrainInv
  <2> SUFFICES ASSUME Init PROVE BrainInv
    OBVIOUS
  <2>1. \A m \in Mobs : /\ brain[m] \in Brains /\ brain[m].mode = "Idle"
                        /\ brain[m].target = Nobody
    BY SpawnedBrain DEF Init
  <2>2. brain \in [Mobs -> Brains] BY <2>1 DEF Init
  <2>3. motion \in [Mobs -> Motions] BY StandingType, HomeType DEF Init
  <2>4. queue \in [Mobs -> Seq(Players)] BY DEF Init
  <2>5. player \in [Players -> Bodies]
    <3>1. [life |-> "gone", at |-> 0, to |-> 0] \in Bodies BY DEF Bodies
    <3>2. \A x \in Spots : [life |-> "up", at |-> x, to |-> x] \in Bodies
      BY Tunables DEF Bodies
    <3> QED BY <3>1, <3>2 DEF Init
  <2>6. BrainTypes BY <2>2, <2>3, <2>4, <2>5 DEF Init, BrainTypes
  <2>7. BrainsAreCoherent BY <2>1 DEF BrainsAreCoherent
  <2> QED BY <2>6, <2>7 DEF BrainInv
<1>2. BrainInv /\ [Next]_vars => BrainInv'
  <2> SUFFICES ASSUME BrainInv, [Next]_vars PROVE BrainInv'
    OBVIOUS
  <2>1. CASE UNCHANGED vars
    BY <2>1 DEF vars, BrainInv, BrainTypes, BrainsAreCoherent
  <2>2. CASE Next BY <2>2, AdvanceStep, ThinkStep, OutsideStep DEF Next, Tick
  <2> QED BY <2>1, <2>2
<1> QED BY <1>1, <1>2, PTL DEF Spec

\* The mode and the target of a brain agree and a mob that winds up stands
\* still, whatever provokes it, falls, leaves or dies in between.
THEOREM BrainsStayCoherent == Spec => []BrainsAreCoherent
<1>1. BrainInv => BrainsAreCoherent BY DEF BrainInv
<1> QED BY <1>1, BrainInvariant, PTL
===============================================================================
