--------------------------- MODULE PlayerBodyProofs ---------------------------
(***************************************************************************)
(* Proofs about a player's recovery tickers and stats, for every rate,     *)
(* cadence and limit.                                                      *)
(***************************************************************************)
EXTENDS PlayerStats, Recovery, WellFoundedInduction, TLAPS

-----------------------------------------------------------------------------
(* The recovery tickers.                                                   *)

\* The constants of the tickers are positive numbers.
LEMMA RecoveryNumbers ==
    /\ HpFull \in Nat \ {0} /\ SpFull \in Nat \ {0} /\ StaminaFull \in Nat \ {0}
    /\ StaminaRate \in Nat \ {0} /\ Period \in Nat \ {0} /\ Second \in Nat \ {0}
    /\ Cadence \in Nat \ {0} /\ RestDelay \in Nat \ {0} /\ WalkDelay \in Nat \ {0}
    /\ CombatWindow \in Nat \ {0}
    /\ \A k \in {"moved", "rested"} : HpRate[k] \in Nat
    /\ \A k \in {"fought", "moved", "rested"} : SpRate[k] \in Nat
    /\ \A d \in TickSteps \cup Walks : d \in Nat \ {0}
BY RecoveryAssumption

\* RateAccumulator::accrue keeps less than a whole point for later.
LEMMA AccrueType ==
    ASSUME NEW r \in Nat, NEW rate \in Nat, NEW per \in Nat \ {0}, NEW elapsed \in Nat
    PROVE  /\ Accrue(r, rate, per, elapsed).whole \in Nat
           /\ Accrue(r, rate, per, elapsed).left \in 0 .. per - 1
<1> DEFINE t == r + rate * elapsed
<1>1. rate * elapsed \in Nat
  <2>1. \A a, b \in Nat : a * b \in Nat OBVIOUS
  <2> QED BY <2>1
<1>2. t \in Nat BY <1>1
<1>3. Accrue(r, rate, per, elapsed) = [whole |-> t \div per, left |-> t % per]
  BY DEF Accrue
<1> HIDE DEF t
<1>4. \A a \in Nat, b \in Nat \ {0} : a \div b \in Nat /\ a % b \in 0 .. b - 1
  OBVIOUS
<1>5. t \div per \in Nat /\ t % per \in 0 .. per - 1 BY <1>2, <1>4
<1> QED BY <1>3, <1>5

\* accrue_passive_hp and accrue_passive_sp never take anything and never
\* exceed the maximum.
LEMMA PassiveType ==
    ASSUME NEW max \in Nat, NEW value \in 0 .. max, NEW r \in Nat, NEW rate \in Nat,
           NEW elapsed \in Nat
    PROVE  /\ Passive(value, max, r, rate, elapsed).value \in value .. max
           /\ Passive(value, max, r, rate, elapsed).left \in 0 .. Period - 1
<1> DEFINE got == Accrue(r, rate, Period, elapsed)
<1>1. got.whole \in Nat /\ got.left \in 0 .. Period - 1 BY AccrueType, RecoveryNumbers
<1>2. Period \in Nat \ {0} BY RecoveryNumbers
<1> HIDE DEF got
<1> QED BY <1>1, <1>2 DEF Passive, got

\* The rates of passive_hp_rate and passive_sp_rate.
LEMMA RateType ==
    ASSUME NEW hp PROVE PassiveHpRate \in Nat /\ PassiveSpRate(hp) \in Nat
BY RecoveryNumbers DEF PassiveHpRate, PassiveSpRate

\* A living player has a hit point left.
AliveHasHp == alive => res.hp >= 1

RecoveryInv == RecoveryTypeOK /\ AliveHasHp /\ ForcedWalkEnds

\* Time passing keeps the ages and the clock well typed.
LEMMA TimePassesType ==
    ASSUME RecoveryTypeOK, NEW d \in TickSteps, NEW c \in [since : Nat, due : Int],
           NEW w \in 0 .. WalkDelay + 1, TimePasses(d, c, w)
    PROVE  /\ clock' \in [since : Nat, due : Int]
           /\ motion' \in Int /\ motion' >= NeverMoved
           /\ since' \in [attack : 0 .. CombatWindow, walk : 0 .. WalkDelay + 1]
<1>1. d \in Nat \ {0} /\ RestDelay \in Nat /\ WalkDelay \in Nat /\ CombatWindow \in Nat
  BY RecoveryNumbers
<1>2. clock' \in [since : Nat, due : Int] BY <1>1 DEF TimePasses
<1>3. motion' \in Int /\ motion' >= NeverMoved
  BY <1>1 DEF TimePasses, RecoveryTypeOK, Upper, NeverMoved
<1>4. Aged(since.attack, d, CombatWindow) \in 0 .. CombatWindow
  BY <1>1 DEF RecoveryTypeOK, Aged, Lower
<1>5. Aged(w, d, WalkDelay + 1) \in 0 .. WalkDelay + 1 BY <1>1 DEF Aged, Lower
<1>6. since' \in [attack : 0 .. CombatWindow, walk : 0 .. WalkDelay + 1]
  BY <1>4, <1>5 DEF TimePasses
<1> QED BY <1>2, <1>3, <1>6

\* tick_stamina: the pool stays within its limits, and a walk is forced only
\* when it is empty and lifted when it is filled.
LEMMA StaminaTickType ==
    ASSUME RecoveryTypeOK, NEW elapsed \in Nat
    PROVE  LET st == StaminaTick(elapsed) IN
           /\ st.stamina \in 0 .. StaminaFull
           /\ st.left \in 0 .. Second - 1
           /\ st.mode \in {"walk", "run"}
           /\ st.walks \in BOOLEAN
           /\ st.timer \in [on : BOOLEAN, told : BOOLEAN]
           /\ st.mode # pref =>
                \/ st.stamina = 0
                \/ st.mode = mode /\ res.stamina # 0
<1>1. /\ res.stamina \in 0 .. StaminaFull /\ StaminaFull \in Nat \ {0} /\ Second \in Nat \ {0}
      /\ rem.stamina \in Nat /\ StaminaRate \in Nat
      /\ mode \in {"walk", "run"} /\ pref \in {"walk", "run"}
  BY RecoveryNumbers DEF RecoveryTypeOK
<1>2. timer.on \in BOOLEAN /\ timer.told \in BOOLEAN BY DEF RecoveryTypeOK
<1>3. CASE RunsInCombat
  <2> DEFINE got == Accrue(rem.stamina, StaminaRate, Second, elapsed)
             after == res.stamina - Lower(got.whole, res.stamina)
             off == [on |-> FALSE, told |-> IF timer.on THEN FALSE ELSE timer.told]
             on == [on |-> TRUE, told |-> IF timer.on THEN timer.told ELSE TRUE]
  <2>1. got.whole \in Nat /\ got.left \in 0 .. Second - 1 BY <1>1, AccrueType
  <2>2. after \in 0 .. res.stamina BY <1>1, <2>1 DEF Lower
  <2>3. res.stamina # 0 BY <1>1, <1>3 DEF RunsInCombat, AsWalking
  <2>4. off \in [on : BOOLEAN, told : BOOLEAN] /\ on \in [on : BOOLEAN, told : BOOLEAN]
    BY <1>2
  <2>5. StaminaTick(elapsed) =
          IF after <= 0
          THEN [stamina |-> 0, left |-> 0, mode |-> "walk", walks |-> TRUE, timer |-> off]
          ELSE [stamina |-> after, left |-> got.left, mode |-> mode, walks |-> FALSE,
                timer |-> on]
    BY <1>3 DEF StaminaTick, Consumed
  <2> HIDE DEF got, after, off, on
  <2>6. CASE after <= 0 BY <1>1, <2>4, <2>5, <2>6
  <2>7. CASE ~(after <= 0) BY <1>1, <2>1, <2>2, <2>3, <2>4, <2>5, <2>7
  <2> QED BY <2>6, <2>7
<1>4. CASE ~RunsInCombat
  <2> DEFINE off == [on |-> FALSE, told |-> IF timer.on THEN FALSE ELSE timer.told]
             full == res.stamina < StaminaFull /\ RestoreReady
  <2>1. off \in [on : BOOLEAN, told : BOOLEAN] BY <1>2
  <2>2. StaminaTick(elapsed) =
          [stamina |-> IF full THEN StaminaFull ELSE res.stamina, left |-> 0,
           mode |-> IF full THEN ModeAfterRestore ELSE mode, walks |-> FALSE, timer |-> off]
    BY <1>4 DEF StaminaTick, Rested
  <2>3. ModeAfterRestore = IF res.stamina = 0 THEN pref ELSE mode
    BY <1>1 DEF ModeAfterRestore
  <2> HIDE DEF off, full
  <2>4. CASE full BY <1>1, <2>1, <2>2, <2>3, <2>4
  <2>5. CASE ~full BY <1>1, <2>1, <2>2, <2>5
  <2> QED BY <2>4, <2>5
<1> QED BY <1>3, <1>4

\* A tick of the map.
LEMMA StatTickStep == ASSUME RecoveryInv, StatTick PROVE RecoveryInv'
<1>1. RecoveryTypeOK /\ AliveHasHp /\ ForcedWalkEnds BY DEF RecoveryInv
<1>2. /\ res \in [hp : 0 .. HpFull, sp : 0 .. SpFull, stamina : 0 .. StaminaFull]
      /\ rem \in [hp : 0 .. Period - 1, sp : 0 .. Period - 1, stamina : 0 .. Second - 1]
      /\ clock \in [since : Nat, due : Int] /\ since.walk \in 0 .. WalkDelay + 1
      /\ timer \in [on : BOOLEAN, told : BOOLEAN]
  BY <1>1 DEF RecoveryTypeOK
<1>3. PICK d \in TickSteps : TickPaused(d) \/ TickEarly(d) \/ TickDue(d) BY DEF StatTick
<1>4. CASE TickPaused(d)
  <2>1. RetriedClock \in [since : Nat, due : Int] BY RecoveryNumbers DEF RetriedClock
  <2>2. TimePasses(d, RetriedClock, since.walk) BY <1>4 DEF TickPaused
  <2>3. /\ clock' \in [since : Nat, due : Int] /\ motion' \in Int /\ motion' >= NeverMoved
        /\ since' \in [attack : 0 .. CombatWindow, walk : 0 .. WalkDelay + 1]
    BY <1>1, <1>2, <2>1, <2>2, TimePassesType
  <2>4. rem' \in [hp : 0 .. Period - 1, sp : 0 .. Period - 1, stamina : 0 .. Second - 1]
    BY <1>4, RecoveryNumbers DEF TickPaused, NoRemainder
  <2>5. timer' \in [on : BOOLEAN, told : BOOLEAN] BY <1>2, <1>4 DEF TickPaused
  <2>6. RecoveryTypeOK' BY <1>1, <1>4, <2>3, <2>4, <2>5 DEF TickPaused, RecoveryTypeOK, NeverMoved
  <2> QED BY <1>4, <2>6 DEF TickPaused, RecoveryInv, AliveHasHp, ForcedWalkEnds
<1>5. CASE TickEarly(d)
  <2>1. TimePasses(d, clock, since.walk) BY <1>5 DEF TickEarly
  <2>2. /\ clock' \in [since : Nat, due : Int] /\ motion' \in Int /\ motion' >= NeverMoved
        /\ since' \in [attack : 0 .. CombatWindow, walk : 0 .. WalkDelay + 1]
    BY <1>1, <1>2, <2>1, TimePassesType
  <2>3. RecoveryTypeOK' BY <1>1, <1>5, <2>2 DEF TickEarly, RecoveryTypeOK, NeverMoved
  <2> QED BY <1>1, <1>5, <2>3 DEF TickEarly, RecoveryInv, AliveHasHp, ForcedWalkEnds
<1>6. CASE TickDue(d)
  <2> DEFINE e == clock.since
             hp == HpTick(e)
             sp == SpTick(hp.value, e)
             st == StaminaTick(e)
             c == [since |-> 0, due |-> DuePast(clock.due)]
             w == IF st.walks THEN 0 ELSE since.walk
  <2>1. /\ alive /\ res' = [hp |-> hp.value, sp |-> sp.value, stamina |-> st.stamina]
        /\ rem' = [hp |-> hp.left, sp |-> sp.left, stamina |-> st.left]
        /\ mode' = st.mode /\ timer' = st.timer /\ refilled' = (refilled /\ mode' # pref)
        /\ TimePasses(d, c, w) /\ UNCHANGED <<caster, alive, pref>>
    BY <1>6 DEF TickDue
  <2>2. e \in Nat /\ res.hp \in 0 .. HpFull /\ res.sp \in 0 .. SpFull
        /\ rem.hp \in Nat /\ rem.sp \in Nat /\ HpFull \in Nat /\ SpFull \in Nat
    BY <1>2, RecoveryNumbers
  <2> HIDE DEF e
  <2>3. hp.value \in res.hp .. HpFull /\ hp.left \in 0 .. Period - 1
    BY <2>2, PassiveType, RateType DEF HpTick
  <2> HIDE DEF hp
  <2>4. sp.value \in res.sp .. SpFull /\ sp.left \in 0 .. Period - 1
    BY <2>2, PassiveType, RateType DEF SpTick
  <2> HIDE DEF sp
  <2>5. /\ st.stamina \in 0 .. StaminaFull /\ st.left \in 0 .. Second - 1
        /\ st.mode \in {"walk", "run"} /\ st.walks \in BOOLEAN
        /\ st.timer \in [on : BOOLEAN, told : BOOLEAN]
        /\ st.mode # pref => st.stamina = 0 \/ (st.mode = mode /\ res.stamina # 0)
    BY <1>1, <2>2, StaminaTickType
  <2> HIDE DEF st
  <2>6. c \in [since : Nat, due : Int]
    <3>1. clock.due \in Int /\ Cadence \in Nat \ {0} BY <1>2, RecoveryNumbers
    <3>2. \A a \in Int, b \in Nat \ {0} : a % b \in Int OBVIOUS
    <3>3. (0 - clock.due) % Cadence \in Int BY <3>1, <3>2
    <3> QED BY <3>1, <3>3 DEF DuePast
  <2>7. w \in 0 .. WalkDelay + 1 BY <1>2, RecoveryNumbers
  <2> HIDE DEF c, w
  <2>8. /\ clock' \in [since : Nat, due : Int] /\ motion' \in Int /\ motion' >= NeverMoved
        /\ since' \in [attack : 0 .. CombatWindow, walk : 0 .. WalkDelay + 1]
    BY <1>1, <2>1, <2>6, <2>7, TimePassesType
  <2>9. res' \in [hp : 0 .. HpFull, sp : 0 .. SpFull, stamina : 0 .. StaminaFull]
    BY <2>1, <2>2, <2>3, <2>4, <2>5
  <2>10. rem' \in [hp : 0 .. Period - 1, sp : 0 .. Period - 1, stamina : 0 .. Second - 1]
    BY <2>1, <2>3, <2>4, <2>5
  <2>11. mode' \in {"walk", "run"} /\ pref' \in {"walk", "run"}
         /\ timer' \in [on : BOOLEAN, told : BOOLEAN]
    BY <1>1, <2>1, <2>5 DEF RecoveryTypeOK
  <2>12. refilled' \in BOOLEAN /\ caster' \in BOOLEAN /\ alive' \in BOOLEAN
    BY <1>1, <2>1 DEF RecoveryTypeOK
  <2>13. RecoveryTypeOK'
    BY <2>8, <2>9, <2>10, <2>11, <2>12 DEF RecoveryTypeOK, NeverMoved
  <2>14. AliveHasHp' BY <1>1, <2>1, <2>2, <2>3 DEF AliveHasHp
  <2>15. ForcedWalkEnds'
    <3> SUFFICES ASSUME st.mode # pref PROVE st.stamina = 0 \/ refilled
      BY <2>1 DEF ForcedWalkEnds
    <3> QED BY <1>1, <2>1, <2>5 DEF ForcedWalkEnds
  <2> QED BY <2>13, <2>14, <2>15 DEF RecoveryInv
<1> QED BY <1>3, <1>4, <1>5, <1>6

\* What happens between the runs of the tickers.
LEMMA BetweenTicksStep ==
    ASSUME RecoveryInv,
           \/ \E length \in Walks \cup {0} : Moves(length)
           \/ BeginsAttack
           \/ \E animation \in {"walk", "run"} : Toggles(animation)
           \/ Hurt \/ Restarts \/ LevelGained
    PROVE  RecoveryInv'
<1>1. RecoveryTypeOK /\ AliveHasHp /\ ForcedWalkEnds BY DEF RecoveryInv
<1>2. /\ res \in [hp : 0 .. HpFull, sp : 0 .. SpFull, stamina : 0 .. StaminaFull]
      /\ since \in [attack : 0 .. CombatWindow, walk : 0 .. WalkDelay + 1]
      /\ timer \in [on : BOOLEAN, told : BOOLEAN]
  BY <1>1 DEF RecoveryTypeOK
<1>3. /\ HpFull \in Nat \ {0} /\ SpFull \in Nat /\ StaminaFull \in Nat
      /\ RestDelay \in Nat \ {0} /\ WalkDelay \in Nat /\ CombatWindow \in Nat
      /\ Period \in Nat \ {0} /\ Second \in Nat \ {0} /\ Cadence \in Nat
  BY RecoveryNumbers
<1>4. ASSUME NEW length \in Walks \cup {0}, Moves(length) PROVE RecoveryInv'
  <2>1. motion' \in Int /\ motion' >= NeverMoved
    BY <1>3, <1>4, RecoveryNumbers DEF Moves, NeverMoved
  <2>2. RecoveryTypeOK' BY <1>1, <1>4, <2>1 DEF Moves, RecoveryTypeOK, NeverMoved
  <2> QED BY <1>1, <1>4, <2>2 DEF Moves, RecoveryInv, AliveHasHp, ForcedWalkEnds
<1>5. CASE BeginsAttack
  <2>1. since' \in [attack : 0 .. CombatWindow, walk : 0 .. WalkDelay + 1]
    BY <1>2, <1>3, <1>5 DEF BeginsAttack
  <2>2. RecoveryTypeOK' BY <1>1, <1>5, <2>1 DEF BeginsAttack, RecoveryTypeOK, NeverMoved
  <2> QED BY <1>1, <1>5, <2>2 DEF BeginsAttack, RecoveryInv, AliveHasHp, ForcedWalkEnds
<1>6. ASSUME NEW animation \in {"walk", "run"}, Toggles(animation) PROVE RecoveryInv'
  <2>1. since' \in [attack : 0 .. CombatWindow, walk : 0 .. WalkDelay + 1]
    BY <1>2, <1>3, <1>6 DEF Toggles
  <2>2. mode' = animation /\ pref' = animation /\ refilled' = FALSE
        /\ UNCHANGED <<caster, alive, res, rem, clock, motion, timer>>
    BY <1>6 DEF Toggles
  <2>3. RecoveryTypeOK' BY <1>1, <2>1, <2>2 DEF RecoveryTypeOK, NeverMoved
  <2> QED BY <1>1, <2>2, <2>3 DEF RecoveryInv, AliveHasHp, ForcedWalkEnds
<1>7. CASE Hurt
  <2>1. /\ alive /\ res' = [res EXCEPT !.hp = res.hp - 1] /\ alive' = (res.hp > 1)
        /\ UNCHANGED <<caster, rem, clock, motion, since, mode, pref, timer, refilled>>
    BY <1>7 DEF Hurt
  <2>2. res.hp - 1 \in 0 .. HpFull BY <1>1, <1>2, <1>3, <2>1 DEF AliveHasHp
  <2>3. /\ res' \in [hp : 0 .. HpFull, sp : 0 .. SpFull, stamina : 0 .. StaminaFull]
        /\ res'.hp = res.hp - 1 /\ res'.stamina = res.stamina
    BY <1>2, <2>1, <2>2
  <2>4. alive' \in BOOLEAN BY <2>1
  <2>5. RecoveryTypeOK' BY <1>1, <2>1, <2>3, <2>4 DEF RecoveryTypeOK, NeverMoved
  <2>6. AliveHasHp'
    <3>1. res.hp \in Int BY <1>2, <1>3
    <3>2. res.hp > 1 => res.hp - 1 >= 1 BY <3>1
    <3>3. alive' => res.hp > 1 BY <2>1
    <3>4. alive' => res'.hp >= 1 BY <2>3, <3>2, <3>3
    <3> QED BY <3>4 DEF AliveHasHp
  <2>7. ForcedWalkEnds' BY <1>1, <2>1, <2>3 DEF ForcedWalkEnds
  <2> QED BY <2>5, <2>6, <2>7 DEF RecoveryInv
<1>8. CASE Restarts
  <2>1. /\ alive' = TRUE /\ res' = [res EXCEPT !.hp = 1] /\ mode' = "run" /\ pref' = "run"
        /\ motion' = NeverMoved /\ since' = NeverActed /\ rem' = NoRemainder
        /\ clock' = RetriedClock /\ timer' = [timer EXCEPT !.on = FALSE]
        /\ refilled' = FALSE /\ caster' = caster
    BY <1>8 DEF Restarts
  <2>2. /\ res' \in [hp : 0 .. HpFull, sp : 0 .. SpFull, stamina : 0 .. StaminaFull]
        /\ res'.hp = 1
    BY <1>2, <1>3, <2>1
  <2>3. rem' \in [hp : 0 .. Period - 1, sp : 0 .. Period - 1, stamina : 0 .. Second - 1]
    BY <1>3, <2>1 DEF NoRemainder
  <2>4. clock' \in [since : Nat, due : Int] BY <1>3, <2>1 DEF RetriedClock
  <2>5. motion' \in Int /\ motion' >= NeverMoved BY <1>3, <2>1 DEF NeverMoved
  <2>6. since' \in [attack : 0 .. CombatWindow, walk : 0 .. WalkDelay + 1]
    BY <1>3, <2>1 DEF NeverActed
  <2>7. timer' \in [on : BOOLEAN, told : BOOLEAN] BY <1>2, <2>1
  <2>8. RecoveryTypeOK'
    BY <1>1, <2>1, <2>2, <2>3, <2>4, <2>5, <2>6, <2>7 DEF RecoveryTypeOK, NeverMoved
  <2> QED BY <2>1, <2>2, <2>8 DEF RecoveryInv, AliveHasHp, ForcedWalkEnds
<1>9. CASE LevelGained
  <2>1. /\ res' = Cap /\ refilled' = (refilled \/ mode # pref)
        /\ UNCHANGED <<caster, alive, rem, clock, motion, since, mode, pref, timer>>
    BY <1>9 DEF LevelGained
  <2>2. /\ res' \in [hp : 0 .. HpFull, sp : 0 .. SpFull, stamina : 0 .. StaminaFull]
        /\ res'.hp = HpFull
    BY <1>3, <2>1 DEF Cap
  <2>3. refilled' \in BOOLEAN BY <2>1
  <2>4. RecoveryTypeOK' BY <1>1, <2>1, <2>2, <2>3 DEF RecoveryTypeOK, NeverMoved
  <2>5. AliveHasHp' BY <1>3, <2>2 DEF AliveHasHp
  <2>6. ForcedWalkEnds' BY <2>1 DEF ForcedWalkEnds
  <2> QED BY <2>4, <2>5, <2>6 DEF RecoveryInv
<1> QED BY <1>4, <1>5, <1>6, <1>7, <1>8, <1>9

\* The tickers keep every resource within its limits, and the walk.
THEOREM RecoveryInvariant == RecoverySpec => []RecoveryInv
<1>1. RecoveryInit => RecoveryInv
  <2> SUFFICES ASSUME RecoveryInit PROVE RecoveryInv
    OBVIOUS
  <2>1. res \in [hp : 0 .. HpFull, sp : 0 .. SpFull, stamina : 0 .. StaminaFull] /\ res.hp >= 1
    BY RecoveryNumbers DEF RecoveryInit
  <2>2. rem \in [hp : 0 .. Period - 1, sp : 0 .. Period - 1, stamina : 0 .. Second - 1]
    BY RecoveryNumbers DEF RecoveryInit, NoRemainder
  <2>3. clock \in [since : Nat, due : Int] BY DEF RecoveryInit
  <2>4. motion \in Int /\ motion >= NeverMoved BY RecoveryNumbers DEF RecoveryInit, NeverMoved
  <2>5. since \in [attack : 0 .. CombatWindow, walk : 0 .. WalkDelay + 1]
    BY RecoveryNumbers DEF RecoveryInit, NeverActed
  <2>6. timer \in [on : BOOLEAN, told : BOOLEAN] /\ caster \in BOOLEAN
        /\ alive \in BOOLEAN /\ refilled \in BOOLEAN
    BY DEF RecoveryInit
  <2>7. RecoveryTypeOK BY <2>1, <2>2, <2>3, <2>4, <2>5, <2>6 DEF RecoveryInit, RecoveryTypeOK
  <2> QED BY <2>1, <2>7 DEF RecoveryInit, RecoveryInv, AliveHasHp, ForcedWalkEnds
<1>2. RecoveryInv /\ [RecoveryNext]_recoveryVars => RecoveryInv'
  <2> SUFFICES ASSUME RecoveryInv, [RecoveryNext]_recoveryVars PROVE RecoveryInv'
    OBVIOUS
  <2>1. CASE UNCHANGED recoveryVars
    BY <2>1 DEF recoveryVars, RecoveryInv, RecoveryTypeOK, AliveHasHp, ForcedWalkEnds, NeverMoved
  <2>2. CASE RecoveryNext BY <2>2, StatTickStep, BetweenTicksStep DEF RecoveryNext
  <2> QED BY <2>1, <2>2
<1> QED BY <1>1, <1>2, PTL DEF RecoverySpec

\* Type correctness of the tickers: no resource ever leaves its limits and no
\* accumulator holds a whole point back.
THEOREM RecoveryTypes == RecoverySpec => []RecoveryTypeOK
<1>1. RecoveryInv => RecoveryTypeOK BY DEF RecoveryInv
<1> QED BY <1>1, RecoveryInvariant, PTL

\* A player is held to a walk only while out of stamina, but for a level
\* gained meanwhile.
THEOREM ForcedWalksEnd == RecoverySpec => []ForcedWalkEnds
<1>1. RecoveryInv => ForcedWalkEnds BY DEF RecoveryInv
<1> QED BY <1>1, RecoveryInvariant, PTL

-----------------------------------------------------------------------------
(* The stat kernel and its client.                                         *)

\* k is a kernel: a record of these fields, whatever the values of the stats.
IsKernel(k) ==
    /\ k = [base |-> k.base, comp |-> k.comp, hp |-> k.hp, explicit |-> k.explicit,
            dirty |-> k.dirty, pending |-> k.pending, public |-> k.public]
    /\ k.base = [s \in Stored |-> k.base[s]]
    /\ k.comp = [s \in Computed |-> k.comp[s]]
    /\ k.dirty \in BOOLEAN

\* What the client will hold of s, and the neighbours of the level, once what
\* is pending in k has reached those who now hold sh and lk.
Told(k, sh, s) == IF s \in DOMAIN k.pending THEN k.pending[s] ELSE sh[s]
Seen(k, lk) == IF k.public = <<>> THEN lk ELSE k.public[1]

\* Nothing is lost: a stat the client would be left wrong about is marked, and
\* a marked kernel is dirty, so the next normalize looks at it.
Synced(k, sh, lk) ==
    /\ \A s \in Wire : s \notin k.explicit => Told(k, sh, s) = ReadPacket(k, s)
    /\ "level" \notin k.explicit => Seen(k, lk) = k.base.level
    /\ ~k.dirty => k.explicit = {}

\* Setting a stored stat or the hit points marks what it changes
\* (set_stored_stat and set_resource).
LEMMA SettersKeepSynced ==
    ASSUME NEW k, NEW sh, NEW lk, IsKernel(k), Synced(k, sh, lk), NEW v
    PROVE  /\ IsKernel(SetResource(k, v)) /\ Synced(SetResource(k, v), sh, lk)
           /\ SetResource(k, v).base = k.base
           /\ \A s \in Stored :
                 /\ IsKernel(SetStored(k, s, v)) /\ Synced(SetStored(k, s, v), sh, lk)
                 /\ SetStored(k, s, v).base[s] = v
                 /\ \A t \in Stored \ {s} : SetStored(k, s, v).base[t] = k.base[t]
<1>1. k = [base |-> k.base, comp |-> k.comp, hp |-> k.hp, explicit |-> k.explicit,
           dirty |-> k.dirty, pending |-> k.pending, public |-> k.public]
      /\ k.base = [s \in Stored |-> k.base[s]]
      /\ k.comp = [s \in Computed |-> k.comp[s]]
  BY DEF IsKernel
<1>2. IsKernel(SetResource(k, v)) /\ Synced(SetResource(k, v), sh, lk)
      /\ SetResource(k, v).base = k.base
  <2>1. CASE k.hp = v BY <2>1 DEF SetResource
  <2>2. CASE k.hp # v
    <3> DEFINE n == SetResource(k, v)
    <3>1. n = [base |-> k.base, comp |-> k.comp, hp |-> v, explicit |-> k.explicit \cup {"hp"},
               dirty |-> TRUE, pending |-> k.pending, public |-> k.public]
      BY <1>1, <2>2 DEF SetResource, Touched
    <3> HIDE DEF n
    <3>2. IsKernel(n) BY <1>1, <3>1 DEF IsKernel
    <3>3. \A s \in Wire : s # "hp" => ReadPacket(n, s) = ReadPacket(k, s)
      BY <3>1 DEF ReadPacket
    <3>4. \A s \in Wire : Told(n, sh, s) = Told(k, sh, s) BY <3>1 DEF Told
    <3>5. Seen(n, lk) = Seen(k, lk) BY <3>1 DEF Seen
    <3>6. Synced(n, sh, lk) BY <3>1, <3>3, <3>4, <3>5 DEF Synced
    <3> QED BY <3>1, <3>2, <3>6 DEF n
  <2> QED BY <2>1, <2>2
<1>3. ASSUME NEW s \in Stored
      PROVE  /\ IsKernel(SetStored(k, s, v)) /\ Synced(SetStored(k, s, v), sh, lk)
             /\ SetStored(k, s, v).base[s] = v
             /\ \A t \in Stored \ {s} : SetStored(k, s, v).base[t] = k.base[t]
  <2>1. CASE k.base[s] = v BY <2>1 DEF SetStored
  <2>2. CASE k.base[s] # v
    <3> DEFINE n == SetStored(k, s, v)
               b == [k.base EXCEPT ![s] = v]
    <3>1. n = [base |-> b, comp |-> k.comp, hp |-> k.hp, explicit |-> k.explicit \cup {s},
               dirty |-> TRUE, pending |-> k.pending, public |-> k.public]
      BY <1>1, <2>2 DEF SetStored, Touched
    <3>2. b[s] = v /\ (\A t \in Stored \ {s} : b[t] = k.base[t]) /\ b = [t \in Stored |-> b[t]]
      BY <1>1
    <3> HIDE DEF n, b
    <3>3. IsKernel(n) BY <1>1, <3>1, <3>2 DEF IsKernel
    <3>4. \A t \in Wire : t # s => ReadPacket(n, t) = ReadPacket(k, t)
      BY <3>1, <3>2 DEF ReadPacket, Wire, Computed, Stored
    <3>5. \A t \in Wire : Told(n, sh, t) = Told(k, sh, t) BY <3>1 DEF Told
    <3>6. Seen(n, lk) = Seen(k, lk) BY <3>1 DEF Seen
    <3>7. "level" \notin n.explicit => n.base.level = k.base.level
      BY <3>1, <3>2 DEF Stored
    <3>8. Synced(n, sh, lk) BY <3>1, <3>4, <3>5, <3>6, <3>7 DEF Synced
    <3> QED BY <3>1, <3>2, <3>3, <3>8 DEF n
  <2> QED BY <2>1, <2>2
<1> QED BY <1>2, <1>3

\* normalize tells all that was marked and all that the recomputation moved,
\* and leaves the kernel clean; the appearance may follow at once or later.
LEMMA NormalizeKeepsSynced ==
    ASSUME NEW k, NEW sh, NEW lk, IsKernel(k), Synced(k, sh, lk)
    PROVE  /\ IsKernel(Normalized(k)) /\ Synced(Normalized(k), sh, lk)
           /\ ~Normalized(k).dirty /\ Normalized(k).explicit = {}
           /\ Normalized(k).base = k.base
           /\ k.dirty /\ "level" \in Changes(k) => Synced(Normalized(k), sh, k.base.level)
<1>1. CASE ~k.dirty BY <1>1 DEF Normalized, Synced
<1>2. CASE k.dirty
  <2> DEFINE comp == Rebuilt(k.base)
             hp   == Clamp(k.hp, 0, comp.maxHp)
             new  == Recomputed(k)
             ch   == Changes(k)
             all  == DOMAIN k.pending \cup ch
             pend == [s \in all |-> IF s \in ch THEN ReadPacket(new, s) ELSE k.pending[s]]
             pub  == IF "level" \in ch THEN <<new.base.level>> ELSE k.public
             n    == Normalized(k)
  <2>1. k = [base |-> k.base, comp |-> k.comp, hp |-> k.hp, explicit |-> k.explicit,
             dirty |-> k.dirty, pending |-> k.pending, public |-> k.public]
        /\ k.base = [s \in Stored |-> k.base[s]]
    BY DEF IsKernel
  <2>2. comp = [s \in Computed |-> comp[s]] BY DEF Rebuilt
  <2>3. /\ k.explicit \subseteq ch
        /\ \A s \in Computed : s \notin ch => comp[s] = k.comp[s]
        /\ "hp" \notin ch => hp = k.hp
    BY DEF Changes
  <2>4. new = [k EXCEPT !.comp = comp, !.hp = hp, !.explicit = {}, !.dirty = FALSE]
    BY DEF Recomputed
  <2> HIDE DEF comp, hp, ch, new
  <2>5. new = [base |-> k.base, comp |-> comp, hp |-> hp, explicit |-> {},
               dirty |-> FALSE, pending |-> k.pending, public |-> k.public]
    BY <2>1, <2>4
  <2>6. n = [new EXCEPT !.pending = pend, !.public = pub]
    <3>1. new.public = k.public BY <2>5
    <3>2. n = [new EXCEPT !.pending = pend,
                          !.public = IF "level" \in ch THEN <<new.base.level>> ELSE @]
      BY <1>2 DEF Normalized, new, ch
    <3> QED BY <2>5, <3>1, <3>2
  <2> HIDE DEF n, pend, pub
  <2>7. n = [base |-> k.base, comp |-> comp, hp |-> hp, explicit |-> {},
             dirty |-> FALSE, pending |-> pend, public |-> pub]
    BY <2>5, <2>6
  <2>8. IsKernel(n) BY <2>1, <2>2, <2>7 DEF IsKernel
  <2>9. \A s \in Wire : ReadPacket(n, s) = ReadPacket(new, s)
    BY <2>5, <2>7 DEF ReadPacket
  <2>10. \A s \in Wire : s \notin ch => ReadPacket(n, s) = ReadPacket(k, s)
    BY <2>3, <2>7 DEF ReadPacket, Wire
  <2>11. ASSUME NEW s \in Wire PROVE Told(n, sh, s) = ReadPacket(n, s)
    <3>1. n.pending = pend BY <2>7
    <3>2. CASE s \in ch BY <2>9, <3>1, <3>2 DEF Told, pend
    <3>3. CASE s \notin ch
      <4>1. Told(k, sh, s) = ReadPacket(k, s) BY <2>3, <3>3 DEF Synced
      <4>2. Told(n, sh, s) = Told(k, sh, s) BY <3>1, <3>3 DEF Told, pend
      <4> QED BY <2>10, <3>3, <4>1, <4>2
    <3> QED BY <3>2, <3>3
  <2>12. n.public = pub /\ n.base = k.base /\ n.explicit = {} /\ n.dirty = FALSE BY <2>7
  <2>13. ASSUME NEW l, "level" \in ch PROVE Seen(n, l) = n.base.level
    <3>1. pub = <<k.base.level>> BY <2>5, <2>13 DEF pub
    <3> QED BY <2>12, <3>1 DEF Seen
  <2>14. CASE "level" \in ch
    <3>1. \A l : Synced(n, sh, l)
      <4> TAKE l
      <4>1. Seen(n, l) = n.base.level BY <2>13, <2>14
      <4> QED BY <2>11, <2>12, <4>1 DEF Synced
    <3> QED BY <2>8, <2>12, <3>1 DEF n
  <2>15. CASE "level" \notin ch
    <3>1. pub = k.public BY <2>15 DEF pub
    <3>2. Seen(n, lk) = n.base.level BY <2>3, <2>12, <2>15, <3>1 DEF Seen, Synced
    <3> QED BY <2>8, <2>11, <2>12, <2>15, <3>2 DEF Synced, n, ch
  <2> QED BY <2>14, <2>15
<1>3. k.dirty \in BOOLEAN BY DEF IsKernel
<1> QED BY <1>1, <1>2, <1>3

\* The progression is what apply_player_exp_reward and
\* enqueue_progression_intent write to.
IsProgression(p) ==
    p = [level |-> p.level, exp |-> p.exp, alloc |-> p.alloc, resets |-> p.resets]

\* The inductive invariant behind SyncIsComplete: through all the stages of a
\* tick the client and the neighbours can still be told everything, and the
\* tick ends with nothing left to tell.
SyncInv ==
    /\ IsKernel(stats)
    /\ Synced(stats, shown, looks)
    /\ IsProgression(prog)
    /\ stats.base.level = prog.level
    /\ shown = [s \in Wire |-> shown[s]]
    /\ stage = "sense" => /\ ~stats.dirty
                          /\ DOMAIN stats.pending = {}
                          /\ stats.public = <<>>

\* hydrate_player gives a clean kernel with nothing to tell to a client that
\* is sent its snapshot.
LEMMA HydratedIsSynced ==
    ASSUME NEW p, NEW hp
    PROVE  /\ IsKernel(Hydrated(p, hp))
           /\ Synced(Hydrated(p, hp), Snapshot(Hydrated(p, hp)), p.level)
           /\ Hydrated(p, hp).base.level = p.level
           /\ ~Hydrated(p, hp).dirty
           /\ DOMAIN Hydrated(p, hp).pending = {}
           /\ Hydrated(p, hp).public = <<>>
           /\ Snapshot(Hydrated(p, hp)) = [s \in Wire |-> Snapshot(Hydrated(p, hp))[s]]
<1> DEFINE base == [level |-> p.level, exp |-> p.exp, points |-> AvailablePoints(p),
                    ht |-> BaseHt + p.alloc, resets |-> p.resets]
           comp == Rebuilt(base)
           h    == Clamp(hp, 0, comp.maxHp)
           k    == Hydrated(p, hp)
<1>1. base = [s \in Stored |-> base[s]] /\ base.level = p.level BY DEF Stored
<1>2. comp = [s \in Computed |-> comp[s]] BY DEF Rebuilt
<1>3. k = [base |-> base, comp |-> comp, hp |-> h, explicit |-> {}, dirty |-> FALSE,
           pending |-> NothingPending, public |-> <<>>]
  BY DEF Hydrated
<1> HIDE DEF base, comp, h, k
<1>4. DOMAIN NothingPending = {} BY DEF NothingPending
<1>5. IsKernel(k) BY <1>1, <1>2, <1>3 DEF IsKernel
<1>6. \A s \in Wire : Told(k, Snapshot(k), s) = ReadPacket(k, s)
  BY <1>3, <1>4 DEF Told, Snapshot
<1>7. Seen(k, p.level) = k.base.level BY <1>1, <1>3 DEF Seen
<1>8. Synced(k, Snapshot(k), p.level) BY <1>3, <1>6, <1>7 DEF Synced
<1>9. Snapshot(k) = [s \in Wire |-> Snapshot(k)[s]] BY DEF Snapshot
<1> QED BY <1>1, <1>3, <1>4, <1>5, <1>8, <1>9 DEF k

\* A normalize with its effect on the appearance: apply_stat_kernel_update,
\* normalize_player_stats_for_gameplay and apply_player_exp_reward end in one.
LEMMA NormalizeStep ==
    ASSUME NEW k, IsKernel(k), Synced(k, shown, looks),
           stats' = Normalized(k), looks' = LooksAfter(k), shown' = shown
    PROVE  /\ IsKernel(stats)' /\ Synced(stats, shown, looks)'
           /\ stats'.base = k.base
<1>1. /\ IsKernel(Normalized(k)) /\ Synced(Normalized(k), shown, looks)
      /\ Normalized(k).base = k.base
      /\ k.dirty /\ "level" \in Changes(k) => Synced(Normalized(k), shown, k.base.level)
  BY NormalizeKeepsSynced
<1>2. Synced(stats', shown', looks') BY <1>1 DEF LooksAfter
<1> QED BY <1>1, <1>2

\* The kernel of a reward on its way to the second normalize.
LEMMA RewardKeepsSynced ==
    ASSUME NEW k, NEW sh, NEW lk, IsKernel(k), Synced(k, sh, lk), NEW gain
    PROVE  /\ IsKernel(RewardedStats(k, gain)) /\ Synced(RewardedStats(k, gain), sh, lk)
           /\ RewardedStats(k, gain).base.level = gain.level
<1> DEFINE a == SetStored(k, "level", gain.level)
           b == SetStored(a, "exp", gain.exp)
           points == ReadPacket(k, "points") + gain.points
           c == IF gain.points > 0 THEN SetStored(b, "points", points) ELSE b
           d == Normalized(c)
           e == SetResource(d, d.comp.maxHp)
<1>1. IsKernel(a) /\ Synced(a, sh, lk) /\ a.base["level"] = gain.level
  BY SettersKeepSynced DEF Stored
<1> HIDE DEF a
<1>2. IsKernel(b) /\ Synced(b, sh, lk) /\ b.base["level"] = gain.level
  BY <1>1, SettersKeepSynced DEF Stored
<1> HIDE DEF b, points
<1>3. /\ IsKernel(SetStored(b, "points", points)) /\ Synced(SetStored(b, "points", points), sh, lk)
      /\ SetStored(b, "points", points).base["level"] = gain.level
  BY <1>2, SettersKeepSynced DEF Stored
<1>4. IsKernel(c) /\ Synced(c, sh, lk) /\ c.base["level"] = gain.level
  BY <1>2, <1>3
<1> HIDE DEF c
<1>5. IsKernel(d) /\ Synced(d, sh, lk) /\ d.base = c.base BY <1>4, NormalizeKeepsSynced
<1> HIDE DEF d
<1>6. IsKernel(e) /\ Synced(e, sh, lk) /\ e.base = d.base BY <1>5, SettersKeepSynced
<1> HIDE DEF e
<1>7. RewardedStats(k, gain) = IF gain.steps > 0 THEN e ELSE c
  BY DEF RewardedStats, SetProgression, a, b, c, d, e, points
<1> QED BY <1>4, <1>5, <1>6, <1>7

\* Every system of a tick keeps it.
LEMMA SyncStep == ASSUME SyncInv, StatsNext PROVE SyncInv'
<1>1. /\ IsKernel(stats) /\ Synced(stats, shown, looks) /\ IsProgression(prog)
      /\ stats.base.level = prog.level /\ shown = [s \in Wire |-> shown[s]]
      /\ stage = "sense" => ~stats.dirty /\ DOMAIN stats.pending = {} /\ stats.public = <<>>
  BY DEF SyncInv
<1>2. CASE Relogin
  <2> DEFINE hp == IF stats.hp <= 0 THEN DeadReconnectHp ELSE stats.hp
  <2>1. stats' = Hydrated(prog, hp) /\ looks' = prog.level /\ shown' = Snapshot(stats')
        /\ prog' = prog /\ stage' = stage
    BY <1>2 DEF Relogin
  <2> HIDE DEF hp
  <2>2. /\ IsKernel(stats') /\ Synced(stats', shown', looks') /\ stats'.base.level = prog.level
        /\ ~stats'.dirty /\ DOMAIN stats'.pending = {} /\ stats'.public = <<>>
        /\ shown' = [s \in Wire |-> shown'[s]]
    BY <2>1, HydratedIsSynced
  <2> QED BY <1>1, <2>1, <2>2 DEF SyncInv
<1>3. ASSUME NEW delta \in {-1, 1}, CoreStat(delta) PROVE SyncInv'
  <2> DEFINE k == KernelUpdate(stats, delta)
             resets == IF delta = -1 THEN prog.resets - 1 ELSE prog.resets
             points == ReadPacket(stats, "points") - delta
             a == SetStored(stats, "ht", BaseHt + prog.alloc + delta)
             b == SetStored(a, "points", points)
  <2>1. /\ stats' = Normalized(k) /\ looks' = LooksAfter(k) /\ shown' = shown
        /\ prog' = [prog EXCEPT !.alloc = @ + delta,
                                !.resets = IF delta = -1 THEN @ - 1 ELSE @]
        /\ stage' = "normalize"
    BY <1>3 DEF CoreStat
  <2>2. k = SetStored(b, "resets", resets) BY DEF KernelUpdate
  <2> HIDE DEF k, resets, points
  <2>3. IsKernel(a) /\ Synced(a, shown, looks) /\ a.base["level"] = prog.level
    BY <1>1, SettersKeepSynced DEF Stored
  <2> HIDE DEF a
  <2>4. IsKernel(b) /\ Synced(b, shown, looks) /\ b.base["level"] = prog.level
    BY <2>3, SettersKeepSynced DEF Stored
  <2> HIDE DEF b
  <2>5. IsKernel(k) /\ Synced(k, shown, looks) /\ k.base["level"] = prog.level
    BY <2>2, <2>4, SettersKeepSynced DEF Stored
  <2>6. IsKernel(stats') /\ Synced(stats', shown', looks') /\ stats'.base = k.base
    BY <2>1, <2>5, NormalizeStep
  <2>7. IsProgression(prog') /\ prog'.level = prog.level BY <1>1, <2>1 DEF IsProgression
  <2> QED BY <1>1, <2>1, <2>5, <2>6, <2>7 DEF SyncInv
<1>4. CASE NormalizeStats
  <2>1. /\ stats' = Normalized(stats) /\ looks' = LooksAfter(stats) /\ shown' = shown
        /\ prog' = prog /\ stage' = "act"
    BY <1>4 DEF NormalizeStats
  <2>2. IsKernel(stats') /\ Synced(stats', shown', looks') /\ stats'.base = stats.base
    BY <1>1, <2>1, NormalizeStep
  <2> QED BY <1>1, <2>1, <2>2 DEF SyncInv
<1>5. ASSUME NEW v, stats' = SetResource(stats, v), stage' # "sense",
             UNCHANGED <<prog, looks, shown>>
      PROVE  SyncInv'
  <2>1. IsKernel(stats') /\ Synced(stats', shown', looks') /\ stats'.base = stats.base
    BY <1>1, <1>5, SettersKeepSynced
  <2> QED BY <1>1, <1>5, <2>1 DEF SyncInv
<1>6. ASSUME stage' # "sense", UNCHANGED <<prog, stats, looks, shown>> PROVE SyncInv'
  BY <1>1, <1>6 DEF SyncInv
<1>7. ASSUME NEW n \in Wounds, Damaged(n) PROVE SyncInv'
  BY <1>5, <1>7 DEF Damaged
<1>8. ASSUME NEW hp \in {RestartHp, stats.comp.maxHp \div 2}, Restarted(hp) PROVE SyncInv'
  BY <1>5, <1>8 DEF Restarted
<1>9. ASSUME NEW n \in Cures, Restored(n) PROVE SyncInv'
  BY <1>5, <1>9 DEF Restored
<1>10. CASE LifeEvents BY <1>6, <1>10 DEF LifeEvents
<1>11. CASE NoRestart BY <1>6, <1>11 DEF NoRestart
<1>12. CASE EndRewards BY <1>6, <1>12 DEF EndRewards
<1>13. ASSUME NEW adjusted \in Rewards, Reward(adjusted) PROVE SyncInv'
  <2> DEFINE gain == ExpGain[prog.level][prog.exp][MobExpReward(prog.level, adjusted)]
             k == RewardedStats(stats, gain)
  <2>1. /\ prog' = [prog EXCEPT !.level = gain.level, !.exp = gain.exp]
        /\ stats' = Normalized(k) /\ looks' = LooksAfter(k) /\ shown' = shown
        /\ stage' = "reward"
    BY <1>13, Zenon DEF Reward
  <2> HIDE DEF gain
  <2>2. IsKernel(k) /\ Synced(k, shown, looks) /\ k.base.level = gain.level
    BY <1>1, RewardKeepsSynced
  <2> HIDE DEF k
  <2>3. IsKernel(stats') /\ Synced(stats', shown', looks') /\ stats'.base = k.base
    BY <2>1, <2>2, NormalizeStep
  <2>4. IsProgression(prog') /\ prog'.level = gain.level BY <1>1, <2>1 DEF IsProgression
  <2> QED BY <1>1, <2>1, <2>2, <2>3, <2>4 DEF SyncInv
<1>14. CASE FlushStats
  <2> DEFINE k == Normalized(stats)
  <2>1. /\ stats' = [k EXCEPT !.pending = NothingPending, !.public = <<>>]
        /\ looks' = Seen(k, looks)
        /\ shown' = [s \in Wire |-> Told(k, shown, s)]
        /\ prog' = prog
    BY <1>14 DEF FlushStats, Seen, Told
  <2>2. IsKernel(k) /\ Synced(k, shown, looks) /\ ~k.dirty /\ k.explicit = {}
        /\ k.base = stats.base
    BY <1>1, NormalizeKeepsSynced
  <2> HIDE DEF k
  <2>3. stats' = [base |-> k.base, comp |-> k.comp, hp |-> k.hp, explicit |-> {},
                  dirty |-> k.dirty, pending |-> NothingPending, public |-> <<>>]
    BY <2>1, <2>2 DEF IsKernel
  <2>4. IsKernel(stats') /\ ~stats'.dirty BY <2>2, <2>3 DEF IsKernel
  <2>5. DOMAIN NothingPending = {} BY DEF NothingPending
  <2>6. \A s \in Wire : ReadPacket(stats', s) = ReadPacket(k, s) BY <2>3 DEF ReadPacket
  <2>7. \A s \in Wire : Told(k, shown, s) = ReadPacket(k, s) BY <2>2 DEF Synced
  <2>8. \A s \in Wire : Told(stats', shown', s) = ReadPacket(stats', s)
    BY <2>1, <2>3, <2>5, <2>6, <2>7 DEF Told
  <2>9. looks' = k.base.level BY <2>1, <2>2 DEF Synced
  <2>10. Seen(stats', looks') = stats'.base.level BY <2>3, <2>9 DEF Seen
  <2>11. Synced(stats', shown', looks') BY <2>3, <2>8, <2>10 DEF Synced
  <2>12. shown' = [s \in Wire |-> shown'[s]] BY <2>1
  <2> QED BY <1>1, <2>1, <2>2, <2>3, <2>4, <2>5, <2>11, <2>12 DEF SyncInv
<1> QED
  BY <1>2, <1>3, <1>4, <1>7, <1>8, <1>9, <1>10, <1>11, <1>12, <1>13, <1>14 DEF StatsNext

\* The kernel, the pending deltas and what was told before determine each other
\* through every stage of a tick.
THEOREM SyncInvariant == StatsSpec => []SyncInv
<1>1. StatsInit => SyncInv
  <2> SUFFICES ASSUME StatsInit PROVE SyncInv
    OBVIOUS
  <2>1. /\ stats = Hydrated(prog, HpCapacity(prog.level, BaseHt)) /\ looks = prog.level
        /\ shown = Snapshot(stats) /\ IsProgression(prog)
    BY DEF StatsInit, IsProgression
  <2> QED BY <2>1, HydratedIsSynced DEF SyncInv
<1>2. SyncInv /\ [StatsNext]_statVars => SyncInv'
  <2>1. SyncInv /\ UNCHANGED statVars => SyncInv'
    BY DEF statVars, SyncInv, Synced, IsKernel, IsProgression, Told, Seen, ReadPacket
  <2> QED BY <2>1, SyncStep
<1> QED BY <1>1, <1>2, PTL DEF StatsSpec

\* When flush_player_stats_sync has run, the client holds every stat as it is
\* and the neighbours see the level, whatever the tables and the amounts.
THEOREM ClientsAreInSync == StatsSpec => []SyncIsComplete
<1>1. SyncInv => SyncIsComplete
  <2> SUFFICES ASSUME SyncInv, stage = "sense"
               PROVE  shown = Snapshot(stats) /\ looks = prog.level
    BY DEF SyncIsComplete
  <2>1. stats.explicit = {} /\ DOMAIN stats.pending = {} /\ stats.public = <<>>
    BY DEF SyncInv, Synced
  <2>2. \A s \in Wire : shown[s] = ReadPacket(stats, s)
    BY <2>1 DEF SyncInv, Synced, Told
  <2>3. looks = prog.level BY <2>1 DEF SyncInv, Synced, Seen
  <2>4. shown = [s \in Wire |-> shown[s]] BY DEF SyncInv
  <2> QED BY <2>2, <2>3, <2>4 DEF Snapshot
<1> QED BY <1>1, SyncInvariant, PTL

-----------------------------------------------------------------------------
(* Experience and stat points.                                             *)

\* A set of naturals that is not empty has a least element.
LEMMA LeastExists ==
    ASSUME NEW T \in SUBSET Nat, T # {} PROVE \E x \in T : \A y \in T : x <= y
<1> DEFINE R == OpToRel(<, Nat)
<1>1. IsWellFoundedOn(R, Nat) BY NatLessThanWellFounded
<1>2. \A x, y \in Nat : <<y, x>> \in R <=> y < x BY DEF OpToRel
<1> HIDE DEF R
<1>3. PICK x \in T : \A y \in T : ~(<<y, x>> \in R) BY <1>1, WFMin
<1>4. ASSUME NEW y \in T PROVE x <= y
  <2>1. x \in Nat /\ y \in Nat OBVIOUS
  <2>2. ~(y < x) BY <1>2, <1>3, <2>1
  <2> QED BY <2>1, <2>2
<1> QED BY <1>3, <1>4

\* A set of levels that holds the last one, and with a level the one below it,
\* holds all of them.
LEMMA DownFromMaxLevel ==
    ASSUME NEW S, MaxLevel \in S,
           \A l \in 1 .. MaxLevel - 1 : l + 1 \in S => l \in S
    PROVE  1 .. MaxLevel \subseteq S
<1>0. MaxLevel \in Nat \ {0} BY PlayerStatsAssumption
<1> DEFINE T == {k \in Nat : k < MaxLevel /\ MaxLevel - k \notin S}
<1>1. T = {}
  <2> SUFFICES ASSUME T # {} PROVE FALSE OBVIOUS
  <2>1. T \in SUBSET Nat OBVIOUS
  <2>2. PICK k \in T : \A j \in T : k <= j BY <2>1, LeastExists
  <2>3. k \in Nat /\ k < MaxLevel /\ MaxLevel - k \notin S OBVIOUS
  <2>4. k # 0 BY <1>0, <2>3
  <2>5. k - 1 \in Nat /\ k - 1 \notin T BY <2>2, <2>3, <2>4
  <2>6. MaxLevel - (k - 1) \in S BY <1>0, <2>3, <2>5
  <2>7. (MaxLevel - k) + 1 \in S BY <1>0, <2>3, <2>6
  <2>8. MaxLevel - k \in 1 .. MaxLevel - 1 BY <1>0, <2>3, <2>4
  <2> QED BY <2>3, <2>7, <2>8
<1>2. ASSUME NEW l \in 1 .. MaxLevel PROVE l \in S
  <2>1. MaxLevel - l \in Nat /\ MaxLevel - l < MaxLevel BY <1>0
  <2>2. MaxLevel - (MaxLevel - l) = l BY <1>0
  <2>3. MaxLevel - l \notin T BY <1>1
  <2> QED BY <2>1, <2>2, <2>3
<1> QED BY <1>2

\* A level's gains, given those of all levels.
Gains(l, f) == [e \in Nat |-> [r \in Nat |-> GainAt(l, e, r, f[l + 1][0])]]

\* They depend on the next level only, and not at the last one.
LEMMA GainsAreLocal ==
    ASSUME NEW l, NEW f, NEW g, l = MaxLevel \/ f[l + 1] = g[l + 1]
    PROVE  Gains(l, f) = Gains(l, g)
<1>1. CASE l = MaxLevel
  <2>1. \A e, r, n : GainAt(l, e, r, n) = [level |-> l, exp |-> e, points |-> 0,
                                           steps |-> 0, applied |-> 0]
    BY <1>1 DEF GainAt
  <2> QED BY <2>1 DEF Gains
<1>2. CASE f[l + 1] = g[l + 1] BY <1>2 DEF Gains
<1> QED BY <1>1, <1>2

\* The recursion of apply_player_exp_gain's loop ends, so the definition of
\* ExpGain defines it.
LEMMA ExpGainDefined ==
    \A l \in 1 .. MaxLevel : \A e, r \in Nat :
       ExpGain[l][e][r] = GainAt(l, e, r, ExpGain[l + 1][0])
<1>0. MaxLevel \in Nat \ {0} BY PlayerStatsAssumption
<1> DEFINE Solves(f, k) == \A l \in k .. MaxLevel : f[l] = Gains(l, f)
           S == {k \in 1 .. MaxLevel : \E f : Solves(f, k)}
<1>1. MaxLevel \in S
  <2> DEFINE f == [l \in 1 .. MaxLevel |-> Gains(MaxLevel, 0)]
  <2>1. MaxLevel \in 1 .. MaxLevel BY <1>0
  <2>2. f[MaxLevel] = Gains(MaxLevel, 0) BY <2>1
  <2> HIDE DEF f
  <2>3. Gains(MaxLevel, 0) = Gains(MaxLevel, f) BY GainsAreLocal
  <2>4. \A l \in MaxLevel .. MaxLevel : l = MaxLevel BY <1>0
  <2>5. Solves(f, MaxLevel) BY <2>2, <2>3, <2>4
  <2> QED BY <2>1, <2>5
<1>2. ASSUME NEW k \in 1 .. MaxLevel - 1, k + 1 \in S PROVE k \in S
  <2>1. PICK f : Solves(f, k + 1) BY <1>2
  <2> DEFINE g == [l \in 1 .. MaxLevel |-> IF l = k THEN Gains(k, f) ELSE f[l]]
  <2>2. k \in 1 .. MaxLevel /\ k # MaxLevel BY <1>0
  <2>3. g[k] = Gains(k, f) BY <2>2
  <2>4. \A l \in k + 1 .. MaxLevel : g[l] = f[l] BY <1>0, <2>2
  <2> HIDE DEF g
  <2>5. ASSUME NEW l \in k .. MaxLevel PROVE Gains(l, g) = Gains(l, f)
    <3>1. l = MaxLevel \/ l + 1 \in k + 1 .. MaxLevel BY <1>0, <2>2
    <3> QED BY <2>4, <3>1, GainsAreLocal
  <2>6. ASSUME NEW l \in k .. MaxLevel PROVE g[l] = Gains(l, g)
    <3>1. CASE l = k BY <2>3, <2>5, <3>1
    <3>2. CASE l # k
      <4>1. l \in k + 1 .. MaxLevel BY <1>0, <2>2, <3>2
      <4> QED BY <2>1, <2>4, <2>5, <4>1
    <3> QED BY <3>1, <3>2
  <2> QED BY <2>2, <2>6
<1>3. 1 \in S
  <2>1. 1 \in 1 .. MaxLevel BY <1>0
  <2> HIDE DEF S
  <2> QED BY <1>1, <1>2, <2>1, DownFromMaxLevel
<1>4. PICK f : Solves(f, 1) BY <1>3
<1> DEFINE h == [l \in 1 .. MaxLevel |-> f[l]]
<1>5. h = [l \in 1 .. MaxLevel |-> Gains(l, h)]
  <2>1. \A l \in 1 .. MaxLevel : h[l] = f[l] OBVIOUS
  <2>2. h = [l \in 1 .. MaxLevel |-> h[l]] OBVIOUS
  <2> HIDE DEF h
  <2>3. ASSUME NEW l \in 1 .. MaxLevel PROVE h[l] = Gains(l, h)
    <3>1. l = MaxLevel \/ l + 1 \in 1 .. MaxLevel BY <1>0
    <3>2. Gains(l, h) = Gains(l, f) BY <2>1, <3>1, GainsAreLocal
    <3> QED BY <1>4, <2>1, <3>2
  <2> QED BY <2>2, <2>3
<1> HIDE DEF h
<1>6. ExpGain = CHOOSE x : x = [l \in 1 .. MaxLevel |-> Gains(l, x)] BY DEF ExpGain, Gains
<1>7. ExpGain = [l \in 1 .. MaxLevel |-> Gains(l, ExpGain)] BY <1>5, <1>6
<1>8. \A l \in 1 .. MaxLevel : ExpGain[l] = Gains(l, ExpGain)
  <2> DEFINE x == ExpGain
  <2>1. x = [l \in 1 .. MaxLevel |-> Gains(l, x)] BY <1>7
  <2> HIDE DEF x
  <2>2. \A l \in 1 .. MaxLevel : x[l] = Gains(l, x) BY <2>1
  <2> QED BY <2>2 DEF x
<1> HIDE DEF ExpGain
<1>9. ASSUME NEW l \in 1 .. MaxLevel, NEW e \in Nat, NEW r \in Nat
      PROVE  ExpGain[l][e][r] = GainAt(l, e, r, ExpGain[l + 1][0])
  <2>1. ExpGain[l] = Gains(l, ExpGain) BY <1>8
  <2> DEFINE n == ExpGain[l + 1][0]
  <2>2. Gains(l, ExpGain) = [d \in Nat |-> [q \in Nat |-> GainAt(l, d, q, n)]]
    BY DEF Gains
  <2> HIDE DEF n
  <2>3. [d \in Nat |-> [q \in Nat |-> GainAt(l, d, q, n)]][e][r] = GainAt(l, e, r, n)
    OBVIOUS
  <2> QED BY <2>1, <2>2, <2>3 DEF n
<1> QED BY <1>9

\* The table of levels.
LEMMA LevelNumbers ==
    /\ MaxLevel \in Nat \ {0} /\ StatCapLevel \in Nat \ {0}
    /\ \A l \in 1 .. MaxLevel : NextExp[l] \in Nat \ {0}
    /\ BaseHt \in Nat /\ CoreStatMax \in Nat /\ BaseHp \in Nat /\ HpPerHt \in Nat
    /\ \A l \in 1 .. MaxLevel : Growth[l] \in Nat
BY PlayerStatsAssumption

\* A level has four steps; the first begins empty, the last is reached with
\* the level's experience, and more experience is never fewer steps.
LEMMA LevelStepFacts ==
    ASSUME NEW l \in 1 .. MaxLevel, NEW e \in Nat
    PROVE  /\ LevelStep(l, e) \in 0 .. LevelSteps
           /\ LevelStep(l, 0) = 0
           /\ e >= NextExp[l] => LevelStep(l, e) = LevelSteps
           /\ \A r \in Nat : LevelStep(l, e) <= LevelStep(l, e + r)
<1>1. PICK n \in Nat \ {0} : n = NextExp[l] BY LevelNumbers
<1>2. \A x \in Nat : x \div n \in Nat /\ n * (x \div n) <= x /\ x < n * (x \div n) + n
  OBVIOUS
<1> DEFINE Q(x) == (Least(x, n) * 4) \div n
<1>3. \A x \in Nat : LevelStep(l, x) = Least(Q(x), 4) BY <1>1 DEF LevelStep, LevelSteps
<1>4. \A x \in Nat : /\ Least(x, n) * 4 \in Nat
                     /\ Q(x) \in Nat /\ n * Q(x) <= Least(x, n) * 4
                     /\ Least(x, n) * 4 < n * Q(x) + n
  BY <1>2 DEF Least
<1> HIDE DEF Q
<1>5. ASSUME NEW x \in Nat PROVE LevelStep(l, x) \in 0 .. 4
  <2>1. LevelStep(l, x) = Least(Q(x), 4) /\ Q(x) \in Nat BY <1>3, <1>4
  <2>2. \A q \in Nat : Least(q, 4) \in 0 .. 4 BY DEF Least
  <2> QED BY <2>1, <2>2
<1>6. Q(0) = 0
  <2>1. n * Q(0) <= 0 /\ Q(0) \in Nat BY <1>4 DEF Least
  <2> QED BY <2>1
<1>7. ASSUME NEW x \in Nat, x >= n PROVE Q(x) = 4
  <2>1. n * Q(x) <= Least(x, n) * 4 /\ Least(x, n) * 4 < n * Q(x) + n /\ Q(x) \in Nat BY <1>4
  <2>2. Least(x, n) * 4 = n * 4
    <3>1. Least(x, n) = n BY <1>7 DEF Least
    <3> QED BY <3>1
  <2> DEFINE q == Q(x)
  <2> HIDE DEF q
  <2>3. n * q <= n * 4 /\ n * 4 < n * q + n /\ q \in Nat BY <2>1, <2>2 DEF q
  <2>4. \A u, v, w \in Nat : u >= v => w * u >= w * v OBVIOUS
  <2>5. ~(q >= 5) BY <2>3, <2>4
  <2>6. ~(q <= 3) BY <2>3, <2>4
  <2>7. q = 4 BY <2>3, <2>5, <2>6
  <2> QED BY <2>7 DEF q
<1>8. ASSUME NEW x \in Nat, NEW y \in Nat, x <= y PROVE Q(x) <= Q(y)
  <2>1. Least(x, n) * 4 <= Least(y, n) * 4 BY <1>8 DEF Least
  <2>2. n * Q(x) < n * Q(y) + n /\ Q(x) \in Nat /\ Q(y) \in Nat
    <3>1. /\ n * Q(x) <= Least(x, n) * 4 /\ Least(x, n) * 4 \in Nat
          /\ Least(y, n) * 4 < n * Q(y) + n /\ Least(y, n) * 4 \in Nat
          /\ Q(x) \in Nat /\ Q(y) \in Nat
      BY <1>4
    <3> HIDE DEF Least
    <3> QED BY <2>1, <3>1
  <2> DEFINE a == Q(x)
             b == Q(y)
  <2> HIDE DEF a, b
  <2>3. n * a < n * b + n /\ a \in Nat /\ b \in Nat BY <2>2 DEF a, b
  <2>4. a <= b
    <3> SUFFICES ASSUME a >= b + 1 PROVE FALSE BY <2>3
    <3>1. \A u, v, w \in Nat : u >= v => w * u >= w * v OBVIOUS
    <3>2. n * a >= n * (b + 1) BY <2>3, <3>1
    <3>3. n * (b + 1) = n * b + n BY <2>3
    <3> QED BY <2>3, <3>2, <3>3
  <2> QED BY <2>4 DEF a, b
<1>9. ASSUME NEW r \in Nat PROVE LevelStep(l, e) <= LevelStep(l, e + r)
  <2>1. e + r \in Nat /\ e <= e + r OBVIOUS
  <2>2. Q(e) <= Q(e + r) /\ Q(e) \in Nat /\ Q(e + r) \in Nat BY <1>4, <1>8, <2>1
  <2> QED BY <1>3, <2>1, <2>2 DEF Least
<1>10. LevelStep(l, 0) = 0 BY <1>3, <1>6 DEF Least
<1>11. e >= NextExp[l] => LevelStep(l, e) = 4 BY <1>1, <1>3, <1>7 DEF Least
<1> QED BY <1>5, <1>9, <1>10, <1>11 DEF LevelSteps

\* The points counted at a step are the ones derived from where it leads, within
\* a level and on the way to the next one.
LEMMA CrossingEarns ==
    ASSUME NEW l \in 1 .. MaxLevel, NEW e \in Nat
    PROVE  /\ EarnedPoints(l, e) \in Nat
           /\ StatPointsCrossed(l, LevelStep(l, e), LevelSteps) \in Nat
           /\ l < MaxLevel => EarnedPoints(l + 1, 0)
                  = EarnedPoints(l, e) + StatPointsCrossed(l, LevelStep(l, e), LevelSteps)
           /\ l < MaxLevel /\ e >= NextExp[l] => EarnedPoints(l + 1, 0) = EarnedPoints(l, e)
           /\ \A r \in Nat :
                 /\ StatPointsCrossed(l, LevelStep(l, e), LevelStep(l, e + r)) \in Nat
                 /\ EarnedPoints(l, e + r) = EarnedPoints(l, e)
                       + StatPointsCrossed(l, LevelStep(l, e), LevelStep(l, e + r))
<1>1. l \in Nat \ {0} /\ MaxLevel \in Nat \ {0} /\ StatCapLevel \in Nat \ {0} BY LevelNumbers
<1>2. LevelStep(l, e) \in 0 .. 4 BY LevelStepFacts DEF LevelSteps
<1>3. EarnedPoints(l, e) \in Nat
  BY <1>1, <1>2 DEF EarnedPoints, Clamp, Least, StatPointSteps, LevelSteps
<1>4. StatPointsCrossed(l, LevelStep(l, e), LevelSteps) \in Nat
  BY <1>1, <1>2 DEF StatPointsCrossed, Least, StatPointSteps, LevelSteps
<1>5. ASSUME l < MaxLevel
      PROVE  EarnedPoints(l + 1, 0)
               = EarnedPoints(l, e) + StatPointsCrossed(l, LevelStep(l, e), LevelSteps)
  <2>1. l + 1 \in 1 .. MaxLevel BY <1>1, <1>5
  <2>2. LevelStep(l + 1, 0) = 0 BY <2>1, LevelStepFacts
  <2> QED BY <1>1, <1>2, <2>2
          DEF EarnedPoints, StatPointsCrossed, Clamp, Least, StatPointSteps, LevelSteps
<1>6. ASSUME l < MaxLevel, e >= NextExp[l] PROVE EarnedPoints(l + 1, 0) = EarnedPoints(l, e)
  <2>1. LevelStep(l, e) = 4 BY <1>6, LevelStepFacts DEF LevelSteps
  <2>2. StatPointsCrossed(l, LevelStep(l, e), LevelSteps) = 0
    BY <2>1 DEF StatPointsCrossed, LevelSteps
  <2> QED BY <1>3, <1>5, <1>6, <2>2
<1>7. ASSUME NEW r \in Nat
      PROVE  /\ StatPointsCrossed(l, LevelStep(l, e), LevelStep(l, e + r)) \in Nat
             /\ EarnedPoints(l, e + r) = EarnedPoints(l, e)
                   + StatPointsCrossed(l, LevelStep(l, e), LevelStep(l, e + r))
  <2>1. LevelStep(l, e + r) \in 0 .. 4 /\ LevelStep(l, e) <= LevelStep(l, e + r)
    BY LevelStepFacts DEF LevelSteps
  <2> QED BY <1>1, <1>2, <2>1
          DEF EarnedPoints, StatPointsCrossed, Clamp, Least, StatPointSteps, LevelSteps
<1> QED BY <1>3, <1>4, <1>5, <1>6, <1>7

\* What a gain may come to, and that it counts the points the new progression
\* is worth beyond those of e of level l.
Outcomes == [level : 1 .. MaxLevel, exp : Nat, points : Nat, steps : Nat, applied : Nat]
Counts(l, e, g) ==
    g \in Outcomes /\ EarnedPoints(g.level, g.exp) = EarnedPoints(l, e) + g.points

\* A gain with a crossing on top.
Crossed(g, p, s, a) == [g EXCEPT !.points = @ + p, !.steps = @ + s, !.applied = @ + a]

LEMMA CrossingCounts ==
    ASSUME NEW g \in Outcomes, NEW p \in Nat, NEW s \in Nat, NEW a \in Nat
    PROVE  /\ Crossed(g, p, s, a) \in Outcomes
           /\ Crossed(g, p, s, a).level = g.level
           /\ Crossed(g, p, s, a).exp = g.exp
           /\ Crossed(g, p, s, a).points = g.points + p
<1>1. /\ g = [level |-> g.level, exp |-> g.exp, points |-> g.points, steps |-> g.steps,
              applied |-> g.applied]
      /\ g.level \in 1 .. MaxLevel /\ g.exp \in Nat /\ g.points \in Nat /\ g.steps \in Nat
      /\ g.applied \in Nat
  BY DEF Outcomes
<1>2. Crossed(g, p, s, a) = [level |-> g.level, exp |-> g.exp, points |-> g.points + p,
                             steps |-> g.steps + s, applied |-> g.applied + a]
  <2>1. Crossed(g, p, s, a) = [g EXCEPT !.points = g.points + p, !.steps = g.steps + s,
                                        !.applied = g.applied + a]
    BY DEF Crossed, Outcomes
  <2> QED BY <1>1, <2>1
<1> HIDE DEF Crossed
<1> QED BY <1>1, <1>2 DEF Outcomes

\* A gain whose points are counted from where a crossing leads, with the crossing
\* on top, counts from where the crossing starts.
LEMMA CountsCrossing ==
    ASSUME NEW l, NEW e, NEW m, NEW d, NEW g, NEW p \in Nat, NEW s \in Nat, NEW a \in Nat,
           EarnedPoints(l, e) \in Nat, EarnedPoints(m, d) = EarnedPoints(l, e) + p,
           Counts(m, d, g)
    PROVE  Counts(l, e, Crossed(g, p, s, a))
<1> DEFINE h == Crossed(g, p, s, a)
<1>1. g \in Outcomes /\ EarnedPoints(g.level, g.exp) = EarnedPoints(l, e) + p + g.points
  BY DEF Counts
<1>2. g \in Outcomes /\ g.points \in Nat BY <1>1 DEF Outcomes
<1>3. /\ h \in Outcomes /\ h.level = g.level /\ h.exp = g.exp
      /\ h.points = g.points + p
  <2>1. h \in Outcomes BY <1>2, CrossingCounts
  <2>2. h.level = g.level BY <1>2, CrossingCounts
  <2>3. h.exp = g.exp BY <1>2, CrossingCounts
  <2>4. h.points = g.points + p BY <1>2, CrossingCounts
  <2> QED BY <2>1, <2>2, <2>3, <2>4
<1> HIDE DEF h
<1>4. EarnedPoints(h.level, h.exp) = EarnedPoints(l, e) + h.points BY <1>1, <1>2, <1>3
<1>5. Counts(l, e, h) BY <1>3, <1>4 DEF Counts
<1> QED BY <1>5 DEF h

\* One turn of the loop counts what it crosses.
LEMMA TurnCounts ==
    ASSUME NEW l \in 1 .. MaxLevel, NEW e \in Nat, NEW r \in Nat, NEW next,
           l < MaxLevel => \A q \in Nat : Counts(l + 1, 0, next[q])
    PROVE  Counts(l, e, GainAt(l, e, r, next))
<1> DEFINE missing == NextExp[l] - Least(e, NextExp[l])
           before == LevelStep(l, e)
           Unmoved(x) == [level |-> l, exp |-> x, points |-> 0, steps |-> 0, applied |-> 0]
           Crossing(after, rest, applied) ==
              Crossed(rest, StatPointsCrossed(l, before, after), after - before, applied)
<1>1. /\ NextExp[l] \in Nat \ {0} /\ l <= MaxLevel /\ MaxLevel \in Nat /\ l \in Nat
      /\ missing \in Nat /\ (missing = 0 => e >= NextExp[l])
  BY LevelNumbers DEF Least
<1>2. ASSUME NEW x \in Nat PROVE before \in 0 .. 4 /\ LevelStep(l, e + x) - before \in Nat
  <2>1. LevelStep(l, e + x) \in 0 .. 4 /\ before \in 0 .. 4 /\ before <= LevelStep(l, e + x)
    BY LevelStepFacts DEF LevelSteps
  <2> QED BY <2>1
<1>3. \A x \in Nat : /\ Unmoved(x) \in Outcomes
                     /\ Unmoved(x).level = l /\ Unmoved(x).exp = x /\ Unmoved(x).points = 0
  BY DEF Outcomes
<1>4. GainAt(l, e, r, next) =
        IF r = 0 \/ l = MaxLevel THEN Unmoved(e)
        ELSE IF missing = 0 THEN next[r]
        ELSE IF r >= missing THEN Crossing(LevelSteps, next[r - missing], missing)
        ELSE Crossing(LevelStep(l, e + r), Unmoved(e + r), r)
  BY Zenon DEF GainAt, Crossed
<1> HIDE DEF missing, Unmoved, Crossing
<1>5. EarnedPoints(l, e) \in Nat BY CrossingEarns
<1>6. CASE r = 0 \/ l = MaxLevel BY <1>3, <1>4, <1>5, <1>6 DEF Counts
<1>7. CASE ~(r = 0 \/ l = MaxLevel) /\ missing = 0
  <2>1. l < MaxLevel /\ EarnedPoints(l + 1, 0) = EarnedPoints(l, e)
    BY <1>1, <1>7, CrossingEarns
  <2>2. GainAt(l, e, r, next) = next[r] BY <1>4, <1>7
  <2> QED BY <2>1, <2>2 DEF Counts
<1>8. CASE ~(r = 0 \/ l = MaxLevel) /\ missing # 0 /\ r >= missing
  <2> DEFINE g == next[r - missing]
             p == StatPointsCrossed(l, before, LevelSteps)
             s == LevelSteps - before
             h == Crossed(g, p, s, missing)
  <2>1. l < MaxLevel /\ r - missing \in Nat BY <1>1, <1>8
  <2>2. Counts(l + 1, 0, g) BY <2>1
  <2>3. p \in Nat /\ EarnedPoints(l + 1, 0) = EarnedPoints(l, e) + p
    BY <2>1, CrossingEarns
  <2>4. s \in Nat BY <1>2 DEF LevelSteps
  <2>5. GainAt(l, e, r, next) = h BY <1>4, <1>8 DEF Crossing
  <2> HIDE DEF g, p, s, before
  <2> QED BY <1>1, <1>5, <2>2, <2>3, <2>4, <2>5, CountsCrossing
<1>9. CASE ~(r = 0 \/ l = MaxLevel) /\ missing # 0 /\ ~(r >= missing)
  <2> DEFINE g == Unmoved(e + r)
             p == StatPointsCrossed(l, before, LevelStep(l, e + r))
             s == LevelStep(l, e + r) - before
             h == Crossed(g, p, s, r)
  <2>1. e + r \in Nat OBVIOUS
  <2>2. g \in Outcomes /\ g.level = l /\ g.exp = e + r /\ g.points = 0 BY <1>3, <2>1
  <2>3. p \in Nat /\ EarnedPoints(l, e + r) = EarnedPoints(l, e) + p BY CrossingEarns
  <2>4. s \in Nat BY <1>2
  <2>5. GainAt(l, e, r, next) = h BY <1>4, <1>9 DEF Crossing
  <2> HIDE DEF g, p, s, before
  <2>6. Counts(l, e + r, g) BY <1>5, <2>2, <2>3 DEF Counts
  <2> QED BY <1>5, <2>3, <2>4, <2>5, <2>6, CountsCrossing
<1> QED BY <1>6, <1>7, <1>8, <1>9

\* apply_player_exp_gain counts exactly the points that
\* derive_available_stat_points finds afterwards, over any number of levels.
LEMMA GainCounts ==
    ASSUME NEW l \in 1 .. MaxLevel, NEW e \in Nat, NEW r \in Nat
    PROVE  Counts(l, e, ExpGain[l][e][r])
<1> DEFINE S == {k \in 1 .. MaxLevel : \A d, q \in Nat : Counts(k, d, ExpGain[k][d][q])}
<1>0. MaxLevel \in Nat \ {0} BY LevelNumbers
<1>1. ASSUME NEW k \in 1 .. MaxLevel, k = MaxLevel \/ k + 1 \in S PROVE k \in S
  <2> SUFFICES ASSUME NEW d \in Nat, NEW q \in Nat PROVE Counts(k, d, ExpGain[k][d][q])
    OBVIOUS
  <2> DEFINE next == ExpGain[k + 1][0]
  <2>1. k < MaxLevel => \A x \in Nat : Counts(k + 1, 0, next[x]) BY <1>0, <1>1
  <2>2. ExpGain[k][d][q] = GainAt(k, d, q, next) BY ExpGainDefined
  <2> HIDE DEF next
  <2> QED BY <2>1, <2>2, TurnCounts
<1>2. MaxLevel \in S BY <1>0, <1>1
<1>3. \A k \in 1 .. MaxLevel - 1 : k + 1 \in S => k \in S BY <1>0, <1>1
<1> HIDE DEF S
<1>4. 1 .. MaxLevel \subseteq S BY <1>2, <1>3, DownFromMaxLevel
<1> QED BY <1>4 DEF S

-----------------------------------------------------------------------------
(* The running kernel and the one a reload makes.                          *)

\* The base stats that belong to a progression: hydrate_player's, with the
\* points that are earned and not allocated.
Worth(p) ==
    [level |-> p.level, exp |-> p.exp, points |-> EarnedPoints(p.level, p.exp) - p.alloc,
     ht |-> BaseHt + p.alloc, resets |-> p.resets]

\* A kernel after a recomputation, and one that is dirty or just that.
Settled(k) == k.comp = Rebuilt(k.base) /\ k.hp \in 0 .. k.comp.maxHp
Steady(k) ==
    /\ k.hp \in Int /\ k.comp.maxHp \in Nat
    /\ ~k.dirty => Settled(k)

\* The inductive invariant behind ReloadIsNeutral: no more is allocated than
\* was earned, the base stats are worth the progression in the middle of a tick
\* too, and the points a packet shows are never behind the base ones, so what
\* apply_stat_kernel_update and apply_reward_stats count on is up to date.
ReloadInv ==
    /\ prog \in [level : 1 .. MaxLevel, exp : Nat, alloc : Nat, resets : Nat]
    /\ prog.alloc <= EarnedPoints(prog.level, prog.exp)
    /\ stats.base = Worth(prog)
    /\ stats.comp.points = stats.base.points
    /\ Steady(stats)

\* The stats recomputed from a base that belongs to a progression.
LEMMA RebuiltFacts ==
    ASSUME NEW b, b.level \in 1 .. MaxLevel, b.ht \in Nat
    PROVE  Rebuilt(b).maxHp \in Nat /\ Rebuilt(b).points = b.points
<1>1. Rebuilt(b).maxHp = HpCapacity(b.level, b.ht) /\ Rebuilt(b).points = b.points
  BY DEF Rebuilt, Computed, Stored
<1>2. \A x, y \in Nat : x * y \in Nat OBVIOUS
<1>3. b.ht * HpPerHt \in Nat /\ Growth[b.level] \in Nat /\ BaseHp \in Nat
  BY <1>2, LevelNumbers
<1> QED BY <1>1, <1>3 DEF HpCapacity, GrowthAt

\* A setter leaves the computed stats alone and a changed kernel dirty.
LEMMA SettersKeepSteady ==
    ASSUME NEW k, IsKernel(k), Steady(k), NEW v
    PROVE  /\ SetResource(k, v).comp = k.comp
           /\ v \in Int => Steady(SetResource(k, v))
           /\ \A s \in Stored : SetStored(k, s, v).comp = k.comp /\ Steady(SetStored(k, s, v))
<1>1. k = [base |-> k.base, comp |-> k.comp, hp |-> k.hp, explicit |-> k.explicit,
           dirty |-> k.dirty, pending |-> k.pending, public |-> k.public]
  BY DEF IsKernel
<1>2. SetResource(k, v).comp = k.comp /\ (v \in Int => Steady(SetResource(k, v)))
  <2>1. CASE k.hp = v BY <2>1 DEF SetResource
  <2>2. CASE k.hp # v
    <3> DEFINE n == SetResource(k, v)
    <3>1. n = [base |-> k.base, comp |-> k.comp, hp |-> v, explicit |-> k.explicit \cup {"hp"},
               dirty |-> TRUE, pending |-> k.pending, public |-> k.public]
      BY <1>1, <2>2 DEF SetResource, Touched
    <3> HIDE DEF n
    <3>2. n.comp = k.comp /\ n.hp = v /\ n.dirty = TRUE BY <3>1
    <3>3. n.comp = k.comp /\ (v \in Int => Steady(n)) BY <3>2 DEF Steady
    <3> QED BY <3>3 DEF n
  <2> QED BY <2>1, <2>2
<1>3. ASSUME NEW s \in Stored
      PROVE  SetStored(k, s, v).comp = k.comp /\ Steady(SetStored(k, s, v))
  <2>1. CASE k.base[s] = v BY <2>1 DEF SetStored
  <2>2. CASE k.base[s] # v
    <3> DEFINE n == SetStored(k, s, v)
               b == [k.base EXCEPT ![s] = v]
    <3>1. n = [base |-> b, comp |-> k.comp, hp |-> k.hp, explicit |-> k.explicit \cup {s},
               dirty |-> TRUE, pending |-> k.pending, public |-> k.public]
      BY <1>1, <2>2 DEF SetStored, Touched
    <3> HIDE DEF n, b
    <3>2. n.comp = k.comp /\ n.hp = k.hp /\ n.dirty = TRUE BY <3>1
    <3>3. n.comp = k.comp /\ Steady(n) BY <3>2 DEF Steady
    <3> QED BY <3>3 DEF n
  <2> QED BY <2>1, <2>2
<1> QED BY <1>2, <1>3

\* normalize settles a kernel.
LEMMA NormalizeSettles ==
    ASSUME NEW k, IsKernel(k), Steady(k), k.base.level \in 1 .. MaxLevel, k.base.ht \in Nat
    PROVE  /\ Normalized(k).comp = Rebuilt(k.base)
           /\ Normalized(k).base = k.base
           /\ Normalized(k).hp \in 0 .. Rebuilt(k.base).maxHp
           /\ Normalized(k).comp.points = k.base.points
           /\ Steady(Normalized(k))
<1> DEFINE comp == Rebuilt(k.base)
           hp   == Clamp(k.hp, 0, comp.maxHp)
           new  == Recomputed(k)
           n    == Normalized(k)
<1>1. comp.maxHp \in Nat /\ comp.points = k.base.points BY RebuiltFacts
<1>2. CASE ~k.dirty
  <2>1. n = k /\ Settled(k) BY <1>2 DEF Normalized, Steady
  <2> QED BY <1>1, <2>1 DEF Settled
<1>3. CASE k.dirty
  <2>1. k = [base |-> k.base, comp |-> k.comp, hp |-> k.hp, explicit |-> k.explicit,
             dirty |-> k.dirty, pending |-> k.pending, public |-> k.public]
    BY DEF IsKernel
  <2>2. new = [k EXCEPT !.comp = comp, !.hp = hp, !.explicit = {}, !.dirty = FALSE]
    BY DEF Recomputed
  <2> DEFINE ch   == Changes(k)
             all  == DOMAIN k.pending \cup ch
             pend == [s \in all |-> IF s \in ch THEN ReadPacket(new, s) ELSE k.pending[s]]
             pub  == IF "level" \in ch THEN <<new.base.level>> ELSE k.public
  <2>3. hp \in 0 .. comp.maxHp
    <3>1. k.hp \in Int BY DEF Steady
    <3> HIDE DEF comp
    <3> QED BY <1>1, <3>1 DEF Clamp, Least
  <2> HIDE DEF comp, hp, new, ch
  <2>4. new = [base |-> k.base, comp |-> comp, hp |-> hp, explicit |-> {},
               dirty |-> FALSE, pending |-> k.pending, public |-> k.public]
    BY <2>1, <2>2
  <2>5. n = [new EXCEPT !.pending = pend, !.public = pub]
    <3>1. new.public = k.public BY <2>4
    <3>2. n = [new EXCEPT !.pending = pend,
                          !.public = IF "level" \in ch THEN <<new.base.level>> ELSE @]
      BY <1>3 DEF Normalized, new, ch
    <3> QED BY <2>4, <3>1, <3>2
  <2> HIDE DEF n, pend, pub
  <2>6. n.base = k.base /\ n.comp = comp /\ n.hp = hp /\ n.dirty = FALSE BY <2>4, <2>5
  <2>7. Steady(n)
    <3>1. n.hp \in Int /\ n.comp.maxHp \in Nat BY <1>1, <2>3, <2>6
    <3>2. Settled(n) BY <2>3, <2>6 DEF Settled, comp
    <3> QED BY <3>1, <3>2 DEF Steady
  <2>8. n.comp.points = k.base.points BY <1>1, <2>6
  <2> QED BY <2>3, <2>6, <2>7, <2>8 DEF comp, n
<1> QED BY <1>2, <1>3

\* hydrate_player gives a settled kernel, of the base stats that belong to the
\* progression when no more is allocated than was earned.
LEMMA HydratedIsSettled ==
    ASSUME NEW p \in [level : 1 .. MaxLevel, exp : Nat, alloc : Nat, resets : Nat],
           p.alloc <= EarnedPoints(p.level, p.exp), NEW hp \in Int
    PROVE  /\ Hydrated(p, hp).base = Worth(p)
           /\ Hydrated(p, hp).comp = Rebuilt(Worth(p))
           /\ Hydrated(p, hp).hp = Clamp(hp, 0, Rebuilt(Worth(p)).maxHp)
           /\ Hydrated(p, hp).comp.points = Worth(p).points
           /\ Steady(Hydrated(p, hp))
<1> DEFINE k == Hydrated(p, hp)
           comp == Rebuilt(Worth(p))
           h == Clamp(hp, 0, comp.maxHp)
<1>1. /\ p.level \in 1 .. MaxLevel /\ p.exp \in Nat /\ p.alloc \in Nat
      /\ EarnedPoints(p.level, p.exp) \in Nat /\ BaseHt \in Nat
  BY CrossingEarns, LevelNumbers
<1>2. AvailablePoints(p) = EarnedPoints(p.level, p.exp) - p.alloc
  BY <1>1 DEF AvailablePoints
<1>3. k = [base |-> Worth(p), comp |-> comp, hp |-> h, explicit |-> {}, dirty |-> FALSE,
           pending |-> NothingPending, public |-> <<>>]
  BY <1>2 DEF Hydrated, Worth
<1>4. Worth(p).level \in 1 .. MaxLevel /\ Worth(p).ht \in Nat BY <1>1 DEF Worth
<1>5. comp.maxHp \in Nat /\ comp.points = Worth(p).points BY <1>4, RebuiltFacts
<1> HIDE DEF comp
<1>6. h \in 0 .. comp.maxHp BY <1>5 DEF Clamp, Least
<1> HIDE DEF h, k
<1>7. k.base = Worth(p) /\ k.comp = comp /\ k.hp = h BY <1>3
<1>8. Settled(k) BY <1>6, <1>7 DEF Settled, comp
<1>9. Steady(k) BY <1>5, <1>6, <1>7, <1>8 DEF Steady
<1> QED BY <1>5, <1>7, <1>9 DEF k, h, comp

\* A kernel's base stats belong to a progression when each of them does.
LEMMA BaseIsWorth ==
    ASSUME NEW k, IsKernel(k), NEW p, k.base["level"] = p.level, k.base["exp"] = p.exp,
           k.base["points"] = EarnedPoints(p.level, p.exp) - p.alloc,
           k.base["ht"] = BaseHt + p.alloc, k.base["resets"] = p.resets
    PROVE  k.base = Worth(p)
<1>1. k.base = [s \in Stored |-> k.base[s]] BY DEF IsKernel
<1>2. k.base = [level |-> k.base["level"], exp |-> k.base["exp"], points |-> k.base["points"],
                ht |-> k.base["ht"], resets |-> k.base["resets"]]
  BY <1>1 DEF Stored
<1> QED BY <1>2 DEF Worth

\* The progression, and the kernel that has its worth.
LEMMA WorthFacts ==
    ASSUME ReloadInv
    PROVE  /\ prog.level \in 1 .. MaxLevel /\ prog.exp \in Nat
           /\ prog.alloc \in Nat /\ prog.resets \in Nat
           /\ EarnedPoints(prog.level, prog.exp) \in Nat /\ BaseHt \in Nat
           /\ stats.base["level"] = prog.level /\ stats.base["exp"] = prog.exp
           /\ stats.base["points"] = EarnedPoints(prog.level, prog.exp) - prog.alloc
           /\ stats.base["ht"] = BaseHt + prog.alloc
           /\ stats.base["resets"] = prog.resets
           /\ ReadPacket(stats, "points") = EarnedPoints(prog.level, prog.exp) - prog.alloc
<1>1. /\ prog.level \in 1 .. MaxLevel /\ prog.exp \in Nat
      /\ prog.alloc \in Nat /\ prog.resets \in Nat
  BY DEF ReloadInv
<1>2. EarnedPoints(prog.level, prog.exp) \in Nat /\ BaseHt \in Nat
  BY <1>1, CrossingEarns, LevelNumbers
<1>3. ReadPacket(stats, "points") = stats.comp["points"] BY DEF ReadPacket
<1> QED BY <1>1, <1>2, <1>3 DEF ReloadInv, Worth

\* A kernel of a progression's worth, normalized.
LEMMA NormalizedReload ==
    ASSUME NEW k, IsKernel(k), Steady(k),
           prog' \in [level : 1 .. MaxLevel, exp : Nat, alloc : Nat, resets : Nat],
           prog'.alloc <= EarnedPoints(prog'.level, prog'.exp),
           k.base = Worth(prog'), stats' = Normalized(k)
    PROVE  ReloadInv'
<1>1. k.base.level \in 1 .. MaxLevel /\ k.base.ht \in Nat BY LevelNumbers DEF Worth
<1>2. /\ stats'.base = k.base /\ stats'.comp.points = k.base.points /\ Steady(stats')
  BY <1>1, NormalizeSettles
<1> QED BY <1>2 DEF ReloadInv

\* A kernel whose hit points are set.
LEMMA ResourceReload ==
    ASSUME SyncInv, ReloadInv, NEW v \in Int, stats' = SetResource(stats, v), prog' = prog
    PROVE  ReloadInv'
<1>1. IsKernel(stats) /\ Synced(stats, shown, looks) /\ Steady(stats)
  BY DEF SyncInv, ReloadInv
<1>2. stats'.base = stats.base BY <1>1, SettersKeepSynced
<1>3. stats'.comp = stats.comp /\ Steady(stats') BY <1>1, SettersKeepSteady
<1> QED BY <1>2, <1>3 DEF ReloadInv

\* apply_stat_kernel_update and apply_progression_update move the same point.
LEMMA CoreStatReload ==
    ASSUME SyncInv, ReloadInv, NEW delta \in {-1, 1}, CoreStat(delta)
    PROVE  ReloadInv'
<1> DEFINE k == KernelUpdate(stats, delta)
           resets == IF delta = -1 THEN prog.resets - 1 ELSE prog.resets
           ht == BaseHt + prog.alloc + delta
           points == ReadPacket(stats, "points") - delta
           a == SetStored(stats, "ht", ht)
           b == SetStored(a, "points", points)
           earned == EarnedPoints(prog.level, prog.exp)
<1>1. /\ stats' = Normalized(k) /\ CoreStatAllowed(delta)
      /\ prog' = [prog EXCEPT !.alloc = @ + delta,
                              !.resets = IF delta = -1 THEN @ - 1 ELSE @]
  BY DEF CoreStat
<1>2. k = SetStored(b, "resets", resets) BY DEF KernelUpdate
<1>3. /\ prog.level \in 1 .. MaxLevel /\ prog.exp \in Nat
      /\ prog.alloc \in Nat /\ prog.resets \in Nat /\ earned \in Nat /\ BaseHt \in Nat
      /\ ReadPacket(stats, "points") = earned - prog.alloc /\ prog.alloc <= earned
  BY WorthFacts DEF ReloadInv
<1>4. IsKernel(stats) /\ Synced(stats, shown, looks) /\ Steady(stats)
  BY DEF SyncInv, ReloadInv
<1>5. prog = [level |-> prog.level, exp |-> prog.exp, alloc |-> prog.alloc,
              resets |-> prog.resets]
  BY DEF ReloadInv
<1>6. prog' = [level |-> prog.level, exp |-> prog.exp, alloc |-> prog.alloc + delta,
               resets |-> resets]
  BY <1>1, <1>5
<1> HIDE DEF earned
<1>7. resets \in Nat /\ prog.alloc + delta \in Nat /\ prog.alloc + delta <= earned
  <2>1. \/ delta = 1 /\ earned - prog.alloc > 0
        \/ delta = -1 /\ prog.resets > 0 /\ prog.alloc > 0
    BY <1>1, <1>3 DEF CoreStatAllowed
  <2>2. CASE delta = 1 /\ earned - prog.alloc > 0
    <3>1. resets \in Nat BY <1>3, <2>2
    <3>2. prog.alloc + 1 \in Nat /\ prog.alloc + 1 <= earned BY <1>3, <2>2
    <3> QED BY <2>2, <3>1, <3>2
  <2>3. CASE delta = -1 /\ prog.resets > 0 /\ prog.alloc > 0
    <3>1. resets \in Nat BY <1>3, <2>3
    <3>2. prog.alloc - 1 \in Nat /\ prog.alloc - 1 <= earned BY <1>3, <2>3
    <3>3. prog.alloc + delta = prog.alloc - 1 BY <1>3, <2>3
    <3> QED BY <3>1, <3>2, <3>3
  <2> QED BY <2>1, <2>2, <2>3
<1> HIDE DEF k, resets, ht, points
<1>8. IsKernel(a) /\ Synced(a, shown, looks) /\ Steady(a)
  BY <1>4, SettersKeepSynced, SettersKeepSteady DEF Stored
<1>9. /\ a.base["ht"] = ht /\ a.base["level"] = prog.level /\ a.base["exp"] = prog.exp
      /\ a.base["resets"] = prog.resets
  BY <1>4, SettersKeepSynced, WorthFacts DEF Stored
<1> HIDE DEF a
<1>10. IsKernel(b) /\ Synced(b, shown, looks) /\ Steady(b)
  BY <1>8, SettersKeepSynced, SettersKeepSteady DEF Stored
<1>11. /\ b.base["ht"] = ht /\ b.base["level"] = prog.level /\ b.base["exp"] = prog.exp
       /\ b.base["points"] = points
  BY <1>8, <1>9, SettersKeepSynced DEF Stored
<1> HIDE DEF b
<1>12. IsKernel(k) /\ Steady(k)
  BY <1>2, <1>10, SettersKeepSynced, SettersKeepSteady DEF Stored
<1>13. /\ k.base["ht"] = ht /\ k.base["level"] = prog.level /\ k.base["exp"] = prog.exp
       /\ k.base["points"] = points /\ k.base["resets"] = resets
  BY <1>2, <1>10, <1>11, SettersKeepSynced DEF Stored
<1>14. /\ prog'.level = prog.level /\ prog'.exp = prog.exp
       /\ prog'.alloc = prog.alloc + delta /\ prog'.resets = resets
  BY <1>6
<1>15. EarnedPoints(prog'.level, prog'.exp) = earned BY <1>14 DEF earned
<1>16. points = earned - (prog.alloc + delta) BY <1>3 DEF points
<1>17. ht = BaseHt + (prog.alloc + delta) BY <1>3 DEF ht
<1>18. k.base = Worth(prog')
  BY <1>12, <1>13, <1>14, <1>15, <1>16, <1>17, BaseIsWorth
<1>19. prog' \in [level : 1 .. MaxLevel, exp : Nat, alloc : Nat, resets : Nat]
  BY <1>3, <1>6, <1>7
<1>20. prog'.alloc <= EarnedPoints(prog'.level, prog'.exp) BY <1>7, <1>14, <1>15
<1> QED BY <1>1, <1>12, <1>18, <1>19, <1>20, NormalizedReload

\* apply_player_exp_reward pays the points that a load will derive.
LEMMA RewardReload ==
    ASSUME SyncInv, ReloadInv, NEW adjusted \in Rewards, Reward(adjusted)
    PROVE  ReloadInv'
<1> DEFINE amount == MobExpReward(prog.level, adjusted)
           gain == ExpGain[prog.level][prog.exp][amount]
           k == RewardedStats(stats, gain)
           a == SetStored(stats, "level", gain.level)
           b == SetStored(a, "exp", gain.exp)
           points == ReadPacket(stats, "points") + gain.points
           c == IF gain.points > 0 THEN SetStored(b, "points", points) ELSE b
           d == Normalized(c)
           e == SetResource(d, d.comp.maxHp)
           earned == EarnedPoints(prog.level, prog.exp)
<1>1. /\ prog' = [prog EXCEPT !.level = gain.level, !.exp = gain.exp]
      /\ stats' = Normalized(k)
  BY Zenon DEF Reward
<1>2. /\ prog.level \in 1 .. MaxLevel /\ prog.exp \in Nat
      /\ prog.alloc \in Nat /\ prog.resets \in Nat /\ earned \in Nat /\ BaseHt \in Nat
      /\ ReadPacket(stats, "points") = earned - prog.alloc
      /\ stats.base["points"] = earned - prog.alloc /\ prog.alloc <= earned
  BY WorthFacts DEF ReloadInv
<1>3. amount \in Nat
  <2>1. adjusted \in Nat /\ NextExp[prog.level] \in Nat
    BY <1>2, LevelNumbers, PlayerStatsAssumption
  <2>2. \A x \in Nat : x \div 10 \in Nat OBVIOUS
  <2> QED BY <2>1, <2>2 DEF MobExpReward, Least
<1> HIDE DEF amount
<1>4. Counts(prog.level, prog.exp, gain) BY <1>2, <1>3, GainCounts
<1>5. k = IF gain.steps > 0 THEN e ELSE c BY DEF RewardedStats, SetProgression
<1> HIDE DEF gain, k
<1>6. /\ gain.level \in 1 .. MaxLevel /\ gain.exp \in Nat /\ gain.points \in Nat
      /\ EarnedPoints(gain.level, gain.exp) = earned + gain.points
  BY <1>4 DEF Counts, Outcomes
<1> HIDE DEF earned
<1>7. IsKernel(stats) /\ Synced(stats, shown, looks) /\ Steady(stats)
  BY DEF SyncInv, ReloadInv
<1>8. prog = [level |-> prog.level, exp |-> prog.exp, alloc |-> prog.alloc,
              resets |-> prog.resets]
  BY DEF ReloadInv
<1>9. prog' = [level |-> gain.level, exp |-> gain.exp, alloc |-> prog.alloc,
               resets |-> prog.resets]
  BY <1>1, <1>8
<1>10. points = earned + gain.points - prog.alloc BY <1>2, <1>6
<1> HIDE DEF points
<1>11. IsKernel(a) /\ Synced(a, shown, looks) /\ Steady(a)
  BY <1>7, SettersKeepSynced, SettersKeepSteady DEF Stored
<1>12. /\ a.base["level"] = gain.level /\ a.base["points"] = earned - prog.alloc
       /\ a.base["ht"] = BaseHt + prog.alloc /\ a.base["resets"] = prog.resets
  <2>1. stats.base["ht"] = BaseHt + prog.alloc /\ stats.base["resets"] = prog.resets
    BY WorthFacts
  <2>2. a.base["level"] = gain.level BY <1>7, SettersKeepSynced DEF Stored
  <2>3. \A t \in Stored \ {"level"} : a.base[t] = stats.base[t]
    BY <1>7, SettersKeepSynced DEF Stored
  <2> HIDE DEF a
  <2> QED BY <1>2, <2>1, <2>2, <2>3 DEF Stored
<1> HIDE DEF a
<1>13. IsKernel(b) /\ Synced(b, shown, looks) /\ Steady(b)
  BY <1>11, SettersKeepSynced, SettersKeepSteady DEF Stored
<1>14. /\ b.base["level"] = gain.level /\ b.base["exp"] = gain.exp
       /\ b.base["points"] = earned - prog.alloc
       /\ b.base["ht"] = BaseHt + prog.alloc /\ b.base["resets"] = prog.resets
  BY <1>11, <1>12, SettersKeepSynced DEF Stored
<1> HIDE DEF b
<1>15. IsKernel(c) /\ Synced(c, shown, looks) /\ Steady(c)
  <2>1. /\ IsKernel(SetStored(b, "points", points))
        /\ Synced(SetStored(b, "points", points), shown, looks)
        /\ Steady(SetStored(b, "points", points))
    BY <1>13, SettersKeepSynced, SettersKeepSteady DEF Stored
  <2> QED BY <1>13, <2>1
<1>16. /\ c.base["level"] = gain.level /\ c.base["exp"] = gain.exp
       /\ c.base["points"] = earned + gain.points - prog.alloc
       /\ c.base["ht"] = BaseHt + prog.alloc /\ c.base["resets"] = prog.resets
  <2>1. CASE gain.points > 0
    <3> DEFINE n == SetStored(b, "points", points)
    <3>1. n.base["points"] = points /\ \A t \in Stored \ {"points"} : n.base[t] = b.base[t]
      BY <1>13, SettersKeepSynced DEF Stored
    <3>2. c = n BY <2>1
    <3> HIDE DEF n, c
    <3> QED BY <1>10, <1>14, <3>1, <3>2 DEF Stored
  <2>2. CASE ~(gain.points > 0)
    <3>1. gain.points = 0 /\ c = b BY <1>6, <2>2
    <3>2. earned - prog.alloc = earned + gain.points - prog.alloc BY <1>2, <3>1
    <3> HIDE DEF c
    <3> QED BY <1>14, <3>1, <3>2
  <2> QED BY <2>1, <2>2
<1> HIDE DEF c
<1>17. prog' \in [level : 1 .. MaxLevel, exp : Nat, alloc : Nat, resets : Nat]
  BY <1>2, <1>6, <1>9
<1>18. /\ prog'.level = gain.level /\ prog'.exp = gain.exp
       /\ prog'.alloc = prog.alloc /\ prog'.resets = prog.resets
  BY <1>9
<1>19. /\ EarnedPoints(prog'.level, prog'.exp) = earned + gain.points
       /\ prog'.alloc <= EarnedPoints(prog'.level, prog'.exp)
  BY <1>2, <1>6, <1>18
<1>20. c.base = Worth(prog')
  <2>1. c.base["points"] = EarnedPoints(prog'.level, prog'.exp) - prog'.alloc
    <3> DEFINE w == EarnedPoints(prog'.level, prog'.exp)
    <3>1. w = earned + gain.points /\ prog'.alloc = prog.alloc BY <1>18, <1>19
    <3> HIDE DEF w
    <3>2. w - prog'.alloc = earned + gain.points - prog.alloc
      BY <1>2, <1>6, <3>1
    <3>3. c.base["points"] = w - prog'.alloc BY <1>16, <3>2
    <3> QED BY <3>3 DEF w
  <2>2. /\ c.base["level"] = prog'.level /\ c.base["exp"] = prog'.exp
        /\ c.base["ht"] = BaseHt + prog'.alloc /\ c.base["resets"] = prog'.resets
    BY <1>16, <1>18
  <2> QED BY <1>15, <2>1, <2>2, BaseIsWorth
<1>21. d.comp = Rebuilt(c.base) /\ d.base = c.base /\ Steady(d) /\ IsKernel(d)
       /\ Synced(d, shown, looks)
  <2>1. c.base.level \in 1 .. MaxLevel /\ c.base.ht \in Nat
    BY <1>17, <1>20, LevelNumbers DEF Worth
  <2> QED BY <1>15, <2>1, NormalizeSettles, NormalizeKeepsSynced
<1> HIDE DEF d
<1>22. d.comp.maxHp \in Int BY <1>21 DEF Steady
<1>23. IsKernel(e) /\ e.base = d.base /\ Steady(e)
  BY <1>21, <1>22, SettersKeepSynced, SettersKeepSteady
<1> HIDE DEF e
<1>24. IsKernel(k) /\ Steady(k) /\ k.base = Worth(prog')
  BY <1>5, <1>15, <1>20, <1>21, <1>23
<1> QED BY <1>1, <1>17, <1>19, <1>24, NormalizedReload

\* Every system of a tick, and a logout with the login after it, keeps it.
LEMMA ReloadStep == ASSUME SyncInv, ReloadInv, StatsNext PROVE ReloadInv'
<1>1. /\ IsKernel(stats) /\ Synced(stats, shown, looks) /\ Steady(stats)
      /\ stats.hp \in Int /\ stats.comp.maxHp \in Nat
  BY DEF SyncInv, ReloadInv, Steady
<1>2. /\ prog \in [level : 1 .. MaxLevel, exp : Nat, alloc : Nat, resets : Nat]
      /\ prog.alloc <= EarnedPoints(prog.level, prog.exp) /\ stats.base = Worth(prog)
  BY DEF ReloadInv
<1>3. \A v \in Int, u \in Nat : Clamp(v, 0, u) \in Int BY DEF Clamp, Least
<1>4. CASE Relogin
  <2> DEFINE hp == IF stats.hp <= 0 THEN DeadReconnectHp ELSE stats.hp
  <2>1. stats' = Hydrated(prog, hp) /\ prog' = prog BY <1>4 DEF Relogin
  <2>2. hp \in Int BY <1>1 DEF DeadReconnectHp
  <2> HIDE DEF hp
  <2>3. stats'.base = Worth(prog) /\ stats'.comp.points = Worth(prog).points /\ Steady(stats')
    BY <1>2, <2>1, <2>2, HydratedIsSettled
  <2> QED BY <1>2, <2>1, <2>3 DEF ReloadInv
<1>5. ASSUME NEW delta \in {-1, 1}, CoreStat(delta) PROVE ReloadInv'
  BY <1>5, CoreStatReload
<1>6. CASE NormalizeStats
  <2>1. stats' = Normalized(stats) /\ prog' = prog BY <1>6 DEF NormalizeStats
  <2> QED BY <1>1, <1>2, <2>1, NormalizedReload
<1>7. ASSUME NEW n \in Wounds, Damaged(n) PROVE ReloadInv'
  <2>1. stats.hp - n \in Int BY <1>1, PlayerStatsAssumption
  <2> QED BY <1>7, <2>1, ResourceReload DEF Damaged
<1>8. ASSUME NEW hp \in {RestartHp, stats.comp.maxHp \div 2}, Restarted(hp) PROVE ReloadInv'
  <2>1. \A u \in Nat : u \div 2 \in Int OBVIOUS
  <2>2. hp \in Int BY <1>1, <2>1, PlayerStatsAssumption
  <2>3. Clamp(hp, 0, stats.comp.maxHp) \in Int BY <1>1, <1>3, <2>2
  <2> QED BY <1>8, <2>3, ResourceReload DEF Restarted
<1>9. ASSUME NEW n \in Cures, Restored(n) PROVE ReloadInv'
  <2>1. stats.hp + n \in Int BY <1>1, PlayerStatsAssumption
  <2>2. Clamp(stats.hp + n, 0, stats.comp.maxHp) \in Int BY <1>1, <1>3, <2>1
  <2> QED BY <1>9, <2>2, ResourceReload DEF Restored
<1>10. ASSUME UNCHANGED <<prog, stats>> PROVE ReloadInv'
  BY <1>10 DEF ReloadInv, Steady, Settled
<1>11. CASE LifeEvents BY <1>10, <1>11 DEF LifeEvents
<1>12. CASE NoRestart BY <1>10, <1>12 DEF NoRestart
<1>13. CASE EndRewards BY <1>10, <1>13 DEF EndRewards
<1>14. ASSUME NEW adjusted \in Rewards, Reward(adjusted) PROVE ReloadInv'
  BY <1>14, RewardReload
<1>15. CASE FlushStats
  <2> DEFINE k == Normalized(stats)
  <2>1. stats' = [k EXCEPT !.pending = NothingPending, !.public = <<>>] /\ prog' = prog
    BY <1>15 DEF FlushStats
  <2>2. stats.base.level \in 1 .. MaxLevel /\ stats.base.ht \in Nat
    BY <1>2, LevelNumbers DEF Worth
  <2>3. /\ k.base = stats.base /\ k.comp.points = stats.base.points /\ Steady(k)
    BY <1>1, <2>2, NormalizeSettles
  <2>4. IsKernel(k) BY <1>1, NormalizeKeepsSynced
  <2> HIDE DEF k
  <2>5. stats' = [base |-> k.base, comp |-> k.comp, hp |-> k.hp, explicit |-> k.explicit,
                  dirty |-> k.dirty, pending |-> NothingPending, public |-> <<>>]
    BY <2>1, <2>4 DEF IsKernel
  <2>6. /\ stats'.base = k.base /\ stats'.comp = k.comp /\ stats'.hp = k.hp
        /\ stats'.dirty = k.dirty
    BY <2>5
  <2>7. Steady(stats') BY <2>3, <2>6 DEF Steady, Settled
  <2> QED BY <1>2, <2>1, <2>3, <2>6, <2>7 DEF ReloadInv
<1> QED
  BY <1>4, <1>5, <1>6, <1>7, <1>8, <1>9, <1>11, <1>12, <1>13, <1>14, <1>15 DEF StatsNext

\* The kernel is worth the progression that is saved, through every stage of a
\* tick and across reloads.
THEOREM ReloadInvariant == StatsSpec => []ReloadInv
<1>1. StatsInit => ReloadInv
  <2> SUFFICES ASSUME StatsInit PROVE ReloadInv
    OBVIOUS
  <2>1. PICK resets \in Resets :
           prog = [level |-> 1, exp |-> 0, alloc |-> 0, resets |-> resets]
    BY DEF StatsInit
  <2>2. prog \in [level : 1 .. MaxLevel, exp : Nat, alloc : Nat, resets : Nat]
    BY <2>1, PlayerStatsAssumption
  <2>3. prog.alloc <= EarnedPoints(prog.level, prog.exp) BY <2>1, <2>2, CrossingEarns
  <2>4. HpCapacity(prog.level, BaseHt) \in Int
    <3>1. \A x, y \in Nat : x * y \in Nat OBVIOUS
    <3>2. BaseHt * HpPerHt \in Nat /\ Growth[prog.level] \in Nat /\ BaseHp \in Nat
      BY <2>2, <3>1, LevelNumbers
    <3> QED BY <3>2 DEF HpCapacity, GrowthAt
  <2>5. stats = Hydrated(prog, HpCapacity(prog.level, BaseHt)) BY DEF StatsInit
  <2>6. stats.base = Worth(prog) /\ stats.comp.points = Worth(prog).points /\ Steady(stats)
    BY <2>2, <2>3, <2>4, <2>5, HydratedIsSettled
  <2> QED BY <2>2, <2>3, <2>6 DEF ReloadInv
<1>2. SyncInv /\ ReloadInv /\ [StatsNext]_statVars => ReloadInv'
  <2>1. ReloadInv /\ UNCHANGED statVars => ReloadInv'
    BY DEF statVars, ReloadInv, Steady, Settled
  <2> QED BY <2>1, ReloadStep
<1> QED BY <1>1, <1>2, SyncInvariant, PTL DEF StatsSpec

\* derive_available_stat_points finds what crossed_level_steps has counted:
\* whenever the kernel is clean, the one that hydrate_player would make of the
\* saved progression is the one that runs, whatever the table of levels.
THEOREM ReloadsAreNeutral == StatsSpec => []ReloadIsNeutral
<1>1. ReloadInv => ReloadIsNeutral
  <2> SUFFICES ASSUME ReloadInv, ~stats.dirty
               PROVE  LET again == Hydrated(prog, stats.hp)
                      IN  /\ again.base = stats.base
                          /\ again.comp = stats.comp
                          /\ again.hp = stats.hp
    BY DEF ReloadIsNeutral
  <2> DEFINE max == Rebuilt(Worth(prog)).maxHp
  <2>1. /\ prog \in [level : 1 .. MaxLevel, exp : Nat, alloc : Nat, resets : Nat]
        /\ prog.alloc <= EarnedPoints(prog.level, prog.exp) /\ stats.base = Worth(prog)
        /\ stats.hp \in Int /\ stats.comp = Rebuilt(Worth(prog)) /\ stats.hp \in 0 .. max
    BY DEF ReloadInv, Steady, Settled
  <2>2. /\ Hydrated(prog, stats.hp).base = Worth(prog)
        /\ Hydrated(prog, stats.hp).comp = Rebuilt(Worth(prog))
        /\ Hydrated(prog, stats.hp).hp = Clamp(stats.hp, 0, max)
    BY <2>1, HydratedIsSettled
  <2>3. max \in Nat BY <2>1 DEF ReloadInv, Steady
  <2> HIDE DEF max
  <2>4. Clamp(stats.hp, 0, max) = stats.hp BY <2>1, <2>3 DEF Clamp, Least
  <2> QED BY <2>1, <2>2, <2>4
<1> QED BY <1>1, ReloadInvariant, PTL
================================================================================
