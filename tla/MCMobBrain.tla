------------------------------ MODULE MCMobBrain ------------------------------
EXTENDS MobBrain, TLC

CONSTANTS m1, m2, p1, p2

\* A lone mob that wanders and attacks by itself, between two players,
\* one of whom walks.
Lone == [mobs |-> {m1}, players |-> {p1, p2}, walkers |-> {p1}, home |-> (m1 :> 3 @@ m2 :> 0),
         pack |-> {}, aggressive |-> {m1}, ranged |-> {}, wanderers |-> {m1}]

\* A pack of a melee and a ranged mob that only answer, and one player.
Pack == [mobs |-> {m1, m2}, players |-> {p1}, walkers |-> {p1}, home |-> (m1 :> 3 @@ m2 :> 0),
         pack |-> {m1, m2}, aggressive |-> {}, ranged |-> {m2}, wanderers |-> {}]

MCCasts == {Lone, Pack}
===============================================================================
