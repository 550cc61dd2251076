---------------------------- MODULE SingleOwner -----------------------------
(***************************************************************************)
(* What the rows of an account promise the connections that want to serve  *)
(* it, without tokens, phases, timers, entities or statements: one of them *)
(* at a time holds the account.  It gives the account up itself, or with   *)
(* its committed exit, which moves the runtime epoch on, or it is replaced *)
(* once its lease is stale; who is served beside the holder has lost the   *)
(* account that way and has not heard of it.                               *)
(***************************************************************************)
EXTENDS Naturals

CONSTANTS
    Conns,
    Nobody

VARIABLES
    holder, \* the connection the account belongs to
    served, \* the connections that claimed the account and go on with it
    lost,   \* those whose account was taken, or left with their exit
    stale,  \* the holder's lease may be taken
    epoch   \* runtime epoch of the player's row

account == <<holder, served, lost, stale, epoch>>

Init ==
    /\ holder = Nobody
    /\ served = {}
    /\ lost = {}
    /\ stale = FALSE
    /\ epoch = 0

\* A connection takes, once, an account that is free or stale; who held it
\* has lost it.
Claim(c) ==
    /\ c \notin served \cup lost \cup {holder}
    /\ holder = Nobody \/ stale
    /\ holder' = c
    /\ served' = served \cup {c}
    /\ lost' = lost \cup ({holder} \ {Nobody})
    /\ stale' = FALSE
    /\ UNCHANGED epoch

\* Connections end, many at once when their core dies.  The account stays
\* with its holder.
Stop ==
    /\ served' \in SUBSET served
    /\ UNCHANGED <<holder, lost, stale, epoch>>

\* The holder gives the account back once it is not served any more.
Release(c) ==
    /\ holder = c
    /\ c \notin served
    /\ holder' = Nobody
    /\ stale' = FALSE
    /\ UNCHANGED <<served, lost, epoch>>

\* The holder's exit commits, and the epoch moves on with the account.
CommitExit(c) ==
    /\ holder = c
    /\ holder' = Nobody
    /\ lost' = lost \cup {c}
    /\ stale' = FALSE
    /\ epoch' = epoch + 1
    /\ UNCHANGED served

\* Nobody refreshed the lease for too long.
GoesStale ==
    /\ holder # Nobody
    /\ stale' = TRUE
    /\ UNCHANGED <<holder, served, lost, epoch>>

\* A heartbeat of the account.
Refresh ==
    /\ stale' = FALSE
    /\ UNCHANGED <<holder, served, lost, epoch>>

Next ==
    \/ \E c \in Conns : Claim(c) \/ Release(c) \/ CommitExit(c)
    \/ Stop
    \/ GoesStale
    \/ Refresh

Spec == Init /\ [][Next]_account
=============================================================================
