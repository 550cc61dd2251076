--------------------------- MODULE MCSessionLease ---------------------------
(* Small instances of SessionLease: where the connections land and what may *)
(* happen there.                                                            *)
EXTENDS SessionLease, TLC

CONSTANTS c1, c2, k1, k2

\* A login after a handoff reaches another core; heartbeats fail.
TwoCores ==
    [coreOf |-> (c1 :> k1) @@ (c2 :> k2), staleAfter |-> 1, maxEpoch |-> 1,
     chatty |-> TRUE, mayCrash |-> FALSE, mayFail |-> TRUE, gateways |-> FALSE]

\* A reconnect reaches the same core, which may crash; a gateway is there too.
OneCore ==
    [coreOf |-> (c1 :> k1) @@ (c2 :> k1), staleAfter |-> 1, maxEpoch |-> 1,
     chatty |-> FALSE, mayCrash |-> TRUE, mayFail |-> FALSE, gateways |-> TRUE]

MCSites == {TwoCores, OneCore}

\* A deployment without a fault; sessions go stale after more than two
\* heartbeats.
MCQuiet == {[TwoCores EXCEPT !.staleAfter = 3, !.mayFail = FALSE]}
MCQuietGateway == {[TwoCores EXCEPT !.staleAfter = 3, !.mayFail = FALSE, !.gateways = TRUE]}
=============================================================================
