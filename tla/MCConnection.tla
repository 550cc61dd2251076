---------------------------- MODULE MCConnection ----------------------------
(* Small instances of Connection.                                          *)
EXTENDS Connection

\* Only the stream of a player holds more than one packet at a time.
MCMaxInFlight == [k \in Clients |-> IF k = "player" THEN 2 ELSE 1]
MCOnePacket == [k \in Clients |-> 1]
=============================================================================
