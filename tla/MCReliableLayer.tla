--------------------------- MODULE MCReliableLayer ---------------------------
(***************************************************************************)
(* ReliableLayer with a client that writes four packets and a server that  *)
(* writes one, over a network that carries one packet at a time from the   *)
(* client and two from the server.                                         *)
(***************************************************************************)
EXTENDS ReliableLayer, TLC

CONSTANTS client, server

MCMaxPackets == (client :> 4) @@ (server :> 1)
MCMaxInFlight == (client :> 1) @@ (server :> 2)
==============================================================================
