------------------------------ MODULE MCPacketId ------------------------------
(***************************************************************************)
(* PacketId for TLC: ids wrap at a handful, the clocks stop at their       *)
(* bounds.  A profile's link is UDP or TCP: the variables of PacketId are  *)
(* those of a UDP link, with the window the cfg gives it, and the ones     *)
(* below those of a TCP link, which has none.  Init chooses the link, and  *)
(* only that one takes steps.                                              *)
(***************************************************************************)
EXTENDS PacketId

VARIABLES link, tSend, tPeerNow, tRec, tNow, tSent, tSends, tReceived, tDeliveries

tcpVars == <<tSend, tPeerNow, tRec, tNow, tSent, tSends, tReceived, tDeliveries>>

Tcp == INSTANCE PacketId WITH
    SeqBacktrack <- 0, TimeBacktrack <- 0,
    send <- tSend, peerNow <- tPeerNow, rec <- tRec, now <- tNow, sent <- tSent,
    sends <- tSends, received <- tReceived, deliveries <- tDeliveries

LinksInit == Init /\ Tcp!Init /\ link \in {"udp", "tcp"}

LinksNext ==
    /\ UNCHANGED link
    /\ \/ link = "udp" /\ Next /\ UNCHANGED tcpVars
       \/ link = "tcp" /\ Tcp!Next /\ UNCHANGED vars

LinksSpec == LinksInit /\ [][LinksNext]_<<vars, tcpVars, link>>

\* Without a window (TCP) packets are accepted in the order of their ids and without
\* a gap within one time (packet_id_test).
TcpInOrder == Tcp!InOrder

\* Over TCP no id is used twice and none accepted twice, roll-over included.
TcpAtMostOnce == Tcp!ImplementsAtMostOnce
=============================================================================
