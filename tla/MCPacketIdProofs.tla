--------------------------- MODULE MCPacketIdProofs ---------------------------
(***************************************************************************)
(* The TCP link of MCPacketId is a PacketId without a window, so what is   *)
(* proved of one holds for it, for every size of ids and every bound of    *)
(* the clocks; nothing of the UDP link next to it touches it.              *)
(***************************************************************************)
EXTENDS MCPacketId, TLAPS

Proved == INSTANCE PacketIdProofs WITH
    SeqBacktrack <- 0, TimeBacktrack <- 0,
    send <- tSend, peerNow <- tPeerNow, rec <- tRec, now <- tNow, sent <- tSent,
    sends <- tSends, received <- tReceived, deliveries <- tDeliveries

\* packet_id_init of a TCP link: no window in ids, and none in time.
LEMMA TcpAssumption == Proved!PacketIdAssumption
BY PacketIdAssumption DEF Proved!PacketIdAssumption

\* A step of either link is a step of the TCP link or leaves it alone.
LEMMA TcpSteps == LinksSpec => Proved!Spec
<1>1. LinksInit => Proved!Init
  BY DEF LinksInit, Tcp!Init, Proved!Init, Tcp!SeqExpired, Proved!SeqExpired
<1>2. [LinksNext]_<<vars, tcpVars, link>> => [Proved!Next]_Proved!vars
  <2>1. Tcp!Write => Proved!Write
    BY DEF Tcp!Write, Tcp!MayRollOver, Tcp!NextSend, Proved!Write, Proved!MayRollOver, Proved!NextSend
  <2>2. Tcp!Clock => Proved!Clock
    BY DEF Tcp!Clock, Tcp!Tick, Proved!Clock, Proved!Tick
  <2>3. Tcp!Looked = Proved!Looked
    BY DEF Tcp!Looked, Tcp!Reaped, Tcp!Overdue, Tcp!SeqUnseen, Tcp!SeqExpired,
           Proved!Looked, Proved!Reaped, Proved!Overdue, Proved!SeqUnseen, Proved!SeqExpired
  <2>4. ASSUME NEW pin, Tcp!Accept(pin) PROVE Proved!Accept(pin)
    BY <2>3, <2>4 DEF Tcp!Accept, Tcp!Test, Tcp!TestTcp, Tcp!Added,
                      Proved!Accept, Proved!Test, Proved!TestTcp, Proved!Added
  <2>5. ASSUME NEW pin, Tcp!Refuse(pin) PROVE Proved!Refuse(pin)
    BY <2>3, <2>5 DEF Tcp!Refuse, Tcp!Test, Tcp!TestTcp, Proved!Refuse, Proved!Test, Proved!TestTcp
  <2>6. Tcp!Next => Proved!Next
    BY <2>1, <2>2, <2>4, <2>5 DEF Tcp!Next, Tcp!Receive, Proved!Next, Proved!Receive
  <2> QED BY <2>6 DEF LinksNext, tcpVars, Proved!vars
<1> QED BY <1>1, <1>2, PTL DEF LinksSpec, Proved!Spec

\* packet_id_test and packet_id_add without a window: within one time the ids accepted
\* are in a row and come in that order.
THEOREM TcpAcceptedInOrder == LinksSpec => []TcpInOrder
<1>1. Proved!Spec => []Proved!InOrder
  BY TcpAssumption, Proved!AcceptedInOrder
<1>2. Proved!InOrder => TcpInOrder
  BY DEF TcpInOrder, Tcp!InOrder, Proved!InOrder
<1> QED BY <1>1, <1>2, TcpSteps, PTL

\* packet_id_write and packet_id_test of a TCP link: no id goes out twice, and none is
\* let through twice.
THEOREM TcpOnceOnly == LinksSpec => TcpAtMostOnce
<1>1. Proved!Spec => Proved!ImplementsAtMostOnce
  BY TcpAssumption, Proved!AtMostOnceImplemented
<1>2. Proved!Channel!Init => Tcp!Channel!Init
  BY DEF Proved!Channel!Init, Tcp!Channel!Init, Proved!Pin, Tcp!Pin
<1>3. [Proved!Channel!Next]_Proved!Channel!vars => [Tcp!Channel!Next]_Tcp!Channel!vars
  BY DEF Proved!Channel!Next, Proved!Channel!Send, Proved!Channel!Deliver, Proved!Channel!vars,
         Tcp!Channel!Next, Tcp!Channel!Send, Tcp!Channel!Deliver, Tcp!Channel!vars,
         Proved!Pin, Tcp!Pin
<1> QED BY <1>1, <1>2, <1>3, TcpSteps, PTL
        DEF TcpAtMostOnce, Tcp!ImplementsAtMostOnce, Proved!ImplementsAtMostOnce,
            Tcp!Channel!Spec, Proved!Channel!Spec
=============================================================================
