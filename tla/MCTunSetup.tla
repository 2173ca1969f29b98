------------------------------ MODULE MCTunSetup ------------------------------
(***************************************************************************)
(* TunSetup for TLC.  A server pushes an address in a network "a", with a  *)
(* route to that network by the default gateway "g" and one to another by  *)
(* a gateway "v" inside it; a single address "l", which is a network the   *)
(* device may be in, whose other end is "v", with a route to it by "g" and *)
(* one to the other network by "v"; or no address.                         *)
(***************************************************************************)
EXTENDS TunSetup

To(net, gateway) == [net |-> net, gateway |-> gateway]

MCPushes ==
    {[ip |-> "a", remote |-> NoGateway, dns |-> <<>>,
      routes |-> {To("a", "g"), To("n", "v")}],
     [ip |-> "l", remote |-> "v", dns |-> <<"d", "e">>,
      routes |-> {To("l", "g"), To("n", "v")}],
     [ip |-> NoAddress, remote |-> NoGateway, dns |-> <<>>,
      routes |-> {}]}

MCInside == [net \in Nets |-> IF net = "a" THEN {"v"} ELSE {}]
MCLocal  == {{}, {"l"}}
=============================================================================
