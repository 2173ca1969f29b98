------------------------------ MODULE AtMostOnce ------------------------------
(***************************************************************************)
(* What replay protection promises of a channel that loses, duplicates and *)
(* reorders packets: no two packets are sent under one identity, and no    *)
(* identity is delivered more than once.                                   *)
(***************************************************************************)
EXTENDS Naturals

VARIABLES
    sent, sends,            \* identities sent, and how many packets that were
    delivered, deliveries   \* identities delivered, and how many packets that were

vars == <<sent, sends, delivered, deliveries>>

Init ==
    /\ sent = {} /\ sends = 0
    /\ delivered = {} /\ deliveries = 0

Send ==
    /\ \E m \in sent' \ sent : sent' = sent \cup {m}
    /\ sends' = sends + 1
    /\ UNCHANGED <<delivered, deliveries>>

Deliver ==
    /\ \E m \in sent \ delivered : delivered' = delivered \cup {m}
    /\ deliveries' = deliveries + 1
    /\ UNCHANGED <<sent, sends>>

Next == Send \/ Deliver

Spec == Init /\ [][Next]_vars
=============================================================================
