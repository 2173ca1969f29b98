----------------------------- MODULE FifoChannel -----------------------------
(***************************************************************************)
(* What the reliability layer promises the TLS objects of the two ends:    *)
(* what one has written, the other is handed once each and in order,       *)
(* whatever the network does.  A packet is named by its number.            *)
(***************************************************************************)
EXTENDS Integers, Sequences

CONSTANTS
    Ends,           \* the two ends
    Peer(_)         \* the other one

VARIABLES
    written,        \* how many packets each end has written
    delivered       \* what each end has been handed, in order

Upto(n) == [i \in 1 .. n |-> i - 1]

Init ==
    /\ written = [e \in Ends |-> 0]
    /\ delivered = [e \in Ends |-> << >>]

\* One end writes some packets and is handed the next ones of the other's, or none.
Exchange(e) ==
    /\ written'[e] \in Nat /\ written'[e] >= written[e]
    /\ written' = [written EXCEPT ![e] = written'[e]]
    /\ \E d \in Len(delivered[e]) .. written[Peer(e)] :
           delivered' = [delivered EXCEPT ![e] = Upto(d)]

Next == \E e \in Ends : Exchange(e)

Spec == Init /\ [][Next]_<<written, delivered>>
==============================================================================
