------------------------------- MODULE PacketId -------------------------------
(***************************************************************************)
(* Packet ids and the replay window of packet_id.c, with a sender, a       *)
(* receiver and a network between them that loses, duplicates and reorders *)
(* (a packet once sent may arrive at any time, any number of times, or     *)
(* never).  --replay-persist is not part of it: this program's profiles    *)
(* never write that option.                                                *)
(***************************************************************************)
EXTENDS Integers, Sequences

CONSTANTS
    PacketIdMax,    \* PACKET_ID_MAX, 2^32 - 1 in the code
    SeqBacktrack,   \* --replay-window n; 0 over TCP
    TimeBacktrack,  \* --replay-window t
    ReapInterval,   \* SEQ_REAP_INTERVAL, 5 in the code
    LongForm,       \* the id on the wire carries the sender's time
    MaxNow,         \* bound on the receiver's clock
    MaxPeerNow      \* bound on the sender's clock

\* SEQ_UNSEEN and SEQ_EXPIRED share the list with the times of arrival.
SeqUnseen  == 0
SeqExpired == 1

\* packet_id_init leaves time_backtrack 0 when seq_backtrack is.
ASSUME PacketIdAssumption ==
    /\ PacketIdMax \in Nat \ {0}
    /\ SeqBacktrack \in Nat
    /\ TimeBacktrack \in Nat
    /\ SeqBacktrack = 0 => TimeBacktrack = 0
    /\ ReapInterval \in Nat \ {0}
    /\ LongForm \in BOOLEAN
    /\ MaxNow \in Nat /\ MaxPeerNow \in Nat

VARIABLES
    send,           \* struct packet_id_send of the sender
    peerNow,        \* the sender's clock
    rec,            \* struct packet_id_rec of the receiver; list[1] belongs to rec.id
    now,            \* the receiver's clock
    sent, sends,            \* what the sender has put on the wire, and how often
    received, deliveries    \* what the receiver has accepted and when, and how often

vars == <<send, peerNow, rec, now, sent, sends, received, deliveries>>

Ids  == 1 .. PacketIdMax
Pins == [time : Nat, id : Ids]

TypeOK ==
    /\ send \in [time : Nat, id : 0 .. PacketIdMax]
    /\ peerNow \in Nat /\ peerNow > SeqExpired
    /\ now \in Nat /\ now > SeqExpired
    /\ rec \in [time : Nat, id : 0 .. PacketIdMax, list : Seq(Nat), lastReap : Nat]
    /\ sent \subseteq Pins
    /\ received \subseteq [time : Nat, id : Ids, at : Nat]
    /\ sends \in Nat /\ deliveries \in Nat

Pin(d) == [time |-> d.time, id |-> d.id]

Init ==
    /\ send = [time |-> 0, id |-> 0]
    /\ rec = [time |-> 0, id |-> 0, list |-> <<>>, lastReap |-> 0]
    /\ peerNow = SeqExpired + 1 /\ now = SeqExpired + 1
    /\ sent = {} /\ sends = 0
    /\ received = {} /\ deliveries = 0

-----------------------------------------------------------------------------
(* The sender: packet_id_write.                                            *)

\* fault: rolls over within the second of the last roll-over
RolledOverAnyTime == send.id = PacketIdMax /\ LongForm

\* The id may only roll over in the long form, and not within the second that the
\* ids used up so far were stamped with.
MayRollOver == send.id = PacketIdMax /\ LongForm /\ peerNow > send.time


\* fault: the id is not reset when it rolls over
NextSendRunsOn ==
    [time |-> IF send.id = PacketIdMax \/ send.time = 0 THEN peerNow ELSE send.time,
     id |-> send.id + 1]

\* packet_id_send_update, where it does not refuse.
NextSend ==
    IF send.id = PacketIdMax
    THEN [time |-> peerNow, id |-> 1]
    ELSE [time |-> IF send.time = 0 THEN peerNow ELSE send.time, id |-> send.id + 1]

Write ==
    /\ send.id < PacketIdMax \/ MayRollOver
    /\ send' = NextSend
    /\ sent' = sent \cup {[time |-> IF LongForm THEN NextSend.time ELSE 0, id |-> NextSend.id]}
    /\ sends' = sends + 1
    /\ UNCHANGED <<peerNow, rec, now, received, deliveries>>

-----------------------------------------------------------------------------
(* The receiver.                                                           *)

Least(a, b) == IF a <= b THEN a ELSE b

\* fault: an arrival counts as recent for a second too long
OverdueLater(l, i) ==
    /\ \A k \in 1 .. i : l[k] # SeqExpired
    /\ \E k \in 1 .. i : l[k] # SeqUnseen /\ l[k] + TimeBacktrack + 1 < now

\* packet_id_reap: from the newest id whose packet came too long ago, every older
\* one expires, the ones not seen included; the loop ends where a former one did.
Overdue(l, i) ==
    /\ \A k \in 1 .. i : l[k] # SeqExpired
    /\ \E k \in 1 .. i : l[k] # SeqUnseen /\ l[k] + TimeBacktrack < now

\* fault: the reaper passes over the ids it has not seen
ReapedSeen(r) ==
    [r EXCEPT !.lastReap = now,
              !.list = IF TimeBacktrack = 0 THEN r.list
                       ELSE [i \in 1 .. Len(r.list) |->
                               IF Overdue(r.list, i) /\ r.list[i] # SeqUnseen
                               THEN SeqExpired ELSE r.list[i]]]

\* A pass of the reaper over the whole list.
Reaped(r) ==
    [r EXCEPT !.lastReap = now,
              !.list = IF TimeBacktrack = 0 THEN r.list
                       ELSE [i \in 1 .. Len(r.list) |->
                               IF Overdue(r.list, i) THEN SeqExpired ELSE r.list[i]]]

\* fault: a gap in the ids is let through
TestTcpGaps(r, pin) ==
    IF pin.time = r.time THEN pin.id > r.id ELSE pin.time > r.time

\* packet_id_test without a window: ids in a row, starting anywhere.
TestTcp(r, pin) ==
    IF pin.time = r.time
    THEN r.id = 0 \/ pin.id = r.id + 1
    ELSE pin.time > r.time /\ pin.id = 1

\* packet_id_test with a window.
TestUdp(r, pin) ==
    IF pin.time = r.time
    THEN \/ pin.id > r.id
         \/ /\ pin.id <= r.id
            /\ r.id - pin.id < Len(r.list)
            /\ r.list[r.id - pin.id + 1] = SeqUnseen
    ELSE pin.time > r.time

Test(r, pin) == IF SeqBacktrack = 0 THEN TestTcp(r, pin) ELSE TestUdp(r, pin)

\* n times CIRC_LIST_PUSH(SEQ_UNSEEN) on a list of capacity seq_backtrack.
Pushed(l, n) ==
    [i \in 1 .. Least(SeqBacktrack, n + Len(l)) |-> IF i <= n THEN SeqUnseen ELSE l[i - n]]

\* packet_id_add: whether the list starts over ...
StartsOver(r, pin) ==
    \/ r.list = <<>>
    \/ pin.time > r.time
    \/ pin.id >= SeqBacktrack /\ pin.id - SeqBacktrack > r.id

\* ... from the id below the window that ends with the new packet ...
Restarted(r, pin) ==
    [r EXCEPT !.time = pin.time,
              !.id   = IF pin.id > SeqBacktrack THEN pin.id - SeqBacktrack ELSE 0,
              !.list = <<>>]

\* fault: an arrival behind the newest one leaves no mark
MarkedNewest(l, diff) == IF diff = 0 THEN [l EXCEPT ![1] = now] ELSE l

\* ... and the window moves up to the new packet, which is marked with its time.
Marked(l, diff) == [l EXCEPT ![diff + 1] = now]

Advanced(r, pin) ==
    LET top    == IF pin.id > r.id THEN pin.id ELSE r.id
        pushed == Pushed(r.list, top - r.id)
    IN  [r EXCEPT !.id   = top,
                  !.list = IF top - pin.id < Len(pushed)
                           THEN Marked(pushed, top - pin.id) ELSE pushed]

Added(r, pin) ==
    IF SeqBacktrack = 0
    THEN [r EXCEPT !.time = pin.time, !.id = pin.id]
    ELSE Advanced(IF StartsOver(r, pin) THEN Restarted(r, pin) ELSE r, pin)

\* crypto_check_replay: reap if it is time, test, and add what passes.
Looked == IF rec.lastReap + ReapInterval <= now THEN Reaped(rec) ELSE rec

Accept(pin) ==
    /\ Test(Looked, pin)
    /\ rec' = Added(Looked, pin)
    /\ received' = received \cup {[time |-> pin.time, id |-> pin.id, at |-> now]}
    /\ deliveries' = deliveries + 1
    /\ UNCHANGED <<send, peerNow, now, sent, sends>>

Refuse(pin) ==
    /\ ~Test(Looked, pin)
    /\ rec' = Looked
    /\ UNCHANGED <<send, peerNow, now, sent, sends, received, deliveries>>

Receive == \E pin \in sent : Accept(pin) \/ Refuse(pin)

Tick ==
    \/ now < MaxNow /\ now' = now + 1 /\ UNCHANGED peerNow
    \/ peerNow < MaxPeerNow /\ peerNow' = peerNow + 1 /\ UNCHANGED now

Clock == Tick /\ UNCHANGED <<send, rec, sent, sends, received, deliveries>>

Next == Write \/ Receive \/ Clock

Spec == Init /\ [][Next]_vars

-----------------------------------------------------------------------------
Channel == INSTANCE AtMostOnce WITH delivered <- {Pin(d) : d \in received}

\* Ids are never used twice by packet_id_write, and packet_id_test lets none
\* through twice, whatever the network does and however the window moves.
ImplementsAtMostOnce == Channel!Spec

\* The last look at the list that the receiver has taken by the time it decides.
ReapTime == IF rec.lastReap + ReapInterval <= now THEN now ELSE rec.lastReap

\* What --replay-window promises, said of the packets themselves: not below the
\* highest id by the window or more, not received before, and not overtaken by a
\* packet that had come more than t seconds before the last look.
WindowAccepts(pin) ==
    \/ pin.time > rec.time
    \/ /\ pin.time = rec.time
       /\ pin.id + SeqBacktrack > rec.id
       /\ \A d \in received : d.time = pin.time =>
            /\ d.id # pin.id
            /\ d.id > pin.id /\ TimeBacktrack > 0 => d.at + TimeBacktrack >= ReapTime

\* The circular list decides as the packets received so far say: it forgets none of
\* the last seq_backtrack ids and holds nothing against one it has not seen.
AcceptsExactly ==
    [][SeqBacktrack > 0 => \A pin \in sent :
         /\ Accept(pin) => WindowAccepts(pin)
         /\ Refuse(pin) => ~WindowAccepts(pin)]_vars

\* A packet overtaken by one that came more than t seconds and a reap interval ago
\* is refused, for the list is reaped in time (packet_id_reap_test).
LateRefused ==
    [][TimeBacktrack > 0 => \A pin \in sent : Accept(pin) =>
         \A d \in received : d.time = pin.time /\ d.id > pin.id =>
             now < d.at + TimeBacktrack + ReapInterval]_vars

\* Without a window (TCP) packets are taken in the order of their ids and without a
\* gap within one time.
InOrder ==
    SeqBacktrack = 0 =>
        \A d \in received : \A e \in received :
            d.time = e.time =>
                /\ d.id < e.id => d.at <= e.at
                /\ \A i \in d.id .. e.id : \E f \in received : f.time = d.time /\ f.id = i
=============================================================================
