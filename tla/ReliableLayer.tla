---------------------------- MODULE ReliableLayer ----------------------------
(***************************************************************************)
(* The reliability layer of the TLS control channel (reliable.c) and the   *)
(* code of ssl.c that drives it, at both ends of one key negotiation, with *)
(* a network between them that loses, duplicates and reorders.  Packets    *)
(* are numbered from 0, the hard reset, and named by their number.  The    *)
(* ids are 32 bits wide in the code; a negotiation uses a few dozen.       *)
(***************************************************************************)
EXTENDS Integers, Sequences, FiniteSets

CONSTANTS
    A, B,           \* the two ends
    Holding,        \* the ends that send nothing before they have heard the peer
    SendSize,       \* TLS_RELIABLE_N_SEND_BUFFERS, 6 in the code
    RecSize,        \* TLS_RELIABLE_N_REC_BUFFERS, 12
    AckSize,        \* RELIABLE_ACK_SIZE, 8
    SendAckMax,     \* CONTROL_SEND_ACK_MAX, 4
    AckRetransmit,  \* N_ACK_RETRANSMIT, 3
    MaxPackets,     \* bound: how many control packets each end writes
    MaxInFlight     \* bound: how many packets are under way to one end

Ends == {A, B}
Peer(e) == IF e = A THEN B ELSE A

\* xmit_hold is set for a TCP server only, never at both ends.
ASSUME ReliableAssumption ==
    /\ A # B /\ Holding \subseteq {A, B} /\ Holding # {A, B}
    /\ SendSize \in Nat \ {0} /\ RecSize \in Nat /\ SendSize <= RecSize
    /\ AckSize \in Nat \ {0} /\ SendAckMax \in Nat \ {0} /\ SendAckMax <= AckSize
    /\ AckRetransmit \in Nat \ {0}
    /\ MaxPackets \in [{A, B} -> Nat \ {0}]
    /\ MaxInFlight \in [{A, B} -> Nat \ {0}]

NoId == -1          \* of a dedicated acknowledgement, P_ACK_V1
ControlIds(e) == 0 .. MaxPackets[e] - 1
Packets(e) == [id : ControlIds(e) \cup {NoId}, acks : SUBSET ControlIds(Peer(e))]

VARIABLES
    state,          \* ks->state: "initial", "preStart", or "started" for S_START on
    known,          \* ks->session_id_remote is set, and the burst done
    sendId,         \* send_reliable->packet_id
    unacked,        \* the active entries of send_reliable
    due,            \* those that reliable_send may take: next_try or n_acks says so
    nAcks,          \* n_acks of the entries that are not due yet
    hold,           \* send_reliable->hold
    recId,          \* rec_reliable->packet_id
    recBuf,         \* the active entries of rec_reliable
    recAck,         \* ks->rec_ack: received and not acknowledged yet
    lruAcks,        \* ks->lru_acks: acknowledged most recently
    net,            \* what is under way to each end
    delivered       \* what has been handed to each end's TLS object, in order

sendVars == <<sendId, unacked, due, nAcks, hold>>
recVars  == <<recId, recBuf, recAck, lruAcks, delivered>>
vars == <<state, known, sendVars, recVars, net>>

\* The lists of acknowledgements keep to their size.
TypeOK ==
    /\ state \in [Ends -> {"initial", "preStart", "started"}]
    /\ known \in [Ends -> BOOLEAN] /\ hold \in [Ends -> BOOLEAN]
    /\ sendId \in [Ends -> Nat] /\ recId \in [Ends -> Nat]
    /\ delivered \in [Ends -> Seq(Nat)]
    /\ \A e \in Ends :
        /\ unacked[e] \subseteq ControlIds(e)
        /\ due[e] \subseteq unacked[e]
        /\ nAcks[e] \in [ControlIds(e) -> 0 .. AckRetransmit - 1]
        /\ recBuf[e] \subseteq ControlIds(Peer(e))
        /\ recAck[e] \subseteq ControlIds(Peer(e)) /\ Cardinality(recAck[e]) <= AckSize
        /\ lruAcks[e] \subseteq ControlIds(Peer(e)) /\ Cardinality(lruAcks[e]) <= AckSize
        /\ net[e] \subseteq Packets(Peer(e))

Init ==
    /\ state = [e \in Ends |-> "initial"]
    /\ known = [e \in Ends |-> FALSE]
    /\ sendId = [e \in Ends |-> 0] /\ recId = [e \in Ends |-> 0]
    /\ unacked = [e \in Ends |-> {}] /\ due = [e \in Ends |-> {}]
    /\ nAcks = [e \in Ends |-> [i \in ControlIds(e) |-> 0]]
    /\ hold = [e \in Ends |-> e \in Holding]
    /\ recBuf = [e \in Ends |-> {}] /\ recAck = [e \in Ends |-> {}]
    /\ lruAcks = [e \in Ends |-> {}]
    /\ net = [e \in Ends |-> {}]
    /\ delivered = [e \in Ends |-> << >>]

-----------------------------------------------------------------------------
(* The network.  When it is full, a new packet displaces an old one.       *)

With(packets, max, p) ==
    IF Cardinality(packets) < max
    THEN {packets \cup {p}}
    ELSE {(packets \ {q}) \cup {p} : q \in packets}

Lose(e, p) ==
    /\ p \in net[e]
    /\ net' = [net EXCEPT ![e] = @ \ {p}]
    /\ UNCHANGED <<state, known, sendVars, recVars>>

-----------------------------------------------------------------------------
(* tls_process, run by the event loop after every packet and every timeout *)
(* while the link's buffer is empty: tls_process_state until nothing       *)
(* changes, then a dedicated acknowledgement if nothing else was sent.     *)

\* fault: as many as there are free buffers, however old the oldest active one is
WindowByBuffers(e) ==
    {k \in 0 .. SendSize :
        sendId[e] + k <= MaxPackets[e] /\ Cardinality(unacked[e]) + k <= SendSize}

\* How many packets can be written: reliable_get_num_output_sequenced_available.
Window(e) ==
    {k \in 0 .. SendSize :
        /\ sendId[e] + k <= MaxPackets[e]
        /\ \A i \in unacked[e] : sendId[e] + k - i <= SendSize}

\* The handshake is over when the hard reset has been acknowledged.
Started(e) == state[e] = "started" \/ (state[e] = "preStart" /\ unacked[e] = {})

\* session_move_pre_start writes the hard reset, write_outgoing_tls_ciphertext the rest.
Writes(e) ==
    IF state[e] = "initial" THEN {1} ELSE IF Started(e) THEN Window(e) ELSE {0}

Ready(e, new) == IF hold[e] THEN {} ELSE due[e] \cup new

\* The packets f, f + 1, .., t - 1.
Run(f, t) == [i \in 1 .. t - f |-> f + i - 1]

\* fault: the next active entry is handed on, whatever its id
HandedAnyOrder(e) == {<< i >> : i \in recBuf[e]} \cup {<< >>}

\* reliable_get_entry_sequenced, until the next packet is missing.  The hard reset may end
\* the loop (parse_early_negotiation_tlvs changes no state), but nothing is behind it then.
Handed(e) ==
    {Run(recId[e], n) : n \in {m \in recId[e] .. recId[e] + RecSize :
                                  m \notin recBuf[e] /\ recId[e] .. m - 1 \subseteq recBuf[e]}}

\* reliable_mark_deleted of what has been handed on.
HandOn(e, s) ==
    /\ delivered' = [delivered EXCEPT ![e] = @ \o s]
    /\ recBuf' = [recBuf EXCEPT ![e] = {i \in @ : \A j \in 1 .. Len(s) : s[j] # i}]
    /\ recId' = [recId EXCEPT ![e] = IF s = << >> THEN @ ELSE s[Len(s)] + 1]

\* reliable_ack_write and copy_acks_to_mru: up to max new acknowledgements, and old ones
\* again while there is room.  Which of them, when not all fit, is left open.
WriteAcks(e, max, acks) ==
    \E new \in SUBSET recAck[e], lru \in SUBSET (recAck[e] \cup lruAcks[e]) :
        /\ Cardinality(new) <= max /\ (Cardinality(new) < max => new = recAck[e])
        /\ new \subseteq lru /\ lru \subseteq new \cup lruAcks[e] /\ Cardinality(lru) <= AckSize
        /\ Cardinality(lru) < AckSize => lru = new \cup lruAcks[e]
        /\ new \subseteq acks /\ acks \subseteq lru /\ Cardinality(acks) <= max
        /\ Cardinality(acks) < max => acks = lru
        /\ recAck' = [recAck EXCEPT ![e] = @ \ new]
        /\ lruAcks' = [lruAcks EXCEPT ![e] = lru]

Send(e, id, max) ==
    \E acks \in SUBSET (recAck[e] \cup lruAcks[e]) :
        /\ WriteAcks(e, max, acks)
        /\ \E packets \in With(net[Peer(e)], MaxInFlight[Peer(e)], [id |-> id, acks |-> acks]) :
               net' = [net EXCEPT ![Peer(e)] = packets]

TlsProcess(e) ==
    \E k \in Writes(e), s \in Handed(e) :
        LET new == sendId[e] .. sendId[e] + k - 1
            ready == Ready(e, new)
        IN /\ state' = [state EXCEPT ![e] = IF @ = "initial" THEN "preStart"
                                            ELSE IF Started(e) THEN "started" ELSE @]
           /\ sendId' = [sendId EXCEPT ![e] = @ + k]
           /\ unacked' = [unacked EXCEPT ![e] = @ \cup new]
           /\ HandOn(e, s)
           /\ UNCHANGED <<known, nAcks, hold>>
           /\ \/ \E i \in ready :               \* reliable_send: the lowest one
                    /\ \A j \in ready : i <= j
                    /\ due' = [due EXCEPT ![e] = (@ \cup new) \ {i}]
                    /\ Send(e, i, SendAckMax)
              \/ /\ ready = {} /\ recAck[e] # {}
                 /\ due' = [due EXCEPT ![e] = @ \cup new]
                 /\ Send(e, NoId, AckSize)
              \/ /\ ready = {} /\ recAck[e] = {}
                 /\ due' = [due EXCEPT ![e] = @ \cup new]
                 /\ UNCHANGED <<recAck, lruAcks, net>>

\* The time of the next try of an entry comes.
Expire(e, i) ==
    /\ i \in unacked[e] \ due[e]
    /\ due' = [due EXCEPT ![e] = @ \cup {i}]
    /\ nAcks' = [nAcks EXCEPT ![e][i] = 0]
    /\ UNCHANGED <<state, known, sendId, unacked, hold, recVars, net>>

-----------------------------------------------------------------------------
(* tls_pre_decrypt                                                         *)

\* fault: an acknowledgement stands for all ids up to it
PurgedUpTo(e, acks) == {i \in unacked[e] : \E a \in acks : i <= a}

\* reliable_send_purge: the entries the acknowledgements delete
Purged(e, acks) == unacked[e] \cap acks

\* reliable_send_purge counts the higher acknowledgements for the entries that remain;
\* the first contact with the peer (do_burst) makes all of them due.
Acknowledged(e, acks) ==
    LET left == unacked[e] \ Purged(e, acks)
        count(i) == nAcks[e][i] + Cardinality({a \in acks : a > i})
        early == {i \in left : count(i) >= AckRetransmit \/ ~known[e]}
    IN /\ unacked' = [unacked EXCEPT ![e] = left]
       /\ due' = [due EXCEPT ![e] = (@ \cap left) \cup early]
       /\ nAcks' = [nAcks EXCEPT ![e] = [i \in ControlIds(e) |->
                        IF i \in left \ (due[e] \cup early) THEN count(i) ELSE 0]]
       /\ hold' = [hold EXCEPT ![e] = @ /\ known[e]]
       /\ UNCHANGED sendId

\* fault: an id that has been handed on is taken for new
NotReplayBuffered(e, id) == id \notin recBuf[e]

\* reliable_not_replay
NotReplay(e, id) == id >= recId[e] /\ id \notin recBuf[e]

\* reliable_can_get and reliable_wont_break_sequentiality
Accepts(e, id) == Cardinality(recBuf[e]) < RecSize /\ id < recId[e] + RecSize

\* fault: reliable_ack_acknowledge_packet_id does not look at the room in the list
ToAckUnbounded(e, id) == recAck[e] \cup {id}

\* fault: a replay is not acknowledged again
ToAckNew(e, id) ==
    IF Cardinality(recAck[e]) < AckSize /\ NotReplay(e, id)
    THEN recAck[e] \cup {id} ELSE recAck[e]

\* reliable_ack_acknowledge_packet_id, "even if it's a replay"; a full list takes no more.
ToAck(e, id) ==
    IF Cardinality(recAck[e]) < AckSize THEN recAck[e] \cup {id} ELSE recAck[e]

\* A packet arrives; stays says that another copy of it is still under way.  Before the
\* hard reset of the peer (id 0) has been seen, no other packet can be routed, and the
\* event loop runs tls_process, which hands it on, before it reads another packet.
Receive(e, p, stays) ==
    /\ p \in net[e] /\ 0 \notin recBuf[e]
    /\ net' = [net EXCEPT ![e] = IF stays THEN @ ELSE @ \ {p}]
    /\ UNCHANGED <<state, recId, lruAcks, delivered>>
    /\ IF known[e] \/ p.id = 0
       THEN /\ known' = [known EXCEPT ![e] = TRUE]
            /\ Acknowledged(e, p.acks)
            /\ IF p.id # NoId /\ Accepts(e, p.id)
               THEN /\ recBuf' = [recBuf EXCEPT ![e] =
                                    IF NotReplay(e, p.id) THEN @ \cup {p.id} ELSE @]
                    /\ recAck' = [recAck EXCEPT ![e] = ToAck(e, p.id)]
               ELSE UNCHANGED <<recBuf, recAck>>
       ELSE UNCHANGED <<known, sendVars, recBuf, recAck>>

-----------------------------------------------------------------------------
Next ==
    \E e \in Ends :
        \/ TlsProcess(e)
        \/ \E i \in ControlIds(e) : Expire(e, i)
        \/ \E p \in net[e] : Lose(e, p)
        \/ \E p \in net[e], stays \in BOOLEAN : Receive(e, p, stays)

Spec == Init /\ [][Next]_vars

\* The event loop runs and its timers end.  When packets that wait for an acknowledgement
\* are sent again and again, one of them arrives at last, and so with acknowledgements.
Fairness ==
    \A e \in Ends :
        /\ WF_vars(TlsProcess(e))
        /\ WF_vars(\E i \in ControlIds(e) : Expire(e, i))
        /\ SF_vars(\E p \in net[e] : p.id \in unacked[Peer(e)] /\ Receive(e, p, FALSE))
        /\ SF_vars(\E p \in net[e] : p.acks \cap unacked[e] # {} /\ Receive(e, p, FALSE))

FairSpec == Spec /\ Fairness

-----------------------------------------------------------------------------
(* Properties.                                                             *)

\* Only what the peer has received is deleted from the send buffer (reliable_send_purge).
PurgedIsReceived ==
    \A e \in Ends : \A i \in ControlIds(e) :
        i < sendId[e] /\ i \notin unacked[e] => i < recId[Peer(e)] \/ i \in recBuf[Peer(e)]

\* The send window never gets ahead of the receive buffer, whatever acknowledgements come
\* late or twice: no packet that is new to the receiver is ever refused.
NeverRefused ==
    \A e \in Ends : \A p \in net[e] :
        p.id # NoId /\ NotReplay(e, p.id) => Accepts(e, p.id)

\* The receive buffer never fills up with packets that cannot be handed on, which would
\* keep the missing one out for ever (reliable_wont_break_sequentiality, "Avoid deadlock").
NoReceiveDeadlock ==
    \A e \in Ends : Cardinality(recBuf[e]) = RecSize => recId[e] \in recBuf[e]

\* The TLS objects are handed what the peer has written, once each and in order.
Channel == INSTANCE FifoChannel WITH written <- sendId
ImplementsFifo == Channel!Spec

\* What is written is in the end handed to the peer and acknowledged, whatever has been
\* lost, and although an acknowledgement is not sent again unless the packet is.
Drained ==
    \A e \in Ends : \A i \in ControlIds(e) :
        (i < sendId[e]) ~> (i \notin unacked[e] /\ i < recId[Peer(e)] /\ i < sendId[e])
==============================================================================
