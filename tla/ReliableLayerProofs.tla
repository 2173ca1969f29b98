-------------------------- MODULE ReliableLayerProofs --------------------------
(***************************************************************************)
(* ReliableLayer implements FifoChannel and never refuses a new packet,    *)
(* for all sizes of the buffers and lists and any network.                 *)
(***************************************************************************)
EXTENDS ReliableLayer, FiniteSetTheorems, TLAPS

USE ReliableAssumption DEF ReliableAssumption, NoId

\* What end e has received, handed on or not.
Received(e) == {i \in Nat : i < recId[e] \/ i \in recBuf[e]}

\* The functions are total.
Total ==
    /\ unacked \in [Ends -> SUBSET Nat] /\ due \in [Ends -> SUBSET Nat]
    /\ recBuf \in [Ends -> SUBSET Nat] /\ recAck \in [Ends -> SUBSET Nat]
    /\ lruAcks \in [Ends -> SUBSET Nat]
    /\ nAcks = [e \in Ends |-> nAcks[e]]
    /\ net \in [Ends -> SUBSET [id : Nat \cup {NoId}, acks : SUBSET Nat]]

\* The active entries of the send buffer span at most SendSize ids.
Spans ==
    \A e \in Ends :
        /\ sendId[e] <= MaxPackets[e] /\ (state[e] = "initial" => sendId[e] = 0)
        /\ \A i \in unacked[e] : i < sendId[e] /\ sendId[e] - i <= SendSize

\* The receive buffer holds ids that the peer has written, from recId on.
Buffers ==
    \A e \in Ends :
        /\ recId[e] <= sendId[Peer(e)]
        /\ \A i \in recBuf[e] :
               recId[e] <= i /\ i < recId[e] + RecSize /\ i < sendId[Peer(e)]

\* What is under way to e has been written by the peer.
InFlight ==
    \A e \in Ends : \A p \in net[e] : p.id = NoId \/ p.id < sendId[Peer(e)]

\* Only what has been received is, was or will be acknowledged ...
Truthful ==
    \A e \in Ends :
        /\ recAck[e] \subseteq Received(e)
        /\ lruAcks[e] \subseteq Received(e)
        /\ \A p \in net[e] : p.acks \subseteq Received(Peer(e))
        /\ \A i \in Nat : i < sendId[e] /\ i \notin unacked[e] => i \in Received(Peer(e))

\* ... and the next packet to be handed on not yet, as tls_process hands on all it can
\* before it acknowledges.
NextUnacknowledged ==
    \A e \in Ends :
        /\ recId[e] \notin lruAcks[e]
        /\ \A p \in net[Peer(e)] : recId[e] \notin p.acks
        /\ recId[e] < sendId[Peer(e)] => recId[e] \in unacked[Peer(e)]

\* So the sender cannot get further ahead than its window.
Ahead == \A e \in Ends : sendId[e] <= recId[Peer(e)] + SendSize

InOrder == \A e \in Ends : delivered[e] = Run(0, recId[e])

IInv ==
    /\ TypeOK /\ Total
    /\ Spans /\ Buffers /\ InFlight /\ Truthful /\ NextUnacknowledged /\ Ahead /\ InOrder

-----------------------------------------------------------------------------
LEMMA PeerFacts ==
    \A e \in Ends :
        /\ Peer(e) \in Ends /\ Peer(e) # e /\ Peer(Peer(e)) = e
        /\ \A x \in Ends : x = e \/ x = Peer(e)
        /\ MaxPackets[e] \in Nat
BY DEF Ends, Peer

LEMMA FiniteIds ==
    ASSUME NEW e \in Ends, NEW S, S \subseteq ControlIds(e)
    PROVE  /\ IsFiniteSet(S) /\ Cardinality(S) \in Nat
           /\ \A T \in SUBSET S :
                  IsFiniteSet(T) /\ Cardinality(T) \in Nat /\ Cardinality(T) <= Cardinality(S)
<1>1. IsFiniteSet(ControlIds(e))
  <2>1. MaxPackets[e] - 1 \in Int
    BY PeerFacts
  <2>2. \A a, b \in Int : IsFiniteSet(a .. b)
    BY FS_Interval
  <2> QED BY <2>1, <2>2 DEF ControlIds
<1>2. IsFiniteSet(S)
  BY <1>1, FS_Subset
<1> QED BY <1>2, FS_Subset, FS_CardinalityType

LEMMA RunFacts ==
    ASSUME NEW f \in Nat, NEW t \in Nat, f <= t
    PROVE  /\ Run(f, t) \in Seq(Nat) /\ Len(Run(f, t)) = t - f
           /\ \A j \in 1 .. Len(Run(f, t)) : Run(f, t)[j] = f + j - 1
<1> DEFINE k == t - f
<1>1. k \in Nat /\ \A j \in 1 .. k : f + j - 1 \in Nat
  OBVIOUS
<1>2. Run(f, t) \in [1 .. k -> Nat]
  BY <1>1 DEF Run
<1>3. Run(f, t) \in Seq(Nat) /\ Len(Run(f, t)) = k
  BY <1>1, <1>2
<1>4. \A j \in 1 .. k : Run(f, t)[j] = f + j - 1
  BY DEF Run
<1> QED BY <1>3, <1>4

LEMMA RunFromZero ==
    ASSUME NEW t \in Nat
    PROVE  /\ Run(0, t) \in Seq(Nat) /\ Len(Run(0, t)) = t
           /\ \A j \in 1 .. t : Run(0, t)[j] = j - 1
<1>1. Run(0, t) = [j \in 1 .. t |-> j - 1]
  <2>1. t - 0 = t /\ \A j \in 1 .. t : 0 + j - 1 = j - 1
    OBVIOUS
  <2> QED BY <2>1 DEF Run
<1>2. Run(0, t) \in [1 .. t -> Nat]
  BY <1>1
<1> QED BY <1>1, <1>2

LEMMA RunConcat ==
    ASSUME NEW f \in Nat, NEW t \in Nat, f <= t
    PROVE  Run(0, f) \o Run(f, t) = Run(0, t)
<1> DEFINE r == Run(0, f) \o Run(f, t)
<1>1. /\ Run(0, f) \in Seq(Nat) /\ Len(Run(0, f)) = f
      /\ \A j \in 1 .. f : Run(0, f)[j] = j - 1
  BY RunFromZero
<1>2. /\ Run(f, t) \in Seq(Nat) /\ Len(Run(f, t)) = t - f
      /\ \A j \in 1 .. t - f : Run(f, t)[j] = f + j - 1
  <2>1. /\ Run(f, t) \in Seq(Nat) /\ Len(Run(f, t)) = t - f
        /\ \A j \in 1 .. Len(Run(f, t)) : Run(f, t)[j] = f + j - 1
    BY RunFacts
  <2> QED BY <2>1
<1>3. r \in Seq(Nat) /\ Len(r) = t
  BY <1>1, <1>2
<1>4. \A j \in 1 .. t : r[j] = j - 1
  <2> SUFFICES ASSUME NEW j \in 1 .. t PROVE r[j] = j - 1
    OBVIOUS
  <2>1. CASE j <= f
    BY <2>1, <1>1, <1>2
  <2>2. CASE j > f
    <3>1. j - f \in 1 .. t - f
      BY <2>2
    <3>2. r[j] = Run(f, t)[j - f]
      <4> DEFINE u == Run(0, f)
                 v == Run(f, t)
      <4>1. u \in Seq(Nat) /\ Len(u) = f /\ v \in Seq(Nat) /\ Len(v) = t - f
        BY <1>1, <1>2
      <4> HIDE DEF u, v
      <4>2. (u \o v)[j] = v[j - f]
        BY <4>1, <2>2, SMTT(30)
      <4> QED BY <4>2 DEF u, v
    <3>3. Run(f, t)[j - f] = f + (j - f) - 1
      BY <3>1, <1>2, Zenon
    <3>4. f + (j - f) - 1 = j - 1
      OBVIOUS
    <3>5. Run(f, t)[j - f] = j - 1
      BY <3>3, <3>4, Zenon
    <3> HIDE DEF r
    <3> QED BY <3>2, <3>5, Zenon
  <2>3. j <= f \/ j > f
    OBVIOUS
  <2> HIDE DEF r
  <2> QED BY <2>1, <2>2, <2>3
<1>5. /\ Run(0, t) \in Seq(Nat) /\ Len(Run(0, t)) = t
      /\ \A j \in 1 .. t : Run(0, t)[j] = j - 1
  BY RunFromZero
<1> HIDE DEF r
<1>6. r = Run(0, t)
  BY <1>3, <1>4, <1>5
<1> QED BY <1>6 DEF r

LEMMA OneMore ==
    ASSUME NEW S, IsFiniteSet(S), NEW x, NEW n \in Nat, Cardinality(S) < n
    PROVE  Cardinality(S \cup {x}) <= n
<1>1. Cardinality(S \cup {x}) = IF x \in S THEN Cardinality(S) ELSE Cardinality(S) + 1
  BY FS_AddElement
<1>2. Cardinality(S) \in Nat
  BY FS_CardinalityType
<1> QED BY <1>1, <1>2

LEMMA InitInv == Init => IInv
<1> SUFFICES ASSUME Init PROVE IInv
  OBVIOUS
<1> USE DEF Init
<1>1. TypeOK
  <2>1. Cardinality({}) = 0
    BY FS_EmptySet
  <2> QED BY <2>1, PeerFacts DEF TypeOK, ControlIds
<1>2. Total
  BY DEF Total
<1>3. Spans /\ Buffers /\ InFlight /\ Truthful /\ NextUnacknowledged /\ Ahead
  BY PeerFacts DEF Spans, Buffers, InFlight, Truthful, NextUnacknowledged, Ahead, Received
<1>4. InOrder
  BY DEF InOrder, Run
<1> QED BY <1>1, <1>2, <1>3, <1>4 DEF IInv

-----------------------------------------------------------------------------
(* What the parts of tls_process do.                                       *)

LEMMA HandOnFacts ==
    ASSUME IInv, NEW e \in Ends, NEW s \in Handed(e), HandOn(e, s)
    PROVE  /\ recId' \in [Ends -> Nat]
           /\ recBuf' \in [Ends -> SUBSET Nat]
           /\ delivered' \in [Ends -> Seq(Nat)]
           /\ \A x \in Ends : x # e => /\ recId'[x] = recId[x] /\ recBuf'[x] = recBuf[x]
                                       /\ delivered'[x] = delivered[x]
           /\ \A i \in Nat : (i < recId'[e] \/ i \in recBuf'[e]) <=> i \in Received(e)
           /\ recId[e] <= recId'[e] /\ recId'[e] <= sendId[Peer(e)]
           /\ recId'[e] \notin Received(e)
           /\ recBuf'[e] \subseteq recBuf[e]
           /\ \A i \in recBuf'[e] : recId'[e] <= i
           /\ delivered'[e] = Run(0, recId'[e])
<1> USE DEF IInv
<1>0. /\ recId \in [Ends -> Nat] /\ recBuf \in [Ends -> SUBSET Nat]
      /\ delivered \in [Ends -> Seq(Nat)] /\ sendId \in [Ends -> Nat]
      /\ recId[e] <= sendId[Peer(e)] /\ delivered[e] = Run(0, recId[e])
      /\ \A i \in recBuf[e] :
             recId[e] <= i /\ i < recId[e] + RecSize /\ i < sendId[Peer(e)]
      /\ Peer(e) \in Ends
  BY PeerFacts DEF TypeOK, Total, Buffers, InOrder
<1>1. PICK m \in recId[e] .. recId[e] + RecSize :
          m \notin recBuf[e] /\ recId[e] .. m - 1 \subseteq recBuf[e] /\ s = Run(recId[e], m)
  BY DEF Handed
<1>2. /\ recId[e] \in Nat /\ m \in Nat /\ recId[e] <= m
      /\ \A i \in Nat : recId[e] <= i /\ i < m => i \in recBuf[e]
  <2>1. recId[e] \in Nat
    BY <1>0
  <2>2. m \in Nat /\ recId[e] <= m
    BY <2>1
  <2>3. ASSUME NEW i \in Nat, recId[e] <= i, i < m PROVE i \in recBuf[e]
    <3>1. i \in recId[e] .. m - 1
      BY <2>1, <2>2, <2>3
    <3> QED BY <3>1, <1>1
  <2> QED BY <2>1, <2>2, <2>3
<1>3. /\ s \in Seq(Nat) /\ Len(s) = m - recId[e]
      /\ \A j \in 1 .. Len(s) : s[j] = recId[e] + j - 1
  <2> DEFINE f == recId[e]
  <2>1. f \in Nat /\ f <= m
    BY <1>2
  <2>2. /\ Run(f, m) \in Seq(Nat) /\ Len(Run(f, m)) = m - f
        /\ \A j \in 1 .. Len(Run(f, m)) : Run(f, m)[j] = f + j - 1
    <3> HIDE DEF f
    <3> QED BY <2>1, <1>2, RunFacts
  <2> QED BY <2>2, <1>1
<1>4. recId'[e] = m /\ recId' \in [Ends -> Nat]
  <2>1. CASE s = << >>
    BY <2>1, <1>0, <1>2, <1>3 DEF HandOn
  <2>2. CASE s # << >>
    <3>1. Len(s) \in 1 .. Len(s)
      BY <2>2, <1>3
    <3>2. s[Len(s)] = m - 1
      BY <3>1, <1>3, <1>0, <1>2
    <3> QED BY <3>2, <2>2, <1>0, <1>2 DEF HandOn
  <2> QED BY <2>1, <2>2
<1>5. \A i \in recBuf[e] : (\A j \in 1 .. Len(s) : s[j] # i) <=> m <= i
  <2> SUFFICES ASSUME NEW i \in recBuf[e]
               PROVE  (\A j \in 1 .. Len(s) : s[j] # i) <=> m <= i
    OBVIOUS
  <2>1. i \in Nat /\ recId[e] \in Nat /\ recId[e] <= i
    BY <1>0
  <2> DEFINE f == recId[e]
             l == Len(s)
             q == i - f + 1
  <2>2. m \in Nat /\ l = m - f /\ \A j \in 1 .. l : s[j] = f + j - 1
    BY <1>2, <1>3
  <2> HIDE DEF f, l
  <2>3. ASSUME i < m PROVE \E j \in 1 .. l : s[j] = i
    <3>1. q \in 1 .. l /\ f + q - 1 = i
      BY <2>1, <2>2, <2>3 DEF f
    <3> HIDE DEF q
    <3> QED BY <3>1, <2>2
  <2>4. ASSUME m <= i, NEW j \in 1 .. l PROVE s[j] # i
    <3>1. s[j] = f + j - 1
      BY <2>2
    <3>2. f + j - 1 < m
      BY <2>1, <2>2 DEF f
    <3> QED BY <3>1, <3>2, <2>1, <2>2, <2>4 DEF f
  <2>5. i < m \/ m <= i
    BY <2>1, <2>2
  <2>6. (\A j \in 1 .. l : s[j] # i) <=> m <= i
    BY <2>3, <2>4, <2>5
  <2> QED BY <2>6 DEF l
<1>6. recBuf' \in [Ends -> SUBSET Nat] /\ recBuf'[e] = {i \in recBuf[e] : m <= i}
  BY <1>0, <1>5 DEF HandOn
<1>7. delivered' \in [Ends -> Seq(Nat)] /\ delivered'[e] = Run(0, recId[e]) \o s
  BY <1>0, <1>3 DEF HandOn
<1>8. Run(0, recId[e]) \o s = Run(0, m)
  BY <1>1, <1>2, RunConcat
<1>9. m <= sendId[Peer(e)]
  <2>1. m = recId[e] \/ m - 1 \in recBuf[e]
    BY <1>0, <1>2
  <2> QED BY <2>1, <1>0, <1>2
<1>10. \A i \in Nat : (i < m \/ i \in recBuf'[e]) <=> i \in Received(e)
  BY <1>0, <1>2, <1>6 DEF Received
<1>11. m \notin Received(e)
  BY <1>0, <1>1, <1>2 DEF Received
<1>12. \A x \in Ends : x # e => /\ recId'[x] = recId[x] /\ recBuf'[x] = recBuf[x]
                                /\ delivered'[x] = delivered[x]
  BY <1>0 DEF HandOn
<1> QED BY <1>2, <1>4, <1>6, <1>7, <1>8, <1>9, <1>10, <1>11, <1>12

\* What a call of reliable_ack_write and the packet it goes into leave behind.
AcksWritten(e, id) ==
    /\ recAck' \in [Ends -> SUBSET Nat] /\ lruAcks' \in [Ends -> SUBSET Nat]
    /\ net' \in [Ends -> SUBSET [id : Nat \cup {NoId}, acks : SUBSET Nat]]
    /\ \A x \in Ends : x # e => recAck'[x] = recAck[x] /\ lruAcks'[x] = lruAcks[x]
    /\ recAck'[e] \subseteq recAck[e]
    /\ lruAcks'[e] \subseteq recAck[e] \cup lruAcks[e]
    /\ Cardinality(lruAcks'[e]) <= AckSize
    /\ net'[e] = net[e]
    /\ \A p \in net'[Peer(e)] :
           \/ p \in net[Peer(e)]
           \/ p.id = id /\ p.acks \subseteq recAck[e] \cup lruAcks[e]

LEMMA SendFacts ==
    ASSUME IInv, NEW e \in Ends, NEW id \in Nat \cup {NoId}, NEW max, Send(e, id, max)
    PROVE  AcksWritten(e, id)
<1>0. /\ recAck \in [Ends -> SUBSET Nat] /\ lruAcks \in [Ends -> SUBSET Nat]
      /\ net \in [Ends -> SUBSET [id : Nat \cup {NoId}, acks : SUBSET Nat]]
      /\ Peer(e) \in Ends /\ Peer(e) # e
  BY PeerFacts DEF IInv, Total
<1>1. PICK acks \in SUBSET (recAck[e] \cup lruAcks[e]) :
          /\ WriteAcks(e, max, acks)
          /\ \E packets \in With(net[Peer(e)], MaxInFlight[Peer(e)], [id |-> id, acks |-> acks]) :
                 net' = [net EXCEPT ![Peer(e)] = packets]
  BY DEF Send
<1>2. PICK new \in SUBSET recAck[e], lru \in SUBSET (recAck[e] \cup lruAcks[e]) :
          /\ Cardinality(lru) <= AckSize
          /\ recAck' = [recAck EXCEPT ![e] = @ \ new]
          /\ lruAcks' = [lruAcks EXCEPT ![e] = lru]
  BY <1>1 DEF WriteAcks
<1>3. /\ recAck' \in [Ends -> SUBSET Nat] /\ lruAcks' \in [Ends -> SUBSET Nat]
      /\ \A x \in Ends : x # e => recAck'[x] = recAck[x] /\ lruAcks'[x] = lruAcks[x]
      /\ recAck'[e] \subseteq recAck[e]
      /\ lruAcks'[e] \subseteq recAck[e] \cup lruAcks[e]
      /\ Cardinality(lruAcks'[e]) <= AckSize
  BY <1>0, <1>2
<1>4. PICK packets \in With(net[Peer(e)], MaxInFlight[Peer(e)], [id |-> id, acks |-> acks]) :
          net' = [net EXCEPT ![Peer(e)] = packets]
  BY <1>1
<1>5. [id |-> id, acks |-> acks] \in [id : Nat \cup {NoId}, acks : SUBSET Nat]
  BY <1>0
<1>6. packets \subseteq net[Peer(e)] \cup {[id |-> id, acks |-> acks]}
  BY <1>4 DEF With
<1>7. /\ net' \in [Ends -> SUBSET [id : Nat \cup {NoId}, acks : SUBSET Nat]]
      /\ net'[e] = net[e] /\ net'[Peer(e)] = packets
  BY <1>0, <1>4, <1>5, <1>6
<1>8. \A p \in packets :
          \/ p \in net[Peer(e)]
          \/ p.id = id /\ p.acks \subseteq recAck[e] \cup lruAcks[e]
  BY <1>6
<1> QED BY <1>3, <1>7, <1>8 DEF AcksWritten

LEMMA WritesFacts ==
    ASSUME IInv, NEW e \in Ends, NEW k \in Writes(e)
    PROVE  /\ k \in 0 .. SendSize /\ sendId[e] + k <= MaxPackets[e]
           /\ state[e] = "initial" => unacked[e] = {}
           /\ \A i \in unacked[e] : sendId[e] + k - i <= SendSize
<1>1. /\ sendId[e] \in Nat /\ sendId[e] <= MaxPackets[e] /\ unacked[e] \subseteq Nat
      /\ MaxPackets[e] \in Nat \ {0} /\ SendSize \in Nat \ {0}
      /\ \A i \in unacked[e] : i < sendId[e] /\ sendId[e] - i <= SendSize
      /\ state[e] = "initial" => sendId[e] = 0
  BY DEF IInv, TypeOK, Total, Spans, Ends
<1>2. CASE state[e] = "initial"
  <2>1. unacked[e] = {}
    BY <1>1, <1>2
  <2> QED BY <1>1, <1>2, <2>1 DEF Writes
<1>3. CASE state[e] # "initial" /\ k \in Window(e)
  BY <1>1, <1>3 DEF Window
<1>4. CASE state[e] # "initial" /\ k = 0
  BY <1>1, <1>4
<1> QED BY <1>2, <1>3, <1>4 DEF Writes

LEMMA TlsInv ==
    ASSUME IInv, NEW e \in Ends, TlsProcess(e)
    PROVE  IInv'
<1>1. PICK k \in Writes(e), s \in Handed(e) :
          LET new == sendId[e] .. sendId[e] + k - 1
              ready == Ready(e, new)
          IN /\ state' = [state EXCEPT ![e] = IF @ = "initial" THEN "preStart"
                                              ELSE IF Started(e) THEN "started" ELSE @]
             /\ sendId' = [sendId EXCEPT ![e] = @ + k]
             /\ unacked' = [unacked EXCEPT ![e] = @ \cup new]
             /\ HandOn(e, s)
             /\ UNCHANGED <<known, nAcks, hold>>
             /\ \/ \E i \in ready :
                      /\ \A j \in ready : i <= j
                      /\ due' = [due EXCEPT ![e] = (@ \cup new) \ {i}]
                      /\ Send(e, i, SendAckMax)
                \/ /\ ready = {} /\ recAck[e] # {}
                   /\ due' = [due EXCEPT ![e] = @ \cup new]
                   /\ Send(e, NoId, AckSize)
                \/ /\ ready = {} /\ recAck[e] = {}
                   /\ due' = [due EXCEPT ![e] = @ \cup new]
                   /\ UNCHANGED <<recAck, lruAcks, net>>
  BY DEF TlsProcess
<1> DEFINE new == sendId[e] .. sendId[e] + k - 1
           P == Peer(e)
<1>2. /\ P \in Ends /\ P # e /\ Peer(P) = e /\ \A x \in Ends : x = e \/ x = P
      /\ MaxPackets[e] \in Nat /\ MaxPackets[P] \in Nat
  BY PeerFacts
<1>3. /\ k \in 0 .. SendSize /\ sendId[e] + k <= MaxPackets[e]
      /\ state[e] = "initial" => unacked[e] = {}
      /\ \A i \in unacked[e] : sendId[e] + k - i <= SendSize
  BY <1>1, WritesFacts
<1>4. /\ TypeOK /\ Total /\ Spans /\ Buffers /\ InFlight /\ Truthful
      /\ NextUnacknowledged /\ Ahead /\ InOrder
  BY DEF IInv
<1>5. /\ sendId \in [Ends -> Nat] /\ unacked \in [Ends -> SUBSET Nat]
      /\ due \in [Ends -> SUBSET Nat] /\ due[e] \subseteq unacked[e]
      /\ unacked[e] \subseteq ControlIds(e)
  BY <1>4 DEF TypeOK, Total
<1>6. /\ sendId' \in [Ends -> Nat] /\ sendId'[e] = sendId[e] + k /\ sendId'[P] = sendId[P]
      /\ \A i \in new : i \in Nat /\ sendId[e] <= i /\ i < sendId'[e]
  BY <1>1, <1>2, <1>3, <1>5, SMTT(30)
<1>7. /\ unacked' \in [Ends -> SUBSET Nat]
      /\ unacked'[e] = unacked[e] \cup new /\ unacked'[P] = unacked[P]
  BY <1>1, <1>2, <1>5, <1>6
<1>8. \A i \in unacked[e] \cup new : i \in Nat /\ i < sendId'[e]
  BY <1>4, <1>5, <1>6, <1>3 DEF Spans
<1>9. \A i \in Ready(e, new) : i \in Nat /\ i < sendId'[e]
  BY <1>5, <1>8 DEF Ready
<1>10. /\ due' \in [Ends -> SUBSET Nat]
       /\ due'[e] \subseteq due[e] \cup new /\ due'[P] = due[P]
  <2>1. PICK S \in SUBSET (due[e] \cup new) : due' = [due EXCEPT ![e] = S]
    BY <1>1
  <2>2. due[e] \cup new \subseteq Nat
    BY <1>5, <1>6
  <2> HIDE DEF new
  <2>3. S \in SUBSET Nat /\ due \in [Ends -> SUBSET Nat] /\ P \in Ends /\ P # e
    BY <2>2, <1>2, <1>5
  <2> QED BY <2>1, <2>3
<1>11. PICK id \in Nat \cup {NoId} : (id = NoId \/ id < sendId'[e]) /\ AcksWritten(e, id)
  <2>1. CASE \E i \in Ready(e, new) : Send(e, i, SendAckMax)
    BY <2>1, <1>9, SendFacts
  <2>2. CASE Send(e, NoId, AckSize)
    BY <2>2, SendFacts
  <2>3. CASE UNCHANGED <<recAck, lruAcks, net>>
    BY <2>3, <1>4 DEF AcksWritten, Total, TypeOK
  <2> QED BY <1>1, <2>1, <2>2, <2>3
<1>12. /\ recId' \in [Ends -> Nat]
       /\ recBuf' \in [Ends -> SUBSET Nat]
       /\ delivered' \in [Ends -> Seq(Nat)]
       /\ recId'[P] = recId[P] /\ recBuf'[P] = recBuf[P] /\ delivered'[P] = delivered[P]
       /\ \A i \in Nat : (i < recId'[e] \/ i \in recBuf'[e]) <=> i \in Received(e)
       /\ recId[e] <= recId'[e] /\ recId'[e] <= sendId[P]
       /\ recId'[e] \notin Received(e)
       /\ recBuf'[e] \subseteq recBuf[e]
       /\ \A i \in recBuf'[e] : recId'[e] <= i
       /\ delivered'[e] = Run(0, recId'[e])
  BY <1>1, <1>2, HandOnFacts
<1>13. Received(e)' = Received(e) /\ Received(P)' = Received(P)
  BY <1>12 DEF Received
<1> HIDE DEF new, P
<1>14. Total'
  BY <1>7, <1>10, <1>11, <1>12, <1>1, <1>4 DEF Total, AcksWritten
<1>15. TypeOK'
  <2>1. /\ state' \in [Ends -> {"initial", "preStart", "started"}]
        /\ known' \in [Ends -> BOOLEAN] /\ hold' \in [Ends -> BOOLEAN] /\ nAcks' = nAcks
    BY <1>1, <1>4 DEF TypeOK
  <2>2. unacked'[e] \subseteq ControlIds(e)
    BY <1>8, <1>7, <1>6, <1>3, <1>5, <1>2 DEF ControlIds
  <2>3. due'[e] \subseteq unacked'[e]
    BY <1>5, <1>7, <1>10
  <2>4. recAck'[e] \subseteq ControlIds(P) /\ Cardinality(recAck'[e]) <= AckSize
    <3>1. recAck[e] \subseteq ControlIds(P) /\ Cardinality(recAck[e]) <= AckSize
      BY <1>4 DEF TypeOK, P
    <3>2. recAck'[e] \in SUBSET recAck[e]
      BY <1>11 DEF AcksWritten
    <3>3. /\ Cardinality(recAck'[e]) \in Nat /\ Cardinality(recAck[e]) \in Nat
          /\ Cardinality(recAck'[e]) <= Cardinality(recAck[e])
      BY <3>1, <3>2, <1>2, FiniteIds
    <3> QED BY <3>1, <3>2, <3>3
  <2>5. lruAcks'[e] \subseteq ControlIds(P) /\ Cardinality(lruAcks'[e]) <= AckSize
    BY <1>11, <1>4 DEF AcksWritten, TypeOK, P
  <2>6. recBuf'[e] \subseteq ControlIds(P)
    BY <1>12, <1>4 DEF TypeOK, P
  <2>7. net'[P] \subseteq Packets(e)
    <3>1. net[P] \subseteq Packets(e) /\ recAck[e] \cup lruAcks[e] \subseteq ControlIds(P)
      BY <1>2, <1>4 DEF TypeOK, P
    <3>2. id \in ControlIds(e) \cup {NoId}
      BY <1>11, <1>6, <1>3, <1>5, <1>2 DEF ControlIds
    <3>3. ASSUME NEW p \in net'[P] PROVE p \in Packets(e)
      <4>1. p \in [id : Nat \cup {NoId}, acks : SUBSET Nat]
        BY <3>3, <1>2, <1>11 DEF AcksWritten
      <4>2. CASE p \in net[P]
        BY <4>2, <3>1
      <4>3. CASE p.id = id /\ p.acks \subseteq recAck[e] \cup lruAcks[e]
        BY <4>1, <4>3, <3>1, <3>2 DEF Packets, P
      <4> QED BY <4>2, <4>3, <3>3, <1>11 DEF AcksWritten, P
    <3> QED BY <3>3
  <2>8. net'[e] \subseteq Packets(Peer(e))
    BY <1>4, <1>11 DEF TypeOK, AcksWritten
  <2>9. /\ unacked'[P] = unacked[P] /\ due'[P] = due[P] /\ recBuf'[P] = recBuf[P]
        /\ recAck'[P] = recAck[P] /\ lruAcks'[P] = lruAcks[P]
    BY <1>2, <1>7, <1>10, <1>11, <1>12 DEF AcksWritten
  <2>10. \A x \in Ends :
            /\ unacked'[x] \subseteq ControlIds(x)
            /\ due'[x] \subseteq unacked'[x]
            /\ nAcks'[x] \in [ControlIds(x) -> 0 .. AckRetransmit - 1]
            /\ recBuf'[x] \subseteq ControlIds(Peer(x))
            /\ recAck'[x] \subseteq ControlIds(Peer(x)) /\ Cardinality(recAck'[x]) <= AckSize
            /\ lruAcks'[x] \subseteq ControlIds(Peer(x)) /\ Cardinality(lruAcks'[x]) <= AckSize
            /\ net'[x] \subseteq Packets(Peer(x))
    <3>1. /\ unacked[P] \subseteq ControlIds(P)
          /\ due[P] \subseteq unacked[P]
          /\ nAcks[P] \in [ControlIds(P) -> 0 .. AckRetransmit - 1]
          /\ nAcks[e] \in [ControlIds(e) -> 0 .. AckRetransmit - 1]
          /\ recBuf[P] \subseteq ControlIds(e)
          /\ recAck[P] \subseteq ControlIds(e) /\ Cardinality(recAck[P]) <= AckSize
          /\ lruAcks[P] \subseteq ControlIds(e) /\ Cardinality(lruAcks[P]) <= AckSize
      BY <1>2, <1>4 DEF TypeOK
    <3>2. Peer(e) = P /\ Peer(P) = e
      BY <1>2 DEF P
    <3> QED BY <3>1, <3>2, <1>2, <2>1, <2>2, <2>3, <2>4, <2>5, <2>6, <2>7, <2>8, <2>9
  <2> QED BY <2>1, <2>10, <1>6, <1>12 DEF TypeOK
<1>16. Spans'
  <2>1. state'[e] # "initial" /\ state'[P] = state[P]
    BY <1>1, <1>2, <1>4 DEF TypeOK
  <2>2. \A i \in unacked'[e] : i < sendId'[e] /\ sendId'[e] - i <= SendSize
    <3>1. \A i \in unacked[e] : i < sendId'[e] /\ sendId'[e] - i <= SendSize
      BY <1>3, <1>5, <1>6, <1>8
    <3>2. \A i \in new : i < sendId'[e] /\ sendId'[e] - i <= SendSize
      BY <1>3, <1>5, <1>6
    <3> QED BY <3>1, <3>2, <1>7
  <2>3. \A i \in unacked'[P] : i < sendId'[P] /\ sendId'[P] - i <= SendSize
    BY <1>2, <1>4, <1>6, <1>7 DEF Spans
  <2>4. sendId'[e] <= MaxPackets[e]
    BY <1>3, <1>6
  <2>5. sendId'[P] <= MaxPackets[P] /\ (state'[P] = "initial" => sendId'[P] = 0)
    BY <1>2, <1>4, <1>6, <2>1 DEF Spans
  <2> QED BY <1>2, <2>1, <2>2, <2>3, <2>4, <2>5 DEF Spans
<1>17. Buffers'
  <2>1. /\ recId'[e] <= sendId'[P]
        /\ \A i \in recBuf'[e] :
               recId'[e] <= i /\ i < recId'[e] + RecSize /\ i < sendId'[P]
    <3>1. \A i \in recBuf[e] : i \in Nat /\ i < recId[e] + RecSize /\ i < sendId[P]
      BY <1>4 DEF Buffers, Total, P
    <3>2. recId[e] \in Nat /\ recId'[e] \in Nat
      BY <1>4, <1>12 DEF TypeOK
    <3> QED BY <3>1, <3>2, <1>6, <1>12
  <2>2. /\ recId'[P] <= sendId'[e]
        /\ \A i \in recBuf'[P] :
               recId'[P] <= i /\ i < recId'[P] + RecSize /\ i < sendId'[e]
    <3>1. /\ recId[P] <= sendId[e] /\ recId[P] \in Nat
          /\ \A i \in recBuf[P] :
                 i \in Nat /\ recId[P] <= i /\ i < recId[P] + RecSize /\ i < sendId[e]
      BY <1>2, <1>4 DEF Buffers, Total, TypeOK
    <3> QED BY <3>1, <1>3, <1>5, <1>6, <1>12
  <2>3. Peer(e) = P /\ Peer(P) = e
    BY <1>2 DEF P
  <2> QED BY <1>2, <2>1, <2>2, <2>3 DEF Buffers
<1>18. InFlight'
  <2>1. \A p \in net'[P] : p.id = NoId \/ p.id < sendId'[e]
    <3>1. \A p \in net[P] : p.id = NoId \/ p.id < sendId'[e]
      <4>1. \A p \in net[P] : p.id \in Nat \cup {NoId} /\ (p.id = NoId \/ p.id < sendId[e])
        BY <1>2, <1>4 DEF InFlight, Total
      <4> QED BY <4>1, <1>3, <1>5, <1>6
    <3> QED BY <3>1, <1>11 DEF AcksWritten, P
  <2>2. \A p \in net'[e] : p.id = NoId \/ p.id < sendId'[P]
    BY <1>4, <1>6, <1>11 DEF InFlight, AcksWritten, P
  <2>3. Peer(e) = P /\ Peer(P) = e
    BY <1>2 DEF P
  <2> QED BY <1>2, <2>1, <2>2, <2>3 DEF InFlight
<1>19. Truthful'
  <2>1. /\ recAck[e] \cup lruAcks[e] \subseteq Received(e)
        /\ recAck[P] \cup lruAcks[P] \subseteq Received(P)
        /\ \A p \in net[e] : p.acks \subseteq Received(P)
        /\ \A p \in net[P] : p.acks \subseteq Received(e)
        /\ \A i \in Nat : i < sendId[e] /\ i \notin unacked[e] => i \in Received(P)
        /\ \A i \in Nat : i < sendId[P] /\ i \notin unacked[P] => i \in Received(e)
    BY <1>2, <1>4 DEF Truthful, P
  <2>2. /\ recAck'[e] \cup lruAcks'[e] \subseteq Received(e)
        /\ recAck'[P] \cup lruAcks'[P] \subseteq Received(P)
    BY <1>2, <1>11, <2>1 DEF AcksWritten
  <2>3. \A p \in net'[e] : p.acks \subseteq Received(P)
    BY <1>11, <2>1 DEF AcksWritten
  <2>4. \A p \in net'[P] : p.acks \subseteq Received(e)
    BY <1>11, <2>1 DEF AcksWritten, P
  <2>5. \A i \in Nat : i < sendId'[e] /\ i \notin unacked'[e] => i \in Received(P)
    <3> SUFFICES ASSUME NEW i \in Nat, i < sendId'[e], i \notin unacked'[e]
                 PROVE  i \in Received(P)
      OBVIOUS
    <3>1. i < sendId[e]
      <4>1. i \notin new
        BY <1>7
      <4> QED BY <4>1, <1>3, <1>5, <1>6 DEF new
    <3> QED BY <3>1, <2>1, <1>7
  <2>6. \A i \in Nat : i < sendId'[P] /\ i \notin unacked'[P] => i \in Received(e)
    BY <2>1, <1>6, <1>7
  <2>7. Peer(e) = P /\ Peer(P) = e
    BY <1>2 DEF P
  <2> QED BY <1>2, <1>13, <2>2, <2>3, <2>4, <2>5, <2>6, <2>7 DEF Truthful
<1>20. NextUnacknowledged'
  <2>1. /\ recAck[e] \cup lruAcks[e] \subseteq Received(e)
        /\ \A p \in net[P] : p.acks \subseteq Received(e)
        /\ \A i \in Nat : i < sendId[P] /\ i \notin unacked[P] => i \in Received(e)
    BY <1>2, <1>4 DEF Truthful, P
  <2>2. recId'[e] \notin lruAcks'[e] /\ \A p \in net'[P] : recId'[e] \notin p.acks
    BY <2>1, <1>11, <1>12 DEF AcksWritten, P
  <2>3. recId'[e] < sendId'[P] => recId'[e] \in unacked'[P]
    BY <2>1, <1>2, <1>6, <1>7, <1>12
  <2>4. recId'[P] \notin lruAcks'[P] /\ \A p \in net'[e] : recId'[P] \notin p.acks
    BY <1>2, <1>4, <1>11, <1>12 DEF NextUnacknowledged, AcksWritten
  <2>5. recId'[P] < sendId'[e] => recId'[P] \in unacked'[e]
    <3>1. recId[P] \in Nat /\ (recId[P] < sendId[e] => recId[P] \in unacked[e])
      BY <1>2, <1>4 DEF NextUnacknowledged, TypeOK
    <3> QED BY <3>1, <1>3, <1>5, <1>6, <1>7, <1>12 DEF new
  <2>6. Peer(e) = P /\ Peer(P) = e
    BY <1>2 DEF P
  <2> QED BY <1>2, <2>2, <2>3, <2>4, <2>5, <2>6 DEF NextUnacknowledged
<1>21. Ahead'
  <2>1. /\ recId[P] \in Nat /\ recId[e] \in Nat /\ recId'[e] \in Nat
        /\ sendId[P] <= recId[e] + SendSize /\ recId[P] <= sendId[e]
        /\ recId[P] < sendId[e] => recId[P] \in unacked[e]
    <3>1. recId \in [Ends -> Nat] /\ recId' \in [Ends -> Nat]
      BY <1>4, <1>12 DEF TypeOK
    <3>2. sendId[P] <= recId[e] + SendSize /\ recId[P] <= sendId[e]
      BY <1>2, <1>4 DEF Ahead, Buffers, P
    <3>3. recId[P] < sendId[e] => recId[P] \in unacked[e]
      BY <1>2, <1>4 DEF NextUnacknowledged
    <3> QED BY <3>1, <3>2, <3>3, <1>2
  <2>2. sendId'[P] <= recId'[e] + SendSize
    <3>1. /\ sendId'[P] = sendId[P] /\ recId[e] <= recId'[e] /\ sendId[P] \in Nat
          /\ SendSize \in Nat
      BY <1>2, <1>5, <1>6, <1>12
    <3> QED BY <3>1, <2>1
  <2>3. sendId'[e] <= recId'[P] + SendSize
    <3>1. /\ sendId'[e] = sendId[e] + k /\ recId'[P] = recId[P] /\ k \in 0 .. SendSize
          /\ sendId[e] \in Nat /\ SendSize \in Nat
          /\ \A i \in unacked[e] : sendId[e] + k - i <= SendSize
      BY <1>3, <1>5, <1>6, <1>12
    <3>2. CASE recId[P] \in unacked[e]
      BY <3>1, <3>2, <2>1
    <3>3. CASE recId[P] = sendId[e]
      BY <3>1, <3>3, <2>1
    <3>4. recId[P] < sendId[e] \/ recId[P] = sendId[e]
      BY <3>1, <2>1
    <3> QED BY <3>2, <3>3, <3>4, <2>1
  <2>4. Peer(e) = P /\ Peer(P) = e
    BY <1>2 DEF P
  <2> QED BY <1>2, <2>2, <2>3, <2>4 DEF Ahead
<1>22. InOrder'
  BY <1>2, <1>4, <1>12 DEF InOrder
<1> QED BY <1>14, <1>15, <1>16, <1>17, <1>18, <1>19, <1>20, <1>21, <1>22 DEF IInv

-----------------------------------------------------------------------------
(* Timers, losses and arrivals.                                            *)

LEMMA ExpireInv ==
    ASSUME IInv, NEW e \in Ends, NEW i \in ControlIds(e), Expire(e, i)
    PROVE  IInv'
<1>1. /\ i \in unacked[e] /\ i \in Nat
      /\ due' = [due EXCEPT ![e] = @ \cup {i}]
      /\ nAcks' = [nAcks EXCEPT ![e][i] = 0]
      /\ UNCHANGED <<state, known, sendId, unacked, hold, recId, recBuf, recAck, lruAcks,
                     delivered, net>>
  BY DEF Expire, recVars, IInv, Total
<1>2. \A x \in Ends : Received(x)' = Received(x)
  BY <1>1 DEF Received
<1>3. Total'
  BY <1>1 DEF IInv, Total
<1>4. TypeOK'
  <2>1. \A x \in Ends : due'[x] \subseteq unacked'[x]
    BY <1>1 DEF IInv, TypeOK, Total
  <2>2. \A x \in Ends : nAcks'[x] \in [ControlIds(x) -> 0 .. AckRetransmit - 1]
    <3>1. 0 \in 0 .. AckRetransmit - 1
      OBVIOUS
    <3>2. nAcks'[e] = [nAcks[e] EXCEPT ![i] = 0]
      BY <1>1 DEF IInv, Total
    <3>3. \A x \in Ends : x # e => nAcks'[x] = nAcks[x]
      BY <1>1 DEF IInv, Total
    <3>4. \A x \in Ends : nAcks[x] \in [ControlIds(x) -> 0 .. AckRetransmit - 1]
      BY DEF IInv, TypeOK
    <3> QED BY <3>1, <3>2, <3>3, <3>4
  <2> QED BY <2>1, <2>2, <1>1 DEF IInv, TypeOK
<1>5. Spans' /\ Buffers' /\ InFlight' /\ Ahead' /\ InOrder'
  BY <1>1 DEF IInv, Spans, Buffers, InFlight, Ahead, InOrder
<1>6. Truthful' /\ NextUnacknowledged'
  BY <1>1, <1>2, PeerFacts DEF IInv, Truthful, NextUnacknowledged
<1> QED BY <1>3, <1>4, <1>5, <1>6 DEF IInv

\* Fewer packets are under way.
LEMMA FewerInv ==
    ASSUME IInv, NEW e \in Ends, NEW p, net' = [net EXCEPT ![e] = @ \ {p}],
           UNCHANGED <<state, known, sendVars, recVars>>
    PROVE  IInv'
<1>1. UNCHANGED <<state, known, sendId, unacked, due, nAcks, hold, recId, recBuf, recAck,
                  lruAcks, delivered>>
  BY DEF sendVars, recVars
<1>2. /\ net' \in [Ends -> SUBSET [id : Nat \cup {NoId}, acks : SUBSET Nat]]
      /\ \A x \in Ends : net'[x] \subseteq net[x]
  BY DEF IInv, Total
<1>3. \A x \in Ends : Received(x)' = Received(x)
  BY <1>1 DEF Received
<1>4. Total' /\ TypeOK'
  BY <1>1, <1>2 DEF IInv, Total, TypeOK
<1>5. Spans' /\ Buffers' /\ InFlight' /\ Ahead' /\ InOrder'
  BY <1>1, <1>2 DEF IInv, Spans, Buffers, InFlight, Ahead, InOrder
<1>6. Truthful' /\ NextUnacknowledged'
  BY <1>1, <1>2, <1>3, PeerFacts DEF IInv, Truthful, NextUnacknowledged
<1> QED BY <1>4, <1>5, <1>6 DEF IInv

LEMMA AcknowledgedFacts ==
    ASSUME IInv, NEW e \in Ends, NEW acks \in SUBSET ControlIds(e),
           Acknowledged(e, acks)
    PROVE  /\ unacked' = [unacked EXCEPT ![e] = @ \ acks]
           /\ due' \in [Ends -> SUBSET Nat] /\ nAcks' = [x \in Ends |-> nAcks'[x]]
           /\ \A x \in Ends : /\ due'[x] \subseteq unacked'[x]
                              /\ nAcks'[x] \in [ControlIds(x) -> 0 .. AckRetransmit - 1]
           /\ hold' \in [Ends -> BOOLEAN]
           /\ sendId' = sendId
<1> DEFINE left == unacked[e] \ Purged(e, acks)
           count(i) == nAcks[e][i] + Cardinality({a \in acks : a > i})
           early == {i \in left : count(i) >= AckRetransmit \/ ~known[e]}
           counts == [i \in ControlIds(e) |->
                        IF i \in left \ (due[e] \cup early) THEN count(i) ELSE 0]
<1>1. /\ unacked' = [unacked EXCEPT ![e] = left]
      /\ due' = [due EXCEPT ![e] = (@ \cap left) \cup early]
      /\ nAcks' = [nAcks EXCEPT ![e] = counts]
      /\ hold' = [hold EXCEPT ![e] = @ /\ known[e]]
      /\ sendId' = sendId
  BY DEF Acknowledged
<1>2. left = unacked[e] \ acks
  BY DEF Purged
<1>3. /\ unacked \in [Ends -> SUBSET Nat] /\ due \in [Ends -> SUBSET Nat]
      /\ nAcks = [x \in Ends |-> nAcks[x]]
      /\ \A x \in Ends : /\ due[x] \subseteq unacked[x]
                         /\ nAcks[x] \in [ControlIds(x) -> 0 .. AckRetransmit - 1]
      /\ hold \in [Ends -> BOOLEAN] /\ known \in [Ends -> BOOLEAN]
  BY DEF IInv, Total, TypeOK
<1>4. early \subseteq left /\ left \subseteq unacked[e]
  OBVIOUS
<1>5. \A i \in ControlIds(e) : count(i) \in Nat
  <2> SUFFICES ASSUME NEW i \in ControlIds(e) PROVE count(i) \in Nat
    OBVIOUS
  <2>1. {a \in acks : a > i} \subseteq ControlIds(e)
    OBVIOUS
  <2>2. Cardinality({a \in acks : a > i}) \in Nat
    BY <2>1, FiniteIds
  <2>3. nAcks[e][i] \in 0 .. AckRetransmit - 1
    BY <1>3
  <2> QED BY <2>2, <2>3
<1>6. counts \in [ControlIds(e) -> 0 .. AckRetransmit - 1]
  <2> SUFFICES ASSUME NEW i \in ControlIds(e), i \in left \ (due[e] \cup early)
               PROVE  count(i) \in 0 .. AckRetransmit - 1
    OBVIOUS
  <2>1. count(i) \in Nat /\ ~(count(i) >= AckRetransmit)
    BY <1>5
  <2> HIDE DEF count
  <2> QED BY <2>1
<1> HIDE DEF left, early, counts
<1>7. /\ due' \in [Ends -> SUBSET Nat]
      /\ \A x \in Ends : due'[x] \subseteq unacked'[x]
  BY <1>1, <1>3, <1>4
<1>8. /\ nAcks' = [x \in Ends |-> nAcks'[x]]
      /\ \A x \in Ends : nAcks'[x] \in [ControlIds(x) -> 0 .. AckRetransmit - 1]
  BY <1>1, <1>3, <1>6
<1>9. hold' \in [Ends -> BOOLEAN]
  BY <1>1, <1>3
<1> QED BY <1>1, <1>2, <1>7, <1>8, <1>9

LEMMA ReceiveInv ==
    ASSUME IInv, NEW e \in Ends, NEW p \in net[e], NEW stays \in BOOLEAN, Receive(e, p, stays)
    PROVE  IInv'
<1> DEFINE P == Peer(e)
<1>1. /\ P \in Ends /\ P # e /\ Peer(P) = e /\ \A x \in Ends : x = e \/ x = P
      /\ Peer(e) = P
  BY PeerFacts
<1>2. /\ TypeOK /\ Total /\ Spans /\ Buffers /\ InFlight /\ Truthful
      /\ NextUnacknowledged /\ Ahead /\ InOrder
  BY DEF IInv
<1>3. /\ p \in Packets(P) /\ p.acks \in SUBSET ControlIds(e) /\ p.acks \subseteq Received(P)
      /\ p.id \in ControlIds(P) \cup {NoId}
      /\ p.id = NoId \/ p.id < sendId[P]
      /\ recId[P] \notin p.acks
  BY <1>1, <1>2 DEF TypeOK, Packets, Truthful, InFlight, NextUnacknowledged
<1>4. /\ net' \in [Ends -> SUBSET [id : Nat \cup {NoId}, acks : SUBSET Nat]]
      /\ \A x \in Ends : net'[x] \subseteq net[x]
      /\ UNCHANGED <<state, recId, lruAcks, delivered>>
  BY <1>2 DEF Receive, Total
<1>5. CASE known[e] \/ p.id = 0
  <2>1. /\ known' = [known EXCEPT ![e] = TRUE]
        /\ Acknowledged(e, p.acks)
    BY <1>5 DEF Receive
  <2>2. /\ unacked' = [unacked EXCEPT ![e] = @ \ p.acks]
        /\ due' \in [Ends -> SUBSET Nat] /\ nAcks' = [x \in Ends |-> nAcks'[x]]
        /\ \A x \in Ends : /\ due'[x] \subseteq unacked'[x]
                           /\ nAcks'[x] \in [ControlIds(x) -> 0 .. AckRetransmit - 1]
        /\ hold' \in [Ends -> BOOLEAN]
        /\ sendId' = sendId
    BY <2>1, <1>3, AcknowledgedFacts
  <2>3. /\ unacked' \in [Ends -> SUBSET Nat] /\ unacked'[e] = unacked[e] \ p.acks
        /\ unacked'[P] = unacked[P]
    BY <2>2, <1>1, <1>2 DEF Total
  \* The receive buffer takes a new packet, the list of acknowledgements one that is in it.
  <2>4. /\ recBuf' \in [Ends -> SUBSET Nat] /\ recAck' \in [Ends -> SUBSET Nat]
        /\ recBuf'[P] = recBuf[P] /\ recAck'[P] = recAck[P]
        /\ recBuf[e] \subseteq recBuf'[e]
        /\ \A i \in recBuf'[e] : \/ i \in recBuf[e]
                                 \/ /\ i = p.id /\ i # NoId
                                    /\ recId[e] <= i /\ i < recId[e] + RecSize
        /\ \A i \in recAck'[e] : \/ i \in recAck[e]
                                 \/ /\ i = p.id /\ i # NoId
                                    /\ i < recId[e] \/ i \in recBuf'[e]
        /\ Cardinality(recAck'[e]) <= AckSize
    <3>1. /\ recBuf \in [Ends -> SUBSET Nat] /\ recAck \in [Ends -> SUBSET Nat]
          /\ recId[e] \in Nat /\ recAck[e] \subseteq ControlIds(P)
          /\ Cardinality(recAck[e]) <= AckSize
      BY <1>2 DEF Total, TypeOK
    <3>2. CASE p.id # NoId /\ Accepts(e, p.id)
      <4>1. /\ recBuf' = [recBuf EXCEPT ![e] =
                             IF NotReplay(e, p.id) THEN @ \cup {p.id} ELSE @]
            /\ recAck' = [recAck EXCEPT ![e] = ToAck(e, p.id)]
        BY <3>2, <1>5 DEF Receive
      <4>2. p.id \in Nat
        BY <3>2, <1>3, <1>1, PeerFacts DEF ControlIds
      <4>3. ToAck(e, p.id) \subseteq recAck[e] \cup {p.id}
        BY DEF ToAck
      <4>4. Cardinality(ToAck(e, p.id)) <= AckSize
        <5>1. IsFiniteSet(recAck[e])
          BY <3>1, <1>1, FiniteIds
        <5>2. CASE Cardinality(recAck[e]) < AckSize
          <6>1. Cardinality(recAck[e] \cup {p.id}) <= AckSize
            BY <5>1, <5>2, OneMore
          <6> QED BY <6>1, <5>2 DEF ToAck
        <5>3. CASE ~(Cardinality(recAck[e]) < AckSize)
          BY <5>3, <3>1 DEF ToAck
        <5> QED BY <5>2, <5>3
      <4>5. /\ recBuf' \in [Ends -> SUBSET Nat] /\ recAck' \in [Ends -> SUBSET Nat]
            /\ recBuf'[P] = recBuf[P] /\ recAck'[P] = recAck[P]
            /\ recBuf'[e] = IF NotReplay(e, p.id) THEN recBuf[e] \cup {p.id} ELSE recBuf[e]
            /\ recAck'[e] = ToAck(e, p.id)
        BY <4>1, <4>2, <4>3, <3>1, <1>1
      <4>6. NotReplay(e, p.id) => recId[e] <= p.id /\ p.id < recId[e] + RecSize
        BY <4>2, <3>1, <3>2 DEF NotReplay, Accepts
      <4>7. ~NotReplay(e, p.id) => p.id < recId[e] \/ p.id \in recBuf[e]
        BY <4>2, <3>1 DEF NotReplay
      <4> QED BY <3>2, <4>3, <4>4, <4>5, <4>6, <4>7
    <3>3. CASE ~(p.id # NoId /\ Accepts(e, p.id))
      BY <3>1, <3>3, <1>5, <1>1 DEF Receive
    <3> QED BY <3>2, <3>3
  <2>5. Received(P)' = Received(P) /\ Received(e) \subseteq Received(e)'
    BY <2>4, <1>4 DEF Received
  <2>6. recAck'[e] \subseteq Received(e)'
    <3>1. recAck[e] \subseteq Received(e)
      BY <1>2 DEF Truthful
    <3> QED BY <3>1, <2>4, <2>5, <1>4 DEF Received
  <2> HIDE DEF P
  <2>7. Total'
    BY <2>2, <2>3, <2>4, <1>4, <1>2 DEF Total
  <2>8. TypeOK'
    <3>1. /\ unacked[e] \subseteq ControlIds(e) /\ unacked[P] \subseteq ControlIds(P)
          /\ recBuf[e] \subseteq ControlIds(P) /\ recBuf[P] \subseteq ControlIds(e)
          /\ recAck[e] \subseteq ControlIds(P) /\ recAck[P] \subseteq ControlIds(e)
          /\ Cardinality(recAck[P]) <= AckSize
          /\ known \in [Ends -> BOOLEAN]
      BY <1>1, <1>2 DEF TypeOK
    <3>2. /\ unacked'[e] \subseteq ControlIds(e) /\ unacked'[P] \subseteq ControlIds(P)
      BY <3>1, <2>3
    <3>3. recBuf'[e] \subseteq ControlIds(P) /\ recBuf'[P] \subseteq ControlIds(e)
      BY <3>1, <2>4, <1>3
    <3>4. recAck'[e] \subseteq ControlIds(P) /\ recAck'[P] \subseteq ControlIds(e)
      BY <3>1, <2>4, <1>3
    <3>5. \A x \in Ends :
            /\ unacked'[x] \subseteq ControlIds(x)
            /\ recBuf'[x] \subseteq ControlIds(Peer(x))
            /\ recAck'[x] \subseteq ControlIds(Peer(x)) /\ Cardinality(recAck'[x]) <= AckSize
      BY <1>1, <2>4, <3>1, <3>2, <3>3, <3>4
    <3>6. known' \in [Ends -> BOOLEAN]
      BY <2>1, <3>1
    <3>7. \A x \in Ends : net'[x] \subseteq Packets(Peer(x))
      BY <1>2, <1>4 DEF TypeOK
    <3> QED BY <3>5, <3>6, <3>7, <2>2, <1>2, <1>4 DEF TypeOK
  <2>9. Spans'
    BY <1>1, <1>2, <1>4, <2>2, <2>3 DEF Spans
  <2>10. Buffers'
    <3>1. /\ recId[e] <= sendId[P] /\ recId[P] <= sendId[e]
          /\ \A i \in recBuf[e] :
                 recId[e] <= i /\ i < recId[e] + RecSize /\ i < sendId[P]
          /\ \A i \in recBuf[P] :
                 recId[P] <= i /\ i < recId[P] + RecSize /\ i < sendId[e]
      BY <1>1, <1>2 DEF Buffers
    <3>2. \A i \in recBuf'[e] : recId[e] <= i /\ i < recId[e] + RecSize /\ i < sendId[P]
      BY <3>1, <2>4, <1>3
    <3> QED BY <3>1, <3>2, <1>1, <1>4, <2>2, <2>4 DEF Buffers
  <2>11. InFlight' /\ Ahead' /\ InOrder'
    BY <1>2, <1>4, <2>2 DEF InFlight, Ahead, InOrder
  <2>12. Truthful'
    <3>1. /\ lruAcks[e] \subseteq Received(e)
          /\ recAck[P] \cup lruAcks[P] \subseteq Received(P)
          /\ \A q \in net[e] : q.acks \subseteq Received(P)
          /\ \A q \in net[P] : q.acks \subseteq Received(e)
          /\ \A i \in Nat : i < sendId[e] /\ i \notin unacked[e] => i \in Received(P)
          /\ \A i \in Nat : i < sendId[P] /\ i \notin unacked[P] => i \in Received(e)
      BY <1>1, <1>2 DEF Truthful
    <3>2. /\ lruAcks'[e] \subseteq Received(e)'
          /\ recAck'[P] \cup lruAcks'[P] \subseteq Received(P)'
      BY <3>1, <1>4, <2>4, <2>5
    <3>3. /\ \A q \in net'[e] : q.acks \subseteq Received(P)'
          /\ \A q \in net'[P] : q.acks \subseteq Received(e)'
      BY <3>1, <1>1, <1>4, <2>5
    <3>4. /\ \A i \in Nat : i < sendId'[e] /\ i \notin unacked'[e] => i \in Received(P)'
          /\ \A i \in Nat : i < sendId'[P] /\ i \notin unacked'[P] => i \in Received(e)'
      BY <3>1, <1>3, <2>2, <2>3, <2>5
    <3> QED BY <3>2, <3>3, <3>4, <2>6, <1>1 DEF Truthful
  <2>13. NextUnacknowledged'
    <3>1. /\ recId[e] \notin lruAcks[e] /\ recId[P] \notin lruAcks[P]
          /\ \A q \in net[P] : recId[e] \notin q.acks
          /\ \A q \in net[e] : recId[P] \notin q.acks
          /\ recId[e] < sendId[P] => recId[e] \in unacked[P]
          /\ recId[P] < sendId[e] => recId[P] \in unacked[e]
      BY <1>1, <1>2 DEF NextUnacknowledged
    <3>2. recId[P] < sendId[e] => recId[P] \in unacked'[e]
      BY <3>1, <1>3, <2>3
    <3> QED BY <3>1, <3>2, <1>1, <1>4, <2>2, <2>3 DEF NextUnacknowledged
  <2> QED BY <2>7, <2>8, <2>9, <2>10, <2>11, <2>12, <2>13 DEF IInv
<1>6. CASE ~(known[e] \/ p.id = 0)
  <2>1. UNCHANGED <<known, sendId, unacked, due, nAcks, hold, recBuf, recAck>>
    BY <1>6 DEF Receive, sendVars
  <2>2. \A x \in Ends : Received(x)' = Received(x)
    BY <1>4, <2>1 DEF Received
  <2>3. Total' /\ TypeOK'
    BY <1>2, <1>4, <2>1 DEF Total, TypeOK
  <2>4. Spans' /\ Buffers' /\ InFlight' /\ Ahead' /\ InOrder'
    BY <1>2, <1>4, <2>1 DEF Spans, Buffers, InFlight, Ahead, InOrder
  <2>5. Truthful' /\ NextUnacknowledged'
    BY <1>2, <1>4, <2>1, <2>2, PeerFacts DEF Truthful, NextUnacknowledged
  <2> QED BY <2>3, <2>4, <2>5 DEF IInv
<1> QED BY <1>5, <1>6

LEMMA StutterInv == IInv /\ UNCHANGED vars => IInv'
<1> SUFFICES ASSUME IInv, UNCHANGED vars PROVE IInv'
  OBVIOUS
<1>1. UNCHANGED <<state, known, sendId, unacked, due, nAcks, hold, recId, recBuf, recAck,
                  lruAcks, delivered, net>>
  BY DEF vars, sendVars, recVars
<1>2. Total' /\ TypeOK'
  BY <1>1 DEF IInv, Total, TypeOK
<1>3. Spans' /\ Buffers' /\ InFlight' /\ Ahead' /\ InOrder'
  BY <1>1 DEF IInv, Spans, Buffers, InFlight, Ahead, InOrder
<1>4. Truthful' /\ NextUnacknowledged'
  BY <1>1 DEF IInv, Truthful, NextUnacknowledged, Received
<1> QED BY <1>2, <1>3, <1>4 DEF IInv

LEMMA NextInv == IInv /\ [Next]_vars => IInv'
<1> SUFFICES ASSUME IInv, [Next]_vars PROVE IInv'
  OBVIOUS
<1>1. ASSUME NEW e \in Ends, TlsProcess(e) PROVE IInv'
  BY <1>1, TlsInv
<1>2. ASSUME NEW e \in Ends, NEW i \in ControlIds(e), Expire(e, i) PROVE IInv'
  BY <1>2, ExpireInv
<1>3. ASSUME NEW e \in Ends, NEW p \in net[e], Lose(e, p) PROVE IInv'
  BY <1>3, FewerInv DEF Lose
<1>4. ASSUME NEW e \in Ends, NEW p \in net[e], NEW stays \in BOOLEAN, Receive(e, p, stays)
      PROVE  IInv'
  BY <1>4, ReceiveInv
<1> QED BY <1>1, <1>2, <1>3, <1>4, StutterInv DEF Next

\* The invariant is inductive, and holds of every run.
THEOREM ReliableInvariant == Spec => []IInv
<1> QED BY InitInv, NextInv, PTL DEF Spec

-----------------------------------------------------------------------------
(* What follows.                                                           *)

\* Every list of acknowledgements keeps to its size, for any order of calls.
THEOREM ReliableTypeCorrect == Spec => []TypeOK
<1>1. IInv => TypeOK
  BY DEF IInv
<1> QED BY <1>1, ReliableInvariant, PTL

\* reliable_send_purge deletes only what the peer has received.
THEOREM PurgedOnlyReceived == Spec => []PurgedIsReceived
<1>1. IInv => PurgedIsReceived
  <2> SUFFICES ASSUME IInv, NEW e \in Ends, NEW i \in ControlIds(e),
                      i < sendId[e], i \notin unacked[e]
               PROVE  i < recId[Peer(e)] \/ i \in recBuf[Peer(e)]
    BY DEF PurgedIsReceived
  <2>1. i \in Nat
    BY PeerFacts DEF ControlIds
  <2>2. i \in Received(Peer(e))
    BY <2>1 DEF IInv, Truthful
  <2> QED BY <2>2 DEF Received
<1> QED BY <1>1, ReliableInvariant, PTL

LEMMA IntervalSize ==
    ASSUME NEW a \in Nat, NEW n \in Nat \ {0}
    PROVE  IsFiniteSet(a .. a + n - 1) /\ Cardinality(a .. a + n - 1) = n
<1> DEFINE b == a + n - 1
<1>1. b \in Int /\ ~(a > b) /\ b - a + 1 = n
  OBVIOUS
<1> HIDE DEF b
<1>2. IsFiniteSet(a .. b) /\ Cardinality(a .. b) = IF a > b THEN 0 ELSE b - a + 1
  <2>1. a \in Int
    OBVIOUS
  <2> QED BY <2>1, <1>1, FS_Interval, Zenon
<1>3. IsFiniteSet(a .. b) /\ Cardinality(a .. b) = n
  BY <1>1, <1>2
<1> QED BY <1>3 DEF b

\* No new packet falls outside the receive buffer (reliable_can_get,
\* reliable_wont_break_sequentiality), as the send buffer is not larger than it.
THEOREM NoneRefused == Spec => []NeverRefused
<1>1. IInv => NeverRefused
  <2> SUFFICES ASSUME IInv, NEW e \in Ends, NEW p \in net[e], p.id # NoId, NotReplay(e, p.id)
               PROVE  Accepts(e, p.id)
    BY DEF NeverRefused
  <2>1. /\ recId[e] \in Nat /\ sendId[Peer(e)] \in Nat /\ p.id \in Nat
        /\ SendSize \in Nat \ {0}
        /\ recBuf[e] \subseteq Nat
        /\ p.id < sendId[Peer(e)] /\ sendId[Peer(e)] <= recId[e] + SendSize
        /\ \A i \in recBuf[e] : recId[e] <= i /\ i < sendId[Peer(e)]
        /\ recId[e] <= p.id /\ p.id \notin recBuf[e]
    <3>1. Peer(e) \in Ends /\ Peer(Peer(e)) = e
      BY PeerFacts
    <3>2. p \in [id : Nat \cup {NoId}, acks : SUBSET Nat] /\ recBuf[e] \subseteq Nat
      BY DEF IInv, Total
    <3>3. /\ recId[e] \in Nat /\ sendId[Peer(e)] \in Nat
          /\ sendId[Peer(e)] <= recId[e] + SendSize
      BY <3>1 DEF IInv, TypeOK, Ahead
    <3>4. p.id < sendId[Peer(e)]
      BY DEF IInv, InFlight
    <3>5. \A i \in recBuf[e] : recId[e] <= i /\ i < sendId[Peer(e)]
      BY DEF IInv, Buffers
    <3>6. p.id \in Nat
      BY <3>2
    <3> QED BY <3>2, <3>3, <3>4, <3>5, <3>6 DEF NotReplay
  <2>2. p.id < recId[e] + RecSize
    BY <2>1
  <2> DEFINE room == recId[e] .. recId[e] + SendSize - 1
  <2>3. IsFiniteSet(room) /\ Cardinality(room) = SendSize
    BY <2>1, IntervalSize
  <2>4. recBuf[e] \cup {p.id} \subseteq room
    BY <2>1
  <2> HIDE DEF room
  <2>5. IsFiniteSet(recBuf[e])
    BY <2>3, <2>4, FS_Subset
  <2>6. Cardinality(recBuf[e] \cup {p.id}) = Cardinality(recBuf[e]) + 1
    BY <2>5, <2>1, FS_AddElement
  <2>7. Cardinality(recBuf[e] \cup {p.id}) <= SendSize
    BY <2>3, <2>4, FS_Subset
  <2>8. Cardinality(recBuf[e]) \in Nat
    BY <2>5, FS_CardinalityType
  <2> QED BY <2>2, <2>6, <2>7, <2>8 DEF Accepts
<1> QED BY <1>1, ReliableInvariant, PTL

\* A full receive buffer starts with the packet that is to be handed on next.
THEOREM NoDeadlockOnReceive == Spec => []NoReceiveDeadlock
<1>1. IInv => NoReceiveDeadlock
  <2> SUFFICES ASSUME IInv, NEW e \in Ends, Cardinality(recBuf[e]) = RecSize
               PROVE  recId[e] \in recBuf[e]
    BY DEF NoReceiveDeadlock
  <2> DEFINE room == recId[e] .. recId[e] + RecSize - 1
  <2>1. recId[e] \in Nat /\ RecSize \in Nat \ {0}
    BY DEF IInv, TypeOK
  <2>2. recBuf[e] \subseteq room
    BY <2>1 DEF IInv, Total, Buffers
  <2>3. IsFiniteSet(room) /\ Cardinality(room) = RecSize
    BY <2>1, IntervalSize
  <2>4. recId[e] \in room
    BY <2>1
  <2> HIDE DEF room
  <2>5. recBuf[e] = room
    BY <2>2, <2>3, FS_Subset
  <2> QED BY <2>4, <2>5
<1> QED BY <1>1, ReliableInvariant, PTL

LEMMA RunIsUpto ==
    ASSUME NEW t \in Nat
    PROVE  Run(0, t) = Channel!Upto(t)
<1>1. \A j \in 1 .. t : 0 + j - 1 = j - 1
  OBVIOUS
<1>2. t - 0 = t
  OBVIOUS
<1> QED BY <1>1, <1>2 DEF Run, Channel!Upto

\* The two ends and the network are a pair of channels that lose, duplicate and reorder
\* nothing.
THEOREM ReliableRefinesFifo == Spec => ImplementsFifo
<1>1. Init => Channel!Init
  BY DEF Init, Channel!Init
<1>2. IInv /\ IInv' /\ [Next]_vars => [Channel!Next]_<<sendId, delivered>>
  <2> SUFFICES ASSUME IInv, IInv', [Next]_vars
               PROVE  Channel!Next \/ UNCHANGED <<sendId, delivered>>
    OBVIOUS
  <2>1. ASSUME NEW e \in Ends, TlsProcess(e) PROVE Channel!Exchange(e)
    <3>1. PICK k \in Writes(e), s \in Handed(e) :
              sendId' = [sendId EXCEPT ![e] = @ + k] /\ HandOn(e, s)
      BY <2>1 DEF TlsProcess
    <3>2. k \in Nat /\ sendId \in [Ends -> Nat] /\ Peer(e) \in Ends
      <4>1. k \in 0 .. SendSize
        BY <3>1, WritesFacts
      <4> QED BY <4>1, PeerFacts DEF IInv, TypeOK
    <3>3. /\ sendId'[e] \in Nat /\ sendId'[e] >= sendId[e]
          /\ sendId' = [sendId EXCEPT ![e] = sendId'[e]]
      BY <3>1, <3>2
    <3>4. /\ recId[e] <= recId'[e] /\ recId'[e] <= sendId[Peer(e)]
      BY <3>1, HandOnFacts
    <3>5. Len(delivered[e]) = recId[e] /\ recId[e] \in Nat /\ delivered \in [Ends -> Seq(Nat)]
      BY RunFromZero DEF IInv, TypeOK, InOrder
    <3>6. delivered'[e] = Channel!Upto(recId'[e]) /\ recId'[e] \in Nat
      <4>1. delivered'[e] = Run(0, recId'[e]) /\ recId'[e] \in Nat
        BY <3>1, HandOnFacts
      <4> QED BY <4>1, RunIsUpto
    <3>7. delivered' = [delivered EXCEPT ![e] = delivered'[e]]
      BY <3>1, <3>5 DEF HandOn
    <3>8. recId'[e] \in Len(delivered[e]) .. sendId[Peer(e)]
      BY <3>2, <3>4, <3>5, <3>6 DEF IInv, TypeOK
    <3> QED BY <3>3, <3>6, <3>7, <3>8 DEF Channel!Exchange
  <2>2. ASSUME NEW e \in Ends, NEW i \in ControlIds(e), Expire(e, i)
        PROVE  UNCHANGED <<sendId, delivered>>
    BY <2>2 DEF Expire, recVars
  <2>3. ASSUME NEW e \in Ends, NEW p \in net[e], Lose(e, p)
        PROVE  UNCHANGED <<sendId, delivered>>
    BY <2>3 DEF Lose, sendVars, recVars
  <2>4. ASSUME NEW e \in Ends, NEW p \in net[e], NEW stays \in BOOLEAN, Receive(e, p, stays)
        PROVE  UNCHANGED <<sendId, delivered>>
    BY <2>4 DEF Receive, Acknowledged, sendVars
  <2>5. CASE UNCHANGED vars
    BY <2>5 DEF vars, sendVars, recVars
  <2> QED BY <2>1, <2>2, <2>3, <2>4, <2>5 DEF Next, Channel!Next
<1> QED BY <1>1, <1>2, ReliableInvariant, PTL DEF Spec, ImplementsFifo, Channel!Spec
==============================================================================
