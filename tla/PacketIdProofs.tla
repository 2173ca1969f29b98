---------------------------- MODULE PacketIdProofs ----------------------------
(***************************************************************************)
(* PacketId implements AtMostOnce: for every size of the id space and of   *)
(* the window, every back-track time and reap interval, with and without   *)
(* a window and a time on the wire. What the circular list accepts is      *)
(* exactly what the arrivals so far allow; nothing comes late; and without *)
(* a window everything comes in order.                                     *)
(***************************************************************************)
EXTENDS PacketId, SequenceTheorems, TLAPS

USE PacketIdAssumption DEF SeqUnseen, SeqExpired

Recs == [time : Nat, id : 0 .. PacketIdMax, list : Seq(Nat), lastReap : Nat]

Arrivals == [time : Nat, id : Ids, at : Nat]

\* An accepted packet is of an earlier time, or below the window, or marked in it.
Known(r, d) ==
    \/ d.time < r.time
    \/ /\ d.time = r.time
       /\ d.id <= r.id
       /\ \/ SeqBacktrack = 0
          \/ Len(r.list) <= r.id - d.id
          \/ r.list[r.id - d.id + 1] # SeqUnseen

\* What the receiver's record remembers of the packets it has accepted.
Remembers(r, R) ==
    /\ r \in Recs
    /\ R \subseteq Arrivals
    /\ SeqBacktrack > 0 /\ r.list = <<>> => R = {}
    /\ Len(r.list) <= SeqBacktrack
    /\ \A d \in R : Known(r, d)

\* Packets the sender may still write come after all it has written.
SentBefore ==
    /\ send.time = 0 => send.id = 0
    /\ send.time <= peerNow
    /\ \A m \in sent :
         IF LongForm
         THEN m.time < send.time \/ (m.time = send.time /\ m.id <= send.id)
         ELSE m.time = 0 /\ m.id <= send.id

IInv ==
    /\ TypeOK
    /\ SentBefore
    /\ Remembers(rec, received)
    /\ \A d \in received : Pin(d) \in sent

-----------------------------------------------------------------------------
(* Lists.                                                                  *)

LEMMA ListOf ==
    ASSUME NEW k \in Nat, NEW f \in [1 .. k -> Nat]
    PROVE  f \in Seq(Nat) /\ Len(f) = k
OBVIOUS

LEMMA PushedList ==
    ASSUME NEW l \in Seq(Nat), Len(l) <= SeqBacktrack, NEW n \in Nat
    PROVE  /\ Pushed(l, n) \in Seq(Nat)
           /\ Len(Pushed(l, n)) <= SeqBacktrack
           /\ Len(Pushed(l, n)) <= n + Len(l)
           /\ SeqBacktrack > 0 /\ (n > 0 \/ l # <<>>) => Pushed(l, n) # <<>>
           /\ \A i \in 1 .. Len(Pushed(l, n)) :
                Pushed(l, n)[i] = IF i <= n THEN SeqUnseen ELSE l[i - n]
<1> DEFINE k == Least(SeqBacktrack, n + Len(l))
<1>1. k \in Nat /\ k <= SeqBacktrack /\ k <= n + Len(l) /\ Len(l) \in Nat
  BY DEF Least
<1>2. \A i \in 1 .. k : i > n => i - n \in 1 .. Len(l)
  BY <1>1
<1>3. \A j \in 1 .. Len(l) : l[j] \in Nat
  OBVIOUS
<1>4. Pushed(l, n) \in [1 .. k -> Nat]
  BY <1>2, <1>3 DEF Pushed
<1>5. Pushed(l, n) \in Seq(Nat) /\ Len(Pushed(l, n)) = k
  BY <1>1, <1>4, ListOf
<1>6. ASSUME SeqBacktrack > 0, n > 0 \/ l # <<>> PROVE Pushed(l, n) # <<>>
  <2>1. n + Len(l) > 0
    BY <1>6, <1>1, EmptySeq
  <2>2. k > 0
    BY <2>1, <1>6, <1>1 DEF Least
  <2> QED BY <2>2, <1>5, EmptySeq
<1>7. \A i \in 1 .. k : Pushed(l, n)[i] = IF i <= n THEN SeqUnseen ELSE l[i - n]
  BY DEF Pushed
<1> QED BY <1>1, <1>5, <1>6, <1>7

LEMMA MarkedList ==
    ASSUME NEW l \in Seq(Nat), NEW diff \in Nat, diff < Len(l), now \in Nat
    PROVE  /\ Marked(l, diff) \in Seq(Nat)
           /\ Len(Marked(l, diff)) = Len(l)
           /\ l # <<>> => Marked(l, diff) # <<>>
           /\ \A i \in 1 .. Len(l) :
                Marked(l, diff)[i] = IF i = diff + 1 THEN now ELSE l[i]
<1>1. diff + 1 \in 1 .. Len(l)
  OBVIOUS
<1>2. /\ Marked(l, diff) \in Seq(Nat)
      /\ Len(Marked(l, diff)) = Len(l)
      /\ \A i \in 1 .. Len(l) : Marked(l, diff)[i] = IF i = diff + 1 THEN now ELSE l[i]
  BY <1>1, ExceptSeq DEF Marked
<1> QED BY <1>1, <1>2, EmptySeq

-----------------------------------------------------------------------------
(* The receiver.                                                           *)

\* The reaper forgets no arrival: it turns marks into other marks.
LEMMA ReapedRemembers ==
    ASSUME NEW r, NEW R, Remembers(r, R), now \in Nat
    PROVE  Remembers(Reaped(r), R)
<1> DEFINE l == [i \in 1 .. Len(r.list) |->
                   IF Overdue(r.list, i) THEN SeqExpired ELSE r.list[i]]
<1>1. r \in Recs /\ r.list \in Seq(Nat) /\ Len(r.list) \in Nat
  BY DEF Remembers, Recs
<1>2. l \in [1 .. Len(r.list) -> Nat]
  BY <1>1
<1>3. l \in Seq(Nat) /\ Len(l) = Len(r.list)
  BY <1>1, <1>2, ListOf
<1>4. \A i \in 1 .. Len(r.list) : r.list[i] # SeqUnseen => l[i] # SeqUnseen
  OBVIOUS
<1>5. l = <<>> => r.list = <<>>
  BY <1>1, <1>3, EmptySeq
<1>6. CASE TimeBacktrack = 0
  <2>1. Reaped(r) = [r EXCEPT !.lastReap = now, !.list = r.list]
    BY <1>6 DEF Reaped
  <2>2. /\ Reaped(r) \in Recs /\ Reaped(r).list = r.list
        /\ Reaped(r).time = r.time /\ Reaped(r).id = r.id
    BY <1>1, <2>1 DEF Recs
  <2> QED BY <2>2 DEF Remembers, Known
<1>7. CASE TimeBacktrack # 0
  <2>1. Reaped(r) = [r EXCEPT !.lastReap = now, !.list = l]
    BY <1>7 DEF Reaped
  <2>2. /\ Reaped(r) \in Recs /\ Reaped(r).list = l
        /\ Reaped(r).time = r.time /\ Reaped(r).id = r.id
    BY <1>1, <1>3, <2>1 DEF Recs
  <2>3. ASSUME NEW d \in R PROVE Known(Reaped(r), d)
    <3>1. d.id \in Ids /\ d.time \in Nat /\ Known(r, d)
      BY DEF Remembers, Arrivals
    <3>2. r.id \in Nat
      BY <1>1 DEF Recs
    <3>3. CASE d.id <= r.id /\ ~(Len(r.list) <= r.id - d.id)
      <4>1. r.id - d.id + 1 \in 1 .. Len(r.list)
        BY <1>1, <3>1, <3>2, <3>3 DEF Ids
      <4>2. r.list[r.id - d.id + 1] # SeqUnseen => l[r.id - d.id + 1] # SeqUnseen
        BY <4>1, <1>4
      <4> HIDE DEF l
      <4> QED BY <1>3, <2>2, <3>1, <4>2 DEF Known
    <3>4. CASE ~(d.id <= r.id /\ ~(Len(r.list) <= r.id - d.id))
      <4> HIDE DEF l
      <4> QED BY <1>3, <2>2, <3>1, <3>4 DEF Known
    <3> QED BY <3>3, <3>4
  <2> HIDE DEF l
  <2> QED BY <1>3, <1>5, <2>2, <2>3 DEF Remembers
<1> QED BY <1>6, <1>7

\* packet_id_test lets nothing through that the record remembers.
LEMMA TestFresh ==
    ASSUME NEW r, NEW R, Remembers(r, R), NEW pin \in Pins, Test(r, pin),
           NEW d \in R
    PROVE  Pin(d) # pin
<1> SUFFICES ASSUME Pin(d) = pin PROVE FALSE
  OBVIOUS
<1>1. d.time = pin.time /\ d.id = pin.id
  BY DEF Pin
<1>2. /\ r.time \in Nat /\ r.id \in Nat /\ d.time \in Nat /\ d.id \in Nat /\ d.id > 0
      /\ Len(r.list) \in Nat /\ Known(r, d)
  BY DEF Remembers, Recs, Arrivals, Ids
<1>3. CASE SeqBacktrack = 0
  BY <1>1, <1>2, <1>3 DEF Test, TestTcp, Known
<1>4. CASE SeqBacktrack # 0
  BY <1>1, <1>2, <1>4 DEF Test, TestUdp, Known
<1> QED BY <1>3, <1>4

\* Moving the window up and marking the new packet in it loses none of the others,
\* from a record that knows them and a list that will not be empty.
LEMMA AdvancedRemembers ==
    ASSUME NEW r \in Recs, NEW R, R \subseteq Arrivals, SeqBacktrack > 0,
           Len(r.list) <= SeqBacktrack, \A d \in R : Known(r, d),
           NEW pin \in Pins, pin.time = r.time, r.list # <<>> \/ pin.id > r.id,
           now \in Nat, now > SeqExpired,
           NEW e \in Arrivals, Pin(e) = pin
    PROVE  Remembers(Advanced(r, pin), R \cup {e})
<1> DEFINE top    == IF pin.id > r.id THEN pin.id ELSE r.id
           n      == top - r.id
           diff   == top - pin.id
           pushed == Pushed(r.list, n)
           l      == IF diff < Len(pushed) THEN Marked(pushed, diff) ELSE pushed
           a      == [r EXCEPT !.id = top, !.list = l]
<1>1. /\ r.time \in Nat /\ r.id \in 0 .. PacketIdMax /\ r.list \in Seq(Nat) /\ Len(r.list) \in Nat
      /\ pin.id \in Ids /\ e.time = r.time /\ e.id = pin.id
  BY DEF Recs, Pins, Pin
<1>2. /\ top \in 0 .. PacketIdMax /\ top \in Nat /\ n \in Nat /\ diff \in Nat
      /\ top = r.id + n /\ top = pin.id + diff
      /\ r.id \in Nat /\ pin.id \in Nat
  <2>1. r.id \in Nat /\ pin.id \in Nat /\ r.id <= PacketIdMax /\ pin.id <= PacketIdMax
    BY <1>1 DEF Ids
  <2>2. top \in Nat /\ top <= PacketIdMax /\ top >= r.id /\ top >= pin.id
    BY <2>1
  <2> HIDE DEF top
  <2> QED BY <2>1, <2>2
<1>3. pin.id > r.id => n > 0
  BY <1>1 DEF Ids
<1> HIDE DEF top, n, diff
<1>4. /\ pushed \in Seq(Nat) /\ pushed # <<>>
      /\ \A i \in 1 .. Len(pushed) : pushed[i] = IF i <= n THEN SeqUnseen ELSE r.list[i - n]
      /\ Len(pushed) <= SeqBacktrack /\ Len(pushed) <= n + Len(r.list)
  <2>1. n > 0 \/ r.list # <<>>
    BY <1>3
  <2>2. r.list \in Seq(Nat) /\ Len(r.list) <= SeqBacktrack /\ n \in Nat
    BY <1>1, <1>2
  <2>3. /\ Pushed(r.list, n) \in Seq(Nat)
        /\ Len(Pushed(r.list, n)) <= SeqBacktrack
        /\ Len(Pushed(r.list, n)) <= n + Len(r.list)
        /\ Pushed(r.list, n) # <<>>
        /\ \A i \in 1 .. Len(Pushed(r.list, n)) :
             Pushed(r.list, n)[i] = IF i <= n THEN SeqUnseen ELSE r.list[i - n]
    <3> HIDE DEF pushed
    <3> QED BY <2>1, <2>2, PushedList
  <2> QED BY <2>3
<1> HIDE DEF pushed
<1>5. Len(pushed) \in Nat /\ Len(pushed) <= SeqBacktrack /\ Len(pushed) <= n + Len(r.list)
  BY <1>4
<1>6. /\ l \in Seq(Nat) /\ Len(l) = Len(pushed) /\ l # <<>>
      /\ diff < Len(pushed) =>
           \A i \in 1 .. Len(pushed) : l[i] = IF i = diff + 1 THEN now ELSE pushed[i]
      /\ ~(diff < Len(pushed)) => l = pushed
  <2>1. CASE diff < Len(pushed)
    <3>1. l = Marked(pushed, diff) /\ pushed \in Seq(Nat) /\ diff \in Nat
      BY <2>1, <1>2, <1>4
    <3> HIDE DEF l
    <3>2. /\ Marked(pushed, diff) \in Seq(Nat)
          /\ Len(Marked(pushed, diff)) = Len(pushed)
          /\ \A i \in 1 .. Len(pushed) :
               Marked(pushed, diff)[i] = IF i = diff + 1 THEN now ELSE pushed[i]
      BY <3>1, <2>1, MarkedList
    <3>3. pushed # <<>> => l # <<>>
      BY <3>1, <2>1, MarkedList
    <3> QED BY <2>1, <3>1, <3>2, <3>3, <1>4
  <2>2. CASE ~(diff < Len(pushed))
    BY <2>2, <1>4
  <2> QED BY <2>1, <2>2
<1> HIDE DEF l
<1>7. Len(l) = Len(pushed)
  BY <1>6
<1>8. a \in Recs /\ a.time = r.time /\ a.id = top /\ a.list = l
  BY <1>1, <1>2, <1>6 DEF Recs
<1>9. Advanced(r, pin) = a
  BY DEF Advanced, l, pushed, n, diff, top
<1> HIDE DEF a
<1>10. Known(a, e)
  <2>1. top - e.id = diff /\ e.id <= top
    BY <1>1, <1>2
  <2>2. CASE diff < Len(pushed)
    <3>1. diff + 1 \in 1 .. Len(pushed)
      BY <2>2, <1>2, <1>5
    <3>2. l[diff + 1] # SeqUnseen
      BY <2>2, <3>1, <1>6
    <3> QED BY <1>1, <1>8, <2>1, <3>2 DEF Known
  <2>3. CASE ~(diff < Len(pushed))
    <3>1. Len(l) <= top - e.id
      BY <2>1, <2>3, <1>2, <1>5, <1>7
    <3> QED BY <3>1, <2>1, <1>1, <1>8 DEF Known
  <2> QED BY <2>2, <2>3
<1>11. ASSUME NEW d \in R PROVE Known(a, d)
  <2>1. d.time \in Nat /\ d.id \in Nat /\ Known(r, d)
    BY DEF Arrivals, Ids
  <2>2. CASE d.time < r.time
    BY <2>2, <1>8 DEF Known
  <2>3. CASE ~(d.time < r.time)
    <3>1. d.time = r.time /\ d.id <= r.id
      BY <2>1, <2>3, <1>1 DEF Known
    <3>2. d.id <= top
      BY <3>1, <2>1, <1>2
    <3>3. CASE Len(l) <= top - d.id
      BY <3>1, <3>2, <3>3, <1>8 DEF Known
    <3>4. CASE ~(Len(l) <= top - d.id)
      <4> DEFINE i == top - d.id + 1
      <4>0. /\ top \in Nat /\ r.id \in Nat /\ d.id \in Nat /\ n \in Nat
            /\ Len(r.list) \in Nat /\ Len(pushed) \in Nat
            /\ top = r.id + n /\ d.id <= r.id /\ Len(pushed) <= n + Len(r.list)
        BY <3>1, <2>1, <1>1, <1>2, <1>5
      <4>10. ~(Len(pushed) <= top - d.id)
        BY <3>4, <1>7
      <4>9. /\ i \in 1 .. Len(pushed) /\ ~(i <= n) /\ i - n = r.id - d.id + 1
            /\ ~(Len(r.list) <= r.id - d.id)
        <5> DEFINE id == r.id
                   di == d.id
                   ll == Len(r.list)
                   lp == Len(pushed)
        <5>1. /\ top \in Nat /\ id \in Nat /\ di \in Nat /\ n \in Nat /\ ll \in Nat /\ lp \in Nat
              /\ top = id + n /\ di <= id /\ lp <= n + ll /\ ~(lp <= top - di)
              /\ i = top - di + 1
          BY <4>0, <4>10
        <5> HIDE DEF i, id, di, ll, lp
        <5>2. i \in 1 .. lp /\ ~(i <= n) /\ i - n = id - di + 1 /\ ~(ll <= id - di)
          BY <5>1
        <5> QED BY <5>2 DEF id, di, ll, lp
      <4>4. r.list[r.id - d.id + 1] # SeqUnseen
        BY <4>9, <2>1, <2>3 DEF Known
      <4>8. pushed[i] = IF i <= n THEN SeqUnseen ELSE r.list[i - n]
        BY <4>9, <1>4
      <4> HIDE DEF i
      <4>6. pushed[i] = r.list[r.id - d.id + 1]
        BY <4>9, <4>8
      <4>7. l[i] # SeqUnseen
        BY <4>9, <4>4, <4>6, <1>6
      <4> QED BY <3>1, <3>2, <4>7, <1>8 DEF Known, i
    <3> QED BY <3>3, <3>4
  <2> QED BY <2>2, <2>3
<1>12. a \in Recs /\ R \cup {e} \subseteq Arrivals /\ a.list # <<>> /\ Len(a.list) <= SeqBacktrack
  BY <1>5, <1>6, <1>7, <1>8
<1> QED BY <1>9, <1>10, <1>11, <1>12 DEF Remembers

\* packet_id_add remembers the packet it adds and those it knew.
LEMMA AddedRemembers ==
    ASSUME NEW r, NEW R, Remembers(r, R), NEW pin \in Pins, Test(r, pin),
           now \in Nat, now > SeqExpired,
           NEW e \in Arrivals, Pin(e) = pin
    PROVE  Remembers(Added(r, pin), R \cup {e})
<1>1. /\ r \in Recs /\ R \subseteq Arrivals /\ Len(r.list) <= SeqBacktrack
      /\ r.time \in Nat /\ r.id \in Nat /\ r.id <= PacketIdMax
      /\ r.list \in Seq(Nat) /\ Len(r.list) \in Nat
      /\ pin.time \in Nat /\ pin.id \in Nat /\ pin.id > 0 /\ pin.id <= PacketIdMax
      /\ e.time = pin.time /\ e.id = pin.id
  BY DEF Remembers, Recs, Pins, Ids, Pin
<1>2. \A d \in R : d.time \in Nat /\ d.id \in Nat /\ d.id > 0 /\ Known(r, d)
  BY DEF Remembers, Arrivals, Ids
<1>3. CASE SeqBacktrack = 0
  <2> DEFINE a == [r EXCEPT !.time = pin.time, !.id = pin.id]
  <2>1. /\ a \in Recs /\ a.time = pin.time /\ a.id = pin.id /\ a.list = r.list
        /\ Added(r, pin) = a
    <3>1. pin.id \in 0 .. PacketIdMax
      BY <1>1
    <3> QED BY <3>1, <1>1, <1>3 DEF Recs, Added
  <2> HIDE DEF a
  <2>2. Known(a, e)
    BY <1>1, <1>3, <2>1 DEF Known
  <2>3. ASSUME NEW d \in R PROVE Known(a, d)
    BY <1>1, <1>2, <1>3, <2>1 DEF Known, Test, TestTcp
  <2> QED BY <1>1, <1>3, <2>1, <2>2, <2>3 DEF Remembers
<1>4. CASE SeqBacktrack # 0
  <2>1. pin.time = r.time \/ pin.time > r.time
    BY <1>1, <1>4 DEF Test, TestUdp
  <2>2. CASE StartsOver(r, pin)
    <3> DEFINE q == Restarted(r, pin)
    <3>1. /\ q \in Recs /\ q.time = pin.time /\ q.list = <<>> /\ Len(q.list) = 0
          /\ q.id = IF pin.id > SeqBacktrack THEN pin.id - SeqBacktrack ELSE 0
      <4>1. <<>> \in Seq(Nat) /\ Len(<<>>) = 0
        OBVIOUS
      <4>2. (IF pin.id > SeqBacktrack THEN pin.id - SeqBacktrack ELSE 0) \in 0 .. PacketIdMax
        BY <1>1
      <4> QED BY <4>1, <4>2, <1>1 DEF Recs, Restarted
    <3>2. pin.id > q.id /\ q.id \in Nat
      BY <1>1, <1>4, <3>1
    <3>3. Added(r, pin) = Advanced(q, pin)
      BY <1>4, <2>2 DEF Added
    <3> HIDE DEF q
    <3>4. ASSUME NEW d \in R PROVE Known(q, d)
      <4>1. CASE r.list = <<>>
        BY <1>4, <4>1 DEF Remembers
      <4>2. CASE pin.time > r.time
        <5>1. d.time <= r.time /\ d.time \in Nat
          BY <1>1, <1>2 DEF Known
        <5>2. d.time < q.time
          BY <5>1, <1>1, <3>1, <4>2
        <5> QED BY <5>2 DEF Known
      <4>3. CASE /\ pin.time = r.time
                 /\ pin.id >= SeqBacktrack /\ pin.id - SeqBacktrack > r.id
        <5>1. pin.id > SeqBacktrack /\ q.id > r.id
          BY <1>1, <3>1, <4>3
        <5> QED BY <1>1, <1>2, <3>1, <3>2, <4>3, <5>1 DEF Known
      <4> QED BY <2>1, <2>2, <4>1, <4>2, <4>3 DEF StartsOver
    <3>5. SeqBacktrack > 0 /\ Len(q.list) <= SeqBacktrack
      BY <1>4, <3>1
    <3>6. Remembers(Advanced(q, pin), R \cup {e})
      BY <1>1, <3>1, <3>2, <3>4, <3>5, AdvancedRemembers
    <3> QED BY <3>3, <3>6
  <2>3. CASE ~StartsOver(r, pin)
    <3>1. pin.time = r.time /\ r.list # <<>>
      BY <2>1, <2>3 DEF StartsOver
    <3>2. Added(r, pin) = Advanced(r, pin)
      BY <1>4, <2>3 DEF Added
    <3>3. SeqBacktrack > 0
      BY <1>4
    <3>4. Remembers(Advanced(r, pin), R \cup {e})
      BY <1>1, <1>2, <3>1, <3>3, AdvancedRemembers
    <3> QED BY <3>2, <3>4
  <2> QED BY <2>2, <2>3
<1> QED BY <1>3, <1>4

-----------------------------------------------------------------------------
(* The sender.                                                             *)

\* packet_id_write never uses an id twice: it moves on from all it has used.
LEMMA WriteFresh ==
    ASSUME IInv, Write
    PROVE  /\ SentBefore'
           /\ send' \in [time : Nat, id : 0 .. PacketIdMax]
           /\ \E m \in Pins \ sent : sent' = sent \cup {m}
<1> DEFINE m == [time |-> IF LongForm THEN NextSend.time ELSE 0, id |-> NextSend.id]
<1>1. /\ send.time \in Nat /\ send.id \in 0 .. PacketIdMax /\ peerNow \in Nat /\ peerNow > 1
      /\ send.time = 0 => send.id = 0
      /\ send.time <= peerNow
      /\ send.id = PacketIdMax => LongForm /\ peerNow > send.time
  BY DEF IInv, TypeOK, SentBefore, Write, MayRollOver
<1>2. /\ send' = NextSend /\ sent' = sent \cup {m} /\ peerNow' = peerNow
  BY DEF Write
<1>3. /\ NextSend \in [time : Nat, id : 0 .. PacketIdMax]
      /\ NextSend.id \in Ids /\ NextSend.time \in Nat /\ NextSend.time > 0
      /\ NextSend.time <= peerNow
  BY <1>1 DEF NextSend, Ids
<1>4. \/ send.id = PacketIdMax /\ LongForm /\ NextSend.time > send.time
      \/ send.time = 0 /\ send.id = 0 /\ NextSend.id = 1
      \/ NextSend.time = send.time /\ NextSend.id = send.id + 1
  BY <1>1 DEF NextSend
<1>5. ASSUME NEW k \in sent
      PROVE  /\ k.time \in Nat /\ k.id \in Nat /\ k.id > 0
             /\ LongForm  => k.time < send.time \/ (k.time = send.time /\ k.id <= send.id)
             /\ ~LongForm => k.time = 0 /\ k.id <= send.id
  <2>1. k \in Pins
    BY DEF IInv, TypeOK
  <2> QED BY <2>1 DEF IInv, SentBefore, Pins, Ids
<1>6. ASSUME NEW k \in sent
      PROVE  IF LongForm
             THEN k.time < NextSend.time \/ (k.time = NextSend.time /\ k.id < NextSend.id)
             ELSE k.time = 0 /\ k.id < NextSend.id
  <2>1. /\ NextSend.id \in Nat /\ NextSend.id > 0 /\ NextSend.time \in Nat /\ NextSend.time > 0
        /\ send.id \in Nat /\ PacketIdMax > 0
    BY <1>1, <1>3 DEF Ids
  <2>4. k.time \in Nat /\ k.id \in Nat /\ k.id > 0 /\ send.time \in Nat
    BY <1>1, <1>5
  <2>2. CASE LongForm
    <3>1. k.time < send.time \/ (k.time = send.time /\ k.id <= send.id)
      BY <2>2, <1>5
    <3>2. \/ NextSend.time > send.time
          \/ send.time = 0 /\ send.id = 0
          \/ NextSend.time = send.time /\ NextSend.id = send.id + 1
      BY <1>4
    <3>3. k.time < NextSend.time \/ (k.time = NextSend.time /\ k.id < NextSend.id)
      BY <2>1, <2>4, <3>1, <3>2
    <3> QED BY <2>2, <3>3
  <2>3. CASE ~LongForm
    <3>1. k.time = 0 /\ k.id <= send.id
      BY <2>3, <1>5
    <3> QED BY <2>1, <2>3, <2>4, <3>1, <1>4
  <2> QED BY <2>2, <2>3
<1>7. m \in Pins /\ m.id = NextSend.id /\ m.time = IF LongForm THEN NextSend.time ELSE 0
  BY <1>3 DEF Pins
<1> HIDE DEF m
<1>8. m \notin sent
  BY <1>3, <1>6, <1>7 DEF Ids
<1>9. ASSUME NEW k \in sent'
      PROVE  IF LongForm
             THEN k.time < NextSend.time \/ (k.time = NextSend.time /\ k.id <= NextSend.id)
             ELSE k.time = 0 /\ k.id <= NextSend.id
  <2>1. CASE k \in sent
    BY <2>1, <1>3, <1>5, <1>6 DEF Ids
  <2>2. CASE k = m
    BY <2>2, <1>3, <1>7 DEF Ids
  <2> QED BY <2>1, <2>2, <1>2
<1>10. SentBefore'
  BY <1>2, <1>3, <1>9 DEF SentBefore
<1> QED BY <1>2, <1>3, <1>7, <1>8, <1>10

-----------------------------------------------------------------------------
(* The inductive invariant.                                                *)

LEMMA InitInv == Init => IInv
<1> SUFFICES ASSUME Init PROVE IInv
  OBVIOUS
<1>1. <<>> \in Seq(Nat) /\ Len(<<>>) = 0
  OBVIOUS
<1>2. TypeOK
  BY <1>1 DEF Init, TypeOK
<1>3. SentBefore
  BY DEF Init, SentBefore
<1>4. Remembers(rec, received)
  BY <1>1 DEF Init, Remembers, Recs
<1> QED BY <1>2, <1>3, <1>4 DEF Init, IInv

LEMMA LookedRemembers ==
    ASSUME IInv
    PROVE  Remembers(Looked, received)
BY ReapedRemembers DEF IInv, TypeOK, Looked

\* What accepting a packet does: it was not accepted before and now is.
LEMMA AcceptFresh ==
    ASSUME IInv, NEW pin \in sent, Accept(pin)
    PROVE  /\ Remembers(rec', received')
           /\ \E e \in Arrivals : Pin(e) = pin /\ received' = received \cup {e}
           /\ \A d \in received : Pin(d) # pin
<1> DEFINE e == [time |-> pin.time, id |-> pin.id, at |-> now]
<1>1. pin \in Pins /\ now \in Nat /\ now > SeqExpired
  BY DEF IInv, TypeOK
<1>2. e \in Arrivals /\ Pin(e) = pin
  BY <1>1 DEF Pins, Arrivals, Pin
<1>3. received' = received \cup {e} /\ rec' = Added(Looked, pin) /\ Test(Looked, pin)
  BY DEF Accept
<1>4. Remembers(Looked, received)
  BY LookedRemembers
<1> HIDE DEF e
<1>5. Remembers(rec', received')
  BY <1>1, <1>2, <1>3, <1>4, AddedRemembers
<1>6. \A d \in received : Pin(d) # pin
  BY <1>1, <1>3, <1>4, TestFresh
<1> QED BY <1>2, <1>3, <1>5, <1>6

LEMMA NextInv ==
    ASSUME IInv, [Next]_vars
    PROVE  IInv'
<1>1. CASE Write
  <2>1. PICK m \in Pins \ sent : sent' = sent \cup {m}
    BY <1>1, WriteFresh
  <2>2. /\ rec' = rec /\ received' = received /\ now' = now /\ peerNow' = peerNow
        /\ deliveries' = deliveries /\ sends' = sends + 1
    BY <1>1 DEF Write
  <2>3. TypeOK'
    BY <1>1, <2>1, <2>2, WriteFresh DEF IInv, TypeOK
  <2>4. Remembers(rec, received)'
    BY <2>2 DEF IInv
  <2>5. (\A d \in received : Pin(d) \in sent)'
    BY <2>1, <2>2 DEF IInv, Pin
  <2> QED BY <1>1, <2>3, <2>4, <2>5, WriteFresh DEF IInv
<1>2. ASSUME NEW pin \in sent, Accept(pin) PROVE IInv'
  <2>1. PICK e \in Arrivals : Pin(e) = pin /\ received' = received \cup {e}
    BY <1>2, AcceptFresh
  <2>2. /\ send' = send /\ sent' = sent /\ now' = now /\ peerNow' = peerNow
        /\ sends' = sends /\ deliveries' = deliveries + 1
    BY <1>2 DEF Accept
  <2>3. Remembers(rec', received')
    BY <1>2, AcceptFresh
  <2>4. TypeOK'
    BY <2>1, <2>2, <2>3 DEF IInv, TypeOK, Remembers, Recs, Arrivals
  <2>5. SentBefore'
    BY <2>2 DEF IInv, SentBefore
  <2>6. (\A d \in received : Pin(d) \in sent)'
    BY <2>1, <2>2 DEF IInv, Pin
  <2> QED BY <2>3, <2>4, <2>5, <2>6 DEF IInv
<1>3. ASSUME NEW pin \in sent, Refuse(pin) PROVE IInv'
  <2>1. /\ send' = send /\ sent' = sent /\ now' = now /\ peerNow' = peerNow
        /\ sends' = sends /\ deliveries' = deliveries /\ received' = received
        /\ rec' = Looked
    BY <1>3 DEF Refuse
  <2>2. Remembers(rec', received')
    BY <2>1, LookedRemembers
  <2>3. TypeOK'
    BY <2>1, <2>2 DEF IInv, TypeOK, Remembers, Recs
  <2> QED BY <2>1, <2>2, <2>3 DEF IInv, SentBefore, Pin
<1>4. CASE Clock
  <2>1. /\ send' = send /\ sent' = sent /\ sends' = sends /\ deliveries' = deliveries
        /\ received' = received /\ rec' = rec
    BY <1>4 DEF Clock
  <2>2. /\ now' = now \/ now' = now + 1
        /\ peerNow' = peerNow \/ peerNow' = peerNow + 1
    BY <1>4 DEF Clock, Tick
  <2>3. TypeOK'
    BY <2>1, <2>2 DEF IInv, TypeOK
  <2>4. SentBefore'
    BY <2>1, <2>2 DEF IInv, TypeOK, SentBefore
  <2> QED BY <2>1, <2>3, <2>4 DEF IInv, Pin
<1>5. CASE UNCHANGED vars
  BY <1>5 DEF vars, IInv, TypeOK, SentBefore, Remembers, Known, Pin
<1> QED BY <1>1, <1>2, <1>3, <1>4, <1>5 DEF Next, Receive

LEMMA Invariant == Spec => []IInv
BY InitInv, NextInv, PTL DEF Spec

-----------------------------------------------------------------------------
(* The theorems.                                                           *)

\* Type correctness: the id stays within PACKET_ID_MAX, of the sender and of the
\* receiver, and the list holds times (packet_id_send_update, packet_id_add).
THEOREM TypeCorrect == Spec => []TypeOK
<1>1. IInv => TypeOK
  BY DEF IInv
<1> QED BY <1>1, Invariant, PTL

\* Every write is a fresh id and every packet accepted was sent and not accepted
\* before, across jumps of the window, reaping and roll-over (packet_id_write,
\* packet_id_test, packet_id_add, packet_id_reap).
THEOREM AtMostOnceImplemented == Spec => ImplementsAtMostOnce
<1>1. Init => Channel!Init
  BY DEF Init, Channel!Init
<1>2. IInv /\ [Next]_vars => [Channel!Next]_(Channel!vars)
  <2> SUFFICES ASSUME IInv, [Next]_vars PROVE [Channel!Next]_(Channel!vars)
    OBVIOUS
  <2>1. CASE Write
    <3>1. /\ \E m \in Pins \ sent : sent' = sent \cup {m}
          /\ sends' = sends + 1 /\ received' = received /\ deliveries' = deliveries
      BY <2>1, WriteFresh DEF Write
    <3> QED BY <3>1 DEF Channel!Next, Channel!Send, Pin
  <2>2. ASSUME NEW pin \in sent, Accept(pin) PROVE Channel!Next
    <3>1. PICK e \in Arrivals : Pin(e) = pin /\ received' = received \cup {e}
      BY <2>2, AcceptFresh
    <3>2. \A d \in received : Pin(d) # pin
      BY <2>2, AcceptFresh
    <3>3. pin \notin {Pin(d) : d \in received}
      BY <3>2
    <3>4. {Pin(d) : d \in received'} = {Pin(d) : d \in received} \cup {pin}
      BY <3>1
    <3>5. {Pin(d) : d \in received}' = {Pin(d) : d \in received'}
      BY DEF Pin
    <3>6. sent' = sent /\ sends' = sends /\ deliveries' = deliveries + 1
      BY <2>2 DEF Accept
    <3> QED BY <3>3, <3>4, <3>5, <3>6 DEF Channel!Next, Channel!Deliver
  <2>3. ASSUME NEW pin \in sent, Refuse(pin) PROVE UNCHANGED Channel!vars
    BY <2>3 DEF Refuse, Channel!vars, Pin
  <2>4. CASE Clock
    BY <2>4 DEF Clock, Channel!vars, Pin
  <2>5. CASE UNCHANGED vars
    BY <2>5 DEF vars, Channel!vars, Pin
  <2> QED BY <2>1, <2>2, <2>3, <2>4, <2>5 DEF Next, Receive
<1> QED BY <1>1, <1>2, Invariant, PTL DEF Spec, ImplementsAtMostOnce, Channel!Spec

-----------------------------------------------------------------------------
(* Without a window.                                                       *)

\* The packets of one time are those from the first one to come up to rec.id.
Row ==
    SeqBacktrack = 0 =>
        /\ \A d \in received : d.at <= now
        /\ rec.id > 0 => \E d \in received : d.time = rec.time /\ d.id = rec.id
        /\ InOrder

LEMMA AcceptRow ==
    ASSUME IInv, Row, SeqBacktrack = 0, NEW pin \in sent, Accept(pin)
    PROVE  Row'
<1> DEFINE e == [time |-> pin.time, id |-> pin.id, at |-> now]
<1>1. /\ pin.time \in Nat /\ pin.id \in Nat /\ pin.id > 0 /\ now \in Nat
      /\ rec.time \in Nat /\ rec.id \in Nat
  BY DEF IInv, TypeOK, Pins, Ids
<1>2. /\ received' = received \cup {e} /\ now' = now
      /\ rec'.time = pin.time /\ rec'.id = pin.id
  BY DEF Accept, Added, Looked, Reaped, IInv, TypeOK
<1>3. Looked.time = rec.time /\ Looked.id = rec.id
  BY DEF Looked, Reaped, IInv, TypeOK
<1>4. IF pin.time = rec.time
      THEN rec.id = 0 \/ pin.id = rec.id + 1
      ELSE pin.time > rec.time /\ pin.id = 1
  BY <1>3 DEF Accept, Test, TestTcp
<1>5. e.time = pin.time /\ e.id = pin.id /\ e.at = now
  OBVIOUS
<1> HIDE DEF e
<1>6. ASSUME NEW d \in received
      PROVE  /\ d.time \in Nat /\ d.id \in Nat /\ d.id > 0 /\ d.at <= now
             /\ d.time < rec.time \/ (d.time = rec.time /\ d.id <= rec.id)
  BY DEF IInv, TypeOK, Ids, Remembers, Known, Row
<1>7. ASSUME NEW d \in received, d.time = pin.time
      PROVE  rec.time = pin.time /\ rec.id > 0 /\ pin.id = rec.id + 1 /\ d.id <= rec.id
  BY <1>1, <1>4, <1>6, <1>7
<1>8. \A d \in received' : d.at <= now'
  BY <1>1, <1>2, <1>5, <1>6
<1>9. rec'.id > 0 => \E d \in received' : d.time = rec'.time /\ d.id = rec'.id
  BY <1>2, <1>5
<1>10. ASSUME NEW d \in received', NEW f \in received', d.time = f.time
       PROVE  /\ d.id < f.id => d.at <= f.at
              /\ \A i \in d.id .. f.id : \E g \in received' : g.time = d.time /\ g.id = i
  <2>1. CASE d \in received /\ f \in received
    BY <2>1, <1>2, <1>10 DEF Row, InOrder
  <2>2. CASE d = e /\ f = e
    BY <2>2, <1>1, <1>2, <1>5
  <2>3. CASE d \in received /\ f = e
    <3>1. rec.time = pin.time /\ rec.id > 0 /\ pin.id = rec.id + 1 /\ d.time = rec.time
      BY <2>3, <1>5, <1>7, <1>10
    <3>2. PICK g \in received : g.time = rec.time /\ g.id = rec.id
      BY <3>1 DEF Row
    <3>3. ASSUME NEW i \in d.id .. f.id
          PROVE  \E h \in received' : h.time = d.time /\ h.id = i
      <4>1. CASE i = pin.id
        BY <4>1, <2>3, <1>2, <1>5, <1>10
      <4>2. CASE i # pin.id
        <5>1. i \in d.id .. g.id
          BY <4>2, <2>3, <3>1, <3>2, <1>1, <1>5, <1>6
        <5>2. \E h \in received : h.time = d.time /\ h.id = i
          BY <5>1, <2>3, <3>1, <3>2 DEF Row, InOrder
        <5> QED BY <5>2, <1>2
      <4> QED BY <4>1, <4>2
    <3> QED BY <3>3, <2>3, <1>5, <1>6
  <2>4. CASE d = e /\ f \in received
    <3>1. f.id < d.id /\ f.id \in Nat /\ d.id \in Nat
      BY <2>4, <1>1, <1>5, <1>6, <1>7, <1>10
    <3> QED BY <3>1
  <2> QED BY <2>1, <2>2, <2>3, <2>4, <1>2
<1>11. InOrder'
  BY <1>10 DEF InOrder
<1> QED BY <1>8, <1>9, <1>11 DEF Row

LEMMA NextRow ==
    ASSUME IInv, Row, [Next]_vars
    PROVE  Row'
<1> SUFFICES ASSUME SeqBacktrack = 0 PROVE Row'
  BY DEF Row
<1>1. CASE Write
  BY <1>1 DEF Write, Row, InOrder
<1>2. ASSUME NEW pin \in sent, Accept(pin) PROVE Row'
  BY <1>2, AcceptRow
<1>3. ASSUME NEW pin \in sent, Refuse(pin) PROVE Row'
  <2>1. /\ received' = received /\ now' = now
        /\ rec'.time = rec.time /\ rec'.id = rec.id
    BY <1>3 DEF Refuse, Looked, Reaped, IInv, TypeOK
  <2> QED BY <2>1 DEF Row, InOrder
<1>4. CASE Clock
  <2>1. /\ received' = received /\ rec' = rec
        /\ now' = now \/ now' = now + 1
    BY <1>4 DEF Clock, Tick
  <2>2. now \in Nat /\ \A d \in received : d.at \in Nat
    BY DEF IInv, TypeOK
  <2> QED BY <2>1, <2>2 DEF Row, InOrder
<1>5. CASE UNCHANGED vars
  BY <1>5 DEF vars, Row, InOrder
<1> QED BY <1>1, <1>2, <1>3, <1>4, <1>5 DEF Next, Receive

\* Without a window the packets of one time are accepted in a row, each after the one
\* before it, however the network reorders and repeats them (packet_id_test).
THEOREM AcceptedInOrder == Spec => []InOrder
<1>1. Init => Row
  BY DEF Init, Row, InOrder
<1>2. IInv /\ Row /\ [Next]_vars => Row'
  BY NextRow
<1>3. SeqBacktrack = 0 /\ Row => InOrder
  BY DEF Row
<1>4. SeqBacktrack # 0 => InOrder
  BY DEF InOrder
<1>5. Row => InOrder
  BY <1>3, <1>4
<1> QED BY <1>1, <1>2, <1>5, Invariant, PTL DEF Spec

-----------------------------------------------------------------------------
(* What the list says.                                                     *)

\* An id of time T may not be accepted any more: it has been, or a later one has come
\* too long before the reaper's last pass.
Blocked(T, reap, R, id) ==
    \E d \in R :
        /\ d.time = T
        /\ d.id = id \/ (d.id > id /\ TimeBacktrack > 0 /\ d.at + TimeBacktrack < reap)

\* Where a list l of n entries whose head belongs to id `top` stands for the packets in R: an entry is
\* unseen as long as its id may be accepted, is the time of arrival until it expires, and
\* all behind an expired one have expired.
Tells(l, n, top, T, reap, R) ==
    /\ \A i \in 1 .. n : l[i] = SeqExpired => \A j \in i .. n : l[j] = SeqExpired
    /\ \A i \in 1 .. n : l[i] # SeqUnseen <=> Blocked(T, reap, R, top - i + 1)
    /\ \A i \in 1 .. n : l[i] \notin {SeqUnseen, SeqExpired} =>
         \E d \in R : d.time = T /\ d.id = top - i + 1 /\ d.at = l[i]
    /\ \A d \in R : d.time = T /\ top - d.id < n => l[top - d.id + 1] \in {d.at, SeqExpired}

\* Packets of time T that have come up to now, none of them above `top`.
UpTo(R, T, top) ==
    \A d \in R :
        /\ d.time \in Nat /\ d.id \in Nat /\ d.id > 0
        /\ d.at \in Nat /\ d.at > SeqExpired /\ d.at <= now
        /\ d.time = T => d.id <= top

\* packet_id_reap: the ids behind an overdue one are blocked, and no others.
LEMMA ReapedTells ==
    ASSUME NEW n \in Nat, NEW l \in [1 .. n -> Nat], NEW k \in [1 .. n -> Nat], TimeBacktrack > 0,
           \A i \in 1 .. n : k[i] = IF Overdue(l, i) THEN SeqExpired ELSE l[i],
           NEW top \in Nat, NEW T \in Nat, NEW reap \in Nat, now \in Nat, reap <= now,
           NEW R, UpTo(R, T, top), Tells(l, n, top, T, reap, R)
    PROVE  Tells(k, n, top, T, now, R)
<1>1. \A i \in 1 .. n : l[i] \in Nat
  OBVIOUS
<1>2. ASSUME NEW i \in 1 .. n, NEW j \in i .. n, l[i] = SeqExpired
      PROVE  l[j] = SeqExpired
  BY <1>2 DEF Tells
<1>3. ASSUME NEW i \in 1 .. n, l[i] = SeqExpired PROVE k[i] = SeqExpired
  BY <1>3
<1>4. ASSUME NEW i \in 1 .. n, NEW j \in i .. n, k[i] = SeqExpired
      PROVE  k[j] = SeqExpired
  <2>0. i \in 1 .. n /\ j \in i .. n /\ j \in 1 .. n
    BY <1>1
  <2>1. CASE ~Overdue(l, i)
    BY <2>0, <2>1, <1>2, <1>3, <1>4
  <2>2. CASE \E m \in 1 .. j : l[m] = SeqExpired
    <3>1. PICK m \in 1 .. j : l[m] = SeqExpired
      BY <2>2
    <3>2. m \in 1 .. n /\ j \in m .. n
      BY <2>0, <1>1
    <3> QED BY <2>0, <3>1, <3>2, <1>2, <1>3
  <2>3. CASE Overdue(l, i) /\ ~\E m \in 1 .. j : l[m] = SeqExpired
    <3>1. Overdue(l, j)
      BY <2>0, <2>3 DEF Overdue
    <3> QED BY <2>0, <3>1
  <2> QED BY <2>1, <2>2, <2>3
<1>5. ASSUME NEW i \in 1 .. n, k[i] # SeqUnseen
      PROVE  Blocked(T, now, R, top - i + 1)
  <2>1. CASE ~Overdue(l, i)
    <3>1. PICK d \in R : /\ d.time = T
                         /\ \/ d.id = top - i + 1
                            \/ d.id > top - i + 1 /\ TimeBacktrack > 0 /\ d.at + TimeBacktrack < reap
      BY <2>1, <1>5 DEF Tells, Blocked
    <3>2. d.at \in Nat
      BY DEF UpTo
    <3> QED BY <3>1, <3>2 DEF Blocked
  <2>2. CASE Overdue(l, i)
    <3>1. PICK m \in 1 .. i : l[m] # SeqUnseen /\ l[m] + TimeBacktrack < now
      BY <2>2 DEF Overdue
    <3>2. l[m] # SeqExpired /\ m \in 1 .. n
      BY <2>2, <1>1 DEF Overdue
    <3>3. PICK d \in R : d.time = T /\ d.id = top - m + 1 /\ d.at = l[m]
      BY <3>1, <3>2 DEF Tells
    <3>4. d.id = top - i + 1 \/ d.id > top - i + 1
      BY <3>3
    <3> QED BY <3>1, <3>3, <3>4 DEF Blocked
  <2> QED BY <2>1, <2>2
<1>6. ASSUME NEW i \in 1 .. n, Blocked(T, now, R, top - i + 1)
      PROVE  k[i] # SeqUnseen
  <2>1. PICK d \in R : /\ d.time = T
                       /\ \/ d.id = top - i + 1
                          \/ d.id > top - i + 1 /\ d.at + TimeBacktrack < now
    BY <1>6 DEF Blocked
  <2>2. /\ d.id \in Nat /\ d.id <= top /\ d.at \in Nat /\ d.at > SeqExpired
        /\ i \in 1 .. n
    BY <2>1 DEF UpTo
  <2>3. CASE d.id = top - i + 1
    <3>1. l[i] # SeqUnseen
      BY <2>1, <2>2, <2>3 DEF Tells, Blocked
    <3> QED BY <2>2, <3>1
  <2>4. CASE d.id > top - i + 1 /\ d.at + TimeBacktrack < now
    <3>5. PICK x \in Nat : x = d.id /\ x <= top /\ x > top - i + 1
      BY <2>2, <2>4
    <3> DEFINE m == top - x + 1
    <3>6. i \in Nat /\ i >= 1 /\ i <= n
      BY <2>2
    <3>7. top - x \in Nat /\ top - x < i
      BY <3>5, <3>6
    <3>1. m \in 1 .. i /\ m \in 1 .. n /\ top - x < n
      BY <3>6, <3>7
    <3>2. l[m] \in {d.at, SeqExpired}
      BY <2>1, <3>1, <3>5 DEF Tells
    <3> HIDE DEF m
    <3>3. CASE \E q \in 1 .. i : l[q] = SeqExpired
      <4>1. PICK q \in 1 .. i : l[q] = SeqExpired
        BY <3>3
      <4>2. q \in 1 .. n /\ i \in q .. n
        BY <2>2, <1>1
      <4> QED BY <4>1, <4>2, <2>2, <1>2, <1>3
    <3>4. CASE ~\E q \in 1 .. i : l[q] = SeqExpired
      <4>1. Overdue(l, i)
        BY <3>1, <3>2, <3>4, <2>2, <2>4 DEF Overdue
      <4> QED BY <2>2, <4>1
    <3> QED BY <3>3, <3>4
  <2> QED BY <2>1, <2>3, <2>4
<1>7. ASSUME NEW i \in 1 .. n, k[i] \notin {SeqUnseen, SeqExpired}
      PROVE  \E d \in R : d.time = T /\ d.id = top - i + 1 /\ d.at = k[i]
  BY <1>7 DEF Tells
<1>8. ASSUME NEW d \in R, d.time = T, top - d.id < n
      PROVE  k[top - d.id + 1] \in {d.at, SeqExpired}
  <2>1. top - d.id + 1 \in 1 .. n
    BY <1>8, <1>1 DEF UpTo
  <2>2. l[top - d.id + 1] \in {d.at, SeqExpired}
    BY <1>8 DEF Tells
  <2> QED BY <2>1, <2>2
<1> QED BY <1>4, <1>5, <1>6, <1>7, <1>8 DEF Tells

\* A packet that has just come blocks no id but its own.
LEMMA NewBlocks ==
    ASSUME NEW T \in Nat, NEW reap \in Nat, now \in Nat, reap <= now, NEW R, NEW e,
           e.time = T, e.at = now, NEW id, e.id # id
    PROVE  Blocked(T, reap, R \cup {e}, id) <=> Blocked(T, reap, R, id)
BY DEF Blocked

\* packet_id_add, a packet beyond the newest one.
LEMMA PushedTells ==
    ASSUME NEW h \in Nat, NEW l \in [1 .. h -> Nat],
           NEW m \in Nat, NEW k \in [1 .. m -> Nat],
           NEW top \in Nat, NEW n \in Nat, n > 0, m <= n + h, NEW p \in Nat, p = top + n,
           \A i \in 1 .. m :
             k[i] = IF i = 1 THEN now ELSE IF i <= n THEN SeqUnseen ELSE l[i - n],
           NEW T \in Nat, NEW reap \in Nat, now \in Nat, now > SeqExpired, reap <= now,
           NEW R, UpTo(R, T, top), Tells(l, h, top, T, reap, R),
           NEW e, e.time = T, e.id = p, e.at = now
    PROVE  Tells(k, m, p, T, reap, R \cup {e})
<1>2. ASSUME NEW i \in 1 .. m, i > n
      PROVE  /\ i - n \in 1 .. h /\ k[i] = l[i - n]
             /\ p - i + 1 = top - (i - n) + 1
  BY <1>2
<1>3. ASSUME NEW i \in 1 .. m, NEW j \in i .. m, k[i] = SeqExpired
      PROVE  k[j] = SeqExpired
  <2>1. i > n /\ j > n /\ j \in 1 .. m
    BY <1>3
  <2>2. j - n \in i - n .. h /\ l[i - n] = SeqExpired /\ i - n \in 1 .. h
    BY <1>2, <1>3, <2>1
  <2>3. l[j - n] = SeqExpired
    BY <2>2 DEF Tells
  <2> QED BY <1>2, <2>1, <2>3
<1>4. ASSUME NEW i \in 1 .. m
      PROVE  k[i] # SeqUnseen <=> Blocked(T, reap, R \cup {e}, p - i + 1)
  <2>1. CASE i = 1
    <3>1. p - i + 1 = e.id
      BY <2>1
    <3> QED BY <2>1, <3>1 DEF Blocked
  <2>2. CASE i # 1
    <3>1. Blocked(T, reap, R \cup {e}, p - i + 1) <=> Blocked(T, reap, R, p - i + 1)
      <4>1. e.id # p - i + 1
        BY <2>2
      <4> QED BY <4>1, NewBlocks
    <3>2. CASE i <= n
      <4>1. \A d \in R : d.time = T => d.id \in Nat /\ d.id < p - i + 1
        BY <3>2 DEF UpTo
      <4>2. ~Blocked(T, reap, R, p - i + 1)
        BY <4>1, <3>2 DEF Blocked
      <4> QED BY <2>2, <3>1, <3>2, <4>2
    <3>3. CASE i > n
      <4>1. l[i - n] # SeqUnseen <=> Blocked(T, reap, R, top - (i - n) + 1)
        BY <1>2, <3>3 DEF Tells
      <4> QED BY <1>2, <3>1, <3>3, <4>1
    <3> QED BY <3>2, <3>3
  <2> QED BY <2>1, <2>2
<1>5. ASSUME NEW i \in 1 .. m, k[i] \notin {SeqUnseen, SeqExpired}
      PROVE  \E d \in R \cup {e} : d.time = T /\ d.id = p - i + 1 /\ d.at = k[i]
  <2>1. CASE i = 1
    BY <2>1
  <2>2. CASE i # 1
    <3>1. i > n
      BY <1>5, <2>2
    <3>2. PICK d \in R : d.time = T /\ d.id = top - (i - n) + 1 /\ d.at = l[i - n]
      BY <1>2, <1>5, <3>1 DEF Tells
    <3> QED BY <1>2, <3>1, <3>2
  <2> QED BY <2>1, <2>2
<1>6. ASSUME NEW d \in R \cup {e}, d.time = T, p - d.id < m
      PROVE  k[p - d.id + 1] \in {d.at, SeqExpired}
  <2>1. CASE d = e
    <3>1. p - d.id + 1 = 1 /\ 1 \in 1 .. m
      BY <2>1, <1>6
    <3> QED BY <2>1, <3>1
  <2>2. CASE d \in R
    <3>1. PICK x \in Nat : x = d.id /\ x <= top /\ p - x < m
      BY <2>2, <1>6 DEF UpTo
    <3>2. /\ p - x + 1 \in 1 .. m /\ p - x + 1 > n
          /\ p - x + 1 - n = top - x + 1 /\ top - x < h
      <4>1. x <= top /\ p - x < m
        BY <3>1
      <4> HIDE <3>1
      <4> QED BY <4>1
    <3>3. l[top - x + 1] \in {d.at, SeqExpired}
      BY <2>2, <3>1, <3>2, <1>6 DEF Tells
    <3>4. k[p - x + 1] = l[top - x + 1]
      BY <3>2, <1>2
    <3> QED BY <3>1, <3>3, <3>4
  <2> QED BY <2>1, <2>2
<1> QED BY <1>3, <1>4, <1>5, <1>6 DEF Tells

\* packet_id_add, a packet that was overtaken.
LEMMA MarkedTells ==
    ASSUME NEW n \in Nat, NEW l \in [1 .. n -> Nat], NEW k \in [1 .. n -> Nat],
           NEW top \in Nat, NEW p \in Nat, p <= top, top - p < n, l[top - p + 1] = SeqUnseen,
           \A i \in 1 .. n : k[i] = IF i = top - p + 1 THEN now ELSE l[i],
           NEW T \in Nat, NEW reap \in Nat, now \in Nat, now > SeqExpired, reap <= now,
           NEW R, UpTo(R, T, top), Tells(l, n, top, T, reap, R),
           NEW e, e.time = T, e.id = p, e.at = now
    PROVE  Tells(k, n, top, T, reap, R \cup {e})
<1>1. top - p + 1 \in 1 .. n
  OBVIOUS
<1>2. ASSUME NEW i \in 1 .. n, NEW j \in i .. n, k[i] = SeqExpired
      PROVE  k[j] = SeqExpired
  <2>1. i \in 1 .. n /\ j \in 1 .. n /\ j \in i .. n /\ l[i] = SeqExpired
    BY <1>1, <1>2
  <2>2. l[j] = SeqExpired
    BY <2>1 DEF Tells
  <2> QED BY <2>1, <2>2
<1>3. ASSUME NEW i \in 1 .. n
      PROVE  k[i] # SeqUnseen <=> Blocked(T, reap, R \cup {e}, top - i + 1)
  <2>1. CASE i = top - p + 1
    <3>1. top - i + 1 = e.id
      BY <2>1
    <3> QED BY <1>1, <2>1, <3>1 DEF Blocked
  <2>2. CASE i # top - p + 1
    <3>1. e.id # top - i + 1
      BY <2>2
    <3>2. Blocked(T, reap, R \cup {e}, top - i + 1) <=> Blocked(T, reap, R, top - i + 1)
      BY <3>1, NewBlocks
    <3> QED BY <2>2, <3>2 DEF Tells
  <2> QED BY <2>1, <2>2
<1>4. ASSUME NEW i \in 1 .. n, k[i] \notin {SeqUnseen, SeqExpired}
      PROVE  \E d \in R \cup {e} : d.time = T /\ d.id = top - i + 1 /\ d.at = k[i]
  <2>1. CASE i = top - p + 1
    <3>1. top - i + 1 = e.id /\ k[i] = now
      BY <1>1, <2>1
    <3> QED BY <3>1
  <2>2. CASE i # top - p + 1
    <3>1. PICK d \in R : d.time = T /\ d.id = top - i + 1 /\ d.at = l[i]
      BY <2>2, <1>4 DEF Tells
    <3> QED BY <2>2, <3>1
  <2> QED BY <2>1, <2>2
<1>5. ASSUME NEW d \in R \cup {e}, d.time = T, top - d.id < n
      PROVE  k[top - d.id + 1] \in {d.at, SeqExpired}
  <2>1. CASE d = e
    BY <2>1, <1>1
  <2>2. CASE d \in R
    <3>1. d.id \in Nat /\ d.id <= top /\ d.at > SeqExpired /\ d.at \in Nat
      BY <2>2, <1>5 DEF UpTo
    <3>2. l[top - d.id + 1] \in {d.at, SeqExpired}
      BY <2>2, <1>5 DEF Tells
    <3>3. top - d.id + 1 \in 1 .. n /\ top - d.id + 1 # top - p + 1
      BY <1>1, <1>5, <3>1, <3>2, SMTT(30)
    <3> QED BY <3>2, <3>3
  <2> QED BY <2>1, <2>2
<1> QED BY <1>2, <1>3, <1>4, <1>5 DEF Tells

\* What the receiver's record says of the packets it has accepted.
Mirrors(r, R) ==
    /\ r.lastReap <= now
    /\ Len(r.list) = Least(SeqBacktrack, r.id)
    /\ UpTo(R, r.time, r.id)
    /\ Tells(r.list, Len(r.list), r.id, r.time, r.lastReap, R)

\* Which entries there are after so many pushes (CIRC_LIST_PUSH).
LEMMA PushedEntries ==
    ASSUME NEW l \in Seq(Nat), Len(l) <= SeqBacktrack, NEW n \in Nat
    PROVE  /\ Pushed(l, n) \in Seq(Nat)
           /\ Len(Pushed(l, n)) = Least(SeqBacktrack, n + Len(l))
           /\ \A i \in 1 .. Len(Pushed(l, n)) :
                Pushed(l, n)[i] = IF i <= n THEN SeqUnseen ELSE l[i - n]
<1> DEFINE k == Least(SeqBacktrack, n + Len(l))
<1>1. k \in Nat
  BY DEF Least
<1>2. Pushed(l, n) \in Seq(Nat)
  BY PushedList
<1>3. DOMAIN Pushed(l, n) = 1 .. k
  BY DEF Pushed
<1> HIDE DEF k
<1>4. Len(Pushed(l, n)) = k
  BY <1>1, <1>2, <1>3
<1> QED BY <1>2, <1>4, PushedList DEF k

LEMMA ListFun == \A l \in Seq(Nat) : Len(l) \in Nat /\ l \in [1 .. Len(l) -> Nat]
OBVIOUS

LEMMA ReapedMirrors ==
    ASSUME NEW r \in Recs, NEW R, Mirrors(r, R), now \in Nat
    PROVE  Mirrors(Reaped(r), R)
<1> DEFINE n == Len(r.list)
           k == IF TimeBacktrack = 0 THEN r.list
                ELSE [i \in 1 .. Len(r.list) |->
                        IF Overdue(r.list, i) THEN SeqExpired ELSE r.list[i]]
<1>1. /\ r.time \in Nat /\ r.id \in Nat /\ r.lastReap \in Nat /\ r.lastReap <= now
      /\ r.list \in Seq(Nat) /\ n \in Nat /\ r.list \in [1 .. n -> Nat]
      /\ UpTo(R, r.time, r.id) /\ Tells(r.list, n, r.id, r.time, r.lastReap, R)
  BY ListFun DEF Recs, Mirrors
<1>2. /\ Reaped(r).time = r.time /\ Reaped(r).id = r.id /\ Reaped(r).lastReap = now
      /\ Reaped(r).list = k
  BY DEF Reaped, Recs
<1>3. Len(k) = n /\ Tells(k, n, r.id, r.time, now, R)
  <2>1. CASE TimeBacktrack = 0
    <3>1. k = r.list
      BY <2>1
    <3>2. \A id : Blocked(r.time, now, R, id) <=> Blocked(r.time, r.lastReap, R, id)
      BY <2>1 DEF Blocked
    <3> HIDE DEF k, n
    <3>3. Tells(r.list, n, r.id, r.time, now, R)
      BY <1>1, <3>2 DEF Tells
    <3> QED BY <3>1, <3>3 DEF n
  <2>2. CASE TimeBacktrack # 0
    <3>1. /\ k \in [1 .. n -> Nat]
          /\ \A i \in 1 .. n : k[i] = IF Overdue(r.list, i) THEN SeqExpired ELSE r.list[i]
      BY <1>1, <2>2
    <3> HIDE DEF k, n
    <3>2. Len(k) = n
      BY <1>1, <3>1, ListOf
    <3>3. TimeBacktrack > 0
      BY <2>2
    <3>4. Tells(k, n, r.id, r.time, now, R)
      BY <1>1, <3>1, <3>3, ReapedTells
    <3> QED BY <3>2, <3>4
  <2> QED BY <2>1, <2>2
<1> HIDE DEF k
<1> QED BY <1>1, <1>2, <1>3 DEF Mirrors

\* What PushedTells asks of a list, of the list after the push and of what was accepted.
PushFits(h, l, m, k, top, n, p, T, reap, R, e) ==
    /\ h \in Nat /\ l \in [1 .. h -> Nat] /\ m \in Nat /\ k \in [1 .. m -> Nat]
    /\ top \in Nat /\ n \in Nat /\ n > 0 /\ m <= n + h /\ p \in Nat /\ p = top + n
    /\ \A i \in 1 .. m :
          k[i] = IF i = 1 THEN now ELSE IF i <= n THEN SeqUnseen ELSE l[i - n]
    /\ T \in Nat /\ reap \in Nat /\ now \in Nat /\ now > SeqExpired /\ reap <= now
    /\ UpTo(R, T, top) /\ Tells(l, h, top, T, reap, R)
    /\ e.time = T /\ e.id = p /\ e.at = now

LEMMA FittingTells ==
    ASSUME NEW h, NEW l, NEW m, NEW k, NEW top, NEW n, NEW p, NEW T, NEW reap, NEW R, NEW e,
           PushFits(h, l, m, k, top, n, p, T, reap, R, e)
    PROVE  Tells(k, m, p, T, reap, R \cup {e})
<1>1. /\ h \in Nat /\ l \in [1 .. h -> Nat] /\ m \in Nat /\ k \in [1 .. m -> Nat]
      /\ top \in Nat /\ n \in Nat /\ n > 0 /\ m <= n + h /\ p \in Nat /\ p = top + n
  BY DEF PushFits
<1>2. \A i \in 1 .. m :
        k[i] = IF i = 1 THEN now ELSE IF i <= n THEN SeqUnseen ELSE l[i - n]
  BY DEF PushFits
<1>3. /\ T \in Nat /\ reap \in Nat /\ now \in Nat /\ now > SeqExpired /\ reap <= now
      /\ UpTo(R, T, top) /\ Tells(l, h, top, T, reap, R)
      /\ e.time = T /\ e.id = p /\ e.at = now
  BY DEF PushFits
<1> QED BY <1>1, <1>2, <1>3, PushedTells, ZenonT(60)

\* Moving the window up and marking the new packet in it keeps the list exact.
LEMMA AdvancedMirrors ==
    ASSUME NEW r \in Recs, NEW R, SeqBacktrack > 0, Len(r.list) <= SeqBacktrack,
           now \in Nat, now > SeqExpired, r.lastReap <= now,
           UpTo(R, r.time, r.id), Tells(r.list, Len(r.list), r.id, r.time, r.lastReap, R),
           NEW pin \in Pins, pin.time = r.time,
           NEW e \in Arrivals, Pin(e) = pin, e.at = now,
           \/ /\ pin.id > r.id
              /\ Least(SeqBacktrack, pin.id - r.id + Len(r.list)) = Least(SeqBacktrack, pin.id)
           \/ /\ pin.id <= r.id
              /\ Len(r.list) = Least(SeqBacktrack, r.id)
              /\ r.id - pin.id < Len(r.list)
              /\ r.list[r.id - pin.id + 1] = SeqUnseen
    PROVE  Mirrors(Advanced(r, pin), R \cup {e})
<1> DEFINE h == Len(r.list)
<1>1. /\ r.time \in Nat /\ r.id \in Nat /\ r.lastReap \in Nat
      /\ r.list \in Seq(Nat) /\ h \in Nat /\ r.list \in [1 .. h -> Nat]
      /\ pin.id \in Nat /\ pin.id > 0 /\ e.time = r.time /\ e.id = pin.id
      /\ e.time \in Nat /\ e.id \in Nat
  BY ListFun DEF Recs, Pins, Ids, Pin
<1>2. CASE pin.id > r.id
  <2> DEFINE n == pin.id - r.id
             u == Pushed(r.list, n)
             k == Marked(u, 0)
             a == [r EXCEPT !.id = pin.id, !.list = k]
  <2>1. n \in Nat /\ n > 0 /\ pin.id = r.id + n
    BY <1>1, <1>2
  <2> HIDE DEF n
  <2>2. /\ u \in Seq(Nat) /\ Len(u) \in Nat
        /\ Len(u) = Least(SeqBacktrack, n + h) /\ Len(u) > 0 /\ Len(u) <= n + h
        /\ \A i \in 1 .. Len(u) : u[i] = IF i <= n THEN SeqUnseen ELSE r.list[i - n]
    <3>1. /\ Pushed(r.list, n) \in Seq(Nat)
          /\ Len(Pushed(r.list, n)) = Least(SeqBacktrack, n + h)
          /\ \A i \in 1 .. Len(Pushed(r.list, n)) :
               Pushed(r.list, n)[i] = IF i <= n THEN SeqUnseen ELSE r.list[i - n]
      BY <1>1, <2>1, PushedEntries
    <3>2. Least(SeqBacktrack, n + h) > 0 /\ Least(SeqBacktrack, n + h) <= n + h
      BY <1>1, <2>1 DEF Least
    <3> QED BY <3>1, <3>2
  <2> HIDE DEF u
  <2>3. /\ k \in Seq(Nat) /\ Len(k) = Len(u)
        /\ \A i \in 1 .. Len(u) : k[i] = IF i = 1 THEN now ELSE u[i]
    BY <2>2, MarkedList
  <2> HIDE DEF k
  <2>4. /\ a.time = r.time /\ a.id = pin.id /\ a.list = k /\ a.lastReap = r.lastReap
        /\ Advanced(r, pin) = a
    <3>1. pin.id - pin.id = 0
      BY <1>1
    <3>2. Advanced(r, pin) = [r EXCEPT !.id = pin.id, !.list = k]
      BY <1>2, <2>2, <3>1 DEF Advanced, k, u, n
    <3> QED BY <3>2 DEF Recs
  <2> HIDE DEF a
  <2>5. k \in [1 .. Len(u) -> Nat]
    BY <2>3, ListFun
  <2>6. \A i \in 1 .. Len(u) :
          k[i] = IF i = 1 THEN now ELSE IF i <= n THEN SeqUnseen ELSE r.list[i - n]
    BY <2>2, <2>3
  <2>7. Tells(k, Len(u), pin.id, r.time, r.lastReap, R \cup {e})
    <3> DEFINE m == Len(u)
               T == r.time
               reap == r.lastReap
    <3>1. /\ m \in Nat /\ m <= n + h /\ k \in [1 .. m -> Nat] /\ T \in Nat /\ reap \in Nat
          /\ \A i \in 1 .. m :
               k[i] = IF i = 1 THEN now ELSE IF i <= n THEN SeqUnseen ELSE r.list[i - n]
          /\ UpTo(R, T, r.id) /\ Tells(r.list, h, r.id, T, reap, R)
          /\ e.time = T /\ e.id = pin.id /\ e.at = now /\ reap <= now
      BY <1>1, <2>2, <2>5, <2>6
    <3> HIDE DEF m, T, reap, h
    <3>2. PushFits(h, r.list, m, k, r.id, n, pin.id, T, reap, R, e)
      BY <1>1, <2>1, <3>1 DEF PushFits, h
    <3>3. Tells(k, m, pin.id, T, reap, R \cup {e})
      BY <3>2, FittingTells
    <3> QED BY <3>3 DEF m, T, reap
  <2>8. UpTo(R \cup {e}, r.time, pin.id)
    BY <1>1, <1>2, SMTT(30) DEF UpTo
  <2>9. Len(k) = Least(SeqBacktrack, pin.id)
    BY <1>1, <1>2, <2>2, <2>3 DEF n
  <2> QED BY <2>3, <2>4, <2>7, <2>8, <2>9 DEF Mirrors
<1>3. CASE ~(pin.id > r.id)
  <2> DEFINE diff == r.id - pin.id
             u == Pushed(r.list, 0)
             k == Marked(u, diff)
             a == [r EXCEPT !.id = r.id, !.list = k]
  <2>1. /\ pin.id <= r.id /\ diff \in Nat /\ diff < h /\ r.list[diff + 1] = SeqUnseen
        /\ h = Least(SeqBacktrack, r.id)
    BY <1>1, <1>3
  <2>2. /\ u \in Seq(Nat) /\ Len(u) = h
        /\ \A i \in 1 .. h : u[i] = r.list[i]
    <3>1. PICK n \in Nat : n = 0
      OBVIOUS
    <3>2. /\ Pushed(r.list, n) \in Seq(Nat)
          /\ Len(Pushed(r.list, n)) = Least(SeqBacktrack, n + h)
          /\ \A i \in 1 .. Len(Pushed(r.list, n)) :
               Pushed(r.list, n)[i] = IF i <= n THEN SeqUnseen ELSE r.list[i - n]
      BY <1>1, PushedEntries
    <3>3. Least(SeqBacktrack, n + h) = h
      BY <1>1, <3>1 DEF Least
    <3>4. \A i \in 1 .. h : ~(i <= n) /\ i - n = i
      BY <1>1, <3>1
    <3>5. u = Pushed(r.list, n)
      BY <3>1
    <3> HIDE DEF h, u
    <3> QED BY <3>2, <3>3, <3>4, <3>5
  <2> HIDE DEF u, diff
  <2>3. /\ k \in Seq(Nat) /\ Len(k) = h
        /\ \A i \in 1 .. h : k[i] = IF i = diff + 1 THEN now ELSE r.list[i]
    BY <2>1, <2>2, MarkedList
  <2> HIDE DEF k
  <2>4. /\ a.time = r.time /\ a.id = r.id /\ a.list = k /\ a.lastReap = r.lastReap
        /\ Advanced(r, pin) = a
    <3>1. r.id - r.id = 0
      BY <1>1
    <3>2. Advanced(r, pin) = [r EXCEPT !.id = r.id, !.list = k]
      BY <1>3, <2>1, <2>2, <3>1 DEF Advanced, k, u, diff
    <3> QED BY <3>2 DEF Recs
  <2> HIDE DEF a
  <2>5. k \in [1 .. h -> Nat]
    BY <2>3, ListFun
  <2>6. Tells(k, h, r.id, r.time, r.lastReap, R \cup {e})
    <3> DEFINE T == r.time
               reap == r.lastReap
               top == r.id
               p == pin.id
    <3>1. /\ top \in Nat /\ p \in Nat /\ p <= top /\ top - p < h /\ T \in Nat /\ reap \in Nat
          /\ r.list[top - p + 1] = SeqUnseen
          /\ \A i \in 1 .. h : k[i] = IF i = top - p + 1 THEN now ELSE r.list[i]
          /\ UpTo(R, T, top) /\ Tells(r.list, h, top, T, reap, R)
          /\ e.time = T /\ e.id = p /\ e.at = now /\ reap <= now
      BY <1>1, <2>1, <2>3 DEF diff
    <3> HIDE DEF T, reap, top, p, h
    <3>2. Tells(k, h, top, T, reap, R \cup {e})
      BY <1>1, <2>5, <3>1, MarkedTells
    <3> QED BY <3>2 DEF T, reap, top
  <2>7. UpTo(R \cup {e}, r.time, r.id)
    BY <1>1, <2>1 DEF UpTo
  <2> QED BY <2>1, <2>3, <2>4, <2>6, <2>7 DEF Mirrors
<1> QED BY <1>2, <1>3

\* What AdvancedMirrors asks of a record, of what was accepted and of the id.
Fits(r, R, pin, e) ==
    /\ r \in Recs /\ SeqBacktrack > 0 /\ Len(r.list) <= SeqBacktrack
    /\ now \in Nat /\ now > SeqExpired /\ r.lastReap <= now
    /\ UpTo(R, r.time, r.id) /\ Tells(r.list, Len(r.list), r.id, r.time, r.lastReap, R)
    /\ pin \in Pins /\ pin.time = r.time
    /\ e \in Arrivals /\ Pin(e) = pin /\ e.at = now
    /\ \/ /\ pin.id > r.id
          /\ Least(SeqBacktrack, pin.id - r.id + Len(r.list)) = Least(SeqBacktrack, pin.id)
       \/ /\ pin.id <= r.id
          /\ Len(r.list) = Least(SeqBacktrack, r.id)
          /\ r.id - pin.id < Len(r.list)
          /\ r.list[r.id - pin.id + 1] = SeqUnseen

LEMMA FittingMirrors ==
    ASSUME NEW r, NEW R, NEW pin, NEW e, Fits(r, R, pin, e)
    PROVE  Mirrors(Advanced(r, pin), R \cup {e})
BY AdvancedMirrors DEF Fits

\* packet_id_add keeps the list exact, also when it starts over.
LEMMA AddedMirrors ==
    ASSUME NEW r, NEW R, Remembers(r, R), Mirrors(r, R), SeqBacktrack > 0,
           NEW pin \in Pins, Test(r, pin), now \in Nat, now > SeqExpired,
           NEW e \in Arrivals, Pin(e) = pin, e.at = now
    PROVE  Mirrors(Added(r, pin), R \cup {e})
<1>1. /\ r \in Recs /\ r.time \in Nat /\ r.id \in Nat /\ r.id <= PacketIdMax /\ r.lastReap <= now
      /\ Len(r.list) <= SeqBacktrack /\ Len(r.list) \in Nat /\ r.list \in Seq(Nat)
      /\ Len(r.list) = Least(SeqBacktrack, r.id)
      /\ UpTo(R, r.time, r.id) /\ Tells(r.list, Len(r.list), r.id, r.time, r.lastReap, R)
      /\ pin.time \in Nat /\ pin.id \in Nat /\ pin.id > 0 /\ pin.id <= PacketIdMax
  BY DEF Remembers, Mirrors, Recs, Pins, Ids
<1>2. pin.time = r.time \/ pin.time > r.time
  BY <1>1 DEF Test, TestUdp
<1>3. CASE StartsOver(r, pin)
  <2> DEFINE q == Restarted(r, pin)
  <2>1. /\ q \in Recs /\ q.time = pin.time /\ q.list = <<>> /\ Len(q.list) = 0
        /\ q.id = IF pin.id > SeqBacktrack THEN pin.id - SeqBacktrack ELSE 0
        /\ q.lastReap = r.lastReap
    <3>1. <<>> \in Seq(Nat) /\ Len(<<>>) = 0
      OBVIOUS
    <3>2. (IF pin.id > SeqBacktrack THEN pin.id - SeqBacktrack ELSE 0) \in 0 .. PacketIdMax
      BY <1>1
    <3> QED BY <3>1, <3>2, <1>1 DEF Recs, Restarted
  <2>2. Added(r, pin) = Advanced(q, pin)
    BY <1>3 DEF Added
  <2> HIDE DEF q
  <2>3. pin.id > q.id /\ q.id \in Nat
    BY <1>1, <2>1
  <2>4. Least(SeqBacktrack, pin.id - q.id + Len(q.list)) = Least(SeqBacktrack, pin.id)
    BY <1>1, <2>1 DEF Least
  <2>5. UpTo(R, q.time, q.id)
    <3>1. CASE r.list = <<>>
      BY <3>1 DEF Remembers, UpTo
    <3>2. CASE pin.time > r.time
      <4>1. \A d \in R : d.time \in Nat /\ d.time <= r.time
        BY <1>1 DEF Remembers, Known, Arrivals
      <4>2. \A d \in R : d.time # q.time
        BY <1>1, <2>1, <3>2, <4>1
      <4> QED BY <1>1, <4>2 DEF UpTo
    <3>3. CASE /\ pin.time = r.time
               /\ pin.id >= SeqBacktrack /\ pin.id - SeqBacktrack > r.id
      <4>1. q.id > r.id /\ q.time = r.time
        BY <1>1, <2>1, <3>3
      <4> QED BY <1>1, <2>3, <4>1 DEF UpTo
    <3> QED BY <1>2, <1>3, <3>1, <3>2, <3>3 DEF StartsOver
  <2>6. Tells(q.list, Len(q.list), q.id, q.time, q.lastReap, R)
    <3>1. ASSUME NEW d \in R, d.time = q.time PROVE ~(q.id - d.id < 0)
      BY <3>1, <2>3, <2>5 DEF UpTo
    <3> QED BY <2>1, <3>1 DEF Tells
  <2>7. Len(q.list) <= SeqBacktrack /\ q.lastReap <= now
    BY <1>1, <2>1
  <2>8. Fits(q, R, pin, e)
    BY <2>1, <2>3, <2>4, <2>5, <2>6, <2>7 DEF Fits
  <2> QED BY <2>2, <2>8, FittingMirrors
<1>4. CASE ~StartsOver(r, pin)
  <2>1. pin.time = r.time /\ Added(r, pin) = Advanced(r, pin)
    BY <1>2, <1>4 DEF StartsOver, Added
  <2>2. CASE pin.id > r.id
    <3>1. Least(SeqBacktrack, pin.id - r.id + Len(r.list)) = Least(SeqBacktrack, pin.id)
      BY <1>1, <2>2 DEF Least
    <3>2. Fits(r, R, pin, e)
      BY <1>1, <2>1, <2>2, <3>1 DEF Fits
    <3> QED BY <2>1, <3>2, FittingMirrors
  <2>3. CASE ~(pin.id > r.id)
    <3>1. /\ pin.id <= r.id /\ r.id - pin.id < Len(r.list)
          /\ r.list[r.id - pin.id + 1] = SeqUnseen
      BY <1>1, <2>1, <2>3 DEF Test, TestUdp
    <3>2. Fits(r, R, pin, e)
      BY <1>1, <2>1, <3>1 DEF Fits
    <3> QED BY <2>1, <3>2, FittingMirrors
  <2> QED BY <2>2, <2>3
<1> QED BY <1>3, <1>4

LEMMA LookedMirrors ==
    ASSUME IInv, Mirrors(rec, received)
    PROVE  Mirrors(Looked, received)
BY ReapedMirrors DEF IInv, TypeOK, Looked, Recs

LEMMA NextMirrors ==
    ASSUME IInv, SeqBacktrack > 0, Mirrors(rec, received), [Next]_vars
    PROVE  Mirrors(rec, received)'
<1>1. CASE Write
  BY <1>1 DEF Write, Mirrors, UpTo
<1>2. ASSUME NEW pin \in sent, Accept(pin) PROVE Mirrors(rec, received)'
  <2> DEFINE e == [time |-> pin.time, id |-> pin.id, at |-> now]
  <2>1. pin \in Pins /\ now \in Nat /\ now > SeqExpired
    BY DEF IInv, TypeOK
  <2>2. e \in Arrivals /\ Pin(e) = pin /\ e.at = now
    BY <2>1 DEF Pins, Arrivals, Pin
  <2>3. /\ received' = received \cup {e} /\ rec' = Added(Looked, pin) /\ Test(Looked, pin)
        /\ now' = now
    BY <1>2 DEF Accept
  <2> HIDE DEF e
  <2>4. Mirrors(rec', received')
    BY <2>1, <2>2, <2>3, LookedRemembers, LookedMirrors, AddedMirrors
  <2> QED BY <2>3, <2>4 DEF Mirrors, UpTo
<1>3. ASSUME NEW pin \in sent, Refuse(pin) PROVE Mirrors(rec, received)'
  <2>1. now' = now /\ received' = received /\ rec' = Looked
    BY <1>3 DEF Refuse
  <2>2. Mirrors(rec', received')
    BY <2>1, LookedMirrors
  <2> QED BY <2>1, <2>2 DEF Mirrors, UpTo
<1>4. CASE Clock
  <2>1. /\ received' = received /\ rec' = rec
        /\ now' = now \/ now' = now + 1
    BY <1>4 DEF Clock, Tick
  <2>2. now \in Nat /\ rec.lastReap \in Nat
    BY DEF IInv, TypeOK
  <2> QED BY <2>1, <2>2 DEF Mirrors, UpTo
<1>5. CASE UNCHANGED vars
  BY <1>5 DEF vars, Mirrors, UpTo
<1> QED BY <1>1, <1>2, <1>3, <1>4, <1>5 DEF Next, Receive

\* The invariant, where there is a list.
Exact == SeqBacktrack > 0 => Mirrors(rec, received)

LEMMA InitMirrors == Init => Exact
<1> SUFFICES ASSUME Init, SeqBacktrack > 0 PROVE Mirrors(rec, received)
  BY DEF Exact
<1>1. Len(<<>>) = 0
  OBVIOUS
<1> QED BY <1>1 DEF Init, Mirrors, Least, UpTo, Tells

LEMMA MirrorsInvariant == Spec => []Exact
<1>1. IInv /\ Exact /\ [Next]_vars => Exact'
  BY NextMirrors DEF Exact
<1> QED BY <1>1, InitMirrors, Invariant, PTL DEF Spec

\* packet_id_test on the list, and what the packets themselves say.
LEMMA TestExact ==
    ASSUME IInv, Mirrors(rec, received), SeqBacktrack > 0, NEW pin \in sent
    PROVE  Test(Looked, pin) <=> WindowAccepts(pin)
<1> DEFINE l == Looked.list
           h == Len(l)
<1>1. /\ pin.time \in Nat /\ pin.id \in Nat /\ pin.id > 0 /\ now \in Nat
      /\ rec.time \in Nat /\ rec.id \in Nat
  BY DEF IInv, TypeOK, Pins, Ids
<1>2. /\ Looked.time = rec.time /\ Looked.id = rec.id /\ Looked.lastReap = ReapTime
  BY DEF Looked, Reaped, ReapTime, IInv, TypeOK
<1>3. Looked \in Recs
  BY LookedRemembers DEF Remembers
<1>4. h \in Nat
  BY <1>3 DEF Recs
<1>5. /\ h = Least(SeqBacktrack, rec.id)
      /\ UpTo(received, rec.time, rec.id)
      /\ Tells(l, h, rec.id, rec.time, ReapTime, received)
  BY <1>2, LookedMirrors DEF Mirrors
<1>6. Test(Looked, pin) <=>
        IF pin.time = rec.time
        THEN pin.id > rec.id \/
             (pin.id <= rec.id /\ rec.id - pin.id < h /\ l[rec.id - pin.id + 1] = SeqUnseen)
        ELSE pin.time > rec.time
  BY <1>2 DEF Test, TestUdp
<1>7. ReapTime \in Nat
  BY <1>2, <1>3 DEF Recs
<1> HIDE DEF l, h
<1>8. CASE pin.time # rec.time
  BY <1>1, <1>6, <1>8 DEF WindowAccepts
<1>9. CASE pin.time = rec.time /\ pin.id > rec.id
  <2>1. ASSUME NEW d \in received, d.time = pin.time
        PROVE  d.id # pin.id /\ ~(d.id > pin.id)
    BY <1>1, <1>5, <1>9, <2>1 DEF UpTo
  <2>2. pin.id + SeqBacktrack > rec.id
    BY <1>1, <1>9
  <2>3. WindowAccepts(pin)
    BY <1>9, <2>1, <2>2 DEF WindowAccepts
  <2> QED BY <1>6, <1>9, <2>3
<1>10. CASE pin.time = rec.time /\ pin.id <= rec.id /\ rec.id - pin.id < h
  <2> DEFINE i == rec.id - pin.id + 1
  <2>1. i \in 1 .. h /\ rec.id - i + 1 = pin.id
    BY <1>1, <1>4, <1>10
  <2>2. pin.id + SeqBacktrack > rec.id
    BY <1>1, <1>4, <1>5, <1>10 DEF Least
  <2>3. l[i] = SeqUnseen <=> ~Blocked(rec.time, ReapTime, received, pin.id)
    <3> HIDE DEF i
    <3>1. l[i] # SeqUnseen <=> Blocked(rec.time, ReapTime, received, rec.id - i + 1)
      BY <1>5, <2>1 DEF Tells
    <3> QED BY <2>1, <3>1
  <2>4. Blocked(rec.time, ReapTime, received, pin.id) <=>
          ~\A d \in received : d.time = pin.time =>
             /\ d.id # pin.id
             /\ d.id > pin.id /\ TimeBacktrack > 0 => d.at + TimeBacktrack >= ReapTime
    <3>1. \A d \in received : d.at \in Nat
      BY <1>5 DEF UpTo
    <3>2. \A d \in received :
            d.at + TimeBacktrack < ReapTime <=> ~(d.at + TimeBacktrack >= ReapTime)
      BY <3>1, <1>7
    <3> QED BY <1>10, <3>2 DEF Blocked
  <2>5. WindowAccepts(pin) <=> ~Blocked(rec.time, ReapTime, received, pin.id)
    BY <1>1, <1>10, <2>2, <2>4 DEF WindowAccepts
  <2>6. ~(pin.id > rec.id)
    BY <1>1, <1>10
  <2> QED BY <1>6, <1>10, <2>3, <2>5, <2>6
<1>11. CASE pin.time = rec.time /\ pin.id <= rec.id /\ ~(rec.id - pin.id < h)
  <2>1. ~(pin.id + SeqBacktrack > rec.id) /\ ~(pin.id > rec.id) /\ ~(pin.time > rec.time)
    BY <1>1, <1>4, <1>5, <1>11 DEF Least
  <2> QED BY <1>6, <1>11, <2>1 DEF WindowAccepts
<1> QED BY <1>1, <1>8, <1>9, <1>10, <1>11

\* For every window, back-track time and reap interval, the circular list of
\* packet_id_add and packet_id_reap decides in packet_id_test exactly as the packets
\* received so far and the last pass of the reaper say.
THEOREM ListIsExact == Spec => AcceptsExactly
<1> DEFINE Step == SeqBacktrack > 0 => \A pin \in sent :
                      /\ Accept(pin) => WindowAccepts(pin)
                      /\ Refuse(pin) => ~WindowAccepts(pin)
<1>1. IInv /\ Exact => Step
  BY TestExact DEF Exact, Accept, Refuse
<1>2. AcceptsExactly <=> [][Step]_vars
  BY PTL DEF AcceptsExactly
<1> HIDE DEF Step
<1> QED BY <1>1, <1>2, Invariant, MirrorsInvariant, PTL DEF Spec

\* A packet overtaken by one that came longer ago than the back-track time and a reap
\* interval is refused, however the clocks and the network run (packet_id_reap_test).
THEOREM LateIsRefused == Spec => LateRefused
<1> DEFINE Step == TimeBacktrack > 0 => \A pin \in sent : Accept(pin) =>
                      \A d \in received : d.time = pin.time /\ d.id > pin.id =>
                        now < d.at + TimeBacktrack + ReapInterval
<1>1. IInv /\ Exact => Step
  <2> SUFFICES ASSUME IInv, Exact, TimeBacktrack > 0, NEW pin \in sent, Accept(pin),
                      NEW d \in received, d.time = pin.time, d.id > pin.id
               PROVE  now < d.at + TimeBacktrack + ReapInterval
    OBVIOUS
  <2>1. SeqBacktrack > 0 /\ Mirrors(rec, received)
    BY DEF Exact
  <2>2. WindowAccepts(pin)
    BY <2>1, TestExact DEF Accept
  <2>3. /\ d.at \in Nat /\ now \in Nat /\ rec.lastReap \in Nat /\ rec.time \in Nat
        /\ d.time \in Nat /\ d.time <= rec.time
    BY DEF IInv, TypeOK, Remembers, Known
  <2>4. d.at + TimeBacktrack >= ReapTime
    BY <2>2, <2>3 DEF WindowAccepts
  <2> QED BY <2>3, <2>4 DEF ReapTime
<1>2. LateRefused <=> [][Step]_vars
  BY PTL DEF LateRefused
<1> HIDE DEF Step
<1> QED BY <1>1, <1>2, Invariant, MirrorsInvariant, PTL DEF Spec
=============================================================================
