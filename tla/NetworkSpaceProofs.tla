-------------------------- MODULE NetworkSpaceProofs --------------------------
(***************************************************************************)
(* generateIPList and openTun for addresses of any width and any number of *)
(* routes.  The induction over masks that the sizes of networks need is by *)
(* the least counterexample.  Two networks are nested or apart; from that  *)
(* it follows what splitting and dropping one does to what the networks    *)
(* held say of an address.  The loop invariant says, besides, where each   *)
(* network comes from: that is what rules out that one is dropped which    *)
(* an opposed one in between was to hide, unless the routes are layered or *)
(* paired.                                                                 *)
(***************************************************************************)
EXTENDS NetworkSpace, WellFoundedInduction, NaturalsInduction, TLAPS

-----------------------------------------------------------------------------
(* Sets of natural numbers, in place of induction.                         *)

NatLess == {ss \in Nat \X Nat : ss[1] < ss[2]}

\* The order of the natural numbers, as NaturalsInduction states it.
LEMMA NatLessWellFounded == IsWellFoundedOn(NatLess, Nat)
BY NatLessThanWellFounded DEF OpToRel, NatLess

\* A set of natural numbers has a least member.
LEMMA LeastMember ==
    ASSUME NEW S, S \subseteq Nat, S # {}
    PROVE  \E n \in S : \A m \in S : n <= m
<1>1. IsWellFoundedOn(NatLess, Nat)
  BY NatLessWellFounded
<1>2. PICK x \in S : \A y \in S : ~(<<y, x>> \in NatLess)
  BY <1>1, WFMin
<1>3. ASSUME NEW m \in S PROVE x <= m
  <2>1. x \in Nat /\ m \in Nat
    OBVIOUS
  <2>2. <<m, x>> \in Nat \X Nat /\ ~(<<m, x>> \in NatLess)
    BY <2>1, <1>2
  <2>3. ~(m < x)
    BY <2>2 DEF NatLess
  <2> QED BY <2>1, <2>3
<1> QED BY <1>3

\* A bounded one has a greatest.
LEMMA GreatestMember ==
    ASSUME NEW S, S \subseteq Nat, S # {}, NEW b \in Nat, \A m \in S : m <= b
    PROVE  \E n \in S : \A m \in S : m <= n
<1> DEFINE T == {k \in Nat : \E m \in S : k = b - m}
<1>1. T \subseteq Nat /\ T # {}
  <2>1. PICK m \in S : m \in Nat /\ m <= b
    OBVIOUS
  <2>2. b - m \in T
    BY <2>1
  <2> QED BY <2>2
<1>2. PICK k \in T : \A l \in T : k <= l
  BY <1>1, LeastMember
<1>3. PICK n \in S : k = b - n
  OBVIOUS
<1>4. ASSUME NEW m \in S PROVE m <= n
  <2>1. b - m \in T /\ m \in Nat /\ m <= b
    OBVIOUS
  <2>2. n \in Nat /\ n <= b /\ k = b - n
    BY <1>3
  <2> HIDE DEF T
  <2>3. k <= b - m
    BY <2>1, <1>2
  <2> QED BY <2>1, <2>2, <2>3
<1> QED BY <1>4

-----------------------------------------------------------------------------
(* The parameters.                                                         *)

IsNet(n) == n \in [first : Nat, mask : Nat, included : BOOLEAN]

\* Without NoNet, which the provers better not see in every step.
LEMMA Parameters == Width \in Nat /\ Width >= 3 /\ MaxRoutes \in Nat
BY NetworkSpaceAssumption

\* null is no network.
LEMMA NoNetIsNone == ~IsNet(NoNet)
BY NetworkSpaceAssumption DEF IsNet

USE Parameters

-----------------------------------------------------------------------------
(* Powers of two.                                                          *)


\* A function that doubles from 1 on, up to k.
Doubles(f, k) ==
    /\ f \in [0 .. k -> Nat]
    /\ f[0] = 1
    /\ \A i \in 1 .. k : f[i] = 2 * f[i - 1]

\* There is one up to every k.
LEMMA DoublesExists ==
    ASSUME NEW k \in Nat PROVE \E f : Doubles(f, k)
<1> DEFINE S == {j \in Nat : ~\E f : Doubles(f, j)}
<1>1. SUFFICES ASSUME S # {} PROVE FALSE
  OBVIOUS
<1>2. PICK n \in S : \A m \in S : n <= m
  BY <1>1, LeastMember
<1>3. CASE n = 0
  <2>1. Doubles([i \in 0 .. 0 |-> 1], 0)
    BY DEF Doubles
  <2> QED BY <1>3, <2>1
<1>4. CASE n # 0
  <2>1. n - 1 \in Nat /\ ~(n - 1 \in S)
    BY <1>2, <1>4
  <2>2. PICK f : Doubles(f, n - 1)
    BY <2>1
  <2> DEFINE g == [i \in 0 .. n |-> IF i = n THEN 2 * f[n - 1] ELSE f[i]]
  <2>3. \A i \in 0 .. n - 1 : f[i] \in Nat
    BY <2>2 DEF Doubles
  <2>4. g \in [0 .. n -> Nat] /\ g[0] = 1
    BY <2>1, <2>2, <2>3, <1>4 DEF Doubles
  <2>5. ASSUME NEW i \in 1 .. n PROVE g[i] = 2 * g[i - 1]
    <3>1. CASE i = n
      BY <3>1, <2>1
    <3>2. CASE i # n
      <4>1. i \in 1 .. n - 1 /\ i - 1 \in 0 .. n - 1
        BY <3>2, <2>1
      <4> QED BY <4>1, <2>1, <2>2, <3>2 DEF Doubles
    <3> QED BY <3>1, <3>2
  <2>6. Doubles(g, n)
    BY <2>4, <2>5 DEF Doubles
  <2> QED BY <2>6
<1> QED BY <1>3, <1>4

\* The recursive definition of PowerOfTwo has a solution, and only this one.
LEMMA PowersOfTwo ==
    /\ PowerOfTwo \in [0 .. Width -> Nat]
    /\ PowerOfTwo[0] = 1
    /\ \A i \in 1 .. Width : PowerOfTwo[i] = 2 * PowerOfTwo[i - 1]
    /\ \A i \in 0 .. Width : PowerOfTwo[i] > 0
<1> DEFINE Eq(f) == f = [b \in 0 .. Width |-> IF b = 0 THEN 1 ELSE 2 * f[b - 1]]
<1>1. PICK f : Doubles(f, Width)
  BY DoublesExists
<1>2. Eq(f)
  <2>1. ASSUME NEW b \in 0 .. Width PROVE f[b] = IF b = 0 THEN 1 ELSE 2 * f[b - 1]
    BY <1>1 DEF Doubles
  <2> QED BY <2>1, <1>1 DEF Doubles
<1>3. Eq(PowerOfTwo)
  <2>1. PowerOfTwo = CHOOSE g : Eq(g)
    BY DEF PowerOfTwo
  <2> HIDE DEF Eq
  <2> QED BY <2>1, <1>2
<1>4. \A b \in 0 .. Width : PowerOfTwo[b] = IF b = 0 THEN 1 ELSE 2 * PowerOfTwo[b - 1]
  BY <1>3
<1>5. DOMAIN PowerOfTwo = 0 .. Width /\ PowerOfTwo = [b \in 0 .. Width |-> PowerOfTwo[b]]
  BY <1>3
<1> HIDE DEF Eq
<1>6. \A b \in 0 .. Width : PowerOfTwo[b] \in Nat /\ PowerOfTwo[b] > 0
  <2> DEFINE S == {b \in 0 .. Width : ~(PowerOfTwo[b] \in Nat /\ PowerOfTwo[b] > 0)}
  <2>1. SUFFICES ASSUME S # {} PROVE FALSE
    OBVIOUS
  <2>2. PICK n \in S : \A m \in S : n <= m
    <3>1. S \subseteq Nat
      OBVIOUS
    <3> HIDE DEF S
    <3> QED BY <2>1, <3>1, LeastMember
  <2>3. CASE n = 0
    BY <2>3, <1>4
  <2>4. CASE n # 0
    <3>1. n - 1 \in 0 .. Width /\ ~(n - 1 \in S)
      BY <2>2, <2>4
    <3>2. PowerOfTwo[n - 1] \in Nat /\ PowerOfTwo[n - 1] > 0
      BY <3>1
    <3>3. PowerOfTwo[n] = 2 * PowerOfTwo[n - 1]
      BY <1>4, <2>4
    <3> QED BY <3>2, <3>3
  <2> QED BY <2>3, <2>4
<1>7. PowerOfTwo \in [0 .. Width -> Nat]
  BY <1>5, <1>6
<1>8. PowerOfTwo[0] = 1 /\ \A i \in 1 .. Width : PowerOfTwo[i] = 2 * PowerOfTwo[i - 1]
  BY <1>4
<1> QED BY <1>6, <1>7, <1>8

\* Each bit of the mask halves a network; the longest leaves one address.
LEMMA Sizes ==
    /\ \A m \in 0 .. Width : Size(m) \in Nat /\ Size(m) > 0
    /\ Size(Width) = 1
    /\ \A m \in 0 .. Width - 1 : Size(m) = 2 * Size(m + 1)
<1>1. ASSUME NEW m \in 0 .. Width PROVE Size(m) \in Nat /\ Size(m) > 0
  <2>1. Width - m \in 0 .. Width
    OBVIOUS
  <2> QED BY <2>1, PowersOfTwo DEF Size
<1>2. Size(Width) = 1
  BY PowersOfTwo DEF Size
<1>3. ASSUME NEW m \in 0 .. Width - 1 PROVE Size(m) = 2 * Size(m + 1)
  <2>1. Width - m \in 1 .. Width /\ (Width - m) - 1 = Width - (m + 1)
    OBVIOUS
  <2> QED BY <2>1, PowersOfTwo DEF Size
<1> QED BY <1>1, <1>2, <1>3

\* The size of a network is a multiple of that of any smaller one.
LEMMA SizeDivides ==
    ASSUME NEW m \in 0 .. Width, NEW o \in 0 .. Width, m <= o
    PROVE  \E q \in Nat : q > 0 /\ Size(m) = q * Size(o)
<1> DEFINE S == {d \in 0 .. o : ~\E q \in Nat : q > 0 /\ Size(o - d) = q * Size(o)}
<1>1. SUFFICES ASSUME S # {} PROVE FALSE
  <2>1. o - m \in 0 .. o /\ o - (o - m) = m
    OBVIOUS
  <2> QED BY <2>1
<1>2. PICK n \in S : \A k \in S : n <= k
  <2>1. S \subseteq Nat
    OBVIOUS
  <2> HIDE DEF S
  <2> QED BY <1>1, <2>1, LeastMember
<1>3. Size(o) \in Nat /\ Size(o) > 0
  BY Sizes
<1>4. CASE n = 0
  BY <1>3, <1>4
<1>5. CASE n # 0
  <2>1. n - 1 \in 0 .. o /\ ~(n - 1 \in S)
    BY <1>2, <1>5
  <2>2. PICK q \in Nat : q > 0 /\ Size(o - (n - 1)) = q * Size(o)
    BY <2>1
  <2>3. o - n \in 0 .. Width - 1 /\ (o - n) + 1 = o - (n - 1)
    BY <1>5
  <2>4. Size(o - n) = 2 * Size((o - n) + 1)
    BY <2>3, Sizes
  <2>5. Size(o - n) = (2 * q) * Size(o) /\ 2 * q \in Nat /\ 2 * q > 0
    BY <2>2, <2>3, <2>4, <1>3
  <2> QED BY <2>5
<1> QED BY <1>4, <1>5

-----------------------------------------------------------------------------
(* Networks are aligned, so two of them are nested or apart.               *)

\* A network has its three fields.
LEMMA Fields ==
    ASSUME NEW n, IsNet(n)
    PROVE  /\ n.first \in Nat /\ n.mask \in Nat /\ n.included \in BOOLEAN
           /\ n = [first |-> n.first, mask |-> n.mask, included |-> n.included]
           /\ n # NoNet
<1>1. /\ n.first \in Nat /\ n.mask \in Nat /\ n.included \in BOOLEAN
      /\ n = [first |-> n.first, mask |-> n.mask, included |-> n.included]
  BY DEF IsNet
<1>2. n # NoNet
  BY NoNetIsNone
<1> QED BY <1>1, <1>2

\* Three fields make a network.
LEMMA IsNetOf ==
    ASSUME NEW f \in Nat, NEW m \in Nat, NEW i \in BOOLEAN
    PROVE  /\ IsNet([first |-> f, mask |-> m, included |-> i])
           /\ [first |-> f, mask |-> m, included |-> i].first = f
           /\ [first |-> f, mask |-> m, included |-> i].mask = m
           /\ [first |-> f, mask |-> m, included |-> i].included = i
BY DEF IsNet

\* What split() makes of any network.
LEMMA Halving ==
    ASSUME NEW n, IsNet(n)
    PROVE  /\ Lower(n) = [first |-> n.first, mask |-> n.mask + 1, included |-> n.included]
           /\ Upper(n) = [first |-> LastAddress(Lower(n)) + 1, mask |-> n.mask + 1, included |-> n.included]
<1>1. n = [first |-> n.first, mask |-> n.mask, included |-> n.included]
  BY Fields
<1> DEFINE f == n.first  m == n.mask  i == n.included
<1> HIDE DEF f, m, i
<1>2. n = [first |-> f, mask |-> m, included |-> i]
  BY <1>1 DEF f, m, i
<1>3. Lower(n) = [first |-> f, mask |-> m + 1, included |-> i]
  BY <1>2 DEF Lower
<1>4. ASSUME NEW l
      PROVE  [Lower(n) EXCEPT !.first = l] = [first |-> l, mask |-> m + 1, included |-> i]
  BY <1>3
<1>5. Upper(n) = [first |-> LastAddress(Lower(n)) + 1, mask |-> m + 1, included |-> i]
  BY <1>4 DEF Upper
<1> QED BY <1>3, <1>5 DEF f, m, i

\* The networks are what is aligned and no longer than an address.
LEMMA NetworkIs ==
    ASSUME NEW n
    PROVE  n \in Networks <=>
             /\ IsNet(n) /\ n.mask <= Width
             /\ \E k \in 0 .. PowerOfTwo[n.mask] - 1 : n.first = k * Size(n.mask)
<1>1. ASSUME n \in Networks
      PROVE  /\ IsNet(n) /\ n.mask <= Width
             /\ \E k \in 0 .. PowerOfTwo[n.mask] - 1 : n.first = k * Size(n.mask)
  <2>1. PICK m \in 0 .. Width :
          n \in [first : {k * Size(m) : k \in 0 .. PowerOfTwo[m] - 1}, mask : {m}, included : BOOLEAN]
    BY <1>1 DEF Networks
  <2>2. n.mask = m /\ m \in Nat /\ m <= Width /\ n.included \in BOOLEAN
    BY <2>1
  <2>3. PICK k \in 0 .. PowerOfTwo[m] - 1 : n.first = k * Size(m)
    BY <2>1
  <2>4. PowerOfTwo[m] \in Nat /\ Size(m) \in Nat
    BY PowersOfTwo, Sizes
  <2>5. k \in Nat /\ k * Size(m) \in Nat
    BY <2>4
  <2>6. n = [first |-> n.first, mask |-> n.mask, included |-> n.included]
    BY <2>1
  <2>7. IsNet(n)
    BY <2>2, <2>3, <2>5, <2>6 DEF IsNet
  <2> QED BY <2>2, <2>3, <2>7
<1>2. ASSUME IsNet(n), n.mask <= Width,
             NEW k \in 0 .. PowerOfTwo[n.mask] - 1, n.first = k * Size(n.mask)
      PROVE  n \in Networks
  <2>1. n.mask \in 0 .. Width /\ n.included \in BOOLEAN
        /\ n = [first |-> n.first, mask |-> n.mask, included |-> n.included]
    BY <1>2 DEF IsNet
  <2>2. n \in [first : {i * Size(n.mask) : i \in 0 .. PowerOfTwo[n.mask] - 1}, mask : {n.mask}, included : BOOLEAN]
    BY <2>1, <1>2
  <2> QED BY <2>1, <2>2 DEF Networks
<1> QED BY <1>1, <1>2

\* What a network is, less its alignment.
LEMMA NetworkFacts ==
    ASSUME NEW n \in Networks
    PROVE  /\ IsNet(n) /\ n # NoNet /\ n.first \in Nat /\ n.mask \in Nat /\ n.mask <= Width
           /\ n.included \in BOOLEAN
           /\ LastAddress(n) = n.first + Size(n.mask) - 1
           /\ LastAddress(n) \in Nat /\ LastAddress(n) >= n.first
           /\ Size(n.mask) \in Nat /\ Size(n.mask) > 0
<1>1. IsNet(n) /\ n.mask <= Width
  BY NetworkIs
<1>2. n.first \in Nat /\ n.mask \in Nat /\ n.included \in BOOLEAN /\ n # NoNet
  BY <1>1, Fields
<1>3. Size(n.mask) \in Nat /\ Size(n.mask) > 0
  BY <1>1, <1>2, Sizes
<1>4. LastAddress(n) = n.first + Size(n.mask) - 1
  BY <1>1, <1>2 DEF LastAddress
<1> QED BY <1>1, <1>2, <1>3, <1>4

\* Multiples of s that differ are s apart.
LEMMA Multiples ==
    ASSUME NEW s \in Nat, s > 0, NEW i \in Nat, NEW j \in Nat, i * s < j * s
    PROVE  i * s + s <= j * s
<1>1. i < j
  <2>1. SUFFICES ASSUME j <= i PROVE FALSE
    OBVIOUS
  <2>2. PICK d \in Nat : i = j + d
    <3>1. i - j \in Nat /\ i = j + (i - j)
      BY <2>1
    <3> QED BY <3>1
  <2>3. i * s = j * s + d * s /\ d * s \in Nat /\ j * s \in Nat
    BY <2>2
  <2> QED BY <2>3
<1>2. PICK d \in Nat : j = i + 1 + d
  <2>1. j - i - 1 \in Nat /\ j = i + 1 + (j - i - 1)
    BY <1>1
  <2> QED BY <2>1
<1>3. j * s = i * s + s + d * s /\ d * s \in Nat /\ i * s \in Nat
  BY <1>2
<1> QED BY <1>3

\* A network lies within one that is no smaller, or before it, or behind it.
LEMMA Laminar ==
    ASSUME NEW n \in Networks, NEW o \in Networks, n.mask <= o.mask
    PROVE  Contains(n, o) \/ LastAddress(o) < n.first \/ LastAddress(n) < o.first
<1> DEFINE s == Size(o.mask)
<1>1. /\ n.mask \in 0 .. Width /\ o.mask \in 0 .. Width
      /\ n.first \in Nat /\ o.first \in Nat /\ s \in Nat /\ s > 0
      /\ LastAddress(n) = n.first + Size(n.mask) - 1 /\ LastAddress(o) = o.first + s - 1
  BY NetworkFacts
<1>2. PICK q \in Nat : q > 0 /\ Size(n.mask) = q * s
  BY <1>1, SizeDivides
<1>3. PICK k \in Nat : n.first = k * Size(n.mask)
  <2>1. PICK k \in 0 .. PowerOfTwo[n.mask] - 1 : n.first = k * Size(n.mask)
    BY NetworkIs
  <2> QED BY <2>1
<1>4. PICK l \in Nat : o.first = l * s
  <2>1. PICK l \in 0 .. PowerOfTwo[o.mask] - 1 : o.first = l * s
    BY NetworkIs
  <2> QED BY <2>1
<1> HIDE DEF s
<1>5. PICK i \in Nat : n.first = i * s
  <2>1. k * q \in Nat /\ n.first = (k * q) * s
    BY <1>1, <1>2, <1>3
  <2> QED BY <2>1
<1>6. PICK j \in Nat : n.first + Size(n.mask) = j * s
  <2>1. i + q \in Nat /\ n.first + Size(n.mask) = (i + q) * s
    BY <1>1, <1>2, <1>5
  <2> QED BY <2>1
<1>7. CASE o.first < n.first
  <2>1. o.first + s <= n.first
    BY <1>1, <1>4, <1>5, <1>7, Multiples
  <2> QED BY <1>1, <2>1
<1>8. CASE o.first >= n.first + Size(n.mask)
  BY <1>1, <1>2, <1>8
<1>9. CASE n.first <= o.first /\ o.first < n.first + Size(n.mask)
  <2>1. o.first + s <= n.first + Size(n.mask)
    BY <1>1, <1>4, <1>6, <1>9, Multiples
  <2>2. q * s \in Nat
    BY <1>1
  <2> QED BY <1>1, <1>2, <1>9, <2>1, <2>2 DEF Contains
<1>10. q * s \in Nat
  BY <1>1
<1> QED BY <1>1, <1>2, <1>7, <1>8, <1>9, <1>10

\* split() of a network that has more than one address.
LEMMA Halved ==
    ASSUME NEW n \in Networks, n.mask < Width
    PROVE  /\ Lower(n) \in Networks /\ Upper(n) \in Networks
           /\ Lower(n).first = n.first /\ Upper(n).first = n.first + Size(n.mask + 1)
           /\ Lower(n).mask = n.mask + 1 /\ Upper(n).mask = n.mask + 1
           /\ Lower(n).included = n.included /\ Upper(n).included = n.included
           /\ LastAddress(Lower(n)) = n.first + Size(n.mask + 1) - 1
           /\ LastAddress(Upper(n)) = LastAddress(n)
           /\ Size(n.mask + 1) \in Nat /\ Size(n.mask + 1) > 0
           /\ Size(n.mask) = 2 * Size(n.mask + 1)
<1> DEFINE s == Size(n.mask + 1)
<1>1. /\ IsNet(n) /\ n.first \in Nat /\ n.mask \in Nat /\ n.mask + 1 \in 0 .. Width
      /\ n.mask \in 0 .. Width - 1
      /\ LastAddress(n) = n.first + Size(n.mask) - 1
      /\ n.included \in BOOLEAN
  <2>1. n.mask \in Nat /\ n.mask <= Width
    BY NetworkFacts
  <2>2. n.mask + 1 \in 0 .. Width /\ n.mask \in 0 .. Width - 1
    BY <2>1
  <2> QED BY <2>2, NetworkFacts
<1>2. s \in Nat /\ s > 0 /\ Size(n.mask) = 2 * s
  BY <1>1, Sizes
<1>3. PICK k \in 0 .. PowerOfTwo[n.mask] - 1 : n.first = k * Size(n.mask)
  BY NetworkIs
<1>4. PowerOfTwo[n.mask + 1] = 2 * PowerOfTwo[n.mask] /\ PowerOfTwo[n.mask] \in Nat
  <2> DEFINE m == n.mask + 1
  <2>1. m \in 1 .. Width /\ m - 1 = n.mask /\ n.mask \in 0 .. Width
    BY <1>1
  <2> HIDE DEF m
  <2>2. PowerOfTwo[m] = 2 * PowerOfTwo[m - 1] /\ PowerOfTwo[n.mask] \in Nat
    BY <2>1, PowersOfTwo
  <2> QED BY <2>1, <2>2 DEF m
<1> HIDE DEF s
<1>5. /\ 2 * k \in 0 .. PowerOfTwo[n.mask + 1] - 1 /\ n.first = (2 * k) * s
      /\ 2 * k + 1 \in 0 .. PowerOfTwo[n.mask + 1] - 1 /\ n.first + s = (2 * k + 1) * s
  BY <1>2, <1>3, <1>4
<1>6. /\ IsNet(Lower(n)) /\ Lower(n).first = n.first /\ Lower(n).mask = n.mask + 1
      /\ Lower(n).included = n.included
  BY <1>1, Halving, IsNetOf
<1>7. Lower(n) \in Networks
  <2>1. \E j \in 0 .. PowerOfTwo[Lower(n).mask] - 1 : Lower(n).first = j * Size(Lower(n).mask)
    BY <1>5, <1>6 DEF s
  <2> QED BY <1>1, <1>6, <2>1, NetworkIs
<1>8. LastAddress(Lower(n)) = n.first + s - 1
  BY <1>6, <1>7, NetworkFacts DEF s
<1>9. /\ IsNet(Upper(n)) /\ Upper(n).first = n.first + s /\ Upper(n).mask = n.mask + 1
      /\ Upper(n).included = n.included
  <2>1. Upper(n) = [first |-> n.first + s - 1 + 1, mask |-> n.mask + 1, included |-> n.included]
    BY <1>1, <1>8, Halving
  <2>2. n.first + s - 1 + 1 = n.first + s /\ n.first + s \in Nat /\ n.mask + 1 \in Nat
        /\ n.included \in BOOLEAN
    BY <1>1, <1>2, Fields
  <2> QED BY <2>1, <2>2, IsNetOf
<1>10. Upper(n) \in Networks
  <2>1. \E j \in 0 .. PowerOfTwo[Upper(n).mask] - 1 : Upper(n).first = j * Size(Upper(n).mask)
    BY <1>5, <1>9 DEF s
  <2> QED BY <1>1, <1>9, <2>1, NetworkIs
<1>11. LastAddress(Upper(n)) = LastAddress(n)
  <2>1. LastAddress(Upper(n)) = Upper(n).first + s - 1
    BY <1>9, <1>10, NetworkFacts DEF s
  <2> QED BY <1>1, <1>2, <1>9, <2>1
<1> QED BY <1>2, <1>6, <1>7, <1>8, <1>9, <1>10, <1>11 DEF s

-----------------------------------------------------------------------------
(* No network ends behind the last address.                                *)

\* So many networks of one size fill the address space.
LEMMA AllSizes ==
    ASSUME NEW m \in 0 .. Width PROVE PowerOfTwo[m] * Size(m) = Size(0)
<1> DEFINE S == {k \in 0 .. Width : PowerOfTwo[k] * Size(k) # Size(0)}
<1>1. SUFFICES ASSUME S # {} PROVE FALSE
  OBVIOUS
<1>2. PICK n \in S : \A k \in S : n <= k
  <2>1. S \subseteq Nat
    OBVIOUS
  <2> HIDE DEF S
  <2> QED BY <1>1, <2>1, LeastMember
<1>3. CASE n = 0
  <2>1. PowerOfTwo[0] = 1 /\ Size(0) \in Nat
    BY PowersOfTwo, Sizes
  <2>2. PowerOfTwo[0] * Size(0) = Size(0)
    BY <2>1
  <2> QED BY <1>3, <2>2
<1>4. CASE n # 0
  <2>1. n - 1 \in 0 .. Width - 1 /\ ~(n - 1 \in S) /\ n \in 1 .. Width /\ (n - 1) + 1 = n
    BY <1>2, <1>4
  <2>2. PowerOfTwo[n - 1] * Size(n - 1) = Size(0)
    BY <2>1
  <2>3. Size(n - 1) = 2 * Size(n) /\ PowerOfTwo[n] = 2 * PowerOfTwo[n - 1]
    BY <2>1, PowersOfTwo, Sizes
  <2>4. PowerOfTwo[n - 1] \in Nat /\ Size(n) \in Nat
    <3>1. n - 1 \in 0 .. Width
      BY <2>1
    <3> QED BY <2>1, <3>1, PowersOfTwo, Sizes
  <2>5. PowerOfTwo[n - 1] * (2 * Size(n)) = (2 * PowerOfTwo[n - 1]) * Size(n)
    BY <2>4
  <2>6. PowerOfTwo[n] * Size(n) = Size(0)
    BY <2>2, <2>3, <2>5
  <2> QED BY <2>6
<1> QED BY <1>3, <1>4

\* No network ends behind the last address.
LEMMA Bounded ==
    ASSUME NEW n \in Networks PROVE LastAddress(n) < Size(0) /\ Size(0) \in Nat
<1> DEFINE s == Size(n.mask)  p == PowerOfTwo[n.mask]
<1>1. n.mask \in 0 .. Width /\ LastAddress(n) = n.first + s - 1 /\ s \in Nat /\ s > 0
  BY NetworkFacts
<1>2. p \in Nat /\ p > 0 /\ p * s = Size(0)
  BY <1>1, PowersOfTwo, AllSizes
<1>3. PICK k \in 0 .. p - 1 : n.first = k * s
  BY NetworkIs
<1> HIDE DEF s, p
<1>4. k * s < p * s
  <2>1. PICK d \in Nat : p = k + 1 + d
    <3>1. p - k - 1 \in Nat /\ p = k + 1 + (p - k - 1)
      BY <1>2
    <3> QED BY <3>1
  <2>2. p * s = k * s + s + d * s /\ d * s \in Nat /\ k * s \in Nat
    BY <1>1, <2>1
  <2> QED BY <1>1, <2>2
<1>5. k * s + s <= p * s
  BY <1>1, <1>2, <1>4, Multiples
<1>6. k * s \in Nat /\ p * s \in Nat
  BY <1>1, <1>2
<1> QED BY <1>1, <1>2, <1>3, <1>5, <1>6

\* The route of a resolver is the network of one address.
LEMMA HostIsNetwork ==
    ASSUME NEW a \in Addresses
    PROVE  /\ Host(a) \in Networks /\ Host(a).first = a /\ Host(a).mask = Width
           /\ Host(a).included = TRUE /\ LastAddress(Host(a)) = a
<1> DEFINE h == Host(a)
<1>1. Size(0) \in Nat /\ a \in Nat /\ a <= Size(0) - 1
  BY Sizes DEF Addresses
<1>2. IsNet(h) /\ h.first = a /\ h.mask = Width /\ h.included = TRUE
  BY <1>1, IsNetOf DEF Host
<1>3. Size(0) = PowerOfTwo[Width] /\ Size(Width) = 1
  BY Sizes DEF Size
<1>4. a \in 0 .. PowerOfTwo[Width] - 1 /\ a = a * Size(Width)
  BY <1>1, <1>3
<1> HIDE DEF h
<1>5. h \in Networks
  BY <1>2, <1>4, NetworkIs
<1>6. LastAddress(h) = a
  BY <1>1, <1>2, <1>3, <1>5, NetworkFacts
<1> QED BY <1>2, <1>5, <1>6 DEF h

\* Networks and what a single address is split into.
LEMMA BlockIs ==
    ASSUME NEW n
    PROVE  n \in Blocks <=> n \in Networks \/ (IsNet(n) /\ n.mask = Width + 1 /\ n.first \in 0 .. Size(0))
<1>1. Size(0) \in Nat
  BY Sizes
<1>2. n \in [first : 0 .. Size(0), mask : {Width + 1}, included : BOOLEAN]
        <=> IsNet(n) /\ n.mask = Width + 1 /\ n.first \in 0 .. Size(0)
  BY <1>1 DEF IsNet
<1> QED BY <1>2 DEF Blocks

\* What either is.
LEMMA BlockFacts ==
    ASSUME NEW n \in Blocks
    PROVE  /\ IsNet(n) /\ n # NoNet /\ n.first \in Nat /\ n.mask \in Nat /\ n.included \in BOOLEAN
           /\ n.mask <= Width + 1
           /\ n.mask <= Width => n \in Networks
           /\ n.mask = Width + 1 => LastAddress(n) = n.first
           /\ LastAddress(n) \in Nat /\ LastAddress(n) >= n.first
<1>1. CASE n \in Networks
  BY <1>1, NetworkFacts
<1>2. CASE IsNet(n) /\ n.mask = Width + 1 /\ n.first \in 0 .. Size(0)
  <2>1. LastAddress(n) = n.first
    BY <1>2 DEF LastAddress
  <2> QED BY <1>2, <2>1, Fields
<1> QED BY <1>1, <1>2, BlockIs

-----------------------------------------------------------------------------
(* Bags.                                                                   *)

\* PriorityQueue(TreeSet): one of each.
LEMMA BagOfSet ==
    ASSUME NEW S PROVE IsABag(SetToBag(S)) /\ BagToSet(SetToBag(S)) = S
BY DEF IsABag, SetToBag, BagToSet

\* add() of the elements of a set.
LEMMA BagPut ==
    ASSUME NEW B, IsABag(B), NEW S
    PROVE  /\ IsABag(B (+) SetToBag(S))
           /\ BagToSet(B (+) SetToBag(S)) = BagToSet(B) \cup S
BY DEF IsABag, SetToBag, BagToSet, (+)

\* poll(): an element that is in the queue twice stays there once.
LEMMA BagTake ==
    ASSUME NEW B, IsABag(B), NEW n
    PROVE  /\ IsABag(B (-) SetToBag({n}))
           /\ BagToSet(B (-) SetToBag({n})) \subseteq BagToSet(B)
           /\ BagToSet(B) \ {n} \subseteq BagToSet(B (-) SetToBag({n}))
BY DEF IsABag, SetToBag, BagToSet, (-)

\* An empty queue.
LEMMA NoBag == IsABag(EmptyBag) /\ BagToSet(EmptyBag) = {}
BY BagOfSet DEF EmptyBag

\* The PriorityQueue, however often it holds a network.
Queue == BagToSet(networks)

\* equals() ignores the sign: networks of both signs are never held for one range.
Distinct(S) == \A x, y \in S : SameNet(x, y) => x = y

\* What a single address is split into.
Pseudo(n) == n.mask = Width + 1

\* Such a piece does not come twice, and nothing in the queue begins before the
\* current network: halves are only put back where nothing has been done yet.
Ahead(c, Q) ==
    /\ \A x, y \in Q \cup {c} : Pseudo(x) /\ Pseudo(y) /\ x.first = y.first => x = y
    /\ \A q \in Q : /\ q.first >= c.first
                    /\ q.first = c.first /\ Pseudo(q) => Pseudo(c)

\* The type invariant and what it needs.
TInv ==
    /\ TypeOK
    /\ Distinct(routes)
    /\ currentNet # NoNet => currentNet \in Blocks /\ Ahead(currentNet, Queue)

\* add() of a TreeSet keeps its elements distinct.
LEMMA AddDistinct ==
    ASSUME NEW S, NEW n, Distinct(S) PROVE Distinct(TreeAdd(S, n))
BY DEF Distinct, TreeAdd, Has, SameNet

\* Fewer networks are still ahead.
LEMMA AheadOfLess ==
    ASSUME NEW c, NEW Q, NEW P, P \subseteq Q, Ahead(c, Q) PROVE Ahead(c, P)
BY DEF Ahead

\* They are ahead of the one that is polled.
LEMMA AheadFromHead ==
    ASSUME NEW c, NEW Q, Q \subseteq Blocks, Ahead(c, Q), NEW P, P \subseteq Q, NEW n \in Heads(Q)
    PROVE  n \in Blocks /\ Ahead(n, P)
<1>1. n \in Q /\ n \in Blocks
  BY DEF Heads
<1>2. \A x, y \in P \cup {n} : Pseudo(x) /\ Pseudo(y) /\ x.first = y.first => x = y
  BY <1>1 DEF Ahead
<1>3. ASSUME NEW q \in P
      PROVE  /\ q.first >= n.first
             /\ q.first = n.first /\ Pseudo(q) => Pseudo(n)
  <2>1. ~Before(q, n) /\ q \in Blocks
    BY DEF Heads
  <2>2. q.first \in Nat /\ n.first \in Nat /\ q.mask \in Nat /\ n.mask \in Nat /\ n.mask <= Width + 1
    BY <1>1, <2>1, BlockFacts
  <2> QED BY <2>1, <2>2 DEF Before, Pseudo
<1> QED BY <1>1, <1>2, <1>3 DEF Ahead

\* The halves put back for a network with the base of the current one.
LEMMA AheadOfHalves ==
    ASSUME NEW c \in Blocks, NEW Q, Q \subseteq Blocks, Ahead(c, Q), NEW n \in Q,
           n.first = c.first, n.mask <= c.mask, Opposed(c, n),
           NEW P, P \subseteq Q, NEW H, H \subseteq {Upper(n), Lower(n)},
           \A h \in H : h = Lower(n) => LastAddress(h) # LastAddress(c),
           \A h \in H : ~Has(P, h)
    PROVE  P \cup H \subseteq Blocks /\ Ahead(c, P \cup H)
<1>1. /\ n.first \in Nat /\ c.first \in Nat /\ n.mask \in Nat /\ c.mask \in Nat
      /\ c.mask <= Width + 1 /\ n \in Blocks /\ IsNet(n) /\ n.included \in BOOLEAN
  BY BlockFacts
<1>2. n.mask <= Width
  BY <1>1 DEF Ahead, Pseudo, Opposed
<1>3. n \in Networks
  BY <1>1, <1>2, BlockFacts
<1>4. CASE n.mask < Width
  <2>1. /\ Lower(n) \in Networks /\ Upper(n) \in Networks
        /\ Lower(n).first = n.first /\ Upper(n).first = n.first + Size(n.mask + 1)
        /\ Lower(n).mask = n.mask + 1 /\ Upper(n).mask = n.mask + 1
        /\ Size(n.mask + 1) \in Nat
    BY <1>3, <1>4, Halved
  <2>2. H \subseteq Blocks
    BY <2>1 DEF Blocks
  <2>3. \A h \in H : ~Pseudo(h) /\ h.first >= c.first
    BY <1>1, <1>4, <2>1 DEF Pseudo
  <2>4. Ahead(c, P \cup H)
    BY <2>3 DEF Ahead
  <2> QED BY <2>2, <2>4
<1>5. CASE n.mask = Width
  <2>1. Size(n.mask) = 1 /\ LastAddress(n) = n.first
    BY <1>1, <1>3, <1>5, NetworkFacts, Sizes
  <2>2. Lower(n) = [first |-> n.first, mask |-> Width + 1, included |-> n.included]
    BY <1>1, <1>5, Halving
  <2>3. Lower(n).first = n.first /\ LastAddress(Lower(n)) = n.first
    BY <2>2 DEF LastAddress
  <2>4. LastAddress(c) = c.first
    <3>1. CASE c.mask = Width + 1
      BY <3>1, BlockFacts
    <3>2. CASE c.mask = Width
      <4>1. c \in Networks
        BY <3>2, BlockFacts
      <4> QED BY <1>1, <3>2, <4>1, NetworkFacts, Sizes
    <3> QED BY <1>1, <1>5, <3>1, <3>2
  <2>5. H \subseteq {Upper(n)}
    BY <2>3, <2>4
  <2> DEFINE u == Upper(n)
  <2>6. u = [first |-> n.first + 1, mask |-> Width + 1, included |-> n.included]
    BY <1>1, <1>5, <2>3, Halving
  <2>7. n.first + 1 \in 0 .. Size(0)
    BY <1>1, <1>3, <2>1, Bounded
  <2>8. IsNet(u) /\ u.first = n.first + 1 /\ u.mask = Width + 1
    BY <1>1, <2>6, IsNetOf
  <2>9. u \in Blocks
    BY <2>7, <2>8, BlockIs
  <2>10. ASSUME NEW h \in H, NEW x \in P \cup {c}, Pseudo(x), x.first = h.first PROVE FALSE
    <3>1. h = u
      BY <2>5
    <3>2. CASE x = c
      BY <1>1, <2>8, <2>10, <3>1, <3>2
    <3>3. CASE x \in P
      BY <2>8, <2>10, <3>1, <3>3 DEF Has, SameNet, Pseudo
    <3> QED BY <3>2, <3>3
  <2>11. \A h \in H : h = u /\ h.first > c.first
    BY <1>1, <2>5, <2>8
  <2>12. \A x, y \in P \cup H \cup {c} : Pseudo(x) /\ Pseudo(y) /\ x.first = y.first => x = y
    <3>1. TAKE x, y \in P \cup H \cup {c}
    <3>2. HAVE Pseudo(x) /\ Pseudo(y) /\ x.first = y.first
    <3>3. CASE x \in H
      BY <2>10, <2>11, <3>2, <3>3
    <3>4. CASE y \in H
      BY <2>10, <2>11, <3>2, <3>4
    <3>5. CASE x \in P \cup {c} /\ y \in P \cup {c}
      BY <3>2, <3>5 DEF Ahead
    <3> QED BY <3>3, <3>4, <3>5
  <2>13. \A q \in P \cup H : /\ q.first >= c.first
                             /\ q.first = c.first /\ Pseudo(q) => Pseudo(c)
    <3>1. TAKE q \in P \cup H
    <3>2. CASE q \in P
      BY <3>2 DEF Ahead
    <3>3. CASE q \in H
      BY <1>1, <2>8, <2>11, <3>3
    <3> QED BY <3>2, <3>3
  <2>14. Ahead(c, P \cup H)
    BY <2>12, <2>13 DEF Ahead
  <2> QED BY <2>5, <2>9, <2>14
<1> QED BY <1>1, <1>2, <1>4, <1>5

\* A current network that is split has more than one address.
LEMMA SplitIsWide ==
    ASSUME NEW c \in Blocks, NEW Q, Q \subseteq Blocks, Ahead(c, Q), NEW n \in Q,
           LastAddress(c) >= n.first, ~(c.first = n.first /\ c.mask >= n.mask)
    PROVE  c \in Networks /\ c.mask < Width
<1>1. /\ n.first \in Nat /\ c.first \in Nat /\ n.mask \in Nat /\ c.mask \in Nat
      /\ c.mask <= Width + 1 /\ n.mask <= Width + 1
  BY BlockFacts
<1>2. n.first >= c.first /\ (n.first = c.first /\ Pseudo(n) => Pseudo(c))
  BY DEF Ahead
<1>3. SUFFICES ASSUME c.mask >= Width PROVE FALSE
  BY <1>1, BlockFacts
<1>4. LastAddress(c) = c.first
  <2>1. CASE c.mask = Width + 1
    BY <2>1, BlockFacts
  <2>2. CASE c.mask = Width
    <3>1. c \in Networks
      BY <2>2, BlockFacts
    <3> QED BY <1>1, <2>2, <3>1, NetworkFacts, Sizes
  <2> QED BY <1>1, <1>3, <2>1, <2>2
<1> QED BY <1>1, <1>2, <1>3, <1>4 DEF Pseudo

\* The halves and the next network, where the current one is split.
LEMMA AheadOfKept ==
    ASSUME NEW c \in Networks, c.mask < Width, NEW Q, Q \subseteq Blocks, Ahead(c, Q), NEW n \in Q,
           NEW P, P \subseteq Q, NEW K, K \subseteq {n, Upper(c)}
    PROVE  P \cup K \subseteq Blocks /\ Lower(c) \in Blocks /\ Ahead(Lower(c), P \cup K)
<1>1. /\ Lower(c) \in Networks /\ Upper(c) \in Networks
      /\ Lower(c).first = c.first /\ Upper(c).first = c.first + Size(c.mask + 1)
      /\ Lower(c).mask = c.mask + 1 /\ Upper(c).mask = c.mask + 1
      /\ Size(c.mask + 1) \in Nat /\ Size(c.mask + 1) > 0
  BY Halved
<1>2. c.first \in Nat /\ c.mask \in Nat
  BY NetworkFacts
<1>3. ~Pseudo(c) /\ ~Pseudo(Lower(c)) /\ ~Pseudo(Upper(c)) /\ Upper(c).first > c.first
  BY <1>1, <1>2 DEF Pseudo
<1>4. P \cup K \subseteq Blocks /\ Lower(c) \in Blocks
  BY <1>1 DEF Blocks
<1>5. \A q \in P \cup K : q \in Q \/ q = Upper(c)
  OBVIOUS
<1>6. \A x, y \in P \cup K \cup {Lower(c)} : Pseudo(x) /\ Pseudo(y) /\ x.first = y.first => x = y
  BY <1>3, <1>5 DEF Ahead
<1>7. ASSUME NEW q \in P \cup K
      PROVE  /\ q.first >= Lower(c).first
             /\ q.first = Lower(c).first /\ Pseudo(q) => Pseudo(Lower(c))
  <2>1. CASE q \in Q
    BY <1>1, <1>3, <2>1 DEF Ahead
  <2>2. CASE q = Upper(c)
    BY <1>1, <1>2, <1>3, <2>2
  <2> QED BY <1>5, <2>1, <2>2
<1> QED BY <1>4, <1>6, <1>7 DEF Ahead

\* What poll() leaves in the queue.
LEMMA RestIs ==
    ASSUME TypeOK, NEW n
    PROVE  /\ IsABag(Rest(n)) /\ BagToSet(Rest(n)) \subseteq Queue
           /\ Queue \ {n} \subseteq BagToSet(Rest(n))
BY BagTake DEF TypeOK, Rest, Queue

\* What is done.
LEMMA DoneIsTyped ==
    ASSUME TInv, currentNet # NoNet PROVE TreeAdd(ipsDone, currentNet) \subseteq Blocks
BY DEF TInv, TypeOK, TreeAdd

\* The type invariant, action by action.
LEMMA InitTInv == Init => TInv
<1> SUFFICES ASSUME Init PROVE TInv
  OBVIOUS
<1>1. TypeOK
  BY NoBag DEF Init, TypeOK
<1>2. Distinct(routes) /\ currentNet = NoNet
  BY DEF Init, Distinct
<1> QED BY <1>1, <1>2 DEF TInv

\* addIP.
LEMMA AddIPTInv ==
    ASSUME TInv, NEW n \in Networks, AddIP(n) PROVE TInv'
<1>1. routes' \subseteq Networks /\ Distinct(routes')
  BY AddDistinct DEF TInv, TypeOK, AddIP, TreeAdd
<1> QED BY <1>1 DEF TInv, TypeOK, AddIP, Queue

\* The first poll of generateIPList.
LEMMA GenerateTInv ==
    ASSUME TInv, Generate PROVE TInv'
<1>1. CASE routes = {} /\ UNCHANGED <<currentNet, networks>>
  BY <1>1 DEF TInv, TypeOK, Generate, Queue
<1>2. ASSUME NEW n \in Heads(routes), currentNet' = n, networks' = SetToBag(routes \ {n})
      PROVE  TInv'
  <2>1. IsABag(networks') /\ Queue' = routes \ {n}
    BY <1>2, BagOfSet DEF Queue
  <2>2. routes \subseteq Networks /\ routes \subseteq Blocks /\ n \in routes
    BY DEF TInv, TypeOK, Blocks, Heads
  <2>3. \A r \in routes : r.first \in Nat /\ r.mask \in Nat /\ r.mask <= Width
    BY <2>2, NetworkFacts
  <2>4. \A r \in routes : ~Pseudo(r) /\ r.first >= n.first
    BY <2>2, <2>3 DEF Pseudo, Heads, Before
  <2>5. Ahead(n, routes \ {n})
    BY <2>2, <2>4 DEF Ahead
  <2> QED BY <1>2, <2>1, <2>2, <2>5 DEF TInv, TypeOK, Generate, Queue
<1> QED BY <1>1, <1>2 DEF Generate

\* The end of its loop.
LEMMA NoneLeftTInv ==
    ASSUME TInv, NoneLeft PROVE TInv'
<1>1. ipsDone' \subseteq Blocks
  BY DoneIsTyped DEF NoneLeft, Running
<1> QED BY <1>1 DEF TInv, TypeOK, NoneLeft, Queue

\* A network that does not overlap.
LEMMA ApartTInv ==
    ASSUME TInv, NEW n, Apart(n) PROVE TInv'
<1>1. ipsDone' \subseteq Blocks
  BY DoneIsTyped DEF Apart, Running
<1>2. IsABag(networks') /\ Queue' \subseteq Queue
  BY RestIs DEF Apart, TInv, Queue
<1>3. Queue \subseteq Blocks /\ Ahead(currentNet, Queue) /\ n \in Heads(Queue)
  BY DEF TInv, TypeOK, Apart, Running, Queue
<1>4. n \in Blocks /\ Ahead(n, Queue')
  BY <1>2, <1>3, AheadFromHead
<1> QED BY <1>1, <1>2, <1>3, <1>4 DEF TInv, TypeOK, Apart, Queue

\* The current network is forgotten.
LEMMA ForgetCurrentTInv ==
    ASSUME TInv, NEW n, ForgetCurrent(n) PROVE TInv'
<1>2. IsABag(networks') /\ Queue' \subseteq Queue
  BY RestIs DEF ForgetCurrent, TInv, Queue
<1>3. Queue \subseteq Blocks /\ Ahead(currentNet, Queue) /\ n \in Heads(Queue)
  BY DEF TInv, TypeOK, ForgetCurrent, Overlapping, Overlaps, Running, Queue
<1>4. n \in Blocks /\ Ahead(n, Queue')
  BY <1>2, <1>3, AheadFromHead
<1> QED BY <1>2, <1>3, <1>4 DEF TInv, TypeOK, ForgetCurrent, Overlapping, Queue

\* The next network is ignored.
LEMMA IgnoreNextTInv ==
    ASSUME TInv, NEW n, IgnoreNext(n) PROVE TInv'
<1>2. IsABag(networks') /\ Queue' \subseteq Queue
  BY RestIs DEF IgnoreNext, TInv, Queue
<1>3. Queue \subseteq Blocks /\ Ahead(currentNet, Queue)
  BY DEF TInv, TypeOK, IgnoreNext, Overlapping, Overlaps, Running, Queue
<1>4. Ahead(currentNet, Queue')
  BY <1>2, <1>3, AheadOfLess
<1> QED BY <1>2, <1>3, <1>4 DEF TInv, TypeOK, IgnoreNext, Overlapping, Queue

\* The next network is split.
LEMMA SplitNextTInv ==
    ASSUME TInv, NEW n, SplitNext(n) PROVE TInv'
<1> DEFINE P == BagToSet(Rest(n))  H == Halves(n)
<1>1. IsABag(Rest(n)) /\ P \subseteq Queue
  BY RestIs DEF TInv
<1>2. IsABag(networks') /\ Queue' = P \cup H
  BY <1>1, BagPut DEF SplitNext, Queue
<1>3. /\ Queue \subseteq Blocks /\ Ahead(currentNet, Queue) /\ n \in Queue
      /\ currentNet \in Blocks /\ n.first = currentNet.first
      /\ Opposed(currentNet, n)
  BY DEF TInv, TypeOK, SplitNext, SameBase, Overlapping, Overlaps, Running, Queue, Heads
<1>4. n.mask <= currentNet.mask
  <2>1. n.mask \in Nat /\ currentNet.mask \in Nat /\ currentNet.mask >= n.mask
    BY <1>3, BlockFacts DEF SplitNext, SameBase
  <2> QED BY <2>1
<1>5. /\ H \subseteq {Upper(n), Lower(n)}
      /\ \A h \in H : h = Lower(n) => LastAddress(h) # LastAddress(currentNet)
      /\ \A h \in H : ~Has(P, h)
  BY DEF Halves
<1> HIDE DEF P, H
<1>6. P \cup H \subseteq Blocks /\ Ahead(currentNet, P \cup H)
  BY <1>1, <1>3, <1>4, <1>5, AheadOfHalves
<1> QED BY <1>2, <1>3, <1>6 DEF TInv, TypeOK, SplitNext, Overlapping, Queue

\* The current network is split.
LEMMA SplitCurrentTInv ==
    ASSUME TInv, NEW n, SplitCurrent(n) PROVE TInv'
<1> DEFINE P == BagToSet(Rest(n))  K == Kept(n)
<1>1. IsABag(Rest(n)) /\ P \subseteq Queue
  BY RestIs DEF TInv
<1>2. IsABag(networks') /\ Queue' = P \cup K
  BY <1>1, BagPut DEF SplitCurrent, Queue
<1>3. /\ Queue \subseteq Blocks /\ Ahead(currentNet, Queue) /\ n \in Queue
      /\ currentNet \in Blocks /\ LastAddress(currentNet) >= n.first
      /\ ~(currentNet.first = n.first /\ currentNet.mask >= n.mask)
  BY DEF TInv, TypeOK, SplitCurrent, SameBase, Overlapping, Overlaps, Running, Queue, Heads
<1>4. currentNet \in Networks /\ currentNet.mask < Width
  BY <1>3, SplitIsWide
<1>5. K \subseteq {n, Upper(currentNet)}
  BY DEF Kept
<1> HIDE DEF P, K
<1>6. P \cup K \subseteq Blocks /\ Lower(currentNet) \in Blocks /\ Ahead(Lower(currentNet), P \cup K)
  BY <1>1, <1>3, <1>4, <1>5, AheadOfKept
<1> QED BY <1>2, <1>3, <1>6 DEF TInv, TypeOK, SplitCurrent, Overlapping, Queue

\* openTun installs the routes.
LEMMA InstallTInv ==
    ASSUME TInv,
           (\E dns \in Addresses \cup {NoNet} : InstallPositiveOnly(dns)) \/ InstallRoutesExcluded
    PROVE  TInv'
<1>1. CASE InstallRoutesExcluded
  BY <1>1 DEF TInv, TypeOK, InstallRoutesExcluded, Blocks, Queue
<1>2. ASSUME NEW dns \in Addresses \cup {NoNet}, InstallPositiveOnly(dns)
      PROVE  TInv'
  <2>1. Positive(dns) \subseteq Blocks
    BY HostIsNetwork DEF TInv, TypeOK, Positive, Blocks
  <2>2. installed' \subseteq Blocks
    BY <1>2, <2>1 DEF InstallPositiveOnly
  <2> QED BY <1>2, <2>2 DEF TInv, TypeOK, InstallPositiveOnly, Queue
<1> QED BY <1>1, <1>2

\* Every step.
LEMMA NextTInv == TInv /\ [Next]_vars => TInv'
<1> SUFFICES ASSUME TInv, [Next]_vars PROVE TInv'
  OBVIOUS
<1>1. ASSUME NEW n \in Networks, AddIP(n) PROVE TInv'
  BY <1>1, AddIPTInv
<1>2. CASE Generate
  BY <1>2, GenerateTInv
<1>3. CASE NoneLeft
  BY <1>3, NoneLeftTInv
<1>4. ASSUME NEW n, Apart(n) PROVE TInv'
  BY <1>4, ApartTInv
<1>5. ASSUME NEW n, ForgetCurrent(n) PROVE TInv'
  BY <1>5, ForgetCurrentTInv
<1>6. ASSUME NEW n, SplitNext(n) PROVE TInv'
  BY <1>6, SplitNextTInv
<1>7. ASSUME NEW n, IgnoreNext(n) PROVE TInv'
  BY <1>7, IgnoreNextTInv
<1>8. ASSUME NEW n, SplitCurrent(n) PROVE TInv'
  BY <1>8, SplitCurrentTInv
<1>9. CASE (\E dns \in Addresses \cup {NoNet} : InstallPositiveOnly(dns)) \/ InstallRoutesExcluded
  BY <1>9, InstallTInv
<1>10. CASE UNCHANGED vars
  BY <1>10 DEF TInv, TypeOK, vars, Queue
<1> QED BY <1>1, <1>2, <1>3, <1>4, <1>5, <1>6, <1>7, <1>8, <1>9, <1>10 DEF Next, Iterate


\* Of two networks that share an address the larger one contains the other.
LEMMA Sharing ==
    ASSUME NEW n \in Networks, NEW o \in Networks, n.mask <= o.mask,
           NEW a \in Int, Covers(n, a), Covers(o, a)
    PROVE  Contains(n, o) /\ (n.mask = o.mask => SameNet(n, o))
<1>1. /\ n.first \in Nat /\ o.first \in Nat /\ n.mask \in Nat /\ o.mask \in Nat
      /\ LastAddress(n) \in Nat /\ LastAddress(o) \in Nat
  BY NetworkFacts
<1>2. Contains(n, o)
  BY <1>1, Laminar DEF Covers
<1>3. ASSUME n.mask = o.mask PROVE SameNet(n, o)
  <2>1. Contains(o, n)
    BY <1>1, <1>3, Laminar DEF Covers
  <2> QED BY <1>1, <1>2, <1>3, <2>1 DEF Contains, SameNet
<1> QED BY <1>2, <1>3

\* A network that begins at an upper half is no larger than that half.
LEMMA UpperBegins ==
    ASSUME NEW b \in Networks, b.mask < Width, NEW t \in Networks, t.first = Upper(b).first
    PROVE  t.mask >= Upper(b).mask
<1>1. /\ t.first \in Nat /\ b.first \in Nat /\ t.mask \in Nat /\ b.mask \in Nat
      /\ LastAddress(t) \in Nat /\ LastAddress(b) \in Nat /\ LastAddress(t) >= t.first
  BY NetworkFacts
<1>2. /\ Upper(b) \in Networks /\ Upper(b).mask = b.mask + 1 /\ Upper(b).first > b.first
      /\ LastAddress(Upper(b)) = LastAddress(b) /\ Upper(b).first <= LastAddress(Upper(b))
  <2>1. Upper(b) \in Networks
    BY Halved
  <2> QED BY <1>1, <2>1, Halved, NetworkFacts
<1>3. SUFFICES ASSUME t.mask <= b.mask PROVE FALSE
  BY <1>1, <1>2
<1>4. Contains(t, b) \/ LastAddress(b) < t.first \/ LastAddress(t) < b.first
  BY <1>3, Laminar
<1> QED BY <1>1, <1>2, <1>4 DEF Contains

\* A network with an upper half well inside of it contains the whole.
LEMMA UpperInside ==
    ASSUME NEW b \in Networks, b.mask < Width, NEW c \in Networks,
           Contains(c, Upper(b)), c.mask < Upper(b).mask
    PROVE  Contains(c, b) /\ c.mask <= b.mask
<1>1. /\ c.first \in Nat /\ b.first \in Nat /\ c.mask \in Nat /\ b.mask \in Nat
      /\ LastAddress(c) \in Nat /\ LastAddress(b) \in Nat
  BY NetworkFacts
<1>2. /\ Upper(b) \in Networks /\ Upper(b).mask = b.mask + 1 /\ Upper(b).first > b.first
      /\ LastAddress(Upper(b)) = LastAddress(b) /\ Upper(b).first <= LastAddress(Upper(b))
      /\ Upper(b).first \in Nat
  <2>1. Upper(b) \in Networks
    BY Halved
  <2> QED BY <1>1, <2>1, Halved, NetworkFacts
<1>3. c.mask <= b.mask
  BY <1>1, <1>2
<1>4. Contains(c, b) \/ LastAddress(b) < c.first \/ LastAddress(c) < b.first
  BY <1>3, Laminar
<1> QED BY <1>1, <1>2, <1>3, <1>4 DEF Contains

-----------------------------------------------------------------------------
(* What a set of networks says of an address.                              *)

\* The network that decides on an address, and what it says.
Decides(S, n, a) == n \in S /\ Covers(n, a) /\ \A o \in S : Covers(o, a) => o.mask <= n.mask
Says(S, a, sign) == \E n \in S : Decides(S, n, a) /\ n.included = sign

SameSay(S, T) == \A a \in Addresses, sign \in BOOLEAN : Says(S, a, sign) <=> Says(T, a, sign)

\* The terms of Preserved and Promised.
LEMMA SaysIs ==
    ASSUME NEW S, S \subseteq Blocks, NEW a
    PROVE  (Includes(S, a) <=> Says(S, a, TRUE)) /\ (Excludes(S, a) <=> Says(S, a, FALSE))
<1>1. \A n \in S : n.included \in BOOLEAN
  BY BlockFacts
<1> QED BY <1>1 DEF Includes, Excludes, Says, Decides

\* Where any network covers an address one of them decides.
LEMMA Decider ==
    ASSUME NEW S, S \subseteq Networks, NEW n \in S, NEW a, Covers(n, a)
    PROVE  \E m : Decides(S, m, a)
<1> DEFINE M == {k \in Nat : \E m \in S : Covers(m, a) /\ k = m.mask}
<1>1. \A m \in S : m.mask \in Nat /\ m.mask <= Width
  BY NetworkFacts
<1>2. n.mask \in M /\ M \subseteq Nat /\ \A k \in M : k <= Width
  BY <1>1
<1>3. PICK k \in M : \A l \in M : l <= k
  <2>1. Width \in Nat /\ M # {}
    BY <1>2
  <2> HIDE DEF M
  <2> QED BY <1>2, <2>1, GreatestMember
<1>4. PICK m \in S : Covers(m, a) /\ k = m.mask
  OBVIOUS
<1>5. \A o \in S : Covers(o, a) => o.mask <= m.mask
  BY <1>1, <1>3, <1>4
<1> QED BY <1>4, <1>5 DEF Decides

\* Addresses are numbers.
LEMMA AddressIsInt == \A a \in Addresses : a \in Int
BY Sizes DEF Addresses

\* A network is replaced by its halves, of either sign if they are there already.
LEMMA SplitSays ==
    ASSUME NEW S, S \subseteq Networks, Distinct(S), NEW n \in S, n.mask < Width,
           NEW T, Distinct(T), S \ {n} \subseteq T, T \subseteq S \cup {Upper(n), Lower(n)},
           Has(T, Upper(n)), Has(T, Lower(n))
    PROVE  SameSay(S, T)
<1>1. /\ Lower(n) \in Networks /\ Upper(n) \in Networks
      /\ Lower(n).first = n.first /\ Upper(n).first = n.first + Size(n.mask + 1)
      /\ Lower(n).mask = n.mask + 1 /\ Upper(n).mask = n.mask + 1
      /\ Lower(n).included = n.included /\ Upper(n).included = n.included
      /\ LastAddress(Lower(n)) = n.first + Size(n.mask + 1) - 1
      /\ LastAddress(Upper(n)) = LastAddress(n)
      /\ LastAddress(n) = n.first + 2 * Size(n.mask + 1) - 1
      /\ Size(n.mask + 1) \in Nat /\ Size(n.mask + 1) > 0
      /\ n.first \in Nat /\ n.mask \in Nat
  BY Halved, NetworkFacts
<1>2. T \subseteq Networks
  BY <1>1
<1> SUFFICES ASSUME NEW a \in Addresses, NEW sign \in BOOLEAN
             PROVE  Says(S, a, sign) <=> Says(T, a, sign)
  BY DEF SameSay
<1>3. a \in Int
  BY AddressIsInt
<1>4. \A o \in S \cup T : o.mask \in Nat
  BY <1>2, NetworkFacts
<1>5. CASE ~Covers(n, a)
  <2>1. ~Covers(Lower(n), a) /\ ~Covers(Upper(n), a)
    BY <1>1, <1>3, <1>5 DEF Covers
  <2>2. \A o : Covers(o, a) => (o \in S <=> o \in T)
    BY <1>5, <2>1
  <2>3. \A o : Decides(S, o, a) <=> Decides(T, o, a)
    BY <2>2 DEF Decides
  <2> QED BY <2>3 DEF Says, Decides
<1>6. CASE Covers(n, a)
  <2>1. PICK h \in {Upper(n), Lower(n)} : Covers(h, a)
    BY <1>1, <1>3, <1>6 DEF Covers
  <2>2. PICK g \in T : SameNet(g, h)
    BY <2>1 DEF Has
  <2>3. g.mask = n.mask + 1 /\ Covers(g, a)
    <3>1. g.first = h.first /\ g.mask = h.mask
      BY <2>2 DEF SameNet
    <3>2. LastAddress(g) = LastAddress(h)
      BY <3>1 DEF LastAddress
    <3> QED BY <1>1, <2>1, <3>1, <3>2 DEF Covers
  <2>4. ASSUME NEW x \in Networks, NEW y \in Networks, Covers(x, a), Covers(y, a), x.mask = y.mask
        PROVE  SameNet(x, y)
    <3>1. x.mask <= y.mask
      BY <2>4, NetworkFacts
    <3> QED BY <1>3, <2>4, <3>1, Sharing
  <2>5. ASSUME NEW x, Decides(S, x, a), x.included = sign PROVE Says(T, a, sign)
    <3>1. x \in S /\ Covers(x, a) /\ \A o \in S : Covers(o, a) => o.mask <= x.mask
      BY <2>5 DEF Decides
    <3>2. CASE x = n
      <4>1. g \notin S
        BY <1>1, <2>3, <3>1, <3>2
      <4>2. g \in {Upper(n), Lower(n)}
        BY <4>1
      <4>3. \A o \in T : Covers(o, a) => o.mask <= g.mask
        BY <1>1, <1>4, <2>3, <3>1, <3>2
      <4> QED BY <1>1, <2>3, <2>5, <3>2, <4>2, <4>3 DEF Says, Decides
    <3>3. CASE x # n
      <4>1. n.mask <= x.mask
        BY <1>6, <3>1
      <4>2. x.mask # n.mask
        BY <1>6, <2>4, <3>1, <3>3 DEF Distinct
      <4>3. x \in T /\ x.mask >= n.mask + 1
        BY <1>1, <1>4, <3>1, <3>3, <4>1, <4>2
      <4>4. \A o \in T : Covers(o, a) => o.mask <= x.mask
        BY <1>1, <1>4, <3>1, <4>3
      <4> QED BY <2>5, <3>1, <4>3, <4>4 DEF Says, Decides
    <3> QED BY <3>2, <3>3
  <2>6. ASSUME NEW x, Decides(T, x, a), x.included = sign PROVE Says(S, a, sign)
    <3>1. x \in T /\ Covers(x, a) /\ \A o \in T : Covers(o, a) => o.mask <= x.mask
      BY <2>6 DEF Decides
    <3>2. x.mask >= n.mask + 1 /\ x.mask \in Nat
      BY <1>1, <1>4, <2>3, <3>1
    <3>3. CASE x \in S
      <4>1. \A o \in S : Covers(o, a) => o.mask <= x.mask
        BY <1>1, <1>4, <3>1, <3>2
      <4> QED BY <2>6, <3>1, <3>3, <4>1 DEF Says, Decides
    <3>4. CASE x \notin S
      <4>1. x.mask = n.mask + 1 /\ x.included = n.included /\ x \in Networks
        BY <1>1, <1>2, <3>1, <3>4
      <4>2. ASSUME NEW o \in S, Covers(o, a) PROVE o.mask <= n.mask
        <5>1. CASE o = n
          BY <1>1, <5>1
        <5>2. CASE o # n
          <6>1. o \in T /\ o.mask <= n.mask + 1
            BY <3>1, <4>1, <4>2, <5>2
          <6>2. o.mask # n.mask + 1
            BY <1>2, <2>4, <3>1, <3>4, <4>1, <4>2, <6>1 DEF Distinct
          <6>3. o.mask \in Nat /\ n.mask \in Nat
            BY <1>1, <1>4
          <6> QED BY <6>1, <6>2, <6>3
        <5> QED BY <5>1, <5>2
      <4> QED BY <1>6, <2>6, <4>1, <4>2 DEF Says, Decides
    <3> QED BY <3>3, <3>4
  <2> QED BY <2>5, <2>6 DEF Says, Decides
<1> QED BY <1>5, <1>6

\* A network is left out that lies in another of its sign, with nothing of the
\* other sign between the two.
LEMMA DropSays ==
    ASSUME NEW S, S \subseteq Networks, Distinct(S), NEW x \in S,
           NEW T, S \ {x} \subseteq T, T \subseteq S, NEW n \in T, n # x,
           Contains(n, x), n.included = x.included, n.mask <= x.mask,
           \A m \in S : Opposed(m, x) /\ Contains(m, x) /\ n.mask < m.mask => m.mask >= x.mask
    PROVE  SameSay(S, T)
<1> SUFFICES ASSUME NEW a \in Addresses, NEW sign \in BOOLEAN
             PROVE  Says(S, a, sign) <=> Says(T, a, sign)
  BY DEF SameSay
<1>1. CASE x \in T
  <2>1. S = T
    BY <1>1
  <2> QED BY <2>1
<1>2. CASE ~Covers(x, a)
  <2>1. \A o : Covers(o, a) => (o \in S <=> o \in T)
    BY <1>2
  <2>2. \A o : Decides(S, o, a) <=> Decides(T, o, a)
    BY <2>1 DEF Decides
  <2> QED BY <2>2 DEF Says, Decides
<1>3. CASE x \notin T /\ Covers(x, a)
  <2>1. a \in Int /\ T = S \ {x} /\ T \subseteq Networks
    BY <1>3, AddressIsInt
  <2>2. \A o \in S : /\ o.mask \in Nat /\ o.included \in BOOLEAN
                     /\ o.first \in Nat /\ LastAddress(o) \in Nat
    BY NetworkFacts
  <2>3. Covers(n, a)
    BY <1>3, <2>1, <2>2 DEF Covers, Contains
  <2>4. ASSUME NEW y \in T, Covers(y, a), y.mask <= x.mask, n.mask <= y.mask
        PROVE  y.mask < x.mask /\ y.included = x.included
    <3>1. y.mask # x.mask
      BY <1>3, <2>1, <2>2, <2>4, Sharing DEF Distinct
    <3>2. CASE y.mask = n.mask
      <4>1. y = n
        BY <2>1, <2>2, <2>3, <2>4, <3>2, Sharing DEF Distinct
      <4> QED BY <2>2, <2>4, <3>1, <4>1
    <3>3. CASE y.mask # n.mask
      <4>1. Contains(y, x)
        BY <1>3, <2>1, <2>4, Sharing
      <4>2. n.mask < y.mask /\ y.mask < x.mask
        BY <2>1, <2>2, <2>4, <3>1, <3>3
      <4>3. ~(y.mask >= x.mask)
        BY <2>1, <2>2, <4>2
      <4>4. ~Opposed(y, x)
        BY <2>1, <4>1, <4>2, <4>3
      <4> QED BY <4>2, <4>4 DEF Opposed
    <3> QED BY <3>2, <3>3
  <2>5. ASSUME NEW y, Decides(S, y, a), y.included = sign PROVE Says(T, a, sign)
    <3>1. CASE y # x
      <4>1. Decides(T, y, a)
        BY <2>1, <2>5, <3>1 DEF Decides
      <4> QED BY <2>5, <4>1 DEF Says, Decides
    <3>2. CASE y = x
      <4>1. PICK m : Decides(T, m, a)
        BY <2>1, <2>3, Decider
      <4>2. m \in T /\ Covers(m, a) /\ n.mask <= m.mask /\ m.mask <= x.mask
        BY <2>1, <2>3, <2>5, <3>2, <4>1 DEF Decides
      <4>3. m.included = x.included
        BY <2>4, <4>2
      <4> QED BY <2>5, <3>2, <4>1, <4>3 DEF Says, Decides
    <3> QED BY <3>1, <3>2
  <2>6. ASSUME NEW y, Decides(T, y, a), y.included = sign PROVE Says(S, a, sign)
    <3>1. y \in T /\ Covers(y, a) /\ n.mask <= y.mask /\ \A o \in T : Covers(o, a) => o.mask <= y.mask
      BY <2>3, <2>6 DEF Decides
    <3>2. CASE y.mask >= x.mask
      <4>1. \A o \in S : Covers(o, a) => o.mask <= y.mask
        BY <2>1, <2>2, <3>1, <3>2
      <4> QED BY <2>1, <2>6, <3>1, <4>1 DEF Says, Decides
    <3>3. CASE y.mask < x.mask
      <4>1. y.mask <= x.mask
        BY <2>1, <2>2, <3>1, <3>3
      <4>2. y.included = x.included
        BY <2>4, <3>1, <4>1
      <4>3. \A o \in S : Covers(o, a) => o.mask <= x.mask
        BY <2>1, <2>2, <3>1, <4>1
      <4> QED BY <1>3, <2>6, <4>2, <4>3 DEF Says, Decides
    <3> QED BY <2>1, <2>2, <3>1, <3>2, <3>3
  <2> QED BY <2>5, <2>6 DEF Says, Decides
<1> QED BY <1>1, <1>2, <1>3

\* One network ends before the other begins.
LiesBefore(n, o) == LastAddress(n) < o.first

Spread(D) == \A d, e \in D : d = e \/ LiesBefore(d, e) \/ LiesBefore(e, d)

\* A network comes from a route of its sign.
Stems(R, x) == \E r \in R : ~Opposed(r, x) /\ Contains(r, x) /\ r.mask <= x.mask

\* What waits at the base of the current network, is of its sign and no smaller than x
\* has a route of the other sign between them.
Shielded(c, Q, R, x) ==
    \A t \in Q : t.first = c.first /\ t.mask <= x.mask /\ ~Opposed(t, c) =>
        \E p \in R : /\ p.first = c.first /\ Opposed(p, c)
                     /\ p.mask <= x.mask /\ t.mask < p.mask

\* The lower half of a network that was split around the current one.
LowerPiece(c, Q, R, q) == q.first = c.first /\ Opposed(q, c) /\ Shielded(c, Q, R, q)

\* The upper half of a network whose lower half the current one has gone through.
UpperPiece(c, Q, R, q) ==
    \E b \in Networks :
        /\ b.mask < Width /\ q = Upper(b)
        /\ \/ c.first > b.first
           \/ c.first = b.first /\ c.mask > b.mask /\ Shielded(c, Q, R, b)

\* What is done lies before what is current, and that before what is queued.
Ordered(c, Q, D) ==
    /\ c \in Networks /\ Q \subseteq Networks /\ D \subseteq Networks
    /\ \A q \in Q : ~Before(q, c)
    /\ Distinct(Q \cup {c})
    /\ \A d \in D : LiesBefore(d, c)
    /\ Spread(D)

\* Where the networks come from.  The current one is a route as long as a larger one
\* waits at its base; what is queued is a route or a half: a lower one opposed to the
\* current network, or an upper one whose lower half is behind it or within it.
Traced(c, Q, R) ==
    /\ \A x \in Q \cup {c} : Stems(R, x)
    /\ \A q \in Q : q.first = c.first /\ q.mask < c.mask => c \in R
    /\ \A q \in Q : q \in R \/ LowerPiece(c, Q, R, q) \/ UpperPiece(c, Q, R, q)

\* c current, Q queued, D done, R the routes.
Loop(c, Q, D, R) == Ordered(c, Q, D) /\ Traced(c, Q, R) /\ SameSay(D \cup Q \cup {c}, R)

\* What generateIPList returns.
Ended(Q, D, R) == Q = {} /\ D \subseteq Networks /\ Spread(D) /\ SameSay(D, R)

-----------------------------------------------------------------------------
(* More on networks.                                                       *)

\* A longer mask leaves fewer addresses.
LEMMA SizeShrinks ==
    ASSUME NEW m \in 0 .. Width, NEW o \in 0 .. Width, m < o
    PROVE  Size(m) > Size(o)
<1>1. m \in 0 .. Width - 1 /\ m + 1 \in 0 .. Width /\ m + 1 <= o
  OBVIOUS
<1>2. Size(m) = 2 * Size(m + 1) /\ Size(m + 1) \in Nat /\ Size(m + 1) > 0 /\ Size(o) \in Nat /\ Size(o) > 0
  BY <1>1, Sizes
<1>3. PICK q \in Nat : q > 0 /\ Size(m + 1) = q * Size(o)
  BY <1>1, SizeDivides
<1>4. Size(m + 1) >= Size(o)
  <2>1. PICK d \in Nat : q = 1 + d
    <3>1. q - 1 \in Nat /\ q = 1 + (q - 1)
      BY <1>3
    <3> QED BY <3>1
  <2>2. Size(m + 1) = Size(o) + d * Size(o) /\ d * Size(o) \in Nat
    BY <1>2, <1>3, <2>1
  <2> QED BY <1>2, <2>2
<1> QED BY <1>2, <1>4

\* The numbers of a network, for the arithmetic below.
LEMMA Numbers ==
    ASSUME NEW n \in Networks
    PROVE  /\ n.first \in Nat /\ n.mask \in Nat /\ LastAddress(n) \in Nat
           /\ LastAddress(n) >= n.first /\ n.mask <= Width /\ n.included \in BOOLEAN
BY NetworkFacts

\* The base and the last address tell the mask.
LEMMA SameRange ==
    ASSUME NEW n \in Networks, NEW o \in Networks, n.first = o.first, LastAddress(n) = LastAddress(o)
    PROVE  SameNet(n, o)
<1>1. /\ n.mask \in 0 .. Width /\ o.mask \in 0 .. Width /\ n.first \in Nat
      /\ LastAddress(n) = n.first + Size(n.mask) - 1 /\ LastAddress(o) = o.first + Size(o.mask) - 1
      /\ Size(n.mask) \in Nat /\ Size(o.mask) \in Nat
  BY NetworkFacts
<1>2. Size(n.mask) = Size(o.mask)
  <2> DEFINE s == Size(n.mask)  t == Size(o.mask)
  <2>1. s \in Nat /\ t \in Nat /\ n.first + s - 1 = n.first + t - 1
    BY <1>1
  <2> HIDE DEF s, t
  <2>2. s = t
    BY <1>1, <2>1
  <2> QED BY <2>2 DEF s, t
<1>3. ~(n.mask < o.mask) /\ ~(o.mask < n.mask)
  BY <1>1, <1>2, SizeShrinks
<1> QED BY <1>1, <1>3 DEF SameNet

\* Of two networks with one base the one with the shorter mask contains the other.
LEMMA SameBaseContains ==
    ASSUME NEW n \in Networks, NEW o \in Networks, n.first = o.first, n.mask <= o.mask
    PROVE  Contains(n, o)
<1>1. Covers(n, o.first) /\ Covers(o, o.first) /\ o.first \in Int
  BY Numbers DEF Covers
<1> QED BY <1>1, Sharing

\* Networks in networks in networks.
LEMMA ContainsTransitive ==
    ASSUME NEW n \in Networks, NEW o \in Networks, NEW p \in Networks, Contains(n, o), Contains(o, p)
    PROVE  Contains(n, p)
<1>1. /\ n.first \in Nat /\ o.first \in Nat /\ p.first \in Nat
      /\ LastAddress(n) \in Nat /\ LastAddress(o) \in Nat /\ LastAddress(p) \in Nat
  BY Numbers
<1> QED BY <1>1 DEF Contains

\* The halves lie in the whole.
LEMMA HalfContained ==
    ASSUME NEW n \in Networks, n.mask < Width
    PROVE  Contains(n, Lower(n)) /\ Contains(n, Upper(n))
<1>1. n.first \in Nat /\ LastAddress(n) = n.first + Size(n.mask) - 1
  BY NetworkFacts
<1> QED BY <1>1, Halved DEF Contains

\* What lies in a network comes from its route.
LEMMA Stemming ==
    ASSUME NEW R, R \subseteq Networks, NEW x \in Networks, Stems(R, x), NEW y \in Networks,
           ~Opposed(x, y), Contains(x, y), x.mask <= y.mask
    PROVE  Stems(R, y)
<1>1. PICK r \in R : ~Opposed(r, x) /\ Contains(r, x) /\ r.mask <= x.mask
  BY DEF Stems
<1>2. r.mask <= y.mask
  BY <1>1, Numbers
<1>3. Contains(r, y) /\ ~Opposed(r, y)
  BY <1>1, ContainsTransitive DEF Opposed
<1> QED BY <1>2, <1>3 DEF Stems

\* All that is held is distinct.
LEMMA HeldDistinct ==
    ASSUME NEW c, NEW Q, NEW D, Ordered(c, Q, D)
    PROVE  D \cup Q \cup {c} \subseteq Networks /\ Distinct(D \cup Q \cup {c})
<1>1. D \cup Q \cup {c} \subseteq Networks /\ c \in Networks
  BY DEF Ordered
<1>2. \A x \in D \cup Q \cup {c} : x.first \in Nat /\ LastAddress(x) \in Nat /\ LastAddress(x) >= x.first
  BY <1>1, Numbers
<1>3. \A q \in Q \cup {c} : q.first >= c.first
  BY <1>2 DEF Ordered, Before
<1>4. \A d \in D : d.first < c.first
  BY <1>2 DEF Ordered, LiesBefore
<1>5. ASSUME NEW x \in D \cup Q \cup {c}, NEW y \in D \cup Q \cup {c}, SameNet(x, y) PROVE x = y
  <2>0. x.first = y.first
    BY <1>5 DEF SameNet
  <2>1. CASE x \in D /\ y \in D
    BY <1>2, <2>0, <2>1 DEF Ordered, Spread, LiesBefore
  <2>2. CASE x \in D /\ y \in Q \cup {c}
    BY <1>2, <1>3, <1>4, <2>0, <2>2
  <2>3. CASE y \in D /\ x \in Q \cup {c}
    BY <1>2, <1>3, <1>4, <2>0, <2>3
  <2>4. CASE x \in Q \cup {c} /\ y \in Q \cup {c}
    BY <1>5, <2>4 DEF Ordered, Distinct
  <2> QED BY <2>1, <2>2, <2>3, <2>4
<1> QED BY <1>1, <1>5 DEF Distinct

\* The head of the queue comes first in it.
LEMMA HeadFacts ==
    ASSUME NEW Q, Q \subseteq Networks, NEW n \in Heads(Q)
    PROVE  /\ n \in Q
           /\ \A q \in Q : q.first >= n.first /\ (q.first = n.first => q.mask <= n.mask)
           /\ \A q \in Q : ~Before(q, n)
<1>1. \A q \in Q : q.first \in Nat /\ q.mask \in Nat
  BY Numbers
<1> QED BY <1>1 DEF Heads, Before

-----------------------------------------------------------------------------
(* The steps of the loop.                                                  *)

\* Before the first iteration the networks held are the routes.
LEMMA LoopStarts ==
    ASSUME NEW R, R \subseteq Networks, Distinct(R), NEW n \in Heads(R)
    PROVE  Loop(n, R \ {n}, {}, R)
<1>1. n \in R /\ \A q \in R : ~Before(q, n)
  BY HeadFacts
<1>2. Ordered(n, R \ {n}, {})
  BY <1>1 DEF Ordered, Distinct, Spread
<1>3. \A x \in R : Stems(R, x)
  <2>1. \A x \in R : Contains(x, x) /\ x.mask <= x.mask
    BY Numbers DEF Contains
  <2> QED BY <2>1 DEF Stems, Opposed
<1>4. Traced(n, R \ {n}, R)
  BY <1>1, <1>3 DEF Traced
<1>5. {} \cup (R \ {n}) \cup {n} = R
  BY <1>1
<1>6. SameSay({} \cup (R \ {n}) \cup {n}, R)
  BY <1>5 DEF SameSay
<1> QED BY <1>2, <1>4, <1>6 DEF Loop

\* The current network joins what is done.
LEMMA DoneApart ==
    ASSUME NEW c, NEW Q, NEW D, Ordered(c, Q, D)
    PROVE  TreeAdd(D, c) = D \cup {c} /\ D \cup {c} \subseteq Networks /\ Spread(D \cup {c})
<1>1. ~Has(D, c)
  <2>1. \A d \in D : d.first \in Nat /\ LastAddress(d) >= d.first /\ LastAddress(d) \in Nat
                     /\ c.first \in Nat /\ LastAddress(d) < c.first
    BY Numbers DEF Ordered, LiesBefore
  <2> QED BY <2>1 DEF Has, SameNet
<1> QED BY <1>1 DEF TreeAdd, Ordered, Spread

\* The last network is done.
LEMMA LoopEnds ==
    ASSUME NEW R, NEW c, NEW Q, NEW D, Loop(c, Q, D, R), Q = {}
    PROVE  Ended(Q, TreeAdd(D, c), R)
<1>1. TreeAdd(D, c) = D \cup {c} /\ D \cup {c} \subseteq Networks /\ Spread(D \cup {c})
  BY DoneApart DEF Loop
<1>2. D \cup {c} = D \cup Q \cup {c}
  OBVIOUS
<1> QED BY <1>1, <1>2 DEF Ended, Loop

\* The next network does not overlap the current one.
LEMMA LoopApart ==
    ASSUME NEW R, R \subseteq Networks, NEW c, NEW Q, NEW D, Loop(c, Q, D, R),
           NEW n \in Heads(Q), LastAddress(c) < n.first,
           NEW P, P \subseteq Q, Q \ {n} \subseteq P
    PROVE  Loop(n, P, TreeAdd(D, c), R)
<1>1. /\ c \in Networks /\ Q \subseteq Networks /\ D \subseteq Networks /\ n \in Q /\ n \in Networks
      /\ \A q \in Q : ~Before(q, n) /\ q.first >= n.first
  BY HeadFacts DEF Loop, Ordered
<1>2. c.first \in Nat /\ LastAddress(c) \in Nat /\ n.first \in Nat /\ c.first <= LastAddress(c)
      /\ n.mask \in Nat
  BY <1>1, Numbers
<1>3. \A q \in Q : q.first \in Nat /\ q.mask \in Nat
  BY <1>1, Numbers
<1>4. TreeAdd(D, c) = D \cup {c} /\ D \cup {c} \subseteq Networks /\ Spread(D \cup {c})
  BY DoneApart DEF Loop
<1>5. \A d \in D \cup {c} : LiesBefore(d, n)
  <2>1. \A d \in D : LastAddress(d) < c.first /\ LastAddress(d) \in Nat
    BY <1>1, Numbers DEF Loop, Ordered, LiesBefore
  <2> QED BY <1>2, <2>1 DEF LiesBefore
<1>6. Ordered(n, P, D \cup {c})
  BY <1>1, <1>4, <1>5 DEF Loop, Ordered, Distinct
<1>7. \A x \in P \cup {n} : Stems(R, x)
  BY <1>1 DEF Loop, Traced
<1>8. \A q \in Q : ~LowerPiece(c, Q, R, q)
  BY <1>1, <1>2, <1>3 DEF LowerPiece
<1>9. ASSUME NEW q \in P, q.first = n.first, q.mask < n.mask PROVE n \in R
  <2>1. SUFFICES ASSUME UpperPiece(c, Q, R, n) PROVE FALSE
    BY <1>1, <1>8 DEF Loop, Traced
  <2>2. PICK b \in Networks : b.mask < Width /\ n = Upper(b)
    BY <2>1 DEF UpperPiece
  <2>3. q.mask >= n.mask
    BY <1>1, <1>9, <2>2, UpperBegins
  <2> QED BY <1>2, <1>3, <1>9, <2>3
<1>10. ASSUME NEW q \in P PROVE q \in R \/ UpperPiece(n, P, R, q)
  <2>1. SUFFICES ASSUME UpperPiece(c, Q, R, q) PROVE UpperPiece(n, P, R, q)
    BY <1>8 DEF Loop, Traced
  <2>2. PICK b \in Networks : b.mask < Width /\ q = Upper(b) /\ (c.first > b.first \/ c.first = b.first)
    BY <2>1 DEF UpperPiece
  <2>3. n.first > b.first
    BY <1>2, <2>2, Numbers
  <2> QED BY <2>2, <2>3 DEF UpperPiece
<1>11. Traced(n, P, R)
  BY <1>7, <1>9, <1>10 DEF Traced
<1>12. (D \cup {c}) \cup P \cup {n} = D \cup Q \cup {c}
  BY <1>1
<1> QED BY <1>4, <1>6, <1>11, <1>12 DEF Loop

\* The current network is part of the next one.
LEMMA LoopForgets ==
    ASSUME NEW R, R \subseteq Networks, ~Layered(R), NEW c, NEW Q, NEW D, Loop(c, Q, D, R),
           NEW n \in Heads(Q), c.first = n.first, n.mask <= c.mask, ~Opposed(c, n),
           NEW P, P \subseteq Q, Q \ {n} \subseteq P
    PROVE  Loop(n, P, D, R)
<1>1. /\ c \in Networks /\ Q \subseteq Networks /\ D \subseteq Networks /\ n \in Q /\ n \in Networks
      /\ \A q \in Q : ~Before(q, n) /\ (q.first = n.first => q.mask <= n.mask)
  BY HeadFacts DEF Loop, Ordered
<1>2. \A x \in Q \cup {c, n} : /\ x.first \in Nat /\ x.mask \in Nat /\ x.included \in BOOLEAN
                               /\ LastAddress(x) \in Nat /\ LastAddress(x) >= x.first
  BY <1>1, Numbers
<1>3. Ordered(n, P, D)
  BY <1>1 DEF Loop, Ordered, Distinct, LiesBefore
<1>4. \A x \in P \cup {n} : Stems(R, x)
  BY <1>1 DEF Loop, Traced
<1>5. \A x : Shielded(c, Q, R, x) => Shielded(n, P, R, x)
  BY <1>1, <1>2 DEF Shielded, Opposed
<1>6. \A q \in P : LowerPiece(c, Q, R, q) => LowerPiece(n, P, R, q)
  BY <1>1, <1>2, <1>5 DEF LowerPiece, Opposed
<1>7. CASE n.mask = c.mask
  <2>1. n = c
    BY <1>1, <1>7 DEF Loop, Ordered, Distinct, SameNet
  <2>2. \A q \in P : UpperPiece(c, Q, R, q) => UpperPiece(n, P, R, q)
    BY <1>5, <2>1 DEF UpperPiece
  <2>3. Traced(n, P, R)
    BY <1>1, <1>4, <1>6, <2>1, <2>2 DEF Loop, Traced
  <2>4. D \cup P \cup {n} = D \cup Q \cup {c}
    BY <1>1, <2>1
  <2> QED BY <1>3, <2>3, <2>4 DEF Loop
<1>8. CASE n.mask # c.mask
  <2>1. n.mask < c.mask /\ c \in R
    BY <1>1, <1>2, <1>8 DEF Loop, Traced
  <2>2. ASSUME NEW q \in P, q.first = n.first, q.mask < n.mask PROVE n \in R
    <3>1. ~LowerPiece(c, Q, R, n)
      BY <1>1, <1>2 DEF LowerPiece, Opposed
    <3>2. SUFFICES ASSUME UpperPiece(c, Q, R, n) PROVE FALSE
      BY <1>1, <3>1 DEF Loop, Traced
    <3>3. PICK b \in Networks : b.mask < Width /\ n = Upper(b)
      BY <3>2 DEF UpperPiece
    <3>4. q.mask >= n.mask
      BY <1>1, <2>2, <3>3, UpperBegins
    <3> QED BY <1>1, <1>2, <2>2, <3>4
  \* A shield between the two is a layer.
  <2>3. ASSUME NEW b \in Networks, c.mask > b.mask, b.mask >= n.mask, Shielded(c, Q, R, b)
        PROVE  FALSE
    <3>1. n.mask <= b.mask /\ b.mask \in Nat /\ ~Opposed(n, c)
      BY <1>1, <1>2, <2>3, Numbers DEF Opposed
    <3>2. PICK p \in R : p.first = c.first /\ Opposed(p, c) /\ p.mask <= b.mask /\ n.mask < p.mask
      BY <1>1, <2>3, <3>1 DEF Shielded
    <3>3. PICK r \in R : ~Opposed(r, n) /\ Contains(r, n) /\ r.mask <= n.mask
      BY <1>1 DEF Loop, Traced, Stems
    <3>4. /\ p \in Networks /\ r \in Networks /\ p.mask \in Nat /\ r.mask \in Nat
          /\ p.included \in BOOLEAN /\ r.included \in BOOLEAN
      BY Numbers
    <3>5. Contains(n, p) /\ Contains(p, c)
      <4>1. n.mask <= p.mask /\ p.mask <= c.mask
        BY <1>2, <2>3, <3>1, <3>2, <3>4
      <4> QED BY <1>1, <3>2, <3>4, <4>1, SameBaseContains
    <3>6. Inner(p, r)
      <4>1. Contains(r, p)
        BY <1>1, <3>3, <3>4, <3>5, ContainsTransitive
      <4>2. p.mask > r.mask
        BY <1>2, <3>2, <3>3, <3>4
      <4> QED BY <4>1, <4>2 DEF Inner
    <3>7. Inner(c, p)
      <4>1. c.mask > p.mask
        BY <1>2, <2>3, <3>1, <3>2, <3>4
      <4> QED BY <3>5, <4>1 DEF Inner
    <3>8. Opposed(r, p) /\ Opposed(p, c)
      BY <1>2, <3>2, <3>3, <3>4 DEF Opposed
    <3> QED BY <2>1, <3>2, <3>6, <3>7, <3>8 DEF Layered
  <2>4. ASSUME NEW q \in P, UpperPiece(c, Q, R, q) PROVE UpperPiece(n, P, R, q)
    <3>1. PICK b \in Networks :
            /\ b.mask < Width /\ q = Upper(b)
            /\ \/ c.first > b.first
               \/ c.first = b.first /\ c.mask > b.mask /\ Shielded(c, Q, R, b)
      BY <2>4 DEF UpperPiece
    <3>2. CASE c.first > b.first
      BY <3>1, <3>2 DEF UpperPiece
    <3>3. CASE c.first = b.first /\ c.mask > b.mask /\ Shielded(c, Q, R, b)
      <4>1. n.mask > b.mask
        BY <1>2, <2>3, <3>3, Numbers
      <4> QED BY <1>5, <3>1, <3>3, <4>1 DEF UpperPiece
    <3> QED BY <3>1, <3>2, <3>3
  <2>5. Traced(n, P, R)
    BY <1>4, <1>6, <2>2, <2>4 DEF Loop, Traced
  <2> DEFINE S == D \cup Q \cup {c}  T == D \cup P \cup {n}
  <2>6. S \subseteq Networks /\ Distinct(S)
    BY HeldDistinct DEF Loop
  <2>7. S \ {c} \subseteq T /\ T \subseteq S /\ n \in T /\ c \in S /\ n # c
    BY <1>1, <1>8
  <2>8. Contains(n, c) /\ n.included = c.included
    BY <1>1, <1>2, SameBaseContains DEF Opposed
  <2>9. ASSUME NEW m \in S, Opposed(m, c), Contains(m, c), n.mask < m.mask PROVE m.mask >= c.mask
    <3>1. CASE m \in D
      <4>1. LastAddress(m) < c.first /\ LastAddress(m) >= LastAddress(c) /\ LastAddress(m) \in Nat
        BY <1>1, <2>9, <3>1, Numbers DEF Loop, Ordered, LiesBefore, Contains
      <4> QED BY <1>2, <4>1
    <3>2. CASE m = c
      BY <1>2, <3>2
    <3>3. CASE m \in Q
      <4>1. m.first <= c.first /\ ~Before(m, n)
        BY <1>1, <2>9, <3>3 DEF Contains
      <4>2. m.first = n.first
        BY <1>2, <3>3, <4>1 DEF Before
      <4> QED BY <1>1, <1>2, <2>9, <3>3, <4>2
    <3> QED BY <3>1, <3>2, <3>3
  <2> HIDE DEF S, T
  <2>10. SameSay(S, T)
    BY <2>6, <2>7, <2>8, <2>9, DropSays
  <2>11. SameSay(T, R)
    BY <2>10 DEF Loop, SameSay, S
  <2> QED BY <1>3, <2>5, <2>11 DEF Loop, T
<1> QED BY <1>7, <1>8

\* The halves that are put back.
PutBack(c, P, n) ==
    {h \in {Upper(n), Lower(n)} :
        /\ h = Lower(n) => LastAddress(h) # LastAddress(c)
        /\ ~Has(P, h)}

\* What the assertions say where the next network has the base of the current one.
LEMMA NextIsHalved ==
    ASSUME NEW c, NEW Q, NEW D, Ordered(c, Q, D), NEW n \in Q,
           c.first = n.first, n.mask <= c.mask, Opposed(c, n)
    PROVE  /\ HalvesFill(n)
           /\ LastAddress(Lower(n)) = LastAddress(c) => Lower(n).mask = c.mask
<1>1. c \in Networks /\ n \in Networks /\ (SameNet(c, n) => c = n)
  BY DEF Ordered, Distinct
<1>2. c.mask \in Nat /\ n.mask \in Nat /\ c.mask <= Width /\ n.mask # c.mask
  BY <1>1, Numbers DEF SameNet, Opposed
<1>3. n.mask < Width
  BY <1>2
<1>4. Lower(n) \in Networks /\ Lower(n).first = c.first /\ HalvesFill(n)
  BY <1>1, <1>3, Halved DEF HalvesFill
<1> QED BY <1>1, <1>4, SameRange DEF SameNet

\* The next network is opposed to the current one, which has its base.
LEMMA LoopSplitsNext ==
    ASSUME NEW R, R \subseteq Networks, NEW c, NEW Q, NEW D, Loop(c, Q, D, R),
           NEW n \in Heads(Q), c.first = n.first, n.mask <= c.mask, Opposed(c, n),
           NEW P, P \subseteq Q, Q \ {n} \subseteq P,
           NEW H, H = PutBack(c, P, n)
    PROVE  Loop(c, P \cup H, D, R)
<1>1. /\ c \in Networks /\ Q \subseteq Networks /\ D \subseteq Networks /\ n \in Q /\ n \in Networks
      /\ \A q \in Q : ~Before(q, n) /\ ~Before(q, c) /\ (q.first = n.first => q.mask <= n.mask)
  BY HeadFacts DEF Loop, Ordered
<1>2. \A x \in Q \cup {c, n} : /\ x.first \in Nat /\ x.mask \in Nat /\ x.included \in BOOLEAN
                               /\ LastAddress(x) \in Nat /\ LastAddress(x) >= x.first
                               /\ x.mask <= Width
  BY <1>1, Numbers
<1>3. n.mask < c.mask /\ n.mask < Width
  <2>1. n.mask # c.mask
    BY <1>1 DEF Loop, Ordered, Distinct, SameNet, Opposed
  <2> QED BY <1>1, <1>2, <2>1
<1>4. c \in R
  BY <1>1, <1>2, <1>3 DEF Loop, Traced
<1> DEFINE u == Upper(n)  l == Lower(n)
<1>5. /\ u \in Networks /\ l \in Networks /\ l.first = n.first /\ u.first > n.first
      /\ u.mask = n.mask + 1 /\ l.mask = n.mask + 1
      /\ u.included = n.included /\ l.included = n.included
      /\ u.first \in Nat
  <2>1. u.first = n.first + Size(n.mask + 1) /\ Size(n.mask + 1) \in Nat /\ Size(n.mask + 1) > 0
    BY <1>1, <1>3, Halved
  <2> QED BY <1>1, <1>2, <1>3, <2>1, Halved
<1>6. Contains(n, u) /\ Contains(n, l)
  BY <1>1, <1>3, HalfContained
<1>0. H = {h \in {u, l} : (h = l => LastAddress(h) # LastAddress(c)) /\ ~Has(P, h)}
  BY DEF PutBack
<1> HIDE DEF u, l
<1>7. /\ H \subseteq {u, l} /\ \A h \in H : ~Has(P, h)
      /\ u \in H \/ Has(P, u)
      /\ l \in H \/ Has(P, l) \/ LastAddress(l) = LastAddress(c)
      /\ \A h \in H : h = l => LastAddress(l) # LastAddress(c)
  <2>1. u # l
    BY <1>2, <1>5
  <2> QED BY <1>0, <2>1
<1>8. Ordered(c, P \cup H, D)
  <2>1. ASSUME NEW h \in H PROVE ~Before(h, c) /\ ~SameNet(h, c) /\ h \in Networks
    <3>1. CASE h = u
      BY <1>1, <1>2, <1>5, <3>1 DEF Before, SameNet
    <3>2. CASE h = l
      <4>1. ~SameNet(l, c)
        <5>1. ASSUME SameNet(l, c) PROVE LastAddress(l) = LastAddress(c)
          BY <5>1 DEF SameNet, LastAddress
        <5> QED BY <1>7, <3>2, <5>1
      <4>2. ~Before(l, c)
        BY <1>2, <1>3, <1>5 DEF Before
      <4> QED BY <1>5, <3>2, <4>1, <4>2
    <3> QED BY <1>7, <3>1, <3>2
  <2>2. ~SameNet(u, l) /\ ~SameNet(l, u)
    BY <1>2, <1>5 DEF SameNet
  <2>3. ASSUME NEW x \in P \cup H \cup {c}, NEW y \in P \cup H \cup {c}, SameNet(x, y) PROVE x = y
    <3>0. SameNet(y, x)
      BY <2>3 DEF SameNet
    <3>1. CASE x \in H /\ y \in H
      BY <1>7, <2>2, <2>3, <3>1
    <3>2. CASE x \in H /\ y \in P \cup {c}
      BY <1>7, <2>1, <2>3, <3>0, <3>2 DEF Has
    <3>3. CASE y \in H /\ x \in P \cup {c}
      BY <1>7, <2>1, <2>3, <3>0, <3>3 DEF Has
    <3>4. CASE x \in P \cup {c} /\ y \in P \cup {c}
      BY <2>3, <3>4 DEF Loop, Ordered, Distinct
    <3> QED BY <3>1, <3>2, <3>3, <3>4
  <2> QED BY <1>1, <2>1, <2>3 DEF Loop, Ordered, Distinct
<1>9. \A h \in {u, l} : Opposed(h, c)
  BY <1>2, <1>5 DEF Opposed
<1>10. \A x : Shielded(c, Q, R, x) => Shielded(c, P \cup H, R, x)
  BY <1>7, <1>9 DEF Shielded
<1>11. Shielded(c, Q, R, n)
  <2>1. ASSUME NEW t \in Q, t.first = c.first, t.mask <= n.mask, ~Opposed(t, c)
        PROVE  \E p \in R : /\ p.first = c.first /\ Opposed(p, c)
                            /\ p.mask <= n.mask /\ t.mask < p.mask
    <3>1. t.mask < n.mask
      <4>1. t # n
        BY <1>1, <1>2, <2>1 DEF Opposed
      <4>2. ~SameNet(t, n)
        BY <1>1, <4>1 DEF Loop, Ordered, Distinct
      <4> QED BY <1>1, <1>2, <2>1, <4>2 DEF SameNet
    <3>2. CASE n \in R
      BY <1>1, <1>2, <3>1, <3>2 DEF Opposed
    <3>3. CASE LowerPiece(c, Q, R, n)
      BY <2>1, <3>3 DEF LowerPiece, Shielded
    <3>4. CASE UpperPiece(c, Q, R, n)
      <4>1. PICK b \in Networks : b.mask < Width /\ n = Upper(b)
        BY <3>4 DEF UpperPiece
      <4>2. t.mask >= n.mask
        BY <1>1, <2>1, <4>1, UpperBegins
      <4> QED BY <1>1, <1>2, <3>1, <4>2
    <3> QED BY <1>1, <3>2, <3>3, <3>4 DEF Loop, Traced
  <2> QED BY <2>1 DEF Shielded
<1>12. Shielded(c, Q, R, l)
  <2>1. ASSUME NEW t \in Q, t.first = c.first, t.mask <= l.mask, ~Opposed(t, c)
        PROVE  \E p \in R : /\ p.first = c.first /\ Opposed(p, c)
                            /\ p.mask <= l.mask /\ t.mask < p.mask
    <3>1. t.mask <= n.mask
      BY <1>1, <2>1
    <3>2. PICK p \in R : /\ p.first = c.first /\ Opposed(p, c)
                         /\ p.mask <= n.mask /\ t.mask < p.mask
      BY <1>11, <2>1, <3>1 DEF Shielded
    <3>3. p.mask <= l.mask
      BY <1>1, <1>2, <1>5, <3>2, Numbers
    <3> QED BY <3>2, <3>3
  <2> QED BY <2>1 DEF Shielded
<1>13. ASSUME NEW q \in P \cup H
       PROVE  q \in R \/ LowerPiece(c, P \cup H, R, q) \/ UpperPiece(c, P \cup H, R, q)
  <2>1. CASE q \in P
    <3>1. LowerPiece(c, Q, R, q) => LowerPiece(c, P \cup H, R, q)
      BY <1>10 DEF LowerPiece
    <3>2. UpperPiece(c, Q, R, q) => UpperPiece(c, P \cup H, R, q)
      BY <1>10 DEF UpperPiece
    <3> QED BY <2>1, <3>1, <3>2 DEF Loop, Traced
  <2>2. CASE q = l
    <3>1. LowerPiece(c, P \cup H, R, l)
      BY <1>1, <1>5, <1>9, <1>10, <1>12 DEF LowerPiece
    <3> QED BY <2>2, <3>1
  <2>3. CASE q = u
    <3>1. UpperPiece(c, P \cup H, R, u)
      <4>1. c.first = n.first /\ c.mask > n.mask /\ Shielded(c, P \cup H, R, n)
        BY <1>2, <1>3, <1>10, <1>11
      <4> QED BY <1>1, <1>3, <4>1 DEF UpperPiece, u
    <3> QED BY <2>3, <3>1
  <2> QED BY <1>7, <2>1, <2>2, <2>3
<1>14. \A x \in (P \cup H) \cup {c} : Stems(R, x)
  <2>1. \A x \in Q \cup {c} : Stems(R, x)
    BY DEF Loop, Traced
  <2>2. Stems(R, u) /\ Stems(R, l)
    <3>1. n.mask <= u.mask /\ n.mask <= l.mask /\ ~Opposed(n, u) /\ ~Opposed(n, l)
      BY <1>1, <1>2, <1>5 DEF Opposed
    <3> QED BY <1>1, <1>5, <1>6, <2>1, <3>1, Stemming
  <2> QED BY <1>7, <2>1, <2>2
<1>15. Traced(c, P \cup H, R)
  BY <1>4, <1>13, <1>14 DEF Traced
<1> DEFINE S == D \cup Q \cup {c}  T == D \cup (P \cup H) \cup {c}
<1>16. S \subseteq Networks /\ Distinct(S) /\ Distinct(T)
  BY <1>8, HeldDistinct DEF Loop
<1>17. n \in S /\ S \ {n} \subseteq T /\ T \subseteq S \cup {u, l}
  BY <1>1, <1>7
<1>18. Has(T, u)
  BY <1>7 DEF Has, SameNet
<1>19. Has(T, l)
  <2>1. CASE LastAddress(l) = LastAddress(c)
    <3>1. SameNet(c, l)
      BY <1>1, <1>5, <2>1, SameRange
    <3> QED BY <3>1 DEF Has
  <2>2. CASE l \in H \/ Has(P, l)
    BY <2>2 DEF Has, SameNet
  <2> QED BY <1>7, <2>1, <2>2
<1> HIDE DEF S, T
<1>20. SameSay(S, T)
  BY <1>3, <1>16, <1>17, <1>18, <1>19, SplitSays DEF u, l
<1>21. SameSay(T, R)
  BY <1>20 DEF Loop, SameSay, S
<1> QED BY <1>8, <1>15, <1>21 DEF Loop, T

\* What overlaps the current network and has not its base lies well inside of it.
LEMMA WellInside ==
    ASSUME NEW c, NEW Q, NEW D, Ordered(c, Q, D), NEW n \in Q,
           LastAddress(c) >= n.first, ~(c.first = n.first /\ c.mask >= n.mask)
    PROVE  Contains(c, n) /\ c.mask < n.mask /\ n.first > c.first
<1>1. c \in Networks /\ n \in Networks /\ ~Before(n, c)
  BY DEF Ordered
<1>2. /\ c.first \in Nat /\ n.first \in Nat /\ c.mask \in Nat /\ n.mask \in Nat
      /\ LastAddress(c) \in Nat /\ LastAddress(n) \in Nat /\ LastAddress(n) >= n.first
  BY <1>1, Numbers
<1>3. n.first > c.first
  BY <1>1, <1>2 DEF Before
<1>4. Covers(c, n.first) /\ Covers(n, n.first) /\ n.first \in Int
  BY <1>2, <1>3 DEF Covers
<1>5. ~(n.mask <= c.mask)
  <2>1. ASSUME n.mask <= c.mask PROVE FALSE
    <3>1. Contains(n, c)
      BY <1>1, <1>4, <2>1, Sharing
    <3> QED BY <1>2, <1>3, <3>1 DEF Contains
  <2> QED BY <2>1
<1>6. c.mask <= n.mask /\ c.mask < n.mask
  BY <1>2, <1>5
<1>7. Contains(c, n)
  BY <1>1, <1>4, <1>6, Sharing
<1> QED BY <1>3, <1>6, <1>7

\* Half as large as the current one, the next network is its upper half.
LEMMA UpperIsNext ==
    ASSUME NEW c \in Networks, NEW n \in Networks, c.mask < Width, Contains(c, n), n.first > c.first,
           Upper(c).mask = n.mask
    PROVE  SameNet(n, Upper(c))
<1> DEFINE u == Upper(c)  l == Lower(c)
<1>1. /\ u \in Networks /\ l \in Networks /\ l.first = c.first
      /\ l.mask = n.mask /\ u.mask = n.mask
      /\ LastAddress(l) + 1 = u.first /\ LastAddress(u) = LastAddress(c)
  <2>1. /\ u.first = c.first + Size(c.mask + 1) /\ Size(c.mask + 1) \in Nat
        /\ LastAddress(l) = c.first + Size(c.mask + 1) - 1 /\ c.first \in Nat
    BY Halved, Numbers
  <2> QED BY <2>1, Halved
<1>2. \A x \in {c, n, l, u} : /\ x.first \in Nat /\ x.mask \in Nat /\ LastAddress(x) \in Nat
                              /\ LastAddress(x) >= x.first
  BY <1>1, Numbers
<1> HIDE DEF u, l
<1>3. Covers(n, n.first) /\ n.first \in Int
  BY <1>2 DEF Covers
<1>4. CASE n.first <= LastAddress(l)
  <2>1. Covers(l, n.first)
    BY <1>1, <1>2, <1>4 DEF Covers
  <2>2. SameNet(n, l)
    BY <1>1, <1>2, <1>3, <2>1, Sharing
  <2> QED BY <1>1, <1>2, <2>2 DEF SameNet
<1>5. CASE n.first > LastAddress(l)
  <2>1. Covers(u, n.first)
    BY <1>1, <1>2, <1>5 DEF Covers, Contains
  <2>2. SameNet(n, u)
    BY <1>1, <1>2, <1>3, <2>1, Sharing
  <2> QED BY <2>2 DEF u
<1> QED BY <1>2, <1>4, <1>5

\* What the assertions say where the next network lies well inside of the current one.
LEMMA CurrentIsHalved ==
    ASSUME NEW c, NEW Q, NEW D, Ordered(c, Q, D), NEW n \in Q,
           LastAddress(c) >= n.first, ~(c.first = n.first /\ c.mask >= n.mask)
    PROVE  /\ c.mask < n.mask /\ n.first > c.first /\ LastAddress(c) >= LastAddress(n)
           /\ HalvesFill(c)
           /\ Upper(c).mask = n.mask => Upper(c).first = n.first
<1>1. c \in Networks /\ n \in Networks
  BY DEF Ordered
<1>2. Contains(c, n) /\ c.mask < n.mask /\ n.first > c.first
  BY WellInside
<1>3. c.mask < Width
  BY <1>1, <1>2, Numbers
<1>4. HalvesFill(c)
  BY <1>1, <1>3, Halved DEF HalvesFill
<1>5. Upper(c).mask = n.mask => Upper(c).first = n.first
  BY <1>1, <1>2, <1>3, UpperIsNext DEF SameNet
<1> QED BY <1>2, <1>4, <1>5 DEF Contains

\* Only routes lie well inside of the current network.
LEMMA InsideIsRoute ==
    ASSUME NEW R, NEW c, NEW Q, NEW D, Loop(c, Q, D, R), NEW q \in Q,
           Contains(c, q), c.mask < q.mask, q.first > c.first
    PROVE  q \in R
<1>1. c \in Networks /\ q \in Networks
  BY DEF Loop, Ordered
<1>2. c.first \in Nat /\ q.first \in Nat /\ c.mask \in Nat /\ LastAddress(c) \in Nat
  BY <1>1, Numbers
<1>3. ~LowerPiece(c, Q, R, q)
  BY <1>2 DEF LowerPiece
<1>4. SUFFICES ASSUME UpperPiece(c, Q, R, q) PROVE FALSE
  BY <1>3 DEF Loop, Traced
<1>5. PICK b \in Networks :
        /\ b.mask < Width /\ q = Upper(b)
        /\ c.first > b.first \/ (c.first = b.first /\ c.mask > b.mask)
  BY <1>4 DEF UpperPiece
<1>6. Contains(c, b) /\ c.mask <= b.mask
  BY <1>1, <1>5, UpperInside
<1>7. b.first \in Nat /\ b.mask \in Nat /\ b.first >= c.first
  BY <1>5, <1>6, Numbers DEF Contains
<1> QED BY <1>2, <1>5, <1>6, <1>7

\* The next network is part of the current one.
LEMMA LoopIgnores ==
    ASSUME NEW R, R \subseteq Networks, ~Layered(R), NEW c, NEW Q, NEW D, Loop(c, Q, D, R),
           NEW n \in Heads(Q), LastAddress(c) >= n.first, ~(c.first = n.first /\ c.mask >= n.mask),
           ~Opposed(c, n), NEW P, P \subseteq Q, Q \ {n} \subseteq P
    PROVE  Loop(c, P, D, R)
<1>1. /\ c \in Networks /\ Q \subseteq Networks /\ D \subseteq Networks /\ n \in Q /\ n \in Networks
      /\ \A q \in Q : ~Before(q, n) /\ ~Before(q, c)
  BY HeadFacts DEF Loop, Ordered
<1>2. \A x \in Q \cup {c, n} : /\ x.first \in Nat /\ x.mask \in Nat /\ x.included \in BOOLEAN
                               /\ LastAddress(x) \in Nat /\ LastAddress(x) >= x.first
  BY <1>1, Numbers
<1>3. Contains(c, n) /\ c.mask < n.mask /\ n.first > c.first
  BY <1>1, WellInside DEF Loop
<1>4. Ordered(c, P, D)
  BY DEF Loop, Ordered, Distinct
<1>5. \A x : Shielded(c, Q, R, x) => Shielded(c, P, R, x)
  BY DEF Shielded
<1>6. \A q \in P : LowerPiece(c, Q, R, q) => LowerPiece(c, P, R, q)
  BY <1>5 DEF LowerPiece
<1>7. \A q \in P : UpperPiece(c, Q, R, q) => UpperPiece(c, P, R, q)
  BY <1>5 DEF UpperPiece
<1>8. Traced(c, P, R)
  BY <1>6, <1>7 DEF Loop, Traced
<1> DEFINE S == D \cup Q \cup {c}  T == D \cup P \cup {c}
<1>9. S \subseteq Networks /\ Distinct(S)
  BY HeldDistinct DEF Loop
<1>10. S \ {n} \subseteq T /\ T \subseteq S /\ c \in T /\ n \in S /\ n # c
  BY <1>1, <1>2, <1>3
<1>11. c.included = n.included /\ c.mask <= n.mask
  BY <1>1, <1>2, <1>3 DEF Opposed
<1>12. ASSUME NEW m \in S, Opposed(m, n), Contains(m, n), c.mask < m.mask PROVE m.mask >= n.mask
  <2>1. CASE m \in D
    <3>1. /\ LastAddress(m) < c.first /\ LastAddress(m) >= LastAddress(n) /\ LastAddress(m) \in Nat
      BY <1>1, <1>12, <2>1, Numbers DEF Loop, Ordered, LiesBefore, Contains
    <3> QED BY <1>1, <1>2, <1>3, <3>1
  <2>2. CASE m = c
    BY <1>2, <1>12, <2>2
  <2>3. CASE m \in Q
    <3>1. SUFFICES ASSUME m.mask < n.mask PROVE FALSE
      BY <1>1, <1>2, <2>3
    <3>2. m.first <= n.first /\ ~Before(m, n)
      BY <1>1, <1>12, <2>3 DEF Contains
    <3>3. m.first = n.first
      BY <1>1, <1>2, <2>3, <3>2 DEF Before
    <3>4. Contains(c, m) /\ m.first > c.first
      <4>1. LastAddress(c) >= m.first /\ ~(c.first = m.first /\ c.mask >= m.mask)
        BY <1>1, <1>2, <1>3, <3>3
      <4> QED BY <2>3, <4>1, WellInside DEF Loop
    <3>5. m \in R /\ n \in R
      BY <1>1, <1>3, <1>12, <2>3, <3>4, InsideIsRoute
    <3>6. PICK r \in R : ~Opposed(r, c) /\ Contains(r, c) /\ r.mask <= c.mask
      BY DEF Loop, Traced, Stems
    <3>7. r \in Networks /\ r.mask \in Nat /\ r.included \in BOOLEAN /\ m \in Networks
      BY <1>1, <2>3, <3>6, Numbers
    <3>8. Inner(m, r)
      <4>1. Contains(r, m)
        BY <1>1, <3>4, <3>6, <3>7, ContainsTransitive
      <4>2. m.mask > r.mask
        BY <1>2, <1>12, <2>3, <3>6, <3>7
      <4> QED BY <4>1, <4>2 DEF Inner
    <3>9. Inner(n, m)
      <4>1. n.mask > m.mask
        BY <1>1, <1>2, <2>3, <3>1
      <4> QED BY <1>12, <4>1 DEF Inner
    <3>10. Opposed(r, m) /\ Opposed(m, n)
      BY <1>11, <1>12, <3>6 DEF Opposed
    <3> QED BY <3>3, <3>5, <3>6, <3>8, <3>9, <3>10 DEF Layered
  <2> QED BY <2>1, <2>2, <2>3
<1> HIDE DEF S, T
<1>13. SameSay(S, T)
  BY <1>3, <1>9, <1>10, <1>11, <1>12, DropSays
<1>14. SameSay(T, R)
  BY <1>13 DEF Loop, SameSay, S
<1> QED BY <1>4, <1>8, <1>14 DEF Loop, T

\* The current network is split around the next one, of the other sign.
LEMMA LoopSplitsCurrent ==
    ASSUME NEW R, R \subseteq Networks, ~Paired(R), NEW c, NEW Q, NEW D, Loop(c, Q, D, R),
           NEW n \in Heads(Q), LastAddress(c) >= n.first, ~(c.first = n.first /\ c.mask >= n.mask),
           Opposed(c, n), NEW P, P \subseteq Q, Q \ {n} \subseteq P,
           NEW K, K = IF Upper(c).mask = n.mask THEN {n} ELSE {n, Upper(c)}
    PROVE  Loop(Lower(c), P \cup K, D, R)
<1>1. /\ c \in Networks /\ Q \subseteq Networks /\ D \subseteq Networks /\ n \in Q /\ n \in Networks
      /\ \A q \in Q : ~Before(q, n) /\ q.first >= n.first
  BY HeadFacts DEF Loop, Ordered
<1>2. \A x \in Q \cup {c, n} : /\ x.first \in Nat /\ x.mask \in Nat /\ x.included \in BOOLEAN
                               /\ LastAddress(x) \in Nat /\ LastAddress(x) >= x.first
                               /\ x.mask <= Width
  BY <1>1, Numbers
<1>3. Contains(c, n) /\ c.mask < n.mask /\ n.first > c.first
  BY <1>1, WellInside DEF Loop
<1>4. c.mask < Width
  BY <1>1, <1>2, <1>3
<1> DEFINE u == Upper(c)  l == Lower(c)
<1>5. /\ u \in Networks /\ l \in Networks /\ l.first = c.first /\ u.first > c.first
      /\ u.mask = c.mask + 1 /\ l.mask = c.mask + 1
      /\ u.included = c.included /\ l.included = c.included
      /\ u.first \in Nat
      /\ LastAddress(l) + 1 = u.first /\ LastAddress(u) = LastAddress(c) /\ LastAddress(l) \in Nat
      /\ LastAddress(u) >= u.first
  <2>1. /\ u.first = c.first + Size(c.mask + 1) /\ Size(c.mask + 1) \in Nat /\ Size(c.mask + 1) > 0
        /\ LastAddress(l) = c.first + Size(c.mask + 1) - 1
        /\ u \in Networks
    BY <1>1, <1>4, Halved
  <2>2. LastAddress(l) + 1 = u.first /\ LastAddress(l) \in Nat /\ u.first > c.first /\ u.first \in Nat
    BY <1>1, <1>2, <2>1
  <2> QED BY <1>1, <1>4, <2>1, <2>2, Halved, Numbers
<1>6. Contains(c, u) /\ Contains(c, l)
  BY <1>1, <1>4, HalfContained
<1>7. K = IF u.mask = n.mask THEN {n} ELSE {n, u}
  OBVIOUS
<1>8. \A b : b = c => u = Upper(b)
  OBVIOUS
<1> HIDE DEF u, l
<1>9. \A q \in Q : q.first > c.first
  BY <1>1, <1>2, <1>3
\* With a mask one longer the next network is the range of the upper half.
<1>10. u.mask = n.mask => SameNet(n, u)
  BY <1>1, <1>3, <1>4, UpperIsNext DEF u
\* A network with the range of the upper half and of the other sign makes a pair.
<1>11. ASSUME NEW q \in Q, SameNet(q, u), u.mask # n.mask PROVE q = u
  <2>1. q.first = u.first /\ q.mask = u.mask /\ q \in Networks
    BY <1>1, <1>11 DEF SameNet
  <2>2. CASE q.included = u.included
    <3>1. q = [first |-> q.first, mask |-> q.mask, included |-> q.included]
      BY <2>1, NetworkFacts, Fields
    <3>2. u = [first |-> u.first, mask |-> u.mask, included |-> u.included]
      BY <1>5, NetworkFacts, Fields
    <3> QED BY <2>1, <2>2, <3>1, <3>2
  <2>3. CASE q.included # u.included
    <3>1. Contains(c, q) /\ c.mask < q.mask /\ q.first > c.first
      <4>1. LastAddress(q) = LastAddress(u)
        BY <2>1 DEF LastAddress
      <4> QED BY <1>1, <1>2, <1>5, <1>6, <2>1, <4>1 DEF Contains
    <3>2. q \in R /\ n \in R
      BY <1>1, <1>3, <3>1, InsideIsRoute
    <3>3. PICK r \in R : ~Opposed(r, c) /\ Contains(r, c) /\ r.mask <= c.mask
      BY DEF Loop, Traced, Stems
    <3>4. r \in Networks /\ r.mask \in Nat /\ r.included \in BOOLEAN
      BY <3>3, Numbers
    <3>5. Inner(q, r)
      <4>1. Contains(r, q)
        BY <1>1, <2>1, <3>1, <3>3, <3>4, ContainsTransitive
      <4>2. q.mask > r.mask
        BY <1>1, <1>2, <3>1, <3>3, <3>4
      <4> QED BY <4>1, <4>2 DEF Inner
    <3>6. Opposed(q, r) /\ ~Opposed(q, n)
      BY <1>1, <1>2, <1>5, <2>3, <3>3, <3>4 DEF Opposed
    <3>7. Before(n, q)
      BY <1>1, <1>2, <1>11, <2>1 DEF Before
    <3>8. SameNet(u, q) /\ Inner(n, c)
      <4>1. n.mask > c.mask
        BY <1>1, <1>2, <1>3
      <4> QED BY <1>3, <2>1, <4>1 DEF SameNet, Inner
    <3>9. \E b \in Networks : SameNet(Upper(b), q) /\ Inner(n, b)
      BY <1>1, <1>8, <3>8
    <3>10. Paired(R)
      BY <3>2, <3>3, <3>5, <3>6, <3>7, <3>9 DEF Paired
    <3> QED BY <3>10
  <2> QED BY <2>2, <2>3
<1>12. \A q \in P \cup K : q \in Q \/ (q = u /\ u.mask # n.mask)
  BY <1>1, <1>7
<1>13. \A q \in P \cup K : q.first > c.first /\ q \in Networks
  BY <1>1, <1>5, <1>9, <1>12
<1>14. Ordered(l, P \cup K, D)
  <2>1. \A q \in P \cup K : ~Before(q, l) /\ ~SameNet(q, l) /\ ~SameNet(l, q)
    BY <1>1, <1>2, <1>5, <1>13, Numbers DEF Before, SameNet
  <2>2. ASSUME NEW x \in P \cup K, NEW y \in P \cup K, SameNet(x, y) PROVE x = y
    <3>0. SameNet(y, x)
      BY <2>2 DEF SameNet
    <3>1. CASE x \in Q /\ y \in Q
      BY <2>2, <3>1 DEF Loop, Ordered, Distinct
    <3>2. CASE x \in Q /\ y = u /\ u.mask # n.mask
      BY <1>11, <2>2, <3>2
    <3>3. CASE y \in Q /\ x = u /\ u.mask # n.mask
      BY <1>11, <3>0, <3>3
    <3>4. CASE x = u /\ y = u
      BY <3>4
    <3> QED BY <1>12, <3>1, <3>2, <3>3, <3>4
  <2>3. Distinct(P \cup K \cup {l})
    BY <2>1, <2>2 DEF Distinct
  <2>4. \A d \in D : LiesBefore(d, l)
    BY <1>5 DEF Loop, Ordered, LiesBefore
  <2> QED BY <1>5, <1>13, <2>1, <2>3, <2>4 DEF Loop, Ordered
<1>15. \A x : Shielded(l, P \cup K, R, x)
  <2>1. \A t \in P \cup K : t.first # l.first
    BY <1>1, <1>2, <1>5, <1>13, Numbers
  <2> QED BY <2>1 DEF Shielded
<1>16. ASSUME NEW q \in P \cup K
       PROVE  q \in R \/ LowerPiece(l, P \cup K, R, q) \/ UpperPiece(l, P \cup K, R, q)
  <2>1. CASE q = u
    <3>1. c.first = l.first /\ l.mask > c.mask
      BY <1>2, <1>5
    <3> QED BY <1>1, <1>4, <1>8, <1>15, <2>1, <3>1 DEF UpperPiece
  <2>2. CASE q \in Q
    <3>1. ~LowerPiece(c, Q, R, q)
      BY <1>1, <1>2, <1>9, <2>2 DEF LowerPiece
    <3>2. SUFFICES ASSUME UpperPiece(c, Q, R, q) PROVE UpperPiece(l, P \cup K, R, q)
      BY <2>2, <3>1 DEF Loop, Traced
    <3>3. PICK b \in Networks :
            /\ b.mask < Width /\ q = Upper(b)
            /\ c.first > b.first \/ (c.first = b.first /\ c.mask > b.mask)
      BY <3>2 DEF UpperPiece
    <3>4. l.first > b.first \/ (l.first = b.first /\ l.mask > b.mask)
      BY <1>2, <1>5, <3>3, Numbers
    <3> QED BY <1>15, <3>3, <3>4 DEF UpperPiece
  <2> QED BY <1>12, <2>1, <2>2
<1>17. \A x \in (P \cup K) \cup {l} : Stems(R, x)
  <2>1. \A x \in Q \cup {c} : Stems(R, x)
    BY DEF Loop, Traced
  <2>2. Stems(R, u) /\ Stems(R, l)
    <3>1. c.mask <= u.mask /\ c.mask <= l.mask /\ ~Opposed(c, u) /\ ~Opposed(c, l)
      BY <1>2, <1>5 DEF Opposed
    <3> QED BY <1>1, <1>5, <1>6, <2>1, <3>1, Stemming
  <2> QED BY <1>12, <2>1, <2>2
<1>18. \A q \in P \cup K : q.first # l.first
  BY <1>1, <1>2, <1>5, <1>13, Numbers
<1>19. Traced(l, P \cup K, R)
  BY <1>16, <1>17, <1>18 DEF Traced
<1> DEFINE S == D \cup Q \cup {c}  T == D \cup (P \cup K) \cup {l}
<1>20. S \subseteq Networks /\ Distinct(S) /\ Distinct(T)
  BY <1>14, HeldDistinct DEF Loop
<1>21. n \in K /\ c \in S /\ S \ {c} \subseteq T /\ T \subseteq S \cup {u, l}
  BY <1>7, <1>12
<1>22. Has(T, l)
  BY DEF Has, SameNet
<1>23. Has(T, u)
  <2>1. CASE u.mask = n.mask
    BY <1>10, <1>21, <2>1 DEF Has
  <2>2. CASE u.mask # n.mask
    BY <1>7, <2>2 DEF Has, SameNet
  <2> QED BY <2>1, <2>2
<1> HIDE DEF S, T
<1>24. SameSay(S, T)
  BY <1>4, <1>20, <1>21, <1>22, <1>23, SplitSays DEF u, l
<1>25. SameSay(T, R)
  BY <1>24 DEF Loop, SameSay, S
<1>26. Loop(l, P \cup K, D, R)
  BY <1>14, <1>19, <1>25 DEF Loop, T
<1> QED BY <1>26 DEF l

\* Between the iterations of the loop and behind it.
Generating ==
    phase = "generate" =>
        IF currentNet = NoNet THEN Ended(Queue, ipsDone, routes)
        ELSE Loop(currentNet, Queue, ipsDone, routes)

\* The inductive invariant: Generating is the loop invariant of generateIPList.
IInv ==
    /\ phase = "collect" => Queue = {} /\ ipsDone = {} /\ currentNet = NoNet
    /\ ~Layered(routes) /\ ~Paired(routes) => Generating /\ Promised

\* Nothing of the generated networks but the one that decides covers an address.
LEMMA OnlyOneCovers ==
    ASSUME NEW D, D \subseteq Networks, Spread(D), NEW a \in Int,
           NEW d \in D, NEW e \in D, Covers(d, a), Covers(e, a)
    PROVE  d = e
<1>1. /\ d.first \in Nat /\ e.first \in Nat /\ LastAddress(d) \in Nat /\ LastAddress(e) \in Nat
  BY Numbers
<1> QED BY <1>1 DEF Covers, Spread, LiesBefore

\* The range of multicast has a base and an end.
LEMMA MulticastFacts == Multicast.first \in Nat /\ LastAddress(Multicast) \in Int
<1>1. Size(3) \in Nat
  BY Sizes
<1>2. 7 * Size(3) \in Nat
  BY <1>1
<1>3. Multicast = [first |-> 7 * Size(3), mask |-> 3, included |-> TRUE]
  BY DEF Multicast
<1> DEFINE f == 7 * Size(3)
<1> HIDE DEF f
<1>4. Multicast = [first |-> f, mask |-> 3, included |-> TRUE] /\ f \in Nat
  BY <1>2, <1>3 DEF f
<1>5. Multicast.first = f /\ Multicast.mask = 3
  BY <1>4
<1>6. LastAddress(Multicast) = f + Size(3) - 1
  BY <1>5 DEF LastAddress
<1> QED BY <1>1, <1>4, <1>5, <1>6

\* What openTun installs of the generated networks.
LEMMA InstallExact ==
    ASSUME NEW D, D \subseteq Networks, Spread(D), NEW R, R \subseteq Networks, SameSay(D, R),
           NEW dns \in Addresses \cup {NoNet},
           NEW S, S \subseteq Networks,
           S \subseteq {n \in D : n.included} \cup {Host(x) : x \in {dns} \cap Addresses},
           \A n \in D : n.included /\ Installable(n) => n \in S,
           NEW a \in Addresses, ~Contains(Multicast, Host(a)), a # dns
    PROVE  Includes(S, a) <=> Includes(R, a)
<1>1. a \in Int
  BY AddressIsInt
<1>2. S \subseteq Blocks /\ R \subseteq Blocks /\ D \subseteq Blocks
  BY DEF Blocks
<1>3. Includes(R, a) <=> Includes(D, a)
  BY <1>2, SaysIs DEF SameSay
<1>4. \A o \in S : Covers(o, a) => o \in D /\ o.included
  <2>1. ASSUME NEW x \in Addresses, x = dns, Covers(Host(x), a) PROVE FALSE
    <3>1. Host(x).first = x /\ LastAddress(Host(x)) = x /\ x \in Int
      BY HostIsNetwork, AddressIsInt
    <3>2. x = a
      BY <1>1, <2>1, <3>1 DEF Covers
    <3> QED BY <2>1, <3>2
  <2> QED BY <2>1
<1>5. ASSUME Includes(S, a) PROVE Includes(D, a)
  <2>1. PICK n \in S : n.included /\ Covers(n, a)
    BY <1>5 DEF Includes
  <2>2. n \in D
    BY <1>4, <2>1
  <2>3. \A o \in D : Covers(o, a) => o = n
    BY <1>1, <2>1, <2>2, OnlyOneCovers
  <2>4. n.mask <= n.mask
    BY <2>2, Numbers
  <2> QED BY <2>1, <2>2, <2>3, <2>4 DEF Includes
<1>6. ASSUME Includes(D, a) PROVE Includes(S, a)
  <2>1. PICK n \in D : n.included /\ Covers(n, a)
    BY <1>6 DEF Includes
  <2>2. Installable(n)
    <3>1. SUFFICES ASSUME Contains(Multicast, n) PROVE FALSE
      BY DEF Installable
    <3>2. n.first \in Nat /\ LastAddress(n) \in Nat /\ Host(a).first = a /\ LastAddress(Host(a)) = a
      BY Numbers, HostIsNetwork
    <3> QED BY <1>1, <2>1, <3>1, <3>2, MulticastFacts DEF Contains, Covers
  <2>3. n \in S
    BY <2>1, <2>2
  <2>4. \A o \in S : Covers(o, a) => o = n
    BY <1>1, <1>4, <2>1, OnlyOneCovers
  <2>5. n.mask <= n.mask
    BY Numbers
  <2> QED BY <2>1, <2>3, <2>4, <2>5 DEF Includes
<1> QED BY <1>3, <1>5, <1>6

-----------------------------------------------------------------------------
(* Every step keeps the invariant.                                         *)

\* The loop invariant, action by action.
LEMMA InitIInv == Init => IInv
BY NoBag DEF Init, IInv, Generating, Promised, Queue

\* addIP.
LEMMA AddIPIInv ==
    ASSUME TInv, IInv, NEW n \in Networks, AddIP(n) PROVE IInv'
<1>1. phase = "collect" /\ UNCHANGED <<phase, networks, currentNet, ipsDone>>
  BY DEF AddIP
<1>2. Queue = {} /\ ipsDone = {} /\ currentNet = NoNet
  BY <1>1 DEF IInv
<1>3. phase' = "collect" /\ Queue' = {} /\ ipsDone' = {} /\ currentNet' = NoNet
  BY <1>1, <1>2 DEF Queue
<1> QED BY <1>3 DEF IInv, Generating, Promised

\* The first poll of generateIPList.
LEMMA GenerateIInv ==
    ASSUME TInv, IInv, Generate PROVE IInv'
<1>1. /\ phase = "collect" /\ phase' = "generate" /\ routes' = routes /\ ipsDone' = ipsDone
      /\ Queue = {} /\ ipsDone = {} /\ currentNet = NoNet
      /\ routes \subseteq Networks /\ Distinct(routes)
  BY DEF Generate, IInv, TInv, TypeOK
<1>2. CASE routes = {} /\ UNCHANGED <<currentNet, networks>>
  <2>1. Queue' = {} /\ currentNet' = NoNet
    BY <1>1, <1>2 DEF Queue
  <2>2. Ended({}, {}, {})
    BY DEF Ended, Spread, SameSay
  <2> QED BY <1>1, <1>2, <2>1, <2>2 DEF IInv, Generating, Promised
<1>3. ASSUME NEW n \in Heads(routes), currentNet' = n, networks' = SetToBag(routes \ {n})
      PROVE  IInv'
  <2>1. Queue' = routes \ {n}
    BY <1>3, BagOfSet DEF Queue
  <2>2. n # NoNet
    BY <1>1, NetworkFacts DEF Heads
  <2>3. Loop(n, routes \ {n}, {}, routes)
    BY <1>1, LoopStarts
  <2> QED BY <1>1, <1>3, <2>1, <2>2, <2>3 DEF IInv, Generating, Promised
<1> QED BY <1>2, <1>3 DEF Generate

\* The end of its loop.
LEMMA NoneLeftIInv ==
    ASSUME TInv, IInv, NoneLeft PROVE IInv'
<1>1. /\ phase = "generate" /\ phase' = phase /\ routes' = routes /\ currentNet' = NoNet
      /\ Queue = {} /\ Queue' = Queue /\ ipsDone' = TreeAdd(ipsDone, currentNet) /\ currentNet # NoNet
  BY NoBag DEF NoneLeft, Running, Queue
<1>2. Loop(currentNet, Queue, ipsDone, routes) => Ended(Queue, TreeAdd(ipsDone, currentNet), routes)
  BY <1>1, LoopEnds
<1> QED BY <1>1, <1>2 DEF IInv, Generating, Promised

\* A step of the loop that goes on.
LEMMA LoopSteps ==
    ASSUME TInv, IInv, phase = "generate", currentNet # NoNet,
           phase' = phase, routes' = routes, currentNet' # NoNet,
           ~Layered(routes) /\ ~Paired(routes) /\ Loop(currentNet, Queue, ipsDone, routes) =>
               Loop(currentNet', Queue', ipsDone', routes)
    PROVE  IInv'
BY DEF IInv, Generating, Promised

\* A network that does not overlap.
LEMMA ApartIInv ==
    ASSUME TInv, IInv, NEW n, Apart(n) PROVE IInv'
<1>1. /\ phase = "generate" /\ currentNet # NoNet /\ phase' = phase /\ routes' = routes
      /\ n \in Heads(Queue) /\ LastAddress(currentNet) < n.first
      /\ currentNet' = n /\ ipsDone' = TreeAdd(ipsDone, currentNet)
  BY DEF Apart, Running, Queue
<1>2. n # NoNet /\ routes \subseteq Networks
  BY <1>1, BlockFacts DEF TInv, TypeOK, Queue, Heads
<1>3. Queue' \subseteq Queue /\ Queue \ {n} \subseteq Queue'
  BY RestIs DEF Apart, Queue, TInv
<1>4. Loop(currentNet, Queue, ipsDone, routes) => Loop(n, Queue', TreeAdd(ipsDone, currentNet), routes)
  BY <1>1, <1>2, <1>3, LoopApart
<1> QED BY <1>1, <1>2, <1>4, LoopSteps

\* What the four cases of an overlap have in common.
LEMMA OverlappingIs ==
    ASSUME TInv, NEW n, Overlapping(n)
    PROVE  /\ phase = "generate" /\ currentNet # NoNet /\ phase' = phase /\ routes' = routes
           /\ ipsDone' = ipsDone /\ n \in Heads(Queue) /\ LastAddress(currentNet) >= n.first
           /\ n # NoNet /\ routes \subseteq Networks
           /\ n.mask \in Nat /\ currentNet.mask \in Nat /\ currentNet \in Blocks
BY BlockFacts DEF Overlapping, Overlaps, Running, Queue, TInv, TypeOK, Heads

\* The current network is forgotten.
LEMMA ForgetCurrentIInv ==
    ASSUME TInv, IInv, NEW n, ForgetCurrent(n) PROVE IInv'
<1>1. Overlapping(n) /\ currentNet' = n
  BY DEF ForgetCurrent
<1>2. currentNet.first = n.first /\ n.mask <= currentNet.mask /\ ~Opposed(currentNet, n)
  BY <1>1, OverlappingIs DEF ForgetCurrent, SameBase
<1>3. Queue' \subseteq Queue /\ Queue \ {n} \subseteq Queue'
  BY RestIs DEF ForgetCurrent, Queue, TInv
<1>4. ~Layered(routes) /\ Loop(currentNet, Queue, ipsDone, routes) => Loop(n, Queue', ipsDone, routes)
  BY <1>1, <1>2, <1>3, OverlappingIs, LoopForgets
<1> QED BY <1>1, <1>4, OverlappingIs, LoopSteps

\* The next network is ignored.
LEMMA IgnoreNextIInv ==
    ASSUME TInv, IInv, NEW n, IgnoreNext(n) PROVE IInv'
<1>1. Overlapping(n) /\ currentNet' = currentNet
  BY DEF IgnoreNext
<1>2. ~(currentNet.first = n.first /\ currentNet.mask >= n.mask) /\ ~Opposed(currentNet, n)
  BY DEF IgnoreNext, SameBase
<1>3. Queue' \subseteq Queue /\ Queue \ {n} \subseteq Queue'
  BY RestIs DEF IgnoreNext, Queue, TInv
<1>4. ~Layered(routes) /\ Loop(currentNet, Queue, ipsDone, routes)
        => Loop(currentNet, Queue', ipsDone, routes)
  BY <1>1, <1>2, <1>3, OverlappingIs, LoopIgnores
<1> QED BY <1>1, <1>4, OverlappingIs, LoopSteps

\* The next network is split.
LEMMA SplitNextIInv ==
    ASSUME TInv, IInv, NEW n, SplitNext(n) PROVE IInv'
<1> DEFINE P == BagToSet(Rest(n))
<1>1. Overlapping(n) /\ currentNet' = currentNet
  BY DEF SplitNext
<1>2. currentNet.first = n.first /\ n.mask <= currentNet.mask /\ Opposed(currentNet, n)
  BY <1>1, OverlappingIs DEF SplitNext, SameBase
<1>3. IsABag(Rest(n)) /\ P \subseteq Queue /\ Queue \ {n} \subseteq P
  BY RestIs DEF TInv
<1>4. Queue' = P \cup Halves(n)
  BY <1>3, BagPut DEF SplitNext, Queue
<1>5. Halves(n) = PutBack(currentNet, P, n)
  BY DEF Halves, PutBack
<1> HIDE DEF P
<1>6. ASSUME Loop(currentNet, Queue, ipsDone, routes)
      PROVE  Loop(currentNet, P \cup Halves(n), ipsDone, routes)
  <2>1. n \in Heads(Queue) /\ routes \subseteq Networks
    BY <1>1, OverlappingIs
  <2> QED BY <1>2, <1>3, <1>5, <1>6, <2>1, LoopSplitsNext
<1> QED BY <1>1, <1>4, <1>6, OverlappingIs, LoopSteps

\* The current network is split.
LEMMA SplitCurrentIInv ==
    ASSUME TInv, IInv, NEW n, SplitCurrent(n) PROVE IInv'
<1> DEFINE P == BagToSet(Rest(n))
<1>1. Overlapping(n) /\ currentNet' = Lower(currentNet)
  BY DEF SplitCurrent
<1>2. ~(currentNet.first = n.first /\ currentNet.mask >= n.mask) /\ Opposed(currentNet, n)
  BY DEF SplitCurrent, SameBase
<1>3. IsABag(Rest(n)) /\ P \subseteq Queue /\ Queue \ {n} \subseteq P
  BY RestIs DEF TInv
<1>4. Queue' = P \cup Kept(n)
  BY <1>3, BagPut DEF SplitCurrent, Queue
<1>5. Kept(n) = IF Upper(currentNet).mask = n.mask THEN {n} ELSE {n, Upper(currentNet)}
  BY DEF Kept
<1> HIDE DEF P
<1>6. ~Paired(routes) /\ Loop(currentNet, Queue, ipsDone, routes)
        => Loop(Lower(currentNet), P \cup Kept(n), ipsDone, routes)
  BY <1>1, <1>2, <1>3, <1>5, OverlappingIs, LoopSplitsCurrent
<1>7. Lower(currentNet) # NoNet
  <2>1. /\ IsNet(currentNet) /\ currentNet.first \in Nat /\ currentNet.mask + 1 \in Nat
        /\ currentNet.included \in BOOLEAN
    BY <1>1, OverlappingIs, BlockFacts
  <2>2. Lower(currentNet)
          = [first |-> currentNet.first, mask |-> currentNet.mask + 1, included |-> currentNet.included]
    BY <2>1, Halving
  <2>3. IsNet(Lower(currentNet))
    BY <2>1, <2>2, IsNetOf
  <2> QED BY <2>3, NoNetIsNone
<1> QED BY <1>1, <1>4, <1>6, <1>7, OverlappingIs, LoopSteps

\* openTun installs the positive list.
LEMMA InstallPositiveOnlyIInv ==
    ASSUME TInv, IInv, NEW dns \in Addresses \cup {NoNet}, InstallPositiveOnly(dns) PROVE IInv'
<1>1. /\ phase = "generate" /\ currentNet = NoNet /\ phase' = "installed" /\ routes' = routes
      /\ resolver' = dns /\ installed' = {n \in Positive(dns) : Installable(n)}
      /\ routes \subseteq Networks
  BY DEF InstallPositiveOnly, Generated, TInv, TypeOK
<1>2. SUFFICES ASSUME ~Layered(routes), ~Paired(routes),
                      NEW a \in Addresses, ~Contains(Multicast, Host(a)), a # dns
               PROVE  Includes(installed', a) <=> Includes(routes, a)
  BY <1>1 DEF IInv, Generating, Promised
<1>3. ipsDone \subseteq Networks /\ Spread(ipsDone) /\ SameSay(ipsDone, routes)
  BY <1>1, <1>2 DEF IInv, Generating, Ended
<1>4. installed' \subseteq {n \in ipsDone : n.included} \cup {Host(x) : x \in {dns} \cap Addresses}
  BY <1>1 DEF Positive
<1>5. \A n \in ipsDone : n.included /\ Installable(n) => n \in installed'
  BY <1>1 DEF Positive
<1>6. installed' \subseteq Networks
  BY <1>3, <1>4, HostIsNetwork
<1> DEFINE S == installed'
<1> HIDE DEF S
<1>7. /\ S \subseteq {n \in ipsDone : n.included} \cup {Host(x) : x \in {dns} \cap Addresses}
      /\ \A n \in ipsDone : n.included /\ Installable(n) => n \in S
      /\ S \subseteq Networks
  BY <1>4, <1>5, <1>6 DEF S
<1>8. Includes(S, a) <=> Includes(routes, a)
  BY <1>1, <1>2, <1>3, <1>7, InstallExact
<1> QED BY <1>8 DEF S

\* openTun installs the routes as they came.
LEMMA InstallRoutesExcludedIInv ==
    ASSUME TInv, IInv, InstallRoutesExcluded PROVE IInv'
BY DEF InstallRoutesExcluded, IInv, Generating, Promised, Includes

\* Every step.
LEMMA NextIInv == TInv /\ IInv /\ [Next]_vars => IInv'
<1> SUFFICES ASSUME TInv, IInv, [Next]_vars PROVE IInv'
  OBVIOUS
<1>1. ASSUME NEW n \in Networks, AddIP(n) PROVE IInv'
  BY <1>1, AddIPIInv
<1>2. CASE Generate
  BY <1>2, GenerateIInv
<1>3. CASE NoneLeft
  BY <1>3, NoneLeftIInv
<1>4. ASSUME NEW n, Apart(n) PROVE IInv'
  BY <1>4, ApartIInv
<1>5. ASSUME NEW n, ForgetCurrent(n) PROVE IInv'
  BY <1>5, ForgetCurrentIInv
<1>6. ASSUME NEW n, SplitNext(n) PROVE IInv'
  BY <1>6, SplitNextIInv
<1>7. ASSUME NEW n, IgnoreNext(n) PROVE IInv'
  BY <1>7, IgnoreNextIInv
<1>8. ASSUME NEW n, SplitCurrent(n) PROVE IInv'
  BY <1>8, SplitCurrentIInv
<1>9. ASSUME NEW dns \in Addresses \cup {NoNet}, InstallPositiveOnly(dns) PROVE IInv'
  BY <1>9, InstallPositiveOnlyIInv
<1>10. CASE InstallRoutesExcluded
  BY <1>10, InstallRoutesExcludedIInv
<1>11. CASE UNCHANGED vars
  BY <1>11 DEF IInv, Generating, Promised, vars, Queue
<1> QED BY <1>1, <1>2, <1>3, <1>4, <1>5, <1>6, <1>7, <1>8, <1>9, <1>10, <1>11 DEF Next, Iterate

\* The assertions hold of a loop that goes on.
LEMMA AssertedInLoop == TInv /\ IInv => Asserted
<1> SUFFICES ASSUME TInv, IInv, ~Layered(routes), ~Paired(routes),
                    NEW n \in BagToSet(networks), Overlaps(n)
             PROVE  IF SameBase(n)
                    THEN Opposed(currentNet, n) =>
                            /\ HalvesFill(n)
                            /\ LastAddress(Lower(n)) = LastAddress(currentNet)
                                 => Lower(n).mask = currentNet.mask
                    ELSE /\ currentNet.mask < n.mask /\ n.first > currentNet.first
                         /\ LastAddress(currentNet) >= LastAddress(n)
                         /\ Opposed(currentNet, n) =>
                                /\ HalvesFill(currentNet)
                                /\ Upper(currentNet).mask = n.mask => Upper(currentNet).first = n.first
  BY DEF Asserted
<1>1. Ordered(currentNet, Queue, ipsDone) /\ n \in Queue /\ LastAddress(currentNet) >= n.first
  BY DEF IInv, Generating, Overlaps, Running, Queue, Loop
<1>2. currentNet.mask \in Nat /\ n.mask \in Nat
  BY <1>1, Numbers DEF Ordered
<1>3. CASE SameBase(n)
  <2>1. currentNet.first = n.first /\ n.mask <= currentNet.mask
    BY <1>2, <1>3 DEF SameBase
  <2> QED BY <1>1, <1>3, <2>1, NextIsHalved
<1>4. CASE ~SameBase(n)
  <2>1. ~(currentNet.first = n.first /\ currentNet.mask >= n.mask)
    BY <1>4 DEF SameBase
  <2> QED BY <1>1, <1>4, <2>1, CurrentIsHalved
<1> QED BY <1>3, <1>4

\* What the runs check follows from the invariant.
LEMMA Implied == TInv /\ IInv => Preserved /\ Exact
<1> SUFFICES ASSUME TInv, IInv PROVE Preserved /\ Exact
  OBVIOUS
<1>1. Exact
  BY DEF IInv, Exact
<1>2. ASSUME phase = "generate", ~Layered(routes), ~Paired(routes), NEW a \in Addresses
      PROVE  LET held == ipsDone \cup BagToSet(networks) \cup ({currentNet} \ {NoNet})
             IN  /\ Includes(held, a) <=> Includes(routes, a)
                 /\ Excludes(held, a) <=> Excludes(routes, a)
  <2> DEFINE held == ipsDone \cup BagToSet(networks) \cup ({currentNet} \ {NoNet})
  <2>1. routes \subseteq Blocks /\ held \subseteq Blocks
    BY DEF TInv, TypeOK, Blocks
  <2>2. SameSay(held, routes)
    <3>1. CASE currentNet = NoNet
      <4>1. held = ipsDone
        BY <1>2, <3>1 DEF IInv, Generating, Ended, Queue
      <4> QED BY <1>2, <3>1, <4>1 DEF IInv, Generating, Ended
    <3>2. CASE currentNet # NoNet
      <4>1. held = ipsDone \cup Queue \cup {currentNet}
        BY <3>2 DEF Queue
      <4> QED BY <1>2, <3>2, <4>1 DEF IInv, Generating, Loop
    <3> QED BY <3>1, <3>2
  <2> HIDE DEF held
  <2>3. /\ Includes(held, a) <=> Includes(routes, a)
        /\ Excludes(held, a) <=> Excludes(routes, a)
    BY <2>1, <2>2, SaysIs DEF SameSay
  <2> QED BY <2>3 DEF held
<1>3. Preserved
  BY <1>2 DEF Preserved
<1> QED BY <1>1, <1>3

\* At every step the types are right and, with routes that are neither layered nor
\* paired, what is held says of every address what the routes say.
THEOREM RoutesInvariant == Spec => [](TInv /\ IInv)
<1>1. Init => TInv /\ IInv
  BY InitTInv, InitIInv
<1>2. TInv /\ IInv /\ [Next]_vars => (TInv /\ IInv)'
  BY NextTInv, NextIInv
<1> QED BY <1>1, <1>2, PTL DEF Spec

\* What generateIPList holds are networks of the address space or what a single address is
\* split into: one bit too long a mask, the upper one a last address further than split()
\* asserts.  Neither of these is split again (split, getMaskedAddress).
THEOREM RoutesTypeOK == Spec => []TypeOK
<1>1. TInv => TypeOK
  BY DEF TInv
<1> QED BY <1>1, RoutesInvariant, PTL

\* At every iteration of generateIPList the networks done, current and queued include and
\* exclude each address as the routes do.
THEOREM RoutesPreserved == Spec => []Preserved
BY Implied, RoutesInvariant, PTL

\* openTun gives the tunnel exactly the addresses whose most specific route is included,
\* whichever way it installs them.
THEOREM RoutesExact == Spec => []Exact
BY Implied, RoutesInvariant, PTL

\* With routes that are neither layered nor paired every assertion of generateIPList, and
\* that of split(), holds whenever it is evaluated.
THEOREM RoutesAsserted == Spec => []Asserted
BY AssertedInLoop, RoutesInvariant, PTL

-----------------------------------------------------------------------------
(* Whatever the routes, the networks generated are disjoint.               *)

Disjoint ==
    /\ phase = "collect" => ipsDone = {}
    /\ currentNet # NoNet => \A d \in ipsDone : LiesBefore(d, currentNet)
    /\ Spread(ipsDone)

\* The current network is done, and the next one begins behind it.
LEMMA DoneDisjoint ==
    ASSUME TInv, Disjoint, currentNet # NoNet
    PROVE  /\ Spread(TreeAdd(ipsDone, currentNet))
           /\ \A n \in Blocks : LastAddress(currentNet) < n.first =>
                  \A d \in TreeAdd(ipsDone, currentNet) : LiesBefore(d, n)
<1>1. TreeAdd(ipsDone, currentNet) \subseteq ipsDone \cup {currentNet}
  BY DEF TreeAdd
<1>2. Spread(ipsDone \cup {currentNet})
  BY DEF Disjoint, Spread
<1>3. ASSUME NEW n \in Blocks, LastAddress(currentNet) < n.first, NEW d \in ipsDone \cup {currentNet}
      PROVE  LiesBefore(d, n)
  <2>1. /\ currentNet \in Blocks /\ d \in Blocks
        /\ d # currentNet => LastAddress(d) < currentNet.first
    BY DEF TInv, TypeOK, Disjoint, LiesBefore
  <2>2. /\ LastAddress(d) \in Nat /\ currentNet.first \in Nat /\ n.first \in Nat
        /\ LastAddress(currentNet) >= currentNet.first /\ LastAddress(currentNet) \in Nat
    BY <2>1, BlockFacts
  <2> QED BY <1>3, <2>1, <2>2 DEF LiesBefore
<1> QED BY <1>1, <1>2, <1>3 DEF Spread

\* The base of the current network stays where it is unless the network is done.
LEMMA NextDisjoint == TInv /\ Disjoint /\ [Next]_vars => Disjoint'
<1> SUFFICES ASSUME TInv, Disjoint, [Next]_vars PROVE Disjoint'
  OBVIOUS
<1>1. ASSUME NEW n \in Networks, AddIP(n) PROVE Disjoint'
  BY <1>1 DEF AddIP, Disjoint
<1>2. CASE Generate
  BY <1>2 DEF Generate, Disjoint, Spread
<1>3. CASE NoneLeft
  <2>1. Spread(ipsDone') /\ currentNet' = NoNet /\ phase' = "generate"
    BY <1>3, DoneDisjoint DEF NoneLeft, Running
  <2> QED BY <2>1 DEF Disjoint
<1>4. ASSUME NEW n, Apart(n) PROVE Disjoint'
  <2>1. /\ currentNet # NoNet /\ LastAddress(currentNet) < n.first /\ n \in Blocks
        /\ phase' = "generate"
        /\ currentNet' = n /\ ipsDone' = TreeAdd(ipsDone, currentNet)
    BY <1>4 DEF Apart, Running, TInv, TypeOK, Heads
  <2> QED BY <2>1, DoneDisjoint DEF Disjoint
<1>5. ASSUME ipsDone' = ipsDone, currentNet # NoNet, currentNet'.first = currentNet.first,
             phase' = "generate"
      PROVE  Disjoint'
  BY <1>5 DEF Disjoint, LiesBefore
<1>6. ASSUME NEW n, ForgetCurrent(n) PROVE Disjoint'
  BY <1>5, <1>6, OverlappingIs DEF ForgetCurrent, SameBase
<1>7. ASSUME NEW n, SplitNext(n) PROVE Disjoint'
  BY <1>5, <1>7, OverlappingIs DEF SplitNext
<1>8. ASSUME NEW n, IgnoreNext(n) PROVE Disjoint'
  BY <1>5, <1>8, OverlappingIs DEF IgnoreNext
<1>9. ASSUME NEW n, SplitCurrent(n) PROVE Disjoint'
  <2>1. Lower(currentNet).first = currentNet.first /\ ipsDone' = ipsDone /\ currentNet # NoNet
        /\ currentNet' = Lower(currentNet) /\ phase' = "generate"
    <3>1. Overlapping(n) /\ currentNet' = Lower(currentNet)
      BY <1>9 DEF SplitCurrent
    <3>2. IsNet(currentNet) /\ currentNet # NoNet /\ ipsDone' = ipsDone /\ phase' = "generate"
      BY <3>1, OverlappingIs, BlockFacts
    <3> QED BY <3>1, <3>2, Halving
  <2> QED BY <1>5, <2>1
<1>10. ASSUME NEW dns \in Addresses \cup {NoNet}, InstallPositiveOnly(dns) PROVE Disjoint'
  BY <1>10 DEF InstallPositiveOnly, Disjoint
<1>11. CASE InstallRoutesExcluded
  BY <1>11 DEF InstallRoutesExcluded, Disjoint
<1>12. CASE UNCHANGED vars
  BY <1>12 DEF vars, Disjoint
<1> QED BY <1>1, <1>2, <1>3, <1>4, <1>6, <1>7, <1>8, <1>9, <1>10, <1>11, <1>12 DEF Next, Iterate

\* The networks of generateIPList do not overlap, layered and paired routes included.
THEOREM RoutesDisjoint == Spec => []Spread(ipsDone)
<1>1. Init => TInv /\ Disjoint
  BY InitTInv DEF Init, Disjoint, Spread
<1>2. TInv /\ Disjoint /\ [Next]_vars => (TInv /\ Disjoint)'
  BY NextTInv, NextDisjoint
<1>3. Disjoint => Spread(ipsDone)
  BY DEF Disjoint
<1> QED BY <1>1, <1>2, <1>3, PTL DEF Spec
=============================================================================
