--------------------------- MODULE TunSetupProofs ---------------------------
(***************************************************************************)
(* Proofs about TunSetup.  The invariant Talk says what is under way       *)
(* between a process that waits in a question and the app; with it a       *)
(* process knows which descriptor an answer carries.  A second invariant   *)
(* follows what was pushed from what is left to ask into tunConfig.        *)
(***************************************************************************)
EXTENDS TunSetup, TLAPS

Collecting == {"IFCONFIG", "ROUTE", "DNSSERVER"}
Alive      == {"connecting", "asking", "up"}

IsAnswer(m) == m.line \notin {"network-change", "signal"}

Silent(q) == \A i \in 1 .. Len(q) : ~IsAnswer(q[i])

\* One of the lines is an answer, and it is among M.
Answered(q, M) ==
    \E i \in 1 .. Len(q) :
        /\ IsAnswer(q[i]) /\ q[i] \in M
        /\ \A j \in 1 .. Len(q) : j # i => ~IsAnswer(q[j])

\* A tun that may follow the one the process has.
Fits(t) ==
    /\ t \in Tuns /\ t # held
    /\ tunOf[t] = mLastTunCfg /\ tunOf[t].ip # NoAddress
    /\ held # NoTun => tunOf[held] # tunOf[t] \/ Excluding(held)

\* What the app may answer to the question the process waits in.
Good(m) ==
    /\ query.need \in Collecting => m.line = "ok"
    /\ query.need = "PERSIST_TUN_ACTION" =>
         \/ m.line = "NOACTION" /\ tunConfig = mLastTunCfg
         \/ m.line = "OPEN_BEFORE_CLOSE" /\ tunConfig # mLastTunCfg
    /\ query.need = "OPENTUN" => m.line = "cancel" \/ (m.line = "ok" /\ Fits(m.fd))

GoodLines == {m \in Lines : Good(m)}

\* The app has answered the question for a tun, or is about to.
Opened == phase = "asking" /\ query.need = "OPENTUN" /\ toJava = <<>>

Waiting == phase = "asking" /\ query # NoNeed

\* A question is in the socket, in sendCommandWithFd, or answered; otherwise nothing is.
Talk ==
    /\ phase \in Alive /\ ~Waiting => toJava = <<>> /\ sending # "set" /\ Silent(toProc)
    /\ Waiting =>
         \/ toJava = <<query>> /\ sending # "set" /\ Silent(toProc)
         \/ toJava = <<>> /\ sending = "set" /\ Silent(toProc)
            /\ query.need = "OPENTUN" /\ Fits(outbound)
         \/ toJava = <<>> /\ sending # "set" /\ Answered(toProc, GoodLines)

Outbound == outbound = NoTun <=> sending = "no"

Held == held # NoTun => descriptors[held] > 0

Kept ==
    phase \in Alive /\ held # NoTun =>
        /\ tunOf[held].ip # NoAddress
        /\ ~Opened => tunOf[held] = mLastTunCfg

\* The questions are asked in their order.
Order ==
    /\ left.address => pushed.ip # NoAddress
    /\ phase = "failing" => method = "none"
    /\ phase = "asking" =>
        /\ query.need \in Collecting \cup {"PERSIST_TUN_ACTION"} => method = "none"
        /\ query.need = "OPENTUN" => method # "none"
        /\ query.need = "PERSIST_TUN_ACTION" \/ method # "none" => left = NothingLeft
        /\ method = "NOACTION" => held = NoTun
        /\ method = "OPEN_BEFORE_CLOSE" /\ ~Opened => tunConfig # mLastTunCfg

Unasked == phase \in {"connecting", "off"} => query = NoNeed /\ method = "none"

\* A new process has a new socket.
StartsClean == phase = "off" => toProc = <<>> /\ held = NoTun

IInv == TypeOK /\ Talk /\ Outbound /\ Held /\ Kept /\ Order /\ Unasked /\ StartsClean

-----------------------------------------------------------------------------
(* Lines that are appended and read.                                       *)

LEMMA SilentAppend ==
    ASSUME NEW q \in Seq(Lines), NEW m \in Lines, Silent(q), ~IsAnswer(m)
    PROVE  Silent(Append(q, m))
BY DEF Silent

LEMMA AnswerAppend ==
    ASSUME NEW q \in Seq(Lines), NEW m \in Lines, NEW M, Silent(q), IsAnswer(m), m \in M
    PROVE  Answered(Append(q, m), M)
<1>1. Len(q) + 1 \in 1 .. Len(Append(q, m)) /\ Append(q, m)[Len(q) + 1] = m
  OBVIOUS
<1>2. \A j \in 1 .. Len(Append(q, m)) : j # Len(q) + 1 => ~IsAnswer(Append(q, m)[j])
  BY DEF Silent
<1> QED
  BY <1>1, <1>2 DEF Answered

LEMMA AnsweredAppend ==
    ASSUME NEW q \in Seq(Lines), NEW m \in Lines, NEW M, Answered(q, M), ~IsAnswer(m)
    PROVE  Answered(Append(q, m), M)
<1>1. PICK i \in 1 .. Len(q) :
         IsAnswer(q[i]) /\ q[i] \in M /\ \A j \in 1 .. Len(q) : j # i => ~IsAnswer(q[j])
  BY DEF Answered
<1>2. i \in 1 .. Len(Append(q, m)) /\ Append(q, m)[i] = q[i]
  OBVIOUS
<1>3. \A j \in 1 .. Len(Append(q, m)) : j # i => ~IsAnswer(Append(q, m)[j])
  BY <1>1
<1> QED
  BY <1>1, <1>2, <1>3 DEF Answered

LEMMA SilentTail ==
    ASSUME NEW q \in Seq(Lines), q # <<>>, Silent(q)
    PROVE  Silent(Tail(q)) /\ ~IsAnswer(Head(q))
BY DEF Silent

LEMMA AnsweredTail ==
    ASSUME NEW q \in Seq(Lines), NEW M, q # <<>>, Answered(q, M)
    PROVE  /\ ~IsAnswer(Head(q)) => Answered(Tail(q), M)
           /\ IsAnswer(Head(q)) => Head(q) \in M /\ Silent(Tail(q))
<1>1. PICK i \in 1 .. Len(q) :
         IsAnswer(q[i]) /\ q[i] \in M /\ \A j \in 1 .. Len(q) : j # i => ~IsAnswer(q[j])
  BY DEF Answered
<1>2. CASE i = 1
  <2>1. Head(q) = q[1]
    OBVIOUS
  <2>2. Silent(Tail(q))
    BY <1>1, <1>2 DEF Silent
  <2> QED
    BY <1>1, <1>2, <2>1, <2>2
<1>3. CASE i # 1
  <2>1. i - 1 \in 1 .. Len(Tail(q)) /\ Tail(q)[i - 1] = q[i]
    BY <1>3
  <2>2. \A j \in 1 .. Len(Tail(q)) : j # i - 1 => ~IsAnswer(Tail(q)[j])
    BY <1>1
  <2>3. ~IsAnswer(Head(q))
    BY <1>1, <1>3
  <2> QED
    BY <1>1, <2>1, <2>2, <2>3 DEF Answered
<1> QED
  BY <1>2, <1>3

-----------------------------------------------------------------------------
LEMMA EmptyTypes ==
    /\ EmptyConfig \in Configs /\ EmptyReply \in Replies /\ NoNeed \in Needs
    /\ NothingLeft \in [address : BOOLEAN, routes : SUBSET PushedRoutes, dns : Seq(Servers)]
    /\ 0 \in 0 .. MaxSessions
<1>1. EmptyConfig \in Configs /\ EmptyReply \in Replies
  BY DEF EmptyConfig, Configs, EmptyReply, Replies, Remotes
<1>2. NothingLeft \in [address : BOOLEAN, routes : SUBSET PushedRoutes, dns : Seq(Servers)]
  BY DEF NothingLeft
<1>3. NoNeed \in Needs
  BY DEF NoNeed, Needs
<1> QED
  BY <1>1, <1>2, <1>3, TunAssumption

LEMMA InitIInv == Init => IInv
<1> SUFFICES ASSUME Init PROVE IInv
  OBVIOUS
<1>1. TypeOK
  <2>1. tunOf \in [Tuns -> Configs] /\ descriptors \in [Tuns -> Nat]
    BY EmptyTypes DEF Init
  <2>2. toJava \in Seq(Needs \ {NoNeed}) /\ toProc \in Seq(Lines)
    BY DEF Init
  <2>3. left \in [address : BOOLEAN, routes : SUBSET PushedRoutes, dns : Seq(Servers)] /\ query \in Needs
    BY EmptyTypes DEF Init
  <2>4. sessions \in 0 .. MaxSessions
    BY TunAssumption DEF Init
  <2>5. mRemoteGW \in Remotes
    BY DEF Init, Remotes
  <2> QED
    BY EmptyTypes, <2>1, <2>2, <2>3, <2>4, <2>5 DEF Init, TypeOK
<1> QED
  BY <1>1 DEF Init, IInv, Talk, Outbound, Held, Kept, Order, Unasked, StartsClean, Alive, Waiting, NothingLeft

-----------------------------------------------------------------------------
(* The app.                                                                *)

LineNames == {"ok", "cancel", "NOACTION", "OPEN_BEFORE_CLOSE", "network-change", "signal"}

LEMMA HandleFacts ==
    ASSUME IInv, NEW n, Handle(n)
    PROVE  /\ n \in Needs /\ n # NoNeed /\ toJava' \in Seq(Needs \ {NoNeed})
           /\ sending = "no" /\ outbound = NoTun
           /\ phase \in Alive =>
                Waiting /\ n = query /\ toJava = <<query>> /\ toJava' = <<>> /\ Silent(toProc)
<1> USE DEF IInv
<1>1. n \in Needs /\ n # NoNeed /\ toJava' \in Seq(Needs \ {NoNeed})
  BY DEF TypeOK, Handle
<1>2. sending = "no" /\ outbound = NoTun /\ toJava # <<>>
  BY DEF Handle, Outbound
<1>3. ASSUME phase \in Alive
      PROVE  Waiting /\ n = query /\ toJava = <<query>> /\ toJava' = <<>> /\ Silent(toProc)
  <2>1. Waiting /\ toJava = <<query>> /\ Silent(toProc)
    BY <1>2, <1>3 DEF Talk
  <2> QED
    BY <2>1 DEF Handle
<1> QED
  BY <1>1, <1>2, <1>3

LEMMA WriteType ==
    ASSUME TypeOK, NEW line \in LineNames, Write(line)
    PROVE  /\ toProc' \in Seq(Lines) /\ [line |-> line, fd |-> outbound] \in Lines
           /\ phase # "off" => toProc' = Append(toProc, [line |-> line, fd |-> outbound])
<1>1. [line |-> line, fd |-> outbound] \in Lines
  BY DEF TypeOK, Lines, LineNames
<1> QED
  BY <1>1 DEF TypeOK, Write

LEMMA CollectType ==
    ASSUME TypeOK, NEW n \in Needs
    PROVE  /\ n.need = "IFCONFIG" => SetLocalIP(n.arg.ip) \in Configs /\ n.arg.remote \in Remotes
           /\ n.need = "ROUTE" => AddRoute(n.arg) \in Configs
           /\ n.need = "DNSSERVER" => AddDNS(n.arg) \in Configs
<1>1. tunConfig \in Configs
  BY DEF TypeOK
<1>2. ASSUME n.need = "IFCONFIG" PROVE SetLocalIP(n.arg.ip) \in Configs /\ n.arg.remote \in Remotes
  <2>1. n.arg.ip \in Nets /\ n.arg.remote \in Remotes
    BY <1>2 DEF Needs, NoNeed
  <2>2. [net |-> n.arg.ip, included |-> TRUE] \in Routes
    BY <2>1 DEF Routes
  <2>3. WithOwn(n.arg.ip, tunConfig.routes) \in SUBSET Routes
    BY <1>1, <2>2 DEF WithOwn, Added, Configs
  <2> QED
    BY <1>1, <2>1, <2>3 DEF SetLocalIP, Configs
<1>3. ASSUME n.need = "ROUTE" PROVE AddRoute(n.arg) \in Configs
  <2> DEFINE r == [net |-> n.arg.net, included |-> LeadsIn(n.arg.gateway, tunConfig.ip, mRemoteGW)]
  <2>1. n.arg.net \in Nets
    BY <1>3 DEF Needs, NoNeed, PushedRoutes
  <2>2. r \in Routes
    <3>1. LeadsIn(n.arg.gateway, tunConfig.ip, mRemoteGW) \in BOOLEAN
      BY DEF LeadsIn
    <3> QED
      BY <2>1, <3>1 DEF Routes
  <2> HIDE DEF r
  <2>3. Added(tunConfig.routes, r) \in SUBSET Routes
    BY <1>1, <2>2 DEF Added, Configs
  <2>4. AddRoute(n.arg) = tunConfig \/ AddRoute(n.arg) = [tunConfig EXCEPT !.routes = Added(@, r)]
    BY DEF AddRoute, r
  <2> QED
    BY <1>1, <2>3, <2>4 DEF Configs
<1>4. ASSUME n.need = "DNSSERVER" PROVE AddDNS(n.arg) \in Configs
  <2>1. n.arg \in Servers
    BY <1>4 DEF Needs, NoNeed
  <2>2. Append(tunConfig.dns, n.arg) \in Seq(Servers)
    BY <1>1, <2>1 DEF Configs
  <2> QED
    BY <1>1, <2>2 DEF AddDNS, Configs
<1> QED
  BY <1>2, <1>3, <1>4

LEMMA CollectStep == ASSUME IInv, Collect PROVE IInv'
<1>1. PICK n \in Needs :
         /\ Handle(n)
         /\ \/ n.need = "IFCONFIG" /\ tunConfig' = SetLocalIP(n.arg.ip) /\ mRemoteGW' = n.arg.remote
            \/ n.need = "ROUTE" /\ tunConfig' = AddRoute(n.arg) /\ UNCHANGED mRemoteGW
            \/ n.need = "DNSSERVER" /\ tunConfig' = AddDNS(n.arg) /\ UNCHANGED mRemoteGW
  BY DEF Collect
<1>2. /\ n # NoNeed /\ toJava' \in Seq(Needs \ {NoNeed}) /\ outbound = NoTun /\ sending = "no"
      /\ phase \in Alive =>
           Waiting /\ n = query /\ toJava = <<query>> /\ toJava' = <<>> /\ Silent(toProc)
  BY <1>1, HandleFacts
<1>3. /\ toProc' \in Seq(Lines) /\ [line |-> "ok", fd |-> outbound] \in Lines
      /\ phase # "off" => toProc' = Append(toProc, [line |-> "ok", fd |-> outbound])
  BY WriteType DEF IInv, Collect, LineNames
<1>4. tunConfig' \in Configs /\ mRemoteGW' \in Remotes
  BY <1>1, CollectType DEF IInv, TypeOK
<1> USE DEF Collect, pushVars, fdVars
<1>5. TypeOK'
  BY <1>2, <1>3, <1>4 DEF IInv, TypeOK
<1>6. Talk'
  <2>1. CASE phase \in Alive
    <3>1. query.need \in Collecting
      BY <1>1, <1>2, <2>1 DEF Collecting
    <3>2. [line |-> "ok", fd |-> outbound] \in GoodLines'
      BY <1>3, <3>1 DEF GoodLines, Good, Collecting
    <3>3. Answered(toProc', GoodLines')
      BY <1>2, <1>3, <2>1, <3>2, AnswerAppend DEF IInv, TypeOK, Alive, IsAnswer
    <3> QED
      BY <1>2, <2>1, <3>3 DEF Talk, Waiting
  <2>2. CASE phase \notin Alive
    BY <2>2 DEF Talk, Waiting, Alive
  <2> QED
    BY <2>1, <2>2
<1>7. Order' /\ Kept'
  <2>1. CASE phase \in Alive
    <3>1. query.need \in Collecting /\ phase = "asking"
      BY <1>1, <1>2, <2>1 DEF Collecting, Waiting
    <3> QED
      BY <3>1 DEF IInv, Order, Kept, Opened, Collecting
  <2>2. CASE phase \notin Alive
    BY <2>2 DEF IInv, Order, Kept, Alive
  <2> QED
    BY <2>1, <2>2
<1>8. Outbound' /\ Held' /\ Unasked' /\ StartsClean'
  BY DEF IInv, Outbound, Held, Unasked, StartsClean, Write
<1> QED
  BY <1>5, <1>6, <1>7, <1>8 DEF IInv

LEMMA PersistTunActionStep == ASSUME IInv, PersistTunAction PROVE IInv'
<1> DEFINE n == [need |-> "PERSIST_TUN_ACTION"]
<1>1. /\ n \in Needs /\ toJava' \in Seq(Needs \ {NoNeed}) /\ outbound = NoTun /\ sending = "no"
      /\ phase \in Alive =>
           Waiting /\ n = query /\ toJava = <<query>> /\ toJava' = <<>> /\ Silent(toProc)
  BY HandleFacts DEF PersistTunAction
<1>2. TunReopenStatus \in {"NOACTION", "OPEN_BEFORE_CLOSE"}
  BY DEF TunReopenStatus
<1>3. /\ toProc' \in Seq(Lines) /\ [line |-> TunReopenStatus, fd |-> outbound] \in Lines
      /\ phase # "off" => toProc' = Append(toProc, [line |-> TunReopenStatus, fd |-> outbound])
  BY <1>2, WriteType DEF IInv, PersistTunAction, LineNames
<1> USE DEF PersistTunAction, serviceVars, pushVars, fdVars
<1>4. TypeOK'
  BY <1>1, <1>3 DEF IInv, TypeOK
<1>5. Talk'
  <2>1. CASE phase \in Alive
    <3>1. query.need = "PERSIST_TUN_ACTION"
      BY <1>1, <2>1
    <3>2. [line |-> TunReopenStatus, fd |-> outbound] \in GoodLines'
      BY <1>3, <3>1 DEF GoodLines, Good, Collecting, TunReopenStatus
    <3>3. Answered(toProc', GoodLines')
      BY <1>1, <1>2, <1>3, <2>1, <3>2, AnswerAppend DEF IInv, TypeOK, Alive, IsAnswer
    <3> QED
      BY <1>1, <2>1, <3>3 DEF Talk, Waiting
  <2>2. CASE phase \notin Alive
    BY <2>2 DEF Talk, Waiting, Alive
  <2> QED
    BY <2>1, <2>2
<1>6. Order' /\ Kept'
  <2>1. CASE phase \in Alive
    <3>1. query.need = "PERSIST_TUN_ACTION" /\ phase = "asking"
      BY <1>1, <2>1 DEF Waiting
    <3> QED
      BY <3>1 DEF IInv, Order, Kept, Opened
  <2>2. CASE phase \notin Alive
    BY <2>2 DEF IInv, Order, Kept, Alive
  <2> QED
    BY <2>1, <2>2
<1>7. Outbound' /\ Held' /\ Unasked' /\ StartsClean'
  BY DEF IInv, Outbound, Held, Unasked, StartsClean, Write
<1> QED
  BY <1>4, <1>5, <1>6, <1>7 DEF IInv

\* Adding the local networks changes nothing but the routes.
LEMMA LocalAdded ==
    ASSUME NEW c \in Configs, NEW locals
    PROVE  /\ WithLocal(c, locals) \in Configs
           /\ WithLocal(c, locals).ip = c.ip /\ WithLocal(c, locals).dns = c.dns
           /\ c.routes \subseteq WithLocal(c, locals).routes
           /\ ~AllowLocalLAN => WithLocal(c, locals) = c
           /\ \A r \in WithLocal(c, locals).routes \ c.routes :
                AllowLocalLAN /\ ~r.included /\ ~\E q \in c.routes : q.net = r.net
<1> DEFINE extra == {r \in Routes :
                        ~r.included /\ r.net \in locals \ {c.ip} /\ ~\E q \in c.routes : q.net = r.net}
<1>1. CASE AllowLocalLAN
  <2>1. WithLocal(c, locals) = [c EXCEPT !.routes = @ \cup extra]
    BY <1>1 DEF WithLocal
  <2>2. c.routes \cup extra \in SUBSET Routes
    BY DEF Configs
  <2> HIDE DEF extra
  <2>3. /\ WithLocal(c, locals).ip = c.ip /\ WithLocal(c, locals).dns = c.dns
        /\ WithLocal(c, locals).routes = c.routes \cup extra
        /\ WithLocal(c, locals) \in Configs
    BY <2>1, <2>2 DEF Configs
  <2> QED
    BY <1>1, <2>3 DEF extra
<1>2. CASE ~AllowLocalLAN
  BY <1>2 DEF WithLocal
<1> QED
  BY <1>1, <1>2

LEMMA OpenTunFailsStep == ASSUME IInv, OpenTunFails PROVE IInv'
<1> DEFINE n == [need |-> "OPENTUN"]
<1>1. /\ n \in Needs /\ toJava' \in Seq(Needs \ {NoNeed}) /\ outbound = NoTun /\ sending = "no"
      /\ phase \in Alive =>
           Waiting /\ n = query /\ toJava = <<query>> /\ toJava' = <<>> /\ Silent(toProc)
  BY HandleFacts DEF OpenTunFails
<1>2. /\ toProc' \in Seq(Lines) /\ [line |-> "cancel", fd |-> outbound] \in Lines
      /\ phase # "off" => toProc' = Append(toProc, [line |-> "cancel", fd |-> outbound])
  BY WriteType DEF IInv, OpenTunFails, LineNames
<1>3. tunConfig' \in Configs /\ mLastTunCfg' \in Configs
  <2>1. tunConfig \in Configs
    BY DEF IInv, TypeOK
  <2> QED
    BY <2>1, LocalAdded, EmptyTypes DEF OpenTunFails
<1> USE DEF OpenTunFails, pushVars, fdVars
<1>4. TypeOK'
  BY <1>1, <1>2, <1>3 DEF IInv, TypeOK
<1>5. Talk'
  <2>1. CASE phase \in Alive
    <3>1. query.need = "OPENTUN"
      BY <1>1, <2>1
    <3>2. [line |-> "cancel", fd |-> outbound] \in GoodLines'
      BY <1>2, <3>1 DEF GoodLines, Good, Collecting
    <3>3. Answered(toProc', GoodLines')
      BY <1>1, <1>2, <2>1, <3>2, AnswerAppend DEF IInv, TypeOK, Alive, IsAnswer
    <3> QED
      BY <1>1, <2>1, <3>3 DEF Talk, Waiting
  <2>2. CASE phase \notin Alive
    BY <2>2 DEF Talk, Waiting, Alive
  <2> QED
    BY <2>1, <2>2
<1>6. Order' /\ Kept'
  <2>1. CASE phase \in Alive
    <3>1. query.need = "OPENTUN" /\ phase = "asking" /\ Opened'
      BY <1>1, <2>1 DEF Waiting, Opened
    <3> QED
      BY <3>1 DEF IInv, Order, Kept, Collecting
  <2>2. CASE phase \notin Alive
    BY <2>2 DEF IInv, Order, Kept, Alive
  <2> QED
    BY <2>1, <2>2
<1>7. Outbound' /\ Held' /\ Unasked' /\ StartsClean'
  BY DEF IInv, Outbound, Held, Unasked, StartsClean, Write
<1> QED
  BY <1>4, <1>5, <1>6, <1>7 DEF IInv

\* A tun that is established is not the one the process has, and differs from it.
LEMMA OpenTunStep == ASSUME IInv, OpenTun PROVE IInv'
<1> DEFINE n == [need |-> "OPENTUN"]
<1>1. /\ n \in Needs /\ toJava' \in Seq(Needs \ {NoNeed}) /\ outbound = NoTun /\ sending = "no"
      /\ phase \in Alive =>
           Waiting /\ n = query /\ toJava = <<query>> /\ toJava' = <<>> /\ Silent(toProc)
  BY HandleFacts DEF OpenTun
<1>2. PICK t \in Tuns :
         Unused(t) /\ tunOf' = [tunOf EXCEPT ![t] = mLastTunCfg'] /\ outbound' = t
  BY DEF OpenTun
<1>3. PICK locals \in Local : mLastTunCfg' = WithLocal(tunConfig, locals)
  BY DEF OpenTun
<1>4. tunConfig \in Configs /\ tunConfig' \in Configs /\ mLastTunCfg' \in Configs
  BY <1>3, LocalAdded, EmptyTypes DEF OpenTun, IInv, TypeOK
<1>5. mLastTunCfg'.ip # NoAddress
  BY <1>3, <1>4, LocalAdded DEF OpenTun
<1>6. t # held /\ t # NoTun /\ tunOf'[t] = mLastTunCfg' /\ (held # NoTun => tunOf'[held] = tunOf[held])
  BY <1>2, TunAssumption DEF IInv, TypeOK, Held, Unused
<1> USE DEF OpenTun, pushVars, fdVars
<1>7. TypeOK'
  BY <1>1, <1>2, <1>4 DEF IInv, TypeOK
<1>8. ASSUME phase \in Alive PROVE Fits(outbound)'
  <2>1. query.need = "OPENTUN" /\ phase = "asking" /\ ~Opened
    BY <1>1, <1>8 DEF Waiting, Opened
  <2>2. held # NoTun => method = "OPEN_BEFORE_CLOSE" /\ tunConfig # mLastTunCfg /\ tunOf[held] = mLastTunCfg
    BY <2>1 DEF IInv, Order, Kept, TypeOK, Alive
  <2>3. ASSUME tunConfig # mLastTunCfg'
        PROVE  AllowLocalLAN /\ \E r \in mLastTunCfg'.routes : ~r.included
    <3>1. /\ mLastTunCfg'.ip = tunConfig.ip /\ mLastTunCfg'.dns = tunConfig.dns
          /\ tunConfig.routes \subseteq mLastTunCfg'.routes
          /\ \A r \in mLastTunCfg'.routes \ tunConfig.routes : AllowLocalLAN /\ ~r.included
      BY <1>3, <1>4, LocalAdded
    <3>2. mLastTunCfg'.routes # tunConfig.routes
      BY <1>4, <2>3, <3>1 DEF Configs
    <3> QED
      BY <3>1, <3>2
  <2>4. held' = held /\ (held # NoTun => tunOf'[held] = tunOf[held] /\ tunOf'[t] = mLastTunCfg')
    BY <1>6
  <2>5. held # NoTun => tunOf[held] # mLastTunCfg' \/ Excluding(held)
    BY <2>2, <2>3 DEF Excluding
  <2> QED
    BY <1>2, <1>5, <1>6, <2>4, <2>5 DEF Fits, Excluding
<1>9. Talk'
  <2>1. CASE phase \in Alive
    <3>1. query.need = "OPENTUN"
      BY <1>1, <2>1
    <3> QED
      BY <1>1, <1>8, <2>1, <3>1 DEF Talk, Waiting
  <2>2. CASE phase \notin Alive
    BY <2>2 DEF Talk, Waiting, Alive
  <2> QED
    BY <2>1, <2>2
<1>10. Order' /\ Kept'
  <2>1. CASE phase \in Alive
    <3>1. query.need = "OPENTUN" /\ phase = "asking" /\ Opened'
      BY <1>1, <2>1 DEF Waiting, Opened
    <3> QED
      BY <1>6, <3>1 DEF IInv, Order, Kept, Collecting
  <2>2. CASE phase \notin Alive
    BY <2>2 DEF IInv, Order, Kept, Alive
  <2> QED
    BY <2>1, <2>2
<1>11. Outbound' /\ Held' /\ Unasked' /\ StartsClean'
  BY <1>2, <1>6 DEF IInv, Outbound, Held, Unasked, StartsClean, Write
<1> QED
  BY <1>7, <1>9, <1>10, <1>11 DEF IInv

LEMMA WriteOkStep == ASSUME IInv, WriteOk PROVE IInv'
<1>1. /\ toProc' \in Seq(Lines) /\ [line |-> "ok", fd |-> outbound] \in Lines
      /\ phase # "off" => toProc' = Append(toProc, [line |-> "ok", fd |-> outbound])
  BY WriteType DEF IInv, WriteOk, LineNames
<1>2. phase \in Alive =>
        Waiting /\ toJava = <<>> /\ Silent(toProc) /\ query.need = "OPENTUN" /\ Fits(outbound)
  BY DEF IInv, Talk, WriteOk
<1> USE DEF WriteOk, pushVars, fdVars
<1>3. TypeOK'
  BY <1>1 DEF IInv, TypeOK
<1>4. Talk'
  <2>1. CASE phase \in Alive
    <3>1. Fits(outbound)'
      BY <1>2, <2>1 DEF Fits, Excluding
    <3>2. [line |-> "ok", fd |-> outbound] \in GoodLines'
      BY <1>1, <1>2, <2>1, <3>1 DEF GoodLines, Good, Collecting
    <3>3. Answered(toProc', GoodLines')
      BY <1>1, <1>2, <2>1, <3>2, AnswerAppend DEF IInv, TypeOK, Alive, IsAnswer
    <3> QED
      BY <1>2, <2>1, <3>3 DEF Talk, Waiting
  <2>2. CASE phase \notin Alive
    BY <2>2 DEF Talk, Waiting, Alive
  <2> QED
    BY <2>1, <2>2
<1>5. Order' /\ Kept' /\ Outbound' /\ Held' /\ Unasked' /\ StartsClean'
  BY DEF IInv, Order, Kept, Opened, Outbound, Held, Unasked, StartsClean, Write
<1> QED
  BY <1>3, <1>4, <1>5 DEF IInv

LEMMA ClearDescriptorStep == ASSUME IInv, ClearDescriptor PROVE IInv'
<1> USE DEF ClearDescriptor, pushVars, fdVars
<1>1. TypeOK'
  BY DEF IInv, TypeOK
<1>2. GoodLines' = GoodLines
  BY DEF GoodLines, Good, Fits, Excluding
<1>3. Talk'
  BY <1>2 DEF IInv, Talk, Waiting
<1>4. Order' /\ Kept' /\ Outbound' /\ Held' /\ Unasked' /\ StartsClean'
  BY DEF IInv, Order, Kept, Opened, Outbound, Held, Unasked, StartsClean, Write
<1> QED
  BY <1>1, <1>3, <1>4 DEF IInv

LEMMA OtherThreadWritesStep == ASSUME IInv, OtherThreadWrites PROVE IInv'
<1>1. PICK line \in {"network-change", "signal"} : Write(line)
  BY DEF OtherThreadWrites, Theirs
<1> DEFINE m == [line |-> line, fd |-> outbound]
<1>2. toProc' \in Seq(Lines) /\ m \in Lines /\ toProc' = Append(toProc, m)
  BY <1>1, WriteType DEF IInv, OtherThreadWrites, LineNames
<1> USE DEF OtherThreadWrites, serviceVars, pushVars, fdVars
<1>3. TypeOK'
  BY <1>2 DEF IInv, TypeOK
<1>4. GoodLines' = GoodLines
  BY DEF GoodLines, Good, Fits, Excluding
<1>5. Talk'
  <2>1. ~IsAnswer(m)
    BY DEF IsAnswer
  <2> HIDE DEF m
  <2>2. Silent(toProc) => Silent(toProc')
    BY <1>2, <2>1, SilentAppend DEF IInv, TypeOK
  <2>3. Answered(toProc, GoodLines) => Answered(toProc', GoodLines)
    BY <1>2, <2>1, AnsweredAppend DEF IInv, TypeOK
  <2>4. Fits(outbound)' <=> Fits(outbound)
    BY DEF Fits, Excluding
  <2> QED
    BY <1>4, <2>2, <2>3, <2>4 DEF IInv, Talk, Waiting
<1>6. Order' /\ Kept' /\ Outbound' /\ Held' /\ Unasked' /\ StartsClean'
  BY DEF IInv, Order, Kept, Opened, Outbound, Held, Unasked, StartsClean, Write
<1> QED
  BY <1>3, <1>5, <1>6 DEF IInv
-----------------------------------------------------------------------------
(* The process.                                                            *)

LEMMA DiesStep == ASSUME IInv, Dies, toJava' \in Seq(Needs \ {NoNeed}) PROVE IInv'
<1>1. /\ tunConfig \in Configs /\ mRemoteGW \in Remotes /\ mLastTunCfg \in Configs \cup {NoConfig}
      /\ tunOf \in [Tuns -> Configs]
      /\ mRemoteGW' = mRemoteGW
      /\ sending \in {"no", "set", "written"} /\ outbound \in Tuns \cup {NoTun}
      /\ sessions \in 0 .. MaxSessions /\ persist \in BOOLEAN
      /\ tunConfig' = tunConfig /\ mLastTunCfg' = mLastTunCfg /\ tunOf' = tunOf
      /\ sending' = sending /\ outbound' = outbound /\ sessions' = sessions /\ persist' = persist
  BY DEF IInv, TypeOK, Dies, serviceVars
<1>2. descriptors' \in [Tuns -> Nat] /\ toProc' \in Seq(Lines)
  BY DEF Dies
<1>3. TypeOK'
  BY <1>1, <1>2, EmptyTypes DEF Dies, TypeOK
<1>4. Outbound' /\ Held' /\ Unasked' /\ StartsClean'
  BY <1>1 DEF IInv, Outbound, Dies, Held, Unasked, StartsClean
<1>5. Talk' /\ Kept' /\ Order'
  BY DEF Dies, Talk, Kept, Order, Alive, Waiting, NothingLeft
<1> QED
  BY <1>3, <1>4, <1>5 DEF IInv

LEMMA StartProcessStep == ASSUME IInv, StartProcess PROVE IInv'
<1> USE DEF StartProcess, serviceVars, pushVars, fdVars
<1>1. TypeOK'
  BY TunAssumption DEF IInv, TypeOK
<1>2. Talk' /\ Kept'
  BY DEF IInv, StartsClean, Talk, Alive, Waiting, Silent, Kept
<1>3. Order' /\ Outbound' /\ Held' /\ Unasked' /\ StartsClean'
  BY DEF IInv, Order, Outbound, Held, Unasked, StartsClean
<1> QED
  BY <1>1, <1>2, <1>3 DEF IInv

\* A descriptor that is read is counted.
LEMMA ReceivedType ==
    ASSUME IInv, NEW m \in Lines
    PROVE  /\ Received(m) \in [Tuns -> Nat] /\ LastFd(m) \in Tuns \cup {NoTun}
           /\ \A t \in Tuns : Received(m)[t] >= descriptors[t]
           /\ m.fd # NoTun => Received(m)[m.fd] > 0
<1>1. m.fd \in Tuns \cup {NoTun} /\ descriptors \in [Tuns -> Nat]
  BY DEF Lines, IInv, TypeOK
<1>2. CASE m.fd = NoTun
  BY <1>1, <1>2 DEF Received, LastFd, IInv, TypeOK
<1>3. CASE m.fd # NoTun
  <2>1. Received(m) = [descriptors EXCEPT ![m.fd] = @ + 1]
    BY <1>3 DEF Received
  <2> QED
    BY <1>1, <1>3, <2>1 DEF LastFd
<1> QED
  BY <1>2, <1>3

LEMMA RestartWithStep ==
    ASSUME IInv, NEW ds \in [Tuns -> Nat], NEW last \in Tuns \cup {NoTun}, RestartWith(ds, last),
           \A t \in Tuns : ds[t] >= descriptors[t],
           phase \in {"connecting", "up"}, toProc' \in Seq(Lines), Silent(toProc')
    PROVE  IInv'
<1> USE DEF RestartWith, serviceVars
<1>1. held # NoTun => held \in Tuns /\ descriptors[held] > 0 /\ ds[held] > 0
  BY DEF IInv, TypeOK, Held
<1>2. descriptors' \in [Tuns -> Nat]
  BY <1>1
<1>3. /\ tunConfig' = tunConfig /\ mLastTunCfg' = mLastTunCfg /\ tunOf' = tunOf /\ toJava' = toJava
      /\ sending' = sending /\ outbound' = outbound /\ sessions' = sessions /\ persist' = persist
      /\ phase' = "connecting" /\ query' = NoNeed /\ method' = "none"
      /\ held' \in {held, NoTun} /\ (held' # NoTun => descriptors' = ds)
  BY DEF IInv, TypeOK
<1>4. TypeOK'
  BY <1>2, <1>3, EmptyTypes DEF IInv, TypeOK
<1>5. Talk'
  BY <1>3 DEF IInv, Talk, Waiting, Alive
<1>6. Kept' /\ Held'
  BY <1>1, <1>3 DEF IInv, Kept, Held, Opened, Alive
<1>7. Order' /\ Outbound' /\ Unasked' /\ StartsClean'
  BY <1>3 DEF IInv, Order, Outbound, Unasked, StartsClean, NothingLeft, NoNeed
<1> QED
  BY <1>4, <1>5, <1>6, <1>7 DEF IInv

LEMMA RestartsStep == ASSUME IInv, Restarts PROVE IInv'
<1>1. Silent(toProc') /\ toProc' \in Seq(Lines)
  BY DEF IInv, Talk, Restarts, Alive, Waiting, TypeOK
<1> QED
  BY <1>1, RestartWithStep, SMTT(40) DEF Restarts, IInv, TypeOK

LEMMA PushStep == ASSUME IInv, Push PROVE IInv'
<1> USE DEF Push, serviceVars, fdVars
<1>1. PICK p \in Pushes :
         /\ pushed' = p
         /\ left' = [address |-> p.ip # NoAddress, routes |-> p.routes, dns |-> p.dns]
  OBVIOUS
<1>2. left' \in [address : BOOLEAN, routes : SUBSET PushedRoutes, dns : Seq(Servers)]
  BY <1>1, TunAssumption DEF Replies
<1>3. TypeOK'
  BY <1>1, <1>2 DEF IInv, TypeOK
<1>4. query = NoNeed /\ method = "none"
  BY DEF IInv, Unasked
<1>5. Talk' /\ Kept'
  BY <1>4 DEF IInv, Talk, Kept, Alive, Waiting, Opened, NoNeed
<1>6. Order' /\ Outbound' /\ Held' /\ Unasked' /\ StartsClean'
  BY <1>1, <1>4 DEF IInv, Order, Outbound, Held, Unasked, StartsClean, NoNeed
<1> QED
  BY <1>3, <1>5, <1>6 DEF IInv

LEMMA AskStepHolds ==
    ASSUME IInv, NEW n \in Needs \ {NoNeed}, Ask(n),
           left' \in [address : BOOLEAN, routes : SUBSET PushedRoutes, dns : Seq(Servers)],
           left = NothingLeft => left' = NothingLeft, left'.address => left.address,
           n.need \in Collecting \cup {"PERSIST_TUN_ACTION"} => method = "none",
           n.need = "OPENTUN" => method # "none",
           n.need = "PERSIST_TUN_ACTION" \/ method # "none" => left = NothingLeft
    PROVE  IInv'
<1> USE DEF Ask, serviceVars, fdVars
<1>1. toJava' \in Seq(Needs \ {NoNeed}) /\ query' \in Needs
  BY EmptyTypes DEF IInv, TypeOK
<1>2. TypeOK'
  BY <1>1 DEF IInv, TypeOK
<1>3. ASSUME phase = "asking" PROVE toJava' = <<n>> /\ query' = n /\ toJava' # <<>> /\ toJava = <<>>
  <2>1. toJava = <<>>
    BY <1>3 DEF IInv, Talk, Alive, Waiting
  <2> QED
    BY <1>3, <2>1
<1>4. Talk'
  BY <1>3 DEF IInv, Talk, Alive, Waiting
<1>5. Kept' /\ Order'
  BY <1>3 DEF IInv, Kept, Order, Opened, Alive, NoNeed
<1>6. Outbound' /\ Held' /\ Unasked' /\ StartsClean'
  BY DEF IInv, Outbound, Held, Unasked, StartsClean
<1> QED
  BY <1>2, <1>4, <1>5, <1>6 DEF IInv

LEMMA AskStepStep == ASSUME IInv, AskStep PROVE IInv'
<1>1. left \in [address : BOOLEAN, routes : SUBSET PushedRoutes, dns : Seq(Servers)]
  BY DEF IInv, TypeOK
<1>2. ASSUME phase \in {"asking", "failing"}, left # NothingLeft PROVE method = "none"
  BY <1>2 DEF IInv, Order
<1>3. CASE AskAddress
  <2>1. left # NothingLeft /\ pushed.ip # NoAddress
    BY <1>3 DEF AskAddress, NothingLeft, IInv, Order
  <2>2. pushed \in Replies
    BY EmptyTypes, TunAssumption DEF IInv, TypeOK
  <2>3. pushed.ip \in Nets /\ pushed.remote \in Remotes
    BY <2>1, <2>2 DEF Replies
  <2> QED
    BY <1>1, <1>2, <1>3, <2>1, <2>3, AskStepHolds DEF AskAddress, Ask, Needs, NoNeed, Collecting
<1>4. CASE AskRoute
  <2>1. PICK r \in left.routes :
          Ask([need |-> "ROUTE", arg |-> r]) /\ left' = [left EXCEPT !.routes = @ \ {r}]
    BY <1>4 DEF AskRoute
  <2>2. left # NothingLeft /\ r \in PushedRoutes
    BY <1>1 DEF NothingLeft
  <2> QED
    BY <1>1, <1>2, <2>1, <2>2, AskStepHolds DEF Ask, Needs, NoNeed, Collecting
<1>5. CASE AskDNS
  <2>1. left # NothingLeft /\ Head(left.dns) \in Servers /\ Tail(left.dns) \in Seq(Servers)
    BY <1>1, <1>5 DEF AskDNS, NothingLeft
  <2> QED
    BY <1>1, <1>2, <1>5, <2>1, AskStepHolds DEF AskDNS, Ask, Needs, NoNeed, Collecting
<1>6. CASE AskAction
  BY <1>1, <1>6, AskStepHolds DEF AskAction, Needs, NoNeed, Collecting
<1>7. CASE AskInVain
  <2>1. toJava' \in Seq(Needs \ {NoNeed})
    BY <1>7 DEF AskInVain, IInv, TypeOK, Needs, NoNeed
  <2> QED
    BY <1>7, <2>1, DiesStep DEF AskInVain
<1>8. CASE AskTun
  BY <1>1, <1>2, <1>8, AskStepHolds DEF AskTun, Ask, Needs, NoNeed, Collecting
<1> QED
  BY <1>3, <1>4, <1>5, <1>6, <1>7, <1>8 DEF AskStep
-----------------------------------------------------------------------------
(* What the process reads.                                                 *)

LEMMA ReadFacts ==
    ASSUME IInv, NEW m \in Lines, Read(m)
    PROVE  /\ toProc' \in Seq(Lines) /\ phase # "off"
           /\ phase \in Alive /\ ~Waiting => Silent(toProc') /\ ~IsAnswer(m)
           /\ Silent(toProc) => Silent(toProc')
           /\ Answered(toProc, GoodLines) /\ ~IsAnswer(m) => Answered(toProc', GoodLines)
           /\ Waiting /\ IsAnswer(m) =>
                toJava = <<>> /\ sending # "set" /\ m \in GoodLines /\ Silent(toProc')
<1>1. toProc \in Seq(Lines) /\ toProc # <<>> /\ Head(toProc) = m /\ toProc' = Tail(toProc)
  BY DEF IInv, TypeOK, Read
<1>2. toProc' \in Seq(Lines) /\ phase # "off"
  BY <1>1 DEF IInv, StartsClean
<1>3. Silent(toProc) => Silent(toProc') /\ ~IsAnswer(m)
  BY <1>1, SilentTail
<1>4. Answered(toProc, GoodLines) =>
        /\ ~IsAnswer(m) => Answered(toProc', GoodLines)
        /\ IsAnswer(m) => m \in GoodLines /\ Silent(toProc')
  BY <1>1, AnsweredTail
<1> QED
  BY <1>2, <1>3, <1>4 DEF IInv, Talk

LEMMA ReadNetworkChangeStep == ASSUME IInv, ReadNetworkChange PROVE IInv'
<1>1. PICK m \in Lines : m.line = "network-change" /\ Read(m) /\ NoteFd(m)
  BY DEF ReadNetworkChange
<1>2. /\ descriptors' \in [Tuns -> Nat] /\ lastfdreceived' \in Tuns \cup {NoTun} /\ held' = held
      /\ interrupted' = interrupted
      /\ \A t \in Tuns : descriptors'[t] >= descriptors[t]
  BY <1>1, ReceivedType DEF NoteFd
<1>3. /\ toProc' \in Seq(Lines) /\ phase # "off" /\ ~IsAnswer(m)
      /\ Silent(toProc) => Silent(toProc')
      /\ Answered(toProc, GoodLines) => Answered(toProc', GoodLines)
  BY <1>1, ReadFacts DEF IsAnswer
<1> USE DEF ReadNetworkChange, serviceVars, pushVars
<1>4. TypeOK'
  BY <1>2, <1>3 DEF IInv, TypeOK
<1>5. GoodLines' = GoodLines /\ (Fits(outbound)' <=> Fits(outbound))
  BY <1>2 DEF GoodLines, Good, Fits, Excluding
<1>6. Talk'
  BY <1>3, <1>5 DEF IInv, Talk, Waiting
<1>7. Held'
  BY <1>2 DEF IInv, Held, TypeOK
<1>8. Order' /\ Kept' /\ Outbound' /\ Unasked' /\ StartsClean'
  BY <1>2, <1>3 DEF IInv, Order, Kept, Opened, Outbound, Unasked, StartsClean
<1> QED
  BY <1>4, <1>6, <1>7, <1>8 DEF IInv

LEMMA ReadSignalStep == ASSUME IInv, ReadSignal PROVE IInv'
<1>1. PICK m \in Lines : m.line = "signal" /\ Read(m) /\ RestartWith(Received(m), LastFd(m))
  BY DEF ReadSignal
<1>2. phase \in {"connecting", "up"} /\ phase \in Alive /\ ~Waiting
  BY DEF ReadSignal, Alive, Waiting
<1>3. toProc' \in Seq(Lines) /\ Silent(toProc')
  BY <1>1, <1>2, ReadFacts
<1> QED
  BY <1>1, <1>2, <1>3, ReceivedType, RestartWithStep

LEMMA ReadSignalInQuestionStep == ASSUME IInv, ReadSignalInQuestion PROVE IInv'
<1>1. PICK m \in Lines, n \in 1 .. Len(toProc) : ReadTo(n, m) /\ NoteFd(m)
  BY DEF ReadSignalInQuestion
<1>2. /\ descriptors' \in [Tuns -> Nat] /\ lastfdreceived' \in Tuns \cup {NoTun} /\ held' = held
      /\ interrupted' = interrupted
      /\ \A t \in Tuns : descriptors'[t] >= descriptors[t]
  BY <1>1, ReceivedType DEF NoteFd
<1>3. toProc' \in Seq(Lines) /\ phase # "off"
  BY <1>1 DEF IInv, TypeOK, ReadTo, ReadSignalInQuestion, ReadAnswer
<1> USE DEF ReadSignalInQuestion, ReadAnswer, serviceVars
<1>4. TypeOK'
  BY <1>2, <1>3, EmptyTypes DEF IInv, TypeOK
<1>5. method = "none"
  BY DEF IInv, Order, Collecting
<1>6. Talk' /\ Kept'
  BY DEF Talk, Kept, Alive, Waiting
<1>7. Held'
  BY <1>2 DEF IInv, Held, TypeOK
<1>8. Order' /\ Outbound' /\ Unasked' /\ StartsClean'
  BY <1>5 DEF IInv, Order, Outbound, Unasked, StartsClean
<1> QED
  BY <1>4, <1>6, <1>7, <1>8 DEF IInv

LEMMA ReadOkStep == ASSUME IInv, ReadOk PROVE IInv'
<1>1. PICK m \in Lines : m.line = "ok" /\ Read(m) /\ NoteFd(m)
  BY DEF ReadOk
<1>2. /\ descriptors' \in [Tuns -> Nat] /\ lastfdreceived' \in Tuns \cup {NoTun} /\ held' = held
      /\ interrupted' = interrupted
      /\ \A t \in Tuns : descriptors'[t] >= descriptors[t]
  BY <1>1, ReceivedType DEF NoteFd
<1> USE DEF ReadOk, ReadAnswer, serviceVars
<1>3. Waiting /\ IsAnswer(m) /\ query.need \in Collecting
  BY <1>1 DEF Waiting, IsAnswer, Collecting, NoNeed
<1>4. /\ toProc' \in Seq(Lines) /\ Silent(toProc')
      /\ toJava = <<>> /\ sending # "set"
  BY <1>1, <1>3, ReadFacts
<1>5. TypeOK'
  BY <1>2, <1>4, EmptyTypes DEF IInv, TypeOK
<1>6. Talk'
  BY <1>4 DEF Talk, Waiting
<1>7. Held'
  BY <1>2 DEF IInv, Held, TypeOK
<1>8. Kept' /\ Order'
  BY <1>2, <1>3 DEF IInv, Kept, Order, Opened, Alive, NoNeed, Collecting
<1>9. Outbound' /\ Unasked' /\ StartsClean'
  BY DEF IInv, Outbound, Unasked, StartsClean
<1> QED
  BY <1>5, <1>6, <1>7, <1>8, <1>9 DEF IInv

LEMMA ReadActionStep == ASSUME IInv, ReadAction PROVE IInv'
<1>1. PICK m \in Lines :
         /\ m.line \in {"NOACTION", "OPEN_BEFORE_CLOSE"} /\ Read(m) /\ NoteFd(m)
         /\ method' = m.line
  BY DEF ReadAction
<1>2. /\ descriptors' \in [Tuns -> Nat] /\ lastfdreceived' \in Tuns \cup {NoTun} /\ held' = held
      /\ interrupted' = interrupted
      /\ \A t \in Tuns : descriptors'[t] >= descriptors[t]
  BY <1>1, ReceivedType DEF NoteFd
<1> USE DEF ReadAction, ReadAnswer, serviceVars
<1>3. Waiting /\ IsAnswer(m) /\ query.need = "PERSIST_TUN_ACTION"
  BY <1>1 DEF Waiting, IsAnswer, NoNeed
<1>4. /\ toProc' \in Seq(Lines) /\ Silent(toProc')
      /\ toJava = <<>> /\ sending # "set"
      /\ m.line = "OPEN_BEFORE_CLOSE" => tunConfig # mLastTunCfg
  BY <1>1, <1>3, ReadFacts DEF GoodLines, Good
<1>5. TypeOK'
  BY <1>1, <1>2, <1>4, EmptyTypes DEF IInv, TypeOK
<1>6. Talk'
  BY <1>4 DEF Talk, Waiting
<1>7. Held'
  BY <1>2 DEF IInv, Held, TypeOK
<1>8. Kept'
  BY <1>2, <1>3 DEF IInv, Kept, Opened, Alive
<1>9. Order'
  <2>1. /\ phase = "asking" /\ left = NothingLeft /\ left' = left /\ pushed' = pushed
        /\ query' = NoNeed /\ phase' \in {"up", "asking"}
    BY <1>3 DEF IInv, Order
  <2>2. phase' = "asking" => (method' = "NOACTION" => held' = NoTun)
    BY <1>2
  <2>3. method' = "OPEN_BEFORE_CLOSE" => tunConfig' # mLastTunCfg'
    BY <1>1, <1>4
  <2> QED
    BY <2>1, <2>2, <2>3 DEF Order, Collecting, NoNeed, NothingLeft
<1>10. Outbound' /\ Unasked' /\ StartsClean'
  BY DEF IInv, Outbound, Unasked, StartsClean
<1> QED
  BY <1>5, <1>6, <1>7, <1>8, <1>9, <1>10 DEF IInv

\* The descriptor that comes with the answer is that of a tun that fits.
LEMMA AnswerFits ==
    ASSUME IInv, ReadAnswer({"OPENTUN"}), NEW m \in Lines, m.line = "ok",
           toProc # <<>>, Head(toProc) = m, toProc' = Tail(toProc)
    PROVE  /\ toProc' \in Seq(Lines) /\ Silent(toProc') /\ toJava = <<>> /\ sending # "set"
           /\ Opened /\ Fits(m.fd) /\ m.fd # NoTun /\ LastFd(m) = m.fd
<1>1. Waiting /\ query.need = "OPENTUN" /\ phase = "asking" /\ IsAnswer(m)
  BY DEF ReadAnswer, Waiting, NoNeed, IsAnswer
<1>2. toProc' \in Seq(Lines) /\ Silent(toProc') /\ toJava = <<>> /\ sending # "set" /\ m \in GoodLines
  BY <1>1, ReadFacts DEF Read
<1> QED
  BY <1>1, <1>2, TunAssumption DEF GoodLines, Good, Fits, LastFd, Opened

LEMMA ReadTunStep == ASSUME IInv, ReadTun PROVE IInv'
<1>1. PICK m \in Lines :
         /\ toProc # <<>> /\ Head(toProc) = m /\ m.line \in {"ok", "cancel"}
         /\ IF m.line = "ok" /\ LastFd(m) # NoTun
            THEN /\ TakeTun(m)
                 /\ toProc' = Tail(toProc)
                 /\ phase' = "up" /\ query' = NoNeed
                 /\ UNCHANGED <<serviceVars, toJava, sessions, persist, pushed, clean, left, method>>
            ELSE Dies /\ UNCHANGED toJava
  BY DEF ReadTun
<1>2. ReadAnswer({"OPENTUN"}) /\ phase = "asking"
  BY DEF ReadTun, ReadAnswer
<1>3. CASE m.line = "ok" /\ LastFd(m) # NoTun
  <2> USE <1>1, <1>2, <1>3 DEF serviceVars, TakeTun
  <2>1. /\ toProc' \in Seq(Lines) /\ Silent(toProc') /\ toJava = <<>> /\ sending # "set"
        /\ Fits(m.fd) /\ m.fd # NoTun /\ held' = m.fd /\ m.fd \in Tuns /\ m.fd # held
    BY AnswerFits DEF Fits
  <2>2. Received(m) \in [Tuns -> Nat] /\ Received(m)[m.fd] > 0
        /\ (held # NoTun => held \in Tuns /\ Received(m)[held] > 0)
    BY <2>1, ReceivedType, SMTT(40) DEF IInv, TypeOK, Held
  <2>3. descriptors' \in [Tuns -> Nat] /\ descriptors'[m.fd] > 0
    <3>1. CASE held # NoTun /\ method = "OPEN_BEFORE_CLOSE"
      <4>1. descriptors' = [Received(m) EXCEPT ![held] = @ - 1]
        BY <3>1
      <4> HIDE <1>1, <1>2, <1>3 DEF TakeTun
      <4> QED
        BY <2>1, <2>2, <3>1, <4>1
    <3>2. CASE ~(held # NoTun /\ method = "OPEN_BEFORE_CLOSE")
      <4>1. descriptors' = Received(m)
        BY <3>2
      <4> QED
        BY <2>1, <2>2, <4>1
    <3> QED
      BY <3>1, <3>2
  <2>4. TypeOK'
    <3>1. interrupted' = interrupted
      OBVIOUS
    <3> QED
      BY <2>1, <2>3, <3>1, EmptyTypes DEF IInv, TypeOK
  <2>5. Talk' /\ Held'
    BY <2>1, <2>3 DEF Talk, Waiting, Held
  <2>6. Kept'
    BY <2>1 DEF Kept, Fits
  <2>7. Order' /\ Outbound' /\ Unasked' /\ StartsClean'
    BY <2>1 DEF IInv, Order, Outbound, Unasked, StartsClean
  <2> QED
    BY <2>4, <2>5, <2>6, <2>7 DEF IInv
<1>4. CASE ~(m.line = "ok" /\ LastFd(m) # NoTun)
  BY <1>1, <1>4, DiesStep DEF IInv, TypeOK
<1> QED
  BY <1>3, <1>4

LEMMA NextIInv == IInv /\ [Next]_vars => IInv'
<1> SUFFICES ASSUME IInv, [Next]_vars PROVE IInv'
  OBVIOUS
<1>1. CASE AppStep
  BY <1>1, CollectStep, PersistTunActionStep, OpenTunFailsStep, OpenTunStep, WriteOkStep,
     ClearDescriptorStep DEF AppStep
<1>2. CASE OtherThreadWrites
  BY <1>2, OtherThreadWritesStep
<1>3. CASE StartProcess
  BY <1>3, StartProcessStep
<1>4. CASE ProcessExits
  BY <1>4, DiesStep DEF ProcessExits, IInv, TypeOK
<1>5. CASE Restarts
  BY <1>5, RestartsStep
<1>6. CASE Push
  BY <1>6, PushStep
<1>7. CASE AskStep
  BY <1>7, AskStepStep
<1>8. CASE ReadSignalAtEnd
  BY <1>8, DiesStep DEF ReadSignalAtEnd, IInv, TypeOK
<1>9. CASE ReadStep /\ ~ReadSignalAtEnd
  BY <1>9, ReadNetworkChangeStep, ReadSignalStep, ReadSignalInQuestionStep, ReadOkStep,
     ReadActionStep, ReadTunStep DEF ReadStep
<1>10. CASE UNCHANGED vars
  <2> USE <1>10 DEF vars, serviceVars, pushVars, fdVars
  <2>1. GoodLines' = GoodLines /\ (Fits(outbound)' <=> Fits(outbound))
    BY DEF GoodLines, Good, Fits, Excluding
  <2>2. TypeOK' /\ Outbound' /\ Held' /\ Kept' /\ Order' /\ Unasked' /\ StartsClean'
    BY DEF IInv, TypeOK, Outbound, Held, Kept, Order, Opened, Unasked, StartsClean
  <2>3. Talk'
    BY <2>1 DEF IInv, Talk, Waiting
  <2> QED
    BY <2>2, <2>3 DEF IInv
<1> QED
  BY <1>1, <1>2, <1>3, <1>4, <1>5, <1>6, <1>7, <1>8, <1>9, <1>10 DEF Next, ReadStep

-----------------------------------------------------------------------------
\* Every variable of the tun set-up keeps its type: a descriptor that is closed was open,
\* whatever other threads wrote while tuns were sent (TypeOK).
THEOREM TunTypeCorrect == Spec => []TypeOK
<1>1. IInv => TypeOK
  BY DEF IInv
<1> QED
  BY <1>1, InitIInv, NextIInv, PTL DEF Spec

\* What getTunReopenStatus compares with is what the tun of the process was established
\* with, for any number of restarts, processes and interrupting threads.
THEOREM RememberedIsHeld == Spec => []LastIsHeld
<1>1. IInv => LastIsHeld
  BY DEF IInv, Kept, Opened, LastIsHeld, Alive
<1> QED
  BY <1>1, InitIInv, NextIInv, PTL DEF Spec

\* The app has a tun replaced only by a different one, unless local networks may be
\* excluded from it.
THEOREM ReplacementDiffers == Spec => ReplacedIfChanged
<1> DEFINE Differs ==
      held # NoTun /\ held' \notin {NoTun, held} => tunOf[held'] # tunOf[held] \/ Excluding(held)
<1>1. ASSUME IInv, [Next]_vars PROVE [Differs]_vars
  <2> SUFFICES ASSUME held # NoTun, held' \notin {NoTun, held}
               PROVE  tunOf[held'] # tunOf[held] \/ Excluding(held)
    OBVIOUS
  <2>1. ReadTun
    BY <1>1 DEF Next, AppStep, AskStep, ReadStep, vars, fdVars, Collect, PersistTunAction,
        OpenTunFails, OpenTun, WriteOk, ClearDescriptor, OtherThreadWrites, StartProcess,
        ProcessExits, Dies, Restarts, RestartWith, Push, AskAddress, AskRoute, AskDNS, AskAction,
        AskInVain, AskTun, Ask, ReadNetworkChange, NoteFd, ReadSignal, ReadSignalInQuestion,
        ReadSignalAtEnd, ReadOk, ReadAction
  <2>2. PICK m \in Lines :
           /\ toProc # <<>> /\ Head(toProc) = m /\ m.line = "ok" /\ TakeTun(m)
           /\ toProc' = Tail(toProc)
    BY <2>1 DEF ReadTun, Dies
  <2>3. Fits(m.fd) /\ held' = m.fd
    BY <1>1, <2>1, <2>2, AnswerFits DEF ReadTun, TakeTun
  <2> QED
    BY <2>3 DEF Fits
<1> QED
  BY <1>1, InitIInv, NextIInv, PTL DEF Spec, ReplacedIfChanged
-----------------------------------------------------------------------------
(* Which line carries a descriptor.                                        *)

\* As long as other threads have kept silent while a tun was sent, it comes with its answer.
Carried ==
    \A i \in 1 .. Len(toProc) :
        toProc[i].fd # NoTun => IsAnswer(toProc[i]) /\ query.need = "OPENTUN"

OneOf(t) == [u \in Tuns |-> IF u = t THEN 1 ELSE 0]

Single ==
    phase # "failing" /\ ~interrupted => Carried /\ lastfdreceived = NoTun /\ descriptors = OneOf(held)

LEMMA CarriedAppend ==
    ASSUME IInv, Carried, NEW m \in Lines, toProc' = Append(toProc, m), query' = query,
           m.fd # NoTun => IsAnswer(m) /\ query.need = "OPENTUN"
    PROVE  Carried'
BY DEF IInv, TypeOK, Carried

LEMMA CarriedTail ==
    ASSUME IInv, Carried, toProc # <<>>, toProc' = Tail(toProc)
    PROVE  /\ query' = query => Carried'
           /\ Silent(toProc') => Carried'
           /\ Head(toProc).fd # NoTun => IsAnswer(Head(toProc)) /\ query.need = "OPENTUN"
BY DEF IInv, TypeOK, Carried, Silent

LEMMA BareRead ==
    ASSUME IInv, Single, phase # "failing", ~interrupted, NEW m \in Lines, Read(m),
           ~IsAnswer(m) \/ query.need # "OPENTUN"
    PROVE  m.fd = NoTun /\ Received(m) = descriptors /\ LastFd(m) = NoTun
BY CarriedTail DEF Read, Single, Received, LastFd

LEMMA OneOfClosed ==
    ASSUME NEW t \in Tuns
    PROVE  /\ [OneOf(t) EXCEPT ![t] = @ - 1] = OneOf(NoTun)
           /\ [OneOf(NoTun) EXCEPT ![t] = @ + 1] = OneOf(t)
           /\ \A u \in Tuns : u # t =>
                [[OneOf(u) EXCEPT ![t] = @ + 1] EXCEPT ![u] = @ - 1] = OneOf(t)
<1>1. \A u \in Tuns : u # NoTun
  BY TunAssumption
<1> DEFINE zero == [u \in Tuns |-> 0]
<1>2. OneOf(NoTun) = zero
  BY <1>1 DEF OneOf
<1>3. [OneOf(t) EXCEPT ![t] = @ - 1] = OneOf(NoTun)
  <2> DEFINE f == [OneOf(t) EXCEPT ![t] = @ - 1]
  <2>1. OneOf(t)[t] - 1 = 0
    BY DEF OneOf
  <2>2. f = [OneOf(t) EXCEPT ![t] = 0]
    BY <2>1
  <2>3. [OneOf(t) EXCEPT ![t] = 0] = zero
    BY DEF OneOf
  <2> QED
    BY <1>2, <2>2, <2>3
<1>4. [OneOf(NoTun) EXCEPT ![t] = @ + 1] = OneOf(t)
  <2>1. [zero EXCEPT ![t] = @ + 1] = OneOf(t)
    BY DEF OneOf
  <2> QED
    BY <1>2, <2>1
<1>5. ASSUME NEW u \in Tuns, u # t
      PROVE  [[OneOf(u) EXCEPT ![t] = @ + 1] EXCEPT ![u] = @ - 1] = OneOf(t)
  BY <1>5 DEF OneOf
<1> QED
  BY <1>3, <1>4, <1>5

LEMMA DiesSingle == Dies => Single'
<1> SUFFICES ASSUME Dies PROVE Single'
  OBVIOUS
<1>1. Carried'
  BY DEF Dies, Carried
<1>2. descriptors' = OneOf(held')
  BY TunAssumption DEF Dies, OneOf
<1> QED
  BY <1>1, <1>2 DEF Dies, Single

LEMMA NextSingle ==
    ASSUME IInv, Single, [Next]_vars PROVE Single'
<1> USE DEF Single, fdVars
<1>0. CASE interrupted'
  BY <1>0
<1>1. CASE Collect \/ PersistTunAction \/ OpenTunFails
  <2>1. PICK line \in LineNames : Write(line)
    <3>1. TunReopenStatus \in LineNames
      BY DEF TunReopenStatus, LineNames
    <3> QED
      BY <1>1, <3>1 DEF Collect, PersistTunAction, OpenTunFails, LineNames
  <2>2. outbound = NoTun
    BY <1>1, HandleFacts DEF Collect, PersistTunAction, OpenTunFails
  <2>3. phase' = phase /\ query' = query /\ held' = held /\ lastfdreceived' = lastfdreceived
        /\ descriptors' = descriptors /\ interrupted' = interrupted
    BY <1>1 DEF Collect, PersistTunAction, OpenTunFails, pushVars
  <2>4. ASSUME Carried PROVE Carried'
    <3>1. CASE phase = "off"
      BY <2>1, <2>3, <2>4, <3>1 DEF Write, Carried
    <3>2. CASE phase # "off"
      BY <2>1, <2>2, <2>3, <2>4, <3>2, WriteType, CarriedAppend DEF IInv
    <3> QED
      BY <3>1, <3>2
  <2> QED
    BY <2>3, <2>4
<1>2. CASE WriteOk
  <2> USE <1>2 DEF WriteOk, pushVars
  <2>1. ASSUME Carried, phase # "failing" PROVE Carried'
    <3>1. CASE phase = "off"
      BY <2>1, <3>1 DEF Write, Carried
    <3>2. CASE phase # "off"
      <4>1. query.need = "OPENTUN"
        BY <2>1, <3>2 DEF IInv, Talk, Alive, TypeOK
      <4> QED
        BY <2>1, <3>2, <4>1, WriteType, CarriedAppend DEF IInv, LineNames, IsAnswer
    <3> QED
      BY <3>1, <3>2
  <2> QED
    BY <2>1
<1>3. CASE OtherThreadWrites /\ ~interrupted'
  <2> USE <1>3 DEF OtherThreadWrites, pushVars
  <2>1. PICK line \in LineNames : Write(line)
    BY DEF LineNames, Theirs
  <2>2. outbound = NoTun /\ ~interrupted
    OBVIOUS
  <2>3. Carried => Carried'
    BY <2>1, <2>2, WriteType, CarriedAppend DEF IInv
  <2> QED
    BY <2>3
<1>4. CASE OpenTun \/ ClearDescriptor \/ UNCHANGED vars
  BY <1>4 DEF OpenTun, ClearDescriptor, vars, pushVars, Carried
<1>5. CASE StartProcess \/ Push
  BY <1>5 DEF StartProcess, Push, pushVars, Carried, IInv, Unasked
<1>6. CASE ProcessExits \/ AskInVain \/ ReadSignalAtEnd
  BY <1>6, DiesSingle DEF ProcessExits, AskInVain, ReadSignalAtEnd
<1>7. CASE (Restarts \/ ReadSignal) /\ ~interrupted'
  <2>1. phase \in {"connecting", "up"} /\ phase \in Alive /\ ~Waiting /\ ~interrupted
    BY <1>7 DEF Restarts, ReadSignal, RestartWith, Alive, Waiting
  <2>2. RestartWith(descriptors, NoTun) /\ Carried' /\ Silent(toProc')
    <3>1. CASE Restarts
      <4>1. Silent(toProc)
        BY <2>1 DEF IInv, Talk
      <4> QED
        BY <2>1, <3>1, <4>1 DEF Restarts, Carried, Silent
    <3>2. CASE ReadSignal
      <4>1. PICK m \in Lines :
               m.line = "signal" /\ Read(m) /\ RestartWith(Received(m), LastFd(m))
        BY <3>2 DEF ReadSignal
      <4>2. Received(m) = descriptors /\ LastFd(m) = NoTun
        BY <2>1, <4>1, BareRead DEF IsAnswer
      <4>3. Silent(toProc')
        BY <2>1, <4>1, ReadFacts
      <4> QED
        BY <2>1, <4>1, <4>2, <4>3, CarriedTail DEF Read
    <3> QED
      BY <1>7, <3>1, <3>2
  <2>3. descriptors' = OneOf(held')
    BY <2>1, <2>2, OneOfClosed DEF RestartWith, IInv, TypeOK
  <2> QED
    BY <2>2, <2>3 DEF RestartWith
<1>8. CASE AskAddress \/ AskRoute \/ AskDNS \/ AskAction \/ AskTun
  <2>1. PICK n : Ask(n)
    BY <1>8 DEF AskAddress, AskRoute, AskDNS, AskAction, AskTun
  <2> USE <2>1 DEF Ask
  <2>2. ASSUME phase = "asking", Carried PROVE Carried'
    <3>1. Silent(toProc)
      BY <2>2 DEF IInv, Talk, Alive, Waiting
    <3> QED
      BY <2>2, <3>1 DEF Carried, Silent
  <2> QED
    BY <2>2
<1>9. CASE ReadNetworkChange /\ ~interrupted'
  <2>1. PICK m \in Lines : m.line = "network-change" /\ Read(m) /\ NoteFd(m)
    BY <1>9 DEF ReadNetworkChange
  <2> QED
    BY <1>9, <2>1, BareRead, CarriedTail DEF ReadNetworkChange, NoteFd, pushVars, Read, IsAnswer
<1>10. CASE ReadSignalInQuestion
  BY <1>10 DEF ReadSignalInQuestion
<1>11. CASE (ReadOk \/ ReadAction) /\ ~interrupted'
  <2>1. PICK m \in Lines : IsAnswer(m) /\ Read(m) /\ NoteFd(m)
    BY <1>11 DEF ReadOk, ReadAction, IsAnswer
  <2>2. phase = "asking" /\ phase' # "failing" /\ query.need # "OPENTUN" /\ Waiting /\ ~interrupted
    BY <1>11, <2>1 DEF NoteFd, ReadOk, ReadAction, ReadAnswer, Waiting, NoNeed
  <2>3. Silent(toProc')
    BY <2>1, <2>2, ReadFacts
  <2> QED
    BY <2>1, <2>2, <2>3, BareRead, CarriedTail DEF NoteFd, Read
<1>12. CASE ReadTun /\ ~interrupted'
  <2>1. PICK m \in Lines :
           /\ toProc # <<>> /\ Head(toProc) = m
           /\ IF m.line = "ok" /\ LastFd(m) # NoTun
              THEN TakeTun(m) /\ toProc' = Tail(toProc) /\ phase' = "up"
              ELSE Dies
    BY <1>12 DEF ReadTun
  <2>2. ReadAnswer({"OPENTUN"}) /\ phase = "asking" /\ query.need = "OPENTUN"
    BY <1>12 DEF ReadTun, ReadAnswer
  <2>3. CASE m.line = "ok" /\ LastFd(m) # NoTun
    <3>0. ~interrupted
      BY <1>12, <2>1, <2>3 DEF TakeTun
    <3>1. Silent(toProc') /\ Fits(m.fd) /\ m.fd # NoTun /\ held' = m.fd
      BY <2>1, <2>2, <2>3, AnswerFits DEF TakeTun
    <3>2. Carried'
      BY <2>1, <2>2, <2>3, <3>0, <3>1, CarriedTail
    <3>3. held # NoTun => method = "OPEN_BEFORE_CLOSE"
      BY <2>2 DEF IInv, Order, TypeOK
    <3>4. descriptors = OneOf(held) /\ m.fd \in Tuns /\ m.fd # held
      BY <2>2, <3>0, <3>1 DEF Fits
    <3>5. descriptors' = OneOf(m.fd)
      <4>1. CASE held = NoTun
        BY <2>1, <2>3, <3>1, <3>4, <4>1, OneOfClosed DEF TakeTun, Received
      <4>2. CASE held # NoTun
        <5>1. held \in Tuns
          BY <4>2 DEF IInv, TypeOK
        <5> QED
          BY <2>1, <2>3, <3>1, <3>3, <3>4, <4>2, <5>1, OneOfClosed DEF TakeTun, Received
      <4> QED
        BY <4>1, <4>2
    <3> QED
      BY <2>1, <2>3, <3>1, <3>2, <3>5 DEF TakeTun
  <2>4. CASE ~(m.line = "ok" /\ LastFd(m) # NoTun)
    BY <2>1, <2>4, DiesSingle
  <2> QED
    BY <2>3, <2>4
<1> QED
  BY <1>0, <1>1, <1>2, <1>3, <1>4, <1>5, <1>6, <1>7, <1>8, <1>9, <1>10, <1>11, <1>12
     DEF Next, AppStep, AskStep, ReadStep

\* A process that is up has one descriptor of the tun it uses and none of another, after
\* any number of restarts and processes, until another thread writes while a descriptor
\* is set for sending.
THEOREM OneDescriptorIsOpen == Spec => []OneDescriptor
<1>1. Init => Single
  BY TunAssumption DEF Init, Single, Carried, OneOf
<1>2. IInv /\ Single /\ [Next]_vars => Single'
  BY NextSingle
<1>3. Single => OneDescriptor
  BY DEF Single, OneDescriptor, OneOf
<1> QED
  BY <1>1, <1>2, <1>3, InitIInv, NextIInv, PTL DEF Spec
-----------------------------------------------------------------------------
(* What has been collected.                                                *)

\* The question the app has still to handle.
Pending == IF toJava = <<>> THEN NoNeed ELSE query

AddressIn ==
    /\ left.address \/ query.need = "IFCONFIG" => left.routes = pushed.routes
    /\ query.need = "IFCONFIG" => query.arg = [ip |-> pushed.ip, remote |-> pushed.remote]
    /\ pushed.ip # NoAddress =>
         left.address \/ Pending.need = "IFCONFIG" \/ tunConfig.ip = pushed.ip

RoutesIn ==
    /\ left.routes \subseteq pushed.routes
    /\ query.need = "ROUTE" => query.arg \in pushed.routes
    /\ \A r \in pushed.routes \ left.routes :
         \/ Pending.need = "ROUTE" /\ Pending.arg = r
         \/ tunConfig.ip = NoAddress
         \/ \E q \in tunConfig.routes : q.net = r.net

\* How many of the name servers have been handled.
Handled == Len(pushed.dns) - Len(left.dns) - (IF Pending.need = "DNSSERVER" THEN 1 ELSE 0)

DnsIn ==
    /\ Handled \in 0 .. Len(tunConfig.dns)
    /\ \A i \in 1 .. Handled : tunConfig.dns[Len(tunConfig.dns) - Handled + i] = pushed.dns[i]
    /\ \A i \in 1 .. Len(left.dns) :
         left.dns[i] = pushed.dns[Len(pushed.dns) - Len(left.dns) + i]
    /\ Pending.need = "DNSSERVER" => Pending.arg = pushed.dns[Handled + 1]

\* Nothing else is in a tunConfig that was empty.
OnlyThat ==
    clean =>
        /\ Len(tunConfig.dns) = Handled
        /\ tunConfig.ip = NoAddress => tunConfig.routes = {}
        /\ tunConfig.ip # NoAddress =>
             /\ tunConfig.ip = pushed.ip /\ mRemoteGW = pushed.remote
             /\ pushed.ip \notin Hosts => \E r \in tunConfig.routes : r.net = pushed.ip
             /\ \A r \in tunConfig.routes : r.included \in Wanted(r.net)

\* What NothingLost and Requested say of a configuration.
Whole(c) ==
    /\ pushed.ip # NoAddress => c.ip = pushed.ip
    /\ \A r \in pushed.routes : \E q \in c.routes : q.net = r.net
    /\ Len(pushed.dns) <= Len(c.dns)
    /\ pushed.dns = SubSeq(c.dns, Len(c.dns) - Len(pushed.dns) + 1, Len(c.dns))
Exact(c) ==
    /\ c.ip = pushed.ip /\ c.dns = pushed.dns
    /\ \A net \in Nets : Wanted(net) # {} => \E r \in c.routes : r.net = net
    /\ \A r \in c.routes :
         \/ r.included \in Wanted(r.net)
         \/ Wanted(r.net) = {} /\ AllowLocalLAN /\ ~r.included

Asked == phase = "asking" /\ ~Opened => AddressIn /\ RoutesIn /\ DnsIn /\ OnlyThat

Remembered ==
    (phase = "up" \/ Opened) /\ mLastTunCfg.ip # NoAddress =>
        Whole(mLastTunCfg) /\ (clean => Exact(mLastTunCfg))

HasTun == phase = "up" => held # NoTun

LEMMA FieldTypes ==
    ASSUME IInv
    PROVE  /\ tunConfig \in Configs /\ tunConfig.ip \in Nets \cup {NoAddress}
           /\ tunConfig.dns \in Seq(Servers) /\ tunConfig.routes \subseteq Routes
           /\ pushed.ip \in Nets \cup {NoAddress} /\ pushed.dns \in Seq(Servers)
           /\ pushed.routes \subseteq PushedRoutes
           /\ left.routes \subseteq PushedRoutes /\ left.dns \in Seq(Servers)
           /\ left.address \in BOOLEAN
<1>1. pushed \in Replies /\ tunConfig \in Configs
  BY EmptyTypes, TunAssumption DEF IInv, TypeOK
<1>2. /\ pushed.ip \in Nets \cup {NoAddress} /\ pushed.dns \in Seq(Servers)
      /\ pushed.routes \subseteq PushedRoutes
  BY <1>1 DEF Replies
<1>3. /\ tunConfig.ip \in Nets \cup {NoAddress}
      /\ tunConfig.dns \in Seq(Servers) /\ tunConfig.routes \subseteq Routes
  BY <1>1 DEF Configs
<1>4. left.routes \subseteq PushedRoutes /\ left.dns \in Seq(Servers) /\ left.address \in BOOLEAN
  BY DEF IInv, TypeOK
<1> QED
  BY <1>1, <1>2, <1>3, <1>4

LEMMA SuffixIs ==
    ASSUME NEW p \in Seq(Servers), NEW s \in Seq(Servers), Len(p) <= Len(s),
           \A i \in 1 .. Len(p) : s[Len(s) - Len(p) + i] = p[i]
    PROVE  /\ p = SubSeq(s, Len(s) - Len(p) + 1, Len(s))
           /\ Len(s) = Len(p) => s = p
<1>1. p = SubSeq(s, Len(s) - Len(p) + 1, Len(s))
  OBVIOUS
<1>2. Len(s) = Len(p) => s = p
  OBVIOUS
<1> QED
  BY <1>1, <1>2

\* When everything has been asked and handled, everything is there.
LEMMA WholeTun ==
    ASSUME IInv, AddressIn, RoutesIn, DnsIn, OnlyThat, left = NothingLeft,
           Pending.need \notin Collecting, tunConfig.ip # NoAddress
    PROVE  Whole(tunConfig) /\ (clean => Exact(tunConfig))
<1> USE FieldTypes
<1>1. pushed.ip # NoAddress => tunConfig.ip = pushed.ip
  BY DEF AddressIn, NothingLeft, Collecting
<1>2. \A r \in pushed.routes : \E q \in tunConfig.routes : q.net = r.net
  BY DEF RoutesIn, NothingLeft, Collecting
<1>3. Handled = Len(pushed.dns)
  <2>1. Len(left.dns) = 0 /\ Pending.need # "DNSSERVER" /\ Len(pushed.dns) \in Nat
    BY DEF NothingLeft, Collecting
  <2> QED
    BY <2>1 DEF Handled
<1>4. Len(pushed.dns) <= Len(tunConfig.dns)
      /\ \A i \in 1 .. Len(pushed.dns) :
           tunConfig.dns[Len(tunConfig.dns) - Len(pushed.dns) + i] = pushed.dns[i]
  <2>1. Len(pushed.dns) \in Nat /\ Len(tunConfig.dns) \in Nat
    OBVIOUS
  <2>2. Len(pushed.dns) <= Len(tunConfig.dns)
    BY <1>3, <2>1 DEF DnsIn
  <2>3. ASSUME NEW i \in 1 .. Len(pushed.dns)
        PROVE  tunConfig.dns[Len(tunConfig.dns) - Len(pushed.dns) + i] = pushed.dns[i]
    BY <1>3, <2>3 DEF DnsIn
  <2> QED
    BY <2>2, <2>3
<1>5. Whole(tunConfig)
  BY <1>1, <1>2, <1>4, SuffixIs DEF Whole
<1>6. ASSUME clean PROVE Exact(tunConfig)
  <2>1. /\ Len(tunConfig.dns) = Len(pushed.dns) /\ tunConfig.ip = pushed.ip
        /\ pushed.ip \notin Hosts => \E r \in tunConfig.routes : r.net = pushed.ip
        /\ \A r \in tunConfig.routes : r.included \in Wanted(r.net)
    BY <1>3, <1>6 DEF OnlyThat
  <2>2. tunConfig.dns = pushed.dns
    BY <1>4, <2>1, SuffixIs
  <2>3. ASSUME NEW net \in Nets, Wanted(net) # {}
        PROVE  \E r \in tunConfig.routes : r.net = net
    <3>1. CASE net = pushed.ip /\ net \notin Hosts
      BY <2>1, <3>1
    <3>2. CASE \E r \in pushed.routes : r.net = net
      BY <1>2, <3>2
    <3> QED
      BY <2>3, <3>1, <3>2 DEF Wanted
  <2> QED
    BY <2>1, <2>2, <2>3 DEF Exact
<1> QED
  BY <1>5, <1>6

LEMMA WantedKept == ASSUME pushed' = pushed PROVE \A net : Wanted(net)' = Wanted(net)
BY DEF Wanted

LEMMA WholeLocal ==
    ASSUME IInv, NEW c \in Configs, NEW locals, Whole(c)
    PROVE  /\ Whole(WithLocal(c, locals))
           /\ Exact(c) => Exact(WithLocal(c, locals))
<1> DEFINE w == WithLocal(c, locals)
<1>1. /\ w \in Configs /\ w.ip = c.ip /\ w.dns = c.dns /\ c.routes \subseteq w.routes
      /\ \A r \in w.routes \ c.routes :
           AllowLocalLAN /\ ~r.included /\ ~\E q \in c.routes : q.net = r.net
  BY LocalAdded
<1> HIDE DEF w
<1>2. Whole(w)
  BY <1>1 DEF Whole
<1>3. ASSUME Exact(c) PROVE Exact(w)
  <2>1. \A net \in Nets : Wanted(net) # {} => \E r \in w.routes : r.net = net
    BY <1>1, <1>3 DEF Exact
  <2>2. ASSUME NEW r \in w.routes \ c.routes
        PROVE  Wanted(r.net) = {} /\ AllowLocalLAN /\ ~r.included
    <3>1. r.net \in Nets
      BY <1>1 DEF Configs, Routes
    <3> QED
      BY <1>1, <1>3, <2>2, <3>1 DEF Exact
  <2> QED
    BY <1>1, <1>3, <2>1, <2>2 DEF Exact
<1> QED
  BY <1>2, <1>3 DEF w

-----------------------------------------------------------------------------
LEMMA CollectAsked ==
    ASSUME IInv, Asked, Collect, phase = "asking" PROVE Asked'
<1> USE FieldTypes
<1>1. PICK n \in Needs :
         /\ Handle(n)
         /\ \/ n.need = "IFCONFIG" /\ tunConfig' = SetLocalIP(n.arg.ip) /\ mRemoteGW' = n.arg.remote
            \/ n.need = "ROUTE" /\ tunConfig' = AddRoute(n.arg) /\ UNCHANGED mRemoteGW
            \/ n.need = "DNSSERVER" /\ tunConfig' = AddDNS(n.arg) /\ UNCHANGED mRemoteGW
  BY DEF Collect
<1>2. n = query /\ toJava = <<query>> /\ toJava' = <<>> /\ Pending = query /\ Pending' = NoNeed
  <2>1. n = query /\ toJava = <<query>> /\ toJava' = <<>>
    BY <1>1, HandleFacts DEF Alive
  <2>2. toJava # <<>>
    BY <2>1
  <2> QED
    BY <2>1, <2>2 DEF Pending
<1>3. pushed' = pushed /\ clean' = clean /\ left' = left /\ query' = query /\ phase' = phase
  BY DEF Collect, pushVars
<1>4. AddressIn /\ RoutesIn /\ DnsIn /\ OnlyThat
  BY <1>2 DEF Asked, Opened
<1>5. CASE n.need = "IFCONFIG"
  <2>1. n.arg.ip = pushed.ip /\ n.arg.remote = pushed.remote /\ pushed.ip \in Nets
        /\ pushed.ip # NoAddress
    BY <1>2, <1>4, <1>5, TunAssumption DEF AddressIn, Needs, NoNeed
  <2>2. /\ tunConfig'.ip = pushed.ip /\ tunConfig'.dns = tunConfig.dns /\ mRemoteGW' = pushed.remote
        /\ tunConfig'.routes = WithOwn(pushed.ip, tunConfig.routes)
    BY <1>1, <1>5, <2>1 DEF SetLocalIP, Configs
  <2>3. Handled' = Handled
    BY <1>2, <1>3, <1>5 DEF Handled, NoNeed
  <2>4. AddressIn' /\ RoutesIn'
    BY <1>2, <1>3, <1>4, <1>5, <2>2 DEF AddressIn, RoutesIn
  <2>5. DnsIn'
    BY <1>2, <1>3, <1>4, <2>2, <2>3 DEF DnsIn, NoNeed
  <2>6. OnlyThat'
    <3>1. \A net : Wanted(net)' = Wanted(net)
      BY <1>3 DEF Wanted
    <3>2. ASSUME clean, NEW r \in tunConfig.routes PROVE r.included \in Wanted(r.net)
      BY <1>4, <3>2 DEF OnlyThat
    <3>3. /\ tunConfig'.routes \subseteq tunConfig.routes \cup {[net |-> pushed.ip, included |-> TRUE]}
          /\ pushed.ip \in Hosts => tunConfig'.routes = tunConfig.routes
          /\ pushed.ip \notin Hosts => \E r \in tunConfig'.routes : r.net = pushed.ip
      <4>1. CASE pushed.ip \in Hosts
        BY <2>2, <4>1 DEF WithOwn
      <4>2. CASE pushed.ip \notin Hosts
        <5>1. tunConfig'.routes = Added(tunConfig.routes, [net |-> pushed.ip, included |-> TRUE])
          BY <2>2, <4>2 DEF WithOwn
        <5> QED
          BY <4>2, <5>1 DEF Added
      <4> QED
        BY <4>1, <4>2
    <3>4. pushed.ip \notin Hosts => TRUE \in Wanted(pushed.ip)
      BY DEF Wanted
    <3>5. ASSUME clean, NEW r \in tunConfig'.routes PROVE r.included \in Wanted(r.net)
      <4>1. CASE r \in tunConfig.routes
        BY <3>2, <3>5, <4>1
      <4>2. CASE r \notin tunConfig.routes
        <5>1. r = [net |-> pushed.ip, included |-> TRUE] /\ pushed.ip \notin Hosts
          BY <3>3, <3>5, <4>2
        <5> QED
          BY <3>4, <5>1
      <4> QED
        BY <4>1, <4>2
    <3> QED
      BY <1>3, <1>4, <2>1, <2>2, <2>3, <3>1, <3>3, <3>5 DEF OnlyThat
  <2> QED
    BY <2>4, <2>5, <2>6 DEF Asked
<1>6. CASE n.need = "ROUTE"
  <2> DEFINE own == [net |-> n.arg.net, included |-> LeadsIn(n.arg.gateway, tunConfig.ip, mRemoteGW)]
  <2>0. own.net = n.arg.net /\ own.included = LeadsIn(n.arg.gateway, tunConfig.ip, mRemoteGW)
    OBVIOUS
  <2>1. n.arg \in pushed.routes
    BY <1>2, <1>4, <1>6 DEF RoutesIn
  <2>2. /\ tunConfig'.ip = tunConfig.ip /\ tunConfig'.dns = tunConfig.dns /\ mRemoteGW' = mRemoteGW
        /\ tunConfig.ip = NoAddress => tunConfig'.routes = tunConfig.routes
        /\ tunConfig.ip # NoAddress => tunConfig'.routes = Added(tunConfig.routes, own)
    BY <1>1, <1>6 DEF AddRoute, Configs
  <2> HIDE DEF own
  <2>3. Handled' = Handled
    BY <1>2, <1>3, <1>6 DEF Handled, NoNeed
  <2>4. AddressIn'
    BY <1>2, <1>3, <1>4, <1>6, <2>2 DEF AddressIn
  <2>5. RoutesIn'
    <3>1. tunConfig.ip # NoAddress =>
            /\ tunConfig.routes \subseteq tunConfig'.routes
            /\ \E q \in tunConfig'.routes : q.net = n.arg.net
      BY <2>0, <2>2 DEF Added
    <3> QED
      BY <1>2, <1>3, <1>4, <2>2, <3>1 DEF RoutesIn
  <2>6. DnsIn'
    BY <1>2, <1>3, <1>4, <2>2, <2>3 DEF DnsIn, NoNeed
  <2>7. OnlyThat'
    <3>1. \A net : Wanted(net)' = Wanted(net)
      BY <1>3 DEF Wanted
    <3>2. ASSUME clean, tunConfig.ip # NoAddress, NEW r \in tunConfig'.routes
          PROVE  r.included \in Wanted(r.net)
      <4>1. /\ tunConfig.ip = pushed.ip /\ mRemoteGW = pushed.remote
            /\ pushed.ip \notin Hosts => \E q \in tunConfig.routes : q.net = pushed.ip
            /\ \A q \in tunConfig.routes : q.included \in Wanted(q.net)
        BY <1>4, <3>2 DEF OnlyThat
      <4>2. CASE r \in tunConfig.routes
        BY <4>1, <4>2
      <4>3. CASE r \notin tunConfig.routes
        <5>1. r = own /\ ~\E q \in tunConfig.routes : q.net = n.arg.net
          BY <2>0, <2>2, <3>2, <4>3 DEF Added
        <5>2. r.net = n.arg.net /\ r.included = LeadsIn(n.arg.gateway, pushed.ip, pushed.remote)
          BY <2>0, <4>1, <5>1
        <5>3. ~(r.net = pushed.ip /\ r.net \notin Hosts)
          BY <4>1, <5>1, <5>2
        <5> QED
          BY <2>1, <5>2, <5>3 DEF Wanted
      <4> QED
        BY <4>2, <4>3
    <3>3. tunConfig.ip # NoAddress => tunConfig.routes \subseteq tunConfig'.routes
      BY <2>2 DEF Added
    <3> QED
      BY <1>3, <1>4, <2>2, <2>3, <3>1, <3>2, <3>3 DEF OnlyThat
  <2> QED
    BY <2>4, <2>5, <2>6, <2>7 DEF Asked
<1>7. CASE n.need = "DNSSERVER"
  <2>1. n.arg \in Servers
    BY <1>7 DEF Needs, NoNeed
  <2>2. /\ tunConfig'.ip = tunConfig.ip /\ tunConfig'.routes = tunConfig.routes
        /\ tunConfig'.dns = Append(tunConfig.dns, n.arg) /\ mRemoteGW' = mRemoteGW
    BY <1>1, <1>7 DEF AddDNS, Configs
  <2>3. Handled' = Handled + 1 /\ n.arg = pushed.dns[Handled + 1] /\ Handled \in 0 .. Len(tunConfig.dns)
    <3>1. Pending.need = "DNSSERVER" /\ Pending'.need # "DNSSERVER" /\ Pending.arg = n.arg
      BY <1>2, <1>7 DEF NoNeed
    <3>2. Len(pushed.dns) \in Nat /\ Len(left.dns) \in Nat
      OBVIOUS
    <3>3. Handled' = Handled + 1
      BY <1>3, <3>1, <3>2 DEF Handled
    <3> QED
      BY <1>4, <3>1, <3>3 DEF DnsIn
  <2>4. AddressIn' /\ RoutesIn'
    BY <1>2, <1>3, <1>4, <1>7, <2>2 DEF AddressIn, RoutesIn
  <2>5. Len(tunConfig'.dns) = Len(tunConfig.dns) + 1 /\ Handled' \in 0 .. Len(tunConfig'.dns)
    BY <2>1, <2>2, <2>3
  <2>6. ASSUME NEW i \in 1 .. Handled'
        PROVE  tunConfig'.dns[Len(tunConfig'.dns) - Handled' + i] = pushed.dns[i]
    <3>1. i \in 1 .. Handled + 1
          /\ Len(tunConfig'.dns) - Handled' + i = Len(tunConfig.dns) - Handled + i
      BY <2>3, <2>5, <2>6
    <3>2. CASE i = Handled + 1
      <4>1. Len(tunConfig'.dns) - Handled' + i = Len(tunConfig.dns) + 1
        <5>1. Len(tunConfig.dns) \in Nat /\ Handled \in Nat
          BY <2>3
        <5>2. \A a, h \in Nat : a - h + (h + 1) = a + 1
          OBVIOUS
        <5> QED
          BY <3>1, <3>2, <5>1, <5>2
      <4>2. tunConfig'.dns[Len(tunConfig.dns) + 1] = n.arg
        BY <2>1, <2>2
      <4> QED
        BY <2>3, <3>2, <4>1, <4>2
    <3>3. CASE i # Handled + 1
      <4>1. i \in 1 .. Handled /\ Len(tunConfig.dns) - Handled + i \in 1 .. Len(tunConfig.dns)
        BY <2>3, <3>1, <3>3
      <4>2. tunConfig.dns[Len(tunConfig.dns) - Handled + i] = pushed.dns[i]
        BY <1>4, <4>1 DEF DnsIn
      <4> QED
        BY <2>1, <2>2, <3>1, <4>1, <4>2
    <3> QED
      BY <3>2, <3>3
  <2>7. DnsIn'
    BY <1>2, <1>3, <1>4, <2>5, <2>6 DEF DnsIn, NoNeed
  <2>8. OnlyThat'
    BY <1>3, <1>4, <2>2, <2>3, <2>5, WantedKept DEF OnlyThat
  <2> QED
    BY <2>4, <2>7, <2>8 DEF Asked
<1> QED
  BY <1>1, <1>5, <1>6, <1>7
LEMMA PushAsked == ASSUME IInv, Push PROVE Asked'
<1> USE FieldTypes DEF Push, serviceVars
<1>1. PICK p \in Pushes :
         /\ pushed' = p
         /\ left' = [address |-> p.ip # NoAddress, routes |-> p.routes, dns |-> p.dns]
  OBVIOUS
<1>2. p.dns \in Seq(Servers) /\ Len(p.dns) \in Nat /\ p.ip \in Nets \cup {NoAddress}
  BY <1>1, TunAssumption DEF Replies
<1>3. toJava' = <<>> /\ query' = NoNeed /\ Pending' = NoNeed /\ tunConfig' = tunConfig
  BY DEF IInv, Talk, Alive, Waiting, Unasked, Pending
<1>4. AddressIn' /\ RoutesIn'
  <2>1. left'.routes = pushed'.routes /\ (pushed'.ip # NoAddress => left'.address)
    BY <1>1
  <2> QED
    BY <1>3, <2>1 DEF AddressIn, RoutesIn, NoNeed
<1>5. Handled' = 0
  BY <1>1, <1>2, <1>3 DEF Handled, NoNeed
<1>6. DnsIn'
  BY <1>1, <1>2, <1>3, <1>5 DEF DnsIn, NoNeed
<1>7. OnlyThat'
  <2>1. clean' => tunConfig = EmptyConfig
    OBVIOUS
  <2>2. tunConfig = EmptyConfig =>
          Len(tunConfig.dns) = 0 /\ tunConfig.ip = NoAddress /\ tunConfig.routes = {}
    BY DEF EmptyConfig
  <2> QED
    BY <1>3, <1>5, <2>1, <2>2 DEF OnlyThat
<1> QED
  BY <1>4, <1>6, <1>7 DEF Asked

\* What is asked is taken from what is left.
LEMMA AskAsked ==
    ASSUME IInv, Asked, phase = "asking",
           AskAddress \/ AskRoute \/ AskDNS \/ AskAction \/ AskTun
    PROVE  Asked'
<1> USE FieldTypes
<1>1. PICK n : Ask(n)
  BY DEF AskAddress, AskRoute, AskDNS, AskAction, AskTun
<1>2. /\ query = NoNeed /\ toJava = <<>> /\ Pending = NoNeed
      /\ query' = n /\ toJava' = <<n>> /\ Pending' = n
  <2>1. query = NoNeed /\ toJava = <<>> /\ query' = n /\ toJava' = <<n>>
    BY <1>1 DEF Ask, IInv, Talk, Alive, Waiting
  <2>2. toJava' # <<>>
    BY <2>1
  <2> QED
    BY <2>1, <2>2 DEF Pending
<1>3. tunConfig' = tunConfig /\ mRemoteGW' = mRemoteGW /\ pushed' = pushed /\ clean' = clean
  BY <1>1 DEF Ask, serviceVars
<1>4. AddressIn /\ RoutesIn /\ DnsIn /\ OnlyThat
  BY <1>2 DEF Asked, Opened, NoNeed
<1>5. \A net : Wanted(net)' = Wanted(net)
  BY <1>3 DEF Wanted
<1>6. CASE n.need # "DNSSERVER" /\ left'.dns = left.dns /\ AddressIn' /\ RoutesIn'
  <2>1. Handled' = Handled
    BY <1>2, <1>3, <1>6 DEF Handled, NoNeed
  <2>2. DnsIn' /\ OnlyThat'
    BY <1>2, <1>3, <1>4, <1>5, <1>6, <2>1 DEF DnsIn, OnlyThat
  <2> QED
    BY <1>6, <2>2 DEF Asked
<1>7. CASE AskAddress
  <2>1. /\ n = [need |-> "IFCONFIG", arg |-> [ip |-> pushed.ip, remote |-> pushed.remote]]
        /\ left.address
        /\ left'.address = FALSE /\ left'.routes = left.routes /\ left'.dns = left.dns
    BY <1>2, <1>7 DEF AskAddress, Ask, IInv, TypeOK
  <2> QED
    BY <1>2, <1>3, <1>4, <1>6, <2>1 DEF AddressIn, RoutesIn, NoNeed
<1>8. CASE AskRoute
  <2>1. PICK r \in left.routes :
           Ask([need |-> "ROUTE", arg |-> r]) /\ left' = [left EXCEPT !.routes = @ \ {r}]
    BY <1>8 DEF AskRoute
  <2>2. /\ n = [need |-> "ROUTE", arg |-> r] /\ ~left.address
        /\ ~left'.address /\ left'.routes = left.routes \ {r} /\ left'.dns = left.dns
    BY <1>2, <1>8, <2>1 DEF AskRoute, Ask, IInv, TypeOK
  <2> QED
    BY <1>2, <1>3, <1>4, <1>6, <2>1, <2>2 DEF AddressIn, RoutesIn, NoNeed
<1>9. CASE AskDNS
  <2>1. /\ n = [need |-> "DNSSERVER", arg |-> Head(left.dns)] /\ left.dns # <<>>
        /\ left'.address = left.address /\ left'.routes = left.routes /\ left'.dns = Tail(left.dns)
    BY <1>2, <1>9 DEF AskDNS, Ask, IInv, TypeOK
  <2>2. AddressIn' /\ RoutesIn'
    BY <1>2, <1>3, <1>4, <2>1 DEF AddressIn, RoutesIn, NoNeed
  <2>3. Len(pushed.dns) \in Nat /\ Len(left.dns) \in Nat \ {0} /\ Len(left'.dns) = Len(left.dns) - 1
    BY <2>1
  <2>4. /\ Handled = Len(pushed.dns) - Len(left.dns) /\ Handled' = Handled
        /\ Len(pushed.dns) - Len(left'.dns) = Handled + 1
    <3>1. \A a, b \in Nat : a - b - 0 = a - b /\ a - (b - 1) - 1 = a - b /\ a - (b - 1) = a - b + 1
      OBVIOUS
    <3>2. Handled = Len(pushed.dns) - Len(left.dns) - 0
      BY <1>2 DEF Handled, NoNeed
    <3>3. Handled' = Len(pushed.dns) - Len(left'.dns) - 1
      BY <1>2, <1>3, <2>1 DEF Handled
    <3> QED
      BY <2>3, <3>1, <3>2, <3>3
  <2>5. n.arg = pushed.dns[Handled + 1]
    <3>1. 1 \in 1 .. Len(left.dns) /\ Head(left.dns) = left.dns[1]
      BY <2>1, <2>3
    <3> QED
      BY <1>4, <2>1, <2>3, <2>4, <3>1 DEF DnsIn
  <2>6. ASSUME NEW i \in 1 .. Len(left'.dns)
        PROVE  left'.dns[i] = pushed.dns[Len(pushed.dns) - Len(left'.dns) + i]
    <3>1. i + 1 \in 1 .. Len(left.dns) /\ left'.dns[i] = left.dns[i + 1]
      BY <2>1, <2>3, <2>6
    <3>2. Len(pushed.dns) - Len(left.dns) + (i + 1) = Len(pushed.dns) - Len(left'.dns) + i
      <4>1. \A a, b \in Nat : a - b + (i + 1) = a - (b - 1) + i
        BY <2>3, <2>6
      <4> QED
        BY <2>3, <4>1
    <3> QED
      BY <1>4, <3>1, <3>2 DEF DnsIn
  <2>7. DnsIn'
    BY <1>2, <1>3, <1>4, <2>4, <2>5, <2>6 DEF DnsIn
  <2>8. OnlyThat'
    BY <1>3, <1>4, <1>5, <2>4 DEF OnlyThat
  <2> QED
    BY <2>2, <2>7, <2>8 DEF Asked
<1>10. CASE AskAction \/ AskTun
  <2>1. n.need \in {"PERSIST_TUN_ACTION", "OPENTUN"} /\ left' = left
    BY <1>2, <1>10 DEF AskAction, AskTun, Ask
  <2> QED
    BY <1>2, <1>3, <1>4, <1>6, <2>1 DEF AddressIn, RoutesIn, NoNeed
<1> QED
  BY <1>7, <1>8, <1>9, <1>10

\* An answer that is read changes nothing of what has been handled.
LEMMA ReadAsked ==
    ASSUME IInv, Asked, ReadOk \/ ReadAction PROVE Asked'
<1>1. /\ phase = "asking" /\ ~Opened /\ query' = NoNeed /\ toJava' = toJava
      /\ tunConfig' = tunConfig /\ mRemoteGW' = mRemoteGW
      /\ pushed' = pushed /\ clean' = clean /\ left' = left
  BY DEF ReadOk, ReadAction, ReadAnswer, Opened, serviceVars
<1>2. PICK m \in Lines : IsAnswer(m) /\ Read(m)
  BY DEF ReadOk, ReadAction, IsAnswer
<1>3. toJava = <<>>
  BY <1>2, ReadFacts DEF ReadOk, ReadAction, ReadAnswer, Waiting, NoNeed
<1>4. Pending = NoNeed /\ Pending' = NoNeed
  BY <1>1, <1>3 DEF Pending
<1>5. Handled' = Handled /\ \A net : Wanted(net)' = Wanted(net)
  BY <1>1, <1>4 DEF Handled, Wanted
<1>6. AddressIn /\ RoutesIn /\ DnsIn /\ OnlyThat
  BY <1>1 DEF Asked
<1>7. AddressIn' /\ RoutesIn' /\ DnsIn' /\ OnlyThat'
  BY <1>1, <1>4, <1>5, <1>6 DEF AddressIn, RoutesIn, DnsIn, OnlyThat, NoNeed
<1> QED
  BY <1>7 DEF Asked
\* Steps that touch neither what is collected nor what is asked.
LEMMA QuietHolds ==
    ASSUME Asked, Remembered, HasTun,
           UNCHANGED <<tunConfig, mRemoteGW, mLastTunCfg, toJava, phase, pushVars, held>>
    PROVE  Asked' /\ Remembered' /\ HasTun'
<1> USE DEF pushVars
<1>1. Pending' = Pending /\ (Opened' <=> Opened) /\ \A net : Wanted(net)' = Wanted(net)
  BY DEF Pending, Opened, Wanted
<1>2. Handled' = Handled
  BY <1>1 DEF Handled
<1>3. Asked'
  BY <1>1, <1>2 DEF Asked, AddressIn, RoutesIn, DnsIn, OnlyThat
<1>4. Remembered' /\ HasTun'
  BY <1>1 DEF Remembered, HasTun, Whole, Exact
<1> QED
  BY <1>3, <1>4

\* What a tun is opened with, and the attempt to open one, is remembered whole.
LEMMA OpenedWhole ==
    ASSUME IInv, Asked, OpenTun \/ OpenTunFails, phase = "asking" PROVE Remembered'
<1>1. toJava = <<query>> /\ query.need = "OPENTUN" /\ toJava # <<>>
  <2>1. toJava = <<query>> /\ query.need = "OPENTUN"
    BY HandleFacts DEF OpenTun, OpenTunFails, Alive
  <2> QED
    BY <2>1
<1>2. left = NothingLeft /\ Pending.need \notin Collecting
  BY <1>1 DEF IInv, Order, Pending, Collecting
<1>3. AddressIn /\ RoutesIn /\ DnsIn /\ OnlyThat
  BY <1>1 DEF Asked, Opened
<1>4. tunConfig.ip # NoAddress => Whole(tunConfig) /\ (clean => Exact(tunConfig))
  BY <1>2, <1>3, WholeTun
<1>5. mLastTunCfg' = tunConfig \/ \E locals \in Local : mLastTunCfg' = WithLocal(tunConfig, locals)
  BY DEF OpenTun, OpenTunFails
<1>6. tunConfig \in Configs
  BY FieldTypes
<1>7. mLastTunCfg'.ip # NoAddress =>
        Whole(mLastTunCfg') /\ (clean => Exact(mLastTunCfg'))
  <2>1. CASE mLastTunCfg' = tunConfig
    BY <1>4, <2>1
  <2>2. CASE \E locals \in Local : mLastTunCfg' = WithLocal(tunConfig, locals)
    <3>1. PICK locals \in Local : mLastTunCfg' = WithLocal(tunConfig, locals)
      BY <2>2
    <3>2. mLastTunCfg'.ip = tunConfig.ip
      BY <1>6, <3>1, LocalAdded
    <3> QED
      BY <1>4, <1>6, <3>1, <3>2, WholeLocal
  <2> QED
    BY <1>5, <2>1, <2>2
<1>8. pushed' = pushed /\ clean' = clean
  BY DEF OpenTun, OpenTunFails, pushVars
<1> QED
  BY <1>7, <1>8, WantedKept DEF Remembered, Whole, Exact

LEMMA NextCollected ==
    ASSUME IInv, Asked, Remembered, HasTun, [Next]_vars PROVE Asked' /\ Remembered' /\ HasTun'
<1>1. CASE WriteOk \/ ClearDescriptor \/ OtherThreadWrites \/ ReadNetworkChange \/ UNCHANGED vars
  BY <1>1, QuietHolds DEF WriteOk, ClearDescriptor, OtherThreadWrites, ReadNetworkChange, NoteFd,
     serviceVars, pushVars, fdVars, vars
<1>2. ASSUME phase' \notin {"asking", "up"} PROVE Asked' /\ Remembered' /\ HasTun'
  BY <1>2 DEF Asked, Remembered, HasTun, Opened
<1>3. CASE StartProcess \/ ProcessExits \/ Restarts \/ AskInVain \/ ReadSignal
           \/ ReadSignalInQuestion \/ ReadSignalAtEnd
  BY <1>2, <1>3 DEF StartProcess, ProcessExits, Restarts, RestartWith, AskInVain, ReadSignal,
     ReadSignalInQuestion, ReadSignalAtEnd, Dies
<1>4. CASE Collect \/ PersistTunAction \/ OpenTunFails \/ OpenTun
  <2>1. phase' = phase /\ held' = held
    BY <1>4 DEF Collect, PersistTunAction, OpenTunFails, OpenTun, fdVars
  <2>2. CASE phase \in Alive
    <3>1. phase = "asking" /\ query' = query /\ toJava = <<query>> /\ toJava' = <<>>
      BY <1>4, <2>2, HandleFacts
         DEF Waiting, Collect, PersistTunAction, OpenTunFails, OpenTun, pushVars
    <3>2. HasTun'
      BY <2>1, <3>1 DEF HasTun
    <3>3. CASE Collect
      <4>1. query.need \in Collecting
        BY <2>2, <3>3, HandleFacts DEF Collect, Collecting
      <4> QED
        BY <2>1, <3>1, <3>2, <3>3, <4>1, CollectAsked DEF Remembered, Opened, Collecting
    <3>4. CASE PersistTunAction
      <4>1. query.need = "PERSIST_TUN_ACTION"
        BY <2>2, <3>4, HandleFacts DEF PersistTunAction
      <4>2. AddressIn /\ RoutesIn /\ DnsIn /\ OnlyThat
        BY <3>1, <4>1 DEF Asked, Opened
      <4>3. /\ Pending.need \in {"PERSIST_TUN_ACTION", "none"} /\ Pending' = NoNeed
            /\ UNCHANGED <<tunConfig, mRemoteGW, pushed, clean, left>>
        BY <3>1, <3>4, <4>1 DEF Pending, PersistTunAction, serviceVars, pushVars, NoNeed
      <4>4. Handled' = Handled /\ \A net : Wanted(net)' = Wanted(net)
        BY <4>3 DEF Handled, Wanted, NoNeed
      <4>5. AddressIn' /\ RoutesIn' /\ DnsIn' /\ OnlyThat'
        BY <3>1, <4>1, <4>2, <4>3, <4>4 DEF AddressIn, RoutesIn, DnsIn, OnlyThat, NoNeed
      <4> QED
        BY <2>1, <3>1, <3>2, <4>1, <4>5 DEF Asked, Remembered, Opened
    <3>5. CASE OpenTunFails \/ OpenTun
      <4>1. query.need = "OPENTUN"
        BY <2>2, <3>5, HandleFacts DEF OpenTunFails, OpenTun
      <4>2. Opened'
        BY <2>1, <3>1, <4>1 DEF Opened
      <4> QED
        BY <3>1, <3>2, <3>5, <4>2, OpenedWhole DEF Asked
    <3> QED
      BY <1>4, <3>3, <3>4, <3>5
  <2>3. CASE phase \notin Alive
    BY <1>2, <2>1, <2>3 DEF Alive
  <2> QED
    BY <2>2, <2>3
<1>5. CASE Push
  <2>1. Asked'
    BY <1>5, PushAsked
  <2> QED
    BY <1>5, <2>1 DEF Push, Remembered, HasTun, Opened, IInv, Unasked, NoNeed
<1>6. CASE AskAddress \/ AskRoute \/ AskDNS \/ AskAction \/ AskTun
  <2>1. PICK n : Ask(n)
    BY <1>6 DEF AskAddress, AskRoute, AskDNS, AskAction, AskTun
  <2>2. phase' = phase /\ phase \in {"asking", "failing"} /\ toJava' # <<>>
    BY <2>1 DEF Ask, IInv, TypeOK
  <2>3. Asked'
    BY <1>2, <1>6, <2>2, AskAsked
  <2> QED
    BY <2>2, <2>3 DEF Remembered, HasTun, Opened
<1>7. CASE ReadOk
  <2>1. Asked'
    BY <1>7, ReadAsked
  <2> QED
    BY <1>7, <2>1 DEF ReadOk, ReadAnswer, Remembered, HasTun, Opened, NoNeed
<1>8. CASE ReadAction
  <2>1. Asked' /\ phase = "asking" /\ query.need = "PERSIST_TUN_ACTION" /\ ~Opened
    BY <1>8, ReadAsked DEF ReadAction, ReadAnswer, Opened
  <2>2. phase' = "up" => method' = "NOACTION" /\ held # NoTun
    BY <1>8 DEF ReadAction
  <2>3. held' = held /\ query' = NoNeed
        /\ UNCHANGED <<tunConfig, mLastTunCfg, pushed, clean>>
    BY <1>8 DEF ReadAction, NoteFd, serviceVars
  <2>4. PICK m \in Lines :
           m.line \in {"NOACTION", "OPEN_BEFORE_CLOSE"} /\ Read(m) /\ method' = m.line
    BY <1>8 DEF ReadAction
  <2>5. m \in GoodLines /\ toJava = <<>>
    BY <2>1, <2>4, ReadFacts DEF Waiting, IsAnswer, NoNeed
  <2>6. ASSUME phase' = "up", mLastTunCfg.ip # NoAddress
        PROVE  Whole(mLastTunCfg) /\ (clean => Exact(mLastTunCfg))
    <3>1. tunConfig = mLastTunCfg
      BY <2>1, <2>2, <2>4, <2>5, <2>6 DEF GoodLines, Good
    <3>2. left = NothingLeft /\ Pending = NoNeed
      BY <2>1, <2>5 DEF IInv, Order, Pending
    <3> QED
      BY <2>1, <2>6, <3>1, <3>2, WholeTun DEF Asked, NoNeed, Collecting
  <2>7. ~Opened'
    BY <2>3 DEF Opened, NoNeed
  <2> QED
    BY <2>1, <2>2, <2>3, <2>6, <2>7, WantedKept DEF Remembered, HasTun, Whole, Exact
<1>9. CASE ReadTun
  <2>1. PICK m \in Lines :
           /\ toProc # <<>> /\ Head(toProc) = m
           /\ IF m.line = "ok" /\ LastFd(m) # NoTun
              THEN /\ TakeTun(m) /\ toProc' = Tail(toProc) /\ phase' = "up"
                   /\ UNCHANGED <<mLastTunCfg, pushed, clean>>
              ELSE Dies
    BY <1>9 DEF ReadTun, serviceVars
  <2>2. ReadAnswer({"OPENTUN"})
    BY <1>9 DEF ReadTun
  <2>3. CASE m.line = "ok" /\ LastFd(m) # NoTun
    <3>1. Opened /\ held' # NoTun
      BY <2>1, <2>2, <2>3, AnswerFits DEF TakeTun
    <3> QED
      <4>1. /\ UNCHANGED <<mLastTunCfg, pushed, clean>> /\ phase' = "up"
            /\ mLastTunCfg.ip # NoAddress => Whole(mLastTunCfg) /\ (clean => Exact(mLastTunCfg))
        BY <2>1, <2>3, <3>1 DEF Remembered
      <4>2. \A net : Wanted(net)' = Wanted(net)
        BY <4>1, WantedKept
      <4> QED
        BY <3>1, <4>1, <4>2 DEF Asked, Remembered, HasTun, Whole, Exact
  <2>4. CASE ~(m.line = "ok" /\ LastFd(m) # NoTun)
    BY <1>2, <2>1, <2>4 DEF Dies
  <2> QED
    BY <2>3, <2>4
<1> QED
  BY <1>1, <1>3, <1>4, <1>5, <1>6, <1>7, <1>8, <1>9 DEF Next, AppStep, AskStep, ReadStep

LEMMA UpWhole ==
    ASSUME IInv, Remembered, HasTun, phase = "up"
    PROVE  Whole(tunOf[held]) /\ (clean => Exact(tunOf[held]))
<1>1. held # NoTun
  BY DEF HasTun
<1>2. tunOf[held].ip # NoAddress /\ tunOf[held] = mLastTunCfg
  BY <1>1 DEF IInv, Kept, Opened, Alive
<1> QED
  BY <1>2 DEF Remembered

LEMMA InitCollected == Init => Asked /\ Remembered /\ HasTun
BY DEF Init, Asked, Remembered, HasTun, Opened

\* The tun of a process that is up has the address pushed last, a route for every
\* destination and all name servers in their order, whatever an earlier connection left
\* in tunConfig and whichever answers getTunReopenStatus gave.
THEOREM CollectedWhole == Spec => []NothingLost
<1>1. IInv /\ Asked /\ Remembered /\ HasTun => NothingLost
  BY UpWhole DEF NothingLost, Whole
<1>2. IInv /\ Asked /\ Remembered /\ HasTun /\ [Next]_vars => (Asked /\ Remembered /\ HasTun)'
  BY NextCollected
<1> QED
  BY <1>1, <1>2, InitIInv, InitCollected, NextIInv, PTL DEF Spec

\* When nothing was left in tunConfig, the tun has what was pushed and nothing else but
\* exclusions of local networks.
THEOREM CleanAsRequested == Spec => []RequestedIfClean
<1>1. IInv /\ Asked /\ Remembered /\ HasTun => RequestedIfClean
  BY UpWhole DEF RequestedIfClean, Requested, Exact
<1>2. IInv /\ Asked /\ Remembered /\ HasTun /\ [Next]_vars => (Asked /\ Remembered /\ HasTun)'
  BY NextCollected
<1> QED
  BY <1>1, <1>2, InitIInv, InitCollected, NextIInv, PTL DEF Spec
=============================================================================
