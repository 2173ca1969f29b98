------------------------------ MODULE TunSetup ------------------------------
(***************************************************************************)
(* How the openvpn process gets its tun device: do_open_tun puts what the  *)
(* server has pushed to the app one NEED-OK question at a time, the        *)
(* management thread collects it in OpenVPNService.tunConfig, and at the   *)
(* end the process either keeps the tun it has or is sent a new one over   *)
(* the management socket.  tunConfig belongs to the service, which         *)
(* survives restarts and ends of the process.                              *)
(*                                                                         *)
(* IPv6, the search domain, the MTU and the HTTP proxy are left out.       *)
(***************************************************************************)
EXTENDS Naturals, Sequences, FiniteSets

CONSTANTS
    Nets,           \* destinations of routes; an address is named by its network
    Hosts,          \* those of a single address
    Gateways,       \* of routes
    Inside,         \* per network: the gateways in it
    Servers,        \* DNS servers
    Pushes,         \* what a server may push
    Local,          \* sets of local networks the device may be in, none included
    AllowLocalLAN,  \* VpnProfile.mAllowLocalLAN
    Interrupting,   \* bound: whether other threads write while a descriptor is being sent
    Tuns,           \* bound: tun devices that can exist at one time
    MaxSessions,    \* bound: processes started
    MaxLines        \* bound: lines of other threads in the socket, and copies of a
                    \* descriptor, to which another thread adds one

NoAddress == "no address"
NoGateway == "no gateway"
NoTun     == "no tun"
NoNeed    == [need |-> "none"]

Routes  == [net : Nets, included : BOOLEAN]
Configs == [ip : Nets \cup {NoAddress}, dns : Seq(Servers), routes : SUBSET Routes]

\* What the server says: `remote` is the second argument of ifconfig, a netmask or the
\* other end, and a route goes through a gateway.
Remotes      == Gateways \cup {NoGateway}
PushedRoutes == [net : Nets, gateway : Gateways]
Replies      == [ip : Nets \cup {NoAddress}, remote : Remotes, dns : Seq(Servers),
                 routes : SUBSET PushedRoutes]

ASSUME TunAssumption ==
    /\ NoAddress \notin Nets /\ "null" \notin Nets /\ NoTun \notin Tuns
    /\ Hosts \subseteq Nets /\ Inside \in [Nets -> SUBSET Gateways]
    /\ Pushes \subseteq Replies
    /\ Local \subseteq SUBSET Nets
    /\ AllowLocalLAN \in BOOLEAN /\ Interrupting \in BOOLEAN
    /\ MaxSessions \in Nat /\ MaxLines \in Nat

VARIABLES
    tunConfig,      \* what has been collected
    mRemoteGW,      \* the second argument of the last IFCONFIG
    mLastTunCfg,    \* what the last tun was opened with
    tunOf,          \* per tun: what it was established with
    toJava,         \* questions in the management socket
    toProc,         \* lines in the other direction, with the descriptor each carries
    sending,        \* where sendCommandWithFd is
    outbound,       \* the descriptor set for sending on the app's socket
    sessions,       \* processes started so far
    persist,        \* the profile of the session has persist-tun
    phase,          \* of the process
    pushed,         \* the configuration of the present connection
    clean,          \* history: nothing had been collected when it was pushed
    left,           \* what of it has not been asked yet
    query,          \* the question the process waits in
    method,         \* the answer to PERSIST_TUN_ACTION
    held,           \* tuntap->fd
    lastfdreceived, \* man->connection.lastfdreceived
    descriptors,    \* per tun: how many descriptors of it the process has open
    interrupted     \* history: another thread has written while one was being sent

serviceVars == <<tunConfig, mRemoteGW, mLastTunCfg, tunOf, sending, outbound>>
pushVars    == <<pushed, clean, left, query, method>>
fdVars      == <<held, lastfdreceived, descriptors, interrupted>>
vars        == <<serviceVars, toJava, toProc, sessions, persist, phase, pushVars, fdVars>>

EmptyConfig == [ip |-> NoAddress, dns |-> <<>>, routes |-> {}]
NoConfig    == [ip |-> "null", dns |-> <<>>, routes |-> {}]
EmptyReply  == [ip |-> NoAddress, remote |-> NoGateway, dns |-> <<>>, routes |-> {}]
NothingLeft == [address |-> FALSE, routes |-> {}, dns |-> <<>>]

Needs == {NoNeed} \cup [need : {"PERSIST_TUN_ACTION", "OPENTUN"}]
            \cup [need : {"IFCONFIG"}, arg : [ip : Nets, remote : Remotes]]
            \cup [need : {"ROUTE"}, arg : PushedRoutes]
            \cup [need : {"DNSSERVER"}, arg : Servers]
Lines == [line : {"ok", "cancel", "NOACTION", "OPEN_BEFORE_CLOSE", "network-change", "signal"},
          fd : Tuns \cup {NoTun}]

TypeOK ==
    /\ tunConfig \in Configs /\ mRemoteGW \in Remotes /\ mLastTunCfg \in Configs \cup {NoConfig}
    /\ tunOf \in [Tuns -> Configs]
    /\ toJava \in Seq(Needs \ {NoNeed}) /\ toProc \in Seq(Lines)
    /\ sending \in {"no", "set", "written"} /\ outbound \in Tuns \cup {NoTun}
    /\ sessions \in 0 .. MaxSessions /\ persist \in BOOLEAN
    /\ phase \in {"off", "connecting", "asking", "failing", "up"}
    /\ pushed \in Pushes \cup {EmptyReply} /\ clean \in BOOLEAN
    /\ left \in [address : BOOLEAN, routes : SUBSET PushedRoutes, dns : Seq(Servers)]
    /\ query \in Needs
    /\ method \in {"none", "NOACTION", "OPEN_BEFORE_CLOSE"}
    /\ held \in Tuns \cup {NoTun} /\ lastfdreceived \in Tuns \cup {NoTun}
    /\ descriptors \in [Tuns -> Nat] /\ interrupted \in BOOLEAN

Init ==
    /\ tunConfig = EmptyConfig /\ mRemoteGW = NoGateway /\ mLastTunCfg = NoConfig
    /\ tunOf = [t \in Tuns |-> EmptyConfig]
    /\ toJava = <<>> /\ toProc = <<>>
    /\ sending = "no" /\ outbound = NoTun
    /\ sessions = 0 /\ persist = FALSE /\ phase = "off"
    /\ pushed = EmptyReply /\ clean = FALSE /\ left = NothingLeft
    /\ query = NoNeed /\ method = "none"
    /\ held = NoTun /\ lastfdreceived = NoTun
    /\ descriptors = [t \in Tuns |-> 0] /\ interrupted = FALSE

-----------------------------------------------------------------------------
(* The app: OpenVpnManagementThread.processNeedCommand.                    *)

\* TreeSet.add: IpAddress.compareTo does not look at `included`, the first one stays.
Added(routes, r) ==
    IF \E q \in routes : q.net = r.net THEN routes ELSE routes \cup {r}

\* fault: an address is noted without the route of its network
SetLocalIPOnly(ip) == [tunConfig EXCEPT !.ip = ip]

\* The workaround: the interface's own network is routed, unless it is a single address.
WithOwn(ip, routes) ==
    IF ip \in Hosts THEN routes ELSE Added(routes, [net |-> ip, included |-> TRUE])

\* fault: an address that is there already stays
SetLocalIPOnce(ip) ==
    [tunConfig EXCEPT !.ip = IF @ = NoAddress THEN ip ELSE @, !.routes = WithOwn(ip, @)]

SetLocalIP(ip) == [tunConfig EXCEPT !.ip = ip, !.routes = WithOwn(ip, @)]

\* A route is into the tunnel when its gateway is in the network of the interface, or is
\* its other end.  The device of an IPv4 route is that of the default gateway whatever it
\* is a route to (get_default_gateway): it never makes one included.
LeadsIn(gateway, ip, remote) == gateway \in Inside[ip] \/ gateway = remote

AddRoute(r) ==
    IF tunConfig.ip = NoAddress
    THEN tunConfig
    ELSE [tunConfig EXCEPT !.routes =
             Added(@, [net |-> r.net, included |-> LeadsIn(r.gateway, tunConfig.ip, mRemoteGW)])]

AddDNS(d) == [tunConfig EXCEPT !.dns = Append(@, d)]

\* Whatever a thread writes carries the descriptor that is set for sending.
Write(line) ==
    toProc' = IF phase = "off" THEN toProc ELSE Append(toProc, [line |-> line, fd |-> outbound])

Handle(n) ==
    /\ sending = "no"
    /\ toJava # <<>> /\ Head(toJava) = n
    /\ toJava' = Tail(toJava)

Collect ==
    /\ \E n \in Needs :
         /\ Handle(n)
         /\ \/ n.need = "IFCONFIG" /\ tunConfig' = SetLocalIP(n.arg.ip) /\ mRemoteGW' = n.arg.remote
            \/ n.need = "ROUTE" /\ tunConfig' = AddRoute(n.arg) /\ UNCHANGED mRemoteGW
            \/ n.need = "DNSSERVER" /\ tunConfig' = AddDNS(n.arg) /\ UNCHANGED mRemoteGW
    /\ Write("ok")
    /\ UNCHANGED <<mLastTunCfg, tunOf, sending, outbound, sessions, persist, phase, pushVars, fdVars>>

\* fault: "or always respond with OPEN_BEFORE_CLOSE" (doc/android.txt:65-66)
AlwaysReopen == "OPEN_BEFORE_CLOSE"

\* getTunReopenStatus
TunReopenStatus == IF tunConfig = mLastTunCfg THEN "NOACTION" ELSE "OPEN_BEFORE_CLOSE"

PersistTunAction ==
    /\ Handle([need |-> "PERSIST_TUN_ACTION"])
    /\ Write(TunReopenStatus)
    /\ UNCHANGED <<serviceVars, sessions, persist, phase, pushVars, fdVars>>

\* addLocalNetworksToRoutes: they are excluded, in the configuration that is remembered.
WithLocal(c, locals) ==
    IF AllowLocalLAN
    THEN [c EXCEPT !.routes = @ \cup {r \in Routes :
            ~r.included /\ r.net \in locals \ {c.ip} /\ ~\E q \in c.routes : q.net = r.net}]
    ELSE c

\* No descriptor of it is open or on its way.
Unused(t) ==
    descriptors[t] = 0 /\ \A i \in 1 .. Len(toProc) : toProc[i].fd # t

\* fault: a tun that cannot be opened is not answered for
OpenTunFailsSilently ==
    /\ Handle([need |-> "OPENTUN"])
    /\ mLastTunCfg' = tunConfig /\ tunConfig' = EmptyConfig
    /\ UNCHANGED <<mRemoteGW, tunOf, sending, outbound, toProc, sessions, persist, phase, pushVars, fdVars>>

\* establish() needs an address, and may fail for reasons of its own.
OpenTunFails ==
    /\ Handle([need |-> "OPENTUN"])
    /\ IF tunConfig.ip = NoAddress
       THEN mLastTunCfg' = tunConfig
       ELSE \E locals \in Local : mLastTunCfg' = WithLocal(tunConfig, locals)
    /\ tunConfig' = EmptyConfig
    /\ Write("cancel")
    /\ UNCHANGED <<mRemoteGW, tunOf, sending, outbound, sessions, persist, phase, pushVars, fdVars>>

\* fault: what is remembered is a copy made before the local networks were added
OpenTunCopied ==
    /\ Handle([need |-> "OPENTUN"])
    /\ tunConfig.ip # NoAddress
    /\ mLastTunCfg' = tunConfig
    /\ \E t \in Tuns, locals \in Local :
         /\ Unused(t)
         /\ tunOf' = [tunOf EXCEPT ![t] = WithLocal(tunConfig, locals)]
         /\ outbound' = t
    /\ tunConfig' = EmptyConfig
    /\ sending' = "set"
    /\ UNCHANGED <<mRemoteGW, toProc, sessions, persist, phase, pushVars, fdVars>>

\* openTun, up to setFileDescriptorsForSend.
OpenTun ==
    /\ Handle([need |-> "OPENTUN"])
    /\ tunConfig.ip # NoAddress
    /\ \E locals \in Local : mLastTunCfg' = WithLocal(tunConfig, locals)
    /\ \E t \in Tuns :
         /\ Unused(t)
         /\ tunOf' = [tunOf EXCEPT ![t] = mLastTunCfg']
         /\ outbound' = t
    /\ tunConfig' = EmptyConfig
    /\ sending' = "set"
    /\ UNCHANGED <<mRemoteGW, toProc, sessions, persist, phase, pushVars, fdVars>>

WriteOk ==
    /\ sending = "set"
    /\ Write("ok")
    /\ sending' = "written"
    /\ UNCHANGED <<tunConfig, mRemoteGW, mLastTunCfg, tunOf, outbound, toJava, sessions, persist, phase,
                   pushVars, fdVars>>

\* setFileDescriptorsForSend(null), and the app's own copy is closed.
ClearDescriptor ==
    /\ sending = "written"
    /\ sending' = "no" /\ outbound' = NoTun
    /\ UNCHANGED <<tunConfig, mRemoteGW, mLastTunCfg, tunOf, toJava, toProc, sessions, persist, phase,
                   pushVars, fdVars>>

\* networkChange and signalusr1 on other threads.
Theirs == {"network-change", "signal"}

OtherThreadWrites ==
    /\ phase # "off"
    /\ Cardinality({i \in 1 .. Len(toProc) : toProc[i].line \in Theirs}) < MaxLines
    /\ outbound # NoTun => descriptors[outbound] <= MaxLines
    /\ Interrupting \/ sending = "no"
    /\ \E line \in Theirs : Write(line)
    /\ interrupted' = (interrupted \/ outbound # NoTun)
    /\ UNCHANGED <<serviceVars, toJava, sessions, persist, phase, pushVars,
                   held, lastfdreceived, descriptors>>

-----------------------------------------------------------------------------
(* The process: its life.                                                  *)

\* A new process finds what the service has kept of the old one.
StartProcess ==
    /\ phase = "off" /\ sessions < MaxSessions
    /\ toJava = <<>> /\ sending = "no"
    /\ sessions' = sessions + 1
    /\ persist' \in BOOLEAN
    /\ phase' = "connecting"
    /\ UNCHANGED <<serviceVars, toJava, toProc, pushVars, fdVars>>

Dies ==
    /\ phase' = "off"
    /\ toProc' = <<>>
    /\ pushed' = EmptyReply /\ clean' = FALSE /\ left' = NothingLeft
    /\ query' = NoNeed /\ method' = "none"
    /\ held' = NoTun /\ lastfdreceived' = NoTun
    /\ descriptors' = [t \in Tuns |-> 0] /\ interrupted' = FALSE
    /\ UNCHANGED <<serviceVars, sessions, persist>>

ProcessExits == phase # "off" /\ Dies /\ UNCHANGED toJava

\* do_close_tun: at SIGUSR1, persist-tun keeps the device.
RestartWith(ds, last) ==
    /\ phase' = "connecting"
    /\ held' = IF persist THEN held ELSE NoTun
    /\ descriptors' = IF persist \/ held = NoTun THEN ds ELSE [ds EXCEPT ![held] = @ - 1]
    /\ lastfdreceived' = last
    /\ pushed' = EmptyReply /\ clean' = FALSE /\ left' = NothingLeft
    /\ query' = NoNeed /\ method' = "none"
    /\ UNCHANGED <<serviceVars, toJava, sessions, persist, interrupted>>

\* ping-restart and the like.
Restarts ==
    /\ phase = "up"
    /\ RestartWith(descriptors, lastfdreceived)
    /\ UNCHANGED toProc

\* PUSH_REPLY: do_up calls do_open_tun.
Push ==
    /\ phase = "connecting"
    /\ \E p \in Pushes :
         /\ pushed' = p
         /\ left' = [address |-> p.ip # NoAddress, routes |-> p.routes, dns |-> p.dns]
    /\ clean' = (tunConfig = EmptyConfig)
    /\ phase' = "asking"
    /\ UNCHANGED <<serviceVars, toJava, toProc, sessions, persist, query, method, fdVars>>

-----------------------------------------------------------------------------
(* The process: its questions, in the order of do_open_tun and open_tun.   *)

\* After a signal a question is asked, but not waited in.
Ask(n) ==
    /\ phase \in {"asking", "failing"} /\ query = NoNeed
    /\ query' = IF phase = "asking" THEN n ELSE NoNeed
    /\ toJava' = Append(toJava, n)
    /\ UNCHANGED <<serviceVars, toProc, sessions, persist, phase, pushed, clean, method, fdVars>>

AskAddress ==
    /\ left.address
    /\ Ask([need |-> "IFCONFIG", arg |-> [ip |-> pushed.ip, remote |-> pushed.remote]])
    /\ left' = [left EXCEPT !.address = FALSE]

AskRoute ==
    /\ ~left.address
    /\ \E r \in left.routes :
         /\ Ask([need |-> "ROUTE", arg |-> r])
         /\ left' = [left EXCEPT !.routes = @ \ {r}]

AskDNS ==
    /\ ~left.address /\ left.routes = {} /\ left.dns # <<>>
    /\ Ask([need |-> "DNSSERVER", arg |-> Head(left.dns)])
    /\ left' = [left EXCEPT !.dns = Tail(@)]

AskAction ==
    /\ phase = "asking" /\ left = NothingLeft /\ method = "none"
    /\ Ask([need |-> "PERSIST_TUN_ACTION"])
    /\ UNCHANGED left

\* No answer to PERSIST_TUN_ACTION is "unrecognised", which is fatal.
AskInVain ==
    /\ phase = "failing" /\ left = NothingLeft
    /\ toJava' = Append(toJava, [need |-> "PERSIST_TUN_ACTION"])
    /\ Dies

AskTun ==
    /\ method # "none"
    /\ Ask([need |-> "OPENTUN"])
    /\ UNCHANGED left

-----------------------------------------------------------------------------
(* The process: what it reads.  man_read notes a descriptor it is sent.  A *)
(* recv() ends at the line that carries one, and man_read goes through all *)
(* lines of it.  They are read one at a time here, but a signal can take   *)
(* with it the lines before it, an answer among them.                      *)

Received(m) == IF m.fd = NoTun THEN descriptors ELSE [descriptors EXCEPT ![m.fd] = @ + 1]
LastFd(m)   == IF m.fd = NoTun THEN lastfdreceived ELSE m.fd

Read(m) ==
    /\ toProc # <<>> /\ Head(toProc) = m
    /\ toProc' = Tail(toProc)

\* A recv() of n lines, the last of them m.
ReadTo(n, m) ==
    /\ n \in 1 .. Len(toProc) /\ toProc[n] = m
    /\ \A i \in 1 .. n - 1 : toProc[i].fd = NoTun
    /\ toProc' = SubSeq(toProc, n + 1, Len(toProc))

NoteFd(m) == descriptors' = Received(m) /\ lastfdreceived' = LastFd(m) /\ UNCHANGED <<held, interrupted>>

\* It reads while it waits: in a question, or in its event loop.
Reading == phase \in {"connecting", "up"} \/ query # NoNeed

ReadNetworkChange ==
    /\ Reading
    /\ \E m \in Lines : m.line = "network-change" /\ Read(m) /\ NoteFd(m)
    /\ UNCHANGED <<serviceVars, toJava, sessions, persist, phase, pushVars>>

ReadAnswer(need) == phase = "asking" /\ query.need \in need

ReadSignal ==
    /\ phase \in {"connecting", "up"}
    /\ \E m \in Lines : m.line = "signal" /\ Read(m) /\ RestartWith(Received(m), LastFd(m))

\* The signal stays pending: this question and all later ones end without an answer,
\* this one also when its answer came in the same recv().
ReadSignalInQuestion ==
    /\ ReadAnswer({"IFCONFIG", "ROUTE", "DNSSERVER"})
    /\ \E m \in Lines, n \in 1 .. Len(toProc) : m.line = "signal" /\ ReadTo(n, m) /\ NoteFd(m)
    /\ phase' = "failing" /\ query' = NoNeed
    /\ UNCHANGED <<serviceVars, toJava, sessions, persist, pushed, clean, left, method>>

\* Without an answer to these there is no tun, which is fatal.
ReadSignalAtEnd ==
    /\ ReadAnswer({"PERSIST_TUN_ACTION", "OPENTUN"})
    /\ \E n \in 1 .. Len(toProc) :
         /\ toProc[n].line = "signal"
         /\ \A i \in 1 .. n - 1 : toProc[i].fd = NoTun
    /\ Dies /\ UNCHANGED toJava

ReadOk ==
    /\ ReadAnswer({"IFCONFIG", "ROUTE", "DNSSERVER"})
    /\ \E m \in Lines : m.line = "ok" /\ Read(m) /\ NoteFd(m)
    /\ query' = NoNeed
    /\ UNCHANGED <<serviceVars, toJava, sessions, persist, phase, pushed, clean, left, method>>

\* With nothing to keep, a tun is asked for whatever the answer was.
ReadAction ==
    /\ ReadAnswer({"PERSIST_TUN_ACTION"})
    /\ \E m \in Lines :
         /\ m.line \in {"NOACTION", "OPEN_BEFORE_CLOSE"} /\ Read(m) /\ NoteFd(m)
         /\ method' = m.line
    /\ phase' = IF method' = "NOACTION" /\ held # NoTun THEN "up" ELSE "asking"
    /\ query' = NoNeed
    /\ UNCHANGED <<serviceVars, toJava, sessions, persist, pushed, clean, left>>

\* fault: the old descriptor stays open when a new one has come
TakeTunOnly(m) ==
    /\ held' = LastFd(m)
    /\ lastfdreceived' = NoTun
    /\ descriptors' = Received(m) /\ UNCHANGED interrupted

\* The descriptor received last is the tun, and the old one is closed.
TakeTun(m) ==
    /\ held' = LastFd(m)
    /\ lastfdreceived' = NoTun
    /\ descriptors' = IF held # NoTun /\ method = "OPEN_BEFORE_CLOSE"
                      THEN [Received(m) EXCEPT ![held] = @ - 1] ELSE Received(m)
    /\ UNCHANGED interrupted

ReadTun ==
    /\ ReadAnswer({"OPENTUN"})
    /\ \E m \in Lines :
         /\ toProc # <<>> /\ Head(toProc) = m /\ m.line \in {"ok", "cancel"}
         /\ IF m.line = "ok" /\ LastFd(m) # NoTun
            THEN /\ TakeTun(m)
                 /\ toProc' = Tail(toProc)
                 /\ phase' = "up" /\ query' = NoNeed
                 /\ UNCHANGED <<serviceVars, toJava, sessions, persist, pushed, clean, left, method>>
            ELSE Dies /\ UNCHANGED toJava

-----------------------------------------------------------------------------
AppStep == Collect \/ PersistTunAction \/ OpenTunFails \/ OpenTun \/ WriteOk \/ ClearDescriptor

AskStep  == AskAddress \/ AskRoute \/ AskDNS \/ AskAction \/ AskInVain \/ AskTun
ReadStep ==
    \/ ReadNetworkChange \/ ReadSignal \/ ReadSignalInQuestion \/ ReadSignalAtEnd
    \/ ReadOk \/ ReadAction \/ ReadTun

Next ==
    \/ AppStep \/ OtherThreadWrites
    \/ StartProcess \/ ProcessExits \/ Restarts \/ Push
    \/ AskStep \/ ReadStep

Spec == Init /\ [][Next]_vars

\* The management thread handles what it reads, and the process asks and reads on.
FairSpec == Spec /\ WF_vars(AppStep) /\ WF_vars(AskStep) /\ WF_vars(ReadStep)

-----------------------------------------------------------------------------
(* Properties.                                                             *)

\* What was pushed for a network: that of the interface is included whatever the server
\* says of it; for any other, one of the routes to it decides.
Wanted(net) ==
    IF net = pushed.ip /\ net \notin Hosts THEN {TRUE}
    ELSE {LeadsIn(r.gateway, pushed.ip, pushed.remote) : r \in {q \in pushed.routes : q.net = net}}

\* The tun the process uses has that, and otherwise at most exclusions of local networks.
Requested ==
    LET c == tunOf[held]
    IN  /\ c.ip = pushed.ip /\ c.dns = pushed.dns
        /\ \A net \in Nets : Wanted(net) # {} => \E r \in c.routes : r.net = net
        /\ \A r \in c.routes :
             \/ r.included \in Wanted(r.net)
             \/ Wanted(r.net) = {} /\ AllowLocalLAN /\ ~r.included

\* OPENTUN is answered with "a tun fd with the requested configuration"
\* (doc/android.txt:82-83) as long as no earlier connection left anything in tunConfig:
\* between the questions of do_open_tun and establish() nothing is lost, added or mixed
\* up, whether the tun is new or an old one that getTunReopenStatus said to keep.
RequestedIfClean == phase = "up" /\ clean => Requested

\* Leftovers only add to a configuration: the address pushed last, a route for every
\* destination and all name servers, at the end and in their order, are in the tun,
\* also when NOACTION keeps an old one.
NothingLost ==
    phase = "up" =>
        LET c == tunOf[held]
        IN  /\ pushed.ip # NoAddress => c.ip = pushed.ip
            /\ \A r \in pushed.routes : \E q \in c.routes : q.net = r.net
            /\ Len(pushed.dns) <= Len(c.dns)
            /\ pushed.dns = SubSeq(c.dns, Len(c.dns) - Len(pushed.dns) + 1, Len(c.dns))

\* mLastTunCfg, with which getTunReopenStatus compares, is what the tun that a process
\* has kept through its restarts was established with, although the service does not
\* learn what the process does with a tun, or whether it arrives.
LastIsHeld ==
    phase \in {"connecting", "up"} /\ held # NoTun => tunOf[held] = mLastTunCfg

\* sendCommandWithFd, man_read and open_tun together leave the process with one
\* descriptor of the tun it uses, and none of another, after any number of restarts, as
\* long as no other thread has written while a descriptor was being sent.
OneDescriptor ==
    phase = "up" /\ ~interrupted => descriptors = [t \in Tuns |-> IF t = held THEN 1 ELSE 0]

\* Local networks, or others by the server, are excluded from a tun.
Excluding(t) == AllowLocalLAN /\ \E r \in tunOf[t].routes : ~r.included

\* A tun is replaced when "the VPN configuration changed" (doc/android.txt:69) and kept
\* when it "stayed the same" (OpenVpnManagementThread.java:591); only one that may exclude
\* local networks, which openTun adds to what it remembers, is replaced by an equal one.
ReplacedIfChanged ==
    [][held # NoTun /\ held' \notin {NoTun, held} =>
         tunOf[held'] # tunOf[held] \/ Excluding(held)]_vars

\* Every question of do_open_tun is answered, also when no tun can be opened: once the
\* server has pushed, the process gets its tun or ends.
Completes == (phase = "asking") ~> (phase \in {"up", "off"})
=============================================================================
