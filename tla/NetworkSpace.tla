----------------------------- MODULE NetworkSpace -----------------------------
(***************************************************************************)
(* The routes of a tunnel: NetworkSpace.java turns the networks to include *)
(* and to exclude into disjoint ones, and OpenVPNService.openTun installs  *)
(* the included ones, or, from Android 13 on, both kinds as they came.     *)
(* A network is its masked first address, the length of its mask and its   *)
(* sign; host bits, which getMaskedAddress clears, are left out.           *)
(***************************************************************************)
EXTENDS Integers, FiniteSets, Bags

CONSTANTS
    Width,          \* bits of an address, 32 or 128 in the code
    MaxRoutes,      \* bound on the networks collected
    NoNet           \* null

\* 224.0.0.0/3 has to exist, and null is no network.
ASSUME NetworkSpaceAssumption ==
    /\ Width \in Nat /\ Width >= 3 /\ MaxRoutes \in Nat
    /\ NoNet \notin [first : Nat, mask : Nat, included : BOOLEAN]

VARIABLES
    phase,          \* "collect", "generate" or "installed"
    routes,         \* mIpAddresses, a TreeSet
    networks,       \* the PriorityQueue of generateIPList
    currentNet,
    ipsDone,        \* a TreeSet
    installed,      \* the networks given to VpnService.Builder, excluded ones included
    resolver        \* the DNS server that gets a route of its own, or NoNet

vars == <<phase, routes, networks, currentNet, ipsDone, installed, resolver>>

\* The values of so many bits.
PowerOfTwo[bits \in 0 .. Width] == IF bits = 0 THEN 1 ELSE 2 * PowerOfTwo[bits - 1]

\* The addresses of a network with a mask of that length.
Size(mask) == PowerOfTwo[Width - mask]

Addresses == 0 .. Size(0) - 1
Networks ==
    UNION {[first : {k * Size(m) : k \in 0 .. PowerOfTwo[m] - 1}, mask : {m}, included : BOOLEAN] :
           m \in 0 .. Width}

\* getMaskedAddress(true): no bit is set when the mask is longer than an address.
LastAddress(n) == IF n.mask > Width THEN n.first ELSE n.first + Size(n.mask) - 1

Contains(n, o) == n.first <= o.first /\ LastAddress(n) >= LastAddress(o)
Covers(n, a)   == n.first <= a /\ a <= LastAddress(n)
Opposed(n, o)  == n.included # o.included

\* compareTo and equals; both ignore the sign.
Before(n, o)  == n.first < o.first \/ (n.first = o.first /\ n.mask > o.mask)
SameNet(n, o) == n.first = o.first /\ n.mask = o.mask

Lower(n) == [n EXCEPT !.mask = @ + 1]

\* fault: the second half begins behind the whole network
UpperOfWhole(n) == [Lower(n) EXCEPT !.first = LastAddress(n) + 1]

Upper(n) == [Lower(n) EXCEPT !.first = LastAddress(Lower(n)) + 1]

Has(S, n)     == \E o \in S : SameNet(o, n)

\* fault: networks of both signs differ
TreeAddSigned(S, n) == S \cup {n}

TreeAdd(S, n) == IF Has(S, n) THEN S ELSE S \cup {n}

\* What poll() may return: it breaks ties arbitrarily.
Heads(S) == {n \in S : \A o \in S : ~Before(o, n)}

Init ==
    /\ phase = "collect"
    /\ routes = {} /\ networks = EmptyBag /\ ipsDone = {} /\ installed = {}
    /\ currentNet = NoNet /\ resolver = NoNet

\* A pushed route, the network of the interface or, excluded, a local network.
AddIP(n) ==
    /\ phase = "collect" /\ Cardinality(routes) < MaxRoutes
    /\ routes' = TreeAdd(routes, n)
    /\ UNCHANGED <<phase, networks, currentNet, ipsDone, installed, resolver>>

-----------------------------------------------------------------------------
(* generateIPList, with an action for each way through its loop.           *)

Generate ==
    /\ phase = "collect" /\ phase' = "generate"
    /\ \/ routes = {} /\ UNCHANGED <<currentNet, networks>>
       \/ \E n \in Heads(routes) : currentNet' = n /\ networks' = SetToBag(routes \ {n})
    /\ UNCHANGED <<routes, ipsDone, installed, resolver>>

Running == phase = "generate" /\ currentNet # NoNet

\* fault: the next network is looked at and stays in the queue
RestPeeked(nextNet) == networks

Rest(nextNet) == networks (-) SetToBag({nextNet})

\* nextNet is polled and overlaps the current network ...
Overlaps(nextNet) ==
    /\ Running /\ nextNet \in Heads(BagToSet(networks))
    /\ LastAddress(currentNet) >= nextNet.first

Overlapping(nextNet) ==
    /\ Overlaps(nextNet)
    /\ UNCHANGED <<phase, routes, ipsDone, installed, resolver>>

\* ... which is smaller or equal and has the same base address.
SameBase(nextNet) == currentNet.first = nextNet.first /\ currentNet.mask >= nextNet.mask

\* Nothing overlaps the current network.
NoneLeft ==
    /\ Running /\ networks = EmptyBag
    /\ ipsDone' = TreeAdd(ipsDone, currentNet) /\ currentNet' = NoNet
    /\ UNCHANGED <<phase, routes, networks, installed, resolver>>

Apart(nextNet) ==
    /\ Running /\ nextNet \in Heads(BagToSet(networks))
    /\ LastAddress(currentNet) < nextNet.first
    /\ ipsDone' = TreeAdd(ipsDone, currentNet)
    /\ currentNet' = nextNet /\ networks' = Rest(nextNet)
    /\ UNCHANGED <<phase, routes, installed, resolver>>

\* The current network is part of the next one and of its sign.
ForgetCurrent(nextNet) ==
    /\ Overlapping(nextNet) /\ SameBase(nextNet) /\ ~Opposed(currentNet, nextNet)
    /\ currentNet' = nextNet /\ networks' = Rest(nextNet)

\* The next network is split around the current one, unless a half is waiting already.
Halves(nextNet) ==
    {h \in {Upper(nextNet), Lower(nextNet)} :
        /\ h = Lower(nextNet) => LastAddress(h) # LastAddress(currentNet)
        /\ ~Has(BagToSet(Rest(nextNet)), h)}

SplitNext(nextNet) ==
    /\ Overlapping(nextNet) /\ SameBase(nextNet) /\ Opposed(currentNet, nextNet)
    /\ networks' = Rest(nextNet) (+) SetToBag(Halves(nextNet))
    /\ UNCHANGED currentNet

\* The next network is part of the current one and of its sign.
IgnoreNext(nextNet) ==
    /\ Overlapping(nextNet) /\ ~SameBase(nextNet) /\ ~Opposed(currentNet, nextNet)
    /\ networks' = Rest(nextNet)
    /\ UNCHANGED currentNet

\* fault: the upper half is put back although it is the next network
KeptBoth(nextNet) == {nextNet, Upper(currentNet)}

\* The current network is split; its upper half may be the next network.
Kept(nextNet) ==
    IF Upper(currentNet).mask = nextNet.mask THEN {nextNet} ELSE {nextNet, Upper(currentNet)}

SplitCurrent(nextNet) ==
    /\ Overlapping(nextNet) /\ ~SameBase(nextNet) /\ Opposed(currentNet, nextNet)
    /\ networks' = Rest(nextNet) (+) SetToBag(Kept(nextNet))
    /\ currentNet' = Lower(currentNet)

-----------------------------------------------------------------------------
(* openTun.                                                                *)

Generated == phase = "generate" /\ currentNet = NoNet

Multicast  == [first |-> 7 * Size(3), mask |-> 3, included |-> TRUE]
Host(a)    == [first |-> a, mask |-> Width, included |-> TRUE]

\* getPositiveIPList, with a route for a resolver outside of it (Samsung devices).
Positive(dns) ==
    LET positive == {n \in ipsDone : n.included}
    IN  IF dns = NoNet \/ \E n \in positive : Contains(n, Host(dns))
        THEN positive ELSE positive \cup {Host(dns)}

\* fault: what contains the multicast range is left out, not what it contains
InstallableSwapped(n) == ~Contains(n, Multicast)

Installable(n) == ~Contains(Multicast, n)

InstallPositiveOnly(dns) ==
    /\ Generated /\ phase' = "installed"
    /\ resolver' = dns
    /\ installed' = {n \in Positive(dns) : Installable(n)}
    /\ UNCHANGED <<routes, networks, currentNet, ipsDone>>

InstallRoutesExcluded ==
    /\ Generated /\ phase' = "installed"
    /\ installed' = routes
    /\ UNCHANGED <<routes, networks, currentNet, ipsDone, resolver>>

Iterate ==
    \/ NoneLeft
    \/ \E n \in BagToSet(networks) :
         Apart(n) \/ ForgetCurrent(n) \/ SplitNext(n) \/ IgnoreNext(n) \/ SplitCurrent(n)

Next ==
    \/ \E n \in Networks : AddIP(n)
    \/ Generate
    \/ Iterate
    \/ \E dns \in Addresses \cup {NoNet} : InstallPositiveOnly(dns)
    \/ InstallRoutesExcluded

Spec == Init /\ [][Next]_vars

\* A loop that is running goes on.
FairSpec == Spec /\ WF_vars(Iterate)

-----------------------------------------------------------------------------
\* What a set of networks says of an address: the most specific one decides.
Includes(S, a) ==
    \E n \in S : n.included /\ Covers(n, a) /\ \A o \in S : Covers(o, a) => o.mask <= n.mask
Excludes(S, a) ==
    \E n \in S : ~n.included /\ Covers(n, a) /\ \A o \in S : Covers(o, a) => o.mask <= n.mask

Inner(n, o) == Contains(o, n) /\ n.mask > o.mask

\* An included network in an excluded one in an included one (or the reverse), where
\* the first two have the same base.
Layered(S) == \E c, n, i \in S :
    Inner(n, c) /\ Inner(i, n) /\ Opposed(c, n) /\ Opposed(n, i) /\ i.first = n.first

\* Two networks of one sign in one of the other, of which one is the upper half of a
\* block and the other comes before it and lies in that block.
Paired(S) == \E c, u, n \in S :
    /\ Inner(u, c) /\ Opposed(u, c) /\ ~Opposed(u, n) /\ Before(n, u)
    /\ \E b \in Networks : SameNet(Upper(b), u) /\ Inner(n, b)

\* What a single address is split into: masks longer than an address, the upper one
\* behind it.  Builds that are not debug builds go on with them.
Blocks == Networks \cup [first : 0 .. Size(0), mask : {Width + 1}, included : BOOLEAN]

\* Masks get too long by at most one: what a single address is split into is not split again.
TypeOK ==
    /\ phase \in {"collect", "generate", "installed"}
    /\ routes \subseteq Networks
    /\ ipsDone \subseteq Blocks /\ installed \subseteq Blocks
    /\ currentNet \in Blocks \cup {NoNet}
    /\ IsABag(networks) /\ BagToSet(networks) \subseteq Blocks
    /\ resolver \in Addresses \cup {NoNet}

\* What split() asserts of the halves.
HalvesFill(n) == LastAddress(Upper(n)) = LastAddress(n)

\* The assertions of generateIPList and of split() in it (debug builds throw where one
\* fails).  They fail for layered and for paired routes, for a single address that is
\* split among others; with all others they hold at every iteration.
Asserted ==
    ~Layered(routes) /\ ~Paired(routes) =>
        \A n \in BagToSet(networks) : Overlaps(n) =>
            IF SameBase(n)
            THEN Opposed(currentNet, n) =>
                    /\ HalvesFill(n)
                    /\ LastAddress(Lower(n)) = LastAddress(currentNet) => Lower(n).mask = currentNet.mask
            ELSE /\ currentNet.mask < n.mask /\ n.first > currentNet.first
                 /\ LastAddress(currentNet) >= LastAddress(n)
                 /\ Opposed(currentNet, n) =>
                        /\ HalvesFill(currentNet)
                        /\ Upper(currentNet).mask = n.mask => Upper(currentNet).first = n.first

\* The loop invariant of generateIPList: at every iteration what is done, current and
\* queued says of each address what the routes say, and nothing of the others.  Layered
\* and paired routes are the ones it gets wrong.
Preserved ==
    phase = "generate" /\ ~Layered(routes) /\ ~Paired(routes) =>
        LET held == ipsDone \cup BagToSet(networks) \cup ({currentNet} \ {NoNet})
        IN  \A a \in Addresses :
              /\ Includes(held, a) <=> Includes(routes, a)
              /\ Excludes(held, a) <=> Excludes(routes, a)

\* Before Android 13 as well as from then on the tunnel gets exactly the addresses
\* whose most specific network is included ("On Tiramisu we install the routes exactly
\* like promised", openTun), multicast and the resolver aside.
Promised ==
    phase = "installed" =>
        \A a \in Addresses : ~Contains(Multicast, Host(a)) /\ a # resolver =>
            (Includes(installed, a) <=> Includes(routes, a))

\* With routes that are neither layered nor paired that promise is kept, by
\* generateIPList and by what openTun does with its result.
Exact == Layered(routes) \/ Paired(routes) \/ Promised

\* Whatever the routes, an address whose most specific network is an excluded one is not
\* routed to the tunnel ("Routes that should NOT be routed over the VPN.", the
\* description of the setting), multicast and the resolver aside.
ExcludedStaysOut ==
    phase = "installed" =>
        \A a \in Addresses : ~Contains(Multicast, Host(a)) /\ a # resolver =>
            (Excludes(routes, a) => ~Includes(installed, a))

\* generateIPList ends, whatever the routes.
Terminates == phase = "generate" ~> currentNet = NoNet
=============================================================================
