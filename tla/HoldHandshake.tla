---------------------------- MODULE HoldHandshake ----------------------------
(***************************************************************************)
(* What the hold of the management interface promises, without threads,    *)
(* timers or sockets: the process asks once for every connection attempt,  *)
(* its client learns of it, grants it once, and the process goes on.  The  *)
(* client neither grants what nobody asked for nor asks twice.             *)
(***************************************************************************)
VARIABLE
    phase       \* "away" (starting, connecting, running), "asking", "asked", "granted"

Init == phase = "away"

Ask     == phase = "away"    /\ phase' = "asking"     \* the process enters its hold
Learn   == phase = "asking"  /\ phase' = "asked"      \* the client has read >HOLD
Grant   == phase = "asked"   /\ phase' = "granted"    \* the client wrote hold release
Proceed == phase = "granted" /\ phase' = "away"       \* the process has read it

Next == Ask \/ Learn \/ Grant \/ Proceed

Spec == Init /\ [][Next]_phase
=============================================================================
