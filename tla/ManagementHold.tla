--------------------------- MODULE ManagementHold ---------------------------
(***************************************************************************)
(* The management side of the openvpn process, as far as the Android front *)
(* end drives it: the "hold" in which the process waits for its client,    *)
(* the commands it reads from the management socket and the notifications  *)
(* it writes to it (manage.c, the restart loop of init.c and openvpn.c).   *)
(*                                                                         *)
(* VpnProfile.java:374-385 always writes management-client and             *)
(* management-hold, so the hold flag is constantly on.                     *)
(***************************************************************************)
EXTENDS Naturals, Sequences

CONSTANTS
    UsePeerId,      \* the server pushed a peer-id: a socket survives a new network
    SelfRestart,    \* the process may restart on its own (ping-restart, TLS error)
    SlowInit,       \* init_instance waits (DNS, TCP connect) and reads the socket meanwhile
    Coalesce,       \* one recv() of the process may return several command lines
    MaxCmds,        \* bound: command lines in flight when a user or a broadcast adds one
    MaxEvts         \* bound: notifications in flight when the process enters a hold

ASSUME HoldAssumption ==
    /\ UsePeerId \in BOOLEAN
    /\ SelfRestart \in BOOLEAN
    /\ SlowInit \in BOOLEAN
    /\ Coalesce \in BOOLEAN
    /\ MaxCmds \in Nat \ {0}
    /\ MaxEvts \in Nat \ {0}

VARIABLES
    proc,           \* where the process is, see ProcStates
    holdRelease,    \* man->persist.hold_release
    cmds,           \* lines written by the client, not yet read
    evts            \* notifications written by the process, not yet read

holdVars == <<proc, holdRelease, cmds, evts>>

\* start:      the process has not connected to the management socket yet
\* init:       a new instance, about to reach do_startup_pause
\* hold:       in the loop of management_hold, USR1 and HUP ignored
\* released:   "hold release" was read, the same management_io still runs
\* connecting: in the rest of init_instance, up to link_socket_init_phase2
\* running:    in the event loop of tunnel_point_to_point
\* signalled:  USR1 thrown, the event loop has not seen it yet
\* hup:        close_context turned a hard USR1 into SIGHUP
\* exited:     the process is gone
ProcStates == {"start", "init", "hold", "released", "connecting", "running",
               "signalled", "hup", "exited"}
Commands   == {"release", "usr1", "netsame", "netdiff"}
Events     == {"HOLD", "BYTECOUNT"}

HoldTypeOK ==
    /\ proc \in ProcStates
    /\ holdRelease \in BOOLEAN
    /\ cmds \in Seq(Commands)
    /\ evts \in Seq(Events)

HoldInit ==
    /\ proc = "start"
    /\ holdRelease = FALSE
    /\ cmds = <<>>
    /\ evts = <<>>

-----------------------------------------------------------------------------
(* Faults for the mutation runs: each is a way this code could be wrong.   *)

\* a restart that forgets to clear hold_release
RestartKeepsRelease ==
    /\ proc = "signalled"
    /\ proc' = "init"
    /\ UNCHANGED <<holdRelease, cmds, evts>>

\* a running process that ignores SIGUSR1
SignalIgnored(s) == s

-----------------------------------------------------------------------------
(* Commands.                                                               *)

\* man_signal("SIGUSR1").  management_hold sets MANSIG_IGNORE_USR1_HUP, so the
\* signal is dropped for as long as its loop has not been left.  A USR1 thrown
\* by the management client is a hard one, and init_instance is called with
\* CC_HARD_USR1_TO_HUP: before the event loop it becomes a SIGHUP.
ManSignalUsr1(s) ==
    CASE s \in {"hold", "released"} -> s
      [] s = "connecting"           -> "hup"
      [] OTHER                      -> "signalled"

\* man_network_change: the callback answers -1 (no socket yet: always so in a
\* hold), the socket (reprotect it), or -2, which becomes a USR1.
ManNetworkChange(s, same) ==
    {s} \cup IF ~same /\ ~UsePeerId /\ s \notin {"hold", "released"}
             THEN {ManSignalUsr1(s)} ELSE {}

\* man_hold("release"): the flag is sticky until the next restart.
ManHoldRelease(s) == IF s = "hold" THEN "released" ELSE s

\* One line read by man_read.  Lines of the same recv() are all processed before
\* the loop condition (hold_release, or the thrown signal) is looked at again.
ReadCommand ==
    /\ cmds # <<>>
    /\ \/ proc \in {"hold", "running"}
       \/ proc = "connecting" /\ SlowInit
       \/ proc \in {"released", "signalled"} /\ Coalesce
    /\ cmds' = Tail(cmds)
    /\ \/ /\ Head(cmds) = "release"
          /\ proc' = ManHoldRelease(proc)
          /\ holdRelease' = TRUE
       \/ /\ Head(cmds) = "usr1"
          /\ proc' = ManSignalUsr1(proc)
          /\ UNCHANGED holdRelease
       \/ /\ Head(cmds) \in {"netsame", "netdiff"}
          /\ proc' \in ManNetworkChange(proc, Head(cmds) = "netsame")
          /\ UNCHANGED holdRelease
    /\ UNCHANGED evts

-----------------------------------------------------------------------------
(* The process itself.                                                     *)

\* do_hold at start-up (open_management) and in do_startup_pause of every later
\* instance: blocks unless the hold has already been released.
EnterHold ==
    /\ proc \in {"start", "init"}
    /\ Len(evts) < MaxEvts
    /\ IF holdRelease
       THEN /\ proc' = "connecting"
            /\ UNCHANGED evts
       ELSE /\ proc' = "hold"
            /\ evts' = Append(evts, "HOLD")
    /\ UNCHANGED <<holdRelease, cmds>>

\* The loop of management_hold ends, the signals are no longer ignored.
LeaveHold ==
    /\ proc = "released"
    /\ proc' = "connecting"
    /\ UNCHANGED <<holdRelease, cmds, evts>>

\* init_instance returns without a signal.
InitDone ==
    /\ proc = "connecting"
    /\ proc' = "running"
    /\ UNCHANGED <<holdRelease, cmds, evts>>

\* The signal is seen: management_clear_callback, then the next iteration of the
\* SIGUSR1 loop of openvpn_main.
Restart ==
    /\ proc = "signalled"
    /\ proc' = "init"
    /\ holdRelease' = FALSE
    /\ UNCHANGED <<cmds, evts>>

\* A soft USR1 of the process itself: connection failed, ping-restart, TLS error.
SelfSignal ==
    /\ SelfRestart
    /\ proc \in {"connecting", "running"}
    /\ proc' = "signalled"
    /\ UNCHANGED <<holdRelease, cmds, evts>>

\* The SIGHUP loop parses "--config stdin" again.  writeConfigFileOutput closed
\* the other end after the first configuration, read_config_file meets the end of
\* file, and options_postprocess ends the process for lack of options.  The
\* lines nobody has read are gone with its socket.
HupExit ==
    /\ proc = "hup"
    /\ proc' = "exited"
    /\ cmds' = <<>>
    /\ UNCHANGED <<holdRelease, evts>>

\* The periodic byte count of a running instance (bound: one in flight).
SendByteCount ==
    /\ proc = "running"
    /\ \A i \in 1 .. Len(evts) : evts[i] # "BYTECOUNT"
    /\ evts' = Append(evts, "BYTECOUNT")
    /\ UNCHANGED <<proc, holdRelease, cmds>>

HoldNext ==
    \/ ReadCommand \/ EnterHold \/ LeaveHold \/ InitDone \/ Restart
    \/ SelfSignal \/ HupExit \/ SendByteCount
=============================================================================
