------------------------- MODULE DeviceStateReceiver -------------------------
(***************************************************************************)
(* DeviceStateReceiver.java: decides from the network, the screen and the  *)
(* user's wish whether the VPN should be connected, and asks the           *)
(* management thread to pause, resume or follow a new network.             *)
(***************************************************************************)
EXTENDS ManagementThread

CONSTANTS
    Networks,           \* networks that can be told apart (type and extra info)
    NoNetwork,          \* no active network
    NetChangeReconnect, \* preference "netchangereconnect" (default: on)
    ScreenOffPause,     \* preference "screenoff" (default: off)
    BinderCalls,        \* userPause also arrives on a binder thread
    RedundantResume,    \* a resume may be asked for when the user has not paused
    MaxNetTimers        \* bound: mDelayDisconnectRunnable posts outstanding

ASSUME ReceiverAssumption ==
    /\ NoNetwork \notin Networks
    /\ NetChangeReconnect \in BOOLEAN
    /\ ScreenOffPause \in BOOLEAN
    /\ BinderCalls \in BOOLEAN
    /\ RedundantResume \in BOOLEAN
    /\ MaxNetTimers \in Nat

VARIABLES
    receiver,       \* "none", "created" (it is the pause callback), "registered"
    network,        \* the three connectStates of the receiver
    screen,
    userpause,
    lastNetwork,    \* lastConnectedNetwork
    netTimers,      \* posted and not yet run mDelayDisconnectRunnable
    screenOn,       \* the last screen broadcast (environment)
    undone          \* history: what the last pause() asked for was undone by a release
                    \* that asks nobody, or its signal was ignored

receiverVars ==
    <<receiver, network, screen, userpause, lastNetwork, netTimers, screenOn, undone>>

ConnectStates == {"SHOULDBECONNECTED", "PENDINGDISCONNECT", "DISCONNECTED"}

ReceiverTypeOK ==
    /\ receiver \in {"none", "created", "registered"}
    /\ network \in ConnectStates
    /\ screen \in ConnectStates
    /\ userpause \in {"SHOULDBECONNECTED", "DISCONNECTED"}
    /\ lastNetwork \in Networks \cup {NoNetwork}
    /\ netTimers \in Nat
    /\ screenOn \in BOOLEAN
    /\ undone \in BOOLEAN

ReceiverInit ==
    /\ receiver = "none"
    /\ network = "DISCONNECTED"
    /\ screen = "SHOULDBECONNECTED"
    /\ userpause = "SHOULDBECONNECTED"
    /\ lastNetwork = NoNetwork
    /\ netTimers = 0
    /\ screenOn = TRUE
    /\ undone = FALSE

-----------------------------------------------------------------------------
\* fault: the user's wish is forgotten
WantedWhateverTheUser(n, s, u) ==
    s = "SHOULDBECONNECTED" /\ n = "SHOULDBECONNECTED"

\* shouldBeConnected() for given values of the three states.
WantedIn(n, s, u) ==
    /\ s = "SHOULDBECONNECTED"
    /\ u = "SHOULDBECONNECTED"
    /\ n = "SHOULDBECONNECTED"

ShouldBeConnected == WantedIn(network, screen, userpause)

\* OpenVpnManagementThread.shouldBeRunning: no callback means no.
ShouldBeRunning == receiver # "none" /\ ShouldBeConnected

\* getPauseReason; the fall-through case is userPause.
PauseReason(n, s, u) ==
    CASE u = "DISCONNECTED" -> "userPause"
      [] u # "DISCONNECTED" /\ s = "DISCONNECTED" -> "screenOff"
      [] u # "DISCONNECTED" /\ s # "DISCONNECTED" /\ n = "DISCONNECTED" -> "noNetwork"
      [] OTHER -> "userPause"

\* A pending pause becomes final (used for the screen state).
GiveUp(state) == IF state = "PENDINGDISCONNECT" THEN "DISCONNECTED" ELSE state

\* A pause() of a thread that is not in the middle of a release.
PauseAfresh(reason) == Pause(reason) /\ undone' = FALSE

MainFree == Free("main") /\ OthersRun

-----------------------------------------------------------------------------
(* Start-up: the receiver becomes the pause callback on the command thread *)
(* of the service, and is registered by a runnable on the main looper.     *)

CreateReceiver ==
    /\ receiver = "none"
    /\ receiver' = "created"
    /\ UNCHANGED <<network, screen, userpause, lastNetwork, netTimers, screenOn, undone>>
    /\ UNCHANGED <<holdVars, threadVars>>

-----------------------------------------------------------------------------
(* networkStateChange.                                                     *)

\* The same network is back before the delayed disconnect ran.  What the user wants
\* is not asked: a hold is released all the same.
SameNetworkBack(n) ==
    /\ network = "PENDINGDISCONNECT"
    /\ lastNetwork = n
    /\ network' = "SHOULDBECONNECTED"
    /\ netTimers' = 0
    /\ Call("main", "same")
    /\ undone' = (undone \/ waiting)
    /\ UNCHANGED <<screen, lastNetwork>>

\* fault: a network that comes back is not followed by a resume
OtherNetworkSilent(n) ==
    /\ ~(network = "PENDINGDISCONNECT" /\ lastNetwork = n)
    /\ network' = "SHOULDBECONNECTED"
    /\ screen' = GiveUp(screen)
    /\ lastNetwork' = n
    /\ netTimers' = 0
    /\ UNCHANGED <<undone, cmds, threadVars>>

\* A different network, or the connection was not established any more.
OtherNetwork(n) ==
    /\ ~(network = "PENDINGDISCONNECT" /\ lastNetwork = n)
    /\ network' = "SHOULDBECONNECTED"
    /\ screen' = GiveUp(screen)
    /\ lastNetwork' = n
    /\ IF WantedIn(network', screen', userpause)
       THEN /\ netTimers' = 0
            /\ Call("main", IF lastNetwork # n THEN "diff" ELSE "resume")
       ELSE UNCHANGED <<netTimers, cmds, threadVars>>
    /\ UNCHANGED undone

\* fault: no runnable is posted
NetworkLostUntimed ==
    /\ IF NetChangeReconnect THEN network' = "PENDINGDISCONNECT" ELSE UNCHANGED network
    /\ UNCHANGED <<screen, lastNetwork, netTimers, undone, cmds, threadVars>>

\* No active network: disconnect in DISCONNECT_WAIT seconds, if the preference
\* says so.  The runnable is posted again each time.
NetworkLost ==
    /\ IF NetChangeReconnect
       THEN /\ network' = "PENDINGDISCONNECT"
            /\ netTimers < MaxNetTimers
            /\ netTimers' = netTimers + 1
       ELSE UNCHANGED <<network, netTimers>>
    /\ UNCHANGED <<screen, lastNetwork, undone, cmds, threadVars>>

HandleNetwork(n) ==
    /\ IF n = NoNetwork THEN NetworkLost ELSE SameNetworkBack(n) \/ OtherNetwork(n)
    /\ UNCHANGED <<userpause, screenOn, proc, holdRelease, evts>>

\* registerDeviceStateReceiver fetches the initial network state itself.
Register(n) ==
    /\ receiver = "created"
    /\ MainFree
    /\ CanSend
    /\ receiver' = "registered"
    /\ HandleNetwork(n)

NetworkStateChange(n) ==
    /\ receiver = "registered"
    /\ MainFree
    /\ CanSend
    /\ HandleNetwork(n)
    /\ UNCHANGED receiver

\* mDelayDisconnectRunnable.
DelayDisconnect ==
    /\ netTimers > 0
    /\ MainFree
    /\ CanSend
    /\ netTimers' = netTimers - 1
    /\ IF network = "PENDINGDISCONNECT"
       THEN /\ network' = "DISCONNECTED"
            /\ screen' = GiveUp(screen)
            /\ PauseAfresh(PauseReason(network', screen', userpause))
       ELSE /\ UNCHANGED <<network, screen, undone>>
            /\ UNCHANGED <<cmds, waiting, resumeTimers, lastPauseReason, release, call>>
    /\ UNCHANGED <<receiver, userpause, lastNetwork, screenOn, mgmt, proc, holdRelease, evts>>

-----------------------------------------------------------------------------
(* Screen.                                                                 *)

ScreenOff ==
    /\ receiver = "registered"
    /\ MainFree
    /\ screenOn
    /\ screenOn' = FALSE
    /\ screen' = IF ~ScreenOffPause THEN screen
                 ELSE IF network = "DISCONNECTED" \/ userpause = "DISCONNECTED"
                      THEN "DISCONNECTED"
                      ELSE "PENDINGDISCONNECT"
    /\ UNCHANGED <<receiver, network, userpause, lastNetwork, netTimers, undone>>
    /\ UNCHANGED <<holdVars, threadVars>>

ScreenOn ==
    /\ receiver = "registered"
    /\ MainFree
    /\ CanSend
    /\ ~screenOn
    /\ screenOn' = TRUE
    /\ screen' = "SHOULDBECONNECTED"
    /\ netTimers' = 0
    /\ LET wanted == WantedIn(network, screen', userpause)
       IN  \/ wanted # ShouldBeConnected /\ Call("main", "resume") /\ UNCHANGED undone
           \/ wanted = ShouldBeConnected /\ ~wanted
              /\ PauseAfresh(PauseReason(network, screen', userpause)) /\ UNCHANGED mgmt
           \/ wanted = ShouldBeConnected /\ wanted /\ UNCHANGED <<undone, cmds, threadVars>>
    /\ UNCHANGED <<receiver, network, userpause, lastNetwork, proc, holdRelease, evts>>

\* updateByteCount on the mgmt thread looks at screen; the bytes of the last
\* TRAFFIC_WINDOW seconds are below TRAFFIC_LIMIT or not ...
ReceiveByteCount ==
    /\ mgmt = "idle"
    /\ evts # <<>>
    /\ Head(evts) = "BYTECOUNT"
    /\ evts' = Tail(evts)
    /\ mgmt' \in IF receiver = "registered" /\ screen = "PENDINGDISCONNECT"
                 THEN {"idle", "bytes"} ELSE {"idle"}
    /\ UNCHANGED <<proc, holdRelease, cmds, waiting, resumeTimers, lastPauseReason, release, call>>
    /\ UNCHANGED receiverVars

\* ... and if they are, pauses, without looking again.
ByteCountPause ==
    /\ mgmt = "bytes"
    /\ mgmt' = "idle"
    /\ screen' = "DISCONNECTED"
    /\ Pause(PauseReason(network, "DISCONNECTED", userpause))
    /\ UNCHANGED <<receiver, network, userpause, lastNetwork, netTimers, screenOn, undone>>
    /\ UNCHANGED <<proc, holdRelease, evts>>

-----------------------------------------------------------------------------
(* userPause, from the notification (main) or over binder.                 *)

MayCall(t) ==
    /\ receiver = "registered"
    /\ Free(t)
    /\ OthersRun
    /\ CanSend
    /\ t = "main" \/ BinderCalls

UserPause(t) ==
    /\ MayCall(t)
    /\ userpause' = "DISCONNECTED"
    /\ PauseAfresh(PauseReason(network, screen, userpause'))
    /\ UNCHANGED <<receiver, network, screen, lastNetwork, netTimers, screenOn>>
    /\ UNCHANGED <<proc, holdRelease, evts, mgmt>>

UserResume(t) ==
    /\ MayCall(t)
    /\ userpause = "DISCONNECTED" \/ RedundantResume
    /\ userpause' = "SHOULDBECONNECTED"
    /\ IF WantedIn(network, screen, userpause') /\ ~ShouldBeConnected
       THEN Call(t, "resume") /\ UNCHANGED undone
       ELSE PauseAfresh(PauseReason(network, screen, userpause')) /\ UNCHANGED mgmt
    /\ UNCHANGED <<receiver, network, screen, lastNetwork, netTimers, screenOn>>
    /\ UNCHANGED <<proc, holdRelease, evts>>
=============================================================================
