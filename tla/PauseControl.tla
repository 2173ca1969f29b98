---------------------------- MODULE PauseControl ----------------------------
(***************************************************************************)
(* The pause and hold control of a running VPN: the device state receiver, *)
(* the management thread and the openvpn process, put together.            *)
(***************************************************************************)
EXTENDS DeviceStateReceiver

vars == <<holdVars, threadVars, receiverVars>>

\* Every variable of the three parts keeps the range its declaration gives it; in
\* particular a posted runnable runs at most once (resumeTimers, netTimers >= 0).
TypeOK == HoldTypeOK /\ ThreadTypeOK /\ ReceiverTypeOK

Init == HoldInit /\ ThreadInit /\ ReceiverInit

-----------------------------------------------------------------------------
\* A signal read in the same recv() as the release before it: the loop of
\* management_hold has not been left, so it is ignored.
SignalDropped == proc = "released" /\ cmds # <<>> /\ cmds' = Tail(cmds) /\ Head(cmds) = "usr1"

ProcLeaves ==
    /\ undone' = (undone \/ SignalDropped)
    /\ UNCHANGED <<receiver, network, screen, userpause, lastNetwork, netTimers, screenOn>>
    /\ UNCHANGED threadVars

ProcStep == HoldNext /\ ProcLeaves

\* A step of the process that nothing but the process is needed for.
ProcRuns ==
    /\ ReadCommand \/ EnterHold \/ LeaveHold \/ InitDone \/ Restart \/ HupExit
    /\ ProcLeaves

\* One recv() returns finitely many lines: the loop condition is looked at again.
ProcLoops == (LeaveHold \/ Restart) /\ ProcLeaves

Releases(t) ==
    /\ FinishRelease(t) \/ MakeCall(t)
    /\ UNCHANGED <<proc, holdRelease, evts, receiverVars>>

ReleaseStep == \E t \in Threads : Releases(t)

MgmtStep ==
    \/ ReceiveHold /\ UNCHANGED <<proc, holdRelease, receiverVars>>
    \/ CheckHold(ShouldBeRunning) /\ UNCHANGED <<proc, holdRelease, receiverVars>>
    \/ PostRelease /\ UNCHANGED <<proc, holdRelease, receiverVars>>
    \/ ReceiveByteCount
    \/ ByteCountPause

ResumeStep ==
    ResumeHold(ShouldBeRunning) /\ UNCHANGED <<proc, holdRelease, receiverVars>>

UserStep == \E t \in Threads : UserPause(t) \/ UserResume(t)

BroadcastStep ==
    \/ \E n \in Networks \cup {NoNetwork} : NetworkStateChange(n)
    \/ ScreenOff
    \/ ScreenOn

StartStep == CreateReceiver \/ \E n \in Networks \cup {NoNetwork} : Register(n)

Next ==
    \/ ProcStep \/ ReleaseStep \/ MgmtStep \/ ResumeStep \/ DelayDisconnect
    \/ UserStep \/ BroadcastStep \/ StartStep

Spec == Init /\ [][Next]_vars

\* Posted runnables get their turn however busy the main looper is (its queue is in
\* order of time), sleeping threads wake up, the management thread reads its socket
\* and the process takes its own steps.  Users, networks, screens and the
\* restarts of the process's own making owe nobody anything.
Fairness ==
    /\ WF_vars(ProcRuns)
    /\ WF_vars(ProcLoops)
    /\ \A t \in Threads : WF_vars(Releases(t))
    /\ WF_vars(MgmtStep)
    /\ SF_vars(ResumeStep)
    /\ SF_vars(DelayDisconnect)
    /\ WF_vars(StartStep)

FairSpec == Spec /\ Fairness

-----------------------------------------------------------------------------
(* The hold as an abstract handshake.                                      *)

Pending(c, q) == \E i \in 1 .. Len(q) : q[i] = c

HoldPhase ==
    CASE proc # "hold"                                               -> "away"
      [] proc = "hold" /\ ~waiting /\ ~Pending("release", cmds)      -> "asking"
      [] proc = "hold" /\ waiting                                    -> "asked"
      [] proc = "hold" /\ ~waiting /\ Pending("release", cmds)       -> "granted"

Handshake == INSTANCE HoldHandshake WITH phase <- HoldPhase

\* With all of the client's calls on the main looper, management_hold, handleHold
\* and releaseHoldCmd implement the handshake: every hold is announced once,
\* released once, and no release arrives in a hold that was not announced.
ImplementsHandshake == Handshake!Spec

-----------------------------------------------------------------------------
(* Safety.                                                                 *)

\* Nothing is under way between the client and the process.
Quiet ==
    /\ cmds = <<>>
    /\ ~Pending("HOLD", evts)
    /\ mgmt = "idle"
    /\ \A t \in Threads : Free(t)
    /\ resumeTimers = 0
    /\ proc \in {"hold", "running"}

\* mWaitingForRelease is a copy of the process's state, kept by messages that cross
\* each other: whenever nothing is under way, it says where the process is.
HoldAgreement == Quiet => (waiting <=> proc = "hold")

\* A pause the user asked for has taken effect whenever nothing is under way, and
\* nothing has taken it back but the two things that do: networkChange(true), which
\* releases the hold unasked, and a signal ignored behind a release in one recv().
UserPauseEffective ==
    Quiet /\ userpause = "DISCONNECTED" /\ ~undone => proc = "hold"

\* The same without the exception: what "Pause the VPN" of the API says.
UserPauseKept == Quiet /\ userpause = "DISCONNECTED" => proc = "hold"

\* Every restart asks the client again: management_clear_callback has withdrawn
\* the release of the connection before by the time an instance reaches its hold.
RestartHolds == proc \in {"start", "init", "hold"} => ~holdRelease

-----------------------------------------------------------------------------
(* Liveness.                                                               *)

NothingAgainst ==
    screenOn /\ userpause = "SHOULDBECONNECTED" /\ network = "SHOULDBECONNECTED"

\* A VPN nothing stands against gets out of its hold again and again, whatever
\* holds, restarts and broadcasts crossed on the way there (or has ended, where a
\* signal met a process that was still connecting).
Reconnects == <>[]NothingAgainst => []<>(proc \in {"connecting", "running", "exited"})

\* With "netchangereconnect", a network that stays lost ends in a hold, through the
\* delayed disconnect, however often the connection is restarted meanwhile (or with
\* the process, if the signal meets one that is still connecting).
LostNetworkHolds ==
    <>[](network # "SHOULDBECONNECTED" /\ receiver = "registered" /\ ~undone) =>
        <>[](proc \in {"hold", "exited"})

\* A pause the user does not take back, and nothing undoes, ends with the tunnel down
\* for good.
PauseLasts ==
    <>[](userpause = "DISCONNECTED" /\ ~undone) => <>[](proc \in {"hold", "exited"})
=============================================================================
