------------------------- MODULE PauseControlProofs -------------------------
(***************************************************************************)
(* Theorems about PauseControl, for every value of its constants: types,   *)
(* restarts, the hold handshake it implements, and the pause the user asks *)
(* for.                                                                    *)
(***************************************************************************)
EXTENDS PauseControl, SequenceTheorems, TLAPS

(* ----------------------------------------------------------------------- *)
(* Type correctness.                                                       *)

USE HoldAssumption, ThreadAssumption, ReceiverAssumption

\* Whatever the client writes is a sequence of commands (managmentCommand).
LEMMA SendType ==
    ASSUME cmds \in Seq(Commands), NEW c \in Commands, Send(c)
    PROVE  cmds' \in Seq(Commands)
BY DEF Send

\* releaseHoldCmd, resume, networkChange and pause keep the thread's types.
LEMMA BeginReleaseType ==
    ASSUME ThreadTypeOK, NEW t \in Threads, NEW k \in {"none", "cmd", "resume"},
           BeginRelease(t, k)
    PROVE  /\ resumeTimers' \in Nat
           /\ release' \in [Threads -> {"none", "cmd", "resume"}]
BY DEF ThreadTypeOK, BeginRelease

LEMMA ResumeType ==
    ASSUME HoldTypeOK, ThreadTypeOK, NEW t \in Threads, Resume(t), call' \in [Threads -> Calls]
    PROVE  ThreadTypeOK' /\ cmds' \in Seq(Commands)
<1>1. CASE waiting
  BY <1>1, BeginReleaseType DEF Resume, ThreadTypeOK, HoldTypeOK
<1>2. CASE ~waiting
  BY <1>2 DEF Resume, ThreadTypeOK, HoldTypeOK, PauseReasons
<1> QED BY <1>1, <1>2

LEMMA NetworkChangeType ==
    ASSUME HoldTypeOK, ThreadTypeOK, NEW t \in Threads, NEW same, NetworkChange(t, same),
           call' \in [Threads -> Calls]
    PROVE  ThreadTypeOK' /\ cmds' \in Seq(Commands)
<1>1. CASE waiting
  BY <1>1, BeginReleaseType DEF NetworkChange, ThreadTypeOK, HoldTypeOK
<1>2. CASE ~waiting
  BY <1>2, SendType DEF NetworkChange, ThreadTypeOK, HoldTypeOK, Commands
<1> QED BY <1>1, <1>2

LEMMA PerformType ==
    ASSUME HoldTypeOK, ThreadTypeOK, NEW t \in Threads, NEW c, Perform(t, c),
           call' \in [Threads -> Calls]
    PROVE  ThreadTypeOK' /\ cmds' \in Seq(Commands)
<1>1. CASE c = "release" /\ BeginRelease(t, "cmd")
           /\ UNCHANGED <<waiting, lastPauseReason, cmds, mgmt>>
  BY <1>1, BeginReleaseType DEF ThreadTypeOK, HoldTypeOK
<1>2. CASE Resume(t)
  BY <1>2, ResumeType
<1>3. CASE NetworkChange(t, c = "same")
  BY <1>3, NetworkChangeType
<1> QED BY <1>1, <1>2, <1>3 DEF Perform

LEMMA CallType ==
    ASSUME HoldTypeOK, ThreadTypeOK, NEW t \in Threads, NEW c \in Calls, Call(t, c)
    PROVE  ThreadTypeOK' /\ cmds' \in Seq(Commands)
<1>1. CASE Preempt
  BY <1>1 DEF Call, ThreadTypeOK, HoldTypeOK
<1>2. CASE ~Preempt
  BY <1>2, PerformType DEF Call, ThreadTypeOK
<1> QED BY <1>1, <1>2

LEMMA WriteReleaseType ==
    ASSUME HoldTypeOK, ThreadTypeOK, NEW t \in Threads, WriteRelease(t)
    PROVE  /\ cmds' \in Seq(Commands)
           /\ release' \in [Threads -> {"none", "cmd", "resume"}]
           /\ lastPauseReason' \in PauseReasons
BY SendType DEF WriteRelease, HoldTypeOK, ThreadTypeOK, Commands, PauseReasons

\* A release or a call under way, whatever has happened since it was decided on.
LEMMA ReleasesType ==
    ASSUME HoldTypeOK, ThreadTypeOK, NEW t \in Threads, FinishRelease(t) \/ MakeCall(t)
    PROVE  ThreadTypeOK' /\ cmds' \in Seq(Commands)
<1>1. CASE FinishRelease(t)
  <2>1. CASE Preempt
    BY <1>1, <2>1 DEF FinishRelease, ThreadTypeOK, HoldTypeOK, Calls
  <2>2. CASE ~Preempt
    BY <1>1, <2>2, WriteReleaseType DEF FinishRelease, ThreadTypeOK
  <2> QED BY <2>1, <2>2
<1>2. CASE MakeCall(t)
  <2>1. call' \in [Threads -> Calls]
    BY <1>2 DEF MakeCall, ThreadTypeOK, Calls
  <2>2. CASE call[t] = "write" /\ WriteRelease(t) /\ UNCHANGED <<waiting, resumeTimers, mgmt>>
    BY <2>1, <2>2, WriteReleaseType DEF ThreadTypeOK
  <2>3. CASE Perform(t, call[t])
    BY <2>1, <2>3, PerformType
  <2> QED BY <1>2, <2>2, <2>3 DEF MakeCall
<1> QED BY <1>1, <1>2

LEMMA PauseType ==
    ASSUME HoldTypeOK, ThreadTypeOK, NEW r \in PauseReasons, Pause(r)
    PROVE  /\ lastPauseReason' \in PauseReasons
           /\ waiting' \in BOOLEAN
           /\ resumeTimers' \in Nat
           /\ release' \in [Threads -> {"none", "cmd", "resume"}]
           /\ call' \in [Threads -> Calls]
           /\ cmds' \in Seq(Commands)
BY SendType DEF Pause, ThreadTypeOK, HoldTypeOK, Commands

\* getPauseReason always answers one of the three reasons.
LEMMA PauseReasonType ==
    ASSUME NEW n, NEW s, NEW u PROVE PauseReason(n, s, u) \in PauseReasons
BY DEF PauseReason, PauseReasons

LEMMA HandleNetworkType ==
    ASSUME TypeOK, NEW n \in Networks \cup {NoNetwork}, HandleNetwork(n),
           receiver' \in {"created", "registered"}
    PROVE  TypeOK'
<1>1. CASE n = NoNetwork
  BY <1>1 DEF HandleNetwork, NetworkLost, TypeOK, HoldTypeOK, ThreadTypeOK,
              ReceiverTypeOK, ConnectStates, threadVars
<1>2. CASE n # NoNetwork /\ SameNetworkBack(n)
  <2>1. ThreadTypeOK' /\ cmds' \in Seq(Commands)
    BY <1>2, CallType DEF SameNetworkBack, TypeOK, Threads, Calls
  <2> QED BY <1>2, <2>1 DEF HandleNetwork, SameNetworkBack, TypeOK, HoldTypeOK,
                            ReceiverTypeOK, ConnectStates
<1>3. CASE n # NoNetwork /\ OtherNetwork(n)
  <2>1. ThreadTypeOK' /\ cmds' \in Seq(Commands)
    <3>1. CASE UNCHANGED <<cmds, threadVars>>
      BY <3>1 DEF TypeOK, threadVars, ThreadTypeOK, HoldTypeOK
    <3>2. CASE Call("main", IF lastNetwork # n THEN "diff" ELSE "resume")
      BY <3>2, CallType DEF TypeOK, Threads, Calls
    <3> QED BY <1>3, <3>1, <3>2 DEF OtherNetwork
  <2>2. netTimers' \in Nat /\ screen' \in ConnectStates
    BY <1>3 DEF OtherNetwork, GiveUp, TypeOK, ReceiverTypeOK, ConnectStates
  <2> QED BY <1>3, <2>1, <2>2 DEF HandleNetwork, OtherNetwork, TypeOK, HoldTypeOK,
                                  ReceiverTypeOK, ConnectStates
<1> QED BY <1>1, <1>2, <1>3 DEF HandleNetwork

LEMMA InitType == Init => TypeOK
<1> SUFFICES ASSUME Init PROVE TypeOK
  OBVIOUS
<1>1. HoldTypeOK
  BY EmptySeq DEF Init, HoldInit, HoldTypeOK, ProcStates
<1>2. ThreadTypeOK
  BY DEF Init, ThreadInit, ThreadTypeOK, PauseReasons, Calls
<1>3. ReceiverTypeOK
  BY DEF Init, ReceiverInit, ReceiverTypeOK, ConnectStates
<1> QED BY <1>1, <1>2, <1>3 DEF TypeOK

LEMMA ProcStepType == TypeOK /\ ProcStep => TypeOK'
<1> SUFFICES ASSUME TypeOK, ProcStep PROVE TypeOK'
  OBVIOUS
<1>1. ThreadTypeOK' /\ ReceiverTypeOK'
  BY DEF ProcStep, ProcLeaves, SignalDropped, TypeOK, ThreadTypeOK, ReceiverTypeOK, threadVars
<1>2. HoldTypeOK /\ HoldNext
  BY DEF ProcStep, TypeOK
<1>3. HoldTypeOK'
  <2> USE <1>2 DEF HoldTypeOK, ProcStates
  <2>1. CASE ReadCommand
    <3>1. cmds' \in Seq(Commands)
      BY <2>1 DEF ReadCommand
    <3>2. CASE /\ Head(cmds) \in {"netsame", "netdiff"}
               /\ proc' \in ManNetworkChange(proc, Head(cmds) = "netsame")
      BY <2>1, <3>1, <3>2 DEF ReadCommand, ManNetworkChange, ManSignalUsr1
    <3>3. CASE proc' \in {ManHoldRelease(proc), ManSignalUsr1(proc)}
      BY <2>1, <3>1, <3>3 DEF ReadCommand, ManHoldRelease, ManSignalUsr1
    <3> QED BY <2>1, <3>2, <3>3 DEF ReadCommand
  <2>2. CASE EnterHold
    BY <2>2 DEF EnterHold, Events
  <2>3. CASE LeaveHold \/ InitDone \/ Restart \/ SelfSignal \/ HupExit
    BY <2>3, EmptySeq DEF LeaveHold, InitDone, Restart, SelfSignal, HupExit
  <2>4. CASE SendByteCount
    BY <2>4 DEF SendByteCount, Events
  <2> QED BY <2>1, <2>2, <2>3, <2>4 DEF HoldNext
<1> QED BY <1>1, <1>3 DEF TypeOK

LEMMA MgmtStepType == TypeOK /\ MgmtStep => TypeOK'
<1> SUFFICES ASSUME TypeOK, MgmtStep PROVE TypeOK'
  OBVIOUS
<1> USE DEF TypeOK, ReceiverTypeOK, receiverVars, HoldTypeOK
<1>1. CASE ReceiveHold /\ UNCHANGED <<proc, holdRelease, receiverVars>>
  BY <1>1 DEF ReceiveHold, ThreadTypeOK
<1>2. CASE CheckHold(ShouldBeRunning) /\ UNCHANGED <<proc, holdRelease, receiverVars>>
  BY <1>2 DEF CheckHold, ThreadTypeOK
<1>3. CASE PostRelease /\ UNCHANGED <<proc, holdRelease, receiverVars>>
  BY <1>3 DEF PostRelease, ThreadTypeOK
<1>4. CASE ReceiveByteCount
  BY <1>4 DEF ReceiveByteCount, ThreadTypeOK
<1>5. CASE ByteCountPause
  BY <1>5, PauseType, PauseReasonType DEF ByteCountPause, ThreadTypeOK, ConnectStates
<1> QED BY <1>1, <1>2, <1>3, <1>4, <1>5 DEF MgmtStep

LEMMA TypeStep == TypeOK /\ [Next]_vars => TypeOK'
<1> SUFFICES ASSUME TypeOK, [Next]_vars PROVE TypeOK'
  OBVIOUS
<1>1. CASE ProcStep
  BY <1>1, ProcStepType
<1>2. CASE ReleaseStep
  <2>1. PICK t \in Threads : Releases(t)
    BY <1>2 DEF ReleaseStep
  <2>2. ThreadTypeOK' /\ cmds' \in Seq(Commands)
    BY <2>1, ReleasesType DEF Releases, TypeOK
  <2> QED BY <2>1, <2>2 DEF Releases, TypeOK, HoldTypeOK, ReceiverTypeOK, receiverVars
<1>3. CASE MgmtStep
  BY <1>3, MgmtStepType
<1>4. CASE ResumeStep
  BY <1>4 DEF ResumeStep, ResumeHold, Perform, BeginRelease, TypeOK, HoldTypeOK, ThreadTypeOK,
              ReceiverTypeOK, receiverVars, Threads, Calls, Resume, NetworkChange
<1>5. CASE DelayDisconnect
  <2>1. PauseReason(network', screen', userpause) \in PauseReasons
    BY PauseReasonType
  <2>2. ThreadTypeOK' /\ cmds' \in Seq(Commands)
    BY <1>5, <2>1, PauseType DEF DelayDisconnect, PauseAfresh, TypeOK, ThreadTypeOK, HoldTypeOK
  <2>3. netTimers' \in Nat /\ UNCHANGED <<proc, holdRelease, evts>>
    BY <1>5 DEF DelayDisconnect, TypeOK, ReceiverTypeOK
  <2>5. undone' = undone \/ undone' = FALSE
    BY <1>5 DEF DelayDisconnect, PauseAfresh
  <2>4. network' \in ConnectStates /\ screen' \in ConnectStates
        /\ UNCHANGED <<receiver, userpause, lastNetwork, screenOn>>
    BY <1>5 DEF DelayDisconnect, GiveUp, TypeOK, ReceiverTypeOK, ConnectStates
  <2> QED BY <2>2, <2>3, <2>4, <2>5 DEF TypeOK, HoldTypeOK, ReceiverTypeOK
<1>6. CASE UserStep
  <2>1. PICK t \in Threads : UserPause(t) \/ UserResume(t)
    BY <1>6 DEF UserStep
  <2>2. PauseReason(network, screen, userpause') \in PauseReasons
    BY PauseReasonType
  <2>3. ThreadTypeOK' /\ cmds' \in Seq(Commands)
    BY <2>1, <2>2, PauseType, CallType
       DEF UserPause, UserResume, PauseAfresh, TypeOK, ThreadTypeOK, Calls
  <2> QED BY <2>1, <2>3 DEF UserPause, UserResume, PauseAfresh, TypeOK, HoldTypeOK, ReceiverTypeOK
<1>7. CASE BroadcastStep
  <2>1. CASE \E n \in Networks \cup {NoNetwork} : NetworkStateChange(n)
    <3>1. PICK n \in Networks \cup {NoNetwork} : NetworkStateChange(n)
      BY <2>1
    <3> QED BY <3>1, HandleNetworkType DEF NetworkStateChange
  <2>2. CASE ScreenOff
    BY <2>2 DEF ScreenOff, TypeOK, HoldTypeOK, ThreadTypeOK, ReceiverTypeOK, ConnectStates,
                holdVars, threadVars
  <2>3. CASE ScreenOn
    <3>1. PauseReason(network, screen', userpause) \in PauseReasons
      BY PauseReasonType
    <3>2. ThreadTypeOK' /\ cmds' \in Seq(Commands)
      BY <2>3, <3>1, PauseType, CallType
         DEF ScreenOn, PauseAfresh, TypeOK, ThreadTypeOK, HoldTypeOK, Threads, threadVars, Calls
    <3> QED BY <2>3, <3>2 DEF ScreenOn, PauseAfresh, TypeOK, HoldTypeOK, ReceiverTypeOK, ConnectStates
  <2> QED BY <1>7, <2>1, <2>2, <2>3 DEF BroadcastStep
<1>8. CASE StartStep
  <2>1. CASE CreateReceiver
    BY <2>1 DEF CreateReceiver, TypeOK, HoldTypeOK, ThreadTypeOK, ReceiverTypeOK, holdVars, threadVars
  <2>2. CASE \E n \in Networks \cup {NoNetwork} : Register(n)
    <3>1. PICK n \in Networks \cup {NoNetwork} : Register(n)
      BY <2>2
    <3> QED BY <3>1, HandleNetworkType DEF Register
  <2> QED BY <1>8, <2>1, <2>2 DEF StartStep
<1>9. CASE UNCHANGED vars
  BY <1>9 DEF vars, TypeOK, HoldTypeOK, ThreadTypeOK, ReceiverTypeOK, holdVars, threadVars, receiverVars
<1> QED BY <1>1, <1>2, <1>3, <1>4, <1>5, <1>6, <1>7, <1>8, <1>9 DEF Next

\* Type correctness of the whole composition: in particular the two counts of
\* posted runnables (mResumeHoldRunnable, mDelayDisconnectRunnable) stay natural
\* and every line in either channel is one its reader knows.
THEOREM TypeCorrect == Spec => []TypeOK
<1>1. Init => TypeOK BY InitType
<1>2. TypeOK /\ [Next]_vars => TypeOK' BY TypeStep
<1> QED BY <1>1, <1>2, PTL DEF Spec

(* ----------------------------------------------------------------------- *)
(* A restart takes the release back.                                       *)

\* Only the process moves the process: the client's threads write lines, read
\* notifications and keep their own fields.
LEMMA ClientLeavesProcess ==
    ASSUME [Next]_vars, ~ProcStep PROVE UNCHANGED <<proc, holdRelease>>
<1>1. CASE ReleaseStep \/ ResumeStep
  BY <1>1 DEF ReleaseStep, Releases, ResumeStep
<1>2. CASE MgmtStep
  BY <1>2 DEF MgmtStep, ReceiveByteCount, ByteCountPause
<1>3. CASE DelayDisconnect
  BY <1>3 DEF DelayDisconnect
<1>4. CASE UserStep
  BY <1>4 DEF UserStep, UserPause, UserResume
<1>5. CASE BroadcastStep
  BY <1>5 DEF BroadcastStep, NetworkStateChange, HandleNetwork, ScreenOff, ScreenOn, holdVars
<1>6. CASE StartStep
  BY <1>6 DEF StartStep, CreateReceiver, Register, HandleNetwork, holdVars
<1>7. CASE UNCHANGED vars
  BY <1>7 DEF vars, holdVars
<1> QED BY <1>1, <1>2, <1>3, <1>4, <1>5, <1>6, <1>7 DEF Next

LEMMA RestartHoldsStep == RestartHolds /\ [Next]_vars => RestartHolds'
<1> SUFFICES ASSUME RestartHolds, [Next]_vars PROVE RestartHolds'
  OBVIOUS
<1>1. CASE ProcStep
  <2>1. CASE ReadCommand
    BY <2>1 DEF ReadCommand, ManHoldRelease, ManNetworkChange, ManSignalUsr1, RestartHolds
  <2>2. CASE EnterHold
    BY <2>2 DEF EnterHold, RestartHolds
  <2>3. CASE Restart
    BY <2>3 DEF Restart, RestartHolds
  <2>4. CASE LeaveHold \/ InitDone \/ SelfSignal \/ HupExit \/ SendByteCount
    BY <2>4 DEF LeaveHold, InitDone, SelfSignal, HupExit, SendByteCount, RestartHolds
  <2> QED BY <1>1, <2>1, <2>2, <2>3, <2>4 DEF ProcStep, HoldNext
<1>2. CASE ~ProcStep
  BY <1>2, ClientLeavesProcess DEF RestartHolds
<1> QED BY <1>1, <1>2

\* Whatever the client does and however its threads interleave, an instance that
\* reaches do_startup_pause finds the release of the one before withdrawn, so every
\* (re)connection asks the client again.
THEOREM RestartAsksAgain == Spec => []RestartHolds
<1>1. Init => RestartHolds BY DEF Init, HoldInit, RestartHolds
<1>2. RestartHolds /\ [Next]_vars => RestartHolds' BY RestartHoldsStep
<1> QED BY <1>1, <1>2, PTL DEF Spec

-----------------------------------------------------------------------------
(* PauseControl implements HoldHandshake, and mWaitingForRelease agrees    *)
(* with the process, for every value of the constants with which all calls *)
(* of the client run on the main looper, between two handlers of the       *)
(* management thread.                                                      *)

OneLooper == ~Preempt /\ ~BinderCalls

-----------------------------------------------------------------------------
(* One token: a hold is announced, known or granted, and only one of them. *)

AtMostOne(c, q) == \A i, j \in 1 .. Len(q) : q[i] = c /\ q[j] = c => i = j

\* Where the token is, between the process and the client.
HoldToken ==
    /\ waiting => proc = "hold" /\ ~Pending("HOLD", evts) /\ ~Pending("release", cmds)
    /\ Pending("HOLD", evts) => proc = "hold" /\ ~Pending("release", cmds)
    /\ Pending("release", cmds) => proc = "hold"
    /\ proc = "hold" => waiting \/ Pending("HOLD", evts) \/ Pending("release", cmds)
    /\ AtMostOne("HOLD", evts)
    /\ AtMostOne("release", cmds)

\* Who may be about to pass it on, inside the client.
ThreadToken ==
    /\ \A t \in Threads : call[t] = "none"
    /\ release["binder"] = "none"
    /\ release["main"] # "none" => waiting /\ resumeTimers = 0
    /\ resumeTimers > 0 => waiting
    /\ mgmt \in {"hold", "post"} => waiting /\ release["main"] = "none"

Token == HoldToken /\ ThreadToken

-----------------------------------------------------------------------------
(* Channels.                                                               *)

LEMMA AppendPending ==
    ASSUME NEW S, NEW q \in Seq(S), NEW d \in S, NEW c
    PROVE  /\ Pending(c, Append(q, d)) <=> Pending(c, q) \/ d = c
           /\ d # c => (AtMostOne(c, q) => AtMostOne(c, Append(q, d)))
           /\ ~Pending(c, q) => AtMostOne(c, Append(q, d))
<1>1. /\ Len(Append(q, d)) = Len(q) + 1
      /\ Append(q, d)[Len(q) + 1] = d
      /\ \A i \in 1 .. Len(q) : Append(q, d)[i] = q[i]
      /\ Len(q) \in Nat
  OBVIOUS
<1>2. \A i \in 1 .. Len(q) + 1 : i \in 1 .. Len(q) \/ i = Len(q) + 1
  BY <1>1
<1>3. \A i \in 1 .. Len(q) : i \in 1 .. Len(q) + 1
  BY <1>1
<1>4. Len(q) + 1 \in 1 .. Len(q) + 1
  BY <1>1
<1> QED BY <1>1, <1>2, <1>3, <1>4 DEF Pending, AtMostOne

LEMMA TailPending ==
    ASSUME NEW S, NEW q \in Seq(S), q # <<>>, NEW c
    PROVE  /\ Head(q) # c => (Pending(c, Tail(q)) <=> Pending(c, q))
           /\ Head(q) = c => Pending(c, q)
           /\ AtMostOne(c, q) => AtMostOne(c, Tail(q))
           /\ AtMostOne(c, q) /\ Head(q) = c => ~Pending(c, Tail(q))
<1>1. /\ Len(q) \in Nat \ {0}
      /\ Len(Tail(q)) = Len(q) - 1
      /\ Head(q) = q[1]
      /\ \A i \in 1 .. Len(q) - 1 : Tail(q)[i] = q[i + 1]
  BY EmptySeq, HeadTailProperties
<1>2. \A i \in 1 .. Len(q) - 1 : i + 1 \in 1 .. Len(q) /\ i + 1 # 1
  BY <1>1
<1>3. \A i \in 1 .. Len(q) : i = 1 \/ (i - 1 \in 1 .. Len(q) - 1 /\ (i - 1) + 1 = i)
  BY <1>1
<1>4. 1 \in 1 .. Len(q)
  BY <1>1
<1>5. Head(q) # c => (Pending(c, Tail(q)) <=> Pending(c, q))
  BY <1>1, <1>2, <1>3 DEF Pending
<1>6. Head(q) = c => Pending(c, q)
  BY <1>1, <1>4 DEF Pending
<1>7. AtMostOne(c, q) => AtMostOne(c, Tail(q))
  <2> SUFFICES ASSUME AtMostOne(c, q), NEW i \in 1 .. Len(q) - 1, NEW j \in 1 .. Len(q) - 1,
                      Tail(q)[i] = c, Tail(q)[j] = c
               PROVE  i = j
    BY <1>1 DEF AtMostOne
  <2>1. i + 1 = j + 1
    BY <1>1, <1>2 DEF AtMostOne
  <2> QED BY <2>1, <1>1
<1>8. AtMostOne(c, q) /\ Head(q) = c => ~Pending(c, Tail(q))
  BY <1>1, <1>2, <1>4 DEF Pending, AtMostOne
<1> QED BY <1>5, <1>6, <1>7, <1>8

LEMMA EmptyPending == ASSUME NEW c PROVE ~Pending(c, <<>>) /\ AtMostOne(c, <<>>)
BY DEF Pending, AtMostOne

\* Sending anything but a release leaves the pending releases as they are.
LEMMA SendPending ==
    ASSUME TypeOK, NEW d \in Commands \ {"release"}, Send(d) \/ UNCHANGED cmds
    PROVE  /\ Pending("release", cmds') <=> Pending("release", cmds)
           /\ AtMostOne("release", cmds) => AtMostOne("release", cmds')
<1>1. CASE UNCHANGED cmds
  BY <1>1
<1>2. CASE cmds' = Append(cmds, d)
  <2>1. cmds \in Seq(Commands) /\ d \in Commands /\ d # "release"
    BY DEF TypeOK, HoldTypeOK
  <2> QED BY <1>2, <2>1, AppendPending
<1> QED BY <1>1, <1>2 DEF Send

-----------------------------------------------------------------------------
(* The steps of the client that keep the token where it is.                *)

\* Every client step but the sending of a release and the reading of HOLD.
Still ==
    /\ UNCHANGED <<proc, waiting>>
    /\ Pending("release", cmds') <=> Pending("release", cmds)
    /\ AtMostOne("release", cmds) => AtMostOne("release", cmds')
    /\ Pending("HOLD", evts') <=> Pending("HOLD", evts)
    /\ AtMostOne("HOLD", evts) => AtMostOne("HOLD", evts')

LEMMA StillToken == ASSUME HoldToken, Still PROVE HoldToken'
BY DEF HoldToken, Still

LEMMA StillPhase == ASSUME Still PROVE HoldPhase' = HoldPhase
<1>1. (proc = "hold")' <=> proc = "hold" BY DEF Still
<1>2. waiting' = waiting BY DEF Still
<1>3. Pending("release", cmds)' <=> Pending("release", cmds) BY DEF Still
<1> QED BY <1>1, <1>2, <1>3 DEF HoldPhase

LEMMA SameChannels ==
    ASSUME UNCHANGED <<proc, waiting, cmds, evts>> PROVE Still
BY DEF Still

LEMMA PauseStill ==
    ASSUME TypeOK, NEW r, Pause(r), UNCHANGED <<proc, evts>> PROVE Still
BY SendPending DEF Pause, Still, Commands

LEMMA PauseThread ==
    ASSUME ThreadToken, NEW r, Pause(r), TypeOK,
           mgmt' \notin {"hold", "post"} \/ mgmt' = mgmt
    PROVE  ThreadToken'
BY DEF Pause, ThreadToken, TypeOK, ThreadTypeOK

\* With every call on the main looper a decision and the call it leads to are one.
LEMMA CallPerforms ==
    ASSUME ~Preempt, NEW t, NEW c, Call(t, c) PROVE Perform(t, c) /\ call' = call
BY DEF Call

LEMMA PerformStill ==
    ASSUME TypeOK, NEW c, Perform("main", c), UNCHANGED <<proc, evts>> PROVE Still
<1>1. CASE NetworkChange("main", c = "same")
  BY <1>1, SendPending DEF NetworkChange, Still, Commands
<1>2. CASE Resume("main")
  BY <1>2 DEF Resume, Still
<1>3. CASE BeginRelease("main", "cmd") /\ UNCHANGED <<waiting, cmds>>
  BY <1>3 DEF Still
<1> QED BY <1>1, <1>2, <1>3 DEF Perform

LEMMA PerformThread ==
    ASSUME TypeOK, ThreadToken, NEW c, Perform("main", c), mgmt = "idle", call' = call,
           c = "release" => waiting
    PROVE  ThreadToken'
<1>1. CASE waiting
  BY <1>1 DEF Perform, NetworkChange, Resume, BeginRelease, ThreadToken, TypeOK, ThreadTypeOK,
              Threads
<1>2. CASE ~waiting
  BY <1>2 DEF Perform, NetworkChange, Resume, ThreadToken, TypeOK, ThreadTypeOK
<1> QED BY <1>1, <1>2

LEMMA UnchangedThread ==
    ASSUME ThreadToken, UNCHANGED threadVars PROVE ThreadToken'
BY DEF ThreadToken, threadVars

-----------------------------------------------------------------------------
(* One lemma for each group of steps.                                      *)

\* What is shown of every step.
Good == Token' /\ [Handshake!Next]_HoldPhase

LEMMA StillGood == ASSUME Token, Still, ThreadToken' PROVE Good
BY StillToken, StillPhase DEF Token, Good

LEMMA HandleNetworkGood ==
    ASSUME OneLooper, TypeOK, Token, mgmt = "idle", NEW n, HandleNetwork(n) PROVE Good
<1>1. UNCHANGED <<proc, evts>> BY DEF HandleNetwork
<1>2. CASE NetworkLost
  BY <1>1, <1>2, SameChannels, UnchangedThread, StillGood DEF NetworkLost, threadVars, Token
<1>3. CASE \E c : Call("main", c) /\ c # "release"
  BY <1>1, <1>3, CallPerforms, PerformStill, PerformThread, StillGood DEF Token, OneLooper
<1>5. CASE UNCHANGED <<cmds, threadVars>>
  BY <1>1, <1>5, SameChannels, UnchangedThread, StillGood DEF threadVars, Token
<1> QED BY <1>2, <1>3, <1>5 DEF HandleNetwork, SameNetworkBack, OtherNetwork

LEMMA ReadGood ==
    ASSUME TypeOK, Token, ReadCommand, UNCHANGED threadVars PROVE Good
<1> USE DEF Token
<1>1. ThreadToken' BY UnchangedThread
<1>2. cmds \in Seq(Commands) /\ cmds # <<>> /\ cmds' = Tail(cmds) /\ evts' = evts
      /\ waiting' = waiting
  BY DEF ReadCommand, TypeOK, HoldTypeOK, threadVars
<1>3. CASE Head(cmds) = "release"
  <2>1. Pending("release", cmds) /\ ~Pending("release", cmds')
        /\ AtMostOne("release", cmds')
    BY <1>2, <1>3, TailPending DEF HoldToken
  <2>2. proc = "hold" /\ proc' = "released" /\ ~waiting /\ ~Pending("HOLD", evts)
    BY <1>3, <2>1 DEF HoldToken, ReadCommand, ManHoldRelease
  <2>3. HoldToken'
    BY <1>2, <2>1, <2>2 DEF HoldToken
  <2>4. HoldPhase = "granted" /\ HoldPhase' = "away"
    BY <2>1, <2>2 DEF HoldPhase
  <2> QED BY <1>1, <2>3, <2>4 DEF Good, Handshake!Next, Handshake!Proceed
<1>4. CASE Head(cmds) # "release"
  <2>1. /\ Pending("release", cmds') <=> Pending("release", cmds)
        /\ AtMostOne("release", cmds')
    BY <1>2, <1>4, TailPending DEF HoldToken
  <2>2. (proc' = "hold") <=> (proc = "hold")
    BY <1>4 DEF ReadCommand, ManNetworkChange, ManSignalUsr1
  <2>3. HoldToken'
    BY <1>2, <2>1, <2>2 DEF HoldToken
  <2>4. HoldPhase' = HoldPhase
    <3>1. (proc = "hold")' <=> proc = "hold" BY <2>2
    <3>2. Pending("release", cmds)' <=> Pending("release", cmds) BY <2>1
    <3> QED BY <1>2, <3>1, <3>2 DEF HoldPhase
  <2> QED BY <1>1, <2>3, <2>4 DEF Good
<1> QED BY <1>3, <1>4

LEMMA EnterGood ==
    ASSUME TypeOK, Token, EnterHold, UNCHANGED threadVars PROVE Good
<1> USE DEF Token
<1>1. ThreadToken' BY UnchangedThread
<1>2. ~waiting /\ ~waiting' /\ cmds' = cmds /\ ~Pending("release", cmds)
      /\ ~Pending("HOLD", evts) /\ AtMostOne("release", cmds) /\ proc # "hold"
      /\ evts \in Seq(Events)
  BY DEF EnterHold, HoldToken, threadVars, TypeOK, HoldTypeOK
<1>3. CASE holdRelease
  <2>1. HoldToken' BY <1>2, <1>3 DEF HoldToken, EnterHold
  <2>2. HoldPhase' = "away" /\ HoldPhase = "away" BY <1>2, <1>3 DEF EnterHold, HoldPhase
  <2> QED BY <1>1, <2>1, <2>2 DEF Good
<1>4. CASE ~holdRelease
  <2>1. proc' = "hold" /\ evts' = Append(evts, "HOLD")
    BY <1>4 DEF EnterHold
  <2>2. Pending("HOLD", evts') /\ AtMostOne("HOLD", evts')
    BY <1>2, <2>1, AppendPending DEF Events
  <2>3. HoldToken' BY <1>2, <2>1, <2>2 DEF HoldToken
  <2>4. HoldPhase = "away" /\ HoldPhase' = "asking"
    BY <1>2, <2>1 DEF HoldPhase
  <2> QED BY <1>1, <2>3, <2>4 DEF Good, Handshake!Next, Handshake!Ask
<1> QED BY <1>3, <1>4

LEMMA ProcGood == ASSUME TypeOK, Token, ProcStep PROVE Good
<1> USE DEF Token
<1>1. UNCHANGED threadVars BY DEF ProcStep, ProcLeaves
<1>2. ThreadToken' BY <1>1, UnchangedThread
<1>3. CASE ReadCommand
  BY <1>1, <1>3, ReadGood
<1>4. CASE EnterHold
  BY <1>1, <1>4, EnterGood
<1>5. CASE LeaveHold \/ InitDone \/ Restart \/ SelfSignal \/ HupExit
  <2>1. proc # "hold" /\ proc' # "hold" /\ evts' = evts /\ waiting' = waiting
    BY <1>1, <1>5 DEF LeaveHold, InitDone, Restart, SelfSignal, HupExit, threadVars
  <2>2. cmds' = cmds \/ cmds' = <<>>
    BY <1>5 DEF LeaveHold, InitDone, Restart, SelfSignal, HupExit
  <2>3. ~Pending("release", cmds') /\ AtMostOne("release", cmds')
    BY <2>1, <2>2, EmptyPending DEF HoldToken
  <2>4. HoldToken' BY <2>1, <2>3 DEF HoldToken
  <2>5. HoldPhase = "away" /\ HoldPhase' = "away" BY <2>1 DEF HoldPhase
  <2> QED BY <1>2, <2>4, <2>5 DEF Good
<1>6. CASE SendByteCount
  <2>1. evts \in Seq(Events) /\ "BYTECOUNT" \in Events
    BY DEF TypeOK, HoldTypeOK, Events
  <2>2. Still
    BY <1>1, <1>6, <2>1, AppendPending DEF SendByteCount, Still, threadVars
  <2> QED BY <1>2, <2>2, StillGood
<1> QED BY <1>3, <1>4, <1>5, <1>6 DEF ProcStep, HoldNext

LEMMA ReleaseGood == ASSUME OneLooper, TypeOK, Token, ReleaseStep PROVE Good
<1> USE DEF Token
<1>1. FinishRelease("main") /\ WriteRelease("main") /\ UNCHANGED <<proc, evts, call>>
  BY DEF ReleaseStep, Releases, FinishRelease, MakeCall, ThreadToken, Threads, OneLooper
<1>2. waiting /\ ~waiting' /\ proc = "hold" /\ ~Pending("release", cmds)
      /\ ~Pending("HOLD", evts) /\ resumeTimers = 0
  BY <1>1 DEF FinishRelease, ThreadToken, HoldToken
<1>3. cmds' = Append(cmds, "release") /\ cmds \in Seq(Commands) /\ "release" \in Commands
  BY <1>1, <1>2 DEF WriteRelease, Send, TypeOK, HoldTypeOK, Commands
<1>4. Pending("release", cmds') /\ AtMostOne("release", cmds')
  BY <1>2, <1>3, AppendPending
<1>5. HoldToken' BY <1>1, <1>2, <1>4 DEF HoldToken
<1>6. ThreadToken'
  BY <1>1, <1>2 DEF FinishRelease, WriteRelease, ThreadToken, TypeOK, ThreadTypeOK, Threads
<1>7. HoldPhase = "asked" /\ HoldPhase' = "granted"
  BY <1>1, <1>2, <1>4 DEF HoldPhase
<1> QED BY <1>5, <1>6, <1>7 DEF Good, Handshake!Next, Handshake!Grant

LEMMA MgmtGood == ASSUME TypeOK, Token, MgmtStep PROVE Good
<1> USE DEF Token
<1>1. CASE ReceiveHold /\ UNCHANGED <<proc, holdRelease, receiverVars>>
  <2>1. evts \in Seq(Events) /\ evts # <<>> /\ evts' = Tail(evts) /\ Head(evts) = "HOLD"
        /\ AtMostOne("HOLD", evts) /\ UNCHANGED <<proc, cmds>> /\ waiting'
    BY <1>1 DEF ReceiveHold, TypeOK, HoldTypeOK, HoldToken
  <2>2. Pending("HOLD", evts) /\ ~Pending("HOLD", evts') /\ AtMostOne("HOLD", evts')
    BY <2>1, TailPending
  <2>3. proc = "hold" /\ ~waiting /\ ~Pending("release", cmds) /\ release["main"] = "none"
    BY <2>2 DEF HoldToken, ThreadToken
  <2>4. HoldToken' BY <2>1, <2>2, <2>3 DEF HoldToken
  <2>5. ThreadToken' BY <1>1, <2>3 DEF ReceiveHold, ThreadToken
  <2>6. HoldPhase = "asking" /\ HoldPhase' = "asked" BY <2>1, <2>3 DEF HoldPhase
  <2> QED BY <2>4, <2>5, <2>6 DEF Good, Handshake!Next, Handshake!Learn
<1>2. CASE CheckHold(ShouldBeRunning) /\ UNCHANGED <<proc, holdRelease, receiverVars>>
  BY <1>2, SameChannels, StillGood DEF CheckHold, ThreadToken
<1>3. CASE PostRelease /\ UNCHANGED <<proc, holdRelease, receiverVars>>
  BY <1>3, SameChannels, StillGood DEF PostRelease, ThreadToken
<1>4. CASE ReceiveByteCount
  <2>1. evts \in Seq(Events) /\ evts # <<>> /\ evts' = Tail(evts) /\ Head(evts) # "HOLD"
    BY <1>4 DEF ReceiveByteCount, TypeOK, HoldTypeOK
  <2>2. Still
    BY <1>4, <2>1, TailPending DEF ReceiveByteCount, Still
  <2>3. ThreadToken'
    BY <1>4 DEF ReceiveByteCount, ThreadToken
  <2> QED BY <2>2, <2>3, StillGood
<1>5. CASE ByteCountPause
  BY <1>5, PauseStill, PauseThread, StillGood DEF ByteCountPause
<1> QED BY <1>1, <1>2, <1>3, <1>4, <1>5 DEF MgmtStep

LEMMA OthersGood ==
    ASSUME OneLooper, TypeOK, Token, [Next]_vars,
           ~ProcStep, ~ReleaseStep, ~MgmtStep
    PROVE  Good
<1> USE DEF Token, OneLooper
<1>1. CASE ResumeStep
  <2>1. mgmt = "idle" /\ waiting BY <1>1 DEF ResumeStep, ResumeHold, OthersRun, ThreadToken
  <2>2. CASE Perform("main", "release") /\ UNCHANGED <<call, proc, evts>>
    BY <2>1, <2>2, PerformStill, PerformThread, StillGood
  <2>3. CASE ~(Perform("main", "release") /\ UNCHANGED <<call, proc, evts>>)
    <3>1. resumeTimers > 0 /\ resumeTimers' = resumeTimers - 1
          /\ UNCHANGED <<proc, evts, cmds, waiting, release, mgmt, call>>
      BY <1>1, <2>3 DEF ResumeStep, ResumeHold
    <3>2. ThreadToken'
      BY <2>1, <3>1 DEF ThreadToken, TypeOK, ThreadTypeOK
    <3> QED BY <3>1, <3>2, SameChannels, StillGood
  <2> QED BY <2>2, <2>3
<1>2. CASE DelayDisconnect
  <2>1. mgmt = "idle" BY <1>2 DEF DelayDisconnect, MainFree, OthersRun
  <2>2. CASE network = "PENDINGDISCONNECT"
    BY <1>2, <2>2, PauseStill, PauseThread, StillGood DEF DelayDisconnect, PauseAfresh
  <2>3. CASE network # "PENDINGDISCONNECT"
    BY <1>2, <2>3, SameChannels, StillGood DEF DelayDisconnect, ThreadToken
  <2> QED BY <2>2, <2>3
<1>3. CASE UserStep
  <2>1. (UserPause("main") \/ UserResume("main")) /\ mgmt = "idle"
    BY <1>3 DEF UserStep, UserPause, UserResume, MayCall, Threads, OthersRun
  <2>2. UNCHANGED <<proc, evts>> BY <2>1 DEF UserPause, UserResume
  <2>3. CASE (\E r : Pause(r)) /\ UNCHANGED mgmt
    BY <2>2, <2>3, PauseStill, PauseThread, StillGood
  <2>4. CASE Call("main", "resume")
    BY <2>1, <2>2, <2>4, CallPerforms, PerformStill, PerformThread, StillGood
  <2> QED BY <2>1, <2>3, <2>4 DEF UserPause, UserResume, PauseAfresh
<1>4. CASE BroadcastStep
  <2>1. mgmt = "idle"
    BY <1>4 DEF BroadcastStep, NetworkStateChange, ScreenOff, ScreenOn, MainFree, OthersRun
  <2>2. CASE \E n \in Networks \cup {NoNetwork} : NetworkStateChange(n)
    BY <2>1, <2>2, HandleNetworkGood DEF NetworkStateChange
  <2>3. CASE ScreenOff
    BY <2>3, SameChannels, UnchangedThread, StillGood DEF ScreenOff, holdVars, threadVars
  <2>4. CASE ScreenOn
    <3>1. UNCHANGED <<proc, evts>> BY <2>4 DEF ScreenOn
    <3>2. CASE Call("main", "resume")
      BY <2>1, <3>1, <3>2, CallPerforms, PerformStill, PerformThread, StillGood
    <3>3. CASE (\E r : Pause(r)) /\ UNCHANGED mgmt
      BY <3>1, <3>3, PauseStill, PauseThread, StillGood
    <3>4. CASE UNCHANGED <<cmds, threadVars>>
      BY <3>1, <3>4, SameChannels, UnchangedThread, StillGood DEF threadVars
    <3> QED BY <2>4, <3>2, <3>3, <3>4 DEF ScreenOn, PauseAfresh
  <2> QED BY <1>4, <2>2, <2>3, <2>4 DEF BroadcastStep
<1>5. CASE StartStep
  <2>1. CASE CreateReceiver
    BY <2>1, SameChannels, UnchangedThread, StillGood DEF CreateReceiver, holdVars, threadVars
  <2>2. CASE \E n \in Networks \cup {NoNetwork} : Register(n)
    BY <2>2, HandleNetworkGood DEF Register, MainFree, OthersRun
  <2> QED BY <1>5, <2>1, <2>2 DEF StartStep
<1>6. CASE UNCHANGED vars
  BY <1>6, SameChannels, UnchangedThread, StillGood DEF vars, holdVars, threadVars
<1> QED BY <1>1, <1>2, <1>3, <1>4, <1>5, <1>6 DEF Next

LEMMA GoodStep == ASSUME OneLooper PROVE TypeOK /\ Token /\ [Next]_vars => Good
BY ProcGood, ReleaseGood, MgmtGood, OthersGood

LEMMA InitToken == Init => Token
BY EmptyPending DEF Init, HoldInit, ThreadInit, Token, HoldToken, ThreadToken, Threads

LEMMA InitHandshake == Init => Handshake!Init
BY DEF Init, HoldInit, HoldPhase, Handshake!Init

-----------------------------------------------------------------------------
(* The theorems.                                                           *)

\* management_hold, handleHold, mResumeHoldRunnable, releaseHoldCmd and man_hold
\* pass one token around: with all calls on the main looper, every hold is
\* announced once and released once, whatever users, networks, screens and the
\* process's own restarts do in between.
THEOREM HandshakeImplemented ==
    ASSUME OneLooper PROVE Spec => ImplementsHandshake
<1>1. Init => Token /\ Handshake!Init BY InitToken, InitHandshake
<1>2. TypeOK /\ Token /\ [Next]_vars => Token' /\ [Handshake!Next]_HoldPhase
  BY GoodStep DEF Good
<1> QED BY <1>1, <1>2, TypeCorrect, PTL DEF Spec, ImplementsHandshake, Handshake!Spec

\* mWaitingForRelease says where the process is whenever nothing is under way.
THEOREM Agreement == ASSUME OneLooper PROVE Spec => []HoldAgreement
<1>1. Init => Token BY InitToken
<1>2. TypeOK /\ Token /\ [Next]_vars => Token'
  BY GoodStep DEF Good
<1>3. Token => HoldAgreement
  <2> SUFFICES ASSUME Token, Quiet PROVE waiting <=> proc = "hold"
    BY DEF HoldAgreement
  <2>1. ~Pending("release", cmds) /\ ~Pending("HOLD", evts)
    BY EmptyPending DEF Quiet
  <2> QED BY <2>1 DEF Token, HoldToken
<1> QED BY <1>1, <1>2, <1>3, TypeCorrect, PTL DEF Spec

-----------------------------------------------------------------------------
(* A pause holds, for every number of networks, every bound and every      *)
(* preference, wherever all calls are on the main looper.  What may undo   *)
(* it is in `undone`: networkChange(true), which releases a hold without   *)
(* asking, and a signal that is read in one recv() with a release.         *)

\* A signal follows every release that is still on its way.
SignalAfterRelease(q) ==
    \A i \in 1 .. Len(q) : q[i] = "release" =>
        \E j \in 1 .. Len(q) : i < j /\ q[j] = "usr1"

\* While the user has paused, nothing of the client is about to release, and
\* whatever already did is followed by the signal that takes it back.
PauseInv ==
    userpause = "DISCONNECTED" /\ ~undone =>
        /\ resumeTimers = 0
        /\ release["main"] = "none"
        /\ mgmt # "post"
        /\ proc \in {"released", "connecting", "running"} => Pending("usr1", cmds)
        /\ SignalAfterRelease(cmds)

-----------------------------------------------------------------------------
LEMMA NoReleaseSignal ==
    ASSUME NEW q, ~Pending("release", q) PROVE SignalAfterRelease(q)
BY DEF Pending, SignalAfterRelease

LEMMA AppendSignal ==
    ASSUME NEW q \in Seq(Commands) PROVE SignalAfterRelease(Append(q, "usr1"))
<1>1. "usr1" \in Commands BY DEF Commands
<1>2. /\ Len(Append(q, "usr1")) = Len(q) + 1
      /\ Append(q, "usr1")[Len(q) + 1] = "usr1"
      /\ Len(q) \in Nat
  BY <1>1
<1>3. \A i \in 1 .. Len(q) + 1 : i = Len(q) + 1 \/ i < Len(q) + 1
  BY <1>2
<1>4. Len(q) + 1 \in 1 .. Len(q) + 1
  BY <1>2
<1> QED BY <1>2, <1>3, <1>4 DEF SignalAfterRelease

\* A network change behind it does not take the signal away.
LEMMA AppendOther ==
    ASSUME NEW q \in Seq(Commands), NEW c \in Commands \ {"release"}, SignalAfterRelease(q)
    PROVE  SignalAfterRelease(Append(q, c))
<1>1. /\ Len(Append(q, c)) = Len(q) + 1
      /\ Append(q, c)[Len(q) + 1] = c
      /\ \A i \in 1 .. Len(q) : Append(q, c)[i] = q[i]
      /\ Len(q) \in Nat
  OBVIOUS
<1>2. \A i \in 1 .. Len(q) + 1 : i \in 1 .. Len(q) \/ i = Len(q) + 1
  BY <1>1
<1>3. \A i \in 1 .. Len(q) : i \in 1 .. Len(q) + 1
  BY <1>1
<1> QED BY <1>1, <1>2, <1>3 DEF SignalAfterRelease

LEMMA TailSignal ==
    ASSUME NEW q \in Seq(Commands), q # <<>>, SignalAfterRelease(q)
    PROVE  /\ SignalAfterRelease(Tail(q))
           /\ Head(q) = "release" => Pending("usr1", Tail(q))
<1>1. /\ Len(q) \in Nat \ {0}
      /\ Len(Tail(q)) = Len(q) - 1
      /\ Head(q) = q[1]
      /\ \A i \in 1 .. Len(q) - 1 : Tail(q)[i] = q[i + 1]
  BY EmptySeq, HeadTailProperties
<1>2. \A i \in 1 .. Len(q) - 1 : i + 1 \in 1 .. Len(q)
  BY <1>1
<1>3. \A i, j \in 1 .. Len(q) : i < j => j - 1 \in 1 .. Len(q) - 1 /\ (j - 1) + 1 = j
  BY <1>1
<1>4. SignalAfterRelease(Tail(q))
  <2> SUFFICES ASSUME NEW i \in 1 .. Len(q) - 1, Tail(q)[i] = "release"
               PROVE  \E j \in 1 .. Len(q) - 1 : i < j /\ Tail(q)[j] = "usr1"
    BY <1>1 DEF SignalAfterRelease
  <2>1. PICK j \in 1 .. Len(q) : i + 1 < j /\ q[j] = "usr1"
    BY <1>1, <1>2 DEF SignalAfterRelease
  <2>2. j - 1 \in 1 .. Len(q) - 1 /\ i < j - 1 /\ Tail(q)[j - 1] = "usr1"
    BY <1>1, <1>2, <1>3, <2>1
  <2> QED BY <2>2
<1>5. ASSUME Head(q) = "release" PROVE Pending("usr1", Tail(q))
  <2>1. PICK j \in 1 .. Len(q) : 1 < j /\ q[j] = "usr1"
    BY <1>1, <1>5 DEF SignalAfterRelease
  <2>2. j - 1 \in 1 .. Len(q) - 1 /\ Tail(q)[j - 1] = "usr1"
    BY <1>1, <2>1
  <2> QED BY <1>1, <2>2 DEF Pending
<1> QED BY <1>4, <1>5

-----------------------------------------------------------------------------
\* signalusr1, whoever asks for it, leaves nothing that could undo a pause.
LEMMA PauseEstablishes ==
    ASSUME TypeOK, Token, NEW r, Pause(r), proc' = proc,
           release["main"] = "none", mgmt' # "post"
    PROVE  PauseInv'
<1> USE DEF Token
<1>1. resumeTimers' = 0 /\ release'["main"] = "none"
  BY DEF Pause
<1>2. CASE waiting
  <2>1. proc = "hold" /\ ~Pending("release", cmds) /\ cmds' = cmds
    BY <1>2 DEF HoldToken, Pause
  <2> QED BY <1>1, <2>1, NoReleaseSignal DEF PauseInv
<1>3. CASE ~waiting /\ proc \in {"start", "exited"}
  <2>1. ~Pending("release", cmds) /\ cmds' = cmds
    BY <1>3 DEF HoldToken, Pause, Send
  <2> QED BY <1>1, <1>3, <2>1, NoReleaseSignal DEF PauseInv
<1>4. CASE ~waiting /\ proc \notin {"start", "exited"}
  <2>1. cmds' = Append(cmds, "usr1") /\ cmds \in Seq(Commands) /\ "usr1" \in Commands
    BY <1>4 DEF Pause, Send, TypeOK, HoldTypeOK, Commands
  <2>2. Pending("usr1", cmds') /\ SignalAfterRelease(cmds')
    BY <2>1, AppendPending, AppendSignal
  <2> QED BY <1>1, <2>2 DEF PauseInv
<1> QED BY <1>2, <1>3, <1>4

LEMMA ProcPause ==
    ASSUME OneLooper, TypeOK, Token, RestartHolds, PauseInv, ProcStep,
           userpause = "DISCONNECTED", ~undone, ~undone'
    PROVE  PauseInv'
<1>1. userpause' = userpause /\ resumeTimers' = 0 /\ release'["main"] = "none" /\ mgmt' # "post"
  BY DEF ProcStep, ProcLeaves, PauseInv, threadVars
<1>0. ~SignalDropped
  BY DEF ProcStep, ProcLeaves, SignalDropped, TypeOK, ReceiverTypeOK
<1> SUFFICES /\ proc' \in {"released", "connecting", "running"} => Pending("usr1", cmds')
             /\ SignalAfterRelease(cmds')
  BY <1>1 DEF PauseInv
<1> USE DEF PauseInv
<1>2. CASE ReadCommand
  <2>1. cmds \in Seq(Commands) /\ cmds # <<>> /\ cmds' = Tail(cmds)
    BY <1>2 DEF ReadCommand, TypeOK, HoldTypeOK
  <2>2. SignalAfterRelease(cmds')
    BY <2>1, TailSignal
  <2>3. proc \in {"hold", "running", "connecting", "released", "signalled"}
    BY <1>2 DEF ReadCommand
  <2>4. CASE Head(cmds) = "release"
    BY <2>1, <2>2, <2>4, TailSignal
  <2>5. CASE Head(cmds) = "usr1"
    BY <1>0, <1>2, <2>1, <2>2, <2>3, <2>5 DEF ReadCommand, ManSignalUsr1, SignalDropped
  <2>6. CASE Head(cmds) \in {"netsame", "netdiff"}
    <3>1. proc' \in {"released", "connecting", "running"} => proc' = proc
      BY <1>2, <2>3, <2>6 DEF ReadCommand, ManNetworkChange, ManSignalUsr1
    <3>2. Pending("usr1", cmds) => Pending("usr1", cmds')
      BY <2>1, <2>6, TailPending
    <3> QED BY <2>2, <3>1, <3>2
  <2> QED BY <1>2, <2>4, <2>5, <2>6 DEF ReadCommand
<1>3. CASE EnterHold
  BY <1>3 DEF EnterHold, RestartHolds
<1>4. CASE LeaveHold \/ InitDone \/ Restart \/ SelfSignal \/ SendByteCount
  BY <1>4 DEF LeaveHold, InitDone, Restart, SelfSignal, SendByteCount
<1>5. CASE HupExit
  BY <1>5, EmptyPending, NoReleaseSignal DEF HupExit
<1> QED BY <1>2, <1>3, <1>4, <1>5 DEF ProcStep, HoldNext

\* What a step leaves alone that touches neither the thread nor the channel.
LEMMA SamePause ==
    ASSUME PauseInv, UNCHANGED <<userpause, undone, threadVars, cmds, proc>> PROVE PauseInv'
BY DEF PauseInv, threadVars

LEMMA HandleNetworkPause ==
    ASSUME OneLooper, TypeOK, PauseInv, userpause = "DISCONNECTED", ~undone, ~undone',
           NEW n, HandleNetwork(n)
    PROVE  PauseInv'
<1>1. userpause' = userpause /\ proc' = proc
  BY DEF HandleNetwork
<1>2. CASE SameNetworkBack(n)
  <2>1. ~waiting /\ NetworkChange("main", TRUE)
    BY <1>2 DEF SameNetworkBack, Call, Perform, OneLooper, TypeOK, ThreadTypeOK, ReceiverTypeOK
  <2>2. UNCHANGED <<resumeTimers, release, mgmt>> /\ Send("netsame")
    BY <2>1 DEF NetworkChange
  <2>3. CASE UNCHANGED cmds
    BY <1>1, <2>2, <2>3 DEF PauseInv
  <2>4. CASE cmds' = Append(cmds, "netsame")
    <3>1. cmds \in Seq(Commands) /\ "netsame" \in Commands \ {"release"}
      BY DEF TypeOK, HoldTypeOK, Commands
    <3>2. /\ Pending("usr1", cmds) => Pending("usr1", cmds')
          /\ SignalAfterRelease(cmds) => SignalAfterRelease(cmds')
      BY <2>4, <3>1, AppendPending, AppendOther
    <3> QED BY <1>1, <2>2, <3>2 DEF PauseInv
  <2> QED BY <2>2, <2>3, <2>4 DEF Send
<1>3. CASE ~SameNetworkBack(n)
  <2>1. UNCHANGED <<undone, cmds, threadVars>>
    BY <1>3 DEF HandleNetwork, NetworkLost, OtherNetwork, WantedIn
  <2> QED BY <1>1, <2>1, SamePause
<1> QED BY <1>2, <1>3

LEMMA MgmtPause ==
    ASSUME TypeOK, Token, PauseInv, userpause = "DISCONNECTED", ~undone, MgmtStep
    PROVE  PauseInv'
<1>1. CASE ReceiveHold /\ UNCHANGED <<proc, holdRelease, receiverVars>>
  BY <1>1 DEF ReceiveHold, PauseInv, receiverVars
<1>2. CASE CheckHold(ShouldBeRunning) /\ UNCHANGED <<proc, holdRelease, receiverVars>>
  BY <1>2 DEF CheckHold, PauseInv, receiverVars, ShouldBeRunning, ShouldBeConnected, WantedIn
<1>3. CASE PostRelease /\ UNCHANGED <<proc, holdRelease, receiverVars>>
  BY <1>3 DEF PostRelease, PauseInv
<1>4. CASE ReceiveByteCount
  BY <1>4 DEF ReceiveByteCount, PauseInv, receiverVars
<1>5. CASE ByteCountPause
  BY <1>5, PauseEstablishes DEF ByteCountPause, PauseInv
<1> QED BY <1>1, <1>2, <1>3, <1>4, <1>5 DEF MgmtStep

\* A pause() on the main looper, whoever asks for it.
LEMMA AfreshPauses ==
    ASSUME TypeOK, Token, NEW r, PauseAfresh(r), proc' = proc, release["main"] = "none",
           mgmt' # "post"
    PROVE  PauseInv'
BY PauseEstablishes DEF PauseAfresh

LEMMA PauseStep ==
    ASSUME OneLooper, TypeOK, Token, RestartHolds, PauseInv, [Next]_vars
    PROVE  PauseInv'
<1> SUFFICES ASSUME userpause' = "DISCONNECTED", ~undone' PROVE PauseInv'
  BY DEF PauseInv
<1>1. CASE UserStep
  <2>1. UserPause("main")
    BY <1>1 DEF UserStep, UserPause, UserResume, MayCall, Threads, OneLooper
  <2>2. release["main"] = "none" /\ mgmt' # "post" /\ proc' = proc
    BY <2>1 DEF UserPause, MayCall, Free, OthersRun, OneLooper
  <2> QED BY <2>1, <2>2, AfreshPauses DEF UserPause
<1>2. CASE DelayDisconnect
  <2>1. release["main"] = "none" /\ mgmt = "idle" /\ mgmt' = mgmt /\ proc' = proc
        /\ userpause' = userpause
    BY <1>2 DEF DelayDisconnect, MainFree, Free, OthersRun, OneLooper
  <2>2. CASE network = "PENDINGDISCONNECT"
    BY <1>2, <2>1, <2>2, AfreshPauses DEF DelayDisconnect
  <2>3. CASE network # "PENDINGDISCONNECT"
    BY <1>2, <2>1, <2>3 DEF DelayDisconnect, PauseInv
  <2> QED BY <2>2, <2>3
<1>3. CASE ScreenOn
  <2>1. release["main"] = "none" /\ mgmt = "idle" /\ proc' = proc /\ userpause' = userpause
    BY <1>3 DEF ScreenOn, MainFree, Free, OthersRun, OneLooper
  <2>2. PICK r : PauseAfresh(r) /\ UNCHANGED mgmt
    BY <1>3, <2>1 DEF ScreenOn, ShouldBeConnected, WantedIn
  <2> QED BY <2>1, <2>2, AfreshPauses
<1>4. CASE ~UserStep /\ ~DelayDisconnect /\ ~ScreenOn /\ userpause = "DISCONNECTED" /\ ~undone
  <2>1. CASE ProcStep
    BY <1>4, <2>1, ProcPause
  <2>2. CASE ReleaseStep
    <3>1. FinishRelease("main") /\ release["main"] # "none"
      BY <2>2 DEF ReleaseStep, Releases, FinishRelease, MakeCall, Token, ThreadToken, Threads
    <3> QED BY <1>4, <3>1 DEF PauseInv
  <2>3. CASE MgmtStep
    BY <1>4, <2>3, MgmtPause
  <2>4. CASE ResumeStep
    BY <1>4, <2>4 DEF ResumeStep, ResumeHold, PauseInv
  <2>5. CASE BroadcastStep
    <3>1. CASE \E n \in Networks \cup {NoNetwork} : NetworkStateChange(n)
      BY <1>4, <3>1, HandleNetworkPause DEF NetworkStateChange
    <3>2. CASE ScreenOff
      BY <3>2, SamePause DEF ScreenOff, holdVars
    <3> QED BY <1>4, <2>5, <3>1, <3>2 DEF BroadcastStep
  <2>6. CASE StartStep
    <3>1. CASE CreateReceiver
      BY <3>1, SamePause DEF CreateReceiver, holdVars
    <3>2. CASE \E n \in Networks \cup {NoNetwork} : Register(n)
      BY <1>4, <3>2, HandleNetworkPause DEF Register
    <3> QED BY <2>6, <3>1, <3>2 DEF StartStep
  <2>7. CASE UNCHANGED vars
    BY <2>7, SamePause DEF vars, holdVars, receiverVars
  <2> QED BY <1>4, <2>1, <2>2, <2>3, <2>4, <2>5, <2>6, <2>7 DEF Next
<1>5. CASE ~UserStep /\ ~DelayDisconnect /\ ~ScreenOn /\ ~(userpause = "DISCONNECTED" /\ ~undone)
  <2>1. userpause' = userpause
    BY <1>5 DEF Next, ProcStep, ProcLeaves, ReleaseStep, Releases, MgmtStep, ResumeStep, BroadcastStep,
                StartStep, ReceiveByteCount, ByteCountPause, NetworkStateChange, HandleNetwork,
                ScreenOff, CreateReceiver, Register, receiverVars, vars
  <2>2. undone => undone'
    BY <1>5 DEF Next, ProcStep, ProcLeaves, ReleaseStep, Releases, MgmtStep, ResumeStep, BroadcastStep,
                StartStep, ReceiveByteCount, ByteCountPause, NetworkStateChange, HandleNetwork,
                NetworkLost, SameNetworkBack, OtherNetwork, ScreenOff, CreateReceiver, Register,
                receiverVars, vars
  <2> QED BY <1>5, <2>1, <2>2
<1> QED BY <1>1, <1>2, <1>3, <1>4, <1>5

-----------------------------------------------------------------------------
\* userPause(true) takes effect and stays in effect until userPause(false), with every
\* preference and whatever a recv() returns: in no reachable state with nothing under
\* way is the tunnel of a paused VPN up, unless networkChange(true) has released its
\* hold or man_read has ignored its signal since the last pause().
THEOREM UserPauseHolds ==
    ASSUME OneLooper PROVE Spec => []UserPauseEffective
<1>1. Init => Token /\ RestartHolds /\ PauseInv
  BY InitToken DEF Init, HoldInit, ReceiverInit, RestartHolds, PauseInv
<1>2. TypeOK /\ Token /\ [Next]_vars => Token'
  BY GoodStep DEF Good
<1>3. TypeOK /\ Token /\ RestartHolds /\ PauseInv /\ [Next]_vars => PauseInv'
  BY PauseStep
<1>4. PauseInv => UserPauseEffective
  <2> SUFFICES ASSUME PauseInv, Quiet, userpause = "DISCONNECTED", ~undone PROVE proc = "hold"
    BY DEF UserPauseEffective
  <2> QED BY EmptyPending DEF PauseInv, Quiet
<1> QED BY <1>1, <1>2, <1>3, <1>4, TypeCorrect, RestartAsksAgain, PTL DEF Spec
=============================================================================
