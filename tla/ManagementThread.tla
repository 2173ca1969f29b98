-------------------------- MODULE ManagementThread --------------------------
(***************************************************************************)
(* The client end of the management socket: the hold and release logic of  *)
(* OpenVpnManagementThread.java.  Its methods run on three threads: its    *)
(* own ("mgmt", which reads the socket), the main looper of the service    *)
(* process ("main", broadcasts and posted runnables) and a binder thread   *)
(* of the same process ("binder", IOpenVPNServiceInternal and the external *)
(* API).  None of its fields is guarded by a lock.                         *)
(***************************************************************************)
EXTENDS ManagementHold

CONSTANTS
    Preempt,            \* another thread may run inside a handler of the mgmt thread
    MaxTimers           \* bound: mResumeHoldRunnable posts outstanding

ASSUME ThreadAssumption == Preempt \in BOOLEAN /\ MaxTimers \in Nat \ {0}

VARIABLES
    waiting,            \* mWaitingForRelease
    resumeTimers,       \* posted and not yet run mResumeHoldRunnable
    lastPauseReason,    \* lastPauseReason, what updateStatePause shows
    release,            \* per thread: inside releaseHoldCmd, in its sleep, or not
    mgmt,               \* what the mgmt thread is in the middle of
    call                \* per thread: what it has made up its mind to do and not done

threadVars == <<waiting, resumeTimers, lastPauseReason, release, mgmt, call>>

Threads == {"main", "binder"}
PauseReasons == {"noNetwork", "userPause", "screenOff"}

\* releaseHoldCmd, resume, networkChange(true), networkChange(false), and the
\* "hold release" line of a releaseHoldCmd whose flag is reset already
Calls == {"none", "release", "resume", "same", "diff", "write"}

ThreadTypeOK ==
    /\ waiting \in BOOLEAN
    /\ resumeTimers \in Nat
    /\ lastPauseReason \in PauseReasons
    /\ release \in [Threads -> {"none", "cmd", "resume"}]
    /\ mgmt \in {"idle", "hold", "post", "bytes"}
    /\ call \in [Threads -> Calls]

ThreadInit ==
    /\ waiting = FALSE
    /\ resumeTimers = 0
    /\ lastPauseReason = "noNetwork"
    /\ release = [t \in Threads |-> "none"]
    /\ mgmt = "idle"
    /\ call = [t \in Threads |-> "none"]

\* Whether the main and binder threads can run now.
OthersRun == Preempt \/ mgmt = "idle"

\* Thread t is between two handlers.
Free(t) == release[t] = "none" /\ call[t] = "none"

-----------------------------------------------------------------------------
(* managmentCommand: dropped while there is no socket, or no process.      *)
Send(c) ==
    IF proc \in {"start", "exited"}
    THEN UNCHANGED cmds
    ELSE cmds' = Append(cmds, c)

CanSend == Len(cmds) < MaxCmds

\* fault: the posted runnables stay
BeginReleaseKeepsTimer(t, kind) ==
    /\ release' = [release EXCEPT ![t] = kind]
    /\ UNCHANGED resumeTimers

\* releaseHoldCmd up to its Thread.sleep: every posted runnable is removed.  kind
\* says whether resume() is the caller, which has one more assignment to make.
BeginRelease(t, kind) ==
    /\ resumeTimers' = 0
    /\ release' = [release EXCEPT ![t] = kind]

\* The end of releaseHoldCmd: the line goes out; resume() then resets the reason.
WriteRelease(t) ==
    /\ Send("release")
    /\ release' = [release EXCEPT ![t] = "none"]
    /\ lastPauseReason' = IF release[t] = "resume" THEN "noNetwork" ELSE lastPauseReason

\* resume(): releaseHold, then the reason is reset.
Resume(t) ==
    /\ IF waiting
       THEN BeginRelease(t, "resume") /\ UNCHANGED lastPauseReason
       ELSE lastPauseReason' = "noNetwork" /\ UNCHANGED <<resumeTimers, release>>
    /\ UNCHANGED <<waiting, cmds, mgmt>>

\* networkChange(samenetwork).
NetworkChange(t, same) ==
    /\ IF waiting
       THEN BeginRelease(t, "cmd") /\ UNCHANGED cmds
       ELSE /\ Send(IF same THEN "netsame" ELSE "netdiff")
            /\ UNCHANGED <<resumeTimers, release>>
    /\ UNCHANGED <<waiting, lastPauseReason, mgmt>>

\* pause(reason): signalusr1 removes the posted runnable and sends the signal
\* unless the thread believes that the process is in its hold.
Pause(reason) ==
    /\ lastPauseReason' = reason
    /\ resumeTimers' = 0
    /\ IF waiting THEN UNCHANGED cmds ELSE Send("usr1")
    /\ UNCHANGED <<waiting, release, call>>

\* What a thread does once it has made up its mind.
Perform(t, c) ==
    \/ c = "release" /\ BeginRelease(t, "cmd") /\ UNCHANGED <<waiting, lastPauseReason, cmds, mgmt>>
    \/ c = "resume" /\ Resume(t)
    \/ c \in {"same", "diff"} /\ NetworkChange(t, c = "same")

\* Between the test that leads to a call and the call another thread may run.
Call(t, c) ==
    IF Preempt
    THEN /\ call' = [call EXCEPT ![t] = c]
         /\ UNCHANGED <<cmds, waiting, resumeTimers, lastPauseReason, release, mgmt>>
    ELSE Perform(t, c) /\ UNCHANGED call

\* The call that was decided on, whatever has happened since.
MakeCall(t) ==
    /\ call[t] # "none"
    /\ call' = [call EXCEPT ![t] = "none"]
    /\ \/ Perform(t, call[t])
       \/ call[t] = "write" /\ WriteRelease(t) /\ UNCHANGED <<waiting, resumeTimers, mgmt>>

\* fault: the flag is not reset
FinishReleaseStillWaiting(t) ==
    /\ release[t] # "none"
    /\ call[t] = "none"
    /\ OthersRun
    /\ IF Preempt
       THEN call' = [call EXCEPT ![t] = "write"] /\ UNCHANGED <<cmds, release, lastPauseReason>>
       ELSE WriteRelease(t) /\ UNCHANGED call
    /\ UNCHANGED <<waiting, resumeTimers, mgmt>>

\* The rest of releaseHoldCmd, up to 3 s later: the flag is reset, the line written.
FinishRelease(t) ==
    /\ release[t] # "none"
    /\ call[t] = "none"
    /\ OthersRun
    /\ waiting' = FALSE
    /\ IF Preempt
       THEN call' = [call EXCEPT ![t] = "write"] /\ UNCHANGED <<cmds, release, lastPauseReason>>
       ELSE WriteRelease(t) /\ UNCHANGED call
    /\ UNCHANGED <<resumeTimers, mgmt>>

-----------------------------------------------------------------------------
(* The mgmt thread.                                                        *)

\* processCommand, ">HOLD:": handleHold sets the flag ...
ReceiveHold ==
    /\ mgmt = "idle"
    /\ evts # <<>>
    /\ Head(evts) = "HOLD"
    /\ resumeTimers < MaxTimers
    /\ evts' = Tail(evts)
    /\ waiting' = TRUE
    /\ mgmt' = "hold"
    /\ UNCHANGED <<cmds, resumeTimers, lastPauseReason, release, call>>

\* ... asks the pause callback (updateStatePause if it says no) ...
CheckHold(shouldBeRunning) ==
    /\ mgmt = "hold"
    /\ mgmt' = IF shouldBeRunning THEN "post" ELSE "idle"
    /\ UNCHANGED <<cmds, evts, waiting, resumeTimers, lastPauseReason, release, call>>

\* ... and posts the release, after the wait the process asked for.
PostRelease ==
    /\ mgmt = "post"
    /\ resumeTimers' = resumeTimers + 1
    /\ mgmt' = "idle"
    /\ UNCHANGED <<cmds, evts, waiting, lastPauseReason, release, call>>

\* fault: removing the posted runnable does not keep it from running
ResumeHoldRemoved(shouldBeRunning) ==
    /\ Free("main")
    /\ OthersRun
    /\ IF shouldBeRunning /\ ~Preempt
       THEN Perform("main", "release") /\ UNCHANGED call
       ELSE /\ resumeTimers' = resumeTimers - 1
            /\ call' = IF shouldBeRunning THEN [call EXCEPT !["main"] = "release"] ELSE call
            /\ UNCHANGED <<cmds, waiting, lastPauseReason, release, mgmt>>
    /\ UNCHANGED evts

\* mResumeHoldRunnable on the main looper: the test, and the release it leads to.
ResumeHold(shouldBeRunning) ==
    /\ resumeTimers > 0
    /\ Free("main")
    /\ OthersRun
    /\ IF shouldBeRunning /\ ~Preempt
       THEN Perform("main", "release") /\ UNCHANGED call
       ELSE /\ resumeTimers' = resumeTimers - 1
            /\ call' = IF shouldBeRunning THEN [call EXCEPT !["main"] = "release"] ELSE call
            /\ UNCHANGED <<cmds, waiting, lastPauseReason, release, mgmt>>
    /\ UNCHANGED evts
=============================================================================
