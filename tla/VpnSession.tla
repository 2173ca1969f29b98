------------------------------ MODULE VpnSession ------------------------------
(***************************************************************************)
(* The lifecycle of VPN sessions in OpenVPNService: starting, replacing,   *)
(* stopping and revoking them, and what the end of a process thread does   *)
(* to the service.  Each session has an openvpn process, an OpenVPNThread  *)
(* that reads its output, and an OpenVpnManagementThread that owns the     *)
(* server end of its management socket.                                    *)
(*                                                                         *)
(* Threads: the main looper, the command thread of the service (startOpen- *)
(* VPN and the stop that onRevoke posts), one process thread and one       *)
(* management thread per session, and binder threads (stopVPN).  The       *)
(* service stays bound by ExternalOpenVPNService: onDestroy is not part of *)
(* the module.                                                             *)
(***************************************************************************)
EXTENDS Naturals, Sequences, FiniteSets

CONSTANTS
    MaxSessions,    \* bound: starts of the VPN
    MaxTasks,       \* bound: tasks queued for the command thread
    Environments,   \* the values `hurry` may have
    AlwaysVisible   \* mNotificationAlwaysVisible, which an intent may set for good

ASSUME SessionAssumption ==
    /\ MaxSessions \in Nat \ {0}
    /\ MaxTasks \in Nat \ {0}
    /\ Environments \subseteq BOOLEAN
    /\ AlwaysVisible \in BOOLEAN

Sessions == 1 .. MaxSessions

\* Who may run endVpnService: the process thread of a session, and two more.
CommandThread == 0
MainThread    == MaxSessions + 1
Actors        == Sessions \cup {CommandThread, MainThread}

VARIABLES
    hurry,      \* the sleeps may be too short, and starts come at any time
    starts,     \* how often a start was asked for
    tasks,      \* queue of mCommandHandler: start ids, and StopTask
    cmd,        \* where startOpenVPN is
    session,    \* the newest session startOpenVPN has begun
    posted,     \* registrations posted to guiHandler, with the receiver they replace
    mStarting, mManagement, mProcessThread, mDeviceStateReceiver,
    registered, \* receivers registered with Android
    profileSet, \* a connected profile is noted in the preferences
    selfStopped,\* stopSelf was called and no start came since
    ending,     \* per actor: where it is in endVpnService
    active,     \* OpenVpnManagementThread.active
    mgmt,       \* per session: its management thread
    path,       \* whose server socket the path of the management socket leads to
    listening,  \* server sockets not yet closed
    proc,       \* per session: its process
    conn,       \* per session: whose server socket the process has connected to
    interrupted \* process threads with a pending interrupt

serviceVars == <<mStarting, mManagement, mProcessThread, mDeviceStateReceiver, registered,
                 profileSet, selfStopped>>
queueVars   == <<starts, tasks, cmd, session, posted>>
socketVars  == <<active, mgmt, path, listening>>
procVars    == <<proc, conn, interrupted>>
vars        == <<hurry, queueVars, serviceVars, ending, socketVars, procVars>>

NoSession == 0
StopTask  == 0
Live      == {s \in Sessions : proc[s] \notin {"none", "exited"}}

\* The ranges; and a thread that ends the service has read the output of its process to
\* the end, or has destroyed it.
TypeOK ==
    /\ hurry \in BOOLEAN
    /\ starts \in 0 .. MaxSessions /\ session \in 0 .. MaxSessions
    /\ tasks \in Seq({StopTask} \cup Sessions)
    /\ cmd \in {"idle", "sleep", "force", "forceSleep", "sleptOut", "open", "launch",
                "config", "post", "failed"}
    /\ posted \in Seq([old : {NoSession} \cup Sessions, new : Sessions])
    /\ mStarting \in BOOLEAN
    /\ mManagement \in {NoSession} \cup Sessions
    /\ mProcessThread \in {NoSession} \cup Sessions
    /\ mDeviceStateReceiver \in {NoSession} \cup Sessions
    /\ registered \subseteq Sessions
    /\ profileSet \in BOOLEAN /\ selfStopped \in BOOLEAN
    /\ ending \in [Actors -> {"no", "lock", "unregister", "forget", "service", "done"}]
    /\ active \in Seq(Sessions)
    /\ mgmt \in [Sessions -> {"none", "created", "accepting", "connected", "closed", "ended"}]
    /\ path \in {NoSession} \cup Sessions
    /\ listening \subseteq Sessions
    /\ proc \in [Sessions -> {"none", "launched", "configured", "queued", "up", "quitting",
                              "exited"}]
    /\ conn \in [Sessions -> {NoSession} \cup Sessions]
    /\ interrupted \subseteq Sessions
    /\ \A s \in Sessions : ending[s] # "no" => proc[s] \in {"quitting", "exited"}

Init ==
    /\ hurry \in Environments
    /\ starts = 0 /\ tasks = <<>> /\ cmd = "idle" /\ session = NoSession /\ posted = <<>>
    /\ mStarting = FALSE
    /\ mManagement = NoSession /\ mProcessThread = NoSession /\ mDeviceStateReceiver = NoSession
    /\ registered = {}
    /\ profileSet = FALSE /\ selfStopped = FALSE
    /\ ending = [a \in Actors |-> "no"]
    /\ active = <<>>
    /\ mgmt = [s \in Sessions |-> "none"]
    /\ path = NoSession /\ listening = {}
    /\ proc = [s \in Sessions |-> "none"]
    /\ conn = [s \in Sessions |-> NoSession]
    /\ interrupted = {}

-----------------------------------------------------------------------------
(* Stopping: OpenVpnManagementThread.stopOpenVPN.                          *)

NobodyEnds == \A a \in Actors : ending[a] \in {"no", "done"}

\* Nothing of a start or an end is left to do.
Settled == tasks = <<>> /\ cmd = "idle" /\ posted = <<>> /\ NobodyEnds

\* A management thread can write "signal SIGINT": accepted, and its process lives.
CanSend(m) ==
    mgmt[m] = "connected" /\ \E p \in Sessions : proc[p] = "up" /\ conn[p] = m

\* What stopOpenVPN answers: the result of the last thread of the list.
LastSent == active # <<>> /\ CanSend(active[Len(active)])

\* Every thread of the list writes its signal and closes its socket.
StopActive ==
    /\ mgmt' = [m \in Sessions |->
                  IF mgmt[m] = "connected" /\ \E i \in 1 .. Len(active) : active[i] = m
                  THEN "closed" ELSE mgmt[m]]
    /\ UNCHANGED <<active, path, listening>>

\* stopVPN over binder.
StopVPN ==
    /\ mManagement # NoSession
    /\ StopActive
    /\ UNCHANGED <<hurry, queueVars, serviceVars, ending, procVars>>

\* onRevoke on the main looper: the permission of an established VPN is withdrawn.
OnRevoke ==
    /\ ending[MainThread] = "no"
    /\ Len(tasks) < MaxTasks
    /\ hurry \/ Settled
    /\ \E s \in Sessions : proc[s] = "up"
    /\ tasks' = Append(tasks, StopTask)
    /\ ending' = [ending EXCEPT ![MainThread] = "lock"]
    /\ UNCHANGED <<hurry, starts, cmd, session, posted, serviceVars, socketVars, procVars>>

RunStop ==
    /\ cmd = "idle" /\ tasks # <<>> /\ Head(tasks) = StopTask
    /\ tasks' = Tail(tasks)
    /\ StopActive
    /\ UNCHANGED <<hurry, starts, cmd, session, posted, serviceVars, ending, procVars>>

-----------------------------------------------------------------------------
(* Starting: onStartCommand and startOpenVPN.                              *)

Ended(s) == proc[s] = "none" \/ ending[s] = "done"

IsUp(s) == proc[s] = "up" /\ mgmt[conn[s]] = "connected"

OnStartCommand ==
    /\ starts < MaxSessions
    /\ ending[MainThread] = "no"
    /\ Len(tasks) < MaxTasks
    /\ hurry \/ (Settled /\ \A s \in Sessions : Ended(s) \/ (s = session /\ IsUp(s)))
    /\ starts' = starts + 1
    /\ selfStopped' = FALSE
    /\ tasks' = Append(tasks, starts + 1)
    /\ UNCHANGED <<hurry, cmd, session, posted, ending, socketVars, procVars>>
    /\ UNCHANGED <<mStarting, mManagement, mProcessThread, mDeviceStateReceiver, registered,
                   profileSet>>

\* fault: the service is not told that a new session follows
BeginStartUnmarked ==
    /\ cmd = "idle" /\ tasks # <<>> /\ Head(tasks) # StopTask
    /\ tasks' = Tail(tasks)
    /\ session' = Head(tasks)
    /\ profileSet' = TRUE
    /\ IF mManagement # NoSession
       THEN StopActive /\ cmd' = IF LastSent THEN "sleep" ELSE "force"
       ELSE UNCHANGED socketVars /\ cmd' = "force"
    /\ UNCHANGED <<hurry, starts, posted, ending, procVars>>
    /\ UNCHANGED <<mStarting, mManagement, mProcessThread, mDeviceStateReceiver, registered,
                   selfStopped>>

\* startOpenVPN up to the first sleep of stopOldOpenVPNProcess.  mOpenVPNThread is
\* null whenever it looks: no thread is told that it is being replaced.
BeginStart ==
    /\ cmd = "idle" /\ tasks # <<>> /\ Head(tasks) # StopTask
    /\ tasks' = Tail(tasks)
    /\ session' = Head(tasks)
    /\ profileSet' = TRUE
    /\ mStarting' = TRUE
    /\ IF mManagement # NoSession
       THEN StopActive /\ cmd' = IF LastSent THEN "sleep" ELSE "force"
       ELSE UNCHANGED socketVars /\ cmd' = "force"
    /\ UNCHANGED <<hurry, starts, posted, ending, procVars>>
    /\ UNCHANGED <<mManagement, mProcessThread, mDeviceStateReceiver, registered, selfStopped>>

SleepOver ==
    /\ cmd = "sleep"
    /\ cmd' = "force"
    /\ UNCHANGED <<hurry, starts, tasks, session, posted, serviceVars, ending, socketVars, procVars>>

\* forceStopOpenVpnProcess: the interrupt, and a second with mProcessLock held.
ForceStop ==
    /\ cmd = "force"
    /\ IF mProcessThread # NoSession
       THEN /\ interrupted' = IF ending[mProcessThread] # "no" THEN interrupted
                              ELSE interrupted \cup {mProcessThread}
            /\ cmd' = "forceSleep"
       ELSE UNCHANGED interrupted /\ cmd' = "sleptOut"
    /\ UNCHANGED <<hurry, starts, tasks, session, posted, serviceVars, ending, socketVars>>
    /\ UNCHANGED <<proc, conn>>

ForceOver ==
    /\ cmd = "forceSleep"
    /\ cmd' = "sleptOut"
    /\ UNCHANGED <<hurry, starts, tasks, session, posted, serviceVars, ending, socketVars, procVars>>

\* "An old running VPN should now be exited": it is, unless somebody hurries.
OldStopped ==
    /\ cmd = "sleptOut"
    /\ hurry \/ \A s \in Sessions : Ended(s)
    /\ mStarting' = FALSE
    /\ cmd' = "open"
    /\ UNCHANGED <<hurry, starts, tasks, session, posted, ending, socketVars, procVars>>
    /\ UNCHANGED <<mManagement, mProcessThread, mDeviceStateReceiver, registered, profileSet,
                   selfStopped>>

\* fault: a management interface that cannot be opened leaves the service as it is
GiveUpSilently ==
    /\ cmd' = "idle"
    /\ UNCHANGED ending

\* endVpnService on the command thread, then the early return.
GiveUpStart ==
    /\ cmd' = "failed"
    /\ ending' = [ending EXCEPT ![CommandThread] = "lock"]

\* openManagementInterface: binding takes the path over from an older session.
OpenManagement ==
    /\ cmd = "open"
    /\ \/ /\ path' = session
          /\ listening' = listening \cup {session}
          /\ mgmt' = [mgmt EXCEPT ![session] = "created"]
          /\ mManagement' = session
          /\ cmd' = "launch"
          /\ UNCHANGED <<active, ending>>
       \/ GiveUpStart /\ UNCHANGED <<socketVars, mManagement>>
    /\ UNCHANGED <<hurry, starts, tasks, session, posted, procVars>>
    /\ UNCHANGED <<mStarting, mProcessThread, mDeviceStateReceiver, registered, profileSet,
                   selfStopped>>

\* The process thread is created and starts the process.
Launch ==
    /\ cmd = "launch"
    /\ mProcessThread' = session
    /\ proc' = [proc EXCEPT ![session] = "launched"]
    /\ cmd' = "config"
    /\ UNCHANGED <<hurry, starts, tasks, session, posted, ending, socketVars, conn, interrupted>>
    /\ UNCHANGED <<mStarting, mManagement, mDeviceStateReceiver, registered, profileSet,
                   selfStopped>>

\* writeConfigFileOutput: an IOException if the process is gone already.
WriteConfig ==
    /\ cmd = "config"
    /\ IF proc[session] = "launched"
       THEN /\ proc' = [proc EXCEPT ![session] = "configured"]
            /\ cmd' = "post"
            /\ UNCHANGED ending
       ELSE GiveUpStart /\ UNCHANGED proc
    /\ UNCHANGED <<hurry, starts, tasks, session, posted, serviceVars, socketVars, conn,
                   interrupted>>

\* The new receiver is posted to the main looper together with the one it replaces.
PostReceiver ==
    /\ cmd = "post"
    /\ posted' = Append(posted, [old |-> mDeviceStateReceiver, new |-> session])
    /\ cmd' = "idle"
    /\ UNCHANGED <<hurry, starts, tasks, session, serviceVars, ending, socketVars, procVars>>

\* unregisterDeviceStateReceiver looks at the field, not at its argument.  At leisure
\* it does not fall between two statements of an endVpnService (see EndForget).
RunPosted ==
    /\ posted # <<>>
    /\ ending[MainThread] = "no"
    /\ hurry \/ \A a \in Actors : ending[a] # "forget"
    /\ posted' = Tail(posted)
    /\ LET old  == Head(posted).old
           kept == IF old # NoSession /\ mDeviceStateReceiver # NoSession
                   THEN registered \ {old} ELSE registered
       IN  registered' = kept \cup {Head(posted).new}
    /\ mDeviceStateReceiver' = Head(posted).new
    /\ UNCHANGED <<hurry, starts, tasks, cmd, session, ending, socketVars, procVars>>
    /\ UNCHANGED <<mStarting, mManagement, mProcessThread, profileSet, selfStopped>>

-----------------------------------------------------------------------------
(* Ending: OpenVPNThread.run's finally, openvpnStopped and endVpnService.  *)

\* The output of the process has ended and waitFor returns, or throws because the thread
\* is interrupted while the process is still quitting: NOPROCESS, then endVpnService.
ThreadEnds(s) ==
    /\ proc[s] = "exited" \/ (proc[s] = "quitting" /\ s \in interrupted)
    /\ ending[s] = "no"
    /\ hurry \/ tasks = <<>>
    /\ ending' = [ending EXCEPT ![s] = "lock"]
    /\ interrupted' = interrupted \ {s}
    /\ UNCHANGED <<hurry, queueVars, serviceVars, socketVars, proc, conn>>

\* mProcessThread is forgotten under mProcessLock, whosever it is.
EndLock(a) ==
    /\ ending[a] = "lock"
    /\ cmd # "forceSleep"
    /\ mProcessThread' = NoSession
    /\ ending' = [ending EXCEPT ![a] = "unregister"]
    /\ UNCHANGED <<hurry, queueVars, socketVars, procVars>>
    /\ UNCHANGED <<mStarting, mManagement, mDeviceStateReceiver, registered, profileSet,
                   selfStopped>>

EndUnregister(a) ==
    /\ ending[a] = "unregister"
    /\ registered' = registered \ {mDeviceStateReceiver}
    /\ ending' = [ending EXCEPT ![a] = "forget"]
    /\ UNCHANGED <<hurry, queueVars, socketVars, procVars>>
    /\ UNCHANGED <<mStarting, mManagement, mProcessThread, mDeviceStateReceiver, profileSet,
                   selfStopped>>

EndForget(a) ==
    /\ ending[a] = "forget"
    /\ mDeviceStateReceiver' = NoSession
    /\ ending' = [ending EXCEPT ![a] = "service"]
    /\ UNCHANGED <<hurry, queueVars, socketVars, procVars>>
    /\ UNCHANGED <<mStarting, mManagement, mProcessThread, registered, profileSet, selfStopped>>

\* The connected profile is cleared, and the service stops unless it is starting or its
\* notification stays.
EndService(a) ==
    /\ ending[a] = "service"
    /\ profileSet' = FALSE
    /\ selfStopped' = (selfStopped \/ ~(mStarting \/ AlwaysVisible))
    /\ ending' = [ending EXCEPT ![a] = IF a \in Sessions THEN "done" ELSE "no"]
    /\ cmd' = IF a = CommandThread THEN "idle" ELSE cmd
    /\ UNCHANGED <<hurry, starts, tasks, session, posted, socketVars, procVars>>
    /\ UNCHANGED <<mStarting, mManagement, mProcessThread, mDeviceStateReceiver, registered>>

EndVpnService(a) == EndLock(a) \/ EndUnregister(a) \/ EndForget(a) \/ EndService(a)

-----------------------------------------------------------------------------
(* The management thread: OpenVpnManagementThread.run.                     *)

MgmtRuns(m) ==
    /\ mgmt[m] = "created"
    /\ mgmt' = [mgmt EXCEPT ![m] = "accepting"]
    /\ active' = Append(active, m)
    /\ UNCHANGED <<hurry, queueVars, serviceVars, ending, path, listening, procVars>>

\* One process is accepted, then the server socket is closed.
Accept(m) ==
    /\ mgmt[m] = "accepting"
    /\ \E p \in Sessions :
         /\ proc[p] = "queued" /\ conn[p] = m
         /\ proc' = [proc EXCEPT ![p] = "up"]
    /\ mgmt' = [mgmt EXCEPT ![m] = "connected"]
    /\ listening' = listening \ {m}
    /\ UNCHANGED <<hurry, queueVars, serviceVars, ending, active, path, conn, interrupted>>

\* The socket has ended: by an exception the thread leaves the list, by an end of
\* file (read returns -1) it does not.
MgmtEnds(m) ==
    /\ mgmt[m] \in {"connected", "closed"}
    /\ mgmt[m] = "closed" \/ ~CanSend(m)
    /\ mgmt' = [mgmt EXCEPT ![m] = "ended"]
    /\ \/ UNCHANGED active
       \/ \E i \in 1 .. Len(active) :
            /\ active[i] = m
            /\ active' = SubSeq(active, 1, i - 1) \o SubSeq(active, i + 1, Len(active))
    /\ UNCHANGED <<hurry, queueVars, serviceVars, ending, path, listening, procVars>>

-----------------------------------------------------------------------------
(* The process.                                                            *)

\* man_connect: whoever owns the path now, or the end (management-connect-failed).
ProcConnect(s) ==
    /\ proc[s] = "configured"
    /\ IF path \in listening
       THEN proc' = [proc EXCEPT ![s] = "queued"] /\ conn' = [conn EXCEPT ![s] = path]
       ELSE proc' = [proc EXCEPT ![s] = "quitting"] /\ UNCHANGED conn
    /\ UNCHANGED <<hurry, queueVars, serviceVars, ending, socketVars, interrupted>>

\* fault: a process that is connected does not notice that its socket was closed
ProcToldQueuedOnly(s) ==
    /\ proc[s] = "queued" /\ conn[s] \notin listening
    /\ proc' = [proc EXCEPT ![s] = "quitting"]
    /\ UNCHANGED <<hurry, queueVars, serviceVars, ending, socketVars, conn, interrupted>>

\* SIGINT is read, or the other end is closed (management-exit).
ProcTold(s) ==
    /\ \/ proc[s] = "up" /\ mgmt[conn[s]] \in {"closed", "ended"}
       \/ proc[s] = "queued" /\ conn[s] \notin listening
    /\ proc' = [proc EXCEPT ![s] = "quitting"]
    /\ UNCHANGED <<hurry, queueVars, serviceVars, ending, socketVars, conn, interrupted>>

\* After a line of output the process thread notices its interrupt: destroy(), and it
\* waits for the exit.
LogLine(s) ==
    /\ s \in interrupted /\ s \in Live
    /\ interrupted' = interrupted \ {s}
    /\ proc' = [proc EXCEPT ![s] = "quitting"]
    /\ UNCHANGED <<hurry, queueVars, serviceVars, ending, socketVars, conn>>

\* Any process may quit on its own.
ProcQuits(s) ==
    /\ s \in Live /\ proc[s] # "quitting"
    /\ proc' = [proc EXCEPT ![s] = "quitting"]
    /\ UNCHANGED <<hurry, queueVars, serviceVars, ending, socketVars, conn, interrupted>>

\* Once it has exited, an interrupt no longer matters to its thread.
ProcExit(s) ==
    /\ proc[s] = "quitting"
    /\ proc' = [proc EXCEPT ![s] = "exited"]
    /\ interrupted' = interrupted \ {s}
    /\ UNCHANGED <<hurry, queueVars, serviceVars, ending, socketVars, conn>>

-----------------------------------------------------------------------------
CommandStep ==
    \/ RunStop \/ BeginStart \/ SleepOver \/ ForceStop \/ ForceOver \/ OldStopped
    \/ OpenManagement \/ Launch \/ WriteConfig \/ PostReceiver

ThreadStep(s) ==
    ThreadEnds(s) \/ MgmtRuns(s) \/ Accept(s) \/ MgmtEnds(s) \/ ProcConnect(s) \/ ProcTold(s)

Next ==
    \/ StopVPN \/ OnRevoke \/ OnStartCommand
    \/ CommandStep \/ RunPosted
    \/ \E a \in Actors : EndVpnService(a)
    \/ \E s \in Sessions : ThreadStep(s) \/ LogLine(s) \/ ProcQuits(s) \/ ProcExit(s)

Spec == Init /\ [][Next]_vars

\* Threads run, loopers run what was posted to them, sleeps end, and a process that
\* was told to quit does so.  Nobody has to start, stop or revoke anything.
Fairness ==
    /\ WF_vars(CommandStep)
    /\ WF_vars(RunPosted)
    /\ \A a \in Actors : WF_vars(EndVpnService(a))
    /\ \A s \in Sessions : WF_vars(ThreadStep(s))
    /\ \A s \in Sessions : WF_vars(ProcExit(s))

FairSpec == Spec /\ Fairness

-----------------------------------------------------------------------------
(* Properties.                                                             *)

\* After the last session nothing of it is left, whatever starts, stops, revokes and
\* exits crossed each other: endVpnService undoes startOpenVPN on every path of it.
TornDown ==
    Settled /\ session # NoSession /\ (\A s \in Sessions : Ended(s)) =>
        /\ mProcessThread = NoSession
        /\ ~profileSet
        /\ selfStopped \/ AlwaysVisible
        /\ ~mStarting

\* A session that has replaced another is whole: if the sleeps of stopOldOpenVPNProcess
\* suffice, no end of an older session takes its thread, its receiver or
\* the service away (mStarting, endVpnService), and the old receiver is gone.
ReplacedWhole ==
    ~hurry /\ Settled /\ session # NoSession /\ IsUp(session) =>
        /\ conn[session] = session
        /\ mProcessThread = session
        /\ mManagement = session
        /\ mDeviceStateReceiver = session
        /\ registered = {session}
        /\ ~selfStopped

\* The profile of a connected session is noted, "to connect if the service restarts"
\* (setConnectedVpnProfile, ProfileManager.java:75).
ProfileNoted == Settled /\ session # NoSession /\ IsUp(session) => profileSet

\* A process whose management socket was closed by stopVPN or a new start ends, and
\* so does the thread that reads it, whoever holds mProcessLock meanwhile.
StoppedEnds ==
    \A s \in Sessions :
        (proc[s] = "up" /\ mgmt[conn[s]] = "closed") ~> (ending[s] = "done")
=============================================================================
