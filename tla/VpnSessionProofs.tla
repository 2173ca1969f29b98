--------------------------- MODULE VpnSessionProofs ---------------------------
(***************************************************************************)
(* Theorems about VpnSession, for every number of sessions and tasks, at   *)
(* leisure and in haste.                                                   *)
(***************************************************************************)
EXTENDS VpnSession, SequenceTheorems, TLAPS

\* startOpenVPN before it has launched the process of the session.
Stopping  == {"sleep", "force", "forceSleep", "sleptOut"}
PreLaunch == Stopping \cup {"open", "launch"}

\* Starts are begun in the order in which they were asked for, each once; nothing of a
\* session exists before its start.
Order ==
    /\ session <= starts
    /\ \A i \in 1 .. Len(tasks) :
         tasks[i] # StopTask => session < tasks[i] /\ tasks[i] <= starts
    /\ \A i, j \in 1 .. Len(tasks) :
         i < j /\ tasks[i] # StopTask /\ tasks[j] # StopTask => tasks[i] < tasks[j]
    /\ \A s \in Sessions : proc[s] # "none" => s <= session

\* Where the command thread is, and what that says of the service.
Command ==
    /\ cmd # "idle" => session # NoSession
    /\ cmd \in PreLaunch => proc[session] = "none"
    /\ mStarting <=> cmd \in Stopping
    /\ cmd = "failed" <=> ending[CommandThread] # "no"

\* Somebody has yet to run endVpnService, after the last startOpenVPN.
EndPending ==
    \/ cmd \in PreLaunch
    \/ cmd = "failed"
    \/ session # NoSession /\ proc[session] # "none" /\ ending[session] # "done"

StartQueued == \E i \in 1 .. Len(tasks) : tasks[i] # StopTask

\* The thread that is remembered has not forgotten itself yet.
ThreadKept ==
    mProcessThread # NoSession =>
        proc[mProcessThread] # "none" /\ ending[mProcessThread] \in {"no", "lock"}

\* What the last end of a service has to do.
EndAwaited ==
    /\ profileSet => EndPending
    /\ session # NoSession => selfStopped \/ AlwaysVisible \/ EndPending \/ StartQueued

IInv == TypeOK /\ Order /\ Command /\ ThreadKept /\ EndAwaited

USE SessionAssumption

-----------------------------------------------------------------------------
(* Type correctness.                                                       *)

\* What a queue of tasks is after one more has been posted (stated without the state).
LEMMA AppendSeq == ASSUME NEW S, NEW q \in Seq(S), NEW e \in S PROVE Append(q, e) \in Seq(S)
OBVIOUS

LEMMA ActorFacts ==
    /\ CommandThread \in Actors /\ CommandThread \notin Sessions
    /\ MainThread \in Actors /\ MainThread \notin Sessions /\ MainThread # CommandThread
    /\ Sessions \subseteq Actors
    /\ NoSession \notin Sessions /\ StopTask \notin Sessions
    /\ \A s \in 0 .. MaxSessions : s # NoSession => s \in Sessions
BY DEF Actors, Sessions, CommandThread, MainThread, NoSession, StopTask

LEMMA InitType == Init => TypeOK
<1> SUFFICES ASSUME Init PROVE TypeOK
  OBVIOUS
<1>1. /\ tasks \in Seq({StopTask} \cup Sessions)
      /\ posted \in Seq([old : {NoSession} \cup Sessions, new : Sessions])
      /\ active \in Seq(Sessions)
  BY EmptySeq DEF Init
<1>2. hurry \in BOOLEAN /\ starts \in 0 .. MaxSessions /\ session \in 0 .. MaxSessions
  BY DEF Init, NoSession
<1>3. /\ ending \in [Actors -> {"no", "lock", "unregister", "forget", "service", "done"}]
      /\ mgmt \in [Sessions -> {"none", "created", "accepting", "connected", "closed",
                                "ended"}]
      /\ proc \in [Sessions -> {"none", "launched", "configured", "queued", "up", "quitting",
                                "exited"}]
      /\ conn \in [Sessions -> {NoSession} \cup Sessions]
      /\ \A s \in Sessions : ending[s] # "no" => proc[s] \in {"quitting", "exited"}
  BY ActorFacts DEF Init
<1> QED BY <1>1, <1>2, <1>3 DEF Init, TypeOK

\* The steps that only move the command thread along.
LEMMA CommandType == ASSUME TypeOK, Order, Command, CommandStep PROVE TypeOK'
<1> USE DEF TypeOK, serviceVars, socketVars, procVars, queueVars
<1>1. CASE RunStop
  BY <1>1 DEF RunStop, StopActive
<1>2. CASE BeginStart
  <2>1. Head(tasks) \in Sessions /\ tasks' \in Seq({StopTask} \cup Sessions)
    BY <1>2 DEF BeginStart
  <2>2. session' \in 0 .. MaxSessions
    BY <1>2, <2>1 DEF BeginStart, Sessions
  <2>3. cmd' \in {"sleep", "force"} /\ path' = path /\ listening' = listening
        /\ active' = active
    BY <1>2 DEF BeginStart, StopActive
  <2>4. mgmt' \in [Sessions -> {"none", "created", "accepting", "connected", "closed",
                                "ended"}]
    BY <1>2 DEF BeginStart, StopActive
  <2> QED BY <1>2, <2>1, <2>2, <2>3, <2>4 DEF BeginStart
<1>3. CASE SleepOver \/ ForceOver \/ OldStopped
  BY <1>3 DEF SleepOver, ForceOver, OldStopped
<1>4. CASE ForceStop
  BY <1>4 DEF ForceStop
<1>5. CASE OpenManagement
  <2>1. session \in Sessions
    BY <1>5, ActorFacts DEF OpenManagement, Command
  <2>2. CASE GiveUpStart /\ UNCHANGED <<socketVars, mManagement>>
    BY <1>5, <2>2, ActorFacts DEF OpenManagement, GiveUpStart
  <2>3. CASE ~(GiveUpStart /\ UNCHANGED <<socketVars, mManagement>>)
    <3>1. /\ path' = session /\ listening' = listening \cup {session}
          /\ mgmt' = [mgmt EXCEPT ![session] = "created"]
          /\ mManagement' = session /\ cmd' = "launch" /\ UNCHANGED <<active, ending>>
      BY <1>5, <2>3 DEF OpenManagement
    <3>2. mgmt' \in [Sessions -> {"none", "created", "accepting", "connected", "closed",
                                  "ended"}]
      BY <2>1, <3>1
    <3> QED BY <1>5, <2>1, <3>1, <3>2 DEF OpenManagement
  <2> QED BY <2>2, <2>3
<1>6. CASE Launch
  BY <1>6, ActorFacts DEF Launch, Command, PreLaunch
<1>7. CASE WriteConfig
  BY <1>7, ActorFacts DEF WriteConfig, GiveUpStart, Command
<1>8. CASE PostReceiver
  BY <1>8, ActorFacts DEF PostReceiver, Command
<1> QED BY <1>1, <1>2, <1>3, <1>4, <1>5, <1>6, <1>7, <1>8 DEF CommandStep

LEMMA EndType == ASSUME TypeOK, NEW a \in Actors, EndVpnService(a) PROVE TypeOK'
<1> USE DEF TypeOK, serviceVars, socketVars, procVars, queueVars
<1>1. CASE EndLock(a)
  BY <1>1 DEF EndLock
<1>2. CASE EndUnregister(a)
  BY <1>2 DEF EndUnregister
<1>3. CASE EndForget(a)
  BY <1>3 DEF EndForget
<1>4. CASE EndService(a)
  <2>1. PICK e \in {"no", "done"} :
          ending' = [ending EXCEPT ![a] = e] /\ (e = "done" => a \in Sessions)
    BY <1>4 DEF EndService
  <2>2. ending' \in [Actors -> {"no", "lock", "unregister", "forget", "service", "done"}]
    BY <2>1
  <2>3. \A s \in Sessions : ending'[s] # "no" => ending[s] # "no"
    BY <1>4, <2>1, ActorFacts DEF EndService
  <2>4. selfStopped' \in BOOLEAN /\ profileSet' \in BOOLEAN
    BY <1>4 DEF EndService
  <2> QED BY <1>4, <2>2, <2>3, <2>4 DEF EndService
<1> QED BY <1>1, <1>2, <1>3, <1>4 DEF EndVpnService

LEMMA SessionType ==
    ASSUME TypeOK, NEW s \in Sessions, ThreadStep(s) \/ LogLine(s) \/ ProcQuits(s) \/ ProcExit(s)
    PROVE  TypeOK'
<1> USE DEF TypeOK, serviceVars, socketVars, procVars, queueVars
<1>1. CASE ThreadEnds(s)
  BY <1>1, ActorFacts DEF ThreadEnds
<1>2. CASE MgmtRuns(s)
  BY <1>2 DEF MgmtRuns
<1>3. CASE Accept(s)
  BY <1>3 DEF Accept
<1>4. CASE MgmtEnds(s)
  <2>1. active' \in Seq(Sessions)
    <3>1. ASSUME NEW i \in 1 .. Len(active)
          PROVE  SubSeq(active, 1, i - 1) \o SubSeq(active, i + 1, Len(active)) \in Seq(Sessions)
      <4>1. SubSeq(active, 1, i - 1) \in Seq(Sessions)
        BY SubSeqProperties
      <4>2. SubSeq(active, i + 1, Len(active)) \in Seq(Sessions)
        BY SubSeqProperties
      <4> QED BY <4>1, <4>2, ConcatProperties
    <3> QED BY <1>4, <3>1 DEF MgmtEnds
  <2> QED BY <1>4, <2>1 DEF MgmtEnds
<1>5. CASE ProcConnect(s)
  <2>1. PICK p \in {"queued", "quitting"} : proc' = [proc EXCEPT ![s] = p]
    BY <1>5 DEF ProcConnect
  <2>2. conn' \in [Sessions -> {NoSession} \cup Sessions]
    BY <1>5 DEF ProcConnect
  <2>3. /\ proc[s] = "configured"
        /\ UNCHANGED <<hurry, queueVars, serviceVars, ending, socketVars, interrupted>>
    BY <1>5 DEF ProcConnect
  <2>4. proc' \in [Sessions -> {"none", "launched", "configured", "queued", "up", "quitting",
                                "exited"}]
    BY <2>1
  <2>5. \A r \in Sessions : ending'[r] # "no" => proc'[r] \in {"quitting", "exited"}
    BY <2>1, <2>3
  <2> QED BY <2>2, <2>3, <2>4, <2>5
<1>6. CASE ProcTold(s)
  BY <1>6 DEF ProcTold
<1>7. CASE LogLine(s)
  BY <1>7 DEF LogLine, Live
<1>8. CASE ProcQuits(s)
  BY <1>8 DEF ProcQuits, Live
<1>9. CASE ProcExit(s)
  BY <1>9 DEF ProcExit, Live
<1> QED BY <1>1, <1>2, <1>3, <1>4, <1>5, <1>6, <1>7, <1>8, <1>9 DEF ThreadStep

LEMMA OtherType ==
    ASSUME TypeOK, StopVPN \/ OnRevoke \/ OnStartCommand \/ RunPosted PROVE TypeOK'
<1> USE DEF TypeOK, serviceVars, socketVars, procVars, queueVars
<1>1. CASE StopVPN
  BY <1>1 DEF StopVPN, StopActive
<1>2. CASE OnRevoke
  BY <1>2, ActorFacts DEF OnRevoke
<1>3. CASE OnStartCommand
  <2>1. starts + 1 \in Sessions
    BY <1>3 DEF OnStartCommand, Sessions
  <2>2. starts' \in 0 .. MaxSessions
    BY <1>3 DEF OnStartCommand
  <2>3. tasks' \in Seq({StopTask} \cup Sessions)
    <3>1. starts + 1 \in {StopTask} \cup Sessions /\ tasks \in Seq({StopTask} \cup Sessions)
      BY <2>1
    <3>2. Append(tasks, starts + 1) \in Seq({StopTask} \cup Sessions)
      <4> DEFINE T == {StopTask} \cup Sessions
      <4>1. starts + 1 \in T /\ tasks \in Seq(T)
        BY <3>1
      <4> HIDE DEF T
      <4>2. Append(tasks, starts + 1) \in Seq(T)
        BY <4>1, AppendSeq
      <4> QED BY <4>2 DEF T
    <3> QED BY <1>3, <3>2 DEF OnStartCommand
  <2>4. /\ selfStopped' \in BOOLEAN
        /\ UNCHANGED << hurry, cmd, session, posted, ending, socketVars, procVars >>
        /\ UNCHANGED << mStarting, mManagement, mProcessThread, mDeviceStateReceiver,
                        registered, profileSet >>
    BY <1>3 DEF OnStartCommand
  <2> QED BY <2>2, <2>3, <2>4
<1>4. CASE RunPosted
  <2>1. /\ Head(posted) \in [old : {NoSession} \cup Sessions, new : Sessions]
        /\ posted' \in Seq([old : {NoSession} \cup Sessions, new : Sessions])
    BY <1>4, HeadTailProperties DEF RunPosted
  <2>2. registered' \subseteq Sessions /\ mDeviceStateReceiver' \in Sessions
    BY <1>4, <2>1 DEF RunPosted
  <2> QED BY <1>4, <2>1, <2>2 DEF RunPosted
<1> QED BY <1>1, <1>2, <1>3, <1>4

LEMMA TypeStep == ASSUME TypeOK, Order, Command, [Next]_vars PROVE TypeOK'
<1>1. CASE UNCHANGED vars
  BY <1>1 DEF TypeOK, vars, serviceVars, socketVars, procVars, queueVars
<1> QED BY <1>1, CommandType, EndType, SessionType, OtherType DEF Next

-----------------------------------------------------------------------------
(* Starts are begun in their order.                                        *)

LEMMA FrameOrder ==
    ASSUME Order, UNCHANGED <<starts, tasks, session>>,
           \A s \in Sessions : proc'[s] # "none" => proc[s] # "none" \/ s = session,
           session \in Nat
    PROVE  Order'
BY DEF Order, Sessions

LEMMA SessionFrame ==
    ASSUME TypeOK, NEW s \in Sessions, ThreadStep(s) \/ LogLine(s) \/ ProcQuits(s) \/ ProcExit(s)
    PROVE  /\ UNCHANGED <<queueVars, serviceVars>>
           /\ \A r \in Sessions : proc'[r] = "none" <=> proc[r] = "none"
           /\ \A a \in Actors : ending'[a] # ending[a] =>
                a = s /\ ending[a] = "no" /\ ending'[a] = "lock"
<1> USE DEF TypeOK, Live
<1>1. CASE ThreadEnds(s)
  BY <1>1 DEF ThreadEnds, procVars
<1>2. CASE MgmtRuns(s) \/ MgmtEnds(s)
  BY <1>2 DEF MgmtRuns, MgmtEnds, procVars
<1>3. CASE Accept(s)
  BY <1>3 DEF Accept
<1>4. CASE ProcConnect(s) \/ ProcTold(s)
  BY <1>4 DEF ProcConnect, ProcTold
<1>5. CASE LogLine(s) \/ ProcQuits(s) \/ ProcExit(s)
  BY <1>5 DEF LogLine, ProcQuits, ProcExit
<1> QED BY <1>1, <1>2, <1>3, <1>4, <1>5 DEF ThreadStep

LEMMA TakeOrder ==
    ASSUME TypeOK, Order, tasks # <<>>, tasks' = Tail(tasks), UNCHANGED <<starts, proc>>,
           IF Head(tasks) = StopTask THEN session' = session ELSE session' = Head(tasks)
    PROVE  Order'
<1>1. /\ Head(tasks) = tasks[1]
      /\ Len(tasks) \in Nat /\ Len(tasks) > 0
      /\ Len(tasks') = Len(tasks) - 1
      /\ \A i \in 1 .. Len(tasks') : i + 1 \in 1 .. Len(tasks) /\ tasks'[i] = tasks[i + 1]
  BY DEF TypeOK
<1>2. Head(tasks) \in {StopTask} \cup Sessions /\ session \in Nat
  BY <1>1 DEF TypeOK
<1>3. session <= session' /\ session' <= starts
  BY <1>1, <1>2 DEF Order, Sessions
<1>4. ASSUME NEW i \in 1 .. Len(tasks'), tasks'[i] # StopTask
      PROVE  session' < tasks'[i] /\ tasks'[i] <= starts
  <2>1. tasks[i + 1] # StopTask /\ i + 1 \in 1 .. Len(tasks) /\ 1 \in 1 .. Len(tasks) /\ 1 < i + 1
    BY <1>1, <1>4
  <2> QED BY <1>1, <2>1 DEF Order
<1>5. ASSUME NEW i \in 1 .. Len(tasks'), NEW j \in 1 .. Len(tasks'), i < j,
             tasks'[i] # StopTask, tasks'[j] # StopTask
      PROVE  tasks'[i] < tasks'[j]
  <2>1. i + 1 < j + 1
    BY <1>5
  <2> QED BY <1>1, <1>5, <2>1 DEF Order
<1>6. \A s \in Sessions : proc[s] # "none" => s <= session'
  BY <1>2, <1>3 DEF Order, Sessions, TypeOK
<1> QED BY <1>3, <1>4, <1>5, <1>6 DEF Order

LEMMA QueueOrder ==
    ASSUME TypeOK, Order, NEW t, tasks' = Append(tasks, t), UNCHANGED <<session, proc>>,
           \/ t = StopTask /\ starts' = starts
           \/ t = starts + 1 /\ starts' = starts + 1
    PROVE  Order'
<1>1. /\ Len(tasks) \in Nat /\ Len(tasks') = Len(tasks) + 1
      /\ tasks'[Len(tasks) + 1] = t
      /\ \A i \in 1 .. Len(tasks) : tasks'[i] = tasks[i]
      /\ \A i \in 1 .. Len(tasks') : i \in 1 .. Len(tasks) \/ i = Len(tasks) + 1
  BY DEF TypeOK
<1>2. starts \in Nat /\ session \in Nat /\ session <= starts /\ starts <= starts'
  BY DEF TypeOK, Order
<1>3. \A i \in 1 .. Len(tasks) : tasks[i] \in Nat
  BY DEF TypeOK, StopTask, Sessions
<1>4. ASSUME NEW i \in 1 .. Len(tasks'), tasks'[i] # StopTask
      PROVE  session < tasks'[i] /\ tasks'[i] <= starts'
  BY <1>1, <1>2, <1>3, <1>4 DEF Order
<1>5. ASSUME NEW i \in 1 .. Len(tasks'), NEW j \in 1 .. Len(tasks'), i < j,
             tasks'[i] # StopTask, tasks'[j] # StopTask
      PROVE  tasks'[i] < tasks'[j]
  <2>1. i \in 1 .. Len(tasks)
    BY <1>1, <1>5
  <2>2. CASE j \in 1 .. Len(tasks)
    BY <1>1, <1>5, <2>1, <2>2 DEF Order
  <2>3. CASE j = Len(tasks) + 1
    <3>1. tasks[i] <= starts /\ tasks'[j] = starts + 1
      BY <1>1, <1>5, <2>1, <2>3 DEF Order
    <3> QED BY <1>1, <1>2, <1>3, <2>1, <3>1
  <2> QED BY <1>1, <2>2, <2>3
<1> QED BY <1>2, <1>4, <1>5 DEF Order

LEMMA OrderStep == ASSUME TypeOK, Order, Command, [Next]_vars PROVE Order'
<1> USE DEF queueVars, serviceVars, socketVars, procVars
<1>1. session \in Nat
  BY DEF TypeOK
<1>2. CASE RunStop \/ BeginStart
  BY <1>2, TakeOrder DEF RunStop, BeginStart
<1>3. CASE OnRevoke \/ OnStartCommand
  BY <1>3, QueueOrder DEF OnRevoke, OnStartCommand
<1>4. CASE SleepOver \/ ForceStop \/ ForceOver \/ OldStopped \/ OpenManagement \/ PostReceiver
  BY <1>1, <1>4, FrameOrder DEF SleepOver, ForceStop, ForceOver, OldStopped, OpenManagement,
                                PostReceiver
<1>5. CASE Launch \/ WriteConfig
  BY <1>1, <1>5, FrameOrder DEF Launch, WriteConfig, TypeOK
<1>6. CASE StopVPN \/ RunPosted \/ UNCHANGED vars
  BY <1>1, <1>6, FrameOrder DEF StopVPN, RunPosted, vars
<1>7. ASSUME NEW a \in Actors, EndVpnService(a) PROVE Order'
  BY <1>1, <1>7, FrameOrder DEF EndVpnService, EndLock, EndUnregister, EndForget, EndService
<1>8. ASSUME NEW s \in Sessions, ThreadStep(s) \/ LogLine(s) \/ ProcQuits(s) \/ ProcExit(s) PROVE Order'
  BY <1>1, <1>8, SessionFrame, FrameOrder
<1> QED BY <1>2, <1>3, <1>4, <1>5, <1>6, <1>7, <1>8 DEF Next, CommandStep

-----------------------------------------------------------------------------
(* The command thread, and what is still to be undone.                     *)

LEMMA CommandInv == ASSUME TypeOK, Order, Command, [Next]_vars PROVE Command'
<1> USE ActorFacts DEF TypeOK, Command, PreLaunch, Stopping, queueVars, serviceVars,
                       socketVars, procVars
<1>1. CASE BeginStart
  <2>1. Head(tasks) \in Sessions
    BY <1>1, HeadTailProperties DEF BeginStart
  <2>2. session < Head(tasks)
    BY <1>1 DEF BeginStart, Order
  <2>3. proc[Head(tasks)] = "none"
    BY <2>1, <2>2 DEF Order, Sessions
  <2> QED BY <1>1, <2>1, <2>3 DEF BeginStart, NoSession
<1>2. CASE RunStop \/ SleepOver \/ ForceStop \/ ForceOver \/ OldStopped
  BY <1>2 DEF RunStop, SleepOver, ForceStop, ForceOver, OldStopped
<1>3. CASE OpenManagement
  BY <1>3 DEF OpenManagement, GiveUpStart
<1>4. CASE Launch
  BY <1>4 DEF Launch
<1>5. CASE WriteConfig
  BY <1>5 DEF WriteConfig, GiveUpStart
<1>6. CASE PostReceiver
  BY <1>6 DEF PostReceiver
<1>7. CASE StopVPN \/ OnRevoke \/ OnStartCommand \/ RunPosted \/ UNCHANGED vars
  BY <1>7 DEF StopVPN, OnRevoke, OnStartCommand, RunPosted, vars
<1>8. ASSUME NEW a \in Actors, EndVpnService(a) PROVE Command'
  <2>1. CASE EndLock(a)
    BY <1>8, <2>1 DEF EndLock
  <2>2. CASE EndUnregister(a)
    BY <1>8, <2>2 DEF EndUnregister
  <2>3. CASE EndForget(a)
    BY <1>8, <2>3 DEF EndForget
  <2>4. CASE EndService(a)
    BY <1>8, <2>4 DEF EndService
  <2> QED BY <1>8, <2>1, <2>2, <2>3, <2>4 DEF EndVpnService
<1>9. ASSUME NEW s \in Sessions, ThreadStep(s) \/ LogLine(s) \/ ProcQuits(s) \/ ProcExit(s) PROVE Command'
  <2>1. /\ UNCHANGED <<queueVars, serviceVars>>
        /\ \A r \in Sessions : proc'[r] = "none" <=> proc[r] = "none"
        /\ ending'[CommandThread] = ending[CommandThread]
    BY <1>9, SessionFrame
  <2> QED BY <2>1
<1> QED BY <1>1, <1>2, <1>3, <1>4, <1>5, <1>6, <1>7, <1>8, <1>9 DEF Next, CommandStep

LEMMA ThreadKeptStep == ASSUME TypeOK, Command, ThreadKept, [Next]_vars PROVE ThreadKept'
<1> USE ActorFacts DEF TypeOK, ThreadKept, queueVars, serviceVars, socketVars, procVars
<1>1. CASE RunStop \/ BeginStart \/ SleepOver \/ ForceStop \/ ForceOver \/ OldStopped
  BY <1>1 DEF RunStop, BeginStart, SleepOver, ForceStop, ForceOver, OldStopped
<1>2. CASE OpenManagement \/ WriteConfig
  BY <1>2 DEF OpenManagement, WriteConfig, GiveUpStart
<1>3. CASE Launch
  BY <1>3 DEF Launch, Command, PreLaunch
<1>4. CASE PostReceiver \/ StopVPN \/ OnRevoke \/ OnStartCommand \/ RunPosted
  BY <1>4 DEF PostReceiver, StopVPN, OnRevoke, OnStartCommand, RunPosted
<1>5. CASE UNCHANGED vars
  BY <1>5 DEF vars
<1>6. ASSUME NEW a \in Actors, EndVpnService(a) PROVE ThreadKept'
  BY <1>6 DEF EndVpnService, EndLock, EndUnregister, EndForget, EndService
<1>7. ASSUME NEW s \in Sessions, ThreadStep(s) \/ LogLine(s) \/ ProcQuits(s) \/ ProcExit(s) PROVE ThreadKept'
  BY <1>7, SessionFrame
<1> QED BY <1>1, <1>2, <1>3, <1>4, <1>5, <1>6, <1>7 DEF Next, CommandStep

\* Steps that leave the preference, the service and the pending end as they are.
LEMMA SameAwaited ==
    ASSUME EndAwaited, UNCHANGED <<profileSet, selfStopped, session>>,
           EndPending => EndPending', StartQueued => StartQueued'
    PROVE  EndAwaited'
BY DEF EndAwaited

LEMMA QueuedStays ==
    ASSUME TypeOK, StartQueued,
           \/ tasks # <<>> /\ Head(tasks) = StopTask /\ tasks' = Tail(tasks)
           \/ \E t : tasks' = Append(tasks, t)
    PROVE  StartQueued'
<1>1. PICK i \in 1 .. Len(tasks) : tasks[i] # StopTask
  BY DEF StartQueued
<1>2. CASE tasks # <<>> /\ Head(tasks) = StopTask /\ tasks' = Tail(tasks)
  <2>1. /\ Head(tasks) = tasks[1] /\ Len(tasks) \in Nat /\ Len(tasks') = Len(tasks) - 1
        /\ \A k \in 1 .. Len(tasks') : tasks'[k] = tasks[k + 1]
    BY <1>2 DEF TypeOK
  <2>2. i # 1
    BY <1>1, <1>2, <2>1
  <2>3. i - 1 \in 1 .. Len(tasks') /\ (i - 1) + 1 = i
    BY <2>1, <2>2
  <2>4. tasks'[i - 1] = tasks[i]
    BY <2>1, <2>3
  <2> QED BY <1>1, <2>3, <2>4 DEF StartQueued
<1>3. ASSUME NEW t, tasks' = Append(tasks, t) PROVE StartQueued'
  <2>1. i \in 1 .. Len(tasks') /\ tasks'[i] = tasks[i]
    BY <1>3 DEF TypeOK
  <2> QED BY <1>1, <2>1 DEF StartQueued
<1> QED BY <1>2, <1>3

\* endVpnService: what the end of the newest session, of an older one and of a failed
\* start leave behind.
LEMMA EndAwaitedStep ==
    ASSUME TypeOK, Command, EndAwaited, NEW a \in Actors, EndVpnService(a)
    PROVE  EndAwaited'
<1> USE ActorFacts DEF TypeOK, queueVars, serviceVars, socketVars, procVars
<1>1. CASE EndLock(a)
  <2>1. EndPending => EndPending'
    BY <1>1 DEF EndLock, EndPending
  <2> QED BY <1>1, <2>1, SameAwaited DEF EndLock, StartQueued
<1>2. CASE EndUnregister(a)
  <2>1. EndPending => EndPending'
    BY <1>2 DEF EndUnregister, EndPending
  <2> QED BY <1>2, <2>1, SameAwaited DEF EndUnregister, StartQueued
<1>3. CASE EndForget(a)
  <2>1. EndPending => EndPending'
    BY <1>3 DEF EndForget, EndPending
  <2> QED BY <1>3, <2>1, SameAwaited DEF EndForget, StartQueued
<1>4. CASE EndService(a)
  <2>1. profileSet' = FALSE /\ session' = session /\ selfStopped' = (selfStopped \/ ~(mStarting \/ AlwaysVisible))
    BY <1>4 DEF EndService
  <2>2. CASE mStarting
    <3>1. cmd \in Stopping /\ cmd # "failed"
      BY <2>2 DEF Command, Stopping
    <3>2. a # CommandThread /\ cmd' = cmd
      BY <1>4, <3>1 DEF EndService, Command
    <3> QED BY <2>1, <3>1, <3>2 DEF EndAwaited, EndPending, PreLaunch
  <2>3. CASE ~mStarting
    BY <2>1, <2>3 DEF EndAwaited
  <2> QED BY <2>2, <2>3
<1> QED BY <1>1, <1>2, <1>3, <1>4 DEF EndVpnService

LEMMA AwaitedStep == ASSUME TypeOK, Order, Command, EndAwaited, [Next]_vars PROVE EndAwaited'
<1> USE ActorFacts DEF TypeOK, queueVars, serviceVars, socketVars, procVars
<1>1. CASE RunStop
  BY <1>1, SameAwaited, QueuedStays DEF RunStop, EndPending
<1>2. CASE BeginStart
  BY <1>2 DEF BeginStart, EndAwaited, EndPending, PreLaunch, Stopping
<1>3. CASE SleepOver \/ ForceStop \/ ForceOver
  <2>1. EndPending' /\ UNCHANGED <<profileSet, selfStopped, session, tasks>>
    BY <1>3 DEF SleepOver, ForceStop, ForceOver, EndPending, PreLaunch, Stopping
  <2> QED BY <2>1, SameAwaited DEF StartQueued
<1>4. CASE OldStopped \/ OpenManagement
  <2>1. EndPending' /\ UNCHANGED <<profileSet, selfStopped, session, tasks>>
    BY <1>4 DEF OldStopped, OpenManagement, GiveUpStart, EndPending, PreLaunch, Stopping
  <2> QED BY <2>1, SameAwaited DEF StartQueued
<1>5. CASE Launch
  <2>1. session \in Sessions /\ proc[session] = "none"
    BY <1>5 DEF Launch, Command, PreLaunch
  <2>2. proc'[session] = "launched" /\ ending'[session] = "no"
    BY <1>5, <2>1 DEF Launch
  <2>3. EndPending' /\ UNCHANGED <<profileSet, selfStopped, session, tasks>>
    BY <1>5, <2>1, <2>2 DEF Launch, EndPending
  <2> QED BY <2>3, SameAwaited DEF StartQueued
<1>6. CASE WriteConfig
  <2>1. EndPending => EndPending'
    BY <1>6 DEF WriteConfig, GiveUpStart, EndPending, PreLaunch, Stopping
  <2> QED BY <1>6, <2>1, SameAwaited DEF WriteConfig, StartQueued
<1>7. CASE PostReceiver \/ StopVPN \/ RunPosted
  <2>1. EndPending => EndPending'
    BY <1>7 DEF PostReceiver, StopVPN, RunPosted, EndPending, PreLaunch, Stopping
  <2> QED BY <1>7, <2>1, SameAwaited DEF PostReceiver, StopVPN, RunPosted, StartQueued
<1>8. CASE OnRevoke
  <2>1. EndPending => EndPending'
    BY <1>8 DEF OnRevoke, EndPending
  <2> QED BY <1>8, <2>1, SameAwaited, QueuedStays DEF OnRevoke
<1>9. CASE OnStartCommand
  <2>1. EndPending' <=> EndPending
    BY <1>9 DEF OnStartCommand, EndPending
  <2>2. tasks'[Len(tasks')] # StopTask /\ Len(tasks') \in 1 .. Len(tasks')
    BY <1>9 DEF OnStartCommand, StopTask
  <2>3. StartQueued'
    BY <2>2 DEF StartQueued
  <2> QED BY <1>9, <2>1, <2>3 DEF OnStartCommand, EndAwaited
<1>10. CASE UNCHANGED vars
  BY <1>10, SameAwaited DEF vars, EndPending, StartQueued
<1>11. ASSUME NEW s \in Sessions, ThreadStep(s) \/ LogLine(s) \/ ProcQuits(s) \/ ProcExit(s) PROVE EndAwaited'
  <2>1. UNCHANGED <<queueVars, serviceVars>>
    BY <1>11, SessionFrame
  <2>2. EndPending => EndPending'
    BY <1>11, SessionFrame DEF EndPending
  <2> QED BY <2>1, <2>2, SameAwaited DEF StartQueued
<1> QED BY <1>1, <1>2, <1>3, <1>4, <1>5, <1>6, <1>7, <1>8, <1>9, <1>10, <1>11, EndAwaitedStep
        DEF Next, CommandStep

-----------------------------------------------------------------------------
(* At leisure: a session that has replaced another.                        *)

Gone == {"none", "quitting", "exited"}

\* The session does not run any more, or is being stopped.
Lost ==
    \/ proc[session] \in Gone /\ cmd \notin {"open", "launch"}
    \/ proc[session] = "up" /\ mgmt[conn[session]] \in {"closed", "ended"}
    \/ tasks = <<StopTask>>

\* One thing at a time: a start or a revocation waits for the service to settle.
OneTask ==
    /\ \/ tasks = <<>>
       \/ /\ tasks = <<StopTask>> /\ cmd = "idle" /\ posted = <<>>
          /\ session # NoSession /\ proc[session] \in {"up", "quitting", "exited"}
       \/ /\ cmd = "idle" /\ posted = <<>> /\ NobodyEnds /\ ending[MainThread] = "no"
          /\ ~selfStopped /\ \E t \in Sessions : tasks = <<t>>
    /\ cmd # "idle" => tasks = <<>> /\ posted = <<>> /\ ending[MainThread] = "no"

\* After the sleeps of stopOldOpenVPNProcess the older sessions have ended.
OthersEnded == cmd \notin Stopping => \A s \in Sessions : s # session => Ended(s)

\* How far a start is.
StartOnWay ==
    /\ cmd \in Stopping => ~selfStopped
    /\ cmd = "config" => proc[session] \in {"launched", "quitting", "exited"}
    /\ cmd = "failed" => proc[session] \in Gone

\* At most the receiver of the field is registered; a posted registration is the newest
\* session's and names the receiver of the field, or that one is gone.
OneReceiver ==
    /\ registered \subseteq {mDeviceStateReceiver}
    /\ (\E a \in Actors : ending[a] = "forget") => registered = {}
    /\ \/ posted = <<>>
       \/ \E r \in [old : {NoSession} \cup Sessions, new : Sessions] :
            /\ posted = <<r>> /\ r.new = session /\ cmd = "idle" /\ tasks = <<>>
            /\ r.old = mDeviceStateReceiver \/ mDeviceStateReceiver = NoSession

Among(q, x) == \E i \in 1 .. Len(q) : q[i] = x

\* Management threads are listed while they can be stopped, and a process talks to its own.
OwnSocket ==
    /\ \A m \in Sessions : mgmt[m] \in {"accepting", "connected"} => Among(active, m)
    /\ \A s \in Sessions : proc[s] = "up" =>
         conn[s] \in Sessions /\ mgmt[conn[s]] \in {"connected", "closed", "ended"}
    /\ \A m \in Sessions : m > session => mgmt[m] = "none"
    /\ session # NoSession =>
         /\ cmd \in Stopping \cup {"open"} => mgmt[session] = "none"
         /\ proc[session] # "none" \/ cmd = "launch" => path = session
         /\ proc[session] \in {"queued", "up"} => conn[session] = session

\* Unless it is lost, nobody has touched what the newest session has set up so far.
Untouched ==
    session # NoSession /\ cmd \notin Stopping \cup {"failed"} /\ ~Lost =>
        /\ NobodyEnds /\ ~selfStopped
        /\ cmd # "open" => mManagement = session
        /\ proc[session] # "none" => mProcessThread = session
        /\ cmd = "idle" /\ posted = <<>> =>
             mDeviceStateReceiver = session /\ registered = {session}

Leisure ==
    OneTask /\ OthersEnded /\ StartOnWay /\ OneReceiver /\ OwnSocket /\ Untouched

LInv == IInv /\ (~hurry => Leisure)

\* The list of management threads without one of its entries.
LEMMA Joined ==
    ASSUME NEW S, NEW u \in Seq(S), NEW v \in Seq(S), NEW x, Among(u, x) \/ Among(v, x)
    PROVE  Among(u \o v, x)
<1>1. CASE Among(u, x)
  BY <1>1 DEF Among
<1>2. ASSUME NEW k \in 1 .. Len(v), v[k] = x PROVE Among(u \o v, x)
  <2>1. Len(u) + k \in 1 .. Len(u \o v) /\ (u \o v)[Len(u) + k] = v[k]
    OBVIOUS
  <2> QED BY <1>2, <2>1 DEF Among
<1> QED BY <1>1, <1>2 DEF Among

LEMMA Removed ==
    ASSUME NEW S, NEW q \in Seq(S), NEW i \in 1 .. Len(q), NEW j \in 1 .. Len(q), q[j] # q[i]
    PROVE  Among(SubSeq(q, 1, i - 1) \o SubSeq(q, i + 1, Len(q)), q[j])
<1> DEFINE u == SubSeq(q, 1, i - 1)
           v == SubSeq(q, i + 1, Len(q))
<1>1. Len(q) \in Nat /\ i \in Nat /\ j \in Nat /\ i >= 1 /\ i <= Len(q) /\ j >= 1 /\ j <= Len(q)
  OBVIOUS
<1>2. u \in Seq(S) /\ v \in Seq(S)
  BY <1>1, SubSeqProperties
<1>3. ASSUME j < i PROVE Among(u, q[j])
  <2>1. j \in 1 .. Len(u) /\ u[j] = q[j]
    BY <1>1, <1>3
  <2> QED BY <2>1 DEF Among
<1>4. ASSUME j > i PROVE Among(v, q[j])
  <2>1. j - i \in 1 .. Len(v) /\ v[j - i] = q[j]
    BY <1>1, <1>4
  <2> QED BY <2>1 DEF Among
<1>5. j # i
  OBVIOUS
<1>6. Among(u, q[j]) \/ Among(v, q[j])
  BY <1>1, <1>3, <1>4, <1>5
<1> QED BY <1>2, <1>6, Joined

LEMMA SessionEffect ==
    ASSUME TypeOK, NEW s \in Sessions, ThreadStep(s) \/ LogLine(s) \/ ProcQuits(s) \/ ProcExit(s)
    PROVE  /\ path' = path
           /\ \A r \in Sessions :
                /\ proc[r] = "exited" => proc'[r] = "exited"
                /\ proc[r] \in {"quitting", "exited"} => proc'[r] \in {"quitting", "exited"}
                /\ proc[r] = "launched" => proc'[r] \in {"launched", "quitting", "exited"}
                /\ proc[r] = "up" => proc'[r] \in {"up", "quitting", "exited"}
                /\ proc'[r] = "up" => proc[r] = "up"
                     \/ (proc[r] = "queued" /\ conn[r] \in Sessions /\ mgmt'[conn[r]] = "connected")
                /\ proc'[r] = "queued" => proc[r] = "queued" \/ conn'[r] = path
                /\ conn'[r] # conn[r] => proc[r] = "configured" /\ conn'[r] = path
           /\ \A m \in Sessions : mgmt'[m] # mgmt[m] =>
                \/ mgmt[m] = "created" /\ mgmt'[m] = "accepting"
                \/ mgmt[m] = "accepting" /\ mgmt'[m] = "connected"
                \/ mgmt[m] \in {"connected", "closed"} /\ mgmt'[m] = "ended"
<1> USE DEF TypeOK, Live, procVars, socketVars
<1>1. CASE ThreadEnds(s)
  BY <1>1 DEF ThreadEnds
<1>2. CASE MgmtRuns(s) \/ MgmtEnds(s)
  BY <1>2 DEF MgmtRuns, MgmtEnds
<1>3. CASE Accept(s)
  BY <1>3 DEF Accept
<1>4. CASE ProcConnect(s)
  BY <1>4 DEF ProcConnect
<1>5. CASE ProcTold(s) \/ LogLine(s) \/ ProcQuits(s) \/ ProcExit(s)
  BY <1>5 DEF ProcTold, LogLine, ProcQuits, ProcExit
<1> QED BY <1>1, <1>2, <1>3, <1>4, <1>5 DEF ThreadStep

LEMMA SessionListed ==
    ASSUME TypeOK, NEW s \in Sessions, ThreadStep(s) \/ LogLine(s) \/ ProcQuits(s) \/ ProcExit(s),
           NEW m \in Sessions, mgmt'[m] \in {"accepting", "connected"},
           mgmt[m] \in {"accepting", "connected"} => Among(active, m)
    PROVE  Among(active', m)
<1> USE DEF TypeOK, procVars, socketVars
<1>1. CASE MgmtRuns(s)
  <2>1. CASE m = s
    <3>1. Len(active') \in 1 .. Len(active') /\ active'[Len(active')] = m
      BY <1>1, <2>1 DEF MgmtRuns
    <3> QED BY <3>1 DEF Among
  <2>2. CASE m # s
    <3>1. mgmt[m] = mgmt'[m]
      BY <1>1, <2>2 DEF MgmtRuns
    <3>2. PICK i \in 1 .. Len(active) : active[i] = m
      BY <3>1 DEF Among
    <3>3. i \in 1 .. Len(active') /\ active'[i] = m
      BY <1>1, <3>2 DEF MgmtRuns
    <3> QED BY <3>3 DEF Among
  <2> QED BY <2>1, <2>2
<1>2. CASE MgmtEnds(s)
  <2>1. m # s /\ mgmt[m] = mgmt'[m]
    BY <1>2 DEF MgmtEnds
  <2>2. PICK j \in 1 .. Len(active) : active[j] = m
    BY <2>1 DEF Among
  <2>3. CASE active' = active
    BY <2>1, <2>3
  <2>4. ASSUME NEW i \in 1 .. Len(active), active[i] = s,
               active' = SubSeq(active, 1, i - 1) \o SubSeq(active, i + 1, Len(active))
        PROVE  Among(active', m)
    <3>1. active \in Seq(Sessions) /\ active[j] # active[i]
      BY <2>1, <2>2, <2>4
    <3> QED BY <2>2, <2>4, <3>1, Removed
  <2> QED BY <1>2, <2>3, <2>4 DEF MgmtEnds
<1>3. CASE Accept(s)
  BY <1>3 DEF Accept
<1>4. CASE ThreadEnds(s) \/ ProcConnect(s) \/ ProcTold(s) \/ LogLine(s)
           \/ ProcQuits(s) \/ ProcExit(s)
  BY <1>4 DEF ThreadEnds, ProcConnect, ProcTold, LogLine, ProcQuits, ProcExit
<1> QED BY <1>1, <1>2, <1>3, <1>4 DEF ThreadStep

\* What endVpnService leaves alone.
LEMMA EndFrame ==
    ASSUME NEW a \in Actors, EndVpnService(a)
    PROVE  /\ UNCHANGED <<hurry, starts, tasks, session, posted, mStarting, mManagement>>
           /\ UNCHANGED <<socketVars, procVars>>
           /\ ending[a] \in {"lock", "unregister", "forget", "service"}
           /\ cmd' = cmd \/ (a = CommandThread /\ cmd' = "idle")
BY DEF EndVpnService, EndLock, EndUnregister, EndForget, EndService, queueVars

LEMMA AppendOne == ASSUME NEW x PROVE Append(<<>>, x) = <<x>>
OBVIOUS

LEMMA OneTaskStep ==
    ASSUME TypeOK, Order, Command, ~hurry, Leisure, [Next]_vars
    PROVE  OneTask'
<1> USE ActorFacts DEF TypeOK, Leisure, OneTask, queueVars, serviceVars, socketVars, procVars
<1>1. CASE RunStop \/ BeginStart
  <2>1. tasks' = <<>> /\ cmd = "idle" /\ posted' = <<>> /\ ending' = ending
    BY <1>1 DEF RunStop, BeginStart
  <2>2. CASE RunStop
    BY <2>1, <2>2 DEF RunStop
  <2>3. CASE BeginStart
    <3>1. ending[MainThread] = "no"
      BY <2>3 DEF BeginStart
    <3> QED BY <2>1, <3>1
  <2> QED BY <1>1, <2>2, <2>3
<1>2. CASE SleepOver \/ ForceStop \/ ForceOver \/ OldStopped \/ OpenManagement \/ Launch
           \/ WriteConfig \/ PostReceiver
  <2>1. tasks' = <<>>
    BY <1>2 DEF SleepOver, ForceStop, ForceOver, OldStopped, OpenManagement, Launch, WriteConfig,
                PostReceiver
  <2>2. cmd' # "idle" => posted' = <<>> /\ ending'[MainThread] = "no"
    BY <1>2 DEF SleepOver, ForceStop, ForceOver, OldStopped, OpenManagement, Launch, WriteConfig,
                PostReceiver, GiveUpStart
  <2> QED BY <2>1, <2>2
<1>3. CASE StopVPN \/ UNCHANGED vars
  BY <1>3 DEF StopVPN, vars, NobodyEnds
<1>4. CASE RunPosted
  <2>1. tasks = <<>> /\ cmd = "idle"
    BY <1>4 DEF RunPosted, OneReceiver
  <2> QED BY <1>4, <2>1 DEF RunPosted
<1>5. CASE OnStartCommand
  <2>1. /\ tasks = <<>> /\ posted' = <<>> /\ cmd' = "idle" /\ NobodyEnds /\ ending' = ending
        /\ tasks' = Append(<<>>, starts + 1) /\ selfStopped' = FALSE
        /\ ending[MainThread] = "no"
    BY <1>5 DEF OnStartCommand, Settled
  <2>2. starts + 1 \in Sessions
    BY <1>5 DEF OnStartCommand, Sessions
  <2>3. NobodyEnds'
    BY <2>1, Zenon DEF NobodyEnds
  <2>4. \E t \in Sessions : tasks' = <<t>>
    BY <2>1, <2>2, AppendOne
  <2> QED BY <2>1, <2>3, <2>4
<1>6. CASE OnRevoke
  <2>1. tasks' = Append(<<>>, StopTask) /\ cmd' = "idle" /\ posted' = <<>>
    BY <1>6 DEF OnRevoke, Settled
  <2>2. PICK s \in Sessions : proc[s] = "up"
    BY <1>6 DEF OnRevoke
  <2>3. s = session
    <3>1. ending[s] # "done" /\ cmd = "idle"
      BY <1>6, <2>2 DEF OnRevoke, Settled
    <3> QED BY <2>2, <3>1 DEF OthersEnded, Ended, Stopping
  <2>4. tasks' = <<StopTask>>
    BY <2>1, AppendOne
  <2> QED BY <1>6, <2>1, <2>2, <2>3, <2>4 DEF OnRevoke
<1>7. ASSUME NEW a \in Actors, EndVpnService(a) PROVE OneTask'
  <2>1. ending[a] \notin {"no", "done"} /\ ~NobodyEnds
    BY <1>7, EndFrame DEF NobodyEnds
  <2>2. cmd = "idle" \/ cmd' = cmd \/ cmd' = "idle"
    BY <1>7, EndFrame
  <2>3. ending'[MainThread] = ending[MainThread] \/ a = MainThread
    BY <1>7 DEF EndVpnService, EndLock, EndUnregister, EndForget, EndService
  <2> QED BY <1>7, <2>1, <2>2, <2>3, EndFrame
<1>8. ASSUME NEW s \in Sessions, ThreadStep(s) \/ LogLine(s) \/ ProcQuits(s) \/ ProcExit(s) PROVE OneTask'
  <2>1. UNCHANGED <<queueVars, serviceVars>>
    BY <1>8, SessionFrame
  <2>2. ending'[MainThread] = ending[MainThread]
    BY <1>8, SessionFrame
  <2>3. CASE tasks = <<>>
    BY <2>1, <2>2, <2>3
  <2>4. CASE tasks # <<>>
    <3>1. ending' = ending
      BY <1>8, <2>4 DEF ThreadStep, ThreadEnds, MgmtRuns, Accept, MgmtEnds, ProcConnect, ProcTold,
                        LogLine, ProcQuits, ProcExit
    <3>2. session # NoSession /\ proc[session] \in {"up", "quitting", "exited"} =>
            proc'[session] \in {"up", "quitting", "exited"}
      BY <1>8, SessionEffect
    <3> QED BY <2>1, <2>4, <3>1, <3>2 DEF NobodyEnds
  <2> QED BY <2>3, <2>4
<1> QED BY <1>1, <1>2, <1>3, <1>4, <1>5, <1>6, <1>7, <1>8 DEF Next, CommandStep

LEMMA OthersEndedStep ==
    ASSUME TypeOK, Order, Command, ~hurry, Leisure, [Next]_vars
    PROVE  OthersEnded'
<1> USE ActorFacts DEF TypeOK, Leisure, OthersEnded, Ended, Stopping, queueVars, serviceVars,
                       socketVars, procVars
<1>1. CASE RunStop \/ BeginStart \/ SleepOver \/ ForceStop \/ ForceOver
  BY <1>1 DEF RunStop, BeginStart, SleepOver, ForceStop, ForceOver
<1>2. CASE OldStopped \/ PostReceiver
  BY <1>2 DEF OldStopped, PostReceiver
<1>3. CASE OpenManagement \/ WriteConfig
  BY <1>3 DEF OpenManagement, WriteConfig, GiveUpStart
<1>4. CASE Launch
  BY <1>4 DEF Launch
<1>5. CASE StopVPN \/ OnRevoke \/ OnStartCommand \/ RunPosted \/ UNCHANGED vars
  BY <1>5 DEF StopVPN, OnRevoke, OnStartCommand, RunPosted, vars
<1>6. ASSUME NEW a \in Actors, EndVpnService(a) PROVE OthersEnded'
  BY <1>6, EndFrame DEF EndVpnService, EndLock, EndUnregister, EndForget, EndService, Command
<1>7. ASSUME NEW s \in Sessions, ThreadStep(s) \/ LogLine(s) \/ ProcQuits(s) \/ ProcExit(s) PROVE OthersEnded'
  BY <1>7, SessionFrame
<1> QED BY <1>1, <1>2, <1>3, <1>4, <1>5, <1>6, <1>7 DEF Next, CommandStep

LEMMA StartOnWayStep ==
    ASSUME TypeOK, Order, Command, ~hurry, Leisure, [Next]_vars
    PROVE  StartOnWay'
<1> USE ActorFacts DEF TypeOK, Leisure, StartOnWay, Stopping, Gone, queueVars, serviceVars,
                       socketVars, procVars
<1>1. CASE BeginStart
  <2>1. ~selfStopped
    <3>1. tasks # <<>> /\ tasks # <<StopTask>>
      BY <1>1 DEF BeginStart
    <3> QED BY <3>1 DEF OneTask
  <2> QED BY <1>1, <2>1 DEF BeginStart
<1>2. CASE RunStop \/ SleepOver \/ ForceStop \/ ForceOver \/ OldStopped \/ PostReceiver
  BY <1>2 DEF RunStop, SleepOver, ForceStop, ForceOver, OldStopped, PostReceiver
<1>3. CASE OpenManagement
  BY <1>3 DEF OpenManagement, GiveUpStart, Command, PreLaunch
<1>4. CASE Launch
  BY <1>4 DEF Launch, Command, PreLaunch
<1>5. CASE WriteConfig
  BY <1>5 DEF WriteConfig, GiveUpStart
<1>6. CASE StopVPN \/ OnRevoke \/ OnStartCommand \/ RunPosted \/ UNCHANGED vars
  BY <1>6 DEF StopVPN, OnRevoke, OnStartCommand, RunPosted, vars
<1>7. ASSUME NEW a \in Actors, EndVpnService(a) PROVE StartOnWay'
  <2>1. mStarting => selfStopped' = selfStopped
    BY <1>7 DEF EndVpnService, EndLock, EndUnregister, EndForget, EndService
  <2> QED BY <1>7, <2>1, EndFrame DEF Command
<1>8. ASSUME NEW s \in Sessions, ThreadStep(s) \/ LogLine(s) \/ ProcQuits(s) \/ ProcExit(s) PROVE StartOnWay'
  <2>1. UNCHANGED <<queueVars, serviceVars>>
    BY <1>8, SessionFrame
  <2>2. cmd # "idle" => session \in Sessions
    BY DEF Command
  <2> QED BY <1>8, <2>1, <2>2, SessionFrame, SessionEffect
<1> QED BY <1>1, <1>2, <1>3, <1>4, <1>5, <1>6, <1>7, <1>8 DEF Next, CommandStep

LEMMA OneReceiverStep ==
    ASSUME TypeOK, Order, Command, ~hurry, Leisure, [Next]_vars
    PROVE  OneReceiver'
<1> USE ActorFacts DEF TypeOK, Leisure, OneReceiver, queueVars, serviceVars, socketVars, procVars
<1>1. CASE RunStop \/ BeginStart
  <2>1. posted = <<>>
    BY <1>1 DEF RunStop, BeginStart
  <2> QED BY <1>1, <2>1 DEF RunStop, BeginStart
<1>2. CASE SleepOver \/ ForceStop \/ ForceOver \/ OldStopped \/ Launch
  BY <1>2 DEF SleepOver, ForceStop, ForceOver, OldStopped, Launch, OneTask
<1>3. CASE OpenManagement \/ WriteConfig
  <2>1. \A a \in Actors : ending'[a] = "forget" => ending[a] = "forget"
    BY <1>3 DEF OpenManagement, WriteConfig, GiveUpStart
  <2> QED BY <1>3, <2>1 DEF OpenManagement, WriteConfig, OneTask
<1>4. CASE PostReceiver
  <2>1. posted = <<>> /\ tasks = <<>> /\ session \in Sessions
    BY <1>4 DEF PostReceiver, OneTask, Command
  <2>2. posted' = <<[old |-> mDeviceStateReceiver, new |-> session]>>
    BY <1>4, <2>1, AppendOne DEF PostReceiver
  <2> QED BY <1>4, <2>1, <2>2 DEF PostReceiver
<1>5. CASE StopVPN \/ OnRevoke \/ OnStartCommand \/ UNCHANGED vars
  BY <1>5 DEF StopVPN, OnRevoke, OnStartCommand, vars, Settled
<1>6. CASE RunPosted
  <2>1. PICK r \in [old : {NoSession} \cup Sessions, new : Sessions] :
          /\ posted = <<r>> /\ r.new = session
          /\ r.old = mDeviceStateReceiver \/ mDeviceStateReceiver = NoSession
    BY <1>6 DEF RunPosted
  <2>2. Head(posted) = r /\ posted' = <<>>
    BY <1>6, <2>1 DEF RunPosted
  <2>3. registered' = {session} /\ mDeviceStateReceiver' = session
    BY <1>6, <2>1, <2>2 DEF RunPosted
  <2>4. ~\E a \in Actors : ending'[a] = "forget"
    BY <1>6 DEF RunPosted
  <2> QED BY <2>2, <2>3, <2>4
<1>7. ASSUME NEW a \in Actors, EndVpnService(a) PROVE OneReceiver'
  <2>1. CASE EndLock(a) \/ EndService(a)
    <3>1. \A b \in Actors : ending'[b] = "forget" => ending[b] = "forget"
      BY <2>1 DEF EndLock, EndService
    <3>2. UNCHANGED <<registered, mDeviceStateReceiver, posted, tasks, session>>
          /\ (cmd = "idle" => cmd' = "idle")
      BY <2>1 DEF EndLock, EndService
    <3> QED BY <3>1, <3>2
  <2>2. CASE EndUnregister(a)
    BY <2>2 DEF EndUnregister
  <2>3. CASE EndForget(a)
    BY <2>3 DEF EndForget
  <2> QED BY <1>7, <2>1, <2>2, <2>3 DEF EndVpnService
<1>8. ASSUME NEW s \in Sessions, ThreadStep(s) \/ LogLine(s) \/ ProcQuits(s) \/ ProcExit(s) PROVE OneReceiver'
  <2>1. UNCHANGED <<queueVars, serviceVars>>
        /\ \A a \in Actors : ending'[a] = "forget" => ending[a] = "forget"
    BY <1>8, SessionFrame
  <2> QED BY <2>1
<1> QED BY <1>1, <1>2, <1>3, <1>4, <1>5, <1>6, <1>7, <1>8 DEF Next, CommandStep

\* Closing the sockets of the listed threads.
LEMMA Stopped ==
    ASSUME TypeOK, StopActive, OwnSocket
    PROVE  /\ active' = active /\ path' = path
           /\ \A m \in Sessions : mgmt'[m] # mgmt[m] => mgmt[m] = "connected" /\ mgmt'[m] = "closed"
           /\ \A m \in Sessions : mgmt'[m] # "connected"
BY DEF StopActive, TypeOK, OwnSocket, Among

LEMMA OwnSocketStep ==
    ASSUME TypeOK, Order, Command, ~hurry, Leisure, [Next]_vars
    PROVE  OwnSocket'
<1> USE ActorFacts DEF TypeOK, Leisure, queueVars, serviceVars, procVars
<1>1. CASE RunStop \/ StopVPN
  <2>1. StopActive /\ UNCHANGED <<procVars, session, cmd>>
    BY <1>1 DEF RunStop, StopVPN
  <2> QED BY <2>1, Stopped DEF OwnSocket
<1>2. CASE BeginStart
  <2>1. session' \in Sessions /\ session < session' /\ proc[session'] = "none"
    <3>1. Head(tasks) \in Sessions
      BY <1>2, HeadTailProperties DEF BeginStart
    <3>2. session < Head(tasks)
      BY <1>2 DEF BeginStart, Order
    <3> QED BY <1>2, <3>1, <3>2 DEF BeginStart, Order, Sessions
  <2>2. StopActive \/ UNCHANGED socketVars
    BY <1>2 DEF BeginStart
  <2>3. UNCHANGED procVars /\ cmd' # "launch"
    BY <1>2 DEF BeginStart
  <2>4. session \in Int /\ Sessions \subseteq Int
    BY DEF Sessions
  <2>5. active' = active /\ path' = path
        /\ \A m \in Sessions : mgmt'[m] # mgmt[m] => mgmt[m] = "connected" /\ mgmt'[m] = "closed"
    BY <2>2, Stopped DEF socketVars
  <2>6. \A m \in Sessions : mgmt'[m] \in {"accepting", "connected"} => Among(active', m)
    BY <2>5 DEF OwnSocket
  <2>7. \A s \in Sessions : proc'[s] = "up" =>
          conn'[s] \in Sessions /\ mgmt'[conn'[s]] \in {"connected", "closed", "ended"}
    BY <2>3, <2>5 DEF OwnSocket
  <2>8. \A m \in Sessions : m >= session' => mgmt'[m] = "none"
    <3> SUFFICES ASSUME NEW m \in Sessions, m >= session' PROVE mgmt'[m] = "none"
      OBVIOUS
    <3>1. m > session
      BY <2>1, <2>4
    <3>2. mgmt[m] = "none"
      BY <3>1 DEF OwnSocket
    <3> QED BY <2>5, <3>2
  <2>9. \A m \in Sessions : m > session' => m >= session'
    BY <2>1, <2>4
  <2>10. session' >= session'
    BY <2>1, <2>4
  <2> QED BY <2>1, <2>3, <2>6, <2>7, <2>8, <2>9, <2>10 DEF OwnSocket
<1>3. CASE SleepOver \/ ForceStop \/ ForceOver \/ OldStopped \/ PostReceiver
  BY <1>3 DEF SleepOver, ForceStop, ForceOver, OldStopped, PostReceiver, OwnSocket, Stopping,
              socketVars
<1>4. CASE OpenManagement
  <2>1. session \in Sessions /\ proc[session] = "none" /\ mgmt[session] = "none"
    BY <1>4 DEF OpenManagement, Command, PreLaunch, OwnSocket
  <2>2. UNCHANGED <<session, procVars, active>> /\ cmd' \in {"launch", "failed"}
        /\ (cmd' = "launch" => path' = session /\ mgmt' = [mgmt EXCEPT ![session] = "created"])
        /\ (cmd' = "failed" => mgmt' = mgmt /\ path' = path)
    BY <1>4 DEF OpenManagement, GiveUpStart, socketVars
  <2>3. session \in Int /\ Sessions \subseteq Int
    BY DEF Sessions
  <2>4. \A m \in Sessions : mgmt'[m] # mgmt[m] => m = session /\ mgmt'[m] = "created"
    BY <2>2
  <2>5. \A m \in Sessions : mgmt'[m] \in {"accepting", "connected"} => Among(active', m)
    BY <2>2, <2>4 DEF OwnSocket
  <2>6. \A s \in Sessions : proc'[s] = "up" =>
          conn'[s] \in Sessions /\ mgmt'[conn'[s]] \in {"connected", "closed", "ended"}
    <3> SUFFICES ASSUME NEW s \in Sessions, proc'[s] = "up"
                 PROVE  conn'[s] \in Sessions /\ mgmt'[conn'[s]] \in {"connected", "closed", "ended"}
      OBVIOUS
    <3>1. conn'[s] = conn[s] /\ conn[s] \in Sessions
          /\ mgmt[conn[s]] \in {"connected", "closed", "ended"}
      BY <2>2 DEF OwnSocket
    <3> QED BY <2>1, <2>4, <3>1
  <2>7. \A m \in Sessions : m > session' => mgmt'[m] = "none"
    <3> SUFFICES ASSUME NEW m \in Sessions, m > session' PROVE mgmt'[m] = "none"
      OBVIOUS
    <3>1. m > session /\ m # session
      BY <2>1, <2>2, <2>3
    <3> QED BY <2>4, <3>1 DEF OwnSocket
  <2> QED BY <2>1, <2>2, <2>5, <2>6, <2>7 DEF OwnSocket, Stopping
<1>5. CASE Launch
  BY <1>5 DEF Launch, OwnSocket, Command, Stopping, socketVars
<1>6. CASE WriteConfig
  BY <1>6 DEF WriteConfig, GiveUpStart, OwnSocket, Command, Stopping, socketVars
<1>7. CASE OnRevoke \/ OnStartCommand \/ RunPosted \/ UNCHANGED vars
  BY <1>7 DEF OnRevoke, OnStartCommand, RunPosted, vars, socketVars, OwnSocket
<1>8. ASSUME NEW a \in Actors, EndVpnService(a) PROVE OwnSocket'
  <2>1. UNCHANGED <<session, socketVars, procVars>> /\ (cmd' = cmd \/ cmd' = "idle")
    BY <1>8, EndFrame
  <2> QED BY <2>1 DEF OwnSocket, socketVars, Stopping
<1>9. ASSUME NEW s \in Sessions, ThreadStep(s) \/ LogLine(s) \/ ProcQuits(s) \/ ProcExit(s) PROVE OwnSocket'
  <2>1. session' = session /\ cmd' = cmd
    BY <1>9, SessionFrame
  <2>2. \A m \in Sessions : mgmt'[m] \in {"accepting", "connected"} => Among(active', m)
    BY <1>9, SessionListed DEF OwnSocket
  <2>3. \A r \in Sessions : proc'[r] = "up" =>
          conn'[r] \in Sessions /\ mgmt'[conn'[r]] \in {"connected", "closed", "ended"}
    <3> SUFFICES ASSUME NEW r \in Sessions, proc'[r] = "up"
                 PROVE  conn'[r] \in Sessions /\ mgmt'[conn'[r]] \in {"connected", "closed", "ended"}
      OBVIOUS
    <3>1. conn'[r] = conn[r]
      BY <1>9, SessionEffect
    <3>2. CASE proc[r] = "up"
      <4>1. conn[r] \in Sessions /\ mgmt[conn[r]] \in {"connected", "closed", "ended"}
        BY <3>2 DEF OwnSocket
      <4> QED BY <1>9, <3>1, <4>1, SessionEffect
    <3>3. CASE proc[r] # "up"
      BY <1>9, <3>1, <3>3, SessionEffect
    <3> QED BY <3>2, <3>3
  <2>4. \A m \in Sessions : mgmt[m] = "none" => mgmt'[m] = "none"
    BY <1>9, SessionEffect
  <2>5. ASSUME session # NoSession
        PROVE  /\ proc'[session] # "none" \/ cmd = "launch" => path' = session
               /\ proc'[session] \in {"queued", "up"} => conn'[session] = session
    <3>1. session \in Sessions
      BY <2>5
    <3>2. proc'[session] # "none" \/ cmd = "launch" => path' = session
      BY <1>9, <2>5, <3>1, SessionEffect, SessionFrame DEF OwnSocket
    <3>3. CASE proc'[session] = "up"
      BY <1>9, <2>5, <3>1, <3>3, SessionEffect DEF OwnSocket
    <3>4. CASE proc'[session] = "queued"
      <4>1. path = session
        BY <1>9, <2>5, <3>1, <3>2, <3>4, SessionEffect
      <4>2. CASE proc[session] = "queued"
        BY <1>9, <2>5, <3>1, <4>1, <4>2, SessionEffect DEF OwnSocket
      <4>3. CASE proc[session] # "queued"
        BY <1>9, <3>1, <3>4, <4>1, <4>3, SessionEffect
      <4> QED BY <4>2, <4>3
    <3> QED BY <3>2, <3>3, <3>4
  <2> QED BY <2>1, <2>2, <2>3, <2>4, <2>5 DEF OwnSocket
<1> QED BY <1>1, <1>2, <1>3, <1>4, <1>5, <1>6, <1>7, <1>8, <1>9 DEF Next, CommandStep

\* A session that is lost stays lost until the next start.
LEMMA LostStays ==
    ASSUME TypeOK, Command, OwnSocket, session \in Sessions, Lost,
           NEW s \in Sessions, ThreadStep(s) \/ LogLine(s) \/ ProcQuits(s) \/ ProcExit(s)
    PROVE  Lost'
<1>1. /\ session' = session /\ cmd' = cmd /\ tasks' = tasks
      /\ proc'[session] = "none" <=> proc[session] = "none"
  BY SessionFrame DEF queueVars
<1>2. CASE proc[session] \in Gone /\ cmd \notin {"open", "launch"}
  <2>1. proc'[session] \in Gone
    BY <1>1, <1>2, SessionEffect DEF Gone
  <2> QED BY <1>1, <1>2, <2>1 DEF Lost
<1>3. CASE proc[session] = "up" /\ mgmt[conn[session]] \in {"closed", "ended"}
  <2>1. conn[session] \in Sessions /\ cmd \notin {"open", "launch"}
    BY <1>3 DEF OwnSocket, Command, PreLaunch
  <2>2. proc'[session] \in {"up", "quitting", "exited"} /\ conn'[session] = conn[session]
    BY <1>3, SessionEffect
  <2>3. mgmt'[conn[session]] \in {"closed", "ended"}
    BY <1>3, <2>1, SessionEffect
  <2> QED BY <1>1, <2>1, <2>2, <2>3 DEF Lost, Gone
<1>4. CASE tasks = <<StopTask>>
  BY <1>1, <1>4 DEF Lost
<1> QED BY <1>2, <1>3, <1>4 DEF Lost

LEMMA UntouchedStep ==
    ASSUME TypeOK, Order, Command, ~hurry, Leisure, [Next]_vars
    PROVE  Untouched'
<1> USE ActorFacts DEF Leisure, queueVars, serviceVars, procVars
<1>1. CASE RunStop
  <2>1. tasks # <<>> /\ Head(tasks) = StopTask /\ cmd' = "idle"
        /\ UNCHANGED <<session, procVars>> /\ StopActive
    BY <1>1 DEF RunStop, TypeOK
  <2>2. session \in Sessions /\ proc[session] \in {"up", "quitting", "exited"}
    BY <2>1 DEF OneTask, TypeOK
  <2>3. CASE proc[session] = "up"
    <3>1. conn[session] = session /\ mgmt[session] \in {"connected", "closed", "ended"}
      BY <2>2, <2>3 DEF OwnSocket
    <3>2. mgmt'[session] \in {"closed", "ended"}
      BY <2>1, <2>2, <3>1, Stopped
    <3> QED BY <2>1, <2>3, <3>1, <3>2 DEF Untouched, Lost
  <2>4. CASE proc[session] # "up"
    BY <2>1, <2>2, <2>4 DEF Untouched, Lost, Gone
  <2> QED BY <2>3, <2>4
<1>2. CASE BeginStart \/ SleepOver \/ ForceStop \/ ForceOver
  <2>1. cmd' \in Stopping
    BY <1>2 DEF BeginStart, SleepOver, ForceStop, ForceOver, Stopping
  <2> QED BY <2>1 DEF Untouched
<1>3. CASE OldStopped
  <2>1. /\ UNCHANGED <<session, ending, selfStopped, proc>> /\ cmd = "sleptOut" /\ cmd' = "open"
        /\ \A s \in Sessions : Ended(s)
    BY <1>3 DEF OldStopped
  <2>2. proc[session] = "none" /\ ~selfStopped /\ ending[CommandThread] = "no"
        /\ ending[MainThread] = "no"
    BY <2>1 DEF Command, PreLaunch, Stopping, StartOnWay, OneTask, TypeOK
  <2>3. \A s \in Sessions : ending[s] \in {"no", "done"}
    BY <2>1 DEF Ended, TypeOK
  <2>4. NobodyEnds
    BY <2>2, <2>3 DEF NobodyEnds, Actors
  <2>5. NobodyEnds'
    BY <2>1, <2>4 DEF NobodyEnds
  <2> QED BY <2>1, <2>2, <2>5 DEF Untouched
<1>4. CASE OpenManagement \/ Launch
  <2>1. session \in Sessions /\ cmd \in {"open", "launch"} /\ proc[session] = "none"
        /\ tasks = <<>>
    BY <1>4 DEF OpenManagement, Launch, Command, PreLaunch, OneTask, TypeOK
  <2>2. ~Lost /\ cmd \notin Stopping \cup {"failed"}
    BY <2>1 DEF Lost, Stopping
  <2>3. NobodyEnds /\ ~selfStopped /\ (cmd # "open" => mManagement = session)
    BY <2>1, <2>2 DEF Untouched
  <2>4. CASE OpenManagement
    <3>1. CASE cmd' = "failed"
      BY <3>1 DEF Untouched
    <3>2. CASE cmd' # "failed"
      <4>1. UNCHANGED <<session, ending, selfStopped, proc>> /\ mManagement' = session
            /\ cmd' = "launch"
        BY <2>4, <3>2 DEF OpenManagement, GiveUpStart
      <4>2. NobodyEnds'
        BY <2>3, <4>1 DEF NobodyEnds
      <4> QED BY <2>1, <2>3, <4>1, <4>2 DEF Untouched
    <3> QED BY <3>1, <3>2
  <2>5. CASE Launch
    <3>1. UNCHANGED <<session, ending, selfStopped, mManagement>> /\ mProcessThread' = session
          /\ cmd = "launch" /\ cmd' = "config"
      BY <2>5 DEF Launch
    <3>2. NobodyEnds'
      BY <2>3, <3>1 DEF NobodyEnds
    <3> QED BY <2>1, <2>3, <3>1, <3>2 DEF Untouched
  <2> QED BY <1>4, <2>4, <2>5
<1>5. CASE WriteConfig
  <2>1. CASE cmd' = "failed"
    BY <2>1 DEF Untouched
  <2>2. CASE cmd' # "failed"
    <3>1. /\ UNCHANGED <<session, ending, serviceVars>> /\ cmd = "config" /\ cmd' = "post"
          /\ proc[session] = "launched" /\ session \in Sessions /\ tasks = <<>>
      BY <1>5, <2>2 DEF WriteConfig, GiveUpStart, Command, OneTask, TypeOK
    <3>2. ~Lost
      BY <3>1 DEF Lost, Gone
    <3>3. NobodyEnds /\ ~selfStopped /\ mManagement = session /\ mProcessThread = session
      BY <3>1, <3>2 DEF Untouched, Stopping
    <3>4. NobodyEnds'
      BY <3>1, <3>3 DEF NobodyEnds
    <3> QED BY <3>1, <3>3, <3>4 DEF Untouched
  <2> QED BY <2>1, <2>2
<1>6. CASE PostReceiver
  <2>1. /\ UNCHANGED <<session, tasks, ending, serviceVars, mgmt, proc, conn>>
        /\ cmd = "post" /\ cmd' = "idle" /\ posted' # <<>>
    <3>1. UNCHANGED <<session, tasks, ending, serviceVars, mgmt, proc, conn>>
      BY <1>6 DEF PostReceiver, socketVars, procVars
    <3>2. cmd = "post" /\ cmd' = "idle"
      BY <1>6 DEF PostReceiver
    <3>3. posted' # <<>>
      <4>1. posted' = Append(posted, [old |-> mDeviceStateReceiver, new |-> session])
            /\ Len(posted) \in Nat
        BY <1>6 DEF PostReceiver, TypeOK
      <4>2. Len(posted') = Len(posted) + 1
        BY <4>1, <1>6 DEF TypeOK
      <4> QED BY <4>1, <4>2
    <3> QED BY <3>1, <3>2, <3>3
  <2>2. Lost <=> Lost'
    BY <2>1 DEF Lost
  <2>3. NobodyEnds <=> NobodyEnds'
    BY <2>1 DEF NobodyEnds
  <2> QED BY <2>1, <2>2, <2>3 DEF Untouched, Stopping
<1>7. CASE RunPosted
  <2>1. PICK r \in [old : {NoSession} \cup Sessions, new : Sessions] :
          /\ posted = <<r>> /\ r.new = session
          /\ r.old = mDeviceStateReceiver \/ mDeviceStateReceiver = NoSession
    BY <1>7 DEF RunPosted, OneReceiver
  <2>2. Head(posted) = r
    BY <2>1
  <2>3. registered' = {session} /\ mDeviceStateReceiver' = session
    BY <1>7, <2>1, <2>2 DEF RunPosted, OneReceiver, TypeOK
  <2>4. UNCHANGED <<session, tasks, cmd, ending, mManagement, mProcessThread, selfStopped,
                    mgmt, proc, conn>>
    BY <1>7 DEF RunPosted, socketVars
  <2>5. Lost <=> Lost'
    BY <2>4 DEF Lost
  <2>6. NobodyEnds <=> NobodyEnds'
    BY <2>4 DEF NobodyEnds
  <2> QED BY <2>3, <2>4, <2>5, <2>6 DEF Untouched
<1>8. CASE StopVPN
  <2>1. UNCHANGED <<session, tasks, cmd, posted, ending, serviceVars, proc, conn>> /\ StopActive
    BY <1>8 DEF StopVPN
  <2>2. session # NoSession /\ Lost => Lost'
    <3> SUFFICES ASSUME session # NoSession, Lost PROVE Lost'
      OBVIOUS
    <3>1. session \in Sessions
      BY DEF TypeOK
    <3>2. CASE proc[session] = "up" /\ mgmt[conn[session]] \in {"closed", "ended"}
      <4>1. conn[session] \in Sessions
        BY <3>1, <3>2 DEF OwnSocket
      <4>2. mgmt'[conn[session]] \in {"closed", "ended"}
        BY <2>1, <3>2, <4>1, Stopped
      <4> QED BY <2>1, <3>2, <4>2 DEF Lost
    <3>3. CASE ~(proc[session] = "up" /\ mgmt[conn[session]] \in {"closed", "ended"})
      BY <2>1, <3>3 DEF Lost
    <3> QED BY <3>2, <3>3
  <2>3. NobodyEnds <=> NobodyEnds'
    BY <2>1 DEF NobodyEnds
  <2> QED BY <2>1, <2>2, <2>3 DEF Untouched
<1>9. CASE OnRevoke
  <2>1. tasks' = <<StopTask>>
    BY <1>9, AppendOne DEF OnRevoke, Settled
  <2> QED BY <2>1 DEF Untouched, Lost
<1>10. CASE OnStartCommand
  <2>1. /\ UNCHANGED <<session, cmd, posted, ending, mManagement, mProcessThread,
                       mDeviceStateReceiver, registered, mgmt, proc, conn>>
        /\ tasks = <<>> /\ selfStopped' = FALSE
    BY <1>10 DEF OnStartCommand, Settled, socketVars
  <2>2. Lost => Lost'
    BY <2>1 DEF Lost
  <2>3. NobodyEnds <=> NobodyEnds'
    BY <2>1 DEF NobodyEnds
  <2> QED BY <2>1, <2>2, <2>3 DEF Untouched
<1>11. ASSUME NEW a \in Actors, EndVpnService(a) PROVE Untouched'
  <2> SUFFICES ASSUME session' # NoSession, cmd' \notin Stopping \cup {"failed"}, ~Lost'
               PROVE  FALSE
    BY DEF Untouched
  <2>1. /\ UNCHANGED <<session, tasks, mgmt, proc, conn>>
        /\ ending[a] \notin {"no", "done"} /\ ~NobodyEnds
        /\ cmd' = cmd \/ (a = CommandThread /\ cmd' = "idle")
    BY <1>11, EndFrame DEF socketVars, NobodyEnds
  <2>2. CASE cmd' = cmd
    <3>1. ~Lost
      BY <2>1, <2>2 DEF Lost
    <3> QED BY <2>1, <2>2, <3>1 DEF Untouched
  <2>3. CASE cmd' # cmd
    <3>1. cmd = "failed" /\ proc[session] \in Gone /\ cmd' = "idle"
      BY <2>1, <2>3 DEF Command, StartOnWay
    <3> QED BY <2>1, <3>1 DEF Lost
  <2> QED BY <2>2, <2>3
<1>12. ASSUME NEW s \in Sessions, ThreadStep(s) \/ LogLine(s) \/ ProcQuits(s) \/ ProcExit(s) PROVE Untouched'
  <2>1. /\ UNCHANGED <<queueVars, serviceVars>>
        /\ \A r \in Sessions : proc'[r] = "none" <=> proc[r] = "none"
        /\ \A a \in Actors : ending'[a] # ending[a] =>
                a = s /\ ending[a] = "no" /\ ending'[a] = "lock"
    BY <1>12, SessionFrame DEF TypeOK
  <2> SUFFICES ASSUME session \in Sessions, cmd \notin Stopping \cup {"failed"}, ~Lost'
               PROVE  /\ NobodyEnds' /\ ~selfStopped
                      /\ cmd # "open" => mManagement = session
                      /\ proc[session] # "none" => mProcessThread = session
                      /\ cmd = "idle" /\ posted = <<>> =>
                           mDeviceStateReceiver = session /\ registered = {session}
    BY <2>1 DEF Untouched, TypeOK
  <2>2. ~Lost
    BY <1>12, LostStays
  <2>3. \A a \in Actors : ending'[a] = ending[a]
    <3> SUFFICES ASSUME ending'[s] # ending[s] PROVE FALSE
      BY <2>1
    <3>1. ending[s] = "no" /\ ending'[s] = "lock" /\ proc'[s] \in {"quitting", "exited"}
      <4>1. TypeOK'
        BY TypeStep
      <4> QED BY <2>1, <4>1 DEF TypeOK
    <3>2. s = session
      BY <2>1, <3>1 DEF OthersEnded, Ended
    <3>3. cmd \notin {"open", "launch"}
      BY <2>1, <3>1, <3>2 DEF Command, PreLaunch
    <3> QED BY <2>1, <3>1, <3>2, <3>3 DEF Lost, Gone
  <2>4. NobodyEnds'
    BY <2>2, <2>3 DEF Untouched, NobodyEnds
  <2> QED BY <2>2, <2>4 DEF Untouched
<1>13. CASE UNCHANGED vars
  <2>1. UNCHANGED <<session, tasks, cmd, posted, ending, mManagement, mProcessThread, selfStopped,
                    mDeviceStateReceiver, registered, mgmt, proc, conn>>
    BY <1>13 DEF vars, socketVars
  <2>2. (Lost <=> Lost') /\ (NobodyEnds <=> NobodyEnds')
    BY <2>1 DEF Lost, NobodyEnds
  <2> QED BY <2>1, <2>2 DEF Untouched
<1> QED BY <1>1, <1>2, <1>3, <1>4, <1>5, <1>6, <1>7, <1>8, <1>9, <1>10, <1>11, <1>12, <1>13
        DEF Next, CommandStep

-----------------------------------------------------------------------------
(* The theorems.                                                           *)

LEMMA InitInv == Init => IInv
<1> SUFFICES ASSUME Init PROVE IInv
  OBVIOUS
<1>1. tasks = <<>> /\ Len(tasks) = 0
  BY DEF Init
<1>2. Order
  BY <1>1 DEF Init, Order, NoSession
<1>3. Command
  BY ActorFacts DEF Init, Command, PreLaunch, Stopping
<1>4. ThreadKept /\ EndAwaited
  BY DEF Init, ThreadKept, EndAwaited
<1> QED BY <1>2, <1>3, <1>4, InitType DEF IInv

LEMMA NextInv == IInv /\ [Next]_vars => IInv'
BY TypeStep, OrderStep, CommandInv, ThreadKeptStep, AwaitedStep DEF IInv

LEMMA LInit == Init => LInv
<1> SUFFICES ASSUME Init PROVE Leisure
  BY InitInv DEF LInv
<1>1. posted = <<>> /\ tasks = <<>> /\ cmd = "idle" /\ session = NoSession /\ registered = {}
      /\ ending = [a \in Actors |-> "no"]
      /\ mgmt = [s \in Sessions |-> "none"] /\ proc = [s \in Sessions |-> "none"]
  BY DEF Init
<1>2. OneTask /\ StartOnWay
  BY <1>1, ActorFacts DEF OneTask, StartOnWay, Stopping
<1>3. OthersEnded
  BY <1>1 DEF OthersEnded, Ended
<1>4. OneReceiver
  BY <1>1 DEF OneReceiver
<1>5. OwnSocket
  BY <1>1 DEF OwnSocket
<1> QED BY <1>1, <1>2, <1>3, <1>4, <1>5 DEF Leisure, Untouched

LEMMA LNext == LInv /\ [Next]_vars => LInv'
<1> SUFFICES ASSUME LInv, [Next]_vars PROVE LInv'
  OBVIOUS
<1>1. IInv'
  BY NextInv DEF LInv
<1>2. hurry' = hurry
  BY DEF Next, CommandStep, ThreadStep, EndVpnService, StopVPN, OnRevoke, OnStartCommand, RunStop,
         BeginStart, SleepOver, ForceStop, ForceOver, OldStopped, OpenManagement, Launch,
         WriteConfig, PostReceiver, RunPosted, EndLock, EndUnregister, EndForget, EndService,
         ThreadEnds, MgmtRuns, Accept, MgmtEnds, ProcConnect, ProcTold, LogLine, ProcQuits, ProcExit,
         vars
<1>3. ASSUME ~hurry PROVE Leisure'
  <2>1. TypeOK /\ Order /\ Command /\ Leisure
    BY <1>3 DEF LInv, IInv
  <2>2. OneTask' /\ OthersEnded' /\ StartOnWay' /\ OneReceiver' /\ OwnSocket' /\ Untouched'
    BY <1>3, <2>1, OneTaskStep, OthersEndedStep, StartOnWayStep, OneReceiverStep, OwnSocketStep,
       UntouchedStep
  <2> QED BY <2>2 DEF Leisure
<1> QED BY <1>1, <1>2, <1>3 DEF LInv

LEMMA Invariant == Spec => []IInv
BY InitInv, NextInv, PTL DEF Spec

\* Every variable of the service keeps its range, starts included (a start is begun with
\* the id it was asked for with), and a thread that ends the service has no process that
\* still runs: it has exited, or an interrupted waitFor left it quitting.
THEOREM TypeCorrect == Spec => []TypeOK
<1>1. IInv => TypeOK
  BY DEF IInv
<1> QED BY <1>1, Invariant, PTL

\* After the last session nothing of it is left, however many sessions there were and
\* whatever crossed: endVpnService undoes startOpenVPN on every path of it.
THEOREM EverythingTornDown == Spec => []TornDown
<1>1. IInv => TornDown
  <2> SUFFICES ASSUME IInv, Settled, session # NoSession, \A s \in Sessions : Ended(s)
               PROVE  /\ mProcessThread = NoSession
                      /\ ~profileSet /\ (selfStopped \/ AlwaysVisible) /\ ~mStarting
    BY DEF TornDown
  <2>1. cmd = "idle" /\ Len(tasks) = 0
    BY DEF Settled
  <2>2. mProcessThread \in {NoSession} \cup Sessions /\ session \in Sessions
    BY ActorFacts DEF IInv, TypeOK
  <2>3. mProcessThread = NoSession
    BY <2>2 DEF IInv, ThreadKept, Ended
  <2>4. ~EndPending /\ ~StartQueued
    BY <2>1, <2>2 DEF EndPending, StartQueued, Ended, PreLaunch, Stopping
  <2> QED BY <2>1, <2>3, <2>4 DEF IInv, EndAwaited, Command, Stopping
<1> QED BY <1>1, Invariant, PTL

\* At leisure - if the sleeps of stopOldOpenVPNProcess suffice and starts and revocations
\* wait for the service to settle - a session that is up after it has replaced others has
\* its own socket, thread, management thread and receiver, and the service runs.
THEOREM ReplacementWhole == Spec => []ReplacedWhole
<1>1. LInv => ReplacedWhole
  <2> SUFFICES ASSUME LInv, ~hurry, Settled, session # NoSession, IsUp(session)
               PROVE  /\ conn[session] = session
                      /\ mProcessThread = session
                      /\ mManagement = session
                      /\ mDeviceStateReceiver = session
                      /\ registered = {session}
                      /\ ~selfStopped
    BY DEF ReplacedWhole
  <2>1. session \in Sessions /\ proc[session] = "up" /\ Leisure /\ cmd = "idle" /\ tasks = <<>>
        /\ posted = <<>> /\ mgmt[conn[session]] = "connected"
    BY ActorFacts DEF LInv, IInv, TypeOK, Settled, IsUp
  <2>2. ~Lost
    BY <2>1 DEF Lost, Gone
  <2> QED BY <2>1, <2>2 DEF Leisure, OwnSocket, Untouched, Stopping
<1>2. Spec => []LInv
  BY LInit, LNext, PTL DEF Spec
<1> QED BY <1>1, <1>2, PTL
=============================================================================
