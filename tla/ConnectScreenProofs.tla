------------------------- MODULE ConnectScreenProofs -------------------------
(***************************************************************************)
(* The connect screen hears what the VPN does, two of its spinners have an *)
(* end, and what was called off does not disconnect unless it is revived:  *)
(* for queues of any length and any number of runnables and attempts.      *)
(***************************************************************************)
EXTENDS ConnectScreen, TLAPS

USE RelayAssumption, ScreenAssumption DEF RelayAssumption, ScreenAssumption

-----------------------------------------------------------------------------
\* The handler's last message carries the most recent status.
Latest == posted # <<>> => posted[Len(posted)] = mostRecent

\* An unbound screen has heard nothing yet, or the service has died and is as new.
Unbound ==
    registration = "none" =>
        \/ hot = "DISCONNECTED" /\ inbox = <<>>
        \/ tunnel = "off" /\ mostRecent = "NOPROCESS" /\ posted = <<>>

\* Between the steps of a registration the screen is new, or about to hear NOPROCESS.
Binding ==
    registration = "sent" => hot = "DISCONNECTED" \/ "NOPROCESS" \in ToSet(inbox)

\* As long as a runnable that was called off is not revived, adShown is set.
CalledOff == \A p \in ToSet(pollers) : p.fate = "stopped" => adShown

IInv ==
    /\ TypeOK /\ Latest /\ StatusMirrored
    /\ Unbound /\ Binding /\ SpinnerEnds /\ CalledOff

-----------------------------------------------------------------------------
\* What Append does to the length, the elements and the last one.
LEMMA Appended ==
    ASSUME NEW S, NEW s \in Seq(S), NEW x \in S
    PROVE  /\ Append(s, x) \in Seq(S) /\ Append(s, x) # <<>>
           /\ Len(Append(s, x)) = Len(s) + 1
           /\ Append(s, x)[Len(Append(s, x))] = x
           /\ ToSet(Append(s, x)) = ToSet(s) \cup {x}
<1>1. Append(s, x) \in Seq(S) /\ Len(s) \in Nat /\ Len(Append(s, x)) = Len(s) + 1
  OBVIOUS
<1>0. Append(s, x) # <<>>
  BY <1>1
<1>2. Append(s, x)[Len(Append(s, x))] = x
  OBVIOUS
<1>3. \A i \in 1 .. Len(s) : Append(s, x)[i] = s[i]
  OBVIOUS
<1>4. DOMAIN s = 1 .. Len(s) /\ DOMAIN Append(s, x) = 1 .. Len(s) + 1
  BY <1>1
<1>5. \A y : y \in ToSet(Append(s, x)) <=> y \in ToSet(s) \/ y = x
  BY <1>1, <1>2, <1>3, <1>4 DEF ToSet
<1>6. ToSet(Append(s, x)) = ToSet(s) \cup {x}
  BY <1>5
<1> QED BY <1>0, <1>1, <1>2, <1>6

\* What Tail leaves of a sequence that is not empty.
LEMMA Taken ==
    ASSUME NEW S, NEW s \in Seq(S), s # <<>>
    PROVE  /\ Tail(s) \in Seq(S) /\ Len(Tail(s)) = Len(s) - 1
           /\ Head(s) \in S
           /\ ToSet(s) = ToSet(Tail(s)) \cup {Head(s)}
           /\ Tail(s) # <<>> => Tail(s)[Len(Tail(s))] = s[Len(s)]
           /\ Tail(s) = <<>> => Head(s) = s[Len(s)]
<1>1. Tail(s) \in Seq(S) /\ Len(Tail(s)) = Len(s) - 1 /\ Head(s) \in S /\ Len(s) \in Nat \ {0}
  OBVIOUS
<1>2. \A i \in 1 .. Len(s) - 1 : Tail(s)[i] = s[i + 1]
  OBVIOUS
<1>3. Head(s) = s[1] /\ DOMAIN s = 1 .. Len(s) /\ DOMAIN Tail(s) = 1 .. Len(s) - 1
  BY <1>1
<1>4. \A y : y \in ToSet(s) => y \in ToSet(Tail(s)) \cup {Head(s)}
  <2> SUFFICES ASSUME NEW i \in 1 .. Len(s), i # 1
               PROVE  s[i] \in ToSet(Tail(s))
    BY <1>3 DEF ToSet
  <2>1. i - 1 \in 1 .. Len(s) - 1 /\ Tail(s)[i - 1] = s[i]
    BY <1>1, <1>2
  <2> QED BY <2>1, <1>3 DEF ToSet
<1>5. \A y : y \in ToSet(Tail(s)) \cup {Head(s)} => y \in ToSet(s)
  BY <1>1, <1>2, <1>3 DEF ToSet
<1>6. ToSet(s) = ToSet(Tail(s)) \cup {Head(s)}
  BY <1>4, <1>5
<1>7. Tail(s) # <<>> => Len(s) - 1 \in 1 .. Len(s) - 1
  BY <1>1
<1>8. Tail(s) = <<>> => Len(s) = 1
  <2> DEFINE t == Tail(s)
  <2> HIDE DEF t
  <2>1. t = <<>> => Len(t) = 0 OBVIOUS
  <2>2. Len(t) = Len(s) - 1 BY <1>1 DEF t
  <2> QED BY <1>1, <2>1, <2>2 DEF t
<1> QED BY <1>1, <1>2, <1>3, <1>6, <1>7, <1>8

\* Two sequences of runnables that differ in their fates at most.
Alike(s, t) ==
    /\ t \in Seq(Poller) /\ Len(t) = Len(s)
    /\ \A i \in 1 .. Len(s) : t[i].jump = s[i].jump

\* Calling off and reviving keep the runnables and what they are to do.
LEMMA Fated ==
    ASSUME NEW s \in Seq(Poller), NEW t,
           DOMAIN t = DOMAIN s, t = [i \in DOMAIN s |-> t[i]],
           \A i \in DOMAIN s : t[i] \in Poller /\ t[i].jump = s[i].jump
    PROVE  Alike(s, t)
<1>1. Len(s) \in Nat /\ DOMAIN s = 1 .. Len(s) OBVIOUS
<1>2. t \in [1 .. Len(s) -> Poller] BY <1>1
<1>3. t \in Seq(Poller) /\ Len(t) = Len(s) BY <1>1, <1>2
<1> QED BY <1>1, <1>3 DEF Alike

LEMMA StoppedAlike ==
    ASSUME NEW s \in Seq(Poller)
    PROVE  Alike(s, Stopped(s))
<1> DEFINE t == Stopped(s)
<1>1. DOMAIN t = DOMAIN s /\ t = [i \in DOMAIN s |-> t[i]] BY DEF Stopped
<1>2. ASSUME NEW i \in DOMAIN s PROVE t[i] \in Poller /\ t[i].jump = s[i].jump
  <2>1. s[i] \in Poller OBVIOUS
  <2>2. t[i] = [s[i] EXCEPT !.fate = "stopped"] BY DEF Stopped
  <2> QED BY <2>1, <2>2 DEF Poller
<1> HIDE DEF t
<1>3. Alike(s, t) BY <1>1, <1>2, Fated
<1> QED BY <1>3 DEF t

LEMMA RevivedAlike ==
    ASSUME NEW s \in Seq(Poller)
    PROVE  /\ Alike(s, Revived(s))
           /\ \A p \in ToSet(Revived(s)) : p.fate # "stopped"
<1> DEFINE t == Revived(s)
<1>1. DOMAIN t = DOMAIN s /\ t = [i \in DOMAIN s |-> t[i]] BY DEF Revived
<1>2. ASSUME NEW i \in DOMAIN s
      PROVE  t[i] \in Poller /\ t[i].jump = s[i].jump /\ t[i].fate # "stopped"
  <2>1. s[i] \in Poller OBVIOUS
  <2>2. t[i] = IF s[i].fate = "stopped" THEN [s[i] EXCEPT !.fate = "revived"] ELSE s[i]
    BY DEF Revived
  <2> QED BY <2>1, <2>2 DEF Poller
<1> HIDE DEF t
<1>3. Alike(s, t) BY <1>1, <1>2, Fated
<1>4. \A p \in ToSet(t) : p.fate # "stopped" BY <1>1, <1>2 DEF ToSet
<1> QED BY <1>3, <1>4 DEF t

\* Some runnable is to do `j`; none is called off.
Has(s, j) == \E p \in ToSet(s) : p.jump = j
NoneStopped(s) == \A p \in ToSet(s) : p.fate # "stopped"

\* What sequences that are alike share.
LEMMA AlikeSame ==
    ASSUME NEW s \in Seq(Poller), NEW t, Alike(s, t)
    PROVE  /\ t \in Seq(Poller) /\ Len(t) = Len(s)
           /\ \A j : Has(s, j) <=> Has(t, j)
<1>1. /\ t \in Seq(Poller) /\ Len(t) = Len(s) /\ Len(s) \in Nat
      /\ DOMAIN s = 1 .. Len(s) /\ DOMAIN t = 1 .. Len(s)
      /\ \A i \in 1 .. Len(s) : t[i].jump = s[i].jump
  BY DEF Alike
<1>2. ASSUME NEW j PROVE Has(s, j) <=> Has(t, j)
  <2>1. Has(s, j) <=> (\E i \in 1 .. Len(s) : s[i].jump = j)
    BY <1>1 DEF ToSet, Has
  <2>2. Has(t, j) <=> (\E i \in 1 .. Len(s) : t[i].jump = j)
    BY <1>1 DEF ToSet, Has
  <2>3. (\E i \in 1 .. Len(s) : s[i].jump = j) <=> (\E i \in 1 .. Len(s) : t[i].jump = j)
    BY <1>1
  <2> QED BY <2>1, <2>2, <2>3
<1> QED BY <1>1, <1>2, Zenon

\* showConnectAd's runnables: those of before, revived, and a new one behind them.
Joining(s, j) == Append(Revived(s), [jump |-> j, left |-> Attempts, fate |-> "live"])

LEMMA Joined ==
    ASSUME NEW s \in Seq(Poller), NEW j \in Jumps
    PROVE  /\ Joining(s, j) \in Seq(Poller) /\ Len(Joining(s, j)) = Len(s) + 1
           /\ NoneStopped(Joining(s, j)) /\ Has(Joining(s, j), j)
           /\ \A k : Has(s, k) => Has(Joining(s, j), k)
<1> DEFINE q == [jump |-> j, left |-> Attempts, fate |-> "live"]
           u == Revived(s)
           t == Joining(s, j)
<1>1. q \in Poller /\ q.jump = j /\ q.fate # "stopped" BY DEF Poller
<1>2. Alike(s, u) /\ NoneStopped(u) BY RevivedAlike DEF NoneStopped
<1>3. t = Append(u, q) BY DEF Joining
<1> HIDE DEF q, u, t
<1>4. u \in Seq(Poller) /\ Len(u) = Len(s) /\ \A k : Has(s, k) <=> Has(u, k)
  BY <1>2, AlikeSame
<1>5. t \in Seq(Poller) /\ Len(t) = Len(u) + 1 /\ ToSet(t) = ToSet(u) \cup {q}
  <2>1. /\ Append(u, q) \in Seq(Poller) /\ Len(Append(u, q)) = Len(u) + 1
        /\ ToSet(Append(u, q)) = ToSet(u) \cup {q}
    BY <1>1, <1>4, Appended
  <2> QED BY <1>3, <2>1, Zenon
<1>6. Len(t) = Len(s) + 1 BY <1>4, <1>5
<1>7. NoneStopped(t) BY <1>1, <1>2, <1>5 DEF NoneStopped
<1>8. Has(t, j) BY <1>1, <1>5 DEF Has
<1>9. \A k : Has(s, k) => Has(t, k)
  <2>1. \A k : Has(u, k) => Has(t, k) BY <1>5, Zenon DEF Has
  <2> QED BY <1>4, <2>1, Zenon
<1> QED BY <1>5, <1>6, <1>7, <1>8, <1>9, Zenon DEF t

\* The same of the runnables themselves.
LEMMA JoinedPollers ==
    ASSUME pollers \in Seq(Poller), NEW j \in Jumps,
           pollers' = Append(Revived(pollers), [jump |-> j, left |-> Attempts, fate |-> "live"])
    PROVE  /\ pollers' \in Seq(Poller) /\ Len(pollers') = Len(pollers) + 1
           /\ NoneStopped(pollers') /\ Looking(j)'
           /\ Looking("endPage") => Looking("endPage")'
<1> DEFINE s == pollers
           t == pollers'
<1>1. s \in Seq(Poller) OBVIOUS
<1>2. t = Joining(s, j) BY DEF Joining
<1>3. \A k : (Has(s, k) <=> Looking(k)) /\ (Has(t, k) <=> Looking(k)') BY DEF Has, Looking
<1> HIDE DEF s, t
<1>4. /\ t \in Seq(Poller) /\ Len(t) = Len(s) + 1
      /\ NoneStopped(t) /\ Has(t, j)
      /\ \A k : Has(s, k) => Has(t, k)
  <2>1. /\ Joining(s, j) \in Seq(Poller) /\ Len(Joining(s, j)) = Len(s) + 1
        /\ NoneStopped(Joining(s, j)) /\ Has(Joining(s, j), j)
        /\ \A k : Has(s, k) => Has(Joining(s, j), k)
    BY <1>1, Joined, Zenon
  <2> QED BY <1>2, <2>1, Zenon
<1>5. Looking(j)' BY <1>3, <1>4, Zenon
<1>6. Looking("endPage") => Looking("endPage")' BY <1>3, <1>4, Zenon
<1> QED BY <1>4, <1>5, <1>6 DEF s, t

\* A runnable with one attempt less.
LEMMA OneLess ==
    ASSUME NEW p \in Poller, p.left > 1
    PROVE  /\ [p EXCEPT !.left = @ - 1] \in Poller
           /\ [p EXCEPT !.left = @ - 1].jump = p.jump
           /\ [p EXCEPT !.left = @ - 1].fate = p.fate
<1> DEFINE n == p.left - 1
<1>1. n \in 1 .. Attempts BY DEF Poller
<1>2. [p EXCEPT !.left = @ - 1] = [p EXCEPT !.left = n] BY DEF Poller
<1> HIDE DEF n
<1> QED BY <1>1, <1>2 DEF Poller

-----------------------------------------------------------------------------
\* The relay's own steps keep its types and what a registered client knows.
RelayInv == RelayTypeOK /\ Latest /\ StatusMirrored

LEMMA UpdateKeeps ==
    ASSUME RelayInv, NEW s \in Statuses, UpdateState(s)
    PROVE  /\ RelayInv'
           /\ ToSet(posted) \subseteq ToSet(posted')
           /\ s # "WAIT" => s \in ToSet(posted')
           /\ posted' # <<>> \/ UNCHANGED <<posted, mostRecent>>
<1> USE DEF RelayInv
<1>1. CASE UNCHANGED <<mostRecent, posted>> /\ s = "WAIT"
  BY <1>1 DEF UpdateState, RelayTypeOK, Latest, StatusMirrored
<1>2. CASE mostRecent' = s /\ posted' = Append(posted, s)
  <2>1. posted \in Seq(Statuses) BY DEF RelayTypeOK
  <2>2. /\ posted' \in Seq(Statuses) /\ posted' # <<>> /\ Len(posted') = Len(posted) + 1
        /\ posted'[Len(posted')] = s /\ ToSet(posted') = ToSet(posted) \cup {s}
    BY <1>2, <2>1, Appended
  <2>3. RelayTypeOK' BY <1>2, <2>1, <2>2 DEF UpdateState, RelayTypeOK
  <2>4. Latest' /\ StatusMirrored' BY <1>2, <2>2 DEF Latest, StatusMirrored
  <2> QED BY <2>2, <2>3, <2>4
<1> QED BY <1>1, <1>2 DEF UpdateState

LEMMA RegisterSendKeeps ==
    ASSUME RelayInv, RegisterSend
    PROVE  RelayInv' /\ ToSet(inbox') = ToSet(inbox) \cup {mostRecent}
<1>1. /\ inbox \in Seq(Statuses) /\ mostRecent \in Statuses
      /\ Len(inbox) \in Nat /\ Len(inbox) < MaxInbox
  BY DEF RelayInv, RelayTypeOK, RegisterSend
<1>2. /\ inbox' \in Seq(Statuses) /\ Len(inbox') = Len(inbox) + 1
      /\ ToSet(inbox') = ToSet(inbox) \cup {mostRecent}
  BY <1>1, Appended DEF RegisterSend, NewStatus
<1>5. Len(inbox') <= MaxInbox
  BY <1>1, <1>2
<1>3. RelayTypeOK'
  BY <1>1, <1>2, <1>5, Zenon DEF RelayInv, RelayTypeOK, RegisterSend, NewStatus
<1>4. Latest' /\ StatusMirrored'
  BY DEF RelayInv, RegisterSend, NewStatus, Latest, StatusMirrored
<1> QED BY <1>2, <1>3, <1>4 DEF RelayInv

LEMMA BroadcastKeeps ==
    ASSUME RelayInv, Broadcast
    PROVE  /\ RelayInv'
           /\ IF registration = "done"
              THEN ToSet(posted') \cup ToSet(inbox') = ToSet(posted) \cup ToSet(inbox)
              ELSE inbox' = inbox /\ posted # <<>>
           /\ registration' = registration
<1>1. /\ posted \in Seq(Statuses) /\ posted # <<>> /\ inbox \in Seq(Statuses)
      /\ Len(inbox) < MaxInbox /\ Len(inbox) \in Nat /\ Len(posted) <= MaxPosted
  BY DEF RelayInv, RelayTypeOK, Broadcast
<1>2. posted' = Tail(posted) BY DEF Broadcast
<1>3. /\ posted' \in Seq(Statuses) /\ Len(posted') = Len(posted) - 1 /\ Head(posted) \in Statuses
      /\ ToSet(posted) = ToSet(posted') \cup {Head(posted)}
      /\ posted' # <<>> => posted'[Len(posted')] = posted[Len(posted)]
      /\ posted' = <<>> => Head(posted) = posted[Len(posted)]
  BY <1>1, <1>2, Taken
<1>4. Len(posted') <= MaxPosted /\ Latest'
  BY <1>1, <1>3 DEF RelayInv, Latest, Broadcast
<1>5. CASE registration = "done"
  <2>1. inbox' = Append(inbox, Head(posted)) /\ heard' = Head(posted) /\ missed' = FALSE
    BY <1>5 DEF Broadcast, NewStatus
  <2>2. /\ inbox' \in Seq(Statuses) /\ Len(inbox') = Len(inbox) + 1
        /\ ToSet(inbox') = ToSet(inbox) \cup {Head(posted)}
    BY <1>1, <1>3, <2>1, Appended
  <2>5. Len(inbox') <= MaxInbox
    BY <1>1, <2>2
  <2>3. RelayTypeOK'
    BY <1>1, <1>3, <1>4, <2>1, <2>2, <2>5, Zenon DEF RelayInv, RelayTypeOK, Broadcast
  <2>4. StatusMirrored'
    BY <1>1, <1>3, <2>1 DEF RelayInv, Latest, StatusMirrored, Broadcast
  <2> QED BY <1>3, <1>4, <1>5, <2>2, <2>3, <2>4 DEF RelayInv, Broadcast
<1>6. CASE registration # "done"
  BY <1>1, <1>3, <1>4, <1>6 DEF RelayInv, RelayTypeOK, StatusMirrored, Broadcast
<1> QED BY <1>5, <1>6

LEMMA TakeUpKeeps ==
    ASSUME RelayInv, TakeUp
    PROVE  RelayInv' /\ ToSet(inbox) = ToSet(inbox') \cup {Head(inbox)}
<1>1. inbox \in Seq(Statuses) /\ inbox # <<>> /\ inbox' = Tail(inbox)
  BY DEF RelayInv, RelayTypeOK, TakeUp
<1>2. /\ inbox' \in Seq(Statuses) /\ Len(inbox') = Len(inbox) - 1
      /\ ToSet(inbox) = ToSet(inbox') \cup {Head(inbox)}
  BY <1>1, Taken
<1>3. RelayTypeOK' BY <1>1, <1>2 DEF RelayInv, RelayTypeOK, TakeUp
<1> QED BY <1>2, <1>3 DEF RelayInv, TakeUp, Latest, StatusMirrored

LEMMA OthersKeep ==
    ASSUME RelayInv, RegisterEntry \/ RelayLost \/ UNCHANGED relayVars
    PROVE  RelayInv'
<1>1. CASE RegisterEntry
  BY <1>1 DEF RelayInv, RegisterEntry, RelayTypeOK, Latest, StatusMirrored
<1>2. CASE RelayLost
  <2>1. <<>> \in Seq(Statuses) /\ Len(<<>>) <= MaxPosted OBVIOUS
  <2>2. RelayTypeOK' BY <1>2, <2>1, Zenon DEF RelayInv, RelayLost, RelayTypeOK, Statuses
  <2> QED BY <1>2, <2>2, Zenon DEF RelayInv, RelayLost, Latest, StatusMirrored
<1>3. CASE UNCHANGED relayVars
  BY <1>3 DEF RelayInv, relayVars, RelayTypeOK, Latest, StatusMirrored
<1> QED BY <1>1, <1>2, <1>3

-----------------------------------------------------------------------------
\* What a report of the tunnel is.
LEMMA Reporting ==
    ASSUME Report
    PROVE  /\ \E s \in Statuses : UpdateState(s) /\ (tunnel' = "on" => tunnel = "on" \/ s = "CONNECTED")
           /\ tunnel # "off"
           /\ tunnel' \in {"off", "starting", "connecting", "on"}
           /\ UNCHANGED <<opening, screenVars>>
           /\ UNCHANGED <<registration, inbox>>
<1>1. PICK r \in Reports : r[1] = tunnel /\ UpdateState(r[2]) /\ tunnel' = r[3]
  BY DEF Report
<1>2. /\ r[2] \in Statuses /\ r[1] # "off"
      /\ r[3] \in {"off", "starting", "connecting", "on"}
      /\ r[3] = "on" => r[1] = "on" \/ r[2] = "CONNECTED"
  BY DEF Reports, Statuses
<1> QED BY <1>1, <1>2 DEF Report, UpdateState

LEMMA RelayStep ==
    ASSUME RelayInv, [Next]_vars
    PROVE  RelayInv'
<1>1. CASE Report BY <1>1, Reporting, UpdateKeeps
<1>2. CASE BindSend BY <1>2, RegisterSendKeeps DEF BindSend
<1>3. CASE SendToAll BY <1>3, BroadcastKeeps DEF SendToAll
<1>4. CASE HearConnected \/ HearConnecting \/ HearNoProcess \/ HearOther
  BY <1>4, TakeUpKeeps DEF HearConnected, HearConnecting, HearNoProcess, HearOther
<1>5. CASE BindEntry \/ ServiceDies
  BY <1>5, OthersKeep DEF BindEntry, ServiceDies
<1>6. CASE UNCHANGED relayVars
  BY <1>6, OthersKeep
<1>7. OpenVTool \/ ClickCancel \/ ClickConnect \/ ConnectElapsed \/ DisconnectElapsed
      \/ PollerStops \/ PollerLooks \/ AdDismissed \/ Later \/ OnStop \/ OnRestart
      \/ UNCHANGED vars => UNCHANGED relayVars
  BY DEF OpenVTool, ClickCancel, ClickConnect, ConnectElapsed, DisconnectElapsed,
         PollerStops, PollerLooks, AdDismissed, Later, OnStop, OnRestart, vars
<1> QED BY <1>1, <1>2, <1>3, <1>4, <1>5, <1>6, <1>7 DEF Next

-----------------------------------------------------------------------------
\* The types of the screen's own variables.
ScreenType ==
    /\ tunnel \in {"off", "starting", "connecting", "on", "stopping", "replacing"}
    /\ opening \in BOOLEAN
    /\ mi \in ScreenStates /\ hot \in ScreenStates \ {"DISCONNECTING"}
    /\ killApp \in BOOLEAN /\ adShown \in BOOLEAN
    /\ job \in {"none", "connect", "disconnect"}
    /\ pollers \in Seq(Poller) /\ Len(pollers) <= MaxPollers
    /\ ad \in Jumps \cup {"none"}
    /\ later \in 0 .. MaxLater
    /\ foreground \in BOOLEAN /\ jumpLost \in BOOLEAN

\* showConnectAd keeps them, when one more update may wait.
LEMMA ShowConnectAdType ==
    ASSUME ScreenType, NEW j \in Jumps, NEW h, ShowConnectAd(j, h),
           later < MaxLater \/ j = "disconnect"
    PROVE  /\ adShown' \in BOOLEAN /\ jumpLost' \in BOOLEAN
           /\ pollers' \in Seq(Poller) /\ Len(pollers') <= MaxPollers
           /\ later' \in 0 .. MaxLater
           /\ tunnel' \in {"off", "starting", "connecting", "on", "stopping", "replacing"}
<1>1. CASE Jump(j) /\ UNCHANGED <<adShown, pollers, jumpLost>>
  BY <1>1 DEF ScreenType, Jump, Disconnected, Jumps
<1>2. CASE /\ Len(pollers) < MaxPollers
           /\ adShown' = FALSE
           /\ jumpLost' = (j # "endPage" /\ jumpLost)
           /\ pollers' = Append(Revived(pollers),
                                [jump |-> j, left |-> Attempts, fate |-> "live"])
           /\ NoJump
  <2>2. pollers \in Seq(Poller) /\ Len(pollers) \in Nat BY DEF ScreenType
  <2>3. pollers' \in Seq(Poller) /\ Len(pollers') = Len(pollers) + 1
    BY <1>2, <2>2, JoinedPollers
  <2>4. Len(pollers') <= MaxPollers BY <1>2, <2>2, <2>3
  <2> QED BY <1>2, <2>3, <2>4 DEF ScreenType, NoJump
<1> QED BY <1>1, <1>2 DEF ShowConnectAd

\* cancelCOD leaves as many runnables as there were.
LEMMA CancelCODType ==
    ASSUME ScreenType, NEW j, CancelCOD(j)
    PROVE  pollers' \in Seq(Poller) /\ Len(pollers') <= MaxPollers
<1>1. pollers \in Seq(Poller) /\ Len(pollers) <= MaxPollers BY DEF ScreenType
<1> QED BY <1>1, StoppedAlike, AlikeSame DEF CancelCOD

LEMMA ScreenTypeStep ==
    ASSUME ScreenType, [Next]_vars
    PROVE  ScreenType'
<1>1. CASE Report
  <2>1. UNCHANGED <<opening, screenVars>> BY <1>1, Reporting
  <2>2. tunnel' \in {"off", "starting", "connecting", "on", "stopping", "replacing"}
    BY <1>1, Reporting
  <2> QED BY <2>1, <2>2, Zenon DEF ScreenType, screenVars
<1>2. CASE OpenVTool
  <2>1. tunnel' \in {"off", "starting", "connecting", "on", "stopping", "replacing"}
    BY <1>2 DEF OpenVTool, ScreenType
  <2> QED BY <1>2, <2>1, Zenon DEF OpenVTool, ScreenType, screenVars
<1>3. CASE ServiceDies BY <1>3 DEF ServiceDies, ScreenType, screenVars
<1>4. CASE BindSend \/ BindEntry \/ SendToAll \/ HearOther
  BY <1>4 DEF BindSend, BindEntry, SendToAll, HearOther, ScreenType, screenVars
<1>5. CASE ClickCancel
  <2>1. CancelCOD("none") /\ mi' = hot BY <1>5 DEF ClickCancel, UpdateUI
  <2>2. pollers' \in Seq(Poller) /\ Len(pollers') <= MaxPollers BY <2>1, CancelCODType
  <2> QED BY <1>5, <2>1, <2>2 DEF ClickCancel, CancelCOD, ScreenType
<1>6. CASE ClickConnect
  <2>1. PICK j \in {"none", "connect", "disconnect"} : CancelCOD(j)
    BY <1>6 DEF ClickConnect
  <2>2. pollers' \in Seq(Poller) /\ Len(pollers') <= MaxPollers BY <2>1, CancelCODType
  <2>3. mi' \in ScreenStates /\ killApp' = TRUE
    BY <1>6 DEF ClickConnect, UpdateUI, ScreenType, ScreenStates
  <2> QED BY <1>6, <2>1, <2>2, <2>3 DEF ClickConnect, CancelCOD, ScreenType
<1>7. CASE ConnectElapsed
  <2>1. mi' \in ScreenStates /\ job' \in {"none", "connect", "disconnect"}
    BY <1>7 DEF ConnectElapsed, UpdateUI, ScreenType, ScreenStates
  <2> QED BY <1>7, <2>1, Zenon DEF ConnectElapsed, ScreenType
<1>8. CASE DisconnectElapsed
  <2>1. ShowConnectAd("disconnect", hot) BY <1>8 DEF DisconnectElapsed
  <2>2. "disconnect" \in Jumps BY DEF Jumps
  <2> QED BY <1>8, <2>1, <2>2, ShowConnectAdType DEF DisconnectElapsed, ScreenType
<1>9. CASE PollerStops
  <2>1. pollers \in Seq(Poller) /\ pollers # <<>> /\ Len(pollers) \in Nat
    BY <1>9 DEF PollerStops, ScreenType
  <2>2. pollers' \in Seq(Poller) /\ Len(pollers') = Len(pollers) - 1
    BY <1>9, <2>1, Taken DEF PollerStops
  <2>3. Len(pollers') <= MaxPollers BY <2>1, <2>2 DEF ScreenType
  <2> QED BY <1>9, <2>2, <2>3 DEF PollerStops, ScreenType
<1>10. CASE PollerLooks
  <2> DEFINE p == Head(pollers)
             q == [p EXCEPT !.left = @ - 1]
  <2>1. pollers \in Seq(Poller) /\ pollers # <<>> /\ Len(pollers) \in Nat
    BY <1>10 DEF PollerLooks, ScreenType
  <2>2. Tail(pollers) \in Seq(Poller) /\ Len(Tail(pollers)) = Len(pollers) - 1 /\ p \in Poller
    BY <2>1, Taken
  <2>3. p.left > 1 => q \in Poller BY <2>2, OneLess
  <2>4. p.left > 1 => /\ Append(Tail(pollers), q) \in Seq(Poller)
                      /\ Len(Append(Tail(pollers), q)) = Len(Tail(pollers)) + 1
    BY <2>2, <2>3, Appended
  <2>5. pollers' = IF p.left > 1 THEN Append(Tail(pollers), q) ELSE Tail(pollers)
    BY <1>10 DEF PollerLooks
  <2>6. pollers' \in Seq(Poller) /\ Len(pollers') <= MaxPollers
    BY <2>1, <2>2, <2>4, <2>5 DEF ScreenType
  <2>7. p.jump \in Jumps BY <2>2 DEF Poller
  <2>8. /\ later' \in 0 .. MaxLater
        /\ tunnel' \in {"off", "starting", "connecting", "on", "stopping", "replacing"}
    BY <1>10 DEF PollerLooks, NoJump, Jump, Disconnected, ScreenType
  <2>9. adShown' \in BOOLEAN /\ ad' \in Jumps \cup {"none"} /\ jumpLost' \in BOOLEAN
    BY <1>10, <2>7 DEF PollerLooks, ShowAd, ScreenType
  <2>10. UNCHANGED <<opening, mi, hot, killApp, job, foreground>>
    BY <1>10 DEF PollerLooks
  <2> QED BY <2>6, <2>8, <2>9, <2>10 DEF ScreenType
<1>11. CASE AdDismissed
  <2>1. later' \in 0 .. MaxLater
    BY <1>11 DEF AdDismissed, Jump, NoJump, ScreenType
  <2>2. tunnel' \in {"off", "starting", "connecting", "on", "stopping", "replacing"}
    BY <1>11 DEF AdDismissed, Jump, NoJump, Disconnected, ScreenType
  <2>3. ad' \in Jumps \cup {"none"} /\ jumpLost' \in BOOLEAN
    BY <1>11 DEF AdDismissed, ScreenType
  <2> QED BY <1>11, <2>1, <2>2, <2>3 DEF AdDismissed, ScreenType
<1>12. CASE HearConnected
  <2>1. "endPage" \in Jumps BY DEF Jumps
  <2>2. CASE mi' = "CONNECTING"
    <3>1. ShowConnectAd("endPage", "CONNECTED") /\ later < MaxLater
      BY <1>12, <2>2 DEF HearConnected
    <3> QED BY <1>12, <2>1, <3>1, ShowConnectAdType DEF HearConnected, ScreenType, ScreenStates
  <2>3. CASE mi' # "CONNECTING"
    BY <1>12, <2>3 DEF HearConnected, ScreenType, ScreenStates
  <2> QED BY <2>2, <2>3
<1>13. CASE HearConnecting BY <1>13 DEF HearConnecting, ScreenType, ScreenStates
<1>14. CASE HearNoProcess
  BY <1>14 DEF HearNoProcess, UpdateUI, ScreenType, ScreenStates
<1>15. CASE Later BY <1>15 DEF Later, UpdateUI, ScreenType
<1>16. CASE OnStop
  <2>1. CASE CancelCOD("none") /\ mi' = hot
    <3>1. pollers' \in Seq(Poller) /\ Len(pollers') <= MaxPollers BY <2>1, CancelCODType
    <3> QED BY <1>16, <2>1, <3>1 DEF OnStop, CancelCOD, ScreenType
  <2>2. CASE UNCHANGED <<job, pollers, adShown, mi>>
    BY <1>16, <2>2 DEF OnStop, ScreenType
  <2> QED BY <1>16, <2>1, <2>2 DEF OnStop, UpdateUI
<1>17. CASE OnRestart BY <1>17 DEF OnRestart, ScreenType
<1>18. CASE UNCHANGED vars BY <1>18 DEF vars, screenVars, ScreenType
<1> QED BY <1>1, <1>2, <1>3, <1>4, <1>5, <1>6, <1>7, <1>8, <1>9, <1>10, <1>11, <1>12,
           <1>13, <1>14, <1>15, <1>16, <1>17, <1>18 DEF Next

-----------------------------------------------------------------------------
\* Only a bound screen starts or stops the tunnel; an ad's jump may do the latter.
LEMMA Jumping ==
    ASSUME Jump("endPage") \/ Jump("disconnect") \/ NoJump
    PROVE  tunnel' = tunnel \/ (tunnel' = "stopping" /\ registration # "none")
BY DEF Jump, NoJump, Disconnected

LEMMA TunnelMoves ==
    ASSUME ScreenType, Next
    PROVE  \/ Report \/ OpenVTool \/ ServiceDies
           \/ tunnel' = tunnel
           \/ tunnel' = "stopping" /\ registration # "none"
<1>1. CASE DisconnectElapsed
  BY <1>1, Jumping DEF DisconnectElapsed, ShowConnectAd
<1>2. CASE PollerLooks
  <2>1. pollers \in Seq(Poller) /\ pollers # <<>> BY <1>2 DEF PollerLooks, ScreenType
  <2>2. Head(pollers) \in Poller BY <2>1, Taken
  <2>3. Head(pollers).jump \in Jumps BY <2>2 DEF Poller
  <2> QED BY <1>2, <2>3, Jumping DEF PollerLooks, Jumps
<1>3. CASE AdDismissed
  BY <1>3, Jumping DEF AdDismissed, ScreenType, Jumps
<1>4. CASE HearConnected
  BY <1>4, Jumping DEF HearConnected, ShowConnectAd
<1> QED
  BY <1>1, <1>2, <1>3, <1>4
  DEF Next, BindSend, BindEntry, SendToAll, ClickCancel, ClickConnect, ConnectElapsed,
      PollerStops, HearConnecting, HearNoProcess, HearOther, Later, OnStop, OnRestart

\* The steps that leave alone what has been heard and the registration.
LEMMA HearingMoves ==
    ASSUME Next
    PROVE  \/ HearConnected \/ HearConnecting \/ HearNoProcess \/ HearOther
           \/ BindSend \/ BindEntry \/ SendToAll \/ Report \/ ServiceDies
           \/ UNCHANGED <<relayVars, hot>>
BY DEF Next, OpenVTool, ClickCancel, ClickConnect, ConnectElapsed, DisconnectElapsed,
       PollerStops, PollerLooks, AdDismissed, Later, OnStop, OnRestart, screenVars

LEMMA UnboundStep ==
    ASSUME RelayInv, ScreenType, Unbound, [Next]_vars
    PROVE  Unbound'
<1>1. CASE UNCHANGED vars BY <1>1 DEF vars, relayVars, screenVars, Unbound
<1>2. CASE Report
  BY <1>2, Reporting DEF Unbound, screenVars
<1>3. CASE ServiceDies BY <1>3 DEF ServiceDies, RelayLost, Unbound
<1>4. CASE BindSend \/ BindEntry
  BY <1>4 DEF BindSend, RegisterSend, BindEntry, RegisterEntry, Unbound
<1>5. CASE SendToAll
  BY <1>5 DEF SendToAll, Broadcast, NewStatus, screenVars, Unbound
<1>6. CASE OpenVTool
  BY <1>6 DEF OpenVTool, relayVars, screenVars, Unbound
<1>7. CASE HearConnected \/ HearConnecting \/ HearNoProcess \/ HearOther
  <2>1. inbox # <<>> /\ UNCHANGED <<mostRecent, posted, registration>>
    BY <1>7 DEF TakeUp, HearConnected, HearConnecting, HearNoProcess, HearOther
  <2>2. tunnel' = tunnel \/ registration # "none"
    BY <1>7, Jumping
    DEF HearConnected, ShowConnectAd, HearConnecting, HearNoProcess, HearOther
  <2> QED BY <2>1, <2>2 DEF Unbound
<1>8. CASE UNCHANGED <<relayVars, hot>> /\ (tunnel' = tunnel \/ registration # "none")
  BY <1>8 DEF relayVars, Unbound
<1>9. CASE Next
  BY <1>2, <1>3, <1>4, <1>5, <1>6, <1>7, <1>8, <1>9, TunnelMoves, HearingMoves
<1> QED BY <1>1, <1>9

LEMMA BindingStep ==
    ASSUME RelayInv, Unbound, Binding, [Next]_vars
    PROVE  Binding'
<1>1. CASE UNCHANGED vars \/ UNCHANGED <<relayVars, hot>>
  BY <1>1 DEF vars, relayVars, screenVars, Binding
<1>2. CASE Report
  BY <1>2, Reporting DEF Binding, screenVars
<1>3. CASE ServiceDies \/ BindEntry
  BY <1>3 DEF ServiceDies, RelayLost, BindEntry, RegisterEntry, Binding
<1>4. CASE BindSend
  BY <1>4, RegisterSendKeeps DEF BindSend, RegisterSend, screenVars, Unbound, Binding
<1>5. CASE SendToAll
  BY <1>5 DEF SendToAll, Broadcast, screenVars, Binding
<1>6. CASE HearConnected \/ HearConnecting \/ HearNoProcess \/ HearOther
  BY <1>6 DEF TakeUp, HearConnected, HearConnecting, HearNoProcess, HearOther, Free, Binding
<1> QED BY <1>1, <1>2, <1>3, <1>4, <1>5, <1>6, HearingMoves

-----------------------------------------------------------------------------
\* The two halves of SpinnerEnds, and what the second one waits for on the screen.
Rests == mi = "DISCONNECTING" /\ hot = "DISCONNECTED" => later > 0

Waiting == later > 0 \/ (Looking("endPage") /\ ~adShown) \/ ad # "none"

Announced == (ToSet(posted) \cup ToSet(inbox)) \cap News # {}

Arrives ==
    mi = "CONNECTING" /\ hot = "CONNECTED" /\ ~jumpLost =>
        Waiting \/ tunnel # "on" \/ Announced

LEMMA Halves == SpinnerEnds <=> Rests /\ Arrives
BY DEF SpinnerEnds, Rests, Arrives, Waiting, Announced

\* No jump takes back a delayed update.
LEMMA JumpLater ==
    ASSUME ScreenType, Jump("endPage") \/ Jump("disconnect") \/ NoJump
    PROVE  /\ later > 0 => later' > 0
           /\ Jump("endPage") => later' > 0
BY DEF Jump, NoJump, ScreenType

LEMMA RestsStep ==
    ASSUME RelayInv, ScreenType, Rests, [Next]_vars
    PROVE  Rests'
<1> USE DEF Rests
<1>1. CASE UNCHANGED vars BY <1>1 DEF vars, screenVars
<1>2. CASE Report BY <1>2, Reporting DEF screenVars
<1>3. CASE OpenVTool \/ ServiceDies \/ BindSend \/ BindEntry \/ SendToAll \/ HearOther
  BY <1>3 DEF OpenVTool, ServiceDies, BindSend, BindEntry, SendToAll, HearOther, screenVars
<1>4. CASE ClickCancel \/ ClickConnect \/ OnStop
  BY <1>4 DEF ClickCancel, ClickConnect, OnStop, CancelCOD, UpdateUI, ScreenType
<1>5. CASE ConnectElapsed BY <1>5 DEF ConnectElapsed, UpdateUI
<1>6. CASE DisconnectElapsed
  <2>1. UNCHANGED <<mi, hot>> /\ (Jump("disconnect") \/ NoJump)
    BY <1>6 DEF DisconnectElapsed, ShowConnectAd
  <2> QED BY <2>1, JumpLater
<1>7. CASE PollerLooks
  <2>1. pollers \in Seq(Poller) /\ pollers # <<>> BY <1>7 DEF PollerLooks, ScreenType
  <2>2. Head(pollers) \in Poller BY <2>1, Taken
  <2>3. Head(pollers).jump \in Jumps BY <2>2 DEF Poller
  <2>4. UNCHANGED <<mi, hot>> /\ (Jump("disconnect") \/ Jump("endPage") \/ NoJump)
    BY <1>7, <2>3 DEF PollerLooks, Jumps
  <2> QED BY <2>4, JumpLater
<1>8. CASE AdDismissed
  <2>1. UNCHANGED <<mi, hot>> /\ (Jump("disconnect") \/ Jump("endPage") \/ NoJump)
    BY <1>8 DEF AdDismissed, ScreenType, Jumps
  <2> QED BY <2>1, JumpLater
<1>9. CASE HearConnected \/ HearConnecting
  BY <1>9 DEF HearConnected, HearConnecting
<1>10. CASE HearNoProcess BY <1>10 DEF HearNoProcess, UpdateUI, ScreenType
<1>11. CASE Later BY <1>11 DEF Later, UpdateUI, ScreenType
<1>12. CASE PollerStops \/ OnRestart
  BY <1>12 DEF PollerStops, OnRestart
<1> QED BY <1>1, <1>2, <1>3, <1>4, <1>5, <1>6, <1>7, <1>8, <1>9, <1>10, <1>11, <1>12 DEF Next

\* A runnable that is to open the end page is kept by its turn, or has jumped.
LEMMA LookingOn ==
    ASSUME ScreenType, PollerLooks, Looking("endPage")
    PROVE  Looking("endPage")' \/ later' > 0
<1> DEFINE p == Head(pollers)
           q == [p EXCEPT !.left = @ - 1]
<1>1. pollers \in Seq(Poller) /\ pollers # <<>> BY DEF PollerLooks, ScreenType
<1>2. /\ Tail(pollers) \in Seq(Poller) /\ p \in Poller
      /\ ToSet(pollers) = ToSet(Tail(pollers)) \cup {p}
  BY <1>1, Taken
<1>3. CASE p.left > 1
  <2>1. q \in Poller /\ q.jump = p.jump BY <1>2, <1>3, OneLess
  <2> DEFINE t == Tail(pollers)
  <2>3. pollers' = Append(t, q) BY <1>3 DEF PollerLooks
  <2>4. t \in Seq(Poller) BY <1>2
  <2>5. q \in Poller BY <2>1
  <2> HIDE DEF q, t
  <2>6. ToSet(Append(t, q)) = ToSet(t) \cup {q}
    BY <2>4, <2>5, Appended
  <2>2. ToSet(pollers') = ToSet(Tail(pollers)) \cup {q}
    BY <2>3, <2>6 DEF t
  <2> QED BY <1>2, <2>1, <2>2 DEF Looking
<1>4. CASE ~(p.left > 1)
  <2>1. pollers' = Tail(pollers) /\ Jump(p.jump) BY <1>4 DEF PollerLooks
  <2>2. p.jump = "endPage" => later' > 0 BY <2>1, JumpLater
  <2> QED BY <1>2, <2>1, <2>2 DEF Looking
<1> QED BY <1>3, <1>4

\* Waiting outlasts every turn of a runnable that does not lose its ad.
LEMMA WaitingOn ==
    ASSUME ScreenType, PollerLooks, Waiting, ~jumpLost'
    PROVE  Waiting'
<1>1. pollers \in Seq(Poller) /\ pollers # <<>> /\ ~adShown
  BY DEF PollerLooks, ScreenType
<1>2. Head(pollers) \in Poller BY <1>1, Taken
<1>3. Head(pollers).jump \in Jumps BY <1>2 DEF Poller
<1>4. Jump("disconnect") \/ Jump("endPage") \/ NoJump
  BY <1>3 DEF PollerLooks, Jumps
<1>5. later > 0 => later' > 0 BY <1>4, JumpLater
<1>6. ad' # "none" \/ (UNCHANGED <<adShown, ad>>)
  BY <1>3 DEF PollerLooks, ShowAd, Jumps
<1>7. Looking("endPage") => Looking("endPage")' \/ later' > 0
  BY LookingOn
<1> QED BY <1>1, <1>5, <1>6, <1>7 DEF Waiting

\* What setVpnState starts when it hears of a connection the screen waits for.
LEMMA ShowConnectAdWaits ==
    ASSUME ScreenType, ShowConnectAd("endPage", "CONNECTED")
    PROVE  Waiting'
<1>1. CASE Jump("endPage") BY <1>1, JumpLater DEF Waiting
<1>2. CASE /\ adShown' = FALSE
           /\ pollers' = Append(Revived(pollers),
                                [jump |-> "endPage", left |-> Attempts, fate |-> "live"])
  <2>1. pollers \in Seq(Poller) /\ "endPage" \in Jumps BY DEF ScreenType, Jumps
  <2>2. Looking("endPage")' BY <1>2, <2>1, JoinedPollers
  <2> QED BY <1>2, <2>2 DEF Waiting
<1> QED BY <1>1, <1>2 DEF ShowConnectAd

\* A wait for a disconnection leaves the runnables of the end page their turn.
LEMMA ShowConnectAdKeeps ==
    ASSUME ScreenType, ShowConnectAd("disconnect", hot), UNCHANGED ad, Waiting
    PROVE  Waiting'
<1>1. CASE Jump("disconnect") /\ UNCHANGED <<adShown, pollers>>
  BY <1>1, JumpLater DEF Waiting, Looking
<1>2. CASE /\ adShown' = FALSE /\ NoJump
           /\ pollers' = Append(Revived(pollers),
                                [jump |-> "disconnect", left |-> Attempts, fate |-> "live"])
  <2>1. pollers \in Seq(Poller) /\ "disconnect" \in Jumps BY DEF ScreenType, Jumps
  <2>2. Looking("endPage") => Looking("endPage")' BY <1>2, <2>1, JoinedPollers
  <2> QED BY <1>2, <2>2 DEF Waiting, NoJump
<1> QED BY <1>1, <1>2 DEF ShowConnectAd

LEMMA ArrivesStep ==
    ASSUME RelayInv, ScreenType, Unbound, Binding, Arrives, [Next]_vars
    PROVE  Arrives'
<1> SUFFICES ASSUME mi' = "CONNECTING", hot' = "CONNECTED", ~jumpLost'
             PROVE  Waiting' \/ tunnel' # "on" \/ Announced'
  BY DEF Arrives
<1>1. CASE UNCHANGED vars
  BY <1>1 DEF vars, relayVars, screenVars, Arrives, Waiting, Looking, Announced
<1>2. CASE Report
  <2>1. PICK s \in Statuses : UpdateState(s) /\ (tunnel' = "on" => tunnel = "on" \/ s = "CONNECTED")
    BY <1>2, Reporting
  <2>2. UNCHANGED <<screenVars, inbox>> BY <1>2, Reporting
  <2>3. ToSet(posted) \subseteq ToSet(posted') /\ (s = "CONNECTED" => s \in ToSet(posted'))
    BY <2>1, UpdateKeeps
  <2>4. s = "CONNECTED" => Announced' BY <2>3 DEF Announced, News
  <2>5. Announced => Announced' BY <2>2, <2>3 DEF Announced
  <2>6. Waiting => Waiting' BY <2>2 DEF screenVars, Waiting, Looking
  <2>7. Waiting \/ tunnel # "on" \/ Announced BY <2>2 DEF screenVars, Arrives
  <2> QED BY <2>1, <2>4, <2>5, <2>6, <2>7
<1>3. CASE OpenVTool \/ ServiceDies
  <2>1. UNCHANGED screenVars /\ (tunnel' # "on" \/ (tunnel' = tunnel /\ UNCHANGED relayVars))
    BY <1>3 DEF OpenVTool, ServiceDies
  <2> QED BY <2>1 DEF screenVars, relayVars, Arrives, Waiting, Looking, Announced
<1>4. CASE BindSend
  <2>1. UNCHANGED <<screenVars, tunnel, posted>> /\ ToSet(inbox) \subseteq ToSet(inbox')
    BY <1>4, RegisterSendKeeps DEF BindSend, RegisterSend
  <2> QED BY <2>1 DEF screenVars, Arrives, Waiting, Looking, Announced
<1>5. CASE BindEntry
  BY <1>5 DEF BindEntry, RegisterEntry, screenVars, Arrives, Waiting, Looking, Announced
<1>6. CASE SendToAll
  <2>1. UNCHANGED <<screenVars, tunnel>> /\ Broadcast BY <1>6 DEF SendToAll
  <2>2. CASE registration = "done"
    <3>1. ToSet(posted') \cup ToSet(inbox') = ToSet(posted) \cup ToSet(inbox)
      BY <2>1, <2>2, BroadcastKeeps
    <3> QED BY <2>1, <3>1 DEF screenVars, Arrives, Waiting, Looking, Announced
  <2>3. CASE registration # "done"
    <3>1. inbox' = inbox /\ posted # <<>> BY <2>1, <2>3, BroadcastKeeps
    <3>2. hot = "CONNECTED" BY <2>1 DEF screenVars
    <3>3. registration = "sent" => Announced'
      BY <3>1, <3>2 DEF Binding, Announced, News
    <3>4. registration = "none" => tunnel' # "on"
      BY <2>1, <3>1, <3>2 DEF Unbound
    <3> QED BY <2>3, <3>3, <3>4 DEF RelayInv, RelayTypeOK
  <2> QED BY <2>2, <2>3
<1>7. CASE ClickCancel \/ OnStop
  BY <1>7 DEF ClickCancel, OnStop, CancelCOD, UpdateUI, relayVars, Arrives, Waiting, Looking, Announced
<1>8. CASE ClickConnect \/ ConnectElapsed
  BY <1>8 DEF ClickConnect, ConnectElapsed, UpdateUI, relayVars, Arrives, Waiting, Looking, Announced
<1>9. CASE DisconnectElapsed
  <2>1. UNCHANGED <<relayVars, mi, hot, ad>> /\ ShowConnectAd("disconnect", hot)
    BY <1>9 DEF DisconnectElapsed
  <2>2. jumpLost' = jumpLost BY <2>1 DEF ShowConnectAd, ScreenType
  <2>3. Waiting \/ tunnel # "on" \/ Announced BY <2>1, <2>2 DEF Arrives
  <2>4. Waiting => Waiting' BY <2>1, ShowConnectAdKeeps
  <2>5. tunnel # "on" => tunnel' # "on" BY <2>1, Jumping DEF ShowConnectAd
  <2>6. Announced => Announced' BY <2>1 DEF relayVars, Announced
  <2> QED BY <2>3, <2>4, <2>5, <2>6
<1>10. CASE PollerLooks
  <2>1. UNCHANGED <<relayVars, mi, hot>> BY <1>10 DEF PollerLooks
  <2>2. ~jumpLost BY <1>10 DEF PollerLooks, ShowAd
  <2>3. Waiting \/ tunnel # "on" \/ Announced BY <2>1, <2>2 DEF Arrives
  <2>4. Waiting => Waiting' BY <1>10, WaitingOn
  <2>5. tunnel # "on" => tunnel' # "on"
    <3>1. pollers \in Seq(Poller) /\ pollers # <<>> BY <1>10 DEF PollerLooks, ScreenType
    <3>2. Head(pollers) \in Poller BY <3>1, Taken
    <3>3. Head(pollers).jump \in Jumps BY <3>2 DEF Poller
    <3> QED BY <1>10, <3>3, Jumping DEF PollerLooks, Jumps
  <2>6. Announced => Announced' BY <2>1 DEF relayVars, Announced
  <2> QED BY <2>3, <2>4, <2>5, <2>6
<1>11. CASE AdDismissed
  <2>1. UNCHANGED <<relayVars, mi, hot>> BY <1>11 DEF AdDismissed
  <2>2. Jump(ad) /\ ad \in Jumps BY <1>11 DEF AdDismissed, ScreenType
  <2>3. ad = "endPage" => later' > 0 BY <2>2, JumpLater
  <2>4. ad = "disconnect" => tunnel' # "on"
    BY <2>1, <2>2 DEF Jump, Disconnected, Unbound, RelayInv, relayVars
  <2> QED BY <2>2, <2>3, <2>4 DEF Jumps, Waiting
<1>12. CASE HearConnected
  BY <1>12, ShowConnectAdWaits DEF HearConnected
<1>13. CASE HearOther
  <2>1. UNCHANGED <<screenVars, tunnel, posted>> /\ TakeUp /\ Head(inbox) \notin News
    BY <1>13 DEF HearOther, TakeUp, News
  <2>2. ToSet(inbox) = ToSet(inbox') \cup {Head(inbox)} BY <2>1, TakeUpKeeps
  <2>3. Announced => Announced' BY <2>1, <2>2 DEF Announced
  <2> QED BY <2>1, <2>3 DEF screenVars, Arrives, Waiting, Looking
<1>14. CASE HearConnecting \/ HearNoProcess \/ Later
  BY <1>14 DEF HearConnecting, HearNoProcess, Later, UpdateUI
<1>15. CASE PollerStops
  BY <1>15 DEF PollerStops, relayVars, Arrives, Waiting, Looking, Announced
<1>16. CASE OnRestart
  BY <1>16 DEF OnRestart, relayVars, Arrives, Waiting, Looking, Announced
<1> QED BY <1>1, <1>2, <1>3, <1>4, <1>5, <1>6, <1>7, <1>8, <1>9, <1>10, <1>11, <1>12,
           <1>13, <1>14, <1>15, <1>16 DEF Next

-----------------------------------------------------------------------------
LEMMA CalledOffStep ==
    ASSUME ScreenType, CalledOff, [Next]_vars
    PROVE  CalledOff'
<1> USE DEF CalledOff
<1>0. pollers \in Seq(Poller) BY DEF ScreenType
<1>1. CASE UNCHANGED vars BY <1>1 DEF vars, screenVars
<1>2. CASE Report BY <1>2, Reporting DEF screenVars
<1>3. CASE OpenVTool \/ ServiceDies \/ BindSend \/ BindEntry \/ SendToAll \/ HearOther
  BY <1>3 DEF OpenVTool, ServiceDies, BindSend, BindEntry, SendToAll, HearOther, screenVars
<1>4. CASE ClickCancel BY <1>4 DEF ClickCancel, CancelCOD
<1>5. CASE ClickConnect BY <1>5 DEF ClickConnect, CancelCOD
<1>6. CASE ConnectElapsed BY <1>6 DEF ConnectElapsed
<1>13. ASSUME NEW j \in Jumps, NEW h, ShowConnectAd(j, h) PROVE CalledOff'
  <2>1. CASE UNCHANGED <<adShown, pollers>> BY <2>1
  <2>2. CASE pollers' = Append(Revived(pollers),
                               [jump |-> j, left |-> Attempts, fate |-> "live"])
    <3>1. NoneStopped(pollers') BY <1>0, <1>13, <2>2, JoinedPollers
    <3> QED BY <3>1 DEF NoneStopped
  <2> QED BY <1>13, <2>1, <2>2 DEF ShowConnectAd
<1>7. CASE DisconnectElapsed BY <1>7, <1>13 DEF DisconnectElapsed, Jumps
<1>8. CASE PollerLooks
  <2> DEFINE p == Head(pollers)
             q == [p EXCEPT !.left = @ - 1]
             t == Tail(pollers)
  <2>1. pollers # <<>> /\ ~adShown BY <1>8 DEF PollerLooks
  <2>2. /\ t \in Seq(Poller) /\ p \in Poller
        /\ ToSet(pollers) = ToSet(t) \cup {p}
    BY <1>0, <2>1, Taken
  <2>3. \A r \in ToSet(t) \cup {p} : r.fate # "stopped" BY <2>1, <2>2
  <2>4. pollers' = IF p.left > 1 THEN Append(t, q) ELSE t BY <1>8 DEF PollerLooks
  <2>5. p.left > 1 => q \in Poller /\ q.fate = p.fate BY <2>2, OneLess
  <2> HIDE DEF p, q, t
  <2>6. p.left > 1 => ToSet(Append(t, q)) = ToSet(t) \cup {q} BY <2>2, <2>5, Appended
  <2> QED BY <2>3, <2>4, <2>5, <2>6
<1>9. CASE AdDismissed BY <1>9 DEF AdDismissed
<1>10. CASE HearConnected BY <1>10, <1>13 DEF HearConnected, Jumps
<1>11. CASE HearConnecting \/ HearNoProcess \/ Later \/ OnRestart
  BY <1>11 DEF HearConnecting, HearNoProcess, Later, OnRestart
<1>14. CASE PollerStops
  BY <1>0, <1>14, Taken DEF PollerStops
<1>12. CASE OnStop BY <1>12 DEF OnStop, CancelCOD
<1> QED BY <1>1, <1>2, <1>3, <1>4, <1>5, <1>6, <1>7, <1>8, <1>9, <1>10, <1>11, <1>12, <1>14
        DEF Next

\* Whoever calls disconnect() is a coroutine, an ad or a runnable that may.
MayStop ==
    \/ job = "disconnect" /\ job' = "none"
    \/ ad = "disconnect" /\ ad' = "none"
    \/ /\ pollers # <<>>
       /\ Head(pollers).jump = "disconnect" /\ Head(pollers).fate # "stopped"

LEMMA StopsAskedFor ==
    ASSUME ScreenType, CalledOff, [Next]_vars
    PROVE  [tunnel' = "stopping" /\ tunnel # "stopping" => MayStop]_vars
<1> SUFFICES ASSUME Next, tunnel' = "stopping", tunnel # "stopping"
             PROVE  MayStop
  OBVIOUS
<1>1. CASE DisconnectElapsed BY <1>1 DEF DisconnectElapsed, MayStop
<1>2. CASE PollerLooks
  <2>1. pollers \in Seq(Poller) /\ pollers # <<>> /\ ~adShown
    BY <1>2 DEF PollerLooks, ScreenType
  <2>2. Head(pollers) \in Poller /\ Head(pollers) \in ToSet(pollers) BY <2>1, Taken
  <2>3. Head(pollers).fate # "stopped" BY <2>1, <2>2 DEF CalledOff
  <2>4. Head(pollers).jump = "disconnect" BY <1>2 DEF PollerLooks, Jump, NoJump
  <2> QED BY <2>1, <2>3, <2>4 DEF MayStop
<1>3. CASE AdDismissed BY <1>3 DEF AdDismissed, Jump, NoJump, MayStop
<1>4. ~HearConnected BY DEF HearConnected, ShowConnectAd, Jump, NoJump
<1>5. ~Report BY Reporting
<1> QED
  BY <1>1, <1>2, <1>3, <1>4, <1>5
  DEF Next, OpenVTool, ServiceDies, BindSend, BindEntry, SendToAll, ClickCancel, ClickConnect,
      ConnectElapsed, PollerStops, HearConnecting, HearNoProcess, HearOther, Later, OnStop,
      OnRestart

-----------------------------------------------------------------------------
LEMMA Parts == IInv <=> RelayInv /\ ScreenType /\ Unbound /\ Binding /\ Rests /\ Arrives /\ CalledOff
BY Halves DEF IInv, TypeOK, RelayInv, ScreenType

(***************************************************************************)
(* The inductive invariant: what binds the screen's state, through the     *)
(* queues, to the tunnel's.                                                *)
(***************************************************************************)
THEOREM ScreenInvariant == Spec => []IInv
<1>1. Init => IInv
  <2> SUFFICES ASSUME Init PROVE IInv
    OBVIOUS
  <2>1. <<>> \in Seq(Statuses) /\ <<>> \in Seq(Poller) OBVIOUS
  <2>2. Len(<<>>) <= MaxPosted /\ Len(<<>>) <= MaxInbox /\ Len(<<>>) <= MaxPollers OBVIOUS
  <2>3. RelayTypeOK BY <2>1, <2>2, Zenon DEF Init, RelayInit, RelayTypeOK, Statuses
  <2>4. RelayInv BY <2>3 DEF Init, RelayInit, RelayInv, Latest, StatusMirrored
  <2>5. 0 \in 0 .. MaxLater OBVIOUS
  <2>6. ScreenType BY <2>1, <2>2, <2>5, Zenon DEF Init, ScreenType, ScreenStates
  <2>8. CalledOff BY DEF Init, CalledOff, ToSet
  <2>7. Unbound /\ Binding /\ Rests /\ Arrives /\ CalledOff
    BY <2>8 DEF Init, RelayInit, Unbound, Binding, Rests, Arrives
  <2> QED BY <2>4, <2>6, <2>7, Parts
<1>2. IInv /\ [Next]_vars => IInv'
  <2> SUFFICES ASSUME RelayInv /\ ScreenType /\ Unbound /\ Binding /\ Rests /\ Arrives /\ CalledOff,
                      [Next]_vars
               PROVE  (RelayInv /\ ScreenType /\ Unbound /\ Binding /\ Rests /\ Arrives /\ CalledOff)'
    BY Parts, PTL
  <2> QED BY RelayStep, ScreenTypeStep, UnboundStep, BindingStep, RestsStep, ArrivesStep,
             CalledOffStep
<1> QED BY <1>1, <1>2, PTL DEF Spec

(***************************************************************************)
(* Type correctness: no queue, and no number of waiting updates, runs over *)
(* its bound, and a runnable ends with its last attempt.                   *)
(***************************************************************************)
THEOREM ScreenTypeCorrect == Spec => []TypeOK
BY ScreenInvariant, PTL DEF IInv

(***************************************************************************)
(* With nothing under way a registered screen was last sent the status the *)
(* VPN has (ExternalOpenVPNService.registerStatusCallback and its handler),*)
(* unless an update fell between the two steps of its registration.        *)
(***************************************************************************)
THEOREM MirrorsStatus == Spec => []StatusMirrored
BY ScreenInvariant, PTL DEF IInv

(***************************************************************************)
(* A disconnection or a connection that MainActivity has heard of is about *)
(* to reach its spinner, unless an ad took the jump with it.               *)
(***************************************************************************)
THEOREM SpinnersEnd == Spec => []SpinnerEnds
BY ScreenInvariant, PTL DEF IInv

(***************************************************************************)
(* cancelCOD is enough for the coroutine, and for every runnable that no   *)
(* later showConnectAd revives: none of them reaches disconnect().         *)
(***************************************************************************)
THEOREM CancelledHolds == Spec => CancelHolds
<1>1. IInv /\ [Next]_vars => [tunnel' = "stopping" /\ tunnel # "stopping" => MayStop]_vars
  BY Parts, StopsAskedFor
<1> QED BY <1>1, ScreenInvariant, PTL DEF Spec, CancelHolds, MayStop
=============================================================================
