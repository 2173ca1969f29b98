---------------------------- MODULE ConnectScreen ----------------------------
(***************************************************************************)
(* The connect screen (MainActivity) with the statuses it hears and the    *)
(* tunnel it starts and stops.  Its handlers run on the main thread and    *)
(* cross each other at every delay: the coroutine of a click (2 s), the    *)
(* runnables that wait for an advertisement (500 ms, 20 times), the ads    *)
(* themselves, the delayed updates (300 ms) and the service's callbacks.   *)
(* One life of the activity; whether an ad may be or has been loaded       *)
(* (canShowAd, loadAd) is left open where it does not depend on the state. *)
(***************************************************************************)
EXTENDS StatusRelay

CONSTANTS
    Attempts,       \* how often showConnectAd looks for an ad, 20 in the code
    MaxPollers,     \* bound: runnables waiting for an ad
    MaxLater        \* bound: delayed updates under way

ASSUME ScreenAssumption ==
    Attempts \in Nat \ {0} /\ MaxPollers \in Nat \ {0} /\ MaxLater \in Nat \ {0}

ScreenStates == {"DISCONNECTED", "CONNECTING", "CONNECTED", "DISCONNECTING"}
Jumps == {"endPage", "disconnect"}  \* what showConnectAd is to do in the end
\* A runnable; `fate` is history: whether it was called off, and revived since.
Poller == [jump : Jumps, left : 1 .. Attempts, fate : {"live", "stopped", "revived"}]

VARIABLES
    tunnel,         \* the VPN in the service process
    opening,        \* openVTool runs on an IO thread
    mi,             \* vpnStateMi: what the screen shows
    hot,            \* Hot.vpnStateHotData: what it has heard
    killApp,        \* killAppState: a click has happened
    adShown,        \* stops the runnables
    job,            \* vpnCODJob at its delay: "none", "connect", "disconnect"
    pollers,        \* the runnables, in the order their 500 ms end
    ad,             \* the jump of the ad on the display, or "none"
    later,          \* how many updateUI(Hot.vpnStateHotData) wait their 300 ms
    foreground,     \* isAppInForeground
    jumpLost        \* history: an ad has come or gone without its jump

screenVars == <<mi, hot, killApp, adShown, job, pollers, ad, later, foreground, jumpLost>>
vars == <<relayVars, tunnel, opening, screenVars>>

TypeOK ==
    /\ RelayTypeOK
    /\ tunnel \in {"off", "starting", "connecting", "on", "stopping", "replacing"}
    /\ opening \in BOOLEAN
    /\ mi \in ScreenStates /\ hot \in ScreenStates \ {"DISCONNECTING"}
    /\ killApp \in BOOLEAN /\ adShown \in BOOLEAN
    /\ job \in {"none", "connect", "disconnect"}
    /\ pollers \in Seq(Poller) /\ Len(pollers) <= MaxPollers
    /\ ad \in Jumps \cup {"none"}
    /\ later \in 0 .. MaxLater
    /\ foreground \in BOOLEAN /\ jumpLost \in BOOLEAN

\* The app starts beside a VPN that is off or, in its own process, still on.
Init ==
    /\ \/ tunnel = "off" /\ RelayInit("NOPROCESS")
       \/ tunnel = "on" /\ RelayInit("CONNECTED")
    /\ opening = FALSE
    /\ mi = "DISCONNECTED" /\ hot = "DISCONNECTED"
    /\ killApp = FALSE /\ adShown = FALSE
    /\ job = "none" /\ pollers = <<>> /\ ad = "none" /\ later = 0
    /\ foreground = TRUE /\ jumpLost = FALSE

-----------------------------------------------------------------------------
\* The tunnel: what it reports, and what becomes of it then.
Reports == {
    <<"starting", "CONNECTING", "connecting">>, <<"starting", "NOPROCESS", "off">>,
    <<"connecting", "WAIT", "connecting">>, <<"connecting", "CONNECTED", "on">>,
    <<"connecting", "NOPROCESS", "off">>,
    <<"on", "WAIT", "on">>, <<"on", "RECONNECTING", "connecting">>, <<"on", "NOPROCESS", "off">>,
    <<"stopping", "NOPROCESS", "off">>, <<"replacing", "NOPROCESS", "starting">>}

Report ==
    /\ \E r \in Reports : r[1] = tunnel /\ UpdateState(r[2]) /\ tunnel' = r[3]
    /\ UNCHANGED <<opening, screenVars>>

\* startVPN, on an unbound service a call of nothing; its failures are swallowed.
OpenVTool ==
    /\ opening
    /\ opening' = FALSE
    /\ \/ tunnel' = tunnel
       \/ /\ registration # "none"
          /\ tunnel' = IF tunnel = "off" THEN "starting" ELSE "replacing"
    /\ UNCHANGED <<relayVars, screenVars>>

\* mService?.disconnect()
Disconnected ==
    IF registration # "none" /\ tunnel # "off" THEN "stopping" ELSE tunnel

ServiceDies ==
    /\ registration # "none"
    /\ RelayLost
    /\ tunnel' = "off"
    /\ UNCHANGED <<opening, screenVars>>

-----------------------------------------------------------------------------
\* The main thread is blocked while it registers.
Free == registration # "sent"

UpdateUI(s) == mi' = s

\* All runnables are called off, or those called off before are revived.
Stopped(ps) == [i \in DOMAIN ps |-> [ps[i] EXCEPT !.fate = "stopped"]]
Revived(ps) ==
    [i \in DOMAIN ps |->
        IF ps[i].fate = "stopped" THEN [ps[i] EXCEPT !.fate = "revived"] ELSE ps[i]]

\* fault: the coroutine ends, the runnables go on.
CancelJob(j) == job' = j /\ pollers' = Stopped(pollers) /\ adShown' = adShown

\* The coroutine gives way to `j`, and adShown ends the runnables at their next turn.
CancelCOD(j) == job' = j /\ pollers' = Stopped(pollers) /\ adShown' = TRUE

\* jumpFun: the end page and its delayed update, or the disconnection.
Jump(j) ==
    /\ later' = IF j = "endPage" THEN later + 1 ELSE later
    /\ tunnel' = IF j = "disconnect" THEN Disconnected ELSE tunnel

NoJump == UNCHANGED <<later, tunnel>>

\* An ad may be skipped (ad_jump_over) at any time, and is unless connected.
CanShowAd(h) == IF h = "CONNECTED" THEN {"over", "wait", "show"} ELSE {"over"}

\* showConnectAd when `h` is the status heard; adShown is one flag for all runnables.
ShowConnectAd(j, h) ==
    \/ "over" \in CanShowAd(h) /\ Jump(j) /\ UNCHANGED <<adShown, pollers, jumpLost>>
    \/ /\ CanShowAd(h) \ {"over"} # {}
       /\ Len(pollers) < MaxPollers
       /\ adShown' = FALSE
       /\ jumpLost' = (j # "endPage" /\ jumpLost)
       /\ pollers' = Append(Revived(pollers),
                             [jump |-> j, left |-> Attempts, fate |-> "live"])
       /\ NoJump

\* showAd: nothing is shown, and nothing done, when the app is in the background.
ShowAd(j) ==
    /\ adShown' = TRUE
    /\ IF foreground THEN ad' = j /\ jumpLost' = jumpLost
                     ELSE ad' = ad /\ jumpLost' = TRUE
-----------------------------------------------------------------------------
\* The service connects, and the main thread registers the callback.
BindSend == RegisterSend /\ UNCHANGED <<tunnel, opening, screenVars>>

BindEntry == RegisterEntry /\ UNCHANGED <<tunnel, opening, screenVars>>

SendToAll == Broadcast /\ UNCHANGED <<tunnel, opening, screenVars>>

ClickCancel ==
    /\ Free /\ foreground /\ ad = "none" /\ mi = "DISCONNECTING"
    /\ CancelCOD("none") /\ UpdateUI(hot)
    /\ UNCHANGED <<relayVars, tunnel, opening, hot, killApp, ad, later, foreground, jumpLost>>

ClickConnect ==
    /\ Free /\ foreground /\ ad = "none" /\ mi \notin {"CONNECTING", "DISCONNECTING"}
    /\ killApp' = TRUE
    /\ \/ hot = "DISCONNECTED" /\ CancelCOD("connect") /\ UpdateUI("CONNECTING")
       \/ hot = "CONNECTED" /\ CancelCOD("disconnect") /\ UpdateUI("DISCONNECTING")
       \/ hot = "CONNECTING" /\ CancelCOD("none") /\ UNCHANGED mi
    /\ UNCHANGED <<relayVars, tunnel, opening, hot, ad, later, foreground, jumpLost>>

(***************************************************************************)
(* The coroutine after its delay.  Connecting goes on to the second `if`,  *)
(* which disconnects what has come up in the meantime.  The delay is four  *)
(* times as long as a runnable's: those it has stopped are gone.           *)
(***************************************************************************)
DelayOver == Free /\ (adShown => pollers = <<>>)

ConnectElapsed ==
    /\ DelayOver /\ job = "connect" /\ ~opening
    /\ opening' = TRUE
    /\ IF hot = "CONNECTED"
       THEN UpdateUI("DISCONNECTING") /\ job' = "disconnect"
       ELSE job' = "none" /\ mi' = mi
    /\ UNCHANGED <<relayVars, tunnel, hot, killApp, adShown, pollers, ad, later,
                   foreground, jumpLost>>

DisconnectElapsed ==
    /\ DelayOver /\ job = "disconnect"
    /\ job' = "none"
    /\ ShowConnectAd("disconnect", hot)
    /\ UNCHANGED <<relayVars, opening, mi, hot, killApp, ad, foreground>>

\* A runnable whose turn it is ends when adShown is set.
PollerStops ==
    /\ Free /\ pollers # <<>> /\ adShown
    /\ pollers' = Tail(pollers)
    /\ UNCHANGED <<relayVars, tunnel, opening, mi, hot, killApp, adShown, job, ad, later,
                   foreground, jumpLost>>

\* fault: the wait for an ad ends without the jump.
PollerGivesUp ==
    /\ Free /\ pollers # <<>> /\ ~adShown
    /\ LET p == Head(pollers) IN
       /\ pollers' = IF p.left > 1
                     THEN Append(Tail(pollers), [p EXCEPT !.left = @ - 1])
                     ELSE Tail(pollers)
       /\ NoJump
       /\ \/ UNCHANGED <<adShown, ad, jumpLost>>
          \/ "show" \in CanShowAd(hot) /\ ad = "none" /\ ShowAd(p.jump)
    /\ UNCHANGED <<relayVars, opening, mi, hot, killApp, job, foreground>>

\* The first of the runnables: the last attempt jumps, and looks for an ad all the same.
PollerLooks ==
    /\ Free /\ pollers # <<>> /\ ~adShown
    /\ LET p == Head(pollers) IN
       /\ IF p.left > 1
          THEN pollers' = Append(Tail(pollers), [p EXCEPT !.left = @ - 1]) /\ NoJump
          ELSE later < MaxLater /\ pollers' = Tail(pollers) /\ Jump(p.jump)
       /\ \/ UNCHANGED <<adShown, ad, jumpLost>>
          \/ "show" \in CanShowAd(hot) /\ ad = "none" /\ ShowAd(p.jump)
    /\ UNCHANGED <<relayVars, opening, mi, hot, killApp, job, foreground>>

\* The ad ends, for the app in the foreground with its jump; or it could not be shown.
AdDismissed ==
    /\ Free /\ ad # "none" /\ later < MaxLater
    /\ ad' = "none"
    /\ \/ foreground /\ Jump(ad) /\ jumpLost' = jumpLost
       \/ jumpLost' = TRUE /\ NoJump
    /\ UNCHANGED <<relayVars, opening, mi, hot, killApp, adShown, job, pollers,
                   foreground>>

-----------------------------------------------------------------------------
\* setVpnState.  An app that has not been used yet shows first what it knew before.
HearConnected ==
    /\ Free /\ TakeUp /\ Head(inbox) = "CONNECTED" /\ later < MaxLater
    /\ mi' = IF killApp THEN mi ELSE hot
    /\ hot' = "CONNECTED"
    /\ IF mi' = "CONNECTING"
       THEN ShowConnectAd("endPage", "CONNECTED")
       ELSE UNCHANGED <<adShown, pollers, jumpLost, later, tunnel>>
    /\ UNCHANGED <<opening, killApp, job, ad, foreground>>

HearConnecting ==
    /\ Free /\ TakeUp /\ Head(inbox) = "CONNECTING"
    /\ hot' = "CONNECTING"
    /\ UNCHANGED <<tunnel, opening, mi, killApp, adShown, job, pollers, ad, later,
                   foreground, jumpLost>>

\* fault: a disconnection leads to the end page without an update.
HearNoProcessOnly ==
    /\ Free /\ TakeUp /\ Head(inbox) = "NOPROCESS" /\ later < MaxLater
    /\ hot' = "DISCONNECTED"
    /\ mi' = IF mi = "DISCONNECTING" THEN mi ELSE "DISCONNECTED"
    /\ UNCHANGED <<tunnel, opening, killApp, adShown, job, pollers, ad, later,
                   foreground, jumpLost>>

HearNoProcess ==
    /\ Free /\ TakeUp /\ Head(inbox) = "NOPROCESS" /\ later < MaxLater
    /\ hot' = "DISCONNECTED"
    /\ IF mi = "DISCONNECTING"
       THEN later' = later + 1 /\ mi' = mi
       ELSE UpdateUI("DISCONNECTED") /\ later' = later
    /\ UNCHANGED <<tunnel, opening, killApp, adShown, job, pollers, ad,
                   foreground, jumpLost>>

HearOther ==
    /\ Free /\ TakeUp /\ Head(inbox) \in {"WAIT", "RECONNECTING"}
    /\ UNCHANGED <<tunnel, opening, screenVars>>

Later ==
    /\ Free /\ later > 0
    /\ later' = later - 1
    /\ UpdateUI(hot)
    /\ UNCHANGED <<relayVars, tunnel, opening, hot, killApp, adShown, job, pollers, ad,
                   foreground, jumpLost>>

\* onStop, for another activity of the app or for another app.
OnStop ==
    /\ Free /\ foreground
    /\ foreground' \in BOOLEAN
    /\ IF \/ mi = "CONNECTING" /\ hot # "CONNECTED"
          \/ mi = "DISCONNECTING" /\ hot # "DISCONNECTED"
       THEN CancelCOD("none") /\ UpdateUI(hot)
       ELSE UNCHANGED <<job, pollers, adShown, mi>>
    /\ UNCHANGED <<relayVars, tunnel, opening, hot, killApp, ad, later, jumpLost>>

OnRestart ==
    /\ ~foreground
    /\ foreground' = TRUE
    /\ UNCHANGED <<relayVars, tunnel, opening, mi, hot, killApp, adShown, job, pollers, ad,
                   later, jumpLost>>

-----------------------------------------------------------------------------
Next ==
    \/ Report \/ OpenVTool \/ ServiceDies
    \/ BindSend \/ BindEntry \/ SendToAll
    \/ ClickCancel \/ ClickConnect
    \/ ConnectElapsed \/ DisconnectElapsed
    \/ PollerStops \/ PollerLooks \/ AdDismissed
    \/ HearConnected \/ HearConnecting \/ HearNoProcess \/ HearOther
    \/ Later \/ OnStop \/ OnRestart

Spec == Init /\ [][Next]_vars

\* The timers of the main thread end, an ad is dismissed, a registration goes through.
FairSpec ==
    /\ Spec
    /\ WF_vars(BindEntry) /\ WF_vars(PollerStops) /\ WF_vars(PollerLooks)
    /\ WF_vars(AdDismissed) /\ WF_vars(Later)
    /\ WF_vars(SendToAll)
    /\ WF_vars(HearConnected \/ HearConnecting \/ HearNoProcess \/ HearOther)

-----------------------------------------------------------------------------
(***************************************************************************)
(* Two spinners that are over in the service are about to be over on the   *)
(* screen.  That of a disconnection that has been heard has a delayed      *)
(* update waiting; that of a connection that has been heard, an update, a  *)
(* runnable or an ad that leads to one, or a status that it has yet to     *)
(* hear.  Not where an ad took its jump with it (jumpLost), nor where no   *)
(* status ever comes: a failed openVTool leaves CONNECTING over            *)
(* DISCONNECTED.                                                           *)
(***************************************************************************)
Looking(j) == \E p \in ToSet(pollers) : p.jump = j

News == {"NOPROCESS", "CONNECTING", "CONNECTED"}    \* what setVpnState acts on

SpinnerEnds ==
    /\ mi = "DISCONNECTING" /\ hot = "DISCONNECTED" => later > 0
    /\ mi = "CONNECTING" /\ hot = "CONNECTED" /\ ~jumpLost =>
          \/ later > 0
          \/ Looking("endPage") /\ ~adShown
          \/ ad # "none"
          \/ tunnel # "on"
          \/ (ToSet(posted) \cup ToSet(inbox)) \cap News # {}

(***************************************************************************)
(* disconnect() is called by a coroutine that nobody cancelled, by an ad   *)
(* that was on the display, or by a runnable that was never called off or  *)
(* that a later showConnectAd has revived: cancelCOD, of a click or of     *)
(* onStop, is enough for the coroutine and, as long as adShown stays set,  *)
(* for every runnable.                                                     *)
(***************************************************************************)
CancelHolds ==
    [][tunnel' = "stopping" /\ tunnel # "stopping" =>
          \/ job = "disconnect" /\ job' = "none"
          \/ ad = "disconnect" /\ ad' = "none"
          \/ /\ pollers # <<>>
             /\ Head(pollers).jump = "disconnect" /\ Head(pollers).fate # "stopped"]_vars

(***************************************************************************)
(* The spinner of a disconnection that is complete comes to rest, and that *)
(* of a connection too, unless its ad was lost or the VPN goes again.      *)
(***************************************************************************)
Settles ==
    /\ mi = "DISCONNECTING" /\ hot = "DISCONNECTED" ~> mi # "DISCONNECTING"
    /\ mi = "CONNECTING" /\ hot = "CONNECTED" ~>
           mi # "CONNECTING" \/ jumpLost \/ tunnel # "on"
=============================================================================
