----------------------------- MODULE StatusRelay -----------------------------
(***************************************************************************)
(* How a status gets from the VPN to the screen: VpnStatus in the service  *)
(* process tells ExternalOpenVPNService, which keeps the most recent one   *)
(* and posts a message to its handler; the handler calls newStatus at the  *)
(* registered callbacks, a one-way call that the client's main thread      *)
(* takes up later.  A client that registers is sent the most recent status *)
(* on a binder thread and entered in the list of callbacks afterwards.     *)
(***************************************************************************)
EXTENDS Naturals, Sequences, SequencesExt

CONSTANTS
    MaxPosted,      \* bound: messages in the handler's queue
    MaxInbox        \* bound: statuses the client has not taken up

ASSUME RelayAssumption == MaxPosted \in Nat \ {0} /\ MaxInbox \in Nat \ {0}

\* WAIT stands for AUTH too, RECONNECTING for every other state the screen ignores.
Statuses == {"NOPROCESS", "CONNECTING", "WAIT", "CONNECTED", "RECONNECTING"}

VARIABLES
    mostRecent,     \* mMostRecentState, equal to VpnStatus.mLaststate
    posted,         \* the SEND_TOALL messages of the handler
    registration,   \* "none", "sent" (the status is, the entry is not), "done"
    inbox,          \* the calls of newStatus the client's main thread has to do
    heard,          \* history: the last status sent to this client
    missed          \* history: an update after that one met no entry in the list

relayVars == <<mostRecent, posted, registration, inbox, heard, missed>>

RelayTypeOK ==
    /\ mostRecent \in Statuses
    /\ posted \in Seq(Statuses) /\ Len(posted) <= MaxPosted
    /\ registration \in {"none", "sent", "done"}
    /\ inbox \in Seq(Statuses) /\ Len(inbox) <= MaxInbox
    /\ heard \in Statuses
    /\ missed \in BOOLEAN

\* addStateListener hands the new service the last state at once: there always is one.
RelayInit(s) ==
    /\ mostRecent = s /\ posted = <<>> /\ registration = "none"
    /\ inbox = <<>> /\ heard = "NOPROCESS" /\ missed = FALSE

\* fault: the listeners are told what VpnStatus drops.
UpdateStateAlways(s) ==
    /\ Len(posted) < MaxPosted
    /\ mostRecent' = IF mostRecent = "CONNECTED" /\ s = "WAIT" THEN mostRecent ELSE s
    /\ posted' = Append(posted, s)
    /\ UNCHANGED <<registration, inbox, heard, missed>>

\* VpnStatus drops WAIT and AUTH of a connected process (384-388).
UpdateState(s) ==
    /\ Len(posted) < MaxPosted
    /\ IF mostRecent = "CONNECTED" /\ s = "WAIT"
       THEN UNCHANGED <<mostRecent, posted>>
       ELSE mostRecent' = s /\ posted' = Append(posted, s)
    /\ UNCHANGED <<registration, inbox, heard, missed>>

NewStatus(s) == inbox' = Append(inbox, s) /\ heard' = s

\* onServiceConnected calls registerStatusCallback; the caller waits for both steps.
RegisterSend ==
    /\ registration = "none" /\ Len(inbox) < MaxInbox
    /\ NewStatus(mostRecent)
    /\ registration' = "sent" /\ missed' = FALSE
    /\ UNCHANGED <<mostRecent, posted>>

RegisterEntry ==
    /\ registration = "sent"
    /\ registration' = "done"
    /\ UNCHANGED <<mostRecent, posted, inbox, heard, missed>>

Broadcast ==
    /\ posted # <<>> /\ Len(inbox) < MaxInbox
    /\ posted' = Tail(posted)
    /\ IF registration = "done"
       THEN NewStatus(Head(posted)) /\ missed' = FALSE
       ELSE missed' = TRUE /\ UNCHANGED <<inbox, heard>>
    /\ UNCHANGED <<mostRecent, registration>>

\* The service process dies: what it held is gone, what it has sent is not.
RelayLost ==
    /\ mostRecent' = "NOPROCESS" /\ posted' = <<>> /\ registration' = "none"
    /\ UNCHANGED <<inbox, heard, missed>>

TakeUp == inbox # <<>> /\ inbox' = Tail(inbox)
          /\ UNCHANGED <<mostRecent, posted, registration, heard, missed>>

(***************************************************************************)
(* What a registered client knows.  With nothing under way, and unless an  *)
(* update fell between the two steps of its registration, it was last sent *)
(* the status the VPN has.                                                 *)
(***************************************************************************)
StatusMirrored ==
    registration # "none" /\ posted = <<>> /\ ~missed => heard = mostRecent
=============================================================================
