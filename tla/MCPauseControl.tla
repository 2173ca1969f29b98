--------------------------- MODULE MCPauseControl ---------------------------
(***************************************************************************)
(* PauseControl for TLC.  The .cfg files give the constants their values,  *)
(* Networks and NoNetwork as model values; the modules' own MaxCmds,       *)
(* MaxEvts, MaxTimers and MaxNetTimers are the only bounds.                *)
(***************************************************************************)
EXTENDS PauseControl, TLC
=============================================================================
