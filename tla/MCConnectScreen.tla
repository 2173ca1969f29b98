--------------------------- MODULE MCConnectScreen ---------------------------
(***************************************************************************)
(* ConnectScreen for TLC: one message in each queue, two runnables of two  *)
(* attempts, so that one of them can stop, revive or outlast the other.    *)
(***************************************************************************)
EXTENDS ConnectScreen
=============================================================================
