----------------------------- MODULE MCVpnSession -----------------------------
(***************************************************************************)
(* VpnSession for TLC: a few sessions, in haste and at leisure.            *)
(***************************************************************************)
EXTENDS VpnSession
=============================================================================
