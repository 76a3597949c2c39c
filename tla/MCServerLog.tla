---------------------------- MODULE MCServerLog -----------------------------
(* An instance of ServerLog for TLC; MCServerLog.cfg gives the constants. *)
EXTENDS ServerLog
=============================================================================
