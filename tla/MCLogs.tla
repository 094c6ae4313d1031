------------------------------- MODULE MCLogs -------------------------------
(* Small instances of Logs. *)
EXTENDS Logs, TLC
=============================================================================
