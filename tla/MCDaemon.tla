------------------------------ MODULE MCDaemon ------------------------------
(* Small instances of Daemon for TLC.                                      *)
EXTENDS Daemon

AllFaults == {"boot", "connection", "hunt", "cleanup", "draft"}
=============================================================================
