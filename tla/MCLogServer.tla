---------------------------- MODULE MCLogServer ----------------------------
(* Small instances of the log server for TLC. *)
EXTENDS LogServer
=============================================================================
