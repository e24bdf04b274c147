-------------------------------- MODULE MCDaemon --------------------------------
(* A small instance of module Daemon for TLC. *)
EXTENDS Daemon

MCDays == 0..1
================================================================================
