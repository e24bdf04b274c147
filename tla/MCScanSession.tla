---------------------------- MODULE MCScanSession ----------------------------
(* A small instance of module ScanSession for TLC. *)
EXTENDS ScanSession, TLC

CONSTANTS d, s, t, b1, b2

\* A daemon, and a scan command that serves a pool of two accounts.
MCPool == d :> <<b1>> @@ s :> <<b2, b1>>

================================================================================
