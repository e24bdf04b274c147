----------------------------- MODULE MCRestSession -----------------------------
(* Small instances of module RestSession for TLC. *)
EXTENDS RestSession

CONSTANTS api, cdn

================================================================================
