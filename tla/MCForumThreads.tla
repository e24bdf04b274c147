----------------------------- MODULE MCForumThreads -----------------------------
(* A small instance of module ForumThreads for TLC. *)
EXTENDS ForumThreads

CONSTANTS t1, t2, t3, t4

\* t3 is active; the malformed t4 is the newest of the archive.
MCArchived == <<t1, t2, t4>>
================================================================================
