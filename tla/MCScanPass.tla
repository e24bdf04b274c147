------------------------------- MODULE MCScanPass -------------------------------
(* Small instances of module ScanPass for TLC. *)
EXTENDS ScanPass

CONSTANTS b1, b2, g1, g2, c1, c2, c3

\* A guild that is nobody's in particular and only the first account has joined, and one
\* that both have joined and the second one owns; the latter's only channel, where the
\* instance has it, is c3.
MCPool    == <<b1, b2>>
MCGuildOf == [c \in Channels |-> IF c = c3 THEN g2 ELSE g1]
MCJoined  == [b \in Burners |-> IF b = b1 THEN {g1, g2} ELSE {g2}]
MCOwner   == [g \in Guilds |-> IF g = g1 THEN Shared ELSE b2]

================================================================================
