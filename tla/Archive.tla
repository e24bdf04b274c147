-------------------------------- MODULE Archive --------------------------------
(***************************************************************************)
(* What the cursor row of a channel promises about the archive, whatever   *)
(* scan wrote it: the two ends of the scanned history only move apart, and *)
(* neither ever passes a message that can still be fetched and that no     *)
(* completed write of a dump file has recorded.  A power cut may bring     *)
(* back a row that the table had before, and never another one.            *)
(***************************************************************************)
EXTENDS Integers

CONSTANTS
  Ids,        \* Snowflakes.
  None,       \* The cursor column that is NULL.
  Malformed   \* Messages whose record cannot be archived.

VARIABLES
  history,        \* Messages that can be fetched.
  nextId,         \* The next message's snowflake.
  written,        \* Messages recorded by a completed write.
  lastMessageId,  \* The newer end of the scanned history.
  oldestSeen,     \* The older end.
  complete,       \* The older end is the start of the channel.
  disk            \* The row as it is on the disk: that of some earlier moment.

row == <<lastMessageId, oldestSeen, complete>>
avars == <<history, nextId, written, row, disk>>

\* Messages the archive owes to a reader who trusts the row.
Owed == history \ Malformed

Init ==
  /\ history \subseteq Ids /\ nextId \in Nat /\ \A m \in history : m < nextId
  /\ written = {}
  /\ lastMessageId = None /\ oldestSeen = None /\ complete = FALSE
  /\ disk = row

Post ==
  /\ nextId \in Ids
  /\ history' = history \cup {nextId}
  /\ nextId' = nextId + 1
  /\ UNCHANGED <<written, row, disk>>

Delete ==
  /\ \E m \in history : history' = history \ {m}
  /\ UNCHANGED <<nextId, written, row, disk>>

Record ==
  /\ \E S \in SUBSET (Ids \ Malformed) :
       (\A m \in S : m < nextId) /\ written' = written \cup S
  /\ UNCHANGED <<history, nextId, row, disk>>

\* The newer end moves to a recorded message and skips none.
AdvanceForward ==
  /\ \E c \in written :
       /\ lastMessageId # None =>
            /\ lastMessageId < c
            /\ \A m \in Owed : lastMessageId < m /\ m <= c => m \in written
       /\ lastMessageId' = c
  /\ UNCHANGED <<history, nextId, written, oldestSeen, complete, disk>>

\* The older end moves to an older message, and skips none.
AdvanceBackward ==
  /\ \E c \in Ids :
       /\ oldestSeen # None =>
            /\ c < oldestSeen
            /\ \A m \in Owed : c <= m /\ m < oldestSeen => m \in written
       /\ oldestSeen' = c
  /\ UNCHANGED <<history, nextId, written, lastMessageId, complete, disk>>

\* The older end is declared the start only when nothing older is owed.
Finish ==
  /\ oldestSeen # None => \A m \in Owed : oldestSeen <= m
  /\ complete' = TRUE
  /\ UNCHANGED <<history, nextId, written, lastMessageId, oldestSeen, disk>>

\* What was committed reaches the disk.
Sync ==
  /\ disk' = row
  /\ UNCHANGED <<history, nextId, written, row>>

\* The table has the row of the disk again.
FallBack ==
  /\ row' = disk
  /\ UNCHANGED <<history, nextId, written, disk>>

Next ==
  \/ Post \/ Delete \/ Record
  \/ AdvanceForward \/ AdvanceBackward \/ Finish
  \/ Sync \/ FallBack

Spec == Init /\ [][Next]_avars

================================================================================
