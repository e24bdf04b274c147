SPECIFICATION FairSpec
CONSTANTS
  Reconnects = TRUE
  MaxSequence = 6
  MaxWire = 3
  MaxTrouble = 4
INVARIANT OneHeartbeat
INVARIANT EndsAgree
INVARIANT RefusedIsForgotten
INVARIANT PresenceOnce
\* The object is used once: closed, it stops.
CHECK_DEADLOCK FALSE
 
