CONSTANTS
  t1 = t1
  t2 = t2
  t3 = t3
  t4 = t4
  Threads = {t1, t2, t3, t4}
  Malformed = {t4}
  Archived0 <- MCArchived
  Page = 2
  MaxPages = 3
  MsgPage = 2
  MsgCap = 3
  Posts0 = 2
  Days = 2
  MaxMoves = 3
  MaxTroubles = 1
SPECIFICATION ForumSpec
INVARIANTS ListedWhole SnapshotWhole
PROPERTIES ThreadsCatchUp
