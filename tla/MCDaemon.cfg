CONSTANTS
  d1 = d1
  d2 = d2
  f1 = f1
  f2 = f2
  Daemons = {d1, d2}
  Handlers = {d1}
  Capped = {d2}
  Cap = 1
  Keep = 1
  PerDay = 2
  Days <- MCDays
  Files = {f1, f2}
  MaxTroubles = 1
SPECIFICATION Spec
INVARIANTS RecentKept StopsInTime
CHECK_DEADLOCK FALSE
PROPERTIES SignalEnds OldDirectoriesGo
