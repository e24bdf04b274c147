\* A daemon and a pool of two accounts that share an account.
SPECIFICATION FairSpec
CONSTANTS
  d = d
  t = t
  s = s
  b1 = b1
  b2 = b2
  Procs = {d, s}
  Daemons = {d}
  Burners = {b1, b2}
  Plan <- MCPool
  Tools = {t}
  Keyring = b1
  Free = Free
  GatewayEnabled = TRUE
  MaxStarts = 3
  MaxNetwork = 1
  MaxDisk = 1
  MaxCrashes = 2
  MaxTools = 1
INVARIANTS SingleWriter OneSessionPerBurner JarReadWhole
CHECK_DEADLOCK FALSE
PROPERTY LocksComeBack
PROPERTY DaemonScansAgain
