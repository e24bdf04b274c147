\* Requests of a client with the adaptive limiter.
SPECIFICATION FairSpec
CONSTANTS
  api = api
  cdn = cdn
  Hosts = {api, cdn}
  Known = {api}
  Api = api
  Attempts = 4
  Max429 = 3
  Cluster = 2
  Streak429 = 4
  Streak403 = 2
  Recovery = 2
  Window = 2
  Samples = 2
  MaxFives = 3
INVARIANTS VerdictIsEarned RatesFollowMode
PROPERTY RequestsEnd
PROPERTY SpeedReturns
