CONSTANTS
  p1 = p1
  p2 = p2
  c1 = c1
  c2 = c2
  s1 = s1
  s2 = s2
  g1 = g1
  g2 = g2
  Procs = {p1, p2}
  Resolvers = {p2}
  Codes = {c1, c2}
  Guilds = {g1, g2}
  Scopes = {s1, s2}
  Intents = {"photo", "film", "any"}
  Nothing = Nothing
  Gone = Gone
  NoIntent = NoIntent
  Unreadable = Unreadable
  Allow <- MCAllow
  Wanted = {}
  Worlds <- MCWorlds
  Turns <- MCTurns
  Versions <- MCVersions
  TTL = 0
  MaxTroubles = 1
SPECIFICATION Spec
INVARIANTS OneScopeAlone
PROPERTIES AnswersAreRecent ScopesKept
CHECK_DEADLOCK FALSE
