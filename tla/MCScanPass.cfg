\* A pool of two accounts, a guild with two channels and one with none, three days.
SPECIFICATION FairSpec
CONSTANTS
  b1 = b1
  b2 = b2
  g1 = g1
  g2 = g2
  c1 = c1
  c2 = c2
  c3 = c3
  Burners = {b1, b2}
  Pool <- MCPool
  Single = b1
  Guilds = {g1, g2}
  Channels = {c1, c2}
  guildOf <- MCGuildOf
  Forums = {c2}
  Joined <- MCJoined
  Owner <- MCOwner
  Shared = Shared
  NoGuild = NoGuild
  NoChannel = NoChannel
  MaxPosts = 1
  MaxDay = 3
  MaxTrouble = 2
INVARIANTS ExitTellsTheTruth ChallengeEndsPass PriorIsLatest MetaBesideMessages
PROPERTY PassesCatchUp
