\* Two channels of a guild in one pass.
SPECIFICATION Spec
CONSTANTS
  b1 = b1
  b2 = b2
  g1 = g1
  g2 = g2
  c1 = c1
  c2 = c2
  c3 = c3
  Burners = {b1, b2}
  Pool <- MCPool
  Single = b1
  Guilds = {g1, g2}
  Channels = {c1, c2, c3}
  guildOf <- MCGuildOf
  Forums = {c3}
  Joined <- MCJoined
  Owner <- MCOwner
  Shared = Shared
  NoGuild = NoGuild
  NoChannel = NoChannel
  MaxPosts = 1
  MaxDay = 1
  MaxTrouble = 0
PROPERTY OtherChannelsKept
