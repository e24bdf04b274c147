SPECIFICATION Spec
CONSTANTS
  Messages <- MCMessages
  Guilds <- MCGuilds
  guildOf <- MCGuildOf
  LastAttachment = 9
  msgOf <- MCMsgOf
  kindOf <- MCKindOf
  Targets <- MCTargets
  targetOf <- MCDistinct
  SniffBytes = 2
  SizeCap = 3
  Chunks = {1, 2}
  RescanSameDay = TRUE
  MaxTrouble = 2
INVARIANT DownloadedIsKept
INVARIANT NoPartialLeft
INVARIANT EachIsDealtWith
INVARIANT TeardownKeepsVideos
