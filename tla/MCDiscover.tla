------------------------------- MODULE MCDiscover -------------------------------
(* Small instances of module Discover for TLC. *)
EXTENDS Discover

CONSTANTS c1, c2, s1, s2, g1, g2

Record(c, i, n) == [code |-> c, intent |-> i, confidence |-> n]
World(f, h1, h2) == [feed |-> f, leads |-> [c \in Codes |-> IF c = c1 THEN h1 ELSE h2]]

\* Two scopes that share an intent.
MCAllow == [s \in Scopes |-> IF s = s1 THEN {"photo", "any"} ELSE {"film", "any"}]

\* Two invites of two guilds for one scope; one that is there twice, the last time
\* with another intent that the filter drops; and one that leads to no guild at first.
MCSmallWorlds ==
  {World(<<Record(c1, "photo", "high"), Record(c2, "photo", "none")>>, g1, g2),
   World(<<Record(c1, "photo", "high"), Record(c1, "film", "low"),
           Record(c2, NoIntent, "none")>>, g1, Gone),
   World(<<Record(c1, "photo", "high")>>, Nothing, Gone)}

\* And two invites of one guild for two scopes.
MCWorlds ==
  {World(<<Record(c1, "photo", "high"), Record(c2, "film", "high")>>, g1, g1)}
    \cup MCSmallWorlds

MCTurns == {g2, Nothing}
MCVersions == {Missing, [text |-> "good", guilds |-> {}], [text |-> "invalid", guilds |-> {g1}]}
================================================================================
