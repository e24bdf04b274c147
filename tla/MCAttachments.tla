----------------------------- MODULE MCAttachments -----------------------------
\* Module Attachments over four messages of two guilds.  The first message has two
\* images; the others have a video each, and an image, a GIF, a file of another type
\* and a record without a URL between them.
EXTENDS Attachments

MCMessages == 1 .. 4
MCGuilds   == {"east", "west"}
MCGuildOf  == [m \in MCMessages |-> IF m < 4 THEN "east" ELSE "west"]
MCMsgOf    == <<1, 1, 2, 2, 3, 4, 4, 4, 4>>
MCKindOf   == <<"image", "image", "video", "image", "video", "video", "gif", "forbidden", "blank">>
MCTargets  == 1 .. 9
MCDistinct == [a \in 1 .. 9 |-> a]
================================================================================
