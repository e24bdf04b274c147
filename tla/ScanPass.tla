-------------------------------- MODULE ScanPass --------------------------------
(***************************************************************************)
(* A scan pass over accounts, guilds and channels: run_one_pass,           *)
(* _run_one_pass_for_burner, _scan_one_guild and scan_one_channel          *)
(* (scan/orchestrator.py), what they make of every kind of answer, the     *)
(* files of the day directory output/{guild}/{date} that all channels of a *)
(* guild share, and the exit status of the scan command (cli.py).          *)
(*                                                                         *)
(* Which messages one fetch returns, and when a file is on the disk, is    *)
(* module ChannelScan; here a fetch returns the oldest of the new messages.*)
(* The locks and the session of an account are module ScanSession.         *)
(***************************************************************************)
EXTENDS Integers, Sequences, FiniteSets

CONSTANTS
  Burners,          \* Accounts.
  Pool,             \* auth.burners[] in order; empty in the single-burner mode ...
  Single,           \* ... which uses auth.keyring_username.
  Guilds, Channels,
  guildOf,          \* The guild of a channel.
  Forums,           \* Channels of type 15, which have threads.
  Joined,           \* The guilds an account has joined.
  Owner,            \* The account a scope profile names for a guild, or Shared.
  Shared,
  NoGuild, NoChannel,
  MaxPosts,         \* Bound: messages posted in a channel.
  MaxDay,           \* Bound: UTC days.
  MaxTrouble        \* Bound: answers that are not what was asked for, and crashes.

ASSUME PassAssumption ==
  /\ Pool \in Seq(Burners) /\ Single \in Burners
  /\ guildOf \in [Channels -> Guilds] /\ Forums \subseteq Channels
  /\ Joined \in [Burners -> SUBSET Guilds] /\ Owner \in [Guilds -> Burners \cup {Shared}]
  /\ Shared \notin Burners /\ NoGuild \notin Guilds /\ NoChannel \notin Channels
  /\ MaxPosts \in Nat /\ MaxDay \in Nat \ {0} /\ MaxTrouble \in Nat

VARIABLES
  posted,           \* Messages of a channel: 1 .. posted[c].
  day,              \* The UTC date.
  cursor,           \* cursor.sqlite: the newest message recorded, 0 without a row.
  messages,         \* messages.jsonl.zst of a guild and a day.
  dirs,             \* The days for which a guild has a directory.
  prior,            \* prior.txt of a guild and a day: 0 is the empty file.
  meta,             \* The days for which a guild has a written meta.json.
  torn,             \* The prior.txt that a pass opened and did not come to write.
  run,              \* The locals of the pass.
  seen,             \* What the pass met: for the properties.
  trouble

files == <<messages, dirs, prior, meta, torn>>
vars  == <<posted, day, cursor, files, run, seen, trouble>>

Days    == 1 .. MaxDay
NoFile  == -1
Running == -1            \* run.exit until the pass is over.

\* A bug: a guild that no scope profile owns is nobody's job.
MineOnly(b) == {g \in Joined[b] : Owner[g] = b}

\* The accounts of a pass, and the guilds of an account: a guild whose scope names
\* another account is that account's job.
Accounts == IF Pool = <<>> THEN <<Single>> ELSE Pool
Mine(b) == {g \in Joined[b] : Owner[g] \in {Shared, b}}
ChannelsOf(g) == {c \in Channels : guildOf[c] = g}

account == Accounts[run.turn]

Trouble(place, kind) ==
  /\ trouble < MaxTrouble /\ trouble' = trouble + 1
  /\ seen' = IF kind = "captcha" THEN [seen EXCEPT !.captcha = @ \cup {place}] ELSE seen

NoTrouble == UNCHANGED <<seen, trouble>>

\* mkdir of the day directory of the guild in hand.
WithDay == [dirs EXCEPT ![run.guild] = @ \cup {run.date}]

\* The program ends with an exit status.
Exit(code) == run' = [run EXCEPT !.pc = "over", !.exit = code]

\* The channel is done with, skipped or not: its part of the counters stays.
LeaveChannel(counted) ==
  run' = [run EXCEPT !.pc = "channel", !.channel = NoChannel, !.got = 0,
                     !.fetched = @ \/ counted > 0]

\* A bug: the earlier days are sorted the other way round.
PriorDateEarliest(g, d) ==
  LET earlier == {e \in dirs[g] : e < d}
  IN  IF earlier = {} THEN 0 ELSE CHOOSE e \in earlier : \A f \in earlier : e <= f

\* resolve_prior_date: the latest earlier day with a directory.
PriorDate(g, d) ==
  LET earlier == {e \in dirs[g] : e < d}
  IN  IF earlier = {} THEN 0 ELSE CHOOSE e \in earlier : \A f \in earlier : f <= e

--------------------------------------------------------------------------------
(* Discord, the calendar and the operator.                                 *)

Post(c) ==
  /\ posted[c] < MaxPosts
  /\ posted' = [posted EXCEPT ![c] = @ + 1]
  /\ UNCHANGED <<day, cursor, files, run, seen, trouble>>

NextDay ==
  /\ day < MaxDay
  /\ day' = day + 1
  /\ UNCHANGED <<posted, cursor, files, run, seen, trouble>>

\* A process begins a pass; it has been over, or it has died.
Begin ==
  /\ run.pc = "over"
  /\ run' = [pc |-> "open", turn |-> 1, date |-> day, guilds |-> {}, guild |-> NoGuild,
             channels |-> {}, channel |-> NoChannel, got |-> 0, fetched |-> FALSE,
             exit |-> Running]
  /\ seen' = [captcha |-> {}, rejected |-> FALSE, visited |-> {}, unlisted |-> {},
              cut |-> seen.cut \/ run.exit # 0]
  /\ UNCHANGED <<posted, day, cursor, files, trouble>>

Crash ==
  /\ run.pc # "over"
  /\ trouble < MaxTrouble /\ trouble' = trouble + 1
  /\ run' = [run EXCEPT !.pc = "over"]
  /\ torn' = IF run.pc = "prior" THEN torn \cup {<<run.guild, run.date>>} ELSE torn
  /\ UNCHANGED <<posted, day, cursor, messages, dirs, prior, meta, seen>>

--------------------------------------------------------------------------------
(* Bugs this code could have had: each breaks one property.                *)

\* A skipped channel ends its guild.
StartChannelUnlessSkipped ==
  /\ run.pc = "channel"
  /\ IF trouble > 0
     THEN run' = [run EXCEPT !.channels = {}] /\ run.channels # {} /\ UNCHANGED seen
     ELSE \E c \in run.channels :
            /\ run' = [run EXCEPT !.pc = "forward", !.channel = c, !.channels = @ \ {c}]
            /\ seen' = [seen EXCEPT !.visited = @ \cup {c}]
  /\ UNCHANGED <<posted, day, cursor, files, trouble>>

\* The last except clause of the channel catches a captcha, too.
BackfillSwallowing ==
  /\ run.pc = "backfill"
  /\ \/ /\ LeaveChannel(0) /\ NoTrouble
        /\ dirs' \in {dirs, WithDay}
     \/ /\ LeaveChannel(0) /\ UNCHANGED dirs
        /\ \E kind \in {"captcha", "failure"} : Trouble("backfill", kind)
  /\ UNCHANGED <<posted, day, cursor, messages, prior, meta, torn>>

\* The end of a guild asks for the date again.
WriteMetaToday ==
  /\ run.pc = "metaWrite"
  /\ run' = [run EXCEPT !.pc = "guild", !.guild = NoGuild]
  /\ meta' = [meta EXCEPT ![run.guild] = @ \cup {day}]
  /\ UNCHANGED <<posted, day, cursor, messages, dirs, prior, torn, seen, trouble>>

--------------------------------------------------------------------------------
(* The account.                                                            *)

\* _open_shared_resources: the date of the pass is that of the opening.  A lock or
\* a token that is not there ends the program with 1, a failed handshake with 2.
OpenBurner ==
  /\ run.pc = "open"
  /\ \/ /\ run' = [run EXCEPT !.pc = "guilds", !.date = day]
        /\ NoTrouble
     \/ /\ \E code \in {1, 2} : Exit(code)
        /\ Trouble("open", "failure")
  /\ UNCHANGED <<posted, day, cursor, files>>

\* list_my_guilds, and the ownership filter.
ListGuilds ==
  /\ run.pc = "guilds"
  /\ \/ /\ run' = [run EXCEPT !.pc = "guild", !.guilds = Mine(account)]
        /\ NoTrouble
     \/ /\ run' = [run EXCEPT !.pc = "guild"]      \* Throttled, an error status, no list.
        /\ trouble < MaxTrouble /\ trouble' = trouble + 1
        /\ seen' = [seen EXCEPT !.unlisted = @ \cup Mine(account)]
     \/ /\ Exit(3)                                 \* 401
        /\ trouble < MaxTrouble /\ trouble' = trouble + 1
        /\ seen' = [seen EXCEPT !.rejected = TRUE]
     \/ /\ Exit(1)                                 \* Nothing catches what else is raised.
        /\ \E kind \in {"captcha", "failure"} : Trouble("guilds", kind)
  /\ UNCHANGED <<posted, day, cursor, files>>

\* The account is served; the next one opens its own resources.
EndBurner ==
  /\ run.pc = "guild" /\ run.guilds = {}
  /\ IF run.turn < Len(Accounts)
     THEN run' = [run EXCEPT !.pc = "open", !.turn = @ + 1]
     ELSE Exit(0)
  /\ UNCHANGED <<posted, day, cursor, files, seen, trouble>>

--------------------------------------------------------------------------------
(* The guild.                                                              *)

\* list_channels and filter_channels: whatever goes wrong ends this guild only.
ListChannels ==
  /\ run.pc = "guild"
  /\ \E g \in run.guilds :
       \/ /\ run' = [run EXCEPT !.pc = "channel", !.guild = g, !.guilds = @ \ {g},
                                !.channels = ChannelsOf(g), !.fetched = FALSE]
          /\ NoTrouble
       \/ /\ run' = [run EXCEPT !.guilds = @ \ {g}]
          /\ trouble < MaxTrouble /\ trouble' = trouble + 1
          /\ \E captcha \in {{}, {"channels"}} :
               seen' = [seen EXCEPT !.unlisted = @ \cup {g}, !.captcha = @ \cup captcha]
  /\ UNCHANGED <<posted, day, cursor, files>>

\* The channels are done with: prior.txt and meta.json are written when something was
\* fetched, each opened, and by that emptied, before it is written.
EndGuild ==
  /\ run.pc = "channel" /\ run.channels = {} /\ ~ run.fetched
  /\ run' = [run EXCEPT !.pc = "guild", !.guild = NoGuild]
  /\ UNCHANGED <<posted, day, cursor, files, seen, trouble>>

\* Nothing catches a file that cannot be opened or written: the program ends with 1.
FileFails == Exit(1) /\ Trouble("files", "failure")

OpenPrior ==
  /\ run.pc = "channel" /\ run.channels = {} /\ run.fetched
  /\ \/ /\ run' = [run EXCEPT !.pc = "prior"] /\ NoTrouble
        /\ dirs' = WithDay
        /\ prior' = [prior EXCEPT ![run.guild][run.date] = 0]
     \/ FileFails /\ dirs' \in {dirs, WithDay} /\ UNCHANGED prior
  /\ UNCHANGED <<posted, day, cursor, messages, meta, torn>>

WritePrior ==
  /\ run.pc = "prior"
  /\ LET g == run.guild  d == run.date
     IN  \/ /\ run' = [run EXCEPT !.pc = "meta"] /\ NoTrouble
            /\ prior' = [prior EXCEPT ![g][d] = PriorDate(g, d)]
            /\ torn' = torn \ {<<g, d>>}
         \/ FileFails /\ torn' = torn \cup {<<g, d>>} /\ UNCHANGED prior
  /\ UNCHANGED <<posted, day, cursor, messages, dirs, meta>>

OpenMeta ==
  /\ run.pc = "meta"
  /\ \/ /\ run' = [run EXCEPT !.pc = "metaWrite"] /\ NoTrouble
        /\ meta' = [meta EXCEPT ![run.guild] = @ \ {run.date}]
     \/ FileFails /\ UNCHANGED meta
  /\ UNCHANGED <<posted, day, cursor, messages, dirs, prior, torn>>

WriteMeta ==
  /\ run.pc = "metaWrite"
  /\ \/ /\ run' = [run EXCEPT !.pc = "guild", !.guild = NoGuild] /\ NoTrouble
        /\ meta' = [meta EXCEPT ![run.guild] = @ \cup {run.date}]
     \/ FileFails /\ UNCHANGED meta
  /\ UNCHANGED <<posted, day, cursor, messages, dirs, prior, torn>>

--------------------------------------------------------------------------------
(* The channel: each step may end it or the pass.                          *)

\* A channel's own request: a failure skips the channel, a captcha or a URL that is
\* not allowed ends the program with 2.
Fails(place, counted) ==
  \/ LeaveChannel(counted) /\ Trouble(place, "failure")
  \/ Exit(2) /\ \E kind \in {"captcha", "ssrf"} : Trouble(place, kind)

StartChannel ==
  /\ run.pc = "channel"
  /\ \E c \in run.channels :
       /\ run' = [run EXCEPT !.pc = "forward", !.channel = c, !.channels = @ \ {c}]
       /\ seen' = [seen EXCEPT !.visited = @ \cup {c}]
  /\ UNCHANGED <<posted, day, cursor, files, trouble>>

\* The forward fetch.  What an aborted fetch has received is counted, not written.
Forward ==
  /\ run.pc = "forward"
  /\ LET new == posted[run.channel] - cursor[run.channel]
     IN  \/ /\ \E n \in {m \in 0 .. new : m = 0 => new = 0} :
                 run' = [run EXCEPT !.pc = "pins", !.got = n]
            /\ NoTrouble
         \/ \E counted \in 0 .. new : Fails("forward", counted)
  /\ UNCHANGED <<posted, day, cursor, files>>

\* The pins, and the files of the channel: messages.jsonl.zst is opened for writing, and
\* by that emptied; a file that cannot be written skips the channel.
FetchPinned ==
  /\ run.pc = "pins"
  /\ LET c == run.channel  g == run.guild  d == run.date
         With(records) == [messages EXCEPT ![g][d] = records]
         fetched == {<<c, n>> : n \in cursor[c] + 1 .. cursor[c] + run.got}
     IN  \/ /\ \E pins \in {0, 1} :
                 /\ run' = [run EXCEPT !.fetched = @ \/ run.got + pins > 0,
                                       !.pc = IF run.got > 0 THEN "advance" ELSE "threads"]
                 /\ dirs' = IF run.got + pins > 0 THEN WithDay ELSE dirs
            /\ messages' = IF run.got > 0 THEN With(fetched) ELSE messages
            /\ NoTrouble
         \/ Fails("pins", run.got) /\ UNCHANGED <<dirs, messages>>
         \/ /\ LeaveChannel(1) /\ Trouble("files", "failure") /\ dirs' = WithDay
            /\ \/ UNCHANGED messages
               \/ run.got > 0 /\ messages' \in {With({}), With(fetched)}
  /\ UNCHANGED <<posted, day, cursor, prior, meta, torn>>

\* CursorStore.advance: the row belongs to the channel, whichever account scans it.
Advance ==
  /\ run.pc = "advance"
  /\ \/ /\ cursor' = [cursor EXCEPT ![run.channel] = @ + run.got]
        /\ run' = [run EXCEPT !.pc = "threads"] /\ NoTrouble
     \/ LeaveChannel(run.got) /\ Trouble("files", "failure") /\ UNCHANGED cursor
  /\ UNCHANGED <<posted, day, files>>

\* _scan_channel_threads, for a forum.  It catches what the requests raise, a captcha
\* included; a threads.jsonl that cannot be written skips the rest of the channel.
ScanThreads ==
  /\ run.pc = "threads"
  /\ \/ /\ run' = [run EXCEPT !.pc = "backfill"]
        /\ \/ NoTrouble
           \/ /\ run.channel \in Forums
              /\ \E kind \in {"captcha", "failure"} : Trouble("threads", kind)
     \/ run.channel \in Forums /\ LeaveChannel(0) /\ Trouble("files", "failure")
  /\ dirs' \in IF run.channel \in Forums THEN {dirs, WithDay} ELSE {dirs}
  /\ UNCHANGED <<posted, day, cursor, messages, prior, meta, torn>>

\* _run_backfill: what it finds goes to a file of its own.
Backfill ==
  /\ run.pc = "backfill"
  /\ \/ /\ LeaveChannel(0)
        /\ NoTrouble \/ Trouble("files", "failure")
        /\ dirs' \in {dirs, WithDay}
     \/ Fails("backfill", 0) /\ UNCHANGED dirs
  /\ UNCHANGED <<posted, day, cursor, messages, prior, meta, torn>>

--------------------------------------------------------------------------------
Init ==
  /\ posted = [c \in Channels |-> 0] /\ day = 1
  /\ cursor = [c \in Channels |-> 0]
  /\ messages = [g \in Guilds |-> [d \in Days |-> {}]]
  /\ dirs = [g \in Guilds |-> {}] /\ meta = [g \in Guilds |-> {}]
  /\ prior = [g \in Guilds |-> [d \in Days |-> NoFile]] /\ torn = {}
  /\ run = [pc |-> "over", turn |-> 1, date |-> 1, guilds |-> {}, guild |-> NoGuild,
            channels |-> {}, channel |-> NoChannel, got |-> 0, fetched |-> FALSE,
            exit |-> 0]
  /\ seen = [captcha |-> {}, rejected |-> FALSE, visited |-> {}, unlisted |-> Guilds,
             cut |-> FALSE]
  /\ trouble = 0

Step ==
  \/ OpenBurner \/ ListGuilds \/ EndBurner
  \/ ListChannels \/ EndGuild \/ OpenPrior \/ WritePrior \/ OpenMeta \/ WriteMeta
  \/ StartChannel \/ Forward \/ FetchPinned \/ Advance \/ ScanThreads \/ Backfill

Next == (\E c \in Channels : Post(c)) \/ NextDay \/ Begin \/ Crash \/ Step

Spec == Init /\ [][Next]_vars

\* A pass goes on, and the daemon or the operator begins the next one.
FairSpec == Spec /\ WF_vars(Step) /\ WF_vars(Begin)

--------------------------------------------------------------------------------
(* Properties.                                                             *)

PCs == {"over", "open", "guilds", "guild", "channel", "forward", "pins", "advance",
        "threads", "backfill", "prior", "meta", "metaWrite"}
Requests == {"guilds", "channels", "forward", "pins", "threads", "backfill"}

\* An account has to scan the guilds it has joined and no other account owns.
HasToScan(b, g) == g \in Joined[b] /\ Owner[g] \in {b, Shared}

TypeOK ==
  /\ posted \in [Channels -> 0 .. MaxPosts] /\ day \in Days
  /\ cursor \in [Channels -> Nat] /\ \A c \in Channels : cursor[c] <= posted[c]
  /\ messages \in [Guilds -> [Days -> SUBSET (Channels \X Nat)]]
  /\ dirs \in [Guilds -> SUBSET Days] /\ meta \in [Guilds -> SUBSET Days]
  /\ prior \in [Guilds -> [Days -> Days \cup {0, NoFile}]]
  /\ torn \subseteq Guilds \X Days
  /\ run \in [pc : PCs, turn : 1 .. Len(Accounts), date : Days, guilds : SUBSET Guilds,
              guild : Guilds \cup {NoGuild}, channels : SUBSET Channels,
              channel : Channels \cup {NoChannel}, got : Nat, fetched : BOOLEAN,
              exit : {Running, 0, 1, 2, 3}]
  /\ seen \in [captcha : SUBSET Requests, rejected : BOOLEAN, visited : SUBSET Channels,
               unlisted : SUBSET Guilds, cut : BOOLEAN]
  /\ trouble \in 0 .. MaxTrouble

\* Exit 0 says that the pass was complete: for every account every channel of every
\* guild it has to scan was visited, unless Discord would not list them; 3 says that
\* the token was rejected in answer to the request for the guilds, and a token rejected
\* there says 3.  (A 401 in answer to a later request is a skip like any other failure.)
ExitTellsTheTruth ==
  /\ run.exit = 0 => \A i \in 1 .. Len(Accounts) : \A g \in Guilds \ seen.unlisted :
       HasToScan(Accounts[i], g) => ChannelsOf(g) \subseteq seen.visited
  /\ seen.rejected <=> run.exit = 3

\* A captcha in answer to a request of a channel ends the pass with 2, whatever the
\* channel had done before (SEC-P0-16).
ChallengeEndsPass ==
  seen.captcha \cap {"forward", "pins", "backfill"} # {} => run.exit = 2

\* A prior.txt that is open and has not been written, or never was: a pass died in
\* between, or the write failed.
Unwritten(g, d) ==
  <<g, d>> \in torn \/ (run.pc = "prior" /\ run.guild = g /\ run.date = d)

\* prior.txt names the last day before its own for which the guild has a directory, also
\* when passes end over midnight or are cut short elsewhere, and is empty only when there
\* is no such day, or when it was opened and not written.
PriorIsLatest ==
  \A g \in Guilds, d \in Days :
    LET e == prior[g][d]
    IN  e # NoFile => /\ e < d /\ e \in dirs[g] \cup {0}
                      /\ (e = 0 /\ Unwritten(g, d)) \/ (\A f \in dirs[g] : f <= e \/ f >= d)

\* As long as no pass is cut short, messages have a meta.json beside them, also those
\* of a channel that was skipped after it had written and those fetched over midnight.
MetaBesideMessages ==
  ~ seen.cut /\ run.exit = 0 =>
    \A g \in Guilds, d \in Days : messages[g][d] # {} => d \in meta[g]

\* Pass after pass every channel of a guild some account has to scan catches up,
\* whatever was skipped or ended early before.
PassesCatchUp ==
  \A c \in Channels : (\E i \in 1 .. Len(Accounts) : HasToScan(Accounts[i], guildOf[c])) =>
    <>[](cursor[c] = posted[c])

(* What documents and comments say of the program, and what it does not do.  *)

\* README.md: "messages.jsonl.zst # all messages": what a channel writes leaves what
\* the other channels of the guild have written.
OtherChannelsKept ==
  [][\A g \in Guilds, d \in Days :
       {r \in messages[g][d] : r[1] # run.channel} \subseteq messages'[g][d]]_vars

================================================================================
