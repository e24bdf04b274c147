----------------------------- MODULE ScanPass_proofs -----------------------------
(***************************************************************************)
(* What module ScanPass promises for every pool of accounts, every layout  *)
(* of guilds and channels, and any number of days, posts and failures.     *)
(***************************************************************************)
EXTENDS ScanPass, WellFoundedInduction, TLAPS

RunType ==
  [pc : PCs, turn : 1 .. Len(Accounts), date : Days, guilds : SUBSET Guilds,
   guild : Guilds \cup {NoGuild}, channels : SUBSET Channels,
   channel : Channels \cup {NoChannel}, got : Nat, fetched : BOOLEAN,
   exit : {Running, 0, 1, 2, 3}]
SeenType ==
  [captcha : SUBSET Requests, rejected : BOOLEAN, visited : SUBSET Channels,
   unlisted : SUBSET Guilds, cut : BOOLEAN]

\* Where a pass is at a channel, where at the end of a guild, and where at a guild.
Within == {"forward", "pins", "advance", "threads", "backfill"}
Ending == {"prior", "meta", "metaWrite"}
Inside == Within \cup {"channel", "prior", "meta", "metaWrite"}

\* What the locals of a pass mean at each of its places: while it goes on it has no exit
\* status, what it has in hand is of the guild it scans, and a fetch holds no more than
\* was posted.
Control ==
  /\ run.pc # "over" => run.exit = Running
  /\ run.pc \in {"open", "guilds", "guild"} => run.guild = NoGuild
  /\ run.pc \in Inside => run.guild \in Guilds /\ run.channels \subseteq ChannelsOf(run.guild)
  /\ run.pc \in Within => run.channel \in ChannelsOf(run.guild)
  /\ run.pc \in {"pins", "advance"} => cursor[run.channel] + run.got <= posted[run.channel]
  /\ run.pc \in Ending => run.channels = {} /\ run.fetched

Typed == TypeOK /\ Control

--------------------------------------------------------------------------------
(* Operators.                                                              *)

\* A set of numbers up to N that is not empty has a greatest one.
LEMMA HasLatest ==
  ASSUME NEW N \in Nat, NEW T, T \subseteq 1 .. N, T # {}
  PROVE  \E x \in T : \A y \in T : y <= x
<1> DEFINE U == {N - x : x \in T}
<1>1. \A x \in T : x \in Nat /\ x <= N /\ N - x \in Nat
  OBVIOUS
<1>2. U \subseteq Nat /\ U # {}
  BY <1>1
<1>3. \E x \in U : \A y \in U : ~ (<<y, x>> \in OpToRel(<, Nat))
  <2> HIDE DEF U
  <2>q. QED
    BY <1>2, NatLessThanWellFounded, WFMin
<1>4. \A x, y \in Nat : <<y, x>> \in OpToRel(<, Nat) <=> y < x
  BY DEF OpToRel
<1>5. PICK x \in T : \A y \in U : ~ (<<y, N - x>> \in OpToRel(<, Nat))
  BY <1>3
<1>6. ASSUME NEW y \in T PROVE y <= x
  <2>1. N - y \in U /\ N - y \in Nat /\ N - x \in Nat
    BY <1>1, <1>2
  <2>2. ~ (N - y < N - x)
    BY <2>1, <1>4, <1>5
  <2>q. QED
    BY <2>1, <2>2, <1>1
<1>q. QED
  BY <1>6

\* resolve_prior_date finds the latest earlier day with a directory, or none.
LEMMA PriorDateIsLatest ==
  ASSUME NEW g \in Guilds, dirs[g] \subseteq Days, NEW d \in Days
  PROVE  /\ PriorDate(g, d) \in dirs[g] \cup {0} /\ PriorDate(g, d) < d
         /\ \A f \in dirs[g] : f <= PriorDate(g, d) \/ f >= d
<1> DEFINE earlier == {e \in dirs[g] : e < d}
<1>1. CASE earlier = {}
  BY <1>1 DEF PriorDate, Days
<1>2. CASE earlier # {}
  <2>1. \E e \in earlier : \A f \in earlier : f <= e
    <3>1. earlier \subseteq 1 .. MaxDay /\ MaxDay \in Nat
      BY PassAssumption DEF Days
    <3> HIDE DEF earlier
    <3>q. QED
      BY <3>1, <1>2, HasLatest
  <2>2. /\ PriorDate(g, d) \in earlier
        /\ \A f \in earlier : f <= PriorDate(g, d)
    BY <2>1, <1>2 DEF PriorDate
  <2>q. QED
    BY <2>2 DEF Days
<1>q. QED
  BY <1>1, <1>2

\* There is an account to be served.
LEMMA AccountsTyped ==
  /\ Accounts \in Seq(Burners) /\ Len(Accounts) \in Nat /\ 1 \in 1 .. Len(Accounts)
  /\ \A i \in 1 .. Len(Accounts) : Mine(Accounts[i]) \subseteq Guilds
<1>1. Accounts \in Seq(Burners) /\ Accounts # <<>>
  BY PassAssumption DEF Accounts
<1>2. Len(Accounts) \in Nat /\ Len(Accounts) # 0
  BY <1>1
<1>3. \A i \in 1 .. Len(Accounts) : Accounts[i] \in Burners
  BY <1>1
<1>q. QED
  BY <1>1, <1>2, <1>3, PassAssumption DEF Mine

\* The program ends with an exit status.
LEMMA ExitRun ==
  ASSUME run \in RunType, NEW code \in {0, 1, 2, 3}, Exit(code)
  PROVE  run' \in RunType /\ run'.pc = "over" /\ run'.exit = code
  BY DEF RunType, Exit, PCs

\* A channel that is left leaves the locals of its guild and its account alone.
LEMMA LeaveRun ==
  ASSUME run \in RunType, NEW n \in Nat, LeaveChannel(n)
  PROVE  /\ run' \in RunType /\ run'.pc = "channel" /\ run'.exit = run.exit
         /\ run'.turn = run.turn /\ run'.date = run.date /\ run'.guilds = run.guilds
         /\ run'.guild = run.guild /\ run'.channels = run.channels
         /\ (run.fetched => run'.fetched)
<1> DEFINE counted == run.fetched \/ n > 0
<1>1. counted \in BOOLEAN
  OBVIOUS
<1>2. run' = [run EXCEPT !.pc = "channel", !.channel = NoChannel, !.got = 0,
                         !.fetched = counted]
  BY DEF LeaveChannel, RunType
<1>3. run.fetched => counted
  OBVIOUS
<1> HIDE DEF counted
<1>q. QED
  BY <1>1, <1>2, <1>3 DEF RunType, PCs

\* What went wrong is noted, and nothing else.
LEMMA TroubleNoted ==
  ASSUME seen \in SeenType, trouble \in 0 .. MaxTrouble, NEW place, NEW kind,
         Trouble(place, kind), kind = "captcha" => place \in Requests
  PROVE  /\ seen' \in SeenType /\ trouble' \in 0 .. MaxTrouble
         /\ (kind = "captcha" => seen'.captcha = seen.captcha \cup {place})
         /\ (kind # "captcha" => seen' = seen)
         /\ seen'.rejected = seen.rejected /\ seen'.visited = seen.visited
         /\ seen'.unlisted = seen.unlisted /\ seen'.cut = seen.cut
<1>1. trouble' \in 0 .. MaxTrouble
  BY PassAssumption DEF Trouble
<1>2. CASE kind = "captcha"
  <2>1. seen' = [seen EXCEPT !.captcha = @ \cup {place}]
    BY <1>2 DEF Trouble
  <2> DEFINE met == seen.captcha \cup {place}
  <2>2. met \in SUBSET Requests
    BY <1>2 DEF SeenType
  <2>3. seen' = [seen EXCEPT !.captcha = met]
    BY <2>1
  <2> HIDE DEF met
  <2>4. /\ seen' \in SeenType /\ seen'.captcha = met
        /\ seen'.rejected = seen.rejected /\ seen'.visited = seen.visited
        /\ seen'.unlisted = seen.unlisted /\ seen'.cut = seen.cut
    BY <2>2, <2>3 DEF SeenType
  <2>q. QED
    BY <1>1, <1>2, <2>4 DEF met
<1>3. CASE kind # "captcha"
  <2>1. seen' = seen
    BY <1>3 DEF Trouble
  <2>q. QED
    BY <1>1, <1>3, <2>1
<1>q. QED
  BY <1>2, <1>3

\* A request of a channel that fails skips the channel or ends the program with 2.
LEMMA FailsRun ==
  ASSUME run \in RunType, seen \in SeenType, trouble \in 0 .. MaxTrouble,
         NEW place \in Requests, NEW n \in Nat, Fails(place, n)
  PROVE  /\ run' \in RunType /\ seen' \in SeenType /\ trouble' \in 0 .. MaxTrouble
         /\ \/ LeaveChannel(n) /\ seen'.captcha = seen.captcha
            \/ Exit(2)
         /\ seen'.rejected = seen.rejected /\ seen'.visited = seen.visited
         /\ seen'.unlisted = seen.unlisted /\ seen'.cut = seen.cut
<1>1. CASE LeaveChannel(n) /\ Trouble(place, "failure")
  <2>1. run' \in RunType
    BY <1>1, LeaveRun
  <2>2. Trouble(place, "failure") /\ "failure" # "captcha"
    BY <1>1
  <2>3. seen' = seen /\ trouble' \in 0 .. MaxTrouble
    BY <2>2, TroubleNoted
  <2>q. QED
    BY <1>1, <2>1, <2>3
<1>2. ASSUME Exit(2), NEW kind, Trouble(place, kind)
      PROVE  /\ run' \in RunType /\ seen' \in SeenType /\ trouble' \in 0 .. MaxTrouble
             /\ seen'.rejected = seen.rejected /\ seen'.visited = seen.visited
             /\ seen'.unlisted = seen.unlisted /\ seen'.cut = seen.cut
  <2>1. run' \in RunType
    BY <1>2, ExitRun
  <2>2. /\ seen' \in SeenType /\ trouble' \in 0 .. MaxTrouble
        /\ seen'.rejected = seen.rejected /\ seen'.visited = seen.visited
        /\ seen'.unlisted = seen.unlisted /\ seen'.cut = seen.cut
    BY <1>2, TroubleNoted
  <2>q. QED
    BY <2>1, <2>2
<1>q. QED
  BY <1>1, <1>2 DEF Fails

\* A file of the guild that cannot be opened or written ends the program with 1.
LEMMA FileFailsRun ==
  ASSUME run \in RunType, seen \in SeenType, trouble \in 0 .. MaxTrouble, FileFails
  PROVE  /\ run' \in RunType /\ run'.pc = "over" /\ run'.exit = 1 /\ run'.date = run.date
         /\ seen' = seen /\ trouble' \in 0 .. MaxTrouble
<1>1. Exit(1) /\ Trouble("files", "failure") /\ "failure" # "captcha"
  BY DEF FileFails
<1>2. run' \in RunType /\ run'.pc = "over" /\ run'.exit = 1
  BY <1>1, ExitRun
<1>3. run'.date = run.date
  BY <1>1 DEF Exit, RunType
<1>4. seen' = seen /\ trouble' \in 0 .. MaxTrouble
  BY <1>1, TroubleNoted
<1>q. QED
  BY <1>2, <1>3, <1>4

\* What the steps that write prior.txt and meta.json have in common.
LEMMA FileStep ==
  ASSUME Typed, OpenPrior \/ WritePrior \/ OpenMeta \/ WriteMeta
  PROVE  /\ run.pc \in Inside /\ run.guild \in Guilds /\ run.channels = {}
         /\ run' \in RunType /\ seen' = seen /\ trouble' \in 0 .. MaxTrouble
         /\ run'.date = run.date /\ UNCHANGED <<posted, day, cursor, messages>>
         /\ \/ run'.pc = "over" /\ run'.exit = 1
            \/ /\ run'.exit = run.exit /\ run'.turn = run.turn /\ run'.guilds = run.guilds
               /\ run'.channels = {}
               /\ \/ run'.pc \in Ending /\ run'.guild = run.guild /\ run.fetched /\ run'.fetched
                  \/ run'.pc = "guild" /\ run'.guild = NoGuild
<1>0. run \in RunType /\ seen \in SeenType /\ trouble \in 0 .. MaxTrouble
  BY DEF Typed, TypeOK, RunType, SeenType
<1>1. /\ run.pc \in {"channel"} \cup Ending /\ run.channels = {} /\ run.fetched
      /\ UNCHANGED <<posted, day, cursor, messages>>
  BY DEF OpenPrior, WritePrior, OpenMeta, WriteMeta, Typed, Control, Ending
<1>2. run.pc \in Inside /\ run.guild \in Guilds
  BY <1>1 DEF Typed, Control, Inside, Ending
<1>3. CASE FileFails
  BY <1>0, <1>1, <1>2, <1>3, FileFailsRun
<1>4. ASSUME NEW pc \in Ending, run' = [run EXCEPT !.pc = pc]
      PROVE  /\ run' \in RunType /\ run'.date = run.date /\ run'.exit = run.exit
             /\ run'.turn = run.turn /\ run'.guilds = run.guilds /\ run'.channels = run.channels
             /\ run'.pc \in Ending /\ run'.guild = run.guild /\ run'.fetched = run.fetched
  BY <1>0, <1>4 DEF RunType, PCs, Ending
<1>5. ASSUME run' = [run EXCEPT !.pc = "guild", !.guild = NoGuild]
      PROVE  /\ run' \in RunType /\ run'.date = run.date /\ run'.exit = run.exit
             /\ run'.turn = run.turn /\ run'.guilds = run.guilds /\ run'.channels = run.channels
             /\ run'.pc = "guild" /\ run'.guild = NoGuild
  BY <1>0, <1>5 DEF RunType, PCs
<1>6. \/ FileFails
      \/ NoTrouble /\ \E pc \in Ending : run' = [run EXCEPT !.pc = pc]
      \/ NoTrouble /\ run' = [run EXCEPT !.pc = "guild", !.guild = NoGuild]
  BY DEF OpenPrior, WritePrior, OpenMeta, WriteMeta, Ending
<1>7. CASE NoTrouble /\ \E pc \in Ending : run' = [run EXCEPT !.pc = pc]
  <2>1. seen' = seen /\ trouble' = trouble
    BY <1>7 DEF NoTrouble
  <2>q. QED
    BY <1>0, <1>1, <1>2, <1>4, <1>7, <2>1
<1>8. CASE NoTrouble /\ run' = [run EXCEPT !.pc = "guild", !.guild = NoGuild]
  <2>1. seen' = seen /\ trouble' = trouble
    BY <1>8 DEF NoTrouble
  <2>q. QED
    BY <1>0, <1>1, <1>2, <1>5, <1>8, <2>1
<1>q. QED
  BY <1>3, <1>6, <1>7, <1>8

--------------------------------------------------------------------------------
(* Types, and what the locals of a pass mean.                              *)

\* A pass has not begun, and nothing was scanned.
LEMMA TypedInit == Init => Typed
<1> SUFFICES ASSUME Init PROVE Typed
  OBVIOUS
<1>1. 1 \in Days /\ Days \subseteq Nat
  BY PassAssumption DEF Days
<1>2. run \in RunType /\ run.pc = "over"
  BY <1>1, AccountsTyped DEF Init, RunType, PCs
<1>3. seen \in SeenType
  BY DEF Init, SeenType
<1>4. TypeOK
  BY <1>1, <1>2, <1>3, PassAssumption DEF Init, TypeOK, RunType, SeenType
<1>q. QED
  BY <1>2, <1>4 DEF Typed, Control, Inside, Within, Ending

\* Discord, the calendar, a crash and the next process leave the locals in order.
LEMMA TypedOutside ==
  ASSUME Typed, \/ \E c \in Channels : Post(c)
                \/ NextDay \/ Begin \/ Crash
  PROVE  Typed'
<1>0. /\ run \in RunType /\ seen \in SeenType /\ trouble \in 0 .. MaxTrouble
      /\ Days \subseteq Nat /\ MaxTrouble \in Nat /\ MaxPosts \in Nat /\ MaxDay \in Nat
  BY PassAssumption DEF Typed, TypeOK, RunType, SeenType, Days
<1>1. ASSUME NEW c \in Channels, Post(c) PROVE Typed'
  <2>1. /\ posted' \in [Channels -> 0 .. MaxPosts]
        /\ \A d \in Channels : posted[d] <= posted'[d] /\ cursor[d] <= posted'[d]
    BY <1>0, <1>1 DEF Typed, TypeOK, Post
  <2>2. TypeOK'
    BY <1>1, <2>1 DEF Typed, TypeOK, Post, files
  <2>3. run.channel \in Channels \/ run.pc \notin {"pins", "advance"}
    BY DEF Typed, Control, Within, ChannelsOf
  <2>4. run.pc \in {"pins", "advance"} => cursor[run.channel] + run.got <= posted'[run.channel]
    BY <1>0, <2>1, <2>3 DEF Typed, TypeOK, Control, RunType
  <2>q. QED
    BY <1>1, <2>2, <2>4 DEF Typed, Control, Post
<1>2. CASE NextDay
  <2>1. day' \in Days
    BY <1>0, <1>2 DEF NextDay, Days, Typed, TypeOK
  <2>q. QED
    BY <1>2, <2>1 DEF Typed, TypeOK, Control, NextDay, files
<1>3. CASE Begin
  <2>1. run' \in RunType /\ run'.pc = "open" /\ run'.exit = Running /\ run'.guild = NoGuild
    BY <1>3, AccountsTyped DEF Begin, RunType, PCs, Typed, TypeOK
  <2> DEFINE cut == seen.cut \/ run.exit # 0
  <2>2. cut \in BOOLEAN
    OBVIOUS
  <2>3. seen' = [captcha |-> {}, rejected |-> FALSE, visited |-> {}, unlisted |-> {},
                 cut |-> cut]
    BY <1>3 DEF Begin
  <2>4. seen' \in SeenType
    <3> HIDE DEF cut
    <3>q. QED
      BY <2>2, <2>3 DEF SeenType
  <2>5. TypeOK'
    BY <1>3, <2>1, <2>4 DEF Begin, Typed, TypeOK, RunType, SeenType, files
  <2>q. QED
    BY <2>1, <2>5 DEF Typed, Control, Inside, Within, Ending
<1>4. CASE Crash
  <2>1. run' \in RunType /\ run'.pc = "over"
    BY <1>0, <1>4 DEF Crash, RunType, PCs
  <2>2. trouble' \in 0 .. MaxTrouble
    BY <1>0, <1>4 DEF Crash
  <2>t. torn' \subseteq Guilds \X Days
    <3>1. run.pc = "prior" => run.guild \in Guilds /\ run.date \in Days
      BY <1>0 DEF Typed, Control, Inside, RunType
    <3>q. QED
      BY <1>4, <3>1 DEF Crash, Typed, TypeOK
  <2>3. TypeOK'
    BY <1>4, <2>1, <2>2, <2>t DEF Crash, Typed, TypeOK, RunType
  <2>q. QED
    BY <2>1, <2>3 DEF Typed, Control, Inside, Within, Ending
<1>q. QED
  BY <1>1, <1>2, <1>3, <1>4

\* The steps of an account and of a guild keep the types and the locals in order.
LEMMA TypedAccount ==
  ASSUME Typed, OpenBurner \/ ListGuilds \/ EndBurner \/ ListChannels
  PROVE  Typed'
<1>0. /\ run \in RunType /\ seen \in SeenType /\ trouble \in 0 .. MaxTrouble
      /\ MaxTrouble \in Nat /\ day \in Days
  BY PassAssumption DEF Typed, TypeOK, RunType, SeenType
<1>a. ASSUME run' \in RunType, seen' \in SeenType, trouble' \in 0 .. MaxTrouble,
             UNCHANGED <<posted, day, cursor, files>>,
             \/ run'.pc = "over"
             \/ /\ run'.pc \in {"open", "guilds", "guild"}
                /\ run'.exit = Running /\ run'.guild = NoGuild
             \/ /\ run'.pc = "channel" /\ run'.exit = Running
                /\ run'.guild \in Guilds /\ run'.channels \subseteq ChannelsOf(run'.guild)
      PROVE  Typed'
  <2>1. TypeOK'
    BY <1>a DEF Typed, TypeOK, RunType, SeenType, files
  <2>q. QED
    BY <1>a, <2>1 DEF Typed, Control, Inside, Within, Ending
<1>1. CASE OpenBurner
  <2>0. run.exit = Running /\ run.guild = NoGuild
    BY <1>1 DEF OpenBurner, Typed, Control
  <2>1. CASE run' = [run EXCEPT !.pc = "guilds", !.date = day] /\ NoTrouble
    <3>1. run' \in RunType /\ run'.pc = "guilds" /\ run'.exit = Running /\ run'.guild = NoGuild
      BY <1>0, <2>0, <2>1 DEF RunType, PCs
    <3>q. QED
      BY <1>0, <1>1, <1>a, <2>1, <3>1 DEF OpenBurner, NoTrouble
  <2>2. ASSUME NEW code \in {1, 2}, Exit(code), Trouble("open", "failure") PROVE Typed'
    <3>1. run' \in RunType /\ run'.pc = "over"
      BY <1>0, <2>2, ExitRun
    <3>2. "failure" # "captcha" /\ seen' = seen /\ trouble' \in 0 .. MaxTrouble
      BY <1>0, <2>2 DEF Trouble
    <3>q. QED
      BY <1>0, <1>1, <1>a, <3>1, <3>2 DEF OpenBurner
  <2>q. QED
    BY <1>1, <2>1, <2>2 DEF OpenBurner
<1>2. CASE ListGuilds
  <2>0. run.exit = Running /\ run.guild = NoGuild /\ Mine(account) \subseteq Guilds
    BY <1>0, <1>2, AccountsTyped DEF ListGuilds, Typed, Control, account, RunType
  <2>1. CASE run' = [run EXCEPT !.pc = "guild", !.guilds = Mine(account)] /\ NoTrouble
    <3>1. run' \in RunType /\ run'.pc = "guild" /\ run'.exit = Running /\ run'.guild = NoGuild
      BY <1>0, <2>0, <2>1 DEF RunType, PCs
    <3>q. QED
      BY <1>0, <1>2, <1>a, <2>1, <3>1 DEF ListGuilds, NoTrouble
  <2>2. CASE /\ run' = [run EXCEPT !.pc = "guild"]
             /\ trouble < MaxTrouble /\ trouble' = trouble + 1
             /\ seen' = [seen EXCEPT !.unlisted = @ \cup Mine(account)]
    <3>1. run' \in RunType /\ run'.pc = "guild" /\ run'.exit = Running /\ run'.guild = NoGuild
      BY <1>0, <2>0, <2>2 DEF RunType, PCs
    <3>2. seen' \in SeenType /\ trouble' \in 0 .. MaxTrouble
      BY <1>0, <2>0, <2>2 DEF SeenType
    <3>q. QED
      BY <1>2, <1>a, <3>1, <3>2 DEF ListGuilds
  <2>3. CASE /\ Exit(3) /\ trouble < MaxTrouble /\ trouble' = trouble + 1
             /\ seen' = [seen EXCEPT !.rejected = TRUE]
    <3>1. run' \in RunType /\ run'.pc = "over"
      BY <1>0, <2>3, ExitRun
    <3>2. trouble' \in 0 .. MaxTrouble
      BY <1>0, <2>3
    <3> DEFINE yes == TRUE
    <3>3. yes \in BOOLEAN /\ seen' = [seen EXCEPT !.rejected = yes]
      BY <2>3
    <3>4. seen' \in SeenType
      <4> HIDE DEF yes
      <4>q. QED
        BY <1>0, <3>3 DEF SeenType
    <3>q. QED
      BY <1>2, <1>a, <3>1, <3>2, <3>4 DEF ListGuilds
  <2>4. ASSUME Exit(1), NEW kind \in {"captcha", "failure"}, Trouble("guilds", kind)
        PROVE  Typed'
    <3>1. run' \in RunType /\ run'.pc = "over"
      BY <1>0, <2>4, ExitRun
    <3>2. seen' \in SeenType /\ trouble' \in 0 .. MaxTrouble
      BY <1>0, <2>4, TroubleNoted DEF Requests
    <3>q. QED
      BY <1>2, <1>a, <3>1, <3>2 DEF ListGuilds
  <2>q. QED
    BY <1>2, <2>1, <2>2, <2>3, <2>4 DEF ListGuilds
<1>3. CASE EndBurner
  <2>0. run.exit = Running /\ run.guild = NoGuild
    BY <1>3 DEF EndBurner, Typed, Control
  <2>1. CASE run.turn < Len(Accounts)
    <3>1. run' = [run EXCEPT !.pc = "open", !.turn = @ + 1]
      BY <1>3, <2>1 DEF EndBurner
    <3>2. run.turn \in 1 .. Len(Accounts) /\ Len(Accounts) \in Nat
      BY <1>0, AccountsTyped DEF RunType
    <3>3. run.turn + 1 \in 1 .. Len(Accounts)
      BY <2>1, <3>2
    <3>4. run' \in RunType /\ run'.pc = "open" /\ run'.exit = Running /\ run'.guild = NoGuild
      BY <1>0, <2>0, <3>1, <3>3 DEF RunType, PCs
    <3>q. QED
      BY <1>0, <1>3, <1>a, <3>4 DEF EndBurner
  <2>2. CASE ~ run.turn < Len(Accounts)
    <3>1. run' \in RunType /\ run'.pc = "over"
      BY <1>0, <1>3, <2>2, ExitRun DEF EndBurner
    <3>q. QED
      BY <1>0, <1>3, <1>a, <3>1 DEF EndBurner
  <2>q. QED
    BY <2>1, <2>2
<1>4. CASE ListChannels
  <2>0. run.exit = Running /\ run.guild = NoGuild
    BY <1>4 DEF ListChannels, Typed, Control
  <2>1. ASSUME NEW g \in run.guilds, NoTrouble,
               run' = [run EXCEPT !.pc = "channel", !.guild = g, !.guilds = @ \ {g},
                                  !.channels = ChannelsOf(g), !.fetched = FALSE]
        PROVE  Typed'
    <3>1. g \in Guilds /\ ChannelsOf(g) \subseteq Channels
      BY <1>0, <2>1 DEF RunType, ChannelsOf
    <3>2. /\ run' \in RunType /\ run'.pc = "channel" /\ run'.exit = Running
          /\ run'.guild = g /\ run'.channels = ChannelsOf(g)
      BY <1>0, <2>0, <2>1, <3>1 DEF RunType, PCs
    <3>3. run'.guild \in Guilds /\ run'.channels \subseteq ChannelsOf(run'.guild)
      BY <3>1, <3>2
    <3>q. QED
      BY <1>0, <1>4, <1>a, <2>1, <3>2, <3>3 DEF ListChannels, NoTrouble
  <2>2. ASSUME NEW g \in run.guilds, NEW captcha \in {{}, {"channels"}},
               run' = [run EXCEPT !.guilds = @ \ {g}],
               trouble < MaxTrouble, trouble' = trouble + 1,
               seen' = [seen EXCEPT !.unlisted = @ \cup {g}, !.captcha = @ \cup captcha]
        PROVE  Typed'
    <3>1. /\ run' \in RunType /\ run'.pc = "guild" /\ run'.exit = Running
          /\ run'.guild = NoGuild
      BY <1>0, <1>4, <2>0, <2>2 DEF RunType, ListChannels
    <3>2. g \in Guilds /\ captcha \subseteq Requests
      BY <1>0, <2>2 DEF RunType, Requests
    <3>3. seen.unlisted \cup {g} \subseteq Guilds /\ seen.captcha \cup captcha \subseteq Requests
      BY <1>0, <3>2 DEF SeenType
    <3>4. seen' \in SeenType
      BY <1>0, <2>2, <3>3 DEF SeenType
    <3>5. trouble' \in 0 .. MaxTrouble
      BY <1>0, <2>2
    <3>q. QED
      BY <1>4, <1>a, <3>1, <3>4, <3>5 DEF ListChannels
  <2>q. QED
    BY <1>4, <2>1, <2>2 DEF ListChannels
<1>q. QED
  BY <1>1, <1>2, <1>3, <1>4

\* A channel that is left is left to its guild.
LEMMA TypedLeft ==
  ASSUME Typed, run.pc \in Within, TypeOK',
         (\E n \in Nat : LeaveChannel(n)) \/ (\E code \in {0, 1, 2, 3} : Exit(code))
  PROVE  Typed'
<1>1. run \in RunType /\ run.exit = Running /\ run.pc \in Inside /\ run.pc # "over"
  BY DEF Typed, TypeOK, RunType, Control, Inside, Within
<1>2. ASSUME NEW n \in Nat, LeaveChannel(n) PROVE Typed'
  BY <1>1, <1>2, LeaveRun DEF Typed, Control, Inside, Within, Ending
<1>3. ASSUME NEW code \in {0, 1, 2, 3}, Exit(code) PROVE Typed'
  BY <1>1, <1>3, ExitRun DEF Typed, Control, Inside, Within, Ending
<1>q. QED
  BY <1>2, <1>3

\* The end of a guild keeps the types and the locals in order.
LEMMA TypedFiles ==
  ASSUME Typed, EndGuild \/ OpenPrior \/ WritePrior \/ OpenMeta \/ WriteMeta
  PROVE  Typed'
<1>0. /\ run \in RunType /\ Days \subseteq Nat /\ run.date \in Days
      /\ dirs \in [Guilds -> SUBSET Days] /\ meta \in [Guilds -> SUBSET Days]
      /\ prior \in [Guilds -> [Days -> Days \cup {0, NoFile}]] /\ torn \subseteq Guilds \X Days
  BY PassAssumption DEF Typed, TypeOK, RunType, Days
<1>1. CASE EndGuild
  <2>1. run' = [run EXCEPT !.pc = "guild", !.guild = NoGuild] /\ run.exit = Running
    BY <1>1 DEF EndGuild, Typed, Control
  <2>2. run' \in RunType /\ run'.pc = "guild" /\ run'.exit = Running /\ run'.guild = NoGuild
    BY <1>0, <2>1 DEF RunType, PCs
  <2>3. TypeOK'
    BY <1>1, <2>2 DEF EndGuild, Typed, TypeOK, RunType, files
  <2>q. QED
    BY <2>2, <2>3 DEF Typed, Control, Inside, Within, Ending
<1>2. CASE OpenPrior \/ WritePrior \/ OpenMeta \/ WriteMeta
  <2>1. /\ run.guild \in Guilds /\ run.pc \in Inside /\ run' \in RunType /\ seen' = seen
        /\ trouble' \in 0 .. MaxTrouble /\ UNCHANGED <<posted, day, cursor, messages>>
        /\ \/ run'.pc = "over" /\ run'.exit = 1
           \/ /\ run'.exit = run.exit /\ run'.channels = {}
              /\ \/ run'.pc \in Ending /\ run'.guild = run.guild /\ run'.fetched
                 \/ run'.pc = "guild" /\ run'.guild = NoGuild
    BY <1>2, FileStep
  <2>2. PriorDate(run.guild, run.date) \in Days \cup {0}
    BY <1>0, <2>1, PriorDateIsLatest
  <2>3. dirs' \in [Guilds -> SUBSET Days]
    <3>1. dirs[run.guild] \cup {run.date} \in SUBSET Days
      BY <1>0, <2>1
    <3>q. QED
      BY <1>0, <1>2, <2>1, <3>1 DEF OpenPrior, WritePrior, OpenMeta, WriteMeta, WithDay
  <2>4. meta' \in [Guilds -> SUBSET Days]
    <3>1. /\ meta[run.guild] \cup {run.date} \in SUBSET Days
          /\ meta[run.guild] \ {run.date} \in SUBSET Days
      BY <1>0, <2>1
    <3>q. QED
      BY <1>0, <1>2, <2>1, <3>1 DEF OpenPrior, WritePrior, OpenMeta, WriteMeta
  <2>5. prior' \in [Guilds -> [Days -> Days \cup {0, NoFile}]]
    <3>1. ASSUME NEW e \in Days \cup {0, NoFile},
                 prior' = [prior EXCEPT ![run.guild][run.date] = e]
          PROVE  prior' \in [Guilds -> [Days -> Days \cup {0, NoFile}]]
      BY <1>0, <2>1, <3>1
    <3>2. \/ prior' = prior
          \/ \E e \in {0, PriorDate(run.guild, run.date)} :
               prior' = [prior EXCEPT ![run.guild][run.date] = e]
      BY <1>2 DEF OpenPrior, WritePrior, OpenMeta, WriteMeta
    <3>q. QED
      BY <1>0, <2>2, <3>1, <3>2
  <2>6. torn' \subseteq Guilds \X Days
    BY <1>0, <1>2, <2>1 DEF OpenPrior, WritePrior, OpenMeta, WriteMeta
  <2>7. TypeOK'
    BY <2>1, <2>3, <2>4, <2>5, <2>6 DEF Typed, TypeOK, RunType
  <2>8. run.exit = Running
    BY <2>1 DEF Typed, Control, Inside, Within, Ending
  <2>9. /\ run'.pc \notin Within /\ run'.pc \notin {"pins", "advance", "open", "guilds"}
        /\ run'.pc \in Ending => run'.pc # "guild"
    BY <2>1 DEF Within, Ending
  <2>10. CASE run'.pc = "over"
    BY <2>7, <2>10 DEF Typed, Control, Inside, Within, Ending
  <2>11. CASE run'.pc # "over"
    BY <2>1, <2>7, <2>8, <2>9, <2>11 DEF Typed, Control, Inside, Ending
  <2>q. QED
    BY <2>10, <2>11
<1>q. QED
  BY <1>1, <1>2

\* The steps of the channels keep the types and the locals in order.
LEMMA TypedChannel ==
  ASSUME Typed, \/ StartChannel \/ Forward \/ FetchPinned
                \/ Advance \/ ScanThreads \/ Backfill
  PROVE  Typed'
<1>0. /\ run \in RunType /\ seen \in SeenType /\ trouble \in 0 .. MaxTrouble
      /\ MaxTrouble \in Nat /\ Days \subseteq Nat /\ run.date \in Days
      /\ cursor \in [Channels -> Nat] /\ posted \in [Channels -> Nat]
      /\ dirs \in [Guilds -> SUBSET Days]
  BY PassAssumption DEF Typed, TypeOK, RunType, SeenType, Days
<1>d. run.guild \in Guilds => WithDay \in [Guilds -> SUBSET Days]
  BY <1>0 DEF WithDay
<1>2. CASE StartChannel
  <2>0. /\ run.guild \in Guilds /\ run.exit = Running /\ run.channels \subseteq ChannelsOf(run.guild)
    BY <1>2 DEF StartChannel, Typed, Control, Inside
  <2>1. PICK c \in run.channels :
          /\ run' = [run EXCEPT !.pc = "forward", !.channel = c, !.channels = @ \ {c}]
          /\ seen' = [seen EXCEPT !.visited = @ \cup {c}]
    BY <1>2 DEF StartChannel
  <2>2. c \in Channels /\ c \in ChannelsOf(run.guild)
    BY <2>0, <2>1 DEF ChannelsOf
  <2>3. /\ run' \in RunType /\ run'.pc = "forward" /\ run'.exit = Running
        /\ run'.guild = run.guild /\ run'.channel = c /\ run'.channels \subseteq run.channels
    BY <1>0, <2>0, <2>1, <2>2 DEF RunType, PCs
  <2>4. seen' \in SeenType
    BY <1>0, <2>1, <2>2 DEF SeenType
  <2>5. TypeOK'
    BY <1>2, <2>3, <2>4 DEF StartChannel, Typed, TypeOK, RunType, SeenType, files
  <2>q. QED
    BY <2>0, <2>2, <2>3, <2>5 DEF Typed, Control, Inside, Within, Ending
<1>3. CASE Forward
  <2>0. /\ run.guild \in Guilds /\ run.exit = Running /\ run.channels \subseteq ChannelsOf(run.guild)
        /\ run.channel \in ChannelsOf(run.guild) /\ run.channel \in Channels
        /\ run.pc \in Within
    BY <1>3 DEF Forward, Typed, Control, Inside, Within, ChannelsOf
  <2> DEFINE new == posted[run.channel] - cursor[run.channel]
  <2>1. new \in Nat /\ cursor[run.channel] + new = posted[run.channel]
    BY <1>0, <2>0 DEF Typed, TypeOK
  <2>2. ASSUME NEW n \in {m \in 0 .. new : m = 0 => new = 0}, NoTrouble,
               run' = [run EXCEPT !.pc = "pins", !.got = n]
        PROVE  Typed'
    <3>1. n \in Nat /\ n <= new
      BY <2>1, <2>2
    <3>2. /\ run' \in RunType /\ run'.pc = "pins" /\ run'.exit = Running
          /\ run'.guild = run.guild /\ run'.channel = run.channel /\ run'.got = n
          /\ run'.channels = run.channels
      BY <1>0, <2>0, <2>2, <3>1 DEF RunType, PCs
    <3>3. cursor[run.channel] + n <= posted[run.channel]
      BY <1>0, <2>0, <3>1 DEF Typed, TypeOK
    <3>4. TypeOK'
      BY <1>3, <2>2, <3>2 DEF Forward, NoTrouble, Typed, TypeOK, RunType, files
    <3>5. posted' = posted /\ cursor' = cursor
      BY <1>3 DEF Forward
    <3>6. cursor'[run'.channel] + run'.got <= posted'[run'.channel]
      BY <3>2, <3>3, <3>5
    <3>q. QED
      BY <2>0, <3>2, <3>4, <3>6 DEF Typed, Control, Inside, Within, Ending
  <2>3. ASSUME NEW counted \in 0 .. new, Fails("forward", counted) PROVE Typed'
    <3>1. counted \in Nat /\ "forward" \in Requests
      BY <2>1 DEF Requests
    <3>2. TypeOK'
      BY <1>0, <1>3, <2>3, <3>1, FailsRun DEF Forward, Typed, TypeOK, RunType, SeenType, files
    <3>3. LeaveChannel(counted) \/ Exit(2)
      BY <2>3 DEF Fails
    <3>q. QED
      BY <2>0, <3>1, <3>2, <3>3, TypedLeft
  <2>q. QED
    BY <1>3, <2>2, <2>3 DEF Forward
<1>4. CASE FetchPinned
  <2>0. /\ run.guild \in Guilds /\ run.exit = Running /\ run.channels \subseteq ChannelsOf(run.guild)
        /\ run.channel \in ChannelsOf(run.guild) /\ run.channel \in Channels
        /\ run.pc \in Within /\ guildOf[run.channel] = run.guild
        /\ cursor[run.channel] + run.got <= posted[run.channel]
    BY <1>4 DEF FetchPinned, Typed, Control, Inside, Within, ChannelsOf
  <2>w. ASSUME NEW records, records \subseteq Channels \X Nat,
               messages' = [messages EXCEPT ![run.guild][run.date] = records]
        PROVE  messages' \in [Guilds -> [Days -> SUBSET (Channels \X Nat)]]
    <3>1. messages \in [Guilds -> [Days -> SUBSET (Channels \X Nat)]]
      BY DEF Typed, TypeOK
    <3>2. messages[run.guild] \in [Days -> SUBSET (Channels \X Nat)]
      BY <2>0, <3>1
    <3>3. [messages[run.guild] EXCEPT ![run.date] = records] \in [Days -> SUBSET (Channels \X Nat)]
      BY <1>0, <2>w, <3>2
    <3>q. QED
      BY <2>0, <2>w, <3>1, <3>3
  <2>1. ASSUME NEW pins \in {0, 1}, NoTrouble,
               run' = [run EXCEPT !.fetched = @ \/ run.got + pins > 0,
                                  !.pc = IF run.got > 0 THEN "advance" ELSE "threads"],
               dirs' = IF run.got + pins > 0 THEN WithDay ELSE dirs,
               messages' = IF run.got > 0
                           THEN [messages EXCEPT ![run.guild][run.date] =
                                  {<<run.channel, n>> : n \in cursor[run.channel] + 1 ..
                                                             cursor[run.channel] + run.got}]
                           ELSE messages
        PROVE  Typed'
    <3> DEFINE some == run.fetched \/ run.got + pins > 0
               next == IF run.got > 0 THEN "advance" ELSE "threads"
               found == {<<run.channel, n>> : n \in cursor[run.channel] + 1 ..
                                                      cursor[run.channel] + run.got}
    <3>1. some \in BOOLEAN /\ next \in {"advance", "threads"}
      OBVIOUS
    <3>2. run' = [run EXCEPT !.fetched = some, !.pc = next]
      BY <2>1
    <3>3. /\ run' \in RunType /\ run'.pc = next /\ run'.exit = Running
          /\ run'.guild = run.guild /\ run'.channel = run.channel /\ run'.got = run.got
          /\ run'.channels = run.channels
      <4> HIDE DEF some, next
      <4>q. QED
        BY <1>0, <2>0, <3>1, <3>2 DEF RunType, PCs
    <3>4. dirs' \in [Guilds -> SUBSET Days]
      BY <1>0, <1>d, <2>0, <2>1
    <3>5. found \subseteq Channels \X Nat
      BY <1>0, <2>0 DEF RunType
    <3>6. messages' \in [Guilds -> [Days -> SUBSET (Channels \X Nat)]]
      <4>1. messages' = messages \/ messages' = [messages EXCEPT ![run.guild][run.date] = found]
        BY <2>1
      <4> HIDE DEF found
      <4>q. QED
        BY <2>0, <2>w, <3>5, <4>1 DEF Typed, TypeOK
    <3>7. TypeOK'
      BY <1>4, <2>1, <3>3, <3>4, <3>6 DEF FetchPinned, NoTrouble, Typed, TypeOK, RunType
    <3>8. cursor'[run'.channel] + run'.got <= posted'[run'.channel]
      BY <1>4, <2>0, <3>3 DEF FetchPinned
    <3> HIDE DEF some, next, found
    <3>q. QED
      BY <2>0, <3>1, <3>3, <3>7, <3>8 DEF Typed, Control, Inside, Within, Ending
  <2>2. ASSUME Fails("pins", run.got), UNCHANGED <<dirs, messages>> PROVE Typed'
    <3>1. run.got \in Nat /\ "pins" \in Requests
      BY <1>0 DEF Requests, RunType
    <3>2. TypeOK'
      BY <1>0, <1>4, <2>2, <3>1, FailsRun DEF FetchPinned, Typed, TypeOK, RunType, SeenType, files
    <3>3. LeaveChannel(run.got) \/ Exit(2)
      BY <2>2 DEF Fails
    <3>q. QED
      BY <2>0, <3>1, <3>2, <3>3, TypedLeft
  <2>3. ASSUME LeaveChannel(1), Trouble("files", "failure"), dirs' = WithDay,
               messages' \in [Guilds -> [Days -> SUBSET (Channels \X Nat)]]
        PROVE  Typed'
    <3>1. run' \in RunType /\ 1 \in Nat
      BY <1>0, <2>3, LeaveRun
    <3>2. "failure" # "captcha" /\ seen' = seen /\ trouble' \in 0 .. MaxTrouble
      BY <1>0, <2>3, TroubleNoted
    <3>3. TypeOK'
      BY <1>4, <1>d, <2>0, <2>3, <3>1, <3>2 DEF FetchPinned, Typed, TypeOK, RunType
    <3>q. QED
      BY <2>0, <2>3, <3>1, <3>3, TypedLeft
  <2>4. CASE /\ LeaveChannel(1) /\ Trouble("files", "failure") /\ dirs' = WithDay
             /\ \/ UNCHANGED messages
                \/ \E records \in {{}, {<<run.channel, n>> : n \in cursor[run.channel] + 1 ..
                                                   cursor[run.channel] + run.got}} :
                     messages' = [messages EXCEPT ![run.guild][run.date] = records]
    <3>1. /\ {} \subseteq Channels \X Nat
          /\ {<<run.channel, n>> : n \in cursor[run.channel] + 1 .. cursor[run.channel] + run.got}
               \subseteq Channels \X Nat
      BY <1>0, <2>0 DEF RunType
    <3>2. messages' \in [Guilds -> [Days -> SUBSET (Channels \X Nat)]]
      <4>1. CASE UNCHANGED messages
        BY <4>1 DEF Typed, TypeOK
      <4>2. ASSUME NEW records \in {{}, {<<run.channel, n>> : n \in cursor[run.channel] + 1 ..
                                                   cursor[run.channel] + run.got}},
                   messages' = [messages EXCEPT ![run.guild][run.date] = records]
            PROVE  messages' \in [Guilds -> [Days -> SUBSET (Channels \X Nat)]]
        <5>1. records \subseteq Channels \X Nat
          BY <3>1, <4>2
        <5>q. QED
          BY <2>w, <4>2, <5>1
      <4>q. QED
        BY <2>4, <4>1, <4>2
    <3>q. QED
      BY <2>3, <2>4, <3>2
  <2>q. QED
    BY <1>4, <2>0, <2>1, <2>2, <2>4 DEF FetchPinned
<1>5. CASE Advance
  <2>0. /\ run.guild \in Guilds /\ run.exit = Running /\ run.channels \subseteq ChannelsOf(run.guild)
        /\ run.channel \in ChannelsOf(run.guild) /\ run.channel \in Channels
        /\ cursor[run.channel] + run.got <= posted[run.channel] /\ run.got \in Nat
    BY <1>0, <1>5 DEF Advance, Typed, Control, Inside, Within, ChannelsOf, RunType
  <2>1. CASE /\ cursor' = [cursor EXCEPT ![run.channel] = @ + run.got]
             /\ run' = [run EXCEPT !.pc = "threads"] /\ NoTrouble
    <3>1. /\ run' \in RunType /\ run'.pc = "threads" /\ run'.exit = Running
          /\ run'.guild = run.guild /\ run'.channel = run.channel /\ run'.channels = run.channels
      BY <1>0, <2>0, <2>1 DEF RunType, PCs
    <3>2. cursor' \in [Channels -> Nat] /\ \A c \in Channels : cursor'[c] <= posted[c]
      BY <1>0, <2>0, <2>1 DEF Typed, TypeOK
    <3>3. TypeOK'
      BY <1>5, <2>1, <3>1, <3>2 DEF Advance, NoTrouble, Typed, TypeOK, RunType, files
    <3>q. QED
      BY <2>0, <3>1, <3>3 DEF Typed, Control, Inside, Within, Ending
  <2>2. CASE LeaveChannel(run.got) /\ Trouble("files", "failure") /\ UNCHANGED cursor
    <3>1. run' \in RunType
      BY <1>0, <2>0, <2>2, LeaveRun
    <3>2. "failure" # "captcha" /\ seen' = seen /\ trouble' \in 0 .. MaxTrouble
      BY <1>0, <2>2, TroubleNoted
    <3>3. TypeOK'
      BY <1>5, <2>2, <3>1, <3>2 DEF Advance, Typed, TypeOK, RunType, files
    <3>4. run.pc \in Within
      BY <1>5 DEF Advance, Within
    <3>q. QED
      BY <2>0, <2>2, <3>3, <3>4, TypedLeft
  <2>q. QED
    BY <1>5, <2>1, <2>2 DEF Advance
<1>6. CASE ScanThreads
  <2>0. /\ run.guild \in Guilds /\ run.exit = Running /\ run.channels \subseteq ChannelsOf(run.guild)
        /\ run.channel \in ChannelsOf(run.guild) /\ run.pc \in Within
    BY <1>6 DEF ScanThreads, Typed, Control, Inside, Within
  <2>1. dirs' \in [Guilds -> SUBSET Days]
    BY <1>0, <1>6, <1>d, <2>0 DEF ScanThreads
  <2>2. ASSUME run' = [run EXCEPT !.pc = "backfill"], seen' \in SeenType,
               trouble' \in 0 .. MaxTrouble
        PROVE  Typed'
    <3>1. /\ run' \in RunType /\ run'.pc = "backfill" /\ run'.exit = Running
          /\ run'.guild = run.guild /\ run'.channel = run.channel /\ run'.channels = run.channels
      BY <1>0, <2>0, <2>2 DEF RunType, PCs
    <3>2. TypeOK'
      BY <1>6, <2>1, <2>2, <3>1 DEF ScanThreads, Typed, TypeOK, RunType, SeenType
    <3>q. QED
      BY <2>0, <3>1, <3>2 DEF Typed, Control, Inside, Within, Ending
  <2>3. CASE run' = [run EXCEPT !.pc = "backfill"] /\ NoTrouble
    BY <1>0, <2>2, <2>3 DEF NoTrouble
  <2>4. ASSUME NEW kind, Trouble("threads", kind), run' = [run EXCEPT !.pc = "backfill"]
        PROVE  Typed'
    <3>1. seen' \in SeenType /\ trouble' \in 0 .. MaxTrouble
      BY <1>0, <2>4, TroubleNoted DEF Requests
    <3>q. QED
      BY <2>2, <2>4, <3>1
  <2>5. CASE LeaveChannel(0) /\ Trouble("files", "failure")
    <3>1. run' \in RunType /\ 0 \in Nat
      BY <1>0, <2>5, LeaveRun
    <3>2. "failure" # "captcha" /\ seen' = seen /\ trouble' \in 0 .. MaxTrouble
      BY <1>0, <2>5, TroubleNoted
    <3>3. TypeOK'
      BY <1>6, <2>1, <3>1, <3>2 DEF ScanThreads, Typed, TypeOK, RunType
    <3>q. QED
      BY <2>0, <2>5, <3>1, <3>3, TypedLeft
  <2>q. QED
    BY <1>6, <2>3, <2>4, <2>5 DEF ScanThreads
<1>7. CASE Backfill
  <2>0. run.guild \in Guilds /\ run.pc \in Within
    BY <1>7 DEF Backfill, Typed, Control, Inside, Within
  <2>2. dirs' \in [Guilds -> SUBSET Days]
    BY <1>0, <1>7, <1>d, <2>0 DEF Backfill
  <2>3. /\ run' \in RunType /\ seen' \in SeenType /\ trouble' \in 0 .. MaxTrouble
    <3>1. ASSUME LeaveChannel(0), NoTrouble
          PROVE  run' \in RunType /\ seen' \in SeenType /\ trouble' \in 0 .. MaxTrouble
      BY <1>0, <3>1, LeaveRun DEF NoTrouble
    <3>2. ASSUME Fails("backfill", 0)
          PROVE  run' \in RunType /\ seen' \in SeenType /\ trouble' \in 0 .. MaxTrouble
      <4>1. "backfill" \in Requests /\ 0 \in Nat
        BY DEF Requests
      <4>q. QED
        BY <1>0, <3>2, <4>1, FailsRun
    <3>3. ASSUME LeaveChannel(0), Trouble("files", "failure")
          PROVE  run' \in RunType /\ seen' \in SeenType /\ trouble' \in 0 .. MaxTrouble
      <4>1. "failure" # "captcha" /\ 0 \in Nat
        OBVIOUS
      <4>q. QED
        BY <1>0, <3>3, <4>1, LeaveRun, TroubleNoted
    <3>4. \/ LeaveChannel(0) /\ (NoTrouble \/ Trouble("files", "failure"))
          \/ Fails("backfill", 0)
      BY <1>7 DEF Backfill
    <3>q. QED
      BY <3>1, <3>2, <3>3, <3>4
  <2>4. TypeOK'
    BY <1>7, <2>2, <2>3 DEF Backfill, Typed, TypeOK, RunType, SeenType
  <2>5. LeaveChannel(0) \/ Exit(2)
    BY <1>7 DEF Backfill, Fails
  <2>q. QED
    BY <2>0, <2>4, <2>5, TypedLeft
<1>q. QED
  BY <1>2, <1>3, <1>4, <1>5, <1>6, <1>7

\* Every step keeps the types and what the locals mean.
LEMMA TypedStep == Typed /\ [Next]_vars => Typed'
<1>1. Typed /\ Next => Typed'
  BY TypedOutside, TypedAccount, TypedFiles, TypedChannel DEF Next, Step
<1>2. Typed /\ UNCHANGED vars => Typed'
  BY DEF Typed, TypeOK, Control, vars, files
<1>q. QED
  BY <1>1, <1>2

\* The variables keep their types, and no row of the cursor store is ahead of its channel.
THEOREM TypeCorrect == Spec => []TypeOK
<1>1. Typed => TypeOK
  BY DEF Typed
<1>q. QED
  BY <1>1, TypedInit, TypedStep, PTL DEF Spec

--------------------------------------------------------------------------------
(* prior.txt.                                                              *)

\* The pass does not run ahead of the calendar, and no prior.txt lies ahead of the pass.
DatesInOrder ==
  /\ run.date <= day
  /\ \A g \in Guilds, d \in Days : prior[g][d] # NoFile => d <= run.date

PriorInv == DatesInOrder /\ PriorIsLatest

\* What the property says of one prior.txt.
Rightly(g, d, e) ==
  /\ e < d /\ e \in dirs[g] \cup {0}
  /\ (e = 0 /\ Unwritten(g, d)) \/ (\A f \in dirs[g] : f <= e \/ f >= d)

LEMMA PriorRightly ==
  PriorIsLatest <=>
    \A g \in Guilds, d \in Days : prior[g][d] # NoFile => Rightly(g, d, prior[g][d])
BY DEF PriorIsLatest, Rightly

\* A step that writes no prior.txt, makes no directory but that of its date, and leaves
\* what is not written so.
LEMMA PriorKept ==
  ASSUME Typed, Typed', PriorInv, prior' = prior, run'.date \in {run.date, day}, day <= day',
         \A g \in Guilds, d \in Days : Unwritten(g, d) => Unwritten(g, d)',
         \/ dirs' = dirs
         \/ \E g \in Guilds : dirs' = [dirs EXCEPT ![g] = @ \cup {run.date}]
  PROVE  PriorInv'
<1>0. /\ Days \subseteq Nat /\ run.date \in Days /\ run'.date \in Days
      /\ day \in Days /\ day' \in Days
      /\ dirs \in [Guilds -> SUBSET Days] /\ prior \in [Guilds -> [Days -> Days \cup {0, NoFile}]]
  <2>1. run.date \in Days /\ day \in Days
    BY DEF Typed, TypeOK
  <2>2. run'.date \in Days /\ day' \in Days
    <3>1. (run.date \in Days /\ day \in Days)'
      BY DEF Typed, TypeOK
    <3>q. QED
      BY <3>1
  <2>3. Days \subseteq Nat
    BY PassAssumption DEF Days
  <2>4. dirs \in [Guilds -> SUBSET Days] /\ prior \in [Guilds -> [Days -> Days \cup {0, NoFile}]]
    BY DEF Typed, TypeOK
  <2>q. QED
    BY <2>1, <2>2, <2>3, <2>4
<1>n. run.date \in Nat /\ run'.date \in Nat /\ day \in Nat /\ day' \in Nat
  BY <1>0
<1>1. run.date <= run'.date /\ run'.date <= day'
  <2>1. run.date <= day
    BY DEF PriorInv, DatesInOrder
  <2>q. QED
    BY <1>n, <2>1
<1>2. DatesInOrder'
  <2>1. ASSUME NEW g \in Guilds, NEW d \in Days, prior'[g][d] # NoFile PROVE d <= run'.date
    <3>1. d <= run.date /\ d \in Nat
      BY <1>0, <2>1 DEF PriorInv, DatesInOrder
    <3>q. QED
      BY <1>n, <1>1, <3>1
  <2>q. QED
    BY <1>1, <2>1 DEF DatesInOrder
<1>3. ASSUME NEW g \in Guilds
      PROVE  dirs[g] \subseteq dirs'[g] /\ dirs'[g] \subseteq dirs[g] \cup {run.date}
  BY <1>0
<1>4. ASSUME NEW g \in Guilds, NEW d \in Days, prior[g][d] # NoFile
      PROVE  Rightly(g, d, prior[g][d])'
  <2> DEFINE e == prior[g][d]
  <2>1. Rightly(g, d, e)
    BY <1>4, PriorRightly DEF PriorInv
  <2>2. run.date >= d
    BY <1>0, <1>4 DEF PriorInv, DatesInOrder
  <2>3. Unwritten(g, d) => Unwritten(g, d)'
    OBVIOUS
  <2>4. e' = e
    OBVIOUS
  <2> HIDE DEF e
  <2>5. e < d /\ e \in dirs'[g] \cup {0}
    BY <1>3, <2>1 DEF Rightly
  <2>6. CASE e = 0 /\ Unwritten(g, d)
    BY <2>3, <2>4, <2>5, <2>6 DEF Rightly, e
  <2>7. CASE \A f \in dirs[g] : f <= e \/ f >= d
    <3>1. \A f \in dirs'[g] : f <= e \/ f >= d
      BY <1>3, <2>2, <2>7
    <3>q. QED
      BY <2>4, <2>5, <3>1 DEF Rightly, e
  <2>q. QED
    BY <2>1, <2>6, <2>7 DEF Rightly
<1>5. PriorIsLatest'
  BY <1>4 DEF PriorIsLatest, Rightly
<1>q. QED
  BY <1>2, <1>5 DEF PriorInv

\* Only the end of a guild writes a prior.txt, and it names the latest earlier day.
LEMMA PriorStep == Typed /\ Typed' /\ PriorInv /\ [Next]_vars => PriorInv'
<1> SUFFICES ASSUME Typed, Typed', PriorInv, [Next]_vars PROVE PriorInv'
  OBVIOUS
<1>0. /\ run \in RunType /\ Days \subseteq Nat /\ day \in Days /\ run.date \in Days
      /\ dirs \in [Guilds -> SUBSET Days] /\ prior \in [Guilds -> [Days -> Days \cup {0, NoFile}]]
  <2>1. Days \subseteq Nat
    BY PassAssumption DEF Days
  <2>2. run \in RunType
    BY DEF Typed, TypeOK, RunType
  <2>3. run.date \in Days
    BY <2>2 DEF RunType
  <2>q. QED
    BY <2>1, <2>2, <2>3 DEF Typed, TypeOK
<1>x. FileFails => run'.pc = "over"
  BY <1>0 DEF FileFails, Exit, RunType
\* The prior.txt of the guild in hand is opened, or written, with what is right for it.
<1>w. ASSUME NEW CONSTANT e, NEW CONSTANT h \in Guilds, NEW CONSTANT k \in Days,
             h = run.guild, k = run.date, run'.date = run.date, day' = day,
             prior' = [prior EXCEPT ![h][k] = e], dirs' \in {dirs, WithDay},
             Rightly(h, k, e)',
             \A g \in Guilds, d \in Days :
               Unwritten(g, d) => Unwritten(g, d)' \/ (g = h /\ d = k)
      PROVE  PriorInv'
  <2>1. ASSUME NEW g \in Guilds
        PROVE  dirs[g] \subseteq dirs'[g] /\ dirs'[g] \subseteq dirs[g] \cup {run.date}
    BY <1>0, <1>w DEF WithDay
  <2>2. ASSUME NEW g \in Guilds, NEW d \in Days, prior'[g][d] # NoFile
        PROVE  d <= run.date /\ Rightly(g, d, prior[g][d])'
    <3>1. CASE g = h /\ d = k
      <4>1. prior'[g][d] = e
        BY <1>0, <1>w, <3>1
      <4>2. d <= run.date
        BY <1>0, <1>w, <3>1
      <4>q. QED
        BY <1>w, <3>1, <4>1, <4>2 DEF Rightly
    <3>2. CASE ~ (g = h /\ d = k)
      <4>1. prior'[g][d] = prior[g][d]
        BY <1>0, <1>w, <3>2
      <4>2. d <= run.date /\ Rightly(g, d, prior[g][d])
        BY <2>2, <4>1, PriorRightly DEF PriorInv, DatesInOrder
      <4>3. Unwritten(g, d) => Unwritten(g, d)'
        BY <1>w, <3>2
      <4> DEFINE x == prior[g][d]
      <4>4. x' = x
        BY <4>1
      <4> HIDE DEF x
      <4>5. Rightly(g, d, x)
        BY <4>2 DEF x
      <4>6. x < d /\ x \in dirs'[g] \cup {0}
        BY <2>1, <4>5 DEF Rightly
      <4>7. CASE x = 0 /\ Unwritten(g, d)
        BY <4>2, <4>3, <4>4, <4>6, <4>7 DEF Rightly, x
      <4>8. CASE \A f \in dirs[g] : f <= x \/ f >= d
        <5>1. \A f \in dirs'[g] : f <= x \/ f >= d
          BY <1>0, <2>1, <4>2, <4>8
        <5>q. QED
          BY <4>2, <4>4, <4>6, <5>1 DEF Rightly, x
      <4>q. QED
        BY <4>5, <4>7, <4>8 DEF Rightly
    <3>q. QED
      BY <3>1, <3>2
  <2>3. DatesInOrder'
    BY <1>w, <2>2 DEF PriorInv, DatesInOrder
  <2>4. PriorIsLatest'
    BY <2>2 DEF PriorIsLatest, Rightly
  <2>q. QED
    BY <2>3, <2>4 DEF PriorInv
<1>1. CASE OpenPrior \/ WritePrior
  <2>1. run.guild \in Guilds /\ run'.date = run.date /\ day' = day
    BY <1>1, FileStep
  <2>2. CASE FileFails
    <3>1. prior' = prior /\ dirs' \in {dirs, WithDay}
      BY <1>0, <1>1, <2>2, <1>x DEF OpenPrior, WritePrior, RunType
    <3>2. ASSUME NEW g \in Guilds, NEW d \in Days, Unwritten(g, d) PROVE Unwritten(g, d)'
      BY <1>0, <1>1, <1>x, <2>2, <3>2 DEF Unwritten, OpenPrior, WritePrior, RunType
    <3>q. QED
      BY <1>0, <2>1, <3>1, <3>2, PriorKept DEF WithDay
  <2>3. CASE OpenPrior /\ ~ FileFails
    <3>1. /\ run' = [run EXCEPT !.pc = "prior"] /\ torn' = torn /\ dirs' = WithDay
          /\ prior' = [prior EXCEPT ![run.guild][run.date] = 0] /\ run.pc = "channel"
      BY <2>3 DEF OpenPrior
    <3>2. /\ run'.pc = "prior" /\ run'.guild = run.guild
      BY <1>0, <3>1 DEF RunType
    <3>g. PICK h \in Guilds, k \in Days : h = run.guild /\ k = run.date
      BY <1>0, <2>1
    <3>4. Rightly(h, k, 0)'
      <4>1. 0 < k
        BY <1>0 DEF Days
      <4>q. QED
        BY <2>1, <3>2, <3>g, <4>1 DEF Rightly, Unwritten
    <3>5. ASSUME NEW g \in Guilds, NEW d \in Days, Unwritten(g, d) PROVE Unwritten(g, d)'
      BY <3>1, <3>5 DEF Unwritten
    <3>q. QED
      BY <1>w, <2>1, <3>1, <3>4, <3>5, <3>g
  <2>4. CASE WritePrior /\ ~ FileFails
    <3> DEFINE p == PriorDate(run.guild, run.date)
    <3>1. /\ torn' = torn \ {<<run.guild, run.date>>} /\ dirs' = dirs
          /\ prior' = [prior EXCEPT ![run.guild][run.date] = p]
          /\ run' = [run EXCEPT !.pc = "meta"]
      BY <2>4 DEF WritePrior
    <3>2. /\ p \in dirs[run.guild] \cup {0} /\ p < run.date
          /\ \A f \in dirs[run.guild] : f <= p \/ f >= run.date
      BY <1>0, <2>1, PriorDateIsLatest
    <3> HIDE DEF p
    <3>4. /\ p \in dirs'[run.guild] \cup {0} /\ p < run.date
          /\ \A f \in dirs'[run.guild] : f <= p \/ f >= run.date
      BY <3>1, <3>2
    <3>6. PICK q \in {p}, h \in Guilds, k \in Days : q = p /\ h = run.guild /\ k = run.date
      BY <1>0, <2>1
    <3>7. Rightly(h, k, q)'
      BY <3>4, <3>6 DEF Rightly
    <3>8. \A g \in Guilds, d \in Days :
            Unwritten(g, d) => Unwritten(g, d)' \/ (g = h /\ d = k)
      BY <3>1, <3>6 DEF Unwritten
    <3>9. prior' = [prior EXCEPT ![h][k] = q]
      BY <3>1, <3>6
    <3>10. h \in Guilds /\ k \in Days /\ h = run.guild /\ k = run.date /\ dirs' \in {dirs, WithDay}
      BY <3>1, <3>6
    <3>q. QED
      BY <1>w, <2>1, <3>7, <3>8, <3>9, <3>10
  <2>q. QED
    BY <1>1, <2>2, <2>3, <2>4
<1>2. ASSUME \/ \E c \in Channels : Post(c)
             \/ NextDay \/ Begin \/ Crash
             \/ UNCHANGED vars
      PROVE  PriorInv'
  <2>1. /\ prior' = prior /\ dirs' = dirs
    BY <1>2 DEF Post, NextDay, Begin, Crash, vars, files
  <2>2. day <= day'
    BY <1>0, <1>2 DEF Post, NextDay, Begin, Crash, vars, Days
  <2>3. run'.date \in {run.date, day}
    BY <1>0, <1>2 DEF Post, NextDay, Begin, Crash, vars, RunType
  <2>4. ASSUME NEW g \in Guilds, NEW d \in Days, Unwritten(g, d) PROVE Unwritten(g, d)'
    BY <1>2, <2>4 DEF Unwritten, Post, NextDay, Begin, Crash, vars, files
  <2>q. QED
    BY <2>1, <2>2, <2>3, <2>4, PriorKept
<1>3. ASSUME OpenBurner \/ ListGuilds \/ EndBurner \/ ListChannels \/ EndGuild
             \/ StartChannel \/ Forward \/ Advance \/ OpenMeta \/ WriteMeta
      PROVE  PriorInv'
  <2>1. /\ prior' = prior /\ dirs' = dirs /\ day' = day /\ torn' = torn
        /\ run.pc # "prior"
    BY <1>3 DEF OpenBurner, ListGuilds, EndBurner, ListChannels, EndGuild, StartChannel,
                Forward, Advance, OpenMeta, WriteMeta, files
  <2>2. run'.date \in {run.date, day}
    <3>1. CASE OpenBurner
      BY <1>0, <3>1 DEF OpenBurner, Exit, RunType
    <3>2. CASE ListGuilds
      BY <1>0, <3>2 DEF ListGuilds, Exit, RunType
    <3>3. CASE EndBurner
      BY <1>0, <3>3 DEF EndBurner, Exit, RunType
    <3>4. CASE ListChannels
      BY <1>0, <3>4 DEF ListChannels, RunType
    <3>5. CASE EndGuild \/ StartChannel \/ Advance
      BY <1>0, <3>5 DEF EndGuild, StartChannel, Advance, LeaveChannel, RunType
    <3>6. CASE Forward
      BY <1>0, <3>6 DEF Forward, Fails, LeaveChannel, Exit, RunType
    <3>7. CASE OpenMeta \/ WriteMeta
      BY <3>7, FileStep
    <3>q. QED
      BY <1>3, <3>1, <3>2, <3>3, <3>4, <3>5, <3>6, <3>7
  <2>3. ASSUME NEW g \in Guilds, NEW d \in Days, Unwritten(g, d) PROVE Unwritten(g, d)'
    BY <2>1, <2>3 DEF Unwritten
  <2>q. QED
    BY <1>0, <2>1, <2>2, <2>3, PriorKept
<1>4. ASSUME FetchPinned \/ ScanThreads \/ Backfill PROVE PriorInv'
  <2>1. /\ prior' = prior /\ day' = day /\ torn' = torn /\ run.pc # "prior"
        /\ run.guild \in Guilds /\ guildOf[run.channel] = run.guild
    BY <1>4 DEF FetchPinned, ScanThreads, Backfill, Typed, Control, Inside, Within, ChannelsOf
  <2>2. dirs' = dirs \/ dirs' = [dirs EXCEPT ![run.guild] = @ \cup {run.date}]
    BY <1>4, <2>1 DEF FetchPinned, ScanThreads, Backfill, WithDay
  <2>3. run'.date = run.date
    <3>1. CASE FetchPinned
      BY <1>0, <3>1 DEF FetchPinned, Fails, LeaveChannel, Exit, RunType
    <3>2. CASE ScanThreads
      BY <1>0, <3>2 DEF ScanThreads, LeaveChannel, RunType
    <3>3. CASE Backfill
      BY <1>0, <3>3 DEF Backfill, Fails, LeaveChannel, Exit, RunType
    <3>q. QED
      BY <1>4, <3>1, <3>2, <3>3
  <2>4. ASSUME NEW g \in Guilds, NEW d \in Days, Unwritten(g, d) PROVE Unwritten(g, d)'
    BY <2>1, <2>4 DEF Unwritten
  <2>q. QED
    BY <1>0, <2>1, <2>2, <2>3, <2>4, PriorKept
<1>q. QED
  BY <1>1, <1>2, <1>3, <1>4 DEF Next, Step

\* prior.txt names the last earlier day with a directory, and is empty although there is one
\* only where it was opened and not written, for any number of days, guilds, midnights and
\* passes cut short at any step.
THEOREM PriorCorrect == Spec => []PriorIsLatest
<1>1. Init => PriorInv
  <2>1. 1 \in Nat
    OBVIOUS
  <2>q. QED
    BY DEF Init, PriorInv, DatesInOrder, PriorIsLatest
<1>2. PriorInv => PriorIsLatest
  BY DEF PriorInv
<1>q. QED
  BY <1>1, <1>2, TypedInit, TypedStep, PriorStep, PTL DEF Spec

--------------------------------------------------------------------------------
(* What ends a pass.                                                       *)

Challenges == {"forward", "pins", "backfill"}

\* A rejected token is what exit status 3 is for.
Rejections == seen.rejected <=> run.exit = 3

EndInv == ChallengeEndsPass /\ Rejections

\* A step that does not end the pass and meets no challenge and no rejection.
LEMMA EndKept ==
  ASSUME EndInv, run'.exit = run.exit, seen'.rejected = seen.rejected,
         seen'.captcha \cap Challenges \subseteq seen.captcha
  PROVE  EndInv'
  BY DEF EndInv, ChallengeEndsPass, Rejections, Challenges

\* Every step leaves a challenged pass ended with 2 and a rejected one with 3.
LEMMA EndStep == Typed /\ EndInv /\ [Next]_vars => EndInv'
<1> SUFFICES ASSUME Typed, EndInv, [Next]_vars PROVE EndInv'
  OBVIOUS
<1>0. /\ run \in RunType /\ seen \in SeenType /\ trouble \in 0 .. MaxTrouble
      /\ run.exit \in {Running, 0, 1, 2, 3}
  BY DEF Typed, TypeOK, RunType, SeenType
<1>a. ASSUME run.pc # "over"
      PROVE  run.exit = Running /\ seen.captcha \cap Challenges = {} /\ seen.rejected = FALSE
  <2>1. run.exit = Running
    BY <1>a DEF Typed, Control
  <2>2. Running # 2 /\ Running # 3
    BY DEF Running
  <2>3. ~ seen.rejected
    BY <2>1, <2>2 DEF EndInv, Rejections
  <2>4. seen.rejected \in BOOLEAN
    BY <1>0 DEF SeenType
  <2>5. seen.captcha \cap Challenges = {}
    BY <2>1, <2>2 DEF EndInv, ChallengeEndsPass, Challenges
  <2>q. QED
    BY <2>1, <2>3, <2>4, <2>5
\* An exit other than for a rejection, with nothing challenged or with 2.
<1>b. ASSUME run.pc # "over", NEW code \in {0, 1, 2}, Exit(code),
             seen'.rejected = seen.rejected,
             seen'.captcha \cap Challenges = {} \/ code = 2
      PROVE  EndInv'
  <2>1. run'.exit = code
    BY <1>0, <1>b, ExitRun
  <2>2. code # 3
    BY <1>b
  <2>3. Rejections'
    BY <1>a, <1>b, <2>1, <2>2 DEF Rejections
  <2>4. ChallengeEndsPass'
    BY <1>b, <2>1 DEF ChallengeEndsPass, Challenges
  <2>q. QED
    BY <2>3, <2>4 DEF EndInv
\* A file of a channel that cannot be written.
<1>f. ASSUME NEW n \in Nat, LeaveChannel(n), Trouble("files", "failure") PROVE EndInv'
  <2>1. run'.exit = run.exit
    BY <1>0, <1>f, LeaveRun
  <2>2. "failure" # "captcha" /\ seen' = seen
    BY <1>0, <1>f, TroubleNoted
  <2>q. QED
    BY <2>1, <2>2, EndKept
\* A request of a channel that fails.
<1>c. ASSUME run.pc # "over", NEW place \in Requests, NEW n \in Nat, Fails(place, n)
      PROVE  EndInv'
  <2>1. \/ LeaveChannel(n) /\ seen'.captcha = seen.captcha
        \/ Exit(2)
    BY <1>0, <1>c, FailsRun
  <2>2. seen'.rejected = seen.rejected
    BY <1>0, <1>c, FailsRun
  <2>3. ASSUME LeaveChannel(n), seen'.captcha = seen.captcha PROVE EndInv'
    <3>1. run'.exit = run.exit
      BY <1>0, <2>3, LeaveRun
    <3>q. QED
      BY <2>2, <2>3, <3>1, EndKept
  <2>q. QED
    BY <1>b, <1>c, <2>1, <2>2, <2>3
<1>1. CASE Begin
  <2>1. run'.exit = Running /\ seen'.captcha = {} /\ seen'.rejected = FALSE
    BY <1>1 DEF Begin
  <2>q. QED
    BY <2>1 DEF EndInv, ChallengeEndsPass, Rejections, Running
<1>2. ASSUME \/ \E c \in Channels : Post(c)
             \/ NextDay \/ Crash \/ EndGuild \/ UNCHANGED vars
      PROVE  EndInv'
  <2>1. run'.exit = run.exit
    BY <1>0, <1>2 DEF Post, NextDay, Crash, EndGuild, vars, RunType
  <2>2. seen' = seen
    BY <1>2 DEF Post, NextDay, Crash, EndGuild, vars
  <2>q. QED
    BY <2>1, <2>2, EndKept
<1>3. CASE OpenBurner
  <2>1. CASE NoTrouble /\ run' = [run EXCEPT !.pc = "guilds", !.date = day]
    BY <1>0, <2>1, EndKept DEF NoTrouble, RunType
  <2>2. ASSUME NEW code \in {1, 2}, Exit(code), Trouble("open", "failure") PROVE EndInv'
    <3>1. seen' = seen
      BY <2>2 DEF Trouble
    <3>q. QED
      BY <1>3, <1>a, <1>b, <2>2, <3>1 DEF OpenBurner
  <2>q. QED
    BY <1>3, <2>1, <2>2 DEF OpenBurner
<1>4. CASE ListGuilds
  <2>0. run.pc # "over"
    BY <1>4 DEF ListGuilds
  <2>1. CASE NoTrouble /\ run' = [run EXCEPT !.pc = "guild", !.guilds = Mine(account)]
    BY <1>0, <2>1, EndKept DEF NoTrouble, RunType
  <2>2. CASE /\ run' = [run EXCEPT !.pc = "guild"]
             /\ seen' = [seen EXCEPT !.unlisted = @ \cup Mine(account)]
    BY <1>0, <2>2, EndKept DEF RunType, SeenType
  <2>3. CASE Exit(3) /\ seen' = [seen EXCEPT !.rejected = TRUE]
    <3>1. run'.exit = 3
      BY <1>0, <2>3, ExitRun
    <3>2. seen'.captcha = seen.captcha /\ seen'.rejected = TRUE
      BY <1>0, <2>3 DEF SeenType
    <3>q. QED
      BY <1>a, <2>0, <3>1, <3>2 DEF EndInv, ChallengeEndsPass, Rejections, Challenges
  <2>4. ASSUME Exit(1), NEW kind \in {"captcha", "failure"}, Trouble("guilds", kind)
        PROVE  EndInv'
    <3>1. "guilds" \in Requests
      BY DEF Requests
    <3>2. seen'.rejected = seen.rejected /\ seen'.captcha \subseteq seen.captcha \cup {"guilds"}
      BY <1>0, <2>4, <3>1, TroubleNoted
    <3>3. seen'.captcha \cap Challenges = {}
      BY <1>a, <2>0, <3>2 DEF Challenges
    <3>q. QED
      BY <1>b, <2>0, <2>4, <3>2, <3>3
  <2>q. QED
    BY <1>4, <2>1, <2>2, <2>3, <2>4 DEF ListGuilds
<1>5. CASE EndBurner
  <2>1. seen' = seen /\ run.pc # "over"
    BY <1>5 DEF EndBurner
  <2>2. CASE run.turn < Len(Accounts)
    <3>1. run' = [run EXCEPT !.pc = "open", !.turn = @ + 1]
      BY <1>5, <2>2 DEF EndBurner
    <3>2. run'.exit = run.exit
      BY <1>0, <3>1 DEF RunType
    <3>q. QED
      BY <2>1, <3>2, EndKept
  <2>3. CASE ~ run.turn < Len(Accounts)
    <3>1. Exit(0)
      BY <1>5, <2>3 DEF EndBurner
    <3>q. QED
      BY <1>a, <1>b, <2>1, <3>1
  <2>q. QED
    BY <2>2, <2>3
<1>6. CASE ListChannels
  <2>1. run'.exit = run.exit
    BY <1>0, <1>6 DEF ListChannels, RunType
  <2>2. ASSUME NEW g, NEW captcha \in {{}, {"channels"}},
               seen' = [seen EXCEPT !.unlisted = @ \cup {g}, !.captcha = @ \cup captcha]
        PROVE  EndInv'
    <3>1. seen'.rejected = seen.rejected /\ seen'.captcha = seen.captcha \cup captcha
      BY <1>0, <2>2 DEF SeenType
    <3>2. seen'.captcha \cap Challenges \subseteq seen.captcha
      BY <2>2, <3>1 DEF Challenges
    <3>q. QED
      BY <2>1, <3>1, <3>2, EndKept
  <2>3. CASE NoTrouble
    BY <2>1, <2>3, EndKept DEF NoTrouble
  <2>q. QED
    BY <1>6, <2>2, <2>3 DEF ListChannels
<1>7. CASE StartChannel
  <2>1. run'.exit = run.exit /\ seen'.rejected = seen.rejected /\ seen'.captcha = seen.captcha
    BY <1>0, <1>7 DEF StartChannel, RunType, SeenType
  <2>q. QED
    BY <2>1, EndKept
<1>8. CASE Forward
  <2>0. run.pc # "over" /\ "forward" \in Requests /\ run.channel \in Channels
    BY <1>8 DEF Forward, Requests, Typed, Control, Within, ChannelsOf
  <2>1. ASSUME NEW n, NoTrouble, run' = [run EXCEPT !.pc = "pins", !.got = n] PROVE EndInv'
    BY <1>0, <2>1, EndKept DEF NoTrouble, RunType
  <2>2. posted[run.channel] \in Nat /\ cursor[run.channel] \in Nat
    BY <2>0 DEF Typed, TypeOK
  <2>3. ASSUME NEW n \in 0 .. posted[run.channel] - cursor[run.channel], Fails("forward", n)
        PROVE  EndInv'
    <3>1. n \in Nat
      BY <2>2
    <3>q. QED
      BY <1>c, <2>0, <2>3, <3>1
  <2>q. QED
    BY <1>8, <2>1, <2>3 DEF Forward
<1>9. CASE FetchPinned
  <2>0. run.pc # "over" /\ "pins" \in Requests /\ run.got \in Nat
    BY <1>0, <1>9 DEF FetchPinned, Requests, RunType
  <2>1. CASE NoTrouble /\ run'.exit = run.exit
    BY <2>1, EndKept DEF NoTrouble
  <2>2. CASE Fails("pins", run.got)
    BY <1>c, <2>0, <2>2
  <2>3. \/ Fails("pins", run.got)
        \/ LeaveChannel(1) /\ Trouble("files", "failure") /\ 1 \in Nat
        \/ /\ NoTrouble
           /\ \E fetched, pc : run' = [run EXCEPT !.fetched = fetched, !.pc = pc]
    BY <1>9 DEF FetchPinned
  <2>4. ASSUME NoTrouble, NEW fetched, NEW pc, run' = [run EXCEPT !.fetched = fetched, !.pc = pc]
        PROVE  EndInv'
    BY <1>0, <2>1, <2>4 DEF RunType
  <2>q. QED
    BY <1>f, <2>2, <2>3, <2>4
<1>10. CASE ScanThreads
  <2>1. (\E pc : run' = [run EXCEPT !.pc = pc]) => run'.exit = run.exit
    BY <1>0 DEF RunType
  <2>2. CASE NoTrouble /\ run'.exit = run.exit
    BY <2>2, EndKept DEF NoTrouble
  <2>3. ASSUME NEW kind, Trouble("threads", kind), run'.exit = run.exit PROVE EndInv'
    <3>1. "threads" \in Requests
      BY DEF Requests
    <3>2. seen'.rejected = seen.rejected /\ seen'.captcha \subseteq seen.captcha \cup {"threads"}
      BY <1>0, <2>3, <3>1, TroubleNoted
    <3>3. seen'.captcha \cap Challenges \subseteq seen.captcha
      BY <3>2 DEF Challenges
    <3>q. QED
      BY <2>3, <3>2, <3>3, EndKept
  <2>4. CASE LeaveChannel(0) /\ Trouble("files", "failure")
    <3>1. 0 \in Nat
      OBVIOUS
    <3>q. QED
      BY <1>f, <2>4, <3>1
  <2>q. QED
    BY <1>10, <2>1, <2>2, <2>3, <2>4 DEF ScanThreads
<1>11. CASE Backfill
  <2>0. run.pc # "over" /\ "backfill" \in Requests /\ 0 \in Nat
    BY <1>11 DEF Backfill, Requests
  <2>1. ASSUME LeaveChannel(0), NoTrouble PROVE EndInv'
    <3>1. run'.exit = run.exit
      BY <1>0, <2>1, LeaveRun
    <3>q. QED
      BY <2>1, <3>1, EndKept DEF NoTrouble
  <2>q. QED
    BY <1>11, <1>c, <1>f, <2>0, <2>1 DEF Backfill
<1>12. CASE Advance
  <2>1. run.got \in Nat
    BY <1>0 DEF RunType
  <2>2. CASE run' = [run EXCEPT !.pc = "threads"] /\ NoTrouble
    BY <1>0, <2>2, EndKept DEF NoTrouble, RunType
  <2>q. QED
    BY <1>12, <1>f, <2>1, <2>2 DEF Advance
<1>13. CASE OpenPrior \/ WritePrior \/ OpenMeta \/ WriteMeta
  <2>1. /\ seen' = seen /\ run.pc # "over"
        /\ run'.exit = 1 \/ run'.exit = run.exit
    BY <1>13, FileStep DEF Inside, Within
  <2>2. CASE run'.exit = 1
    <3>0. seen.rejected = FALSE
      BY <1>a, <2>1
    <3>1. seen'.rejected = FALSE /\ ~ run'.exit = 3
      BY <2>1, <2>2, <3>0
    <3>2. Rejections'
      BY <3>1 DEF Rejections
    <3>3. ChallengeEndsPass'
      BY <1>a, <2>1 DEF ChallengeEndsPass, Challenges
    <3>q. QED
      BY <3>2, <3>3 DEF EndInv
  <2>q. QED
    BY <2>1, <2>2, EndKept
<1>q. QED
  BY <1>1, <1>2, <1>3, <1>4, <1>5, <1>6, <1>7, <1>8, <1>9, <1>10, <1>11, <1>12, <1>13
  DEF Next, Step

\* Nothing has ended yet that was challenged or rejected.
LEMMA EndInit == Init => EndInv
  BY DEF Init, EndInv, ChallengeEndsPass, Rejections

\* A captcha in answer to a request of a channel ends the pass with 2, for any number of
\* accounts, guilds, channels and failures.
THEOREM ChallengeCorrect == Spec => []ChallengeEndsPass
<1>1. EndInv => ChallengeEndsPass
  BY DEF EndInv
<1>q. QED
  BY <1>1, TypedInit, TypedStep, EndInit, EndStep, PTL DEF Spec

--------------------------------------------------------------------------------
(* What exit status 0 says.                                                *)

\* The guilds of an account are done with: visited, or not listed.
Served(b) ==
  \A g \in Guilds \ seen.unlisted : HasToScan(b, g) => ChannelsOf(g) \subseteq seen.visited

\* A guild of the account that is served is still to come, is the one in hand, or is done.
Pending(g) ==
  \/ g \in run.guilds
  \/ run.pc \in Inside /\ g = run.guild /\ ChannelsOf(g) \subseteq seen.visited \cup run.channels
  \/ ChannelsOf(g) \subseteq seen.visited

\* How far a pass is: the accounts before this one are served, and once its guilds are
\* listed none of them has been forgotten.
ServedInv ==
  /\ run.pc # "over" => \A i \in 1 .. Len(Accounts) : i < run.turn => Served(Accounts[i])
  /\ run.pc \in {"guild"} \cup Inside =>
       \A g \in Guilds \ seen.unlisted : HasToScan(account, g) => Pending(g)
  /\ run.exit = 0 => \A i \in 1 .. Len(Accounts) : Served(Accounts[i])

\* What is visited stays visited, and what is not listed stays so.
LEMMA ServedKept ==
  ASSUME seen.visited \subseteq seen'.visited, seen.unlisted \subseteq seen'.unlisted,
         NEW b, Served(b)
  PROVE  Served(b)'
  BY DEF Served, HasToScan, ChannelsOf

\* A step within a guild or between its account's guilds, which forgets no guild.
LEMMA PendingKept ==
  ASSUME Typed, ServedInv, run.pc # "over", run' \in RunType,
         seen.visited \subseteq seen'.visited, seen.unlisted \subseteq seen'.unlisted,
         run'.turn = run.turn, run'.exit = run.exit,
         run'.pc \in {"guild"} \cup Inside =>
           \A g \in Guilds \ seen'.unlisted : HasToScan(account, g) => Pending(g)'
  PROVE  ServedInv'
<1>1. run.exit = Running /\ Running # 0
  BY DEF Typed, Control, Running
<1>2. \A i \in 1 .. Len(Accounts) : i < run'.turn => Served(Accounts[i])'
  BY ServedKept DEF ServedInv
<1>3. account' = account /\ (Accounts = Accounts)'
  BY DEF account, Accounts
<1>q. QED
  BY <1>1, <1>2, <1>3 DEF ServedInv, HasToScan, Accounts

\* A program that ends with a status other than 0, or dies, promises nothing.
LEMMA ServedLeft ==
  ASSUME run'.pc = "over", run'.exit # 0
  PROVE  ServedInv'
  BY DEF ServedInv, Inside, Within

\* A channel that is left, after it was visited, leaves its guild where it was.
LEMMA ServedFails ==
  ASSUME Typed, ServedInv, run.pc \in Within, run' \in RunType, seen'.visited = seen.visited,
         seen'.unlisted = seen.unlisted,
         \/ run'.pc = "over" /\ run'.exit = 2
         \/ /\ run'.pc \in Inside /\ run'.exit = run.exit /\ run'.turn = run.turn
            /\ run'.guilds = run.guilds /\ run'.guild = run.guild
            /\ run'.channels = run.channels
  PROVE  ServedInv'
<1>1. CASE run'.pc = "over" /\ run'.exit = 2
  BY <1>1, ServedLeft
<1>2. CASE /\ run'.pc \in Inside /\ run'.exit = run.exit /\ run'.turn = run.turn
           /\ run'.guilds = run.guilds /\ run'.guild = run.guild
           /\ run'.channels = run.channels
  <2>1. run.pc # "over" /\ run.pc \in Inside
    BY DEF Within, Inside
  <2>2. \A g \in Guilds \ seen.unlisted : HasToScan(account, g) => Pending(g)
    BY <2>1 DEF ServedInv
  <2>3. ASSUME NEW g \in Guilds, Pending(g) PROVE Pending(g)'
    BY <1>2, <2>3 DEF Pending, ChannelsOf
  <2>q. QED
    BY <1>2, <2>1, <2>2, <2>3, PendingKept
<1>q. QED
  BY <1>1, <1>2

\* Every step keeps account of what was visited.
LEMMA ServedStep == Typed /\ Typed' /\ ServedInv /\ [Next]_vars => ServedInv'
<1> SUFFICES ASSUME Typed, Typed', ServedInv, [Next]_vars PROVE ServedInv'
  OBVIOUS
<1>0. /\ run \in RunType /\ run' \in RunType /\ seen \in SeenType
      /\ trouble \in 0 .. MaxTrouble
  BY DEF Typed, TypeOK, RunType, SeenType
\* A file of a channel that cannot be written.
<1>f. ASSUME NEW n \in Nat, run.pc \in Within, LeaveChannel(n), Trouble("files", "failure")
      PROVE  ServedInv'
  <2>1. "failure" # "captcha" /\ seen' = seen
    BY <1>0, <1>f, TroubleNoted
  <2>q. QED
    BY <1>0, <1>f, <2>1, LeaveRun, ServedFails DEF Inside
<1>1. ASSUME (\E c \in Channels : Post(c)) \/ NextDay \/ UNCHANGED vars PROVE ServedInv'
  <2>1. run' = run /\ seen' = seen
    BY <1>1 DEF Post, NextDay, vars
  <2>q. QED
    BY <2>1 DEF ServedInv, Served, Pending, HasToScan, ChannelsOf, account, Accounts
<1>2. CASE Begin
  <2>1. run'.pc = "open" /\ run'.turn = 1 /\ run'.exit = Running
    BY <1>2 DEF Begin
  <2>2. Running # 0
    BY DEF Running
  <2>q. QED
    BY <2>1, <2>2 DEF ServedInv, Inside, Within
<1>3. CASE Crash
  <2>1. run'.pc = "over" /\ run'.exit = run.exit /\ run.exit = Running /\ Running # 0
    BY <1>0, <1>3 DEF Crash, RunType, Typed, Control, Running
  <2>q. QED
    BY <2>1, ServedLeft
<1>4. CASE OpenBurner
  <2>1. CASE run' = [run EXCEPT !.pc = "guilds", !.date = day] /\ NoTrouble
    <3>1. run'.pc = "guilds" /\ run'.turn = run.turn /\ run'.exit = run.exit /\ seen' = seen
      BY <1>0, <2>1 DEF NoTrouble, RunType
    <3>q. QED
      BY <1>0, <1>4, <3>1, PendingKept DEF OpenBurner, Inside, Within
  <2>2. ASSUME NEW code \in {1, 2}, Exit(code) PROVE ServedInv'
    BY <1>0, <2>2, ExitRun, ServedLeft
  <2>q. QED
    BY <1>4, <2>1, <2>2 DEF OpenBurner
<1>5. CASE ListGuilds
  <2>0. run.pc # "over" /\ Mine(account) = {g \in Joined[account] : HasToScan(account, g)}
    BY <1>5 DEF ListGuilds, Mine, HasToScan
  <2>1. CASE run' = [run EXCEPT !.pc = "guild", !.guilds = Mine(account)] /\ NoTrouble
    <3>1. /\ run'.turn = run.turn /\ run'.exit = run.exit /\ run'.guilds = Mine(account)
          /\ seen' = seen
      BY <1>0, <2>1 DEF NoTrouble, RunType
    <3>2. \A g \in Guilds : HasToScan(account, g) => Pending(g)'
      BY <2>0, <3>1 DEF Pending, HasToScan
    <3>q. QED
      BY <1>0, <2>0, <3>1, <3>2, PendingKept
  <2>2. CASE /\ run' = [run EXCEPT !.pc = "guild"]
             /\ seen' = [seen EXCEPT !.unlisted = @ \cup Mine(account)]
    <3>1. /\ run'.turn = run.turn /\ run'.exit = run.exit
          /\ seen'.unlisted = seen.unlisted \cup Mine(account) /\ seen'.visited = seen.visited
      BY <1>0, <2>2 DEF RunType, SeenType
    <3>2. \A g \in Guilds \ seen'.unlisted : ~ HasToScan(account, g)
      BY <2>0, <3>1 DEF HasToScan
    <3>q. QED
      BY <1>0, <2>0, <3>1, <3>2, PendingKept
  <2>3. ASSUME NEW code \in {1, 3}, Exit(code) PROVE ServedInv'
    BY <1>0, <2>3, ExitRun, ServedLeft
  <2>q. QED
    BY <1>5, <2>1, <2>2, <2>3 DEF ListGuilds
<1>6. CASE EndBurner
  <2>0. run.pc = "guild" /\ run.guilds = {} /\ seen' = seen /\ run.exit = Running
    BY <1>6 DEF EndBurner, Typed, Control
  <2>1. Served(account)
    <3>1. run.pc \notin Inside
      BY <2>0 DEF Inside, Within
    <3>q. QED
      BY <2>0, <3>1 DEF ServedInv, Served, Pending
  <2>2. \A i \in 1 .. Len(Accounts) : i <= run.turn => Served(Accounts[i])
    <3>1. run.turn \in Nat
      BY <1>0, AccountsTyped DEF RunType
    <3>2. \A i \in 1 .. Len(Accounts) : i < run.turn => Served(Accounts[i])
      BY <2>0 DEF ServedInv
    <3>3. \A i \in 1 .. Len(Accounts) : i <= run.turn => i < run.turn \/ i = run.turn
      BY <3>1
    <3>q. QED
      BY <2>1, <3>2, <3>3 DEF account
  <2>3. \A i \in 1 .. Len(Accounts) : i <= run.turn => Served(Accounts[i])'
    BY <2>0, <2>2, ServedKept
  <2>4. CASE run.turn < Len(Accounts)
    <3>1. run' = [run EXCEPT !.pc = "open", !.turn = @ + 1]
      BY <1>6, <2>4 DEF EndBurner
    <3>2. run'.pc = "open" /\ run'.turn = run.turn + 1 /\ run'.exit = Running
      BY <1>0, <2>0, <3>1 DEF RunType
    <3>3. run.turn \in Nat /\ Running # 0
      BY <1>0, AccountsTyped DEF RunType, Running
    <3>4. \A i \in 1 .. Len(Accounts) : i < run'.turn => i <= run.turn
      BY <3>2, <3>3
    <3>q. QED
      BY <2>3, <3>2, <3>3, <3>4 DEF ServedInv, Inside, Within, Accounts
  <2>5. CASE ~ run.turn < Len(Accounts)
    <3>1. run'.pc = "over"
      BY <1>0, <1>6, <2>5, ExitRun DEF EndBurner
    <3>2. \A i \in 1 .. Len(Accounts) : i <= run.turn
      BY <1>0, <2>5, AccountsTyped DEF RunType
    <3>q. QED
      BY <2>3, <3>1, <3>2 DEF ServedInv, Inside, Within, Accounts
  <2>q. QED
    BY <2>4, <2>5
<1>7. CASE ListChannels
  <2>0. run.pc = "guild" /\ run.pc \notin Inside /\ run.pc # "over"
    BY <1>7 DEF ListChannels, Inside, Within
  <2>1. \A g \in Guilds \ seen.unlisted : HasToScan(account, g) =>
          g \in run.guilds \/ ChannelsOf(g) \subseteq seen.visited
    BY <2>0 DEF ServedInv, Pending
  <2>2. ASSUME NEW g \in run.guilds, NoTrouble,
               run' = [run EXCEPT !.pc = "channel", !.guild = g, !.guilds = @ \ {g},
                                  !.channels = ChannelsOf(g), !.fetched = FALSE]
        PROVE  ServedInv'
    <3>1. /\ run'.turn = run.turn /\ run'.exit = run.exit /\ run'.pc = "channel"
          /\ run'.guild = g /\ run'.guilds = run.guilds \ {g} /\ run'.channels = ChannelsOf(g)
          /\ seen' = seen
      BY <1>0, <2>2 DEF NoTrouble, RunType
    <3>2. \A h \in Guilds \ seen.unlisted : HasToScan(account, h) => Pending(h)'
      BY <2>1, <3>1 DEF Pending, Inside, ChannelsOf
    <3>q. QED
      BY <1>0, <2>0, <3>1, <3>2, PendingKept
  <2>3. ASSUME NEW g \in run.guilds, NEW captcha,
               run' = [run EXCEPT !.guilds = @ \ {g}],
               seen' = [seen EXCEPT !.unlisted = @ \cup {g}, !.captcha = @ \cup captcha]
        PROVE  ServedInv'
    <3>1. /\ run'.turn = run.turn /\ run'.exit = run.exit /\ run'.guilds = run.guilds \ {g}
          /\ seen'.unlisted = seen.unlisted \cup {g} /\ seen'.visited = seen.visited
      BY <1>0, <2>3 DEF RunType, SeenType
    <3>2. \A h \in Guilds \ seen'.unlisted : HasToScan(account, h) => Pending(h)'
      BY <2>1, <3>1 DEF Pending, ChannelsOf
    <3>q. QED
      BY <1>0, <2>0, <3>1, <3>2, PendingKept
  <2>q. QED
    BY <1>7, <2>2, <2>3 DEF ListChannels
<1>8. CASE EndGuild
  <2>0. run.pc = "channel" /\ run.channels = {} /\ seen' = seen /\ run.pc \in Inside
    BY <1>8 DEF EndGuild, Inside
  <2>1. run' = [run EXCEPT !.pc = "guild", !.guild = NoGuild]
    BY <1>8 DEF EndGuild
  <2>2. run'.turn = run.turn /\ run'.exit = run.exit /\ run'.guilds = run.guilds
    BY <1>0, <2>1 DEF RunType
  <2>3. \A g \in Guilds \ seen.unlisted : HasToScan(account, g) => Pending(g)'
    BY <2>0, <2>2 DEF ServedInv, Pending, ChannelsOf
  <2>q. QED
    BY <1>0, <2>0, <2>2, <2>3, PendingKept
<1>9. CASE StartChannel
  <2>0. run.pc = "channel" /\ run.pc \in Inside
    BY <1>9 DEF StartChannel, Inside
  <2>1. PICK c \in run.channels :
          /\ run' = [run EXCEPT !.pc = "forward", !.channel = c, !.channels = @ \ {c}]
          /\ seen' = [seen EXCEPT !.visited = @ \cup {c}]
    BY <1>9 DEF StartChannel
  <2>2. /\ run'.turn = run.turn /\ run'.exit = run.exit /\ run'.guilds = run.guilds
        /\ run'.guild = run.guild /\ run'.pc = "forward" /\ run'.channels = run.channels \ {c}
        /\ seen'.visited = seen.visited \cup {c} /\ seen'.unlisted = seen.unlisted
    BY <1>0, <2>1 DEF RunType, SeenType
  <2>3. run'.pc \in Inside
    BY <2>2 DEF Inside, Within
  <2>4. \A g \in Guilds \ seen.unlisted : HasToScan(account, g) => Pending(g)'
    BY <2>0, <2>2, <2>3 DEF ServedInv, Pending, ChannelsOf
  <2>q. QED
    BY <1>0, <2>0, <2>2, <2>4, PendingKept
<1>10. CASE Forward
  <2>0. run.pc \in Within /\ "forward" \in Requests /\ run.channel \in Channels
    BY <1>10 DEF Forward, Requests, Within, Typed, Control, ChannelsOf
  <2>1. ASSUME NEW n, NoTrouble, run' = [run EXCEPT !.pc = "pins", !.got = n] PROVE ServedInv'
    BY <1>0, <2>0, <2>1, ServedFails DEF NoTrouble, RunType, Inside, Within
  <2>2. posted[run.channel] \in Nat /\ cursor[run.channel] \in Nat
    BY <2>0 DEF Typed, TypeOK
  <2>3. ASSUME NEW n \in 0 .. posted[run.channel] - cursor[run.channel], Fails("forward", n)
        PROVE  ServedInv'
    <3>1. n \in Nat
      BY <2>2
    <3>q. QED
      BY <1>0, <2>0, <2>3, <3>1, FailsRun, LeaveRun, ExitRun, ServedFails DEF Inside
  <2>q. QED
    BY <1>10, <2>1, <2>3 DEF Forward
<1>11. CASE FetchPinned
  <2>0. run.pc \in Within /\ "pins" \in Requests /\ run.got \in Nat
    BY <1>0, <1>11 DEF FetchPinned, Requests, Within, RunType
  <2>1. ASSUME NoTrouble, NEW fetched, NEW pc \in {"advance", "threads"},
               run' = [run EXCEPT !.fetched = fetched, !.pc = pc]
        PROVE  ServedInv'
    BY <1>0, <2>0, <2>1, ServedFails DEF NoTrouble, RunType, Inside, Within
  <2>2. CASE Fails("pins", run.got)
    BY <1>0, <2>0, <2>2, FailsRun, LeaveRun, ExitRun, ServedFails DEF Inside
  <2>3. \/ Fails("pins", run.got)
        \/ LeaveChannel(1) /\ Trouble("files", "failure") /\ 1 \in Nat
        \/ /\ NoTrouble
           /\ \E fetched : \E pc \in {"advance", "threads"} :
                run' = [run EXCEPT !.fetched = fetched, !.pc = pc]
    BY <1>11 DEF FetchPinned
  <2>q. QED
    BY <1>f, <2>0, <2>1, <2>2, <2>3
<1>12. CASE Advance
  <2>0. run.pc \in Within /\ run.got \in Nat
    BY <1>0, <1>12 DEF Advance, Within, RunType
  <2>1. CASE run' = [run EXCEPT !.pc = "threads"] /\ NoTrouble
    BY <1>0, <2>0, <2>1, ServedFails DEF NoTrouble, RunType, Inside, Within
  <2>q. QED
    BY <1>f, <1>12, <2>0, <2>1 DEF Advance
<1>13. CASE ScanThreads
  <2>0. run.pc \in Within /\ "threads" \in Requests /\ 0 \in Nat
    BY <1>13 DEF ScanThreads, Within, Requests
  <2>1. CASE run' = [run EXCEPT !.pc = "backfill"]
    <3>1. /\ run'.exit = run.exit /\ run'.turn = run.turn /\ run'.guilds = run.guilds
          /\ run'.guild = run.guild /\ run'.channels = run.channels /\ run'.pc \in Inside
      BY <1>0, <2>1 DEF RunType, Inside, Within
    <3>2. ASSUME NEW kind, NoTrouble \/ Trouble("threads", kind)
          PROVE  seen'.visited = seen.visited /\ seen'.unlisted = seen.unlisted
      BY <1>0, <2>0, <3>2, TroubleNoted DEF NoTrouble
    <3>3. \E kind : NoTrouble \/ Trouble("threads", kind) \/ Trouble("files", "failure")
      BY <1>13 DEF ScanThreads
    <3>4. ASSUME Trouble("files", "failure")
          PROVE  seen'.visited = seen.visited /\ seen'.unlisted = seen.unlisted
      <4>1. "failure" # "captcha"
        OBVIOUS
      <4>q. QED
        BY <1>0, <3>4, <4>1, TroubleNoted
    <3>q. QED
      BY <1>0, <2>0, <3>1, <3>2, <3>3, <3>4, ServedFails
  <2>q. QED
    BY <1>f, <1>13, <2>0, <2>1 DEF ScanThreads
<1>14. CASE Backfill
  <2>0. run.pc \in Within /\ "backfill" \in Requests /\ 0 \in Nat
    BY <1>14 DEF Backfill, Within, Requests
  <2>1. ASSUME LeaveChannel(0), NoTrouble PROVE ServedInv'
    BY <1>0, <2>0, <2>1, LeaveRun, ServedFails DEF NoTrouble, Inside
  <2>2. ASSUME Fails("backfill", 0) PROVE ServedInv'
    BY <1>0, <2>0, <2>2, FailsRun, LeaveRun, ExitRun, ServedFails DEF Inside
  <2>q. QED
    BY <1>14, <1>f, <2>0, <2>1, <2>2 DEF Backfill
<1>15. CASE OpenPrior \/ WritePrior \/ OpenMeta \/ WriteMeta
  <2>1. /\ run.pc \in Inside /\ run.pc # "over" /\ run.channels = {} /\ seen' = seen
        /\ \/ run'.pc = "over" /\ run'.exit = 1
           \/ /\ run'.exit = run.exit /\ run'.turn = run.turn /\ run'.guilds = run.guilds
              /\ run'.channels = {}
    BY <1>15, FileStep DEF Inside, Within
  <2>2. CASE run'.pc = "over" /\ run'.exit = 1
    BY <2>2, ServedLeft
  <2>3. CASE run'.exit = run.exit /\ run'.turn = run.turn /\ run'.guilds = run.guilds
    <3>1. \A g \in Guilds \ seen.unlisted : HasToScan(account, g) => Pending(g)'
      BY <2>1, <2>3 DEF ServedInv, Pending, ChannelsOf
    <3>q. QED
      BY <1>0, <2>1, <2>3, <3>1, PendingKept
  <2>q. QED
    BY <2>1, <2>2, <2>3
<1>q. QED
  BY <1>1, <1>2, <1>3, <1>4, <1>5, <1>6, <1>7, <1>8, <1>9, <1>10, <1>11, <1>12, <1>13, <1>14,
     <1>15
  DEF Next, Step

\* Before the first pass no guild has been listed, and none was promised.
LEMMA ServedInit == Init => ServedInv
  BY DEF Init, ServedInv, Served, Inside, Within

\* Exit status 0 says that every channel of every listed guild was visited, and 3 that the
\* token was rejected, for any number of accounts, guilds, channels and failures.
THEOREM ExitCorrect == Spec => []ExitTellsTheTruth
<1>1. ServedInv /\ EndInv => ExitTellsTheTruth
  BY DEF ServedInv, EndInv, Rejections, Served, ExitTellsTheTruth
<1>q. QED
  BY <1>1, TypedInit, TypedStep, EndInit, EndStep, ServedInit, ServedStep, PTL DEF Spec

--------------------------------------------------------------------------------
(* meta.json.                                                              *)

\* The guild and the day that messages are being written for.
InHand(g, d) == run.pc \in Inside /\ g = run.guild /\ d = run.date /\ run.fetched

\* While no pass has been cut short, messages have their meta.json or will get it at the
\* end of the guild in hand.
MetaInv ==
  ~ seen.cut /\ (run.pc # "over" \/ run.exit = 0) =>
    \A g \in Guilds, d \in Days : messages[g][d] # {} => d \in meta[g] \/ InHand(g, d)

\* A step that writes no messages, takes no meta.json away and keeps the guild in hand.
LEMMA MetaKept ==
  ASSUME MetaInv, run.pc # "over", seen'.cut = seen.cut, messages' = messages, meta' = meta,
         \/ run'.pc = "over" /\ run'.exit # 0
         \/ \A g \in Guilds, d \in Days : InHand(g, d) => InHand(g, d)'
  PROVE  MetaInv'
  BY DEF MetaInv

\* A channel that is left leaves its guild in hand.
LEMMA MetaLeft ==
  ASSUME Typed, MetaInv, run.pc \in Within, seen'.cut = seen.cut,
         messages' = messages, meta' = meta,
         (\E n \in Nat : LeaveChannel(n)) \/ Exit(2)
  PROVE  MetaInv'
<1>0. run \in RunType /\ run.pc # "over" /\ run.pc \in Inside
  BY DEF Typed, TypeOK, RunType, Within, Inside
<1>1. ASSUME NEW n \in Nat, LeaveChannel(n) PROVE MetaInv'
  <2>1. /\ run'.pc \in Inside /\ run'.guild = run.guild /\ run'.date = run.date
        /\ run.fetched => run'.fetched
    BY <1>0, <1>1, LeaveRun DEF Inside
  <2>2. \A g \in Guilds, d \in Days : InHand(g, d) => InHand(g, d)'
    BY <2>1 DEF InHand
  <2>q. QED
    BY <1>0, <2>2, MetaKept
<1>2. ASSUME Exit(2) PROVE MetaInv'
  BY <1>0, <1>2, ExitRun, MetaKept
<1>q. QED
  BY <1>1, <1>2

\* Every step keeps messages and meta.json together.
LEMMA MetaStep == Typed /\ MetaInv /\ [Next]_vars => MetaInv'
<1> SUFFICES ASSUME Typed, MetaInv, [Next]_vars PROVE MetaInv'
  OBVIOUS
<1>0. /\ run \in RunType /\ seen \in SeenType /\ trouble \in 0 .. MaxTrouble
      /\ messages \in [Guilds -> [Days -> SUBSET (Channels \X Nat)]]
      /\ meta \in [Guilds -> SUBSET Days] /\ run.date \in Days
  <2>1. run \in RunType
    BY DEF Typed, TypeOK, RunType
  <2>2. run.date \in Days
    BY <2>1 DEF RunType
  <2>q. QED
    BY <2>1, <2>2 DEF Typed, TypeOK, SeenType
<1>1. ASSUME (\E c \in Channels : Post(c)) \/ NextDay \/ UNCHANGED vars PROVE MetaInv'
  <2>1. run' = run /\ seen' = seen /\ messages' = messages /\ meta' = meta
    BY <1>1 DEF Post, NextDay, vars, files
  <2>q. QED
    BY <2>1 DEF MetaInv, InHand
<1>2. CASE Begin
  <2>1. /\ run.pc = "over" /\ run'.pc = "open" /\ messages' = messages /\ meta' = meta
        /\ seen'.cut <=> seen.cut \/ run.exit # 0
    BY <1>2 DEF Begin, files
  <2>2. run.pc \notin Inside
    BY <2>1 DEF Inside, Within
  <2>q. QED
    BY <2>1, <2>2 DEF MetaInv, InHand
<1>3. CASE Crash
  <2>1. /\ run.pc # "over" /\ run'.pc = "over" /\ run'.exit = run.exit /\ run.exit = Running
        /\ Running # 0
    BY <1>0, <1>3 DEF Crash, RunType, Typed, Control, Running
  <2>2. seen' = seen /\ messages' = messages /\ meta' = meta
    BY <1>3 DEF Crash, files
  <2>q. QED
    BY <2>1, <2>2, MetaKept
\* The steps at an account: no guild is in hand.
<1>4. ASSUME OpenBurner \/ ListGuilds \/ EndBurner \/ ListChannels PROVE MetaInv'
  <2>1. /\ run.pc \in {"open", "guilds", "guild"} /\ messages' = messages /\ meta' = meta
    BY <1>4 DEF OpenBurner, ListGuilds, EndBurner, ListChannels, files
  <2>2. run.pc # "over" /\ run.pc \notin Inside
    BY <2>1 DEF Inside, Within
  <2>3. seen'.cut = seen.cut
    <3>1. CASE OpenBurner
      BY <3>1 DEF OpenBurner, NoTrouble, Trouble
    <3>2. CASE ListGuilds
      <4>1. ASSUME NEW kind \in {"captcha", "failure"}, Trouble("guilds", kind)
            PROVE  seen'.cut = seen.cut
        BY <1>0, <4>1, TroubleNoted DEF Requests
      <4>q. QED
        BY <1>0, <3>2, <4>1 DEF ListGuilds, NoTrouble, SeenType
    <3>3. CASE EndBurner
      BY <3>3 DEF EndBurner
    <3>4. CASE ListChannels
      BY <1>0, <3>4 DEF ListChannels, NoTrouble, SeenType
    <3>q. QED
      BY <1>4, <3>1, <3>2, <3>3, <3>4
  <2>4. \A g \in Guilds, d \in Days : ~ InHand(g, d)
    BY <2>2 DEF InHand
  <2>q. QED
    BY <2>1, <2>2, <2>3, <2>4, MetaKept
<1>5. CASE EndGuild
  <2>1. /\ run.pc = "channel" /\ ~ run.fetched /\ seen' = seen /\ messages' = messages
        /\ meta' = meta
    BY <1>5 DEF EndGuild, files
  <2>2. \A g \in Guilds, d \in Days : ~ InHand(g, d)
    BY <2>1 DEF InHand
  <2>q. QED
    BY <2>1, <2>2, MetaKept
\* The end of the guild in hand: until its meta.json is written it stays in hand.
<1>10. CASE OpenPrior \/ WritePrior \/ OpenMeta \/ WriteMeta
  <2>1. /\ run.pc \in Inside /\ run.pc # "over" /\ run.guild \in Guilds
        /\ seen' = seen /\ messages' = messages /\ run'.date = run.date
        /\ \/ run'.pc = "over" /\ run'.exit = 1
           \/ run'.pc \in Ending /\ run'.guild = run.guild /\ run.fetched /\ run'.fetched
           \/ run'.pc = "guild"
    BY <1>10, FileStep DEF Inside, Within
  <2>2. CASE run'.pc = "over" /\ run'.exit = 1
    BY <2>1, <2>2 DEF MetaInv
  <2>3. CASE run'.pc \in Ending /\ run'.guild = run.guild /\ run'.fetched
    <3>1. run'.pc \in Inside
      BY <2>3 DEF Inside, Ending
    <3>2. \A g \in Guilds, d \in Days : InHand(g, d) => InHand(g, d)'
      BY <2>1, <2>3, <3>1 DEF InHand
    <3>3. InHand(run.guild, run.date)'
      BY <2>1, <2>3, <3>1 DEF InHand
    <3>4. meta' = meta \/ meta' = [meta EXCEPT ![run.guild] = @ \ {run.date}]
      <4>1. ASSUME WriteMeta PROVE FALSE
        <5>1. CASE run' = [run EXCEPT !.pc = "guild", !.guild = NoGuild]
          BY <1>0, <2>3, <5>1 DEF RunType, Ending
        <5>2. CASE FileFails
          BY <1>0, <2>3, <5>2 DEF FileFails, Exit, RunType, Ending
        <5>q. QED
          BY <4>1, <5>1, <5>2 DEF WriteMeta
      <4>q. QED
        BY <1>10, <4>1 DEF OpenPrior, WritePrior, OpenMeta
    <3>5. ASSUME NEW g \in Guilds, NEW d \in Days, d \in meta[g]
          PROVE  d \in meta'[g] \/ InHand(g, d)'
      <4>1. d \in meta'[g] \/ (g = run.guild /\ d = run.date)
        BY <1>0, <3>4, <3>5
      <4>q. QED
        BY <2>1, <2>3, <3>1, <4>1 DEF InHand
    <3>q. QED
      BY <2>1, <3>2, <3>5 DEF MetaInv
  <2>4. CASE run'.pc = "guild"
    <3>1. meta' = [meta EXCEPT ![run.guild] = @ \cup {run.date}]
      BY <1>0, <1>10, <2>4 DEF OpenPrior, WritePrior, OpenMeta, WriteMeta, FileFails, Exit, RunType
    <3>2. ASSUME NEW g \in Guilds, NEW d \in Days, d \in meta[g] \/ InHand(g, d)
          PROVE  d \in meta'[g]
      BY <1>0, <2>1, <3>1, <3>2 DEF InHand
    <3>q. QED
      BY <2>1, <3>2 DEF MetaInv
  <2>q. QED
    BY <2>1, <2>2, <2>3, <2>4
<1>f. ASSUME NEW n \in Nat, run.pc \in Within, LeaveChannel(n), Trouble("files", "failure"),
             messages' = messages, meta' = meta
      PROVE  MetaInv'
  <2>1. "failure" # "captcha" /\ seen' = seen
    BY <1>0, <1>f, TroubleNoted
  <2>q. QED
    BY <1>f, <2>1, MetaLeft
<1>6. ASSUME StartChannel \/ Advance \/ ScanThreads PROVE MetaInv'
  <2>1. /\ run.pc \in Inside /\ messages' = messages /\ meta' = meta /\ run.pc # "over"
    BY <1>6 DEF StartChannel, Advance, ScanThreads, Inside, Within, files
  <2>2. ASSUME NEW n \in Nat, LeaveChannel(n), Trouble("files", "failure"), Advance \/ ScanThreads
        PROVE  MetaInv'
    <3>1. run.pc \in Within
      BY <2>2 DEF Advance, ScanThreads, Within
    <3>q. QED
      BY <1>f, <2>1, <2>2, <3>1
  <2>3. ASSUME NEW pc \in Within, run' = [run EXCEPT !.pc = pc], seen'.cut = seen.cut PROVE MetaInv'
    <3>1. /\ run'.pc \in Inside /\ run'.guild = run.guild /\ run'.date = run.date
          /\ run'.fetched = run.fetched
      BY <1>0, <2>3 DEF RunType, Inside, Within
    <3>2. \A g \in Guilds, d \in Days : InHand(g, d) => InHand(g, d)'
      BY <3>1 DEF InHand
    <3>q. QED
      BY <2>1, <2>3, <3>2, MetaKept
  <2>4. CASE StartChannel
    <3>1. /\ run'.pc \in Inside /\ run'.guild = run.guild /\ run'.date = run.date
          /\ run'.fetched = run.fetched /\ seen'.cut = seen.cut
      BY <1>0, <2>4 DEF StartChannel, RunType, SeenType, Inside, Within
    <3>2. \A g \in Guilds, d \in Days : InHand(g, d) => InHand(g, d)'
      BY <3>1 DEF InHand
    <3>q. QED
      BY <2>1, <3>1, <3>2, MetaKept
  <2>5. CASE Advance
    <3>1. run.got \in Nat /\ "threads" \in Within
      BY <1>0 DEF RunType, Within
    <3>2. \/ run' = [run EXCEPT !.pc = "threads"] /\ NoTrouble
          \/ LeaveChannel(run.got) /\ Trouble("files", "failure")
      BY <2>5 DEF Advance
    <3>q. QED
      BY <2>2, <2>3, <2>5, <3>1, <3>2 DEF NoTrouble
  <2>6. CASE ScanThreads
    <3>1. 0 \in Nat /\ "backfill" \in Within /\ "threads" \in Requests
      BY DEF Within, Requests
    <3>2. ASSUME NEW kind, Trouble("threads", kind) PROVE seen'.cut = seen.cut
      BY <1>0, <3>1, <3>2, TroubleNoted
    <3>3. \/ /\ run' = [run EXCEPT !.pc = "backfill"]
             /\ NoTrouble \/ \E kind : Trouble("threads", kind)
          \/ LeaveChannel(0) /\ Trouble("files", "failure")
      BY <2>6 DEF ScanThreads
    <3>4. CASE LeaveChannel(0) /\ Trouble("files", "failure")
      BY <2>2, <2>6, <3>1, <3>4
    <3>5. CASE run' = [run EXCEPT !.pc = "backfill"] /\ (NoTrouble \/ \E kind : Trouble("threads", kind))
      <4>1. seen'.cut = seen.cut
        BY <3>2, <3>5 DEF NoTrouble
      <4>q. QED
        BY <2>3, <3>1, <3>5, <4>1
    <3>q. QED
      BY <3>3, <3>4, <3>5
  <2>q. QED
    BY <1>6, <2>4, <2>5, <2>6
<1>7. CASE Forward
  <2>0. /\ run.pc \in Within /\ run.pc \in Inside /\ run.pc # "over"
        /\ "forward" \in Requests /\ run.channel \in Channels
        /\ messages' = messages /\ meta' = meta
    BY <1>7 DEF Forward, Requests, Within, Inside, Typed, Control, ChannelsOf, files
  <2>1. ASSUME NEW n, NoTrouble, run' = [run EXCEPT !.pc = "pins", !.got = n] PROVE MetaInv'
    <3>1. /\ run'.pc \in Inside /\ run'.guild = run.guild /\ run'.date = run.date
          /\ run'.fetched = run.fetched /\ seen' = seen
      BY <1>0, <2>1 DEF NoTrouble, RunType, Inside, Within
    <3>2. \A g \in Guilds, d \in Days : InHand(g, d) => InHand(g, d)'
      BY <3>1 DEF InHand
    <3>q. QED
      BY <2>0, <3>1, <3>2, MetaKept
  <2>2. posted[run.channel] \in Nat /\ cursor[run.channel] \in Nat
    BY <2>0 DEF Typed, TypeOK
  <2>3. ASSUME NEW n \in 0 .. posted[run.channel] - cursor[run.channel], Fails("forward", n)
        PROVE  MetaInv'
    <3>1. n \in Nat
      BY <2>2
    <3>2. seen'.cut = seen.cut
      BY <1>0, <2>0, <2>3, <3>1, FailsRun
    <3>q. QED
      BY <2>0, <2>3, <3>1, <3>2, MetaLeft DEF Fails
  <2>q. QED
    BY <1>7, <2>1, <2>3 DEF Forward
<1>8. CASE FetchPinned
  <2>0. /\ run.pc \in Within /\ run.pc \in Inside /\ run.pc # "over"
        /\ "pins" \in Requests /\ run.got \in Nat
        /\ meta' = meta /\ guildOf[run.channel] = run.guild /\ run.guild \in Guilds
    BY <1>0, <1>8 DEF FetchPinned, Requests, Within, Inside, RunType, Typed, Control, ChannelsOf
  <2>1. ASSUME NoTrouble, NEW pins \in {0, 1}, NEW pc \in {"advance", "threads"}, NEW found,
               run' = [run EXCEPT !.fetched = @ \/ run.got + pins > 0, !.pc = pc],
               messages' = IF run.got > 0
                           THEN [messages EXCEPT ![run.guild][run.date] = found]
                           ELSE messages
        PROVE  MetaInv'
    <3> DEFINE some == run.fetched \/ run.got + pins > 0
    <3>1. (run.fetched => some) /\ (run.got > 0 => some)
      BY <2>0, <2>1
    <3>2. run' = [run EXCEPT !.fetched = some, !.pc = pc]
      BY <2>1
    <3> HIDE DEF some
    <3>3. /\ run'.pc \in Inside /\ run'.guild = run.guild /\ run'.date = run.date
          /\ run'.fetched = some /\ seen' = seen
      <4>1. pc \in Inside
        BY <2>1 DEF Inside, Within
      <4>2. /\ run'.pc = pc /\ run'.guild = run.guild /\ run'.date = run.date
            /\ run'.fetched = some
        BY <1>0, <3>2 DEF RunType
      <4>q. QED
        BY <2>1, <4>1, <4>2 DEF NoTrouble
    <3>4. \A g \in Guilds, d \in Days : InHand(g, d) => InHand(g, d)'
      BY <3>1, <3>3 DEF InHand
    <3>5. CASE ~ run.got > 0
      <4>1. messages' = messages
        BY <2>1, <3>5
      <4>q. QED
        BY <2>0, <3>3, <3>4, <4>1, MetaKept
    <3>6. CASE run.got > 0
      <4>1. messages' = [messages EXCEPT ![run.guild][run.date] = found]
        BY <2>1, <3>6
      <4>2. ASSUME NEW g \in Guilds, NEW d \in Days, ~ (g = run.guild /\ d = run.date)
            PROVE  messages'[g][d] = messages[g][d]
        BY <1>0, <4>1, <4>2
      <4>3. InHand(run.guild, run.date)'
        BY <3>1, <3>3, <3>6 DEF InHand
      <4>q. QED
        BY <2>0, <3>3, <3>4, <4>2, <4>3 DEF MetaInv
    <3>q. QED
      BY <3>5, <3>6
  <2>2. ASSUME Fails("pins", run.got), messages' = messages PROVE MetaInv'
    <3>1. seen'.cut = seen.cut
      BY <1>0, <2>0, <2>2, FailsRun
    <3>q. QED
      BY <2>0, <2>2, <3>1, MetaLeft DEF Fails
  <2>4. CASE /\ LeaveChannel(1) /\ Trouble("files", "failure")
             /\ \/ messages' = messages
                \/ \E found : messages' = [messages EXCEPT ![run.guild][run.date] = found]
    <3>0. "failure" # "captcha" /\ 1 \in Nat /\ 1 > 0
      OBVIOUS
    <3>1. seen' = seen
      BY <1>0, <2>4, <3>0, TroubleNoted
    <3>2. /\ run'.pc = "channel" /\ run'.guild = run.guild /\ run'.date = run.date
          /\ run'.fetched
      <4> DEFINE counted == run.fetched \/ 1 > 0
      <4>1. counted = TRUE /\ run' = [run EXCEPT !.pc = "channel", !.channel = NoChannel, !.got = 0,
                                                 !.fetched = counted]
        BY <2>4, <3>0 DEF LeaveChannel
      <4> HIDE DEF counted
      <4>q. QED
        BY <1>0, <4>1 DEF RunType
    <3>3. InHand(run.guild, run.date)'
      BY <3>2 DEF InHand, Inside
    <3>4. ASSUME NEW g \in Guilds, NEW d \in Days, InHand(g, d) PROVE InHand(g, d)'
      BY <3>2, <3>4 DEF InHand, Inside
    <3>5. ASSUME NEW g \in Guilds, NEW d \in Days, ~ (g = run.guild /\ d = run.date)
          PROVE  messages'[g][d] = messages[g][d]
      <4>1. CASE messages' = messages
        BY <4>1
      <4>2. ASSUME NEW found, messages' = [messages EXCEPT ![run.guild][run.date] = found]
            PROVE  messages'[g][d] = messages[g][d]
        BY <1>0, <3>5, <4>2
      <4>q. QED
        BY <2>4, <4>1, <4>2
    <3>6. ASSUME NEW g \in Guilds, NEW d \in Days, g = run.guild, d = run.date
          PROVE  InHand(g, d)'
      BY <3>2, <3>6 DEF InHand, Inside
    <3>q. QED
      BY <2>0, <3>1, <3>4, <3>5, <3>6 DEF MetaInv
  <2>3. \/ Fails("pins", run.got) /\ messages' = messages
        \/ /\ LeaveChannel(1) /\ Trouble("files", "failure")
           /\ \/ messages' = messages
              \/ \E found : messages' = [messages EXCEPT ![run.guild][run.date] = found]
        \/ /\ NoTrouble
           /\ \E pins \in {0, 1}, pc \in {"advance", "threads"} :
                run' = [run EXCEPT !.fetched = @ \/ run.got + pins > 0, !.pc = pc]
           /\ \E found :
                messages' = IF run.got > 0
                            THEN [messages EXCEPT ![run.guild][run.date] = found]
                            ELSE messages
    BY <1>8, <2>0 DEF FetchPinned
  <2>q. QED
    BY <2>1, <2>2, <2>3, <2>4
<1>9. CASE Backfill
  <2>0. /\ run.pc \in Within /\ "backfill" \in Requests /\ 0 \in Nat
        /\ messages' = messages /\ meta' = meta
    BY <1>9 DEF Backfill, Within, Requests
  <2>1. ASSUME LeaveChannel(0), NoTrouble PROVE MetaInv'
    BY <2>0, <2>1, MetaLeft DEF NoTrouble
  <2>2. ASSUME Fails("backfill", 0) PROVE MetaInv'
    <3>1. seen'.cut = seen.cut
      BY <1>0, <2>0, <2>2, FailsRun
    <3>q. QED
      BY <2>0, <2>2, <3>1, MetaLeft DEF Fails
  <2>q. QED
    BY <1>9, <1>f, <2>0, <2>1, <2>2 DEF Backfill
<1>q. QED
  BY <1>1, <1>2, <1>3, <1>4, <1>5, <1>6, <1>7, <1>8, <1>9, <1>10 DEF Next, Step

\* As long as no pass is cut short, messages have a meta.json beside them, for any number of
\* accounts, guilds, channels, days and failures.
THEOREM MetaCorrect == Spec => []MetaBesideMessages
<1>1. Init => MetaInv
  BY DEF Init, MetaInv
<1>2. Typed /\ MetaInv => MetaBesideMessages
  <2>1. Typed /\ run.exit = 0 => run.pc \notin Inside
    BY DEF Typed, Control, Inside, Within, Running
  <2>q. QED
    BY <2>1 DEF MetaInv, InHand, MetaBesideMessages
<1>q. QED
  BY <1>1, <1>2, TypedInit, TypedStep, MetaStep, PTL DEF Spec

================================================================================
