-------------------------------- MODULE Discover --------------------------------
(***************************************************************************)
(* From an invite to a scope: the discover command (scan/discover.py), the *)
(* resolution of invites and its cache (discovery/invite_resolve.py,       *)
(* invite_cache.py), which it shares with the resolve command, and the     *)
(* scope files that it reads and writes (scan/scopes.py).  No lock is      *)
(* taken: commands, and the operator's editor, meet at every step.         *)
(*                                                                         *)
(* The order of the invites, of the files and of the scopes of a report    *)
(* decides nothing here and is left open.  A file is named after its scope.*)
(***************************************************************************)
EXTENDS Integers, Sequences

CONSTANTS
  Procs,         \* Processes that run discover --update-scopes.
  Resolvers,     \* Those that are also used to run resolve.
  Codes, Guilds, Scopes, Intents,
  Nothing,       \* The answer for an invite that leads to no guild.
  Gone,          \* No answer: the invite is unknown, refused, or not in the cache.
  Unreadable,    \* The guilds of a scope file that is torn.
  NoIntent,      \* The intent of a record that Stage 1.5 has not seen.
  Allow,         \* intent_allowlist of each scope.
  Wanted,        \* discovery.filter.intent_allowlist.
  Worlds,        \* What the invite feed may hold, and where its invites lead at first.
  Turns,         \* Where they may come to lead: guilds, Nothing, Gone.
  Versions,      \* What an operator may save as a scope file, or that it is gone.
  TTL,           \* Units of time that a row of the cache is good for.
  MaxTroubles    \* Bound: deaths, failed requests, invites that change, edits.

\* The contents of a file.  A profile may be invalid; one that was opened to be written
\* and not yet was, or was written by two at once, is torn.
Missing == [text |-> "missing", guilds |-> {}]
NoFiles == [s \in Scopes |-> Missing]
Empty   == [text |-> "torn", guilds |-> {}]
Written == {"good", "invalid"}
Contents == [text : Written, guilds : SUBSET Guilds] \cup {Missing, Empty}

ASSUME DiscoverAssumption ==
  /\ Resolvers \subseteq Procs
  /\ \A G \in SUBSET Guilds : Unreadable # G
  /\ Nothing \notin Guilds /\ Gone \notin Guilds \cup {Nothing}
  /\ Allow \in [Scopes -> SUBSET Intents] /\ Wanted \subseteq Intents
  /\ Worlds \subseteq
       [feed : Seq([code : Codes, intent : Intents \cup {NoIntent},
                    confidence : {"high", "low", "none"}]),
        leads : [Codes -> Guilds \cup {Nothing, Gone}]]
  /\ Turns \subseteq Guilds \cup {Nothing, Gone} /\ Versions \subseteq Contents \ {Empty}
  /\ TTL \in Nat /\ MaxTroubles \in Nat

VARIABLES
  feed,          \* The records of invites.json or invites.enriched.json.
  remote,        \* Where each invite leads.
  since,         \* Ghost: units since an invite last led to a guild.
  row,           \* invite_cache.sqlite, with the age of each row.
  file,          \* The scope files ...
  tmp,           \* ... and the temporary file of each.
  pc,
  todo,          \* Invites still to be resolved.
  at,            \* The invite or the scope in hand.
  known,         \* The scope files as this process loaded them, if it did.
  route,         \* The report's auto_route.
  draft,         \* The contents it is about to write.
  fd,            \* Where what it writes goes: "tmp", "file" or "nowhere".
  lone,          \* Ghost: nobody else has had the scope in hand since it was read.
  excused,       \* Ghost: guilds that may be in two scopes; see OneScopeAlone.
  edits, troubles

discord == <<remote, since>>
yaml    == <<file, tmp>>
run     == <<pc, todo, at, known, route>>
writer  == <<draft, fd, lone>>
vars    == <<feed, discord, row, yaml, run, writer, excused, edits, troubles>>

Applying == {"open", "write", "replace"}

Init ==
  /\ \E w \in Worlds : feed = w.feed /\ remote = w.leads
  /\ since = [c \in Codes |-> [g \in Guilds |-> IF remote[c] = g THEN 0 ELSE TTL + 1]]
  /\ row = [c \in Codes |-> [guild |-> Gone, age |-> 0]]
  /\ file = [s \in Scopes |-> [text |-> "good", guilds |-> {}]]
  /\ tmp = NoFiles
  /\ pc = [p \in Procs |-> "off"] /\ todo = [p \in Procs |-> {}]
  /\ at \in [Procs -> {Gone}]
  /\ known = [p \in Procs |-> NoFiles] /\ route = [p \in Procs |-> {}]
  /\ draft = [p \in Procs |-> Missing] /\ fd = [p \in Procs |-> "nowhere"]
  /\ lone = [p \in Procs |-> FALSE]
  /\ excused = {} /\ edits = 0 /\ troubles = 0

-----------------------------------------------------------------------------
\* Bugs this code could have had; see the mutants in PROJECT.json.

MappedNowhere(k, g) == FALSE
NeverStale(r) == FALSE
StaleGuild(r) == r.age > TTL /\ r.guild # Nothing

\* The file is written in place.
OpenTheFile(p) ==
  /\ pc[p] = "open"
  /\ pc' = [pc EXCEPT ![p] = "write"]
  /\ file' = [file EXCEPT ![at[p]] = Empty]
  /\ fd' = [fd EXCEPT ![p] = "file"]
  /\ UNCHANGED <<feed, discord, row, tmp, todo, at, known, route, draft, lone,
                 excused, edits, troubles>>

-----------------------------------------------------------------------------
\* What the invites and the files say.

\* select_invite_codes: a record is dropped only where both its fields are there.
Kept(r) ==
  r.intent # NoIntent /\ r.confidence # "none" =>
    r.confidence = "high" /\ (Wanted = {} \/ r.intent \in Wanted)
Selected == {feed[i].code : i \in {j \in DOMAIN feed : Kept(feed[j])}}

\* by_code: the last record of an invite decides where it goes, kept or not.
IntentOf(c) ==
  LET Mine == {i \in DOMAIN feed : feed[i].code = c}
  IN  feed[CHOOSE i \in Mine : \A j \in Mine : j <= i].intent

\* load_scope_profiles skips what is not a valid profile, with its guilds.
Profiles(k) == {s \in Scopes : k[s].text = "good"}
Mapped(k, g) == \E s \in Profiles(k) : g \in k[s].guilds
Matching(k, c) == {s \in Profiles(k) : IntentOf(c) \in Allow[s]}

Stale(r) == r.age > TTL

-----------------------------------------------------------------------------
\* One run of a command.

Goto(p, there) == pc' = [pc EXCEPT ![p] = there]

Trouble == troubles < MaxTroubles /\ troubles' = troubles + 1

\* The process is over: by its exit, by an exception nothing catches, or killed.
\* What it wrote in the temporary file stays.
End(p) ==
  /\ Goto(p, "off")
  /\ todo' = [todo EXCEPT ![p] = {}] /\ at' = [at EXCEPT ![p] = Gone]
  /\ known' = [known EXCEPT ![p] = NoFiles]
  /\ route' = [route EXCEPT ![p] = {}]
  /\ draft' = [draft EXCEPT ![p] = Missing] /\ fd' = [fd EXCEPT ![p] = "nowhere"]
  /\ lone' = [lone EXCEPT ![p] = FALSE]

\* The scope files are read one after the other, here at once: what is found is old
\* by the time it is used in any case.  Without a profile the command refuses to go
\* on.  Discover runs that overlap may place one guild twice.
Start(p) ==
  /\ pc[p] = "off" /\ Profiles(file) # {}
  /\ Goto(p, "on")
  /\ known' = [known EXCEPT ![p] = file]
  /\ todo' = [todo EXCEPT ![p] = Selected]
  /\ excused' = IF \E q \in Procs : known[q] # NoFiles THEN Guilds ELSE excused
  /\ UNCHANGED <<feed, discord, row, yaml, at, route, writer, edits, troubles>>

\* The resolve command loads no scopes, so that nothing is routed.
StartResolve(p) ==
  /\ p \in Resolvers /\ pc[p] = "off"
  /\ Goto(p, "on")
  /\ todo' = [todo EXCEPT ![p] = Selected]
  /\ UNCHANGED <<feed, discord, row, yaml, at, known, route, writer, excused, edits, troubles>>

\* The guild g of invite c is routed if it has no scope and exactly one fits.
Routed(p, c, g) ==
  LET fits == Matching(known[p], c)
  IN  IF g \in Guilds /\ ~ Mapped(known[p], g) /\ \E s \in Scopes : fits = {s}
      THEN {[scope |-> s, guild |-> g, code |-> c] : s \in fits} ELSE {}

\* The guilds among them that this run routes to a second scope.
Twice(p, new) ==
  {g \in Guilds : /\ \A s \in Scopes : g \notin known[p][s].guilds
                  /\ \E n \in new, r \in route[p] : n.guild = g /\ r.guild = g /\ n.scope # r.scope}

\* The invite c is answered.
Take(p, c, g) ==
  /\ Goto(p, "on")
  /\ todo' = [todo EXCEPT ![p] = @ \ {c}] /\ at' = [at EXCEPT ![p] = Gone]
  /\ route' = [route EXCEPT ![p] = @ \cup Routed(p, c, g)]
  /\ excused' = excused \cup Twice(p, Routed(p, c, g))

\* InviteCache.get, up to the deletion of a stale row.
Get(p) ==
  /\ pc[p] = "on"
  /\ \E c \in todo[p] :
       IF row[c].guild # Gone /\ ~ Stale(row[c])
       THEN Take(p, c, row[c].guild)
       ELSE /\ Goto(p, IF row[c].guild = Gone THEN "ask" ELSE "evict")
            /\ at' = [at EXCEPT ![p] = c] /\ UNCHANGED <<todo, route, excused>>
  /\ UNCHANGED <<feed, discord, row, yaml, known, writer, edits, troubles>>

\* By now the row may be another one.
Evict(p) ==
  /\ pc[p] = "evict"
  /\ row' = [row EXCEPT ![at[p]] = [guild |-> Gone, age |-> 0]]
  /\ Goto(p, "ask")
  /\ UNCHANGED <<feed, discord, yaml, todo, at, known, route, writer, excused, edits, troubles>>

\* The request: an answer is cached, with a guild or without; an invite that is
\* gone, refused or aborted is not.
Ask(p) ==
  /\ pc[p] = "ask"
  /\ \/ /\ remote[at[p]] # Gone
        /\ row' = [row EXCEPT ![at[p]] = [guild |-> remote[at[p]], age |-> 0]]
        /\ Take(p, at[p], remote[at[p]]) /\ UNCHANGED troubles
     \/ /\ (remote[at[p]] = Gone /\ UNCHANGED troubles) \/ Trouble
        /\ Take(p, at[p], Gone) /\ UNCHANGED row
  /\ UNCHANGED <<feed, discord, yaml, known, writer, edits>>

\* A 401, an HTTP error or a captcha is the end of either command; a discover has
\* applied nothing by then.
AskFails(p) ==
  /\ pc[p] = "ask"
  /\ Trouble /\ End(p)
  /\ UNCHANGED <<feed, discord, row, yaml, excused, edits>>

-----------------------------------------------------------------------------
\* apply_discover_report_to_scopes and add_guilds_to_scope.

\* The processes that have scope s in hand, and what a step of one does to others.
InHand(s) == {q \in Procs : pc[q] \in Applying /\ at[q] = s}
Disturb(p, s) == lone' = [q \in Procs |-> lone[q] /\ (q = p \/ q \notin InHand(s))]

Rest(p, s) == [route EXCEPT ![p] = {e \in @ : e.scope # s}]

\* The next scope is read; it is left alone where its file is gone or has them all,
\* and a file that holds no mapping ends the command, with the scopes that are left.
Read(p) ==
  /\ pc[p] = "on" /\ todo[p] = {}
  /\ \E s \in {e.scope : e \in route[p]} :
       LET new == {e.guild : e \in {r \in route[p] : r.scope = s}}
       IN  \/ /\ file[s] = Missing \/ (file[s].text \in Written /\ new \subseteq file[s].guilds)
              /\ route' = Rest(p, s)
              /\ UNCHANGED <<pc, todo, at, known, writer>>
           \/ file[s] = Empty /\ End(p)
           \/ /\ file[s].text \in Written /\ ~ new \subseteq file[s].guilds
              /\ draft' = [draft EXCEPT ![p] = [file[s] EXCEPT !.guilds = @ \cup new]]
              /\ at' = [at EXCEPT ![p] = s] /\ Goto(p, "open")
              /\ lone' = [lone EXCEPT ![p] = InHand(s) = {}]
              /\ UNCHANGED <<todo, known, route, fd>>
  /\ UNCHANGED <<feed, discord, row, yaml, excused, edits, troubles>>

Done(p) ==
  /\ pc[p] = "on" /\ todo[p] = {} /\ route[p] = {}
  /\ End(p)
  /\ UNCHANGED <<feed, discord, row, yaml, excused, edits, troubles>>

\* write_text opens the temporary file, one for all processes, and empties it.
Open(p) ==
  /\ pc[p] = "open"
  /\ Goto(p, "write")
  /\ tmp' = [tmp EXCEPT ![at[p]] = Empty]
  /\ fd' = [fd EXCEPT ![p] = "tmp"]
  /\ Disturb(p, at[p])
  /\ UNCHANGED <<feed, discord, row, file, todo, at, known, route, draft, excused, edits, troubles>>

\* Text written over another's text is one of them or neither.
Over(old, new) == IF old \in {Empty, new} THEN {new} ELSE {new, Empty}

Write(p) ==
  /\ pc[p] = "write"
  /\ Goto(p, "replace")
  /\ \/ /\ fd[p] = "tmp"
        /\ \E v \in Over(tmp[at[p]], draft[p]) : tmp' = [tmp EXCEPT ![at[p]] = v]
        /\ UNCHANGED file
     \/ /\ fd[p] = "file"
        /\ \E v \in Over(file[at[p]], draft[p]) : file' = [file EXCEPT ![at[p]] = v]
        /\ UNCHANGED tmp
     \/ fd[p] = "nowhere" /\ UNCHANGED yaml
  /\ Disturb(p, at[p])
  /\ UNCHANGED <<feed, discord, row, todo, at, known, route, draft, fd, excused, edits, troubles>>

\* Who has the new file open now writes in the scope file, and who had the old one
\* open in a file without a name.
Replace(p) ==
  /\ pc[p] = "replace" /\ tmp[at[p]] # Missing
  /\ file' = [file EXCEPT ![at[p]] = tmp[at[p]]]
  /\ tmp' = [tmp EXCEPT ![at[p]] = Missing]
  /\ Goto(p, "on")
  /\ route' = Rest(p, at[p]) /\ at' = [at EXCEPT ![p] = Gone]
  /\ draft' = [draft EXCEPT ![p] = Missing]
  /\ fd' = [q \in Procs |-> IF q \notin InHand(at[p]) THEN fd[q]
                            ELSE IF q # p /\ fd[q] = "tmp" THEN "file" ELSE "nowhere"]
  /\ lone' = [q \in Procs |-> lone[q] /\ q \notin InHand(at[p])]
  /\ UNCHANGED <<feed, discord, row, todo, known, excused, edits, troubles>>

\* Another process has moved the temporary file away: FileNotFoundError.
ReplaceFails(p) ==
  /\ pc[p] = "replace" /\ tmp[at[p]] = Missing
  /\ End(p)
  /\ UNCHANGED <<feed, discord, row, yaml, excused, edits, troubles>>

-----------------------------------------------------------------------------
\* The world around.

Crash(p) ==
  /\ pc[p] # "off"
  /\ Trouble /\ End(p)
  /\ UNCHANGED <<feed, discord, row, yaml, excused, edits>>

\* An invite comes to lead elsewhere.
Change(c) ==
  /\ Trouble
  /\ \E v \in Turns \ {remote[c]} :
       /\ remote' = [remote EXCEPT ![c] = v]
       /\ since' = [since EXCEPT ![c] = [g \in Guilds |-> IF g = v THEN 0 ELSE @[g]]]
  /\ UNCHANGED <<feed, row, yaml, run, writer, excused, edits>>

Older(n) == IF n > TTL THEN n ELSE n + 1

Tick ==
  /\ row' = [c \in Codes |-> IF row[c].guild = Gone THEN row[c]
                             ELSE [row[c] EXCEPT !.age = Older(@)]]
  /\ since' = [c \in Codes |-> [g \in Guilds |-> IF remote[c] = g THEN 0 ELSE Older(since[c][g])]]
  /\ UNCHANGED <<feed, remote, yaml, run, writer, excused, edits, troubles>>

\* The operator saves another version of a scope file, under whose rename those who
\* had the old one open lose it, or deletes it.
Edit(s) ==
  /\ Trouble /\ edits' = edits + 1
  /\ \E v \in Versions \ {file[s]} : file' = [file EXCEPT ![s] = v]
  /\ lone' = [q \in Procs |-> lone[q] /\ q \notin InHand(s)]
  /\ fd' = [q \in Procs |-> IF q \in InHand(s) /\ fd[q] = "file" THEN "nowhere" ELSE fd[q]]
  /\ excused' = Guilds
  /\ UNCHANGED <<feed, discord, row, tmp, run, draft>>

\* The operator puts an empty profile in the place of a file that cannot be read.
Restore(s) ==
  /\ file[s] = Empty
  /\ file' = [file EXCEPT ![s] = [text |-> "good", guilds |-> {}]]
  /\ lone' = [q \in Procs |-> lone[q] /\ q \notin InHand(s)]
  /\ fd' = [q \in Procs |-> IF q \in InHand(s) /\ fd[q] = "file" THEN "nowhere" ELSE fd[q]]
  /\ UNCHANGED <<feed, discord, row, tmp, run, draft, excused, edits, troubles>>

Step(p) ==
  \/ Start(p) \/ Get(p) \/ Evict(p) \/ Ask(p) \/ AskFails(p)
  \/ Read(p) \/ Done(p) \/ Open(p) \/ Write(p) \/ Replace(p) \/ ReplaceFails(p)

Next ==
  \/ \E p \in Procs : Step(p) \/ StartResolve(p) \/ Crash(p)
  \/ \E c \in Codes : Change(c)
  \/ \E s \in Scopes : Edit(s) \/ Restore(s)
  \/ Tick

\* Commands are run again and again, unreadable files are noticed, and time passes.
Fairness ==
  /\ \A p \in Procs : WF_vars(Step(p))
  /\ \A s \in Scopes : WF_vars(Restore(s))
  /\ WF_vars(Tick)

Spec == Init /\ [][Next]_vars /\ Fairness

-----------------------------------------------------------------------------
\* Properties.

\* The type invariant.
TypeOK ==
  /\ feed \in {w.feed : w \in Worlds}
  /\ remote \in [Codes -> Guilds \cup {Nothing, Gone}]
  /\ since \in [Codes -> [Guilds -> 0..(TTL + 1)]]
  /\ row \in [Codes -> [guild : Guilds \cup {Nothing, Gone}, age : 0..(TTL + 1)]]
  /\ file \in [Scopes -> Contents] /\ tmp \in [Scopes -> Contents]
  /\ pc \in [Procs -> {"off", "on", "evict", "ask"} \cup Applying]
  /\ todo \in [Procs -> SUBSET Codes]
  /\ at \in [Procs -> Codes \cup Scopes \cup {Gone}]
  /\ known \in [Procs -> [Scopes -> Contents]]
  /\ route \in [Procs -> SUBSET [scope : Scopes, guild : Guilds, code : Codes]]
  /\ draft \in [Procs -> Contents] /\ fd \in [Procs -> {"tmp", "file", "nowhere"}]
  /\ lone \in [Procs -> BOOLEAN]
  /\ excused \subseteq Guilds /\ edits \in 0..troubles /\ troubles \in 0..MaxTroubles

\* Two scopes claim one guild only if discover runs overlapped, an operator edited the
\* files, or one run had two invites of the guild with different intents; commands
\* that die, stale answers and invites that change never bring it about.
OneScopeAlone ==
  \A s, t \in Scopes : s # t => file[s].guilds \cap file[t].guilds \subseteq excused

\* Whatever two commands do to the cache at once, a guild is routed on an answer
\* that was true no longer ago than a row may live.
AnswersAreRecent ==
  [][\A p \in Procs : \A e \in route'[p] \ route[p] : since[e.code][e.guild] <= TTL]_vars

\* What the files say, and the scopes that two writers have in hand.
Held == [s \in Scopes |-> IF file[s] = Empty THEN Unreadable ELSE file[s].guilds]
Contended == {s \in Scopes : \E p \in InHand(s) : ~ lone[p]}

\* The scope files keep what module ScopeStore promises, killed writers included.
Store == INSTANCE ScopeStore WITH
  Scopes <- Scopes, Guilds <- Guilds, Unreadable <- Unreadable,
  held <- Held, edits <- edits, contended <- Contended
ScopesKept == Store!Spec

\* At most one discover runs.
Alone == \A p, q \in Procs : known[p] # NoFiles /\ known[q] # NoFiles => p = q

\* An invite that settles on a guild and fits one scope is acted on in the end, once
\* runs of discover no longer overlap: after deaths, failed requests, an answer without
\* a guild that is still in the cache, and torn files.
RoutedInTheEnd ==
  \A c \in Codes, g \in Guilds, s \in Scopes :
    <>[](/\ c \in Selected /\ remote[c] = g
         /\ {t \in Scopes : IntentOf(c) \in Allow[t]} = {s}
         /\ file[s].text \in {"good", "torn"} /\ Alone)
      => []<>(\E t \in Scopes : g \in file[t].guilds)

================================================================================
