----------------------------- MODULE Discover_proofs -----------------------------
(***************************************************************************)
(* What module Discover promises for every number of processes, invites,   *)
(* guilds and scopes, every feed and filter, and every number of deaths,   *)
(* failed requests and edits.                                              *)
(***************************************************************************)
EXTENDS Discover, TLAPS

--------------------------------------------------------------------------------
(* Types.                                                                  *)

\* The end of a process keeps the types.
LEMMA EndTyped ==
  ASSUME TypeOK, NEW p \in Procs, End(p)
  PROVE  /\ pc' \in [Procs -> {"off", "on", "evict", "ask"} \cup Applying]
         /\ todo' \in [Procs -> SUBSET Codes]
         /\ at' \in [Procs -> Codes \cup Scopes \cup {Gone}]
         /\ known' \in [Procs -> [Scopes -> Contents]]
         /\ route' \in [Procs -> SUBSET [scope : Scopes, guild : Guilds, code : Codes]]
         /\ draft' \in [Procs -> Contents] /\ fd' \in [Procs -> {"tmp", "file", "nowhere"}]
         /\ lone' \in [Procs -> BOOLEAN]
  BY DEF TypeOK, End, Goto, NoFiles, Contents

\* The answer to an invite keeps the types.
LEMMA TakeTyped ==
  ASSUME TypeOK, NEW p \in Procs, NEW c \in Codes, NEW g, Take(p, c, g)
  PROVE  /\ pc' \in [Procs -> {"off", "on", "evict", "ask"} \cup Applying]
         /\ todo' \in [Procs -> SUBSET Codes]
         /\ at' \in [Procs -> Codes \cup Scopes \cup {Gone}]
         /\ route' \in [Procs -> SUBSET [scope : Scopes, guild : Guilds, code : Codes]]
         /\ excused' \subseteq Guilds
<1>1. Routed(p, c, g) \subseteq [scope : Scopes, guild : Guilds, code : Codes]
  BY DEF Routed, Matching, Profiles
<1>2. Twice(p, Routed(p, c, g)) \subseteq Guilds
  BY DEF Twice
<1>q. QED
  BY <1>1, <1>2 DEF TypeOK, Take, Goto

\* What comes of one text over another is a text.
LEMMA OverTyped == \A old, new \in Contents : Over(old, new) \subseteq Contents
  BY DEF Over, Contents

\* A row that grows older, and what its age bounds, have their types.
LEMMA OlderTyped == \A n \in 0 .. (TTL + 1) : Older(n) \in 0 .. (TTL + 1)
  BY DiscoverAssumption DEF Older

\* What is in hand is an invite while it is resolved, a scope while it is written.
AtTyped ==
  \A p \in Procs : /\ pc[p] \in {"evict", "ask"} => at[p] \in Codes
                   /\ pc[p] \in Applying => at[p] \in Scopes /\ draft[p].text \in Written

Typed == TypeOK /\ AtTyped

\* Every step keeps the types.
LEMMA NextTyped == Typed /\ [Next]_vars => Typed'
<1> SUFFICES ASSUME Typed, [Next]_vars PROVE Typed'
  OBVIOUS
<1> USE DiscoverAssumption DEF Typed, TypeOK, AtTyped
<1>s. Selected \subseteq Codes
  <2>1. ASSUME NEW w \in Worlds, NEW i \in DOMAIN w.feed PROVE w.feed[i].code \in Codes
    <3> DEFINE R == [code : Codes, intent : Intents \cup {NoIntent},
                     confidence : {"high", "low", "none"}]
    <3>1. w.feed \in Seq(R)
      OBVIOUS
    <3>2. w.feed[i] \in R
      <4> HIDE DEF R
      <4>q. QED
        BY <3>1
    <3>q. QED
      BY <3>2
  <2>q. QED
    BY <2>1 DEF Selected
<1>t. ASSUME Trouble PROVE troubles' \in 0 .. MaxTroubles /\ edits \in 0 .. troubles'
  BY <1>t DEF Trouble
<1>m. Missing \in Contents /\ Empty \in Contents /\ [text |-> "good", guilds |-> {}] \in Contents
  BY DEF Contents, Written, Missing, Empty
<1>1. CASE UNCHANGED vars
  BY <1>1 DEF vars, discord, yaml, run, writer
<1>2. ASSUME NEW p \in Procs, Step(p) \/ StartResolve(p) \/ Crash(p) PROVE Typed'
  <2>e. ASSUME End(p), UNCHANGED <<feed, discord, row, yaml, excused, edits>>,
               UNCHANGED troubles \/ Trouble
        PROVE  Typed'
    <3>1. \A q \in Procs : pc'[q] \in {"evict", "ask"} \cup Applying =>
             q # p /\ pc'[q] = pc[q] /\ at'[q] = at[q] /\ draft'[q] = draft[q]
      BY <2>e DEF End, Goto, Applying
    <3>2. troubles' \in 0 .. MaxTroubles /\ edits \in 0 .. troubles'
      BY <2>e, <1>t
    <3>q. QED
      BY <2>e, <3>1, <3>2, EndTyped DEF discord, yaml
  <2>1. CASE Start(p)
    <3>1. excused' \subseteq Guilds
      BY <2>1 DEF Start
    <3>q. QED
      BY <2>1, <3>1, <1>s DEF Start, Goto, discord, yaml, writer, Applying
  <2>2. CASE StartResolve(p)
    BY <2>2, <1>s DEF StartResolve, Goto, discord, yaml, writer, Applying
  <2>3. CASE Get(p)
    <3>1. PICK c \in todo[p] :
             IF row[c].guild # Gone /\ ~ Stale(row[c])
             THEN Take(p, c, row[c].guild)
             ELSE /\ Goto(p, IF row[c].guild = Gone THEN "ask" ELSE "evict")
                  /\ at' = [at EXCEPT ![p] = c] /\ UNCHANGED <<todo, route, excused>>
      BY <2>3 DEF Get
    <3>2. CASE row[c].guild # Gone /\ ~ Stale(row[c])
      <4>1. Take(p, c, row[c].guild)
        BY <3>1, <3>2
      <4>2. \A q \in Procs : pc'[q] \in {"evict", "ask"} \cup Applying => q # p /\ pc'[q] = pc[q] /\ at'[q] = at[q]
        BY <4>1 DEF Take, Goto, Applying
      <4>q. QED
        BY <2>3, <4>1, <4>2, TakeTyped DEF Get, discord, yaml, writer
    <3>3. CASE ~(row[c].guild # Gone /\ ~ Stale(row[c]))
      <4>1. PICK there \in {"ask", "evict"} : Goto(p, there)
        BY <3>1, <3>3
      <4>2. at' = [at EXCEPT ![p] = c] /\ UNCHANGED <<todo, route, excused>>
        BY <3>1, <3>3
      <4>q. QED
        BY <2>3, <4>1, <4>2 DEF Get, Goto, discord, yaml, writer, Applying
    <3>q. QED
      BY <3>2, <3>3
  <2>4. CASE Evict(p)
    BY <2>4 DEF Evict, Goto, discord, yaml, writer, Applying
  <2>5. CASE Ask(p)
    <3>1. at[p] \in Codes
      BY <2>5 DEF Ask
    <3>2. PICK g : Take(p, at[p], g)
      BY <2>5 DEF Ask
    <3>3. row' \in [Codes -> [guild : Guilds \cup {Nothing, Gone}, age : 0..(TTL + 1)]]
      BY <2>5, <3>1 DEF Ask
    <3>4. troubles' \in 0 .. MaxTroubles /\ edits \in 0 .. troubles'
      BY <2>5, <1>t DEF Ask
    <3>5. \A q \in Procs : pc'[q] \in {"evict", "ask"} \cup Applying => q # p /\ pc'[q] = pc[q] /\ at'[q] = at[q]
      BY <3>2 DEF Take, Goto, Applying
    <3>q. QED
      BY <2>5, <3>1, <3>2, <3>3, <3>4, <3>5, TakeTyped DEF Ask, discord, yaml, writer
  <2>6. CASE AskFails(p)
    BY <2>6, <2>e DEF AskFails
  <2>7. CASE Read(p)
    <3>1. PICK s \in {e.scope : e \in route[p]} :
             LET new == {e.guild : e \in {r \in route[p] : r.scope = s}}
             IN  \/ /\ file[s] = Missing \/ (file[s].text \in Written /\ new \subseteq file[s].guilds)
                    /\ route' = Rest(p, s)
                    /\ UNCHANGED <<pc, todo, at, known, writer>>
                 \/ file[s] = Empty /\ End(p)
                 \/ /\ file[s].text \in Written /\ ~ new \subseteq file[s].guilds
                    /\ draft' = [draft EXCEPT ![p] = [file[s] EXCEPT !.guilds = @ \cup new]]
                    /\ at' = [at EXCEPT ![p] = s] /\ Goto(p, "open")
                    /\ lone' = [lone EXCEPT ![p] = InHand(s) = {}]
                    /\ UNCHANGED <<todo, known, route, fd>>
      BY <2>7 DEF Read
    <3> DEFINE new == {e.guild : e \in {r \in route[p] : r.scope = s}}
    <3>2. s \in Scopes /\ new \subseteq Guilds
      OBVIOUS
    <3>3. UNCHANGED <<feed, discord, row, yaml, excused, edits, troubles>>
      BY <2>7 DEF Read
    <3>4. CASE route' = Rest(p, s) /\ UNCHANGED <<pc, todo, at, known, writer>>
      BY <3>3, <3>4 DEF Rest, discord, yaml, writer
    <3>5. CASE End(p)
      BY <3>3, <3>5, <2>e
    <3>6. CASE /\ file[s].text \in Written
               /\ draft' = [draft EXCEPT ![p] = [file[s] EXCEPT !.guilds = @ \cup new]]
               /\ at' = [at EXCEPT ![p] = s] /\ Goto(p, "open")
               /\ lone' = [lone EXCEPT ![p] = InHand(s) = {}]
               /\ UNCHANGED <<todo, known, route, fd>>
      <4>1. /\ [file[s] EXCEPT !.guilds = @ \cup new] \in Contents
            /\ [file[s] EXCEPT !.guilds = @ \cup new].text \in Written
        BY <3>2, <3>6 DEF Contents, Written, Missing, Empty
      <4>2. draft' \in [Procs -> Contents] /\ draft'[p].text \in Written
        BY <3>6, <4>1
      <4>3. \A q \in Procs : q # p => pc'[q] = pc[q] /\ at'[q] = at[q] /\ draft'[q] = draft[q]
        BY <3>6 DEF Goto
      <4>4. pc'[p] = "open" /\ at'[p] = s
        BY <3>6 DEF Goto
      <4>5. AtTyped'
        BY <3>2, <4>2, <4>3, <4>4 DEF Applying
      <4>q. QED
        BY <3>2, <3>3, <3>6, <4>2, <4>5 DEF Goto, discord, yaml, Applying
    <3>q. QED
      BY <3>1, <3>4, <3>5, <3>6
  <2>8. CASE Done(p)
    BY <2>8, <2>e DEF Done
  <2>9. CASE Open(p)
    <3>1. tmp' \in [Scopes -> Contents]
      BY <2>9, <1>m DEF Open
    <3>q. QED
      BY <2>9, <3>1 DEF Open, Goto, Disturb, discord, Applying
  <2>10. CASE Write(p)
    <3>1. at[p] \in Scopes
      BY <2>10 DEF Write, Applying
    <3>2. file' \in [Scopes -> Contents] /\ tmp' \in [Scopes -> Contents]
      <4>1. CASE \E v \in Over(tmp[at[p]], draft[p]) : tmp' = [tmp EXCEPT ![at[p]] = v] /\ UNCHANGED file
        BY <4>1, <3>1, OverTyped
      <4>2. CASE \E v \in Over(file[at[p]], draft[p]) : file' = [file EXCEPT ![at[p]] = v] /\ UNCHANGED tmp
        BY <4>2, <3>1, OverTyped
      <4>3. CASE UNCHANGED yaml
        BY <4>3 DEF yaml
      <4>q. QED
        BY <2>10, <4>1, <4>2, <4>3 DEF Write
    <3>q. QED
      BY <2>10, <3>2 DEF Write, Goto, Disturb, discord, Applying
  <2>11. CASE Replace(p)
    <3>1. at[p] \in Scopes
      BY <2>11 DEF Replace, Applying
    <3>2. file' \in [Scopes -> Contents] /\ tmp' \in [Scopes -> Contents]
      BY <2>11, <3>1, <1>m DEF Replace
    <3>3. fd' \in [Procs -> {"tmp", "file", "nowhere"}] /\ lone' \in [Procs -> BOOLEAN]
      BY <2>11 DEF Replace
    <3>4. route' \in [Procs -> SUBSET [scope : Scopes, guild : Guilds, code : Codes]]
      BY <2>11 DEF Replace, Rest
    <3>5. draft' \in [Procs -> Contents]
      BY <2>11, <1>m DEF Replace
    <3>q. QED
      BY <2>11, <3>2, <3>3, <3>4, <3>5 DEF Replace, Goto, discord, Applying
  <2>12. CASE ReplaceFails(p)
    BY <2>12, <2>e DEF ReplaceFails
  <2>13. CASE Crash(p)
    BY <2>13, <2>e DEF Crash
  <2>q. QED
    BY <1>2, <2>1, <2>2, <2>3, <2>4, <2>5, <2>6, <2>7, <2>8, <2>9, <2>10, <2>11, <2>12, <2>13 DEF Step
<1>3. ASSUME NEW c \in Codes, Change(c) PROVE Typed'
  <2>1. PICK v \in Turns \ {remote[c]} :
       /\ remote' = [remote EXCEPT ![c] = v]
       /\ since' = [since EXCEPT ![c] = [g \in Guilds |-> IF g = v THEN 0 ELSE @[g]]]
    BY <1>3 DEF Change
  <2>2. since' \in [Codes -> [Guilds -> 0..(TTL + 1)]]
    BY <2>1
  <2>3. remote' \in [Codes -> Guilds \cup {Nothing, Gone}]
    BY <2>1
  <2>q. QED
    <3>1. troubles' \in 0 .. MaxTroubles /\ edits' \in 0 .. troubles'
      BY <1>3, <1>t DEF Change
    <3>2. UNCHANGED <<feed, row, yaml, run, writer, excused>>
      BY <1>3 DEF Change
    <3>q. QED
      BY <2>2, <2>3, <3>1, <3>2 DEF yaml, run, writer
<1>4. ASSUME NEW s \in Scopes, Edit(s) \/ Restore(s) PROVE Typed'
  <2>1. PICK v \in Contents : file' = [file EXCEPT ![s] = v]
    <3>1. CASE Edit(s)
      BY <3>1 DEF Edit
    <3>2. CASE Restore(s)
      BY <3>2, <1>m DEF Restore
    <3>q. QED
      BY <1>4, <3>1, <3>2
  <2>2. fd' \in [Procs -> {"tmp", "file", "nowhere"}] /\ lone' \in [Procs -> BOOLEAN]
    BY <1>4 DEF Edit, Restore
  <2>4. excused' \subseteq Guilds
    BY <1>4 DEF Edit, Restore
  <2>3. /\ UNCHANGED <<feed, discord, row, tmp, run, draft>>
        /\ troubles' \in 0 .. MaxTroubles /\ edits' \in 0 .. troubles'
    <3>1. CASE Edit(s)
      BY <3>1 DEF Edit, Trouble
    <3>2. CASE Restore(s)
      BY <3>2 DEF Restore
    <3>q. QED
      BY <1>4, <3>1, <3>2
  <2>q. QED
    BY <2>1, <2>2, <2>3, <2>4 DEF discord, run
<1>5. CASE Tick
  <2>1. since' \in [Codes -> [Guilds -> 0..(TTL + 1)]]
    BY <1>5, OlderTyped DEF Tick
  <2>2. row' \in [Codes -> [guild : Guilds \cup {Nothing, Gone}, age : 0..(TTL + 1)]]
    BY <1>5, OlderTyped DEF Tick
  <2>q. QED
    BY <1>5, <2>1, <2>2 DEF Tick, yaml, run, writer
<1>q. QED
  BY <1>1, <1>2, <1>3, <1>4, <1>5 DEF Next

\* The first state has the types.
LEMMA InitTyped == Init => Typed
<1> SUFFICES ASSUME Init PROVE Typed
  OBVIOUS
<1> USE DiscoverAssumption DEF Init
<1>1. PICK w \in Worlds : feed = w.feed /\ remote = w.leads
  OBVIOUS
<1>2. feed \in {x.feed : x \in Worlds} /\ remote \in [Codes -> Guilds \cup {Nothing, Gone}]
  BY <1>1
<1>3. since \in [Codes -> [Guilds -> 0..(TTL + 1)]]
  OBVIOUS
<1>q. QED
  BY <1>2, <1>3 DEF Typed, TypeOK, AtTyped, Applying, NoFiles, Contents, Written, Missing

\* Every variable has its type.
THEOREM TypeCorrect == Spec => []TypeOK
<1>1. Typed => TypeOK
  BY DEF Typed
<1>q. QED
  BY InitTyped, NextTyped, <1>1, PTL DEF Spec

--------------------------------------------------------------------------------
(* The scope files keep the promise of module ScopeStore.                  *)

\* A writer that nobody disturbed has a file before it that it only adds to, and what
\* it writes goes where it believes.
LoneWriter ==
  \A p \in Procs : lone[p] =>
    /\ pc[p] \in Applying
    /\ file[at[p]].text \in Written /\ file[at[p]].guilds \subseteq draft[p].guilds
    /\ pc[p] = "write" => fd[p] = "tmp" /\ tmp[at[p]] = Empty
    /\ pc[p] = "replace" => tmp[at[p]] = draft[p]

\* A step that neither touches the files nor a writer keeps it.
LEMMA LoneFrame ==
  ASSUME LoneWriter, UNCHANGED yaml,
         \A q \in Procs : lone'[q] => lone[q] /\ pc'[q] = pc[q] /\ at'[q] = at[q]
                                     /\ draft'[q] = draft[q] /\ fd'[q] = fd[q]
  PROVE  LoneWriter'
  BY DEF LoneWriter, yaml

\* Every step keeps it.
LEMMA LoneStep == Typed /\ LoneWriter /\ [Next]_vars => LoneWriter'
<1> SUFFICES ASSUME Typed, LoneWriter, [Next]_vars PROVE LoneWriter'
  OBVIOUS
<1> USE DEF Typed, TypeOK
<1>1. CASE UNCHANGED vars
  BY <1>1, LoneFrame DEF vars, run, writer
<1>2. ASSUME NEW p \in Procs, Step(p) \/ StartResolve(p) \/ Crash(p) PROVE LoneWriter'
  <2>e. ASSUME End(p), UNCHANGED yaml PROVE LoneWriter'
    <3>1. \A q \in Procs : lone'[q] => lone[q] /\ pc'[q] = pc[q] /\ at'[q] = at[q]
                                     /\ draft'[q] = draft[q] /\ fd'[q] = fd[q]
      BY <2>e DEF End, Goto
    <3>q. QED
      BY <2>e, <3>1, LoneFrame
  <2>n. ASSUME pc[p] \notin Applying, UNCHANGED <<yaml, writer>>,
               \A q \in Procs \ {p} : pc'[q] = pc[q] /\ at'[q] = at[q]
        PROVE  LoneWriter'
    <3>1. ~ lone[p]
      BY <2>n DEF LoneWriter
    <3>2. \A q \in Procs : lone'[q] => lone[q] /\ pc'[q] = pc[q] /\ at'[q] = at[q]
                                     /\ draft'[q] = draft[q] /\ fd'[q] = fd[q]
      BY <2>n, <3>1 DEF writer
    <3>q. QED
      BY <2>n, <3>2, LoneFrame
  <2>1. CASE Start(p)
    BY <2>1, <2>n DEF Start, Goto, Applying
  <2>2. CASE StartResolve(p)
    BY <2>2, <2>n DEF StartResolve, Goto, Applying
  <2>3. CASE Get(p)
    <3>1. PICK c \in todo[p] :
             IF row[c].guild # Gone /\ ~ Stale(row[c])
             THEN Take(p, c, row[c].guild)
             ELSE /\ Goto(p, IF row[c].guild = Gone THEN "ask" ELSE "evict")
                  /\ at' = [at EXCEPT ![p] = c] /\ UNCHANGED <<todo, route, excused>>
      BY <2>3 DEF Get
    <3>2. \A q \in Procs \ {p} : pc'[q] = pc[q] /\ at'[q] = at[q]
      BY <3>1 DEF Take, Goto
    <3>q. QED
      BY <2>3, <3>2, <2>n DEF Get, Applying
  <2>4. CASE Evict(p)
    BY <2>4, <2>n DEF Evict, Goto, Applying
  <2>5. CASE Ask(p)
    <3>1. PICK g : Take(p, at[p], g)
      BY <2>5 DEF Ask
    <3>2. \A q \in Procs \ {p} : pc'[q] = pc[q] /\ at'[q] = at[q]
      BY <3>1 DEF Take, Goto
    <3>q. QED
      BY <2>5, <3>2, <2>n DEF Ask, Applying
  <2>6. CASE AskFails(p)
    BY <2>6, <2>e DEF AskFails
  <2>7. CASE Read(p)
    <3>0. pc[p] \notin Applying /\ UNCHANGED yaml
      BY <2>7 DEF Read, Applying
    <3>1. PICK s \in {e.scope : e \in route[p]} :
             LET new == {e.guild : e \in {r \in route[p] : r.scope = s}}
             IN  \/ /\ file[s] = Missing \/ (file[s].text \in Written /\ new \subseteq file[s].guilds)
                    /\ route' = Rest(p, s)
                    /\ UNCHANGED <<pc, todo, at, known, writer>>
                 \/ file[s] = Empty /\ End(p)
                 \/ /\ file[s].text \in Written /\ ~ new \subseteq file[s].guilds
                    /\ draft' = [draft EXCEPT ![p] = [file[s] EXCEPT !.guilds = @ \cup new]]
                    /\ at' = [at EXCEPT ![p] = s] /\ Goto(p, "open")
                    /\ lone' = [lone EXCEPT ![p] = InHand(s) = {}]
                    /\ UNCHANGED <<todo, known, route, fd>>
      BY <2>7 DEF Read
    <3> DEFINE new == {e.guild : e \in {r \in route[p] : r.scope = s}}
    <3>4. CASE UNCHANGED <<pc, todo, at, known, writer>>
      BY <3>0, <3>4, <2>n
    <3>5. CASE End(p)
      BY <3>0, <3>5, <2>e
    <3>6. CASE /\ file[s].text \in Written
               /\ draft' = [draft EXCEPT ![p] = [file[s] EXCEPT !.guilds = @ \cup new]]
               /\ at' = [at EXCEPT ![p] = s] /\ Goto(p, "open")
               /\ lone' = [lone EXCEPT ![p] = InHand(s) = {}]
               /\ UNCHANGED <<todo, known, route, fd>>
      <4>1. s \in Scopes
        OBVIOUS
      <4>2. file[s].guilds \subseteq draft'[p].guilds
        BY <3>6, <4>1 DEF Contents, Missing, Empty
      <4>3. pc'[p] = "open" /\ at'[p] = s
        BY <3>6 DEF Goto
      <4>4. \A q \in Procs \ {p} : lone'[q] = lone[q] /\ pc'[q] = pc[q] /\ at'[q] = at[q]
                                     /\ draft'[q] = draft[q] /\ fd'[q] = fd[q]
        BY <3>6 DEF Goto
      <4>q. QED
        BY <3>0, <3>6, <4>2, <4>3, <4>4 DEF LoneWriter, yaml, Applying
    <3>q. QED
      BY <3>1, <3>4, <3>5, <3>6
  <2>8. CASE Done(p)
    BY <2>8, <2>e DEF Done
  <2>9. CASE Open(p)
    <3>1. at[p] \in Scopes
      BY <2>9 DEF Open, AtTyped, Applying
    <3>2. \A q \in Procs \ {p} : lone'[q] => lone[q] /\ at[q] # at[p]
      BY <2>9 DEF Open, Disturb, InHand, LoneWriter
    <3>3. \A q \in Procs \ {p} : lone'[q] => tmp'[at[q]] = tmp[at[q]]
      BY <2>9, <3>2 DEF Open
    <3>4. \A q \in Procs \ {p} : pc'[q] = pc[q] /\ fd'[q] = fd[q]
      BY <2>9 DEF Open, Goto
    <3>5. pc'[p] = "write" /\ fd'[p] = "tmp" /\ tmp'[at[p]] = Empty /\ (lone'[p] => lone[p])
      BY <2>9, <3>1 DEF Open, Goto, Disturb
    <3>6. UNCHANGED <<file, at, draft>>
      BY <2>9 DEF Open
    <3>q. QED
      BY <3>2, <3>3, <3>4, <3>5, <3>6 DEF LoneWriter, Applying
  <2>10. CASE Write(p)
    <3>1. at[p] \in Scopes
      BY <2>10 DEF Write, AtTyped, Applying
    <3>2. \A q \in Procs \ {p} : lone'[q] => lone[q] /\ at[q] # at[p]
      BY <2>10 DEF Write, Disturb, InHand, LoneWriter
    <3>3. \A s \in Scopes \ {at[p]} : tmp'[s] = tmp[s] /\ file'[s] = file[s]
      BY <2>10, <3>1 DEF Write, yaml
    <3>4. /\ \A q \in Procs \ {p} : pc'[q] = pc[q]
          /\ pc'[p] = "replace" /\ (lone'[p] => lone[p])
          /\ UNCHANGED <<at, draft, fd>>
      BY <2>10 DEF Write, Goto, Disturb
    <3>5. lone[p] => UNCHANGED file /\ tmp'[at[p]] = draft[p]
      <4> SUFFICES ASSUME lone[p] PROVE UNCHANGED file /\ tmp'[at[p]] = draft[p]
        OBVIOUS
      <4>1. fd[p] = "tmp" /\ tmp[at[p]] = Empty
        BY <2>10 DEF Write, LoneWriter
      <4>2. UNCHANGED file /\ \E v \in Over(tmp[at[p]], draft[p]) : tmp' = [tmp EXCEPT ![at[p]] = v]
        BY <2>10, <4>1 DEF Write
      <4>3. Over(tmp[at[p]], draft[p]) = {draft[p]}
        BY <4>1 DEF Over
      <4>q. QED
        BY <4>2, <4>3, <3>1
    <3>6. \A q \in Procs : lone[q] => at[q] \in Scopes
      BY DEF LoneWriter, AtTyped
    <3>q. QED
      BY <3>2, <3>3, <3>4, <3>5, <3>6 DEF LoneWriter, Applying
  <2>11. CASE Replace(p)
    <3>1. at[p] \in Scopes /\ p \in InHand(at[p])
      BY <2>11 DEF Replace, AtTyped, Applying, InHand
    <3>2. \A q \in Procs : lone'[q] => lone[q] /\ q # p /\ at[q] # at[p] /\ q \notin InHand(at[p])
      BY <2>11, <3>1 DEF Replace, InHand, LoneWriter
    <3>3. \A s \in Scopes \ {at[p]} : tmp'[s] = tmp[s] /\ file'[s] = file[s]
      BY <2>11, <3>1 DEF Replace
    <3>4. \A q \in Procs \ {p} : /\ pc'[q] = pc[q] /\ at'[q] = at[q] /\ draft'[q] = draft[q]
                                 /\ q \notin InHand(at[p]) => fd'[q] = fd[q]
      BY <2>11 DEF Replace, Goto
    <3>5. \A q \in Procs : lone[q] => at[q] \in Scopes
      BY DEF LoneWriter, AtTyped
    <3>q. QED
      BY <3>2, <3>3, <3>4, <3>5 DEF LoneWriter
  <2>12. CASE ReplaceFails(p)
    BY <2>12, <2>e DEF ReplaceFails
  <2>13. CASE Crash(p)
    BY <2>13, <2>e DEF Crash
  <2>q. QED
    BY <1>2, <2>1, <2>2, <2>3, <2>4, <2>5, <2>6, <2>7, <2>8, <2>9, <2>10, <2>11, <2>12, <2>13 DEF Step
<1>3. CASE (\E c \in Codes : Change(c)) \/ Tick
  BY <1>3, LoneFrame DEF Change, Tick, run, writer
<1>4. ASSUME NEW s \in Scopes, Edit(s) \/ Restore(s) PROVE LoneWriter'
  <2>1. \A q \in Procs : lone'[q] => lone[q] /\ q \notin InHand(s) /\ at[q] # s
    BY <1>4 DEF Edit, Restore, InHand, LoneWriter
  <2>2. \A t \in Scopes \ {s} : file'[t] = file[t]
    <3>1. PICK v : file' = [file EXCEPT ![s] = v]
      BY <1>4 DEF Edit, Restore
    <3>q. QED
      BY <3>1
  <2>3. \A q \in Procs : q \notin InHand(s) => fd'[q] = fd[q]
    BY <1>4 DEF Edit, Restore
  <2>4. UNCHANGED <<tmp, pc, at, draft>>
    BY <1>4 DEF Edit, Restore, run
  <2>5. \A q \in Procs : lone[q] => at[q] \in Scopes
    BY DEF LoneWriter, AtTyped
  <2>q. QED
    BY <2>1, <2>2, <2>3, <2>4, <2>5 DEF LoneWriter
<1>q. QED
  BY <1>1, <1>2, <1>3, <1>4 DEF Next

\* What a file says is a set of guilds, or that it is torn.
LEMMA HeldTyped ==
  ASSUME Typed, NEW s \in Scopes
  PROVE  /\ Held[s] \in (SUBSET Guilds) \cup {Unreadable}
         /\ file[s] # Empty => Held[s] = file[s].guilds /\ Held[s] # Unreadable
         /\ file[s] = Empty => Held[s] = Unreadable
<1>1. file[s] \in Contents
  BY DEF Typed, TypeOK
<1>2. file[s].guilds \in SUBSET Guilds
  BY <1>1 DEF Contents, Missing, Empty
<1>q. QED
  BY <1>2, DiscoverAssumption DEF Held

\* One file becomes another: what it says is all that changes.
LEMMA OneFile ==
  ASSUME Typed, NEW s \in Scopes, NEW v \in Contents, file' = [file EXCEPT ![s] = v]
  PROVE  Held' = [Held EXCEPT ![s] = IF v = Empty THEN Unreadable ELSE v.guilds]
<1>1. file \in [Scopes -> Contents]
  BY DEF Typed, TypeOK
<1>2. Held' = [t \in Scopes |-> IF file'[t] = Empty THEN Unreadable ELSE file'[t].guilds]
  BY DEF Held
<1>q. QED
  BY <1>1, <1>2 DEF Held

\* Every step is a step of the store, or none.
LEMMA StoreStep ==
  ASSUME Typed, LoneWriter, [Next]_vars
  PROVE  Store!Next
<1> USE DiscoverAssumption
<1>c. Contended' \in SUBSET Scopes
  BY DEF Contended
<1>n. ASSUME UNCHANGED <<file, edits>> PROVE Store!Next
  <2>1. Held' = Held
    BY <1>n DEF Held
  <2>q. QED
    BY <1>n, <1>c, <2>1 DEF Store!Next
<1>g. ASSUME NEW s \in Scopes, NEW v \in Contents, file' = [file EXCEPT ![s] = v],
             \/ s \in Contended /\ UNCHANGED edits
             \/ edits' = edits + 1 /\ v # Empty
             \/ file[s] = Empty /\ v # Empty /\ v.guilds = {} /\ UNCHANGED edits
             \/ file[s] # Empty /\ v # Empty /\ file[s].guilds \subseteq v.guilds /\ UNCHANGED edits
      PROVE  Store!Next
  <2> DEFINE w == IF v = Empty THEN Unreadable ELSE v.guilds
  <2>1. Held' = [Held EXCEPT ![s] = w]
    BY <1>g, OneFile
  <2>2. v.guilds \in SUBSET Guilds
    BY <1>g DEF Contents, Missing, Empty
  <2>3. CASE s \in Contended /\ UNCHANGED edits
    <3>1. Store!Clash(s)
      BY <2>1, <2>2, <2>3 DEF Store!Clash, Store!Becomes, Store!Values
    <3>q. QED
      BY <3>1, <1>c, <1>g DEF Store!Next
  <2>4. CASE edits' = edits + 1 /\ v # Empty
    <3>1. Store!Edit(s)
      BY <2>1, <2>2, <2>4 DEF Store!Edit, Store!Becomes
    <3>q. QED
      BY <3>1, <1>c, <1>g DEF Store!Next
  <2>5. CASE file[s] = Empty /\ v # Empty /\ v.guilds = {} /\ UNCHANGED edits
    <3>1. Store!Restore(s)
      BY <2>1, <2>5, <1>g, HeldTyped DEF Store!Restore, Store!Becomes
    <3>q. QED
      BY <3>1, <1>c, <1>g DEF Store!Next
  <2>6. CASE file[s] # Empty /\ v # Empty /\ file[s].guilds \subseteq v.guilds /\ UNCHANGED edits
    <3>1. Store!Grow(s)
      BY <2>1, <2>2, <2>6, <1>g, HeldTyped DEF Store!Grow, Store!Becomes
    <3>q. QED
      BY <3>1, <1>c, <1>g DEF Store!Next
  <2>q. QED
    BY <1>g, <2>3, <2>4, <2>5, <2>6
<1>1. CASE UNCHANGED vars
  BY <1>1, <1>n DEF vars, yaml
<1>2. ASSUME NEW p \in Procs, Step(p) \/ StartResolve(p) \/ Crash(p) PROVE Store!Next
  <2>1. CASE Write(p)
    <3>1. at[p] \in Scopes /\ p \in InHand(at[p]) /\ pc[p] = "write" /\ UNCHANGED edits
      BY <2>1 DEF Write, Typed, AtTyped, InHand, Applying
    <3>2. CASE UNCHANGED file
      BY <3>1, <3>2, <1>n
    <3>3. CASE file' # file
      <4>1. fd[p] = "file" /\ \E v \in Over(file[at[p]], draft[p]) : file' = [file EXCEPT ![at[p]] = v]
        BY <2>1, <3>3 DEF Write, yaml
      <4>2. at[p] \in Contended
        BY <3>1, <4>1 DEF LoneWriter, Contended
      <4>3. PICK v \in Contents : file' = [file EXCEPT ![at[p]] = v]
        BY <3>1, <4>1, OverTyped DEF Typed, TypeOK
      <4>q. QED
        BY <3>1, <4>2, <4>3, <1>g
    <3>q. QED
      BY <3>2, <3>3
  <2>2. CASE Replace(p)
    <3>1. at[p] \in Scopes /\ p \in InHand(at[p]) /\ pc[p] = "replace" /\ UNCHANGED edits
      BY <2>2 DEF Replace, Typed, AtTyped, InHand, Applying
    <3>2. file' = [file EXCEPT ![at[p]] = tmp[at[p]]] /\ tmp[at[p]] \in Contents
      BY <2>2, <3>1 DEF Replace, Typed, TypeOK
    <3>3. CASE lone[p]
      <4>1. /\ tmp[at[p]] = draft[p] /\ file[at[p]].guilds \subseteq draft[p].guilds
            /\ file[at[p]].text \in Written /\ draft[p].text \in Written
        BY <3>1, <3>3 DEF LoneWriter, Typed, AtTyped, Applying
      <4>2. file[at[p]] # Empty /\ draft[p] # Empty
        BY <4>1 DEF Written, Empty
      <4>q. QED
        BY <3>1, <3>2, <4>1, <4>2, <1>g
    <3>4. CASE ~ lone[p]
      BY <3>1, <3>2, <3>4, <1>g DEF Contended
    <3>q. QED
      BY <3>3, <3>4
  <2>3. CASE Start(p) \/ StartResolve(p) \/ Get(p) \/ Evict(p) \/ Ask(p) \/ AskFails(p) \/ Crash(p)
    BY <2>3, <1>n DEF Start, StartResolve, Get, Evict, Ask, AskFails, Crash, yaml
  <2>4. CASE Read(p) \/ Done(p) \/ Open(p) \/ ReplaceFails(p)
    BY <2>4, <1>n DEF Read, Done, Open, ReplaceFails, yaml
  <2>q. QED
    BY <1>2, <2>1, <2>2, <2>3, <2>4 DEF Step
<1>3. CASE (\E c \in Codes : Change(c)) \/ Tick
  BY <1>3, <1>n DEF Change, Tick, yaml
<1>4. ASSUME NEW s \in Scopes, Edit(s) PROVE Store!Next
  <2>1. PICK v \in Versions : file' = [file EXCEPT ![s] = v]
    BY <1>4 DEF Edit
  <2>2. v \in Contents /\ v # Empty
    BY <2>1
  <2>q. QED
    BY <1>4, <2>1, <2>2, <1>g DEF Edit
<1>5. ASSUME NEW s \in Scopes, Restore(s) PROVE Store!Next
  <2> DEFINE v == [text |-> "good", guilds |-> {}]
  <2>1. v \in Contents /\ v # Empty /\ v.guilds = {}
    BY DEF Contents, Written, Empty
  <2>2. file' = [file EXCEPT ![s] = v] /\ file[s] = Empty /\ UNCHANGED edits
    BY <1>5 DEF Restore
  <2> HIDE DEF v
  <2>q. QED
    BY <2>1, <2>2, <1>g
<1>q. QED
  BY <1>1, <1>2, <1>3, <1>4, <1>5 DEF Next

\* The commands implement the store: a scope file only loses a guild, or stops being
\* readable, under two writers at once or the operator's hand.
THEOREM StoreImplemented == Spec => ScopesKept
<1>1. Init => Store!Init
  <2> SUFFICES ASSUME Init PROVE Store!Init
    OBVIOUS
  <2>1. \A s \in Scopes : file[s] # Empty /\ file[s].guilds = {}
    BY DEF Init, Empty
  <2>2. Contended = {}
    BY DEF Init, Contended, InHand, Applying
  <2>3. Held \in [Scopes -> SUBSET Guilds]
    BY <2>1 DEF Held
  <2>q. QED
    BY <2>2, <2>3 DEF Init, Store!Init
<1>2. Init => LoneWriter
  BY DEF Init, LoneWriter
<1>3. Typed /\ LoneWriter /\ [Next]_vars => [Store!Next]_(Store!store)
  BY StoreStep
<1>q. QED
  BY InitTyped, NextTyped, LoneStep, <1>1, <1>2, <1>3, PTL DEF Spec, ScopesKept, Store!Spec

--------------------------------------------------------------------------------
(* Answers.                                                                *)

\* A row tells what was true when it was made, and since counts from the last time.
RowsAreTrue ==
  \A c \in Codes :
    /\ \A g \in Guilds : remote[c] = g => since[c][g] = 0
    /\ row[c].guild \in Guilds => since[c][row[c].guild] <= row[c].age

\* Every step keeps it.
LEMMA RowsStep == Typed /\ RowsAreTrue /\ [Next]_vars => RowsAreTrue'
<1> SUFFICES ASSUME Typed, RowsAreTrue, [Next]_vars PROVE RowsAreTrue'
  OBVIOUS
<1> USE DiscoverAssumption DEF Typed, TypeOK
<1>s. \A c \in Codes, g \in Guilds : since[c][g] \in 0 .. (TTL + 1)
  OBVIOUS
<1>r. \A c \in Codes : row[c].age \in 0 .. (TTL + 1) /\ row[c].guild \in Guilds \cup {Nothing, Gone}
  OBVIOUS
<1>u. ASSUME UNCHANGED <<remote, since, row>> PROVE RowsAreTrue'
  BY <1>u DEF RowsAreTrue
<1>1. CASE UNCHANGED vars
  BY <1>1, <1>u DEF vars, discord
<1>2. ASSUME NEW p \in Procs, Step(p) \/ StartResolve(p) \/ Crash(p) PROVE RowsAreTrue'
  <2>1. CASE Evict(p)
    BY <2>1 DEF Evict, discord, RowsAreTrue
  <2>2. CASE Ask(p)
    <3>1. at[p] \in Codes /\ UNCHANGED <<remote, since>>
      BY <2>2 DEF Ask, AtTyped, discord
    <3>2. CASE row' = [row EXCEPT ![at[p]] = [guild |-> remote[at[p]], age |-> 0]]
      BY <3>1, <3>2, <1>s DEF RowsAreTrue
    <3>3. CASE UNCHANGED row
      BY <3>1, <3>3, <1>u
    <3>q. QED
      BY <2>2, <3>2, <3>3 DEF Ask
  <2>3. CASE Start(p) \/ StartResolve(p) \/ Get(p) \/ AskFails(p) \/ Crash(p)
    BY <2>3, <1>u DEF Start, StartResolve, Get, AskFails, Crash, discord
  <2>4. CASE Read(p) \/ Done(p) \/ Open(p) \/ Write(p) \/ Replace(p) \/ ReplaceFails(p)
    BY <2>4, <1>u DEF Read, Done, Open, Write, Replace, ReplaceFails, discord
  <2>q. QED
    BY <1>2, <2>1, <2>2, <2>3, <2>4 DEF Step
<1>3. ASSUME NEW c \in Codes, Change(c) PROVE RowsAreTrue'
  <2>1. PICK v \in Turns \ {remote[c]} :
       /\ remote' = [remote EXCEPT ![c] = v]
       /\ since' = [since EXCEPT ![c] = [g \in Guilds |-> IF g = v THEN 0 ELSE @[g]]]
    BY <1>3 DEF Change
  <2>2. UNCHANGED row
    BY <1>3 DEF Change
  <2>3. ASSUME NEW d \in Codes, NEW g \in Guilds
        PROVE  /\ remote'[d] = g => since'[d][g] = 0
               /\ since'[d][g] <= since[d][g]
    <3>1. CASE d = c
      BY <2>1, <3>1, <1>s
    <3>2. CASE d # c
      BY <2>1, <3>2, <1>s DEF RowsAreTrue
    <3>q. QED
      BY <3>1, <3>2
  <2>4. \A d \in Codes, g \in Guilds : since'[d][g] \in Int
    BY <2>1, <1>s
  <2>5. ASSUME NEW d \in Codes, row'[d].guild \in Guilds
        PROVE  since'[d][row'[d].guild] <= row'[d].age
    <3>1. since[d][row[d].guild] <= row[d].age
      BY <2>2, <2>5 DEF RowsAreTrue
    <3>q. QED
      BY <2>2, <2>3, <2>4, <2>5, <3>1, <1>s, <1>r
  <2>q. QED
    BY <2>3, <2>5 DEF RowsAreTrue
<1>4. CASE Tick
  <2>1. ASSUME NEW c \in Codes, NEW g \in Guilds
        PROVE  since'[c][g] = IF remote[c] = g THEN 0 ELSE Older(since[c][g])
    BY <1>4 DEF Tick
  <2>2. ASSUME NEW c \in Codes, row'[c].guild \in Guilds
        PROVE  since'[c][row'[c].guild] <= row'[c].age
    <3> DEFINE g == row[c].guild
    <3>1. row'[c] = [row[c] EXCEPT !.age = Older(@)] /\ row'[c].guild = g
      BY <1>4, <2>2 DEF Tick
    <3>2. since[c][g] <= row[c].age
      BY <2>2, <3>1 DEF RowsAreTrue
    <3>3. row'[c].age = Older(row[c].age)
      BY <3>1
    <3>4. since[c][g] \in 0 .. (TTL + 1) /\ row[c].age \in 0 .. (TTL + 1)
      BY <2>2, <3>1, <1>s, <1>r
    <3>5. Older(since[c][g]) <= Older(row[c].age) /\ 0 <= Older(row[c].age)
      BY <3>2, <3>4 DEF Older
    <3>6. g \in Guilds
      BY <2>2, <3>1
    <3>7. since'[c][g] = 0 \/ since'[c][g] = Older(since[c][g])
      BY <2>1, <3>6
    <3> HIDE DEF g
    <3>q. QED
      BY <3>1, <3>3, <3>5, <3>7
  <2>3. UNCHANGED remote
    BY <1>4 DEF Tick
  <2>q. QED
    BY <2>1, <2>2, <2>3 DEF RowsAreTrue
<1>5. ASSUME NEW s \in Scopes, Edit(s) \/ Restore(s) PROVE RowsAreTrue'
  BY <1>5, <1>u DEF Edit, Restore, discord
<1>q. QED
  BY <1>1, <1>2, <1>3, <1>4, <1>5 DEF Next

\* What a step routes was so no longer ago than a row may live.
LEMMA RecentStep ==
  ASSUME Typed, RowsAreTrue, [Next]_vars, NEW p \in Procs, NEW e \in route'[p] \ route[p]
  PROVE  since[e.code][e.guild] <= TTL
<1> USE DiscoverAssumption DEF Typed, TypeOK
<1>t. ASSUME NEW c \in Codes, NEW g, Take(p, c, g)
      PROVE  e.code = c /\ e.guild = g /\ g \in Guilds
  BY <1>t DEF Take, Routed
<1>1. ASSUME NEW q \in Procs, Step(q) \/ StartResolve(q) \/ Crash(q)
      PROVE  p = q /\ (Get(p) \/ Ask(p))
  <2>1. CASE Start(q) \/ StartResolve(q) \/ Evict(q) \/ Open(q) \/ Write(q)
    <3>1. UNCHANGED route
      BY <2>1 DEF Start, StartResolve, Evict, Open, Write
    <3>q. QED
      BY <3>1
  <2>2. CASE AskFails(q) \/ Crash(q) \/ Done(q) \/ ReplaceFails(q)
    <3>1. route' = [route EXCEPT ![q] = {}]
      BY <2>2 DEF AskFails, Crash, Done, ReplaceFails, End
    <3>q. QED
      BY <3>1
  <2>3. CASE Read(q)
    <3>1. \/ \E s : route' = Rest(q, s)
          \/ route' = [route EXCEPT ![q] = {}]
          \/ UNCHANGED route
      BY <2>3 DEF Read, End
    <3>q. QED
      BY <3>1 DEF Rest
  <2>4. CASE Replace(q)
    BY <2>4 DEF Replace, Rest
  <2>5. CASE Get(q) \/ Ask(q)
    <3>1. q # p => route'[p] = route[p]
      BY <2>5 DEF Get, Ask, Take
    <3>q. QED
      BY <2>5, <3>1
  <2>q. QED
    BY <1>1, <2>1, <2>2, <2>3, <2>4, <2>5 DEF Step
<1>2. CASE Get(p)
  <2>1. PICK c \in todo[p] :
             IF row[c].guild # Gone /\ ~ Stale(row[c])
             THEN Take(p, c, row[c].guild)
             ELSE /\ Goto(p, IF row[c].guild = Gone THEN "ask" ELSE "evict")
                  /\ at' = [at EXCEPT ![p] = c] /\ UNCHANGED <<todo, route, excused>>
    BY <1>2 DEF Get
  <2>2. Take(p, c, row[c].guild) /\ ~ Stale(row[c])
    BY <2>1
  <2>3. e.code = c /\ e.guild = row[c].guild /\ row[c].guild \in Guilds
    BY <2>2, <1>t
  <2>4. since[c][row[c].guild] <= row[c].age /\ row[c].age <= TTL
    BY <2>2, <2>3 DEF RowsAreTrue, Stale
  <2>5. since[c][row[c].guild] \in Int /\ row[c].age \in Int
    BY <2>3
  <2>q. QED
    BY <2>3, <2>4, <2>5
<1>3. CASE Ask(p)
  <2>1. at[p] \in Codes /\ (Take(p, at[p], remote[at[p]]) \/ Take(p, at[p], Gone))
    BY <1>3 DEF Ask, AtTyped
  <2>2. e.code = at[p] /\ e.guild = remote[at[p]] /\ remote[at[p]] \in Guilds
    BY <2>1, <1>t
  <2>q. QED
    BY <2>1, <2>2 DEF RowsAreTrue
<1>4. ASSUME \/ UNCHANGED vars \/ Tick \/ \E c \in Codes : Change(c)
             \/ \E s \in Scopes : Edit(s) \/ Restore(s)
      PROVE  FALSE
  BY <1>4 DEF vars, run, Tick, Change, Edit, Restore
<1>q. QED
  BY <1>1, <1>2, <1>3, <1>4 DEF Next

\* Nothing is routed on an answer older than a row may be, whatever other commands do
\* to the cache in the meantime.
THEOREM AnswersCorrect == Spec => AnswersAreRecent
<1>1. Init => RowsAreTrue
  <2> SUFFICES ASSUME Init PROVE RowsAreTrue
    OBVIOUS
  <2>q. QED
    BY DiscoverAssumption DEF Init, RowsAreTrue
<1>2. Typed /\ RowsAreTrue /\ [Next]_vars =>
        [\A p \in Procs : \A e \in route'[p] \ route[p] : since[e.code][e.guild] <= TTL]_vars
  BY RecentStep
<1>q. QED
  BY InitTyped, NextTyped, RowsStep, <1>1, <1>2, PTL DEF Spec, AnswersAreRecent

--------------------------------------------------------------------------------
(* One scope a guild.                                                      *)

\* Only a process that loaded the scopes routes, and it writes when it has resolved.
Loader ==
  \A p \in Procs : /\ route[p] # {} \/ pc[p] \in Applying => known[p] # NoFiles
                   /\ pc[p] \in Applying => todo[p] = {}
                   /\ pc[p] = "off" => known[p] = NoFiles

\* While runs do not overlap and nobody edits: one run at a time, which found good files
\* and is alone with what it writes.
OneRun ==
  /\ \A p, q \in Procs : known[p] # NoFiles /\ known[q] # NoFiles => p = q
  /\ \A s \in Scopes : file[s].text = "good"
  /\ \A p \in Procs : pc[p] \in Applying =>
       /\ lone[p] /\ draft[p].text = "good"
       /\ draft[p].guilds \subseteq
            file[at[p]].guilds \cup {e.guild : e \in {r \in route[p] : r.scope = at[p]}}

\* What it found is still there, nothing it routes was, and until it writes nothing is new.
Found ==
  \A p \in Procs : known[p] # NoFiles =>
    /\ \A s \in Scopes : known[p][s].text = "good" /\ known[p][s].guilds \subseteq file[s].guilds
    /\ \A e \in route[p], s \in Scopes : e.guild \notin known[p][s].guilds
    /\ todo[p] # {} \/ pc[p] \in {"evict", "ask"} => known[p] = file

\* A guild that is not excused is routed to one scope, the one it is in if that is new.
OneWay ==
  \A p \in Procs : known[p] # NoFiles =>
    /\ \A e, r \in route[p] : e.guild = r.guild /\ e.scope # r.scope => e.guild \in excused
    /\ \A e \in route[p], s \in Scopes :
         e.guild \in file[s].guilds /\ e.scope # s => e.guild \in excused

\* A process that ends, and one that is answered, have loaded what they route.
LEMMA LoaderStep == Typed /\ Loader /\ [Next]_vars => Loader'
<1> SUFFICES ASSUME Typed, Loader, [Next]_vars PROVE Loader'
  OBVIOUS
<1> USE DEF Typed, TypeOK
<1>u. ASSUME UNCHANGED run PROVE Loader'
  BY <1>u DEF run, Loader
<1>1. ASSUME NEW p \in Procs, Step(p) \/ StartResolve(p) \/ Crash(p) PROVE Loader'
  <2>o. ASSUME \A q \in Procs \ {p} : /\ pc'[q] = pc[q] /\ route'[q] = route[q]
                                      /\ known'[q] = known[q] /\ todo'[q] = todo[q],
               /\ route'[p] # {} \/ pc'[p] \in Applying => known'[p] # NoFiles
               /\ pc'[p] \in Applying => todo'[p] = {}
               /\ pc'[p] = "off" => known'[p] = NoFiles
        PROVE  Loader'
    BY <2>o DEF Loader
  <2>e. ASSUME End(p) PROVE Loader'
    <3>1. pc'[p] = "off" /\ route'[p] = {} /\ known'[p] = NoFiles
      BY <2>e DEF End, Goto
    <3>2. \A q \in Procs \ {p} : /\ pc'[q] = pc[q] /\ route'[q] = route[q]
                                 /\ known'[q] = known[q] /\ todo'[q] = todo[q]
      BY <2>e DEF End, Goto
    <3>q. QED
      BY <3>1, <3>2, <2>o DEF Applying
  <2>t. ASSUME NEW c \in Codes, NEW g, Take(p, c, g), UNCHANGED known PROVE Loader'
    <3>1. Routed(p, c, g) # {} => known[p] # NoFiles
      BY DEF Routed, Matching, Profiles, NoFiles, Missing
    <3>2. pc'[p] = "on" /\ route'[p] = route[p] \cup Routed(p, c, g)
      BY <2>t DEF Take, Goto
    <3>3. \A q \in Procs \ {p} : /\ pc'[q] = pc[q] /\ route'[q] = route[q]
                                 /\ known'[q] = known[q] /\ todo'[q] = todo[q]
      BY <2>t DEF Take, Goto
    <3>q. QED
      BY <2>t, <3>1, <3>2, <3>3, <2>o DEF Applying, Loader
  <2>1. CASE Start(p)
    <3>1. PICK s \in Scopes : file[s].text = "good"
      BY <2>1 DEF Start, Profiles
    <3>2. known'[p] # NoFiles /\ pc'[p] = "on"
      BY <2>1, <3>1 DEF Start, Goto, NoFiles, Missing
    <3>3. \A q \in Procs \ {p} : /\ pc'[q] = pc[q] /\ route'[q] = route[q]
                                 /\ known'[q] = known[q] /\ todo'[q] = todo[q]
      BY <2>1 DEF Start, Goto
    <3>q. QED
      BY <3>2, <3>3, <2>o DEF Applying
  <2>2. CASE StartResolve(p) \/ Evict(p)
    BY <2>2 DEF StartResolve, Evict, Goto, Loader, Applying
  <2>3. CASE Get(p)
    <3>1. PICK c \in todo[p] :
             IF row[c].guild # Gone /\ ~ Stale(row[c])
             THEN Take(p, c, row[c].guild)
             ELSE /\ Goto(p, IF row[c].guild = Gone THEN "ask" ELSE "evict")
                  /\ at' = [at EXCEPT ![p] = c] /\ UNCHANGED <<todo, route, excused>>
      BY <2>3 DEF Get
    <3>2. UNCHANGED known
      BY <2>3 DEF Get
    <3>3. CASE Take(p, c, row[c].guild)
      BY <3>2, <3>3, <2>t
    <3>4. CASE (Goto(p, "ask") \/ Goto(p, "evict")) /\ UNCHANGED <<todo, route, excused>>
      BY <3>2, <3>4 DEF Goto, Loader, Applying
    <3>q. QED
      BY <3>1, <3>3, <3>4
  <2>4. CASE Ask(p)
    <3>1. at[p] \in Codes /\ UNCHANGED known /\ \E g : Take(p, at[p], g)
      BY <2>4 DEF Ask, AtTyped
    <3>q. QED
      BY <3>1, <2>t
  <2>5. CASE AskFails(p) \/ Crash(p) \/ Done(p) \/ ReplaceFails(p)
    BY <2>5, <2>e DEF AskFails, Crash, Done, ReplaceFails
  <2>6. CASE Read(p)
    <3>1. PICK s \in {e.scope : e \in route[p]} :
             LET new == {e.guild : e \in {r \in route[p] : r.scope = s}}
             IN  \/ /\ file[s] = Missing \/ (file[s].text \in Written /\ new \subseteq file[s].guilds)
                    /\ route' = Rest(p, s)
                    /\ UNCHANGED <<pc, todo, at, known, writer>>
                 \/ file[s] = Empty /\ End(p)
                 \/ /\ file[s].text \in Written /\ ~ new \subseteq file[s].guilds
                    /\ draft' = [draft EXCEPT ![p] = [file[s] EXCEPT !.guilds = @ \cup new]]
                    /\ at' = [at EXCEPT ![p] = s] /\ Goto(p, "open")
                    /\ lone' = [lone EXCEPT ![p] = InHand(s) = {}]
                    /\ UNCHANGED <<todo, known, route, fd>>
      BY <2>6 DEF Read
    <3>2. route[p] # {} /\ todo[p] = {} /\ pc[p] = "on"
      BY <2>6, <3>1 DEF Read
    <3>3. CASE route' = Rest(p, s) /\ UNCHANGED <<pc, todo, at, known, writer>>
      BY <3>2, <3>3 DEF Rest, Loader, Applying
    <3>4. CASE End(p)
      BY <3>4, <2>e
    <3>5. CASE Goto(p, "open") /\ UNCHANGED <<todo, known, route, fd>>
      BY <3>2, <3>5 DEF Goto, Loader, Applying
    <3>q. QED
      BY <3>1, <3>3, <3>4, <3>5
  <2>7. CASE Open(p) \/ Write(p)
    <3>1. /\ pc[p] \in Applying /\ pc'[p] \in Applying /\ UNCHANGED <<todo, known, route>>
          /\ \A q \in Procs \ {p} : pc'[q] = pc[q]
      BY <2>7 DEF Open, Write, Goto, Applying
    <3>q. QED
      BY <3>1, <2>o DEF Loader, Applying
  <2>8. CASE Replace(p)
    <3>1. /\ pc[p] \in Applying /\ pc'[p] = "on" /\ UNCHANGED <<todo, known>>
          /\ \A q \in Procs \ {p} : pc'[q] = pc[q] /\ route'[q] = route[q]
      BY <2>8 DEF Replace, Goto, Applying, Rest
    <3>q. QED
      BY <3>1, <2>o DEF Loader, Applying
  <2>q. QED
    BY <1>1, <2>1, <2>2, <2>3, <2>4, <2>5, <2>6, <2>7, <2>8 DEF Step
<1>2. CASE UNCHANGED vars \/ Tick \/ (\E c \in Codes : Change(c)) \/ \E s \in Scopes : Edit(s) \/ Restore(s)
  BY <1>2, <1>u DEF vars, Tick, Change, Edit, Restore
<1>q. QED
  BY <1>1, <1>2 DEF Next

\* The order a run keeps with the files.
Order == OneRun /\ Found /\ OneWay /\ OneScopeAlone

\* What is excused stays so.
LEMMA ExcusedGrows == Typed /\ [Next]_vars => excused \subseteq excused'
<1> SUFFICES ASSUME Typed, [Next]_vars PROVE excused \subseteq excused'
  OBVIOUS
<1>1. ASSUME NEW p \in Procs, Step(p) \/ StartResolve(p) \/ Crash(p) PROVE excused \subseteq excused'
  <2>1. CASE Start(p)
    BY <2>1 DEF Start, Typed, TypeOK
  <2>2. CASE Get(p) \/ Ask(p)
    BY <2>2 DEF Get, Ask, Take
  <2>3. CASE StartResolve(p) \/ Evict(p) \/ AskFails(p) \/ Crash(p) \/ Done(p) \/ ReplaceFails(p)
    BY <2>3 DEF StartResolve, Evict, AskFails, Crash, Done, ReplaceFails
  <2>4. CASE Read(p) \/ Open(p) \/ Write(p) \/ Replace(p)
    BY <2>4 DEF Read, Open, Write, Replace
  <2>q. QED
    BY <1>1, <2>1, <2>2, <2>3, <2>4 DEF Step
<1>2. CASE UNCHANGED vars \/ Tick \/ \E c \in Codes : Change(c)
  BY <1>2 DEF vars, Tick, Change
<1>3. CASE \E s \in Scopes : Edit(s) \/ Restore(s)
  BY <1>3 DEF Edit, Restore, Typed, TypeOK
<1>q. QED
  BY <1>1, <1>2, <1>3 DEF Next

\* A step that leaves the files alone, and lets runs only forget, keeps the order.
LEMMA OrderFrame ==
  ASSUME Order, UNCHANGED file, excused \subseteq excused',
         \A q \in Procs :
           /\ known'[q] # NoFiles => known'[q] = known[q]
           /\ known'[q] # NoFiles => route'[q] \subseteq route[q]
           /\ known'[q] # NoFiles /\ (todo'[q] # {} \/ pc'[q] \in {"evict", "ask"}) =>
                todo[q] # {} \/ pc[q] \in {"evict", "ask"}
           /\ pc'[q] \in Applying => /\ pc[q] \in Applying /\ lone[q] = lone'[q]
                                     /\ draft'[q] = draft[q] /\ at'[q] = at[q]
                                     /\ route'[q] = route[q]
  PROVE  Order'
<1>1. OneRun'
  BY DEF Order, OneRun
<1>2. Found'
  BY DEF Order, Found
<1>3. OneWay'
  <2> SUFFICES ASSUME NEW p \in Procs, known'[p] # NoFiles
               PROVE  /\ \A e, r \in route'[p] : e.guild = r.guild /\ e.scope # r.scope => e.guild \in excused'
                      /\ \A e \in route'[p], s \in Scopes :
                           e.guild \in file'[s].guilds /\ e.scope # s => e.guild \in excused'
    BY DEF OneWay
  <2>1. known[p] # NoFiles /\ route'[p] \subseteq route[p]
    OBVIOUS
  <2>q. QED
    BY <2>1 DEF Order, OneWay
<1>4. OneScopeAlone'
  BY DEF Order, OneScopeAlone
<1>q. QED
  BY <1>1, <1>2, <1>3, <1>4 DEF Order

\* The answer to an invite keeps the order.
LEMMA TakeOrder ==
  ASSUME Typed, Loader, Order, UNCHANGED <<known, file, writer>>, excused \subseteq excused',
         NEW p \in Procs, NEW c \in Codes, NEW g, Take(p, c, g),
         todo[p] # {} \/ pc[p] = "ask", pc[p] \notin Applying
  PROVE  Order'
<1> DEFINE new == Routed(p, c, g)
<1> USE DEF Typed, TypeOK
<1>1. /\ pc' = [pc EXCEPT ![p] = "on"] /\ route' = [route EXCEPT ![p] = @ \cup new]
      /\ excused' = excused \cup Twice(p, new) /\ todo' = [todo EXCEPT ![p] = @ \ {c}]
      /\ at' = [at EXCEPT ![p] = Gone]
  BY DEF Take, Goto
<1>2. ASSUME NEW e \in new
      PROVE  /\ e.guild = g /\ g \in Guilds
             /\ \A s \in Scopes : g \notin known[p][s].guilds /\ g \notin file[s].guilds
  <2>1. e.guild = g /\ g \in Guilds /\ ~ Mapped(known[p], g) /\ known[p] # NoFiles
    BY DEF Routed, Matching, Profiles, NoFiles, Missing
  <2>2. known[p] = file /\ \A s \in Scopes : known[p][s].text = "good"
    BY <2>1 DEF Order, Found
  <2>q. QED
    BY <2>1, <2>2 DEF Mapped, Profiles
<1>3. ASSUME NEW e \in new, NEW r \in new PROVE e.scope = r.scope
  BY DEF Routed
<1>4. ASSUME NEW e \in new, NEW r \in route[p], e.guild = r.guild, e.scope # r.scope
      PROVE  e.guild \in excused'
  <2>1. e.guild \in Twice(p, new)
    BY <1>2, <1>4 DEF Twice
  <2>q. QED
    BY <1>1, <2>1
<1> HIDE DEF new
<1>5. \A q \in Procs : q # p => /\ pc'[q] = pc[q] /\ route'[q] = route[q]
                               /\ todo'[q] = todo[q] /\ at'[q] = at[q]
  BY <1>1
<1>6. route'[p] = route[p] \cup new /\ pc'[p] = "on"
  BY <1>1
<1>7. OneRun'
  <2>1. \A q \in Procs : pc'[q] \in Applying => q # p
    BY <1>6 DEF Applying
  <2>2. ASSUME NEW q \in Procs, pc'[q] \in Applying
        PROVE  /\ lone'[q] /\ draft'[q].text = "good"
               /\ draft'[q].guilds \subseteq
                    file'[at'[q]].guilds \cup {e.guild : e \in {r \in route'[q] : r.scope = at'[q]}}
    <3>1. /\ q # p /\ pc[q] \in Applying /\ at'[q] = at[q] /\ route'[q] = route[q]
          /\ lone'[q] = lone[q] /\ draft'[q] = draft[q]
      BY <1>5, <2>1, <2>2 DEF writer
    <3>q. QED
      BY <3>1 DEF Order, OneRun
  <2>q. QED
    BY <2>2 DEF Order, OneRun
<1>8. Found'
  <2> SUFFICES ASSUME NEW q \in Procs, known'[q] # NoFiles
               PROVE  /\ \A s \in Scopes : known'[q][s].text = "good" /\ known'[q][s].guilds \subseteq file'[s].guilds
                      /\ \A e \in route'[q], s \in Scopes : e.guild \notin known'[q][s].guilds
                      /\ todo'[q] # {} \/ pc'[q] \in {"evict", "ask"} => known'[q] = file'
    BY DEF Found
  <2>1. CASE q = p
    BY <2>1, <1>2, <1>6 DEF Order, Found
  <2>2. CASE q # p
    BY <2>2, <1>5 DEF Order, Found
  <2>q. QED
    BY <2>1, <2>2
<1>9. OneWay'
  <2> SUFFICES ASSUME NEW q \in Procs, known'[q] # NoFiles
               PROVE  /\ \A e, r \in route'[q] : e.guild = r.guild /\ e.scope # r.scope => e.guild \in excused'
                      /\ \A e \in route'[q], s \in Scopes :
                           e.guild \in file'[s].guilds /\ e.scope # s => e.guild \in excused'
    BY DEF OneWay
  <2>1. /\ \A e, r \in route[q] : e.guild = r.guild /\ e.scope # r.scope => e.guild \in excused'
        /\ \A e \in route[q], s \in Scopes :
             e.guild \in file'[s].guilds /\ e.scope # s => e.guild \in excused'
    BY DEF Order, OneWay
  <2>2. CASE q = p
    BY <2>1, <2>2, <1>2, <1>3, <1>4, <1>6
  <2>3. CASE q # p
    BY <2>1, <2>3, <1>5
  <2>q. QED
    BY <2>2, <2>3
<1>10. OneScopeAlone'
  BY DEF Order, OneScopeAlone
<1>q. QED
  BY <1>7, <1>8, <1>9, <1>10 DEF Order

\* Every step that excuses not all guilds keeps the order.
LEMMA OrderStep ==
  Typed /\ LoneWriter /\ Loader /\ (excused # Guilds => Order) /\ [Next]_vars
    => (excused' # Guilds => Order')
<1> SUFFICES ASSUME Typed, LoneWriter, Loader, [Next]_vars, excused' # Guilds,
                    Order, excused \subseteq excused'
             PROVE  Order'
  <2>1. ASSUME Typed, [Next]_vars, excused' # Guilds PROVE excused # Guilds
    BY <2>1, ExcusedGrows, NextTyped DEF Typed, TypeOK
  <2>q. QED
    BY <2>1, ExcusedGrows
<1> USE DEF Typed, TypeOK
<1>1. CASE UNCHANGED vars \/ Tick \/ \E c \in Codes : Change(c)
  <2>1. UNCHANGED <<file, run, writer>>
    BY <1>1 DEF vars, yaml, Tick, Change
  <2>q. QED
    BY <2>1, OrderFrame DEF run, writer
<1>2. ASSUME NEW s \in Scopes, Edit(s) \/ Restore(s) PROVE Order'
  <2>1. file[s].text = "good"
    BY DEF Order, OneRun
  <2>q. QED
    BY <1>2, <2>1 DEF Edit, Restore, Empty
<1>3. ASSUME NEW p \in Procs, Step(p) \/ StartResolve(p) \/ Crash(p) PROVE Order'
  <2>a. ASSUME NEW q \in Procs, pc[q] \in Applying, pc[p] \in Applying \/ known[p] # NoFiles
        PROVE  q = p
    BY <2>a DEF Loader, Order, OneRun
  <2>o. ASSUME UNCHANGED <<file, known, draft>>, \A q \in Procs \ {p} :
                 pc'[q] = pc[q] /\ route'[q] = route[q] /\ todo'[q] = todo[q] /\ at'[q] = at[q] /\ lone'[q] = lone[q],
               known[p] # NoFiles => route'[p] \subseteq route[p],
               known[p] # NoFiles /\ (todo'[p] # {} \/ pc'[p] \in {"evict", "ask"}) =>
                 todo[p] # {} \/ pc[p] \in {"evict", "ask"},
               pc'[p] \in Applying => /\ pc[p] \in Applying /\ at'[p] = at[p]
                                      /\ route'[p] = route[p] /\ lone'[p] = lone[p]
        PROVE  Order'
    <3>1. ASSUME NEW q \in Procs
          PROVE  /\ known'[q] # NoFiles => known'[q] = known[q]
                 /\ known'[q] # NoFiles => route'[q] \subseteq route[q]
                 /\ known'[q] # NoFiles /\ (todo'[q] # {} \/ pc'[q] \in {"evict", "ask"}) =>
                      todo[q] # {} \/ pc[q] \in {"evict", "ask"}
                 /\ pc'[q] \in Applying => /\ pc[q] \in Applying /\ lone[q] = lone'[q]
                                           /\ draft'[q] = draft[q] /\ at'[q] = at[q]
                                           /\ route'[q] = route[q]
      <4>1. CASE q = p
        <5>1. known'[p] = known[p] /\ draft'[p] = draft[p]
          BY <2>o
        <5>2. known[p] # NoFiles => route'[p] \subseteq route[p]
          BY <2>o
        <5>3. known[p] # NoFiles /\ (todo'[p] # {} \/ pc'[p] \in {"evict", "ask"}) =>
                todo[p] # {} \/ pc[p] \in {"evict", "ask"}
          BY <2>o
        <5>4. pc'[p] \in Applying => /\ pc[p] \in Applying /\ at'[p] = at[p]
                                     /\ route'[p] = route[p] /\ lone[p] = lone'[p]
          BY <2>o
        <5>q. QED
          BY <4>1, <5>1, <5>2, <5>3, <5>4, Zenon
      <4>2. CASE q # p
        BY <2>o, <4>2
      <4>q. QED
        BY <4>1, <4>2
    <3>q. QED
      BY <2>o, <3>1, OrderFrame
  <2>e. ASSUME End(p), UNCHANGED file PROVE Order'
    <3>1. known'[p] = NoFiles /\ pc'[p] = "off" /\ pc'[p] \notin Applying
      BY <2>e DEF End, Goto, Applying
    <3>2. \A q \in Procs \ {p} : /\ pc'[q] = pc[q] /\ route'[q] = route[q] /\ known'[q] = known[q]
                                 /\ todo'[q] = todo[q] /\ at'[q] = at[q] /\ lone'[q] = lone[q]
                                 /\ draft'[q] = draft[q]
      BY <2>e DEF End, Goto
    <3>q. QED
      BY <2>e, <3>1, <3>2, OrderFrame
  <2>1. CASE Start(p)
    <3>1. ASSUME NEW q \in Procs PROVE known[q] = NoFiles /\ route[q] = {} /\ pc[q] \notin Applying
      <4>1. known[q] = NoFiles
        BY <2>1 DEF Start
      <4>q. QED
        BY <4>1 DEF Loader
    <3>2. /\ known' = [known EXCEPT ![p] = file] /\ UNCHANGED <<file, route, writer>>
          /\ pc' = [pc EXCEPT ![p] = "on"]
      BY <2>1 DEF Start, Goto, yaml
    <3>3. \A q \in Procs : pc'[q] \notin Applying /\ route'[q] = {}
      BY <3>1, <3>2 DEF Applying
    <3>4. OneRun'
      BY <3>1, <3>2, <3>3 DEF Order, OneRun
    <3>5. Found'
      BY <3>1, <3>2, <3>3 DEF Order, OneRun, Found
    <3>6. OneWay'
      BY <3>3 DEF OneWay
    <3>7. OneScopeAlone'
      BY <3>2 DEF Order, OneScopeAlone
    <3>q. QED
      BY <3>4, <3>5, <3>6, <3>7 DEF Order
  <2>2. CASE StartResolve(p)
    <3>1. known[p] = NoFiles
      BY <2>2 DEF StartResolve, Loader
    <3>q. QED
      BY <2>2, <3>1, <2>o DEF StartResolve, Goto, yaml, writer, Applying
  <2>3. CASE Get(p)
    <3>1. PICK c \in todo[p] :
             IF row[c].guild # Gone /\ ~ Stale(row[c])
             THEN Take(p, c, row[c].guild)
             ELSE /\ Goto(p, IF row[c].guild = Gone THEN "ask" ELSE "evict")
                  /\ at' = [at EXCEPT ![p] = c] /\ UNCHANGED <<todo, route, excused>>
      BY <2>3 DEF Get
    <3>2. UNCHANGED <<file, known, writer>> /\ pc[p] \notin Applying /\ todo[p] # {} /\ c \in Codes
      BY <2>3, <3>1 DEF Get, yaml, Applying
    <3>3. CASE Take(p, c, row[c].guild)
      BY <3>2, <3>3, TakeOrder
    <3>4. CASE (Goto(p, "ask") \/ Goto(p, "evict")) /\ at' = [at EXCEPT ![p] = c] /\ UNCHANGED <<todo, route, excused>>
      <4>1. pc'[p] \notin Applying
        BY <3>4 DEF Goto, Applying
      <4>q. QED
        BY <3>2, <3>4, <4>1, <2>o DEF Goto, writer
    <3>q. QED
      BY <3>1, <3>3, <3>4
  <2>4. CASE Evict(p)
    BY <2>4, <2>o DEF Evict, Goto, yaml, writer, Applying
  <2>5. CASE Ask(p)
    <3>1. /\ at[p] \in Codes /\ UNCHANGED <<file, known, writer>> /\ \E g : Take(p, at[p], g)
          /\ pc[p] = "ask" /\ pc[p] \notin Applying
      BY <2>5 DEF Ask, AtTyped, yaml, Applying
    <3>q. QED
      BY <3>1, TakeOrder
  <2>6. CASE AskFails(p) \/ Crash(p) \/ Done(p) \/ ReplaceFails(p)
    BY <2>6, <2>e DEF AskFails, Crash, Done, ReplaceFails, yaml
  <2>7. CASE Read(p)
    <3>1. PICK s \in {e.scope : e \in route[p]} :
             LET new == {e.guild : e \in {r \in route[p] : r.scope = s}}
             IN  \/ /\ file[s] = Missing \/ (file[s].text \in Written /\ new \subseteq file[s].guilds)
                    /\ route' = Rest(p, s)
                    /\ UNCHANGED <<pc, todo, at, known, writer>>
                 \/ file[s] = Empty /\ End(p)
                 \/ /\ file[s].text \in Written /\ ~ new \subseteq file[s].guilds
                    /\ draft' = [draft EXCEPT ![p] = [file[s] EXCEPT !.guilds = @ \cup new]]
                    /\ at' = [at EXCEPT ![p] = s] /\ Goto(p, "open")
                    /\ lone' = [lone EXCEPT ![p] = InHand(s) = {}]
                    /\ UNCHANGED <<todo, known, route, fd>>
      BY <2>7 DEF Read
    <3> DEFINE new == {e.guild : e \in {r \in route[p] : r.scope = s}}
    <3>2. /\ UNCHANGED <<file, excused>> /\ pc[p] = "on" /\ pc[p] \notin Applying /\ todo[p] = {}
          /\ known[p] # NoFiles /\ s \in Scopes
      BY <2>7, <3>1 DEF Read, yaml, Loader, Applying
    <3>3. CASE route' = Rest(p, s) /\ UNCHANGED <<pc, todo, at, known, writer>>
      BY <3>2, <3>3, <2>o DEF Rest, writer
    <3>4. CASE End(p)
      BY <3>2, <3>4, <2>e
    <3>5. CASE /\ draft' = [draft EXCEPT ![p] = [file[s] EXCEPT !.guilds = @ \cup new]]
               /\ at' = [at EXCEPT ![p] = s] /\ Goto(p, "open")
               /\ lone' = [lone EXCEPT ![p] = InHand(s) = {}]
               /\ UNCHANGED <<todo, known, route, fd>>
      <4>1. InHand(s) = {}
        BY <3>2, <2>a DEF InHand
      <4>2. lone'[p] /\ at'[p] = s /\ draft'[p] = [file[s] EXCEPT !.guilds = @ \cup new]
        BY <3>5, <4>1
      <4>3. file[s].text = "good" /\ file[s] \in Contents
        BY <3>2 DEF Order, OneRun
      <4>4. draft'[p].text = "good" /\ draft'[p].guilds = file[s].guilds \cup new
        BY <4>2, <4>3 DEF Contents, Missing, Empty
      <4>5. \A q \in Procs : pc'[q] \in Applying => q = p
        BY <3>2, <3>5, <2>a DEF Goto
      <4>6. OneRun'
        BY <3>2, <3>5, <4>2, <4>4, <4>5 DEF Order, OneRun
      <4>7. Found'
        BY <3>2, <3>5 DEF Order, Found, Goto
      <4>8. OneWay' /\ OneScopeAlone'
        BY <3>2, <3>5 DEF Order, OneWay, OneScopeAlone
      <4>q. QED
        BY <4>6, <4>7, <4>8 DEF Order
    <3>q. QED
      BY <3>1, <3>3, <3>4, <3>5
  <2>8. CASE Open(p) \/ Write(p)
    <3>1. pc[p] \in Applying /\ pc'[p] \in Applying /\ pc'[p] \notin {"evict", "ask"}
      BY <2>8 DEF Open, Write, Goto, Applying
    <3>2. lone[p]
      BY <3>1 DEF Order, OneRun
    <3>3. UNCHANGED file
      BY <2>8, <3>2 DEF Open, Write, LoneWriter
    <3>4. \A q \in Procs : lone'[q] = lone[q]
      <4>1. \A q \in Procs : q \in InHand(at[p]) => q = p
        BY <3>1, <2>a DEF InHand
      <4>2. Disturb(p, at[p])
        BY <2>8 DEF Open, Write
      <4>q. QED
        BY <4>1, <4>2 DEF Disturb
    <3>5. UNCHANGED <<known, draft, route, todo, at>> /\ \A q \in Procs \ {p} : pc'[q] = pc[q]
      BY <2>8 DEF Open, Write, Goto
    <3>q. QED
      BY <3>1, <3>3, <3>4, <3>5, <2>o
  <2>9. CASE Replace(p)
    <3> DEFINE s == at[p]
    <3>1. /\ pc[p] \in Applying /\ pc[p] = "replace" /\ s \in Scopes /\ known[p] # NoFiles
          /\ todo[p] = {}
      BY <2>9 DEF Replace, AtTyped, Loader, Applying
    <3>2. /\ lone[p] /\ draft[p].text = "good"
          /\ draft[p].guilds \subseteq file[s].guilds \cup {e.guild : e \in {r \in route[p] : r.scope = s}}
          /\ tmp[s] = draft[p] /\ file[s].guilds \subseteq draft[p].guilds
      BY <3>1 DEF Order, OneRun, LoneWriter
    <3>3. /\ file' = [file EXCEPT ![s] = draft[p]] /\ UNCHANGED <<todo, known, excused>>
          /\ route' = Rest(p, s) /\ pc' = [pc EXCEPT ![p] = "on"]
      BY <2>9, <3>2 DEF Replace, Goto
    <3>4. file'[s] = draft[p] /\ \A t \in Scopes : t # s => file'[t] = file[t]
      BY <3>1, <3>3
    <3>5. /\ route'[p] = {e \in route[p] : e.scope # s}
          /\ \A q \in Procs : q # p => known'[q] = NoFiles /\ route'[q] = {} /\ pc'[q] \notin Applying
      <4>1. \A q \in Procs : q # p => known[q] = NoFiles
        BY <3>1 DEF Order, OneRun
      <4>2. \A q \in Procs : q # p => route[q] = {} /\ pc[q] \notin Applying
        BY <4>1 DEF Loader
      <4>q. QED
        BY <3>3, <4>1, <4>2 DEF Rest
    <3>6. pc'[p] = "on" /\ pc'[p] \notin Applying /\ known'[p] = known[p]
      BY <3>3 DEF Applying
    <3>7. ASSUME NEW g \in draft[p].guilds, g \notin file[s].guilds
          PROVE  \E e \in route[p] : e.scope = s /\ e.guild = g
      BY <3>2, <3>7
    <3>8. OneRun'
      BY <3>2, <3>4, <3>5, <3>6 DEF Order, OneRun
    <3> HIDE DEF s
    <3>9. Found'
      <4>1. \A t \in Scopes : file[t].guilds \subseteq file'[t].guilds
        BY <3>2, <3>4
      <4>2. todo'[p] = {} /\ pc'[p] \notin {"evict", "ask"}
        BY <3>1, <3>3, <3>6
      <4>q. QED
        BY <3>5, <3>6, <4>1, <4>2 DEF Order, Found
    <3>10. OneWay'
      <4> SUFFICES ASSUME known'[p] # NoFiles
                   PROVE  /\ \A e, r \in route'[p] : e.guild = r.guild /\ e.scope # r.scope => e.guild \in excused'
                          /\ \A e \in route'[p], t \in Scopes :
                               e.guild \in file'[t].guilds /\ e.scope # t => e.guild \in excused'
        BY <3>5 DEF OneWay
      <4>1. \A e, r \in route[p] : e.guild = r.guild /\ e.scope # r.scope => e.guild \in excused
        BY <3>1 DEF Order, OneWay
      <4>2. \A e \in route[p], t \in Scopes :
                               e.guild \in file[t].guilds /\ e.scope # t => e.guild \in excused
        BY <3>1 DEF Order, OneWay
      <4>3. ASSUME NEW e \in route'[p], NEW t \in Scopes, e.guild \in file'[t].guilds, e.scope # t
            PROVE  e.guild \in excused'
        <5>1. e \in route[p] /\ e.scope # s
          BY <3>5
        <5>2. CASE e.guild \in file[t].guilds
          BY <4>2, <4>3, <5>1, <5>2, <3>3
        <5>3. CASE e.guild \notin file[t].guilds
          <6>1. t = s /\ e.guild \in draft[p].guilds
            BY <4>3, <5>3, <3>4
          <6>2. PICK r \in route[p] : r.scope = s /\ r.guild = e.guild
            BY <6>1, <5>3, <3>7
          <6>q. QED
            BY <6>2, <5>1, <4>1, <3>3
        <5>q. QED
          BY <5>2, <5>3
      <4>q. QED
        BY <4>1, <4>3, <3>3, <3>5
    <3>11. OneScopeAlone'
      <4>1. ASSUME NEW t \in Scopes, t # s, NEW g, g \in draft[p].guilds, g \in file[t].guilds
            PROVE  g \in excused
        <5>1. CASE g \in file[s].guilds
          BY <3>1, <4>1, <5>1 DEF Order, OneScopeAlone
        <5>2. CASE g \notin file[s].guilds
          <6>1. PICK e \in route[p] : e.scope = s /\ e.guild = g
            BY <4>1, <5>2, <3>7
          <6>q. QED
            BY <6>1, <4>1, <3>1 DEF Order, OneWay
        <5>q. QED
          BY <5>1, <5>2
      <4> SUFFICES ASSUME NEW t \in Scopes, NEW u \in Scopes, t # u, NEW g \in file'[t].guilds, g \in file'[u].guilds
                   PROVE  g \in excused'
        BY DEF OneScopeAlone
      <4>2. CASE t = s
        BY <4>1, <4>2, <3>3, <3>4
      <4>3. CASE u = s
        BY <4>1, <4>3, <3>3, <3>4
      <4>4. CASE t # s /\ u # s
        BY <4>4, <3>3, <3>4 DEF Order, OneScopeAlone
      <4>q. QED
        BY <4>2, <4>3, <4>4
    <3>q. QED
      BY <3>8, <3>9, <3>10, <3>11 DEF Order
  <2>q. QED
    BY <1>3, <2>1, <2>2, <2>3, <2>4, <2>5, <2>6, <2>7, <2>8, <2>9 DEF Step
<1>q. QED
  BY <1>1, <1>2, <1>3 DEF Next

\* A guild is in two scopes only where one of the three ways named with OneScopeAlone
\* led there.
THEOREM OneScopeCorrect == Spec => []OneScopeAlone
<1> DEFINE Ordered == Typed /\ LoneWriter /\ Loader /\ (excused # Guilds => Order)
<1>1. Init => Ordered
  <2> SUFFICES ASSUME Init PROVE Ordered
    OBVIOUS
  <2>1. Typed
    BY InitTyped
  <2>2. LoneWriter /\ Loader
    BY DEF Init, LoneWriter, Loader, Applying
  <2>3. OneRun /\ Found /\ OneWay /\ OneScopeAlone
    BY DEF Init, OneRun, Found, OneWay, OneScopeAlone, Applying
  <2>q. QED
    BY <2>1, <2>2, <2>3 DEF Order
<1>2. Ordered /\ [Next]_vars => Ordered'
  BY NextTyped, LoneStep, LoaderStep, OrderStep
<1>3. Ordered => OneScopeAlone
  <2>1. ASSUME Typed, excused = Guilds PROVE OneScopeAlone
    <3>1. \A s \in Scopes : file[s].guilds \subseteq Guilds
      BY <2>1 DEF Typed, TypeOK, Contents, Missing, Empty
    <3>q. QED
      BY <2>1, <3>1 DEF OneScopeAlone
  <2>q. QED
    BY <2>1 DEF Order
<1> HIDE DEF Ordered
<1>q. QED
  BY <1>1, <1>2, <1>3, PTL DEF Spec

================================================================================
