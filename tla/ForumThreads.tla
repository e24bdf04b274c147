------------------------------ MODULE ForumThreads ------------------------------
(***************************************************************************)
(* The threads of a forum: _scan_channel_threads lists the archived        *)
(* threads page by page (forums.py), fetches each one without a cursor     *)
(* (threads.py) and writes a snapshot over threads.jsonl of the day.       *)
(* Between any two requests threads are posted to, which takes them out of *)
(* the archive, and archived again, which puts them at its head.           *)
(*                                                                         *)
(* Fetch_proofs extends this module beside Attachments, so that the two    *)
(* have no name in common.                                                 *)
(***************************************************************************)
EXTENDS Integers, FiniteSets, Sequences, SequencesExt

CONSTANTS
  Threads,      \* The public threads of the forum.
  Malformed,    \* Those whose record does not validate as a Channel.
  Archived0,    \* The first archive: a sequence of threads, oldest first.
  Page,         \* Threads in a page of the archive.
  MaxPages,     \* max_pages
  MsgPage,      \* DEFAULT_PAGE_SIZE
  MsgCap,       \* max_messages_per_scan
  Posts0,       \* Messages of each thread at first.
  Days,         \* Bound: the days, numbered from 1.
  MaxMoves,     \* Bound: posts and archivings.
  MaxTroubles   \* Bound: failed requests and deaths.

ASSUME ForumAssumption ==
  /\ IsFiniteSet(Threads) /\ Malformed \subseteq Threads /\ Archived0 \in Seq(Threads)
  /\ Page \in Nat \ {0} /\ MaxPages \in Nat \ {0}
  /\ MsgPage \in Nat \ {0} /\ MsgCap \in Nat
  /\ Days \in Nat \ {0} /\ {Posts0, MaxMoves, MaxTroubles} \subseteq Nat

VARIABLES
  stamp,        \* archive_timestamp of each thread, 0 while it is active.
  posts,        \* Messages of each thread; the n-th is <<thread, n>>.
  today,
  moves,
  stage,        \* "idle", "list", "fetch", "write" or "fsync"
  date,         \* scan_date
  before,       \* The cursor of the listing, 0 for None.
  pages,        \* Pages asked for.
  out,          \* Threads listed.
  whole,        \* Ghost: the listing saw a page without has_more.
  still,        \* Ghost: threads in the archive, untouched, since the listing began.
  missed,       \* Ghost: listed threads whose fetch was cut short.
  at,           \* The thread of "out" being fetched.
  seen,         \* last_seen of its fetch, 0 for None.
  raw,          \* raw_msgs
  all,          \* all_thread_messages
  snapshots,    \* threads.jsonl of each day, {} where it is missing or truncated.
  troubles

discord == <<stamp, posts, moves>>
listing == <<before, pages, out, whole>>
fetching == <<at, seen, raw, all, missed>>
forumVars == <<discord, today, stage, date, listing, still, fetching, snapshots, troubles>>

Valid == Threads \ Malformed
Now == Len(Archived0) + moves
MessagesOf(t) == {<<t, n>> : n \in 1..posts[t]}

-----------------------------------------------------------------------------
\* Bugs this code could have had; see the mutants in PROJECT.json.

BeforeLast(page) == stamp[Last(page)] - 1
FromCursor(t) ==
  Max({0} \cup {n \in 1..posts[t] : \E d \in 1..Days : <<t, n>> \in snapshots[d]})
EndThreadAndKeepRaw(kept) ==
  /\ all' = all \cup kept
  /\ raw' = kept
  /\ at' = at + 1
  /\ seen' = 0
  /\ stage' = IF at < Len(out) THEN "fetch" ELSE IF all' = {} THEN "idle" ELSE "write"

-----------------------------------------------------------------------------
\* list_archived_public_threads.

ForumInit ==
  /\ stamp = [t \in Threads |->
       IF t \in ToSet(Archived0) THEN CHOOSE i \in DOMAIN Archived0 : Archived0[i] = t
       ELSE 0]
  /\ posts = [t \in Threads |-> Posts0]
  /\ today = 1 /\ moves = 0
  /\ stage = "idle" /\ date = 1
  /\ before = 0 /\ pages = 0 /\ out = <<>> /\ whole = FALSE /\ still = {}
  /\ at = 1 /\ seen = 0 /\ raw = {} /\ all = {} /\ missed = {}
  /\ snapshots = [d \in 1..Days |-> {}]
  /\ troubles = 0

\* Where the fetch of a thread begins: the orchestrator passes no "after".
From(t) == 0

\* The archive before the cursor, and has_more.
Older == {t \in Threads : stamp[t] # 0 /\ (before = 0 \/ stamp[t] < before)}
HasMore == Cardinality(Older) > Page

\* One answer: the newest threads of it.
IsAnswer(page) ==
  /\ page \subseteq Older
  /\ IF HasMore THEN Cardinality(page) = Page ELSE page = Older
  /\ \A t \in page, o \in Older \ page : stamp[o] < stamp[t]

\* The threads of a page as Discord sorts them.
NewestFirst(page) ==
  {q \in [1..Cardinality(page) -> page] :
     ToSet(q) = page /\ \A i, j \in DOMAIN q : i < j => stamp[q[j]] < stamp[q[i]]}

\* The archive timestamp of the last thread in the previous page.  It goes into the URL as it
\* came, its "+00:00" unescaped: Discord is taken to read it as the instant it wrote, and no
\* two threads are archived at the same instant (a page between two such threads loses one).
NextBefore(page) == stamp[Last(page)]

\* The pass comes to the forum.
StartListing ==
  /\ stage = "idle" /\ stage' = "list"
  /\ date' = today
  /\ before' = 0 /\ pages' = 0 /\ out' = <<>> /\ whole' = FALSE
  /\ still' = {t \in Threads : stamp[t] # 0}
  /\ at' = 1 /\ seen' = 0 /\ raw' = {} /\ all' = {} /\ missed' = {}
  /\ UNCHANGED <<discord, today, snapshots, troubles>>

\* The loop over the threads begins, unless there are none.
ToFetch(threads) ==
  /\ stage' = IF threads = <<>> THEN "idle" ELSE "fetch"
  /\ seen' = IF threads = <<>> THEN 0 ELSE From(Head(threads))

\* A page is answered; _coerce_threads drops the records that do not validate.
ListPage ==
  /\ stage = "list"
  /\ \E page \in SUBSET Older : \E listed \in NewestFirst(page \cap Valid) :
       /\ IsAnswer(page)
       /\ out' = out \o listed
       /\ pages' = pages + 1
       /\ IF HasMore /\ listed # <<>> /\ pages + 1 < MaxPages
          THEN before' = NextBefore(listed) /\ UNCHANGED <<stage, seen>>
          ELSE ToFetch(out') /\ UNCHANGED before
  /\ whole' = ~HasMore
  /\ UNCHANGED <<discord, today, date, still, at, raw, all, missed, snapshots, troubles>>

\* An abort, exhausted retries, an error status or an odd answer: what was listed stays.
ListFails ==
  /\ stage = "list" /\ troubles < MaxTroubles /\ troubles' = troubles + 1
  /\ ToFetch(out)
  /\ UNCHANGED <<discord, today, date, listing, still, at, raw, all, missed, snapshots>>

\* Any other exception: no threads.
ListRaises ==
  /\ stage = "list" /\ troubles < MaxTroubles /\ troubles' = troubles + 1
  /\ stage' = "idle"
  /\ UNCHANGED <<discord, today, date, listing, still, fetching, snapshots>>

-----------------------------------------------------------------------------
\* fetch_thread_messages, for one thread after the other.

\* The messages Discord answers: the newest page, or the page after last_seen.
Batch(t) ==
  IF seen = 0
  THEN {m \in MessagesOf(t) : m[2] > posts[t] - MsgPage}
  ELSE {m \in MessagesOf(t) : seen < m[2] /\ m[2] <= seen + MsgPage}

\* The oldest messages of a batch, until the cap is reached.
Capped(batch) ==
  {m \in batch : Cardinality(raw) + Cardinality({l \in batch : l[2] <= m[2]}) <= MsgCap}

\* The thread is done; "kept" of it are to be written.
EndThread(kept) ==
  /\ all' = all \cup kept
  /\ raw' = {}
  /\ at' = at + 1
  /\ seen' = IF at = Len(out) THEN 0 ELSE From(out[at + 1])
  /\ stage' = IF at < Len(out) THEN "fetch"
           ELSE IF all' = {} THEN "idle" ELSE "write"

\* A page of messages is answered.
FetchPage ==
  /\ stage = "fetch"
  /\ LET batch == Batch(out[at])
         got == raw \cup Capped(batch)
     IN IF Cardinality(batch) < MsgPage \/ Cardinality(got) >= MsgCap
        THEN EndThread(got)
        ELSE /\ raw' = got
             /\ \E last \in batch : seen' = last[2] /\ \A m \in batch : m[2] <= last[2]
             /\ UNCHANGED <<stage, at, all>>
  /\ UNCHANGED <<discord, today, date, listing, still, missed, snapshots, troubles>>

\* An abort or an error status ends the fetch of the thread with what it has.
FetchAborts ==
  /\ stage = "fetch" /\ troubles < MaxTroubles /\ troubles' = troubles + 1
  /\ EndThread(raw) /\ missed' = missed \cup {out[at]}
  /\ UNCHANGED <<discord, today, date, listing, still, snapshots>>

\* An exception drops the thread, pages that were answered included.
FetchRaises ==
  /\ stage = "fetch" /\ troubles < MaxTroubles /\ troubles' = troubles + 1
  /\ EndThread({}) /\ missed' = missed \cup {out[at]}
  /\ UNCHANGED <<discord, today, date, listing, still, snapshots>>

\* write_jsonl: the open truncates the snapshot of the day ...
OpenSnapshot ==
  /\ stage = "write" /\ stage' = "fsync"
  /\ snapshots' = [snapshots EXCEPT ![date] = {}]
  /\ UNCHANGED <<discord, today, date, listing, still, fetching, troubles>>

\* ... and the rest writes the new one.
FsyncSnapshot ==
  /\ stage = "fsync" /\ stage' = "idle"
  /\ snapshots' = [snapshots EXCEPT ![date] = all]
  /\ UNCHANGED <<discord, today, date, listing, still, fetching, troubles>>

-----------------------------------------------------------------------------
\* The members of the forum, the clock, and deaths of the process.

\* A message is posted; the thread leaves the archive.
Post(t) ==
  /\ moves < MaxMoves /\ moves' = moves + 1
  /\ posts' = [posts EXCEPT ![t] = @ + 1]
  /\ stamp' = [stamp EXCEPT ![t] = 0]
  /\ still' = still \ {t}
  /\ UNCHANGED <<today, stage, date, listing, fetching, snapshots, troubles>>

\* An active thread is archived, later than all others.
Archive(t) ==
  /\ moves < MaxMoves /\ moves' = moves + 1
  /\ stamp[t] = 0
  /\ stamp' = [stamp EXCEPT ![t] = Now + 1]
  /\ UNCHANGED <<posts, today, stage, date, listing, still, fetching, snapshots, troubles>>

NextDay ==
  /\ today < Days /\ today' = today + 1
  /\ UNCHANGED <<discord, stage, date, listing, still, fetching, snapshots, troubles>>

Die ==
  /\ stage # "idle" /\ troubles < MaxTroubles /\ troubles' = troubles + 1
  /\ stage' = "idle"
  /\ UNCHANGED <<discord, today, date, listing, still, fetching, snapshots>>

ForumStep ==
  \/ StartListing \/ ListPage
  \/ FetchPage
  \/ OpenSnapshot \/ FsyncSnapshot

ForumNext ==
  \/ ForumStep
  \/ ListFails \/ ListRaises \/ FetchAborts \/ FetchRaises
  \/ \E t \in Threads : Post(t) \/ Archive(t)
  \/ NextDay
  \/ Die

\* A pass goes on, and after it another one begins.
ForumSpec == ForumInit /\ [][ForumNext]_forumVars /\ WF_forumVars(ForumStep)

-----------------------------------------------------------------------------
\* Every variable has its type; the fetch begins with the first listed thread and ends
\* with the last.
ForumTypeOK ==
  /\ stamp \in [Threads -> Nat] /\ posts \in [Threads -> Nat] /\ moves \in Nat
  /\ today \in 1..Days /\ date \in 1..Days
  /\ stage \in {"idle", "list", "fetch", "write", "fsync"}
  /\ before \in Nat /\ pages \in Nat /\ whole \in BOOLEAN
  /\ out \in Seq(Valid) /\ still \subseteq Threads /\ missed \subseteq Valid
  /\ at \in Nat \ {0} /\ seen \in Nat
  /\ raw \subseteq Valid \X Nat /\ all \subseteq Valid \X Nat
  /\ snapshots \in [1..Days -> SUBSET (Valid \X Nat)]
  /\ troubles \in Nat
  /\ stage = "list" => at = 1
  /\ stage = "fetch" => at <= Len(out)

(***************************************************************************)
(* forums.py pages through an archive that changes under it: a listing     *)
(* that came to a page without has_more has every valid thread that stayed *)
(* in the archive since it began; no listing has a thread twice, so that   *)
(* no message stands twice in threads.jsonl, or one that is not valid.     *)
(***************************************************************************)
ListedWhole ==
  /\ out \in Seq(Valid) /\ IsInjective(out)
  /\ whole => still \cap Valid \subseteq ToSet(out)

\* The message before the newest page of a thread, 0 for none.
BeforeNewest(t) == IF posts[t] < MsgPage THEN 0 ELSE posts[t] - MsgPage

\* What a snapshot has of a thread: its newest page, the fetch having no cursor, or the oldest
\* messages of it if the cap is below a page.
NewestPage(t) ==
  {m \in MessagesOf(t) : BeforeNewest(t) < m[2] /\ m[2] <= BeforeNewest(t) + MsgCap}

(***************************************************************************)
(* threads.py fetches the threads one after the other into one list: when  *)
(* the snapshot is written it has the newest page of every listed thread   *)
(* that nobody has posted to since the listing began and whose fetch       *)
(* neither failed nor was aborted, whatever became of the others' fetches  *)
(* and however many pages the threads before it took.                      *)
(***************************************************************************)
SnapshotWhole ==
  stage \in {"write", "fsync"} =>
    \A t \in (still \cap ToSet(out)) \ missed : NewestPage(t) \subseteq all

(***************************************************************************)
(* No cursor is kept for threads ("Stage 3 reads each scan-day's           *)
(* threads.jsonl as a fresh snapshot", orchestrator.py:861).  Whatever     *)
(* fails in a scan or dies between the truncation and the write, the       *)
(* newest page of a thread that remains in the archive is in the snapshot  *)
(* of the day again, as long as the archive fits into max_pages.           *)
(***************************************************************************)
ThreadsCatchUp ==
  \A t \in Valid : <>[](stamp[t] # 0) => []<>(NewestPage(t) \subseteq snapshots[today])

================================================================================
