------------------------------ MODULE ChannelScan ------------------------------
(***************************************************************************)
(* One text channel scanned again and again: the life of its cursor row    *)
(* and of the dump files, as scan_one_channel and _run_backfill            *)
(* (scan/orchestrator.py) drive them through the two paginated fetchers    *)
(* (fetch/messages.py) and the cursor store (cursor/state.py).             *)
(*                                                                         *)
(* The channel keeps receiving messages while it is scanned, messages may  *)
(* be deleted, any request may fail, and the process may die between any   *)
(* two steps, also with the machine, which may take back commits.          *)
(* Messages are snowflakes (naturals, None = 0); the record of a message   *)
(* in Malformed is rejected by Message.from_api.                           *)
(*                                                                         *)
(* One file of a day is one set of messages: messages.jsonl.zst and        *)
(* backfill.jsonl.zst of the day of the last scan are variables; the files *)
(* of earlier days are not, as nothing opens them again.                   *)
(***************************************************************************)
EXTENDS Integers, FiniteSets

CONSTANTS
  FirstId, LastId,  \* The snowflakes the messages of this channel may have.
  WidthStep,        \* The least snowflake whose decimal form is a digit longer.
  InitialPosts,     \* How many messages may exist before the first scan: a set.
  Malformed,        \* Messages whose record does not validate.
  Deletable,        \* Messages their author may delete.
  PageSize,         \* DEFAULT_PAGE_SIZE, Discord's limit= of a request.
  MaxMessages,      \* settings.http.max_messages_per_scan.
  BackfillEnabled,  \* settings.backfill.enabled.
  Budget,           \* settings.backfill.per_scan_message_budget.
  MaxRuns,          \* settings.backfill.max_scan_runs_per_channel.
  MaxFailures,      \* Bound: failed requests.
  MaxCrashes        \* Bound: deaths of the process, power cuts among them.

Ids  == FirstId .. LastId
None == 0           \* A cursor column that is NULL.

ASSUME IdsAssumption ==
  /\ FirstId \in Nat \ {0} /\ LastId \in Nat /\ FirstId <= LastId
  /\ WidthStep \in Nat \ {0}
  /\ Malformed \subseteq Ids /\ Deletable \subseteq Ids
  /\ InitialPosts \subseteq 0 .. (LastId - FirstId + 1)
ASSUME SettingsAssumption ==
  /\ PageSize \in Nat \ {0} /\ MaxMessages \in Nat \ {0}
  /\ Budget \in Nat \ {0}   /\ MaxRuns \in Nat \ {0}
  /\ BackfillEnabled \in BOOLEAN
ASSUME BoundsAssumption == MaxFailures \in Nat /\ MaxCrashes \in Nat

VARIABLES
  \* The channel, at Discord.
  history,          \* Messages that can be fetched now.
  nextId,           \* The snowflake of the next message: they only grow.
  \* The row of cursor.sqlite.
  lastMessageId, oldestSeen, complete, runs,
  disk,             \* The row that a power cut leaves of it, with its anchor.
  \* The dump.
  messagesFile,     \* Today's messages.jsonl.zst.
  backfillFile,     \* Today's backfill.jsonl.zst.
  again,            \* Ghost: an earlier scan of the day has had these files.
  \* The scan in progress (lost when the process dies).
  pc,
  batch,            \* Messages the forward fetch has yielded.
  lastSeen,         \* Its after= cursor.
  walkBatch,        \* Messages the backward walk has yielded.
  lastOldest,       \* Its before= cursor, and the last_oldest_id it reports.
  emitted,          \* How many messages it has yielded.
  reason,           \* BackfillStop.
  \* Bookkeeping: bounds, and history variables the properties need.
  failures, crashes,
  written,          \* Every message some completed write has put in a file.
  anchor            \* The end of the frontier that was recorded first.

channel == <<history, nextId>>
row     == <<lastMessageId, oldestSeen, complete, runs>>
files   == <<messagesFile, backfillFile, again>>
forward == <<batch, lastSeen>>
walk    == <<walkBatch, lastOldest, emitted, reason>>
bounds  == <<failures, crashes>>
vars    == <<channel, row, disk, files, pc, forward, walk, bounds, written, anchor>>

PCs == {"idle", "forward", "pinned", "open", "fsync", "advance", "backfill",
        "walk", "walkOpen", "walkFsync", "walkAdvance", "count", "mark"}
Reasons == {"none", "channel_start", "stuck_cursor", "short_page",
            "cap_reached", "aborted"}

--------------------------------------------------------------------------------
(* Snowflakes and pages.                                                   *)

\* The order of two snowflakes as Python compares their decimal strings.
TextLess(a, b) ==
  \/ (a < WidthStep) = (b < WidthStep) /\ a < b
  \/ a < WidthStep /\ b >= WidthStep   /\ a <= b \div 10
  \/ a >= WidthStep /\ b < WidthStep   /\ a \div 10 < b

AtMost(n, S) == IF Cardinality(S) < n THEN Cardinality(S) ELSE n

\* P holds the n oldest (newest) messages of S, or all of them if S is smaller.
AreOldest(P, n, S) ==
  /\ P \subseteq S
  /\ Cardinality(P) = AtMost(n, S)
  /\ \A m \in P, k \in S \ P : m < k
AreNewest(P, n, S) ==
  /\ P \subseteq S
  /\ Cardinality(P) = AtMost(n, S)
  /\ \A m \in P, k \in S \ P : k < m

\* GET messages?limit=&after=: the messages that follow the cursor or, without
\* a cursor, the newest of the channel (Discord's default).
PageAfter(P) ==
  IF lastSeen = None
  THEN AreNewest(P, PageSize, history)
  ELSE AreOldest(P, PageSize, {m \in history : m > lastSeen})

\* GET messages?limit=&before=.  A page may be short though there are more
\* messages ("deletion gaps or permission slices"), but not empty.  At the start
\* of the channel Discord answers with nothing, or with the cursor's own message.
PageBefore(P) ==
  LET older == {m \in history : lastOldest # None => m < lastOldest} IN
  \/ \E n \in 1 .. PageSize : AreNewest(P, n, older)
  \/ older = {} /\ lastOldest \in history /\ P = {lastOldest}

Valid(S) == S \ Malformed

--------------------------------------------------------------------------------
(* The channel.                                                            *)

Post ==
  /\ nextId <= LastId
  /\ history' = history \cup {nextId}
  /\ nextId' = nextId + 1
  /\ UNCHANGED <<row, disk, files, pc, forward, walk, bounds, written, anchor>>

Delete(m) ==
  /\ m \in history \cap Deletable
  /\ history' = history \ {m}
  /\ UNCHANGED <<nextId, disk, row, files, pc, forward, walk, bounds, written, anchor>>

--------------------------------------------------------------------------------
(* The end of a scan.                                                      *)

\* The scan of the channel is over, or the process is gone: nothing of what it
\* held in memory is used again.
Forget ==
  /\ pc' = "idle"
  /\ batch' = {} /\ lastSeen' = None
  /\ walkBatch' = {} /\ lastOldest' = None /\ emitted' = 0 /\ reason' = "none"

--------------------------------------------------------------------------------
(* Bugs this code could have had: each breaks one property.                *)

\* The cursor is advanced as soon as the file is open.
OpenMessagesAdvancingAtOnce ==
  /\ pc = "open"
  /\ messagesFile' = {}
  /\ pc' = "advance"
  /\ UNCHANGED <<channel, disk, row, backfillFile, again, forward, walk,
                 bounds, written, anchor>>

\* The cursor takes the last id seen, whether its record was written or not.
AdvanceCursorToLastSeen ==
  /\ pc = "advance"
  /\ lastMessageId' = lastSeen
  /\ pc' = "backfill"
  /\ batch' = {} /\ lastSeen' = None
  /\ anchor' = IF anchor = "none" THEN "forward" ELSE anchor
  /\ UNCHANGED <<channel, disk, oldestSeen, complete, runs, files, walk, bounds, written>>

\* The cursor moves only to an id that is greater as a string.
AdvanceCursorAsText ==
  /\ pc = "advance"
  /\ \E newest \in Valid(batch) :
       /\ \A m \in Valid(batch) : m <= newest
       /\ lastMessageId' = IF lastMessageId = None \/ TextLess(lastMessageId, newest)
                           THEN newest ELSE lastMessageId
  /\ pc' = "backfill"
  /\ batch' = {} /\ lastSeen' = None
  /\ anchor' = IF anchor = "none" THEN "forward" ELSE anchor
  /\ UNCHANGED <<channel, disk, oldestSeen, complete, runs, files, walk, bounds, written>>

\* The walk writes its messages to the file of the forward fetch.
FsyncBackfillToMessages ==
  /\ pc = "walkFsync"
  /\ messagesFile' = Valid(walkBatch)
  /\ written' = written \cup Valid(walkBatch)
  /\ pc' = "walkAdvance"
  /\ UNCHANGED <<channel, disk, row, backfillFile, again, forward, walk,
                 bounds, anchor>>

\* A short page is taken for the start of the channel.
CountRunConfirmingShortPages ==
  /\ pc = "count"
  /\ runs' = runs + 1
  /\ IF reason \in {"channel_start", "stuck_cursor", "short_page"}
     THEN pc' = "mark" /\ UNCHANGED <<forward, walk>>
     ELSE Forget
  /\ UNCHANGED <<channel, disk, lastMessageId, oldestSeen, complete, files, bounds,
                 written, anchor>>

\* A walk that wrote nothing is not counted.
CountRunOfWriters ==
  /\ pc = "count"
  /\ runs' = IF Valid(walkBatch) = {} THEN runs ELSE runs + 1
  /\ IF reason \in {"channel_start", "stuck_cursor"}
     THEN pc' = "mark" /\ UNCHANGED <<forward, walk>>
     ELSE Forget
  /\ UNCHANGED <<channel, disk, lastMessageId, oldestSeen, complete, files, bounds,
                 written, anchor>>

--------------------------------------------------------------------------------
(* scan_one_channel: the forward fetch.                                    *)

\* A new scan reads the cursor.  It writes to the directory of its UTC day, which may be
\* that of a scan before (it makes no difference where that one wrote nothing).
StartScan ==
  /\ pc = "idle"
  /\ pc' = "forward"
  /\ batch' = {} /\ lastSeen' = lastMessageId
  /\ \/ /\ messagesFile \cup backfillFile # {} /\ again' = TRUE
        /\ UNCHANGED <<messagesFile, backfillFile>>
     \/ messagesFile' = {} /\ backfillFile' = {} /\ again' = FALSE
  /\ UNCHANGED <<channel, disk, row, walk, bounds, written, anchor>>

\* One round of the loop of fetch_channel_messages.
ForwardPage ==
  /\ pc = "forward"
  /\ \E page \in SUBSET history :
       /\ PageAfter(page)
       /\ \/ /\ page = {}
             /\ pc' = "pinned"
             /\ UNCHANGED forward
          \/ \E kept \in SUBSET page : \E newest \in kept :
               /\ AreOldest(kept, MaxMessages - Cardinality(batch), page)
               /\ \A m \in kept : m <= newest
               /\ batch' = batch \cup kept
               /\ lastSeen' = newest
               /\ pc' = IF \/ Cardinality(batch') >= MaxMessages
                           \/ Cardinality(page) < PageSize
                        THEN "pinned" ELSE "forward"
  /\ UNCHANGED <<channel, disk, row, files, walk, bounds, written, anchor>>

\* ChannelAbort, a status of 400 or more, a body that is not a list, retries
\* exhausted or a dropped connection, in the forward fetch, in the pinned fetch
\* (the last two only) or in the walk (the last two only): the channel is
\* skipped with everything it fetched.
SkipChannel ==
  /\ pc \in {"forward", "pinned", "walk"}
  /\ failures < MaxFailures
  /\ failures' = failures + 1
  /\ Forget
  /\ UNCHANGED <<channel, disk, row, files, crashes, written, anchor>>

\* The pinned messages are fetched and the records of the batch are validated.
FetchPinned ==
  /\ pc = "pinned"
  /\ pc' = IF Valid(batch) = {} THEN "backfill" ELSE "open"
  /\ UNCHANGED <<channel, disk, row, files, forward, walk, bounds, written, anchor>>

\* write_jsonl_zst opens the file of the day with mode "wb" ...
OpenMessages ==
  /\ pc = "open"
  /\ messagesFile' = {}
  /\ pc' = "fsync"
  /\ UNCHANGED <<channel, disk, row, backfillFile, again, forward, walk,
                 bounds, written, anchor>>

\* ... and returns when the compressed records are on disk.
FsyncMessages ==
  /\ pc = "fsync"
  /\ messagesFile' = Valid(batch)
  /\ written' = written \cup Valid(batch)
  /\ pc' = "advance"
  /\ UNCHANGED <<channel, disk, row, backfillFile, again, forward, walk,
                 bounds, anchor>>

\* CursorStore.advance(max(m.message_id for m in messages)): the ids are strings.
AdvanceCursor ==
  /\ pc = "advance"
  /\ \E newLast \in Valid(batch) :
       /\ \A m \in Valid(batch) : ~ TextLess(newLast, m)
       /\ lastMessageId' = newLast
  /\ pc' = "backfill"
  /\ batch' = {} /\ lastSeen' = None
  /\ anchor' = IF anchor = "none" THEN "forward" ELSE anchor
  /\ UNCHANGED <<channel, disk, oldestSeen, complete, runs, files, walk, bounds, written>>

--------------------------------------------------------------------------------
(* _run_backfill: the backward walk.                                       *)

BeginBackfill ==
  /\ pc = "backfill"
  /\ IF BackfillEnabled /\ ~ complete /\ runs < MaxRuns
     THEN /\ pc' = "walk"
          /\ batch' = {} /\ lastSeen' = None
          /\ walkBatch' = {} /\ emitted' = 0 /\ reason' = "none"
          /\ lastOldest' = oldestSeen
     ELSE Forget
  /\ UNCHANGED <<channel, disk, row, files, bounds, written, anchor>>

\* The walk has stopped; without a valid record there is nothing to write.
StopWalk(why) ==
  /\ reason' = why
  /\ pc' = IF Valid(walkBatch') = {} THEN "count" ELSE "walkOpen"

\* One round of the loop of fetch_channel_messages_backward.
WalkPage ==
  /\ pc = "walk"
  /\ \E page \in SUBSET history :
       /\ PageBefore(page)
       /\ \/ /\ page = {}
             /\ UNCHANGED <<walkBatch, lastOldest, emitted>>
             /\ StopWalk("channel_start")
          \/ /\ page = {lastOldest}
             /\ walkBatch' = walkBatch \cup page
             /\ emitted' = emitted + 1
             /\ UNCHANGED lastOldest
             /\ StopWalk("stuck_cursor")
          \/ \E kept \in SUBSET page : \E oldest \in page \ {lastOldest} :
               /\ AreOldest(kept, Budget - emitted, page)
               /\ \A m \in page : oldest <= m
               /\ walkBatch' = walkBatch \cup kept
               /\ emitted' = emitted + Cardinality(kept)
               /\ lastOldest' = oldest
               /\ IF kept # page THEN StopWalk("cap_reached")
                  ELSE IF Cardinality(page) < PageSize THEN StopWalk("short_page")
                  ELSE IF emitted' >= Budget THEN StopWalk("cap_reached")
                  ELSE UNCHANGED <<reason, pc>>
  /\ UNCHANGED <<channel, disk, row, files, forward, bounds, written, anchor>>

\* ChannelAbort, a status of 400 or more or a malformed body ends the walk; the
\* pages it has are kept.
AbortWalk ==
  /\ pc = "walk"
  /\ failures < MaxFailures
  /\ failures' = failures + 1
  /\ UNCHANGED <<walkBatch, lastOldest, emitted>>
  /\ StopWalk("aborted")
  /\ UNCHANGED <<channel, disk, row, files, forward, crashes, written, anchor>>

OpenBackfill ==
  /\ pc = "walkOpen"
  /\ backfillFile' = {}
  /\ pc' = "walkFsync"
  /\ UNCHANGED <<channel, disk, row, messagesFile, again, forward, walk,
                 bounds, written, anchor>>

FsyncBackfill ==
  /\ pc = "walkFsync"
  /\ backfillFile' = Valid(walkBatch)
  /\ written' = written \cup Valid(walkBatch)
  /\ pc' = "walkAdvance"
  /\ UNCHANGED <<channel, disk, row, messagesFile, again, forward, walk,
                 bounds, anchor>>

\* CursorStore.advance_backward keeps the older of the two ids.
AdvanceBackward ==
  /\ pc = "walkAdvance"
  /\ oldestSeen' = IF oldestSeen # None /\ oldestSeen < lastOldest
                   THEN oldestSeen ELSE lastOldest
  /\ pc' = "count"
  /\ anchor' = IF anchor = "none" THEN "backward" ELSE anchor
  /\ UNCHANGED <<channel, disk, lastMessageId, complete, runs, files, forward, walk,
                 bounds, written>>

\* increment_backfill_runs; the scan of the channel ends here unless the start
\* of the channel was confirmed.
CountRun ==
  /\ pc = "count"
  /\ runs' = runs + 1
  /\ IF reason \in {"channel_start", "stuck_cursor"}
     THEN pc' = "mark" /\ UNCHANGED <<forward, walk>>
     ELSE Forget
  /\ UNCHANGED <<channel, disk, lastMessageId, oldestSeen, complete, files, bounds,
                 written, anchor>>

MarkBackfilled ==
  /\ pc = "mark"
  /\ complete' = TRUE
  /\ anchor' = IF anchor = "none" THEN "backward" ELSE anchor
  /\ Forget
  /\ UNCHANGED <<channel, disk, lastMessageId, oldestSeen, runs, files, bounds, written>>

\* The process dies; sqlite and the files keep what they have.
Crash ==
  /\ pc # "idle"
  /\ crashes < MaxCrashes
  /\ crashes' = crashes + 1
  /\ Forget
  /\ UNCHANGED <<channel, disk, row, files, failures, written, anchor>>

--------------------------------------------------------------------------------
(* Commits and the disk.  In WAL mode with synchronous = NORMAL a commit is *)
(* not synced: the row on the disk is one the table had, and not always the *)
(* last.                                                                    *)

Committed == [last |-> lastMessageId, oldest |-> oldestSeen, complete |-> complete,
              runs |-> runs, anchor |-> anchor]

\* The system writes the log back, or a checkpoint syncs it.
WriteBack ==
  /\ disk' = Committed
  /\ UNCHANGED <<channel, row, files, pc, forward, walk, bounds, written, anchor>>

\* The power fails: the commits that have not been written back are lost with the
\* process; the files, which were synced, are not.
PowerCut ==
  /\ crashes < MaxCrashes
  /\ crashes' = crashes + 1
  /\ lastMessageId' = disk.last /\ oldestSeen' = disk.oldest
  /\ complete' = disk.complete /\ runs' = disk.runs /\ anchor' = disk.anchor
  /\ Forget
  /\ UNCHANGED <<channel, disk, files, failures, written>>

--------------------------------------------------------------------------------
Init ==
  /\ \E n \in InitialPosts :
       /\ history = FirstId .. (FirstId + n - 1)
       /\ nextId = FirstId + n
  /\ lastMessageId = None /\ oldestSeen = None /\ complete = FALSE /\ runs = 0
  /\ messagesFile = {} /\ backfillFile = {} /\ again = FALSE
  /\ pc = "idle"
  /\ batch = {} /\ lastSeen = None
  /\ walkBatch = {} /\ lastOldest = None /\ emitted = 0 /\ reason = "none"
  /\ failures = 0 /\ crashes = 0 /\ written = {} /\ anchor = "none"
  /\ disk = Committed

\* The steps of a scan once it has started.
ScanStep ==
  \/ ForwardPage \/ FetchPinned \/ OpenMessages \/ FsyncMessages \/ AdvanceCursor
  \/ BeginBackfill \/ WalkPage \/ OpenBackfill \/ FsyncBackfill \/ AdvanceBackward
  \/ CountRun \/ MarkBackfilled

Next ==
  \/ Post
  \/ \E m \in Deletable : Delete(m)
  \/ StartScan
  \/ ScanStep
  \/ SkipChannel
  \/ AbortWalk
  \/ Crash
  \/ WriteBack
  \/ PowerCut

Spec == Init /\ [][Next]_vars

\* The daemon starts scan after scan and every request is answered at last, with
\* a page or with an error (the HTTP client has timeouts).
Fairness == WF_vars(StartScan) /\ WF_vars(ScanStep)

FairSpec == Spec /\ Fairness

--------------------------------------------------------------------------------
(* Properties.                                                             *)

TypeOK ==
  /\ history \subseteq Ids /\ nextId \in FirstId .. (LastId + 1)
  /\ lastMessageId \in Ids \cup {None} /\ oldestSeen \in Ids \cup {None}
  /\ complete \in BOOLEAN /\ runs \in Nat
  /\ disk \in [last : Ids \cup {None}, oldest : Ids \cup {None}, complete : BOOLEAN,
               runs : Nat, anchor : {"none", "forward", "backward"}]
  /\ messagesFile \subseteq Ids /\ backfillFile \subseteq Ids
  /\ again \in BOOLEAN
  /\ pc \in PCs
  /\ batch \subseteq Ids /\ lastSeen \in Ids \cup {None}
  /\ walkBatch \subseteq Ids /\ lastOldest \in Ids \cup {None}
  /\ emitted \in Nat /\ reason \in Reasons
  /\ failures \in 0 .. MaxFailures /\ crashes \in 0 .. MaxCrashes
  /\ written \subseteq Ids
  /\ anchor \in {"none", "forward", "backward"}

\* The messages between the two ends of the frontier, both included.
Frontier == {m \in Valid(history) : oldestSeen <= m /\ m <= lastMessageId}

\* The row never claims a message that was not recorded: when the forward cursor
\* came first, everything between the two ends that can still be fetched has been
\* written by a write that returned.  (advance() and advance_backward() run only
\* after the fsync, and the backward walk starts at the newest message.)
FrontierSeamless ==
  anchor = "forward" /\ oldestSeen # None => Frontier \subseteq written

\* backfill_complete means what it says: when the forward cursor came first, no
\* message up to that cursor is missing, down to the start of the channel.
\* (mark_backfilled runs only on CHANNEL_START and STUCK_CURSOR.)
BackfilledIsWhole ==
  anchor = "forward" /\ complete =>
    \A m \in Valid(history) : m <= lastMessageId => m \in written

OnDisk == messagesFile \cup backfillFile

\* What was recorded leaves the files of its UTC day only where a later scan of that day
\* opens one again, with new messages for it.  Then it is gone from the dump for good, as
\* the cursor has passed it; but no crash, no skipped channel, no scan without news and no
\* file of the other kind that is written takes anything away.
KeptOnDisk ==
  [][~ OnDisk \subseteq OnDisk' =>
       \/ pc = "idle" /\ ~ again'    \* A new day has new files, the old ones stay.
       \/ again /\ pc = "open" /\ Valid(batch) # {}
       \/ again /\ pc = "walkOpen" /\ Valid(walkBatch) # {}]_vars

\* The cursor row keeps the promise of module Archive, step by step.
Promise == INSTANCE Archive WITH
  Ids <- Ids, None <- None, Malformed <- Malformed,
  history <- history, nextId <- nextId, written <- written,
  lastMessageId <- lastMessageId, oldestSeen <- oldestSeen, complete <- complete,
  disk <- <<disk.last, disk.oldest, disk.complete>>
PromiseKept == Promise!Spec

\* Every message that stays is passed by the forward cursor in the end, once there is
\* one: failures, crashes and lost commits only delay it.
ForwardCatchesUp ==
  \A m \in Ids \ Malformed :
    <>[](m \in history /\ lastMessageId # None) => <>[](m <= lastMessageId)

\* The walk does not go on for ever: the start of the channel is confirmed or the
\* safety bound on the runs is reached, and that verdict is final.
BackfillSettles == <>[](~ BackfillEnabled \/ complete \/ runs >= MaxRuns)

(* What a comment says of the program, and what it does not do.             *)

\* cursor/state.py, CursorFrontier: "Both ends of a channel's scanned history",
\* whichever end was recorded first.
FrontierIsScanned ==
  oldestSeen # None /\ lastMessageId # None => Frontier \subseteq written

================================================================================
