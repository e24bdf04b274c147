-------------------------- MODULE ChannelScan_proofs --------------------------
(***************************************************************************)
(* Theorems about ChannelScan for every value of its constants: every set  *)
(* of snowflakes, every page size, cap and budget, any number of failures, *)
(* crashes and power cuts.                                                 *)
(***************************************************************************)
EXTENDS ChannelScan, FiniteSetTheorems, TLAPS

\* The budget of a walk is a whole number of pages (the defaults are 5000 and
\* 100).  Without it a walk that stops inside a page loses the rest of the page.
WholePages == \E k \in Nat : Budget = k * PageSize

--------------------------------------------------------------------------------
(* The inductive invariant.                                                *)

\* Snowflakes are handed out in order: whatever is known is older than the next.
OlderThanNext ==
  /\ \A m \in history \cup batch \cup walkBatch \cup written : m < nextId
  /\ lastMessageId < nextId /\ oldestSeen < nextId
  /\ lastSeen < nextId /\ lastOldest < nextId

AnchorInv ==
  /\ anchor = "none" => lastMessageId = None /\ oldestSeen = None /\ ~ complete
  /\ anchor = "forward" => lastMessageId # None

\* The batch of a forward fetch holds all there is between the cursor and the
\* last message seen.
ForwardInv ==
  pc \in {"forward", "pinned", "open", "fsync", "advance"} =>
    /\ \A m \in batch : m <= lastSeen
    /\ lastMessageId # None =>
         /\ \A m \in batch : lastMessageId < m
         /\ lastMessageId <= lastSeen
         /\ \A m \in history : lastMessageId < m /\ m <= lastSeen => m \in batch
    /\ pc = "forward" => (lastMessageId = None \/ lastSeen # None)
    /\ pc = "advance" => Valid(batch) \subseteq written

\* The walk's messages hold all there is from the oldest of them up to the older
\* end of the frontier, or up to the forward cursor if there is no older end yet.
WalkInv ==
  pc \in {"walk", "walkOpen", "walkFsync", "walkAdvance"} =>
    /\ lastOldest = None => walkBatch = {} /\ oldestSeen = None
    /\ oldestSeen # None =>
         /\ lastOldest <= oldestSeen
         /\ \A m \in history : lastOldest <= m /\ m < oldestSeen => m \in walkBatch
    /\ oldestSeen = None /\ lastOldest # None =>
         \A m \in history : lastOldest <= m /\ m <= lastMessageId => m \in walkBatch
    /\ pc = "walkAdvance" => Valid(walkBatch) \subseteq written
    /\ pc # "walk" => Valid(walkBatch) # {}

\* The walk goes on only with room for a whole page.
BudgetInv ==
  pc = "walk" => emitted < Budget /\ \E k \in Nat : emitted = k * PageSize

\* Nothing valid is older than low (or, without a low, than the forward cursor).
StartsAt(low) ==
  \A m \in Valid(history) : IF low # None THEN low <= m ELSE lastMessageId < m

Confirmed == reason \in {"channel_start", "stuck_cursor"}

\* A confirmed start is the start.
StartInv ==
  /\ pc \in {"walkOpen", "walkFsync", "walkAdvance"} /\ Confirmed => StartsAt(lastOldest)
  /\ pc \in {"count", "mark"} /\ Confirmed => StartsAt(oldestSeen)
  /\ pc = "mark" => Confirmed

\* The row on the disk, which a power cut brings back, was the row once; what it said
\* then is still true, since nothing recorded is lost and new messages are newer.
DiskInv ==
  /\ disk.last < nextId /\ disk.oldest < nextId
  /\ disk.anchor = "none" => disk.last = None /\ disk.oldest = None /\ ~ disk.complete
  /\ disk.anchor = "forward" =>
       /\ disk.last # None
       /\ disk.oldest # None =>
            \A m \in Valid(history) : disk.oldest <= m /\ m <= disk.last => m \in written
       /\ disk.complete => \A m \in Valid(history) : m <= disk.last => m \in written

FrontierInv ==
  /\ OlderThanNext
  /\ AnchorInv
  /\ ForwardInv
  /\ WalkInv
  /\ BudgetInv
  /\ StartInv
  /\ FrontierSeamless
  /\ BackfilledIsWhole


--------------------------------------------------------------------------------
(* Facts about snowflakes and pages.                                       *)

\* The snowflakes are positive, so that None is none of them, and finitely many.
LEMMA IdsFacts == Ids \subseteq Nat \ {0} /\ None \notin Ids /\ IsFiniteSet(Ids)
  BY IdsAssumption, FS_Interval DEF Ids, None

\* A page is a finite part of what it is taken from, and no longer than asked.
LEMMA PageFacts ==
  ASSUME NEW S, IsFiniteSet(S), NEW P \in SUBSET S, NEW n \in Nat,
         Cardinality(P) = AtMost(n, S)
  PROVE  /\ IsFiniteSet(P) /\ Cardinality(P) \in Nat /\ Cardinality(P) <= n
         /\ P = {} /\ n > 0 => S = {}
  <1>1. IsFiniteSet(P) /\ Cardinality(P) \in Nat /\ Cardinality(S) \in Nat
    BY FS_Subset, FS_CardinalityType
  <1>2. Cardinality(P) <= n
    BY <1>1 DEF AtMost
  <1>3. ASSUME P = {}, n > 0  PROVE S = {}
    <2>1. Cardinality(P) = 0  BY <1>3, FS_EmptySet
    <2>2. Cardinality(S) = 0  BY <1>1, <1>3, <2>1 DEF AtMost
    <2>3. QED  BY <2>2, FS_EmptySet
  <1>4. QED  BY <1>1, <1>2, <1>3

\* A loop with room for the whole page keeps the whole page.
LEMMA KeepsWholePage ==
  ASSUME NEW page, IsFiniteSet(page), NEW n \in Int, Cardinality(page) <= n,
         NEW kept, AreOldest(kept, n, page)
  PROVE  kept = page
  <1>1. Cardinality(page) \in Nat  BY FS_CardinalityType
  <1>2. kept \in SUBSET page /\ Cardinality(kept) = Cardinality(page)
    BY <1>1 DEF AreOldest, AtMost
  <1>3. QED  BY <1>2, FS_Subset

\* Nothing of S is older (newer) than a member of the page of its newest (oldest)
\* messages and not in the page.
LEMMA NewestClosed ==
  ASSUME NEW S \in SUBSET Int, NEW n, NEW P, AreNewest(P, n, S),
         NEW o \in P, NEW m \in S, o <= m
  PROVE  m \in P
  BY DEF AreNewest

\* The same for a page of the oldest messages: nothing older is left out.
LEMMA OldestClosed ==
  ASSUME NEW S \in SUBSET Int, NEW n, NEW P, AreOldest(P, n, S),
         NEW o \in P, NEW m \in S, m <= o
  PROVE  m \in P
  BY DEF AreOldest

--------------------------------------------------------------------------------
(* Types.                                                                  *)

\* Every reachable state is well typed.
THEOREM TypeCorrect == Spec => []TypeOK
  <1> USE IdsFacts, IdsAssumption, SettingsAssumption, BoundsAssumption
  <1>1. Init => TypeOK
    <2> SUFFICES ASSUME Init PROVE TypeOK  OBVIOUS
    <2>1. PICK n \in InitialPosts : history = FirstId .. (FirstId + n - 1) /\ nextId = FirstId + n
      BY DEF Init
    <2>2. n \in 0 .. (LastId - FirstId + 1)  OBVIOUS
    <2>3. history \subseteq Ids /\ nextId \in FirstId .. (LastId + 1)
      BY <2>1, <2>2 DEF Ids
    <2>4. /\ lastMessageId \in Ids \cup {None} /\ oldestSeen \in Ids \cup {None}
          /\ complete \in BOOLEAN /\ runs \in Nat
      BY DEF Init
    <2>5. /\ messagesFile \subseteq Ids /\ backfillFile \subseteq Ids /\ again \in BOOLEAN
          /\ batch \subseteq Ids
          /\ walkBatch \subseteq Ids /\ written \subseteq Ids
      BY DEF Init
    <2>6. /\ lastSeen \in Ids \cup {None} /\ lastOldest \in Ids \cup {None}
          /\ emitted \in Nat
      BY DEF Init
    <2>7. /\ failures \in 0 .. MaxFailures /\ crashes \in 0 .. MaxCrashes
      BY DEF Init
    <2>8. /\ pc \in PCs /\ reason \in Reasons
          /\ anchor \in {"none", "forward", "backward"}
      BY DEF Init, PCs, Reasons
    <2>9. disk \in [last : Ids \cup {None}, oldest : Ids \cup {None}, complete : BOOLEAN,
                   runs : Nat, anchor : {"none", "forward", "backward"}]
      BY <2>4, <2>8 DEF Init, Committed
    <2>10. QED  BY <2>3, <2>4, <2>5, <2>6, <2>7, <2>8, <2>9 DEF TypeOK
  <1>2. TypeOK /\ [Next]_vars => TypeOK'
    <2> SUFFICES ASSUME TypeOK, [Next]_vars PROVE TypeOK'  OBVIOUS
    <2> USE DEF TypeOK, channel, row, files, forward, walk, bounds, PCs, Reasons
    <2>1. CASE Post
      <3>1. history' \subseteq Ids /\ nextId' \in FirstId .. (LastId + 1)
        BY <2>1 DEF Post, Ids
      <3>2. QED  BY <2>1, <3>1 DEF Post
    <2>2. CASE \E m \in Deletable : Delete(m)  BY <2>2 DEF Delete
    <2>3. CASE StartScan
      <3>1. messagesFile' \subseteq Ids /\ backfillFile' \subseteq Ids /\ again' \in BOOLEAN
        BY <2>3 DEF StartScan
      <3>2. /\ batch' \subseteq Ids /\ lastSeen' \in Ids \cup {None}
            /\ pc' \in PCs
        BY <2>3 DEF StartScan
      <3>3. QED  BY <2>3, <3>1, <3>2 DEF StartScan
    <2>4. CASE ForwardPage
      <3>1. batch' \subseteq Ids /\ lastSeen' \in Ids \cup {None} /\ pc' \in PCs
        BY <2>4 DEF ForwardPage
      <3>2. QED  BY <2>4, <3>1 DEF ForwardPage
    <2>5. CASE FetchPinned  BY <2>5 DEF FetchPinned
    <2>6. CASE OpenMessages  BY <2>6 DEF OpenMessages
    <2>7. CASE FsyncMessages  BY <2>7 DEF FsyncMessages, Valid
    <2>8. CASE AdvanceCursor  BY <2>8 DEF AdvanceCursor, Valid
    <2>9. CASE BeginBackfill
      <3>1. CASE Forget  BY <2>9, <3>1 DEF BeginBackfill, Forget
      <3>2. CASE ~ Forget  BY <2>9, <3>2 DEF BeginBackfill
      <3>3. QED  BY <3>1, <3>2
    <2>10. CASE WalkPage
      <3>1. PICK page \in SUBSET history :
              \/ page = {} /\ UNCHANGED <<walkBatch, lastOldest, emitted>>
                 /\ StopWalk("channel_start")
              \/ page = {lastOldest} /\ walkBatch' = walkBatch \cup page
                 /\ emitted' = emitted + 1 /\ UNCHANGED lastOldest
                 /\ StopWalk("stuck_cursor")
              \/ \E kept \in SUBSET page : \E oldest \in page :
                   /\ walkBatch' = walkBatch \cup kept
                   /\ emitted' = emitted + Cardinality(kept)
                   /\ lastOldest' = oldest
                   /\ \/ \E why \in Reasons : StopWalk(why)
                      \/ UNCHANGED <<reason, pc>>
        BY <2>10 DEF WalkPage
      <3>2. \A S \in SUBSET page : Cardinality(S) \in Nat
        BY FS_Subset, FS_CardinalityType
      <3>3. walkBatch' \subseteq Ids /\ lastOldest' \in Ids \cup {None}
        BY <3>1
      <3>4. emitted' \in Nat
        BY <3>1, <3>2
      <3>5. reason' \in Reasons /\ pc' \in PCs
        BY <3>1 DEF StopWalk
      <3>6. QED  BY <2>10, <3>3, <3>4, <3>5 DEF WalkPage
    <2>11. CASE OpenBackfill  BY <2>11 DEF OpenBackfill
    <2>12. CASE FsyncBackfill  BY <2>12 DEF FsyncBackfill, Valid
    <2>13. CASE AdvanceBackward  BY <2>13 DEF AdvanceBackward
    <2>14. CASE CountRun
      <3>1. /\ runs' \in Nat
            /\ UNCHANGED <<channel, disk, lastMessageId, oldestSeen, complete, files, bounds,
                           written, anchor>>
        BY <2>14 DEF CountRun
      <3>2. CASE Forget  BY <3>1, <3>2 DEF Forget
      <3>3. CASE pc' = "mark" /\ UNCHANGED <<forward, walk>>  BY <3>1, <3>3
      <3>4. QED  BY <2>14, <3>2, <3>3 DEF CountRun
    <2>15. CASE MarkBackfilled  BY <2>15 DEF MarkBackfilled, Forget
    <2>16. CASE SkipChannel  BY <2>16 DEF SkipChannel, Forget
    <2>17. CASE AbortWalk  BY <2>17 DEF AbortWalk, StopWalk
    <2>18. CASE Crash  BY <2>18 DEF Crash, Forget
    <2>19. CASE WriteBack  BY <2>19 DEF WriteBack, Committed
    <2>20. CASE PowerCut  BY <2>20 DEF PowerCut, Forget
    <2>21. CASE UNCHANGED vars  BY <2>21 DEF vars
    <2>22. QED
      BY <2>1, <2>2, <2>3, <2>4, <2>5, <2>6, <2>7, <2>8, <2>9, <2>10, <2>11, <2>12,
         <2>13, <2>14, <2>15, <2>16, <2>17, <2>18, <2>19, <2>20, <2>21 DEF Next, ScanStep
  <1>3. QED  BY <1>1, <1>2, PTL DEF Spec

--------------------------------------------------------------------------------
(* The frontier.                                                           *)

\* The sorts of the state, as the steps below need them.
LEMMA Sorts ==
  TypeOK =>
    /\ nextId \in Nat /\ lastMessageId \in Nat /\ oldestSeen \in Nat
    /\ lastSeen \in Nat /\ lastOldest \in Nat /\ emitted \in Nat
    /\ history \subseteq Nat /\ batch \subseteq Nat /\ walkBatch \subseteq Nat
    /\ written \subseteq Nat /\ None \notin history /\ None \in Nat
    /\ complete \in BOOLEAN
    /\ disk.last \in Nat /\ disk.oldest \in Nat /\ disk.complete \in BOOLEAN
  <1> HAVE TypeOK
  <1>1. Ids \cup {None} \subseteq Nat  BY IdsFacts DEF None
  <1>2. nextId \in Nat  BY IdsAssumption DEF TypeOK
  <1>3. disk.last \in Nat /\ disk.oldest \in Nat /\ disk.complete \in BOOLEAN
    BY <1>1 DEF TypeOK
  <1>4. QED  BY <1>1, <1>2, <1>3, IdsFacts DEF TypeOK

\* Before the first scan nothing is recorded and nothing is claimed.
LEMMA InitFrontierInv == Init => FrontierInv
  <1> SUFFICES ASSUME Init PROVE FrontierInv  OBVIOUS
  <1>1. PICK n \in InitialPosts : history = FirstId .. (FirstId + n - 1) /\ nextId = FirstId + n
    BY DEF Init
  <1>2. FirstId \in Nat \ {0} /\ n \in Nat
    BY IdsAssumption
  <1>3. OlderThanNext
    BY <1>1, <1>2 DEF Init, OlderThanNext, None
  <1>4. AnchorInv /\ FrontierSeamless /\ BackfilledIsWhole
    BY DEF Init, AnchorInv, FrontierSeamless, BackfilledIsWhole
  <1>5. ForwardInv /\ WalkInv /\ BudgetInv /\ StartInv
    BY DEF Init, ForwardInv, WalkInv, BudgetInv, StartInv
  <1>6. QED  BY <1>3, <1>4, <1>5 DEF FrontierInv

\* A step of the channel itself: a new message is newer than all that is known,
\* and a deletion only takes a message away.
LEMMA ChannelStep ==
  ASSUME TypeOK, FrontierInv, Post \/ \E m \in Deletable : Delete(m)
  PROVE  FrontierInv'
  <1> USE Sorts
  <1>1. /\ UNCHANGED <<lastMessageId, oldestSeen, complete, pc, batch, lastSeen,
                       walkBatch, lastOldest, emitted, reason, written, anchor>>
        /\ nextId' \in Nat /\ nextId <= nextId'
    BY DEF Post, Delete, row, forward, walk
  <1>2. \A m \in history' : m \in history \/ (m = nextId /\ m < nextId')
    BY DEF Post, Delete
  <1>3. OlderThanNext'
    BY <1>1, <1>2 DEF FrontierInv, OlderThanNext
  <1>4. AnchorInv' /\ BudgetInv'
    BY <1>1 DEF FrontierInv, AnchorInv, BudgetInv
  <1>5. ForwardInv'
    BY <1>1, <1>2 DEF FrontierInv, ForwardInv, OlderThanNext, Valid
  <1>6. WalkInv'
    BY <1>1, <1>2 DEF FrontierInv, WalkInv, OlderThanNext, Valid
  <1>7. StartInv'
    BY <1>1, <1>2 DEF FrontierInv, StartInv, StartsAt, Confirmed, OlderThanNext, Valid
  <1>8. FrontierSeamless' /\ BackfilledIsWhole'
    BY <1>1, <1>2 DEF FrontierInv, FrontierSeamless, BackfilledIsWhole, Frontier,
                      OlderThanNext, Valid
  <1>9. QED  BY <1>3, <1>4, <1>5, <1>6, <1>7, <1>8 DEF FrontierInv

\* A step that leaves the channel, the row and what was written alone, and drops
\* what the scan holds: the channel is skipped, or the process dies.
LEMMA ForgetStep ==
  ASSUME TypeOK, FrontierInv, Forget,
         UNCHANGED <<history, nextId, lastMessageId, oldestSeen, complete, written, anchor>>
  PROVE  FrontierInv'
  <1> USE Sorts DEF Forget
  <1>1. OlderThanNext'  BY DEF FrontierInv, OlderThanNext, None
  <1>2. AnchorInv' /\ BudgetInv'  BY DEF FrontierInv, AnchorInv, BudgetInv
  <1>3. ForwardInv' /\ WalkInv'  BY DEF ForwardInv, WalkInv
  <1>4. StartInv'  BY DEF StartInv
  <1>5. FrontierSeamless' /\ BackfilledIsWhole'
    BY DEF FrontierInv, FrontierSeamless, BackfilledIsWhole, Frontier, Valid
  <1>6. QED  BY <1>1, <1>2, <1>3, <1>4, <1>5 DEF FrontierInv

\* The steps of the forward fetch and of its write.
LEMMA StartScanStep ==
  ASSUME TypeOK, FrontierInv, StartScan  PROVE FrontierInv'
  <1> USE Sorts DEF StartScan, channel, row, walk
  <1>1. OlderThanNext'  BY DEF FrontierInv, OlderThanNext
  <1>2. AnchorInv' /\ BudgetInv'  BY DEF FrontierInv, AnchorInv, BudgetInv
  <1>3. ForwardInv' /\ WalkInv' /\ StartInv'  BY DEF ForwardInv, WalkInv, StartInv
  <1>4. FrontierSeamless' /\ BackfilledIsWhole'
    BY DEF FrontierInv, FrontierSeamless, BackfilledIsWhole, Frontier, Valid
  <1>5. QED  BY <1>1, <1>2, <1>3, <1>4 DEF FrontierInv

\* A page of the forward fetch: the batch stays the whole of what lies between the
\* forward cursor and the newest message seen.
LEMMA ForwardPageStep ==
  ASSUME TypeOK, FrontierInv, ForwardPage  PROVE FrontierInv'
  <1> USE Sorts
  <1>1. /\ UNCHANGED <<history, nextId, lastMessageId, oldestSeen, complete, walkBatch,
                       lastOldest, emitted, reason, written, anchor>>
        /\ pc = "forward" /\ pc' \in {"forward", "pinned"}
    BY DEF ForwardPage, channel, row, walk
  <1>2. CASE UNCHANGED forward /\ pc' = "pinned"
    <2>1. OlderThanNext'  BY <1>1, <1>2 DEF FrontierInv, OlderThanNext, forward
    <2>2. ForwardInv'  BY <1>1, <1>2 DEF FrontierInv, ForwardInv, forward
    <2>3. QED  BY <1>1, <2>1, <2>2 DEF FrontierInv, AnchorInv, WalkInv, BudgetInv,
                  StartInv, FrontierSeamless, BackfilledIsWhole, Frontier, Valid
  <1>3. CASE ~ (UNCHANGED forward /\ pc' = "pinned")
    <2>1. PICK page \in SUBSET history, kept \in SUBSET history, newest \in history :
            /\ PageAfter(page) /\ kept \subseteq page /\ newest \in kept
            /\ AreOldest(kept, MaxMessages - Cardinality(batch), page)
            /\ \A m \in kept : m <= newest
            /\ batch' = batch \cup kept
            /\ lastSeen' = newest
      BY <1>3 DEF ForwardPage
    <2>2. OlderThanNext'  BY <1>1, <2>1 DEF FrontierInv, OlderThanNext
    <2>3. ASSUME lastMessageId = None PROVE ForwardInv'
      <3>1. \A m \in batch : m <= lastSeen
        BY <1>1 DEF FrontierInv, ForwardInv
      <3>2. CASE lastSeen = None
        <4>1. batch = {}
          BY <3>1, <3>2, IdsFacts DEF TypeOK, None
        <4>2. QED  BY <1>1, <2>1, <2>3, <4>1 DEF ForwardInv
      <3>3. CASE lastSeen # None
        <4>1. lastSeen < newest
          BY <2>1, <3>3 DEF PageAfter, AreOldest
        <4>2. QED  BY <1>1, <2>1, <2>3, <3>1, <4>1 DEF ForwardInv
      <3>4. QED  BY <3>2, <3>3
    <2>4. ASSUME lastMessageId # None PROVE ForwardInv'
      <3>1. /\ \A m \in batch : m <= lastSeen /\ lastMessageId < m
            /\ lastMessageId <= lastSeen /\ lastSeen # None
            /\ \A m \in history : lastMessageId < m /\ m <= lastSeen => m \in batch
        BY <1>1, <2>4 DEF FrontierInv, ForwardInv
      <3>2. AreOldest(page, PageSize, {m \in history : m > lastSeen})
        BY <2>1, <3>1 DEF PageAfter
      <3>3. \A m \in kept : lastSeen < m
        BY <2>1, <3>2 DEF AreOldest
      <3>4. \A m \in history : lastSeen < m /\ m <= newest => m \in kept
        <4> SUFFICES ASSUME NEW m \in history, lastSeen < m, m <= newest  PROVE m \in kept
          OBVIOUS
        <4>1. m \in page  BY <2>1, <3>2 DEF AreOldest
        <4>2. QED  BY <2>1, <4>1 DEF AreOldest
      <3>5. QED  BY <1>1, <2>1, <2>4, <3>1, <3>3, <3>4 DEF ForwardInv
    <2>5. ForwardInv'  BY <2>3, <2>4
    <2>6. QED  BY <1>1, <2>2, <2>5 DEF FrontierInv, AnchorInv, WalkInv, BudgetInv,
                  StartInv, FrontierSeamless, BackfilledIsWhole, Frontier, Valid
  <1>4. QED  BY <1>2, <1>3

\* The two steps of write_jsonl_zst put the batch in the file and nothing else.
LEMMA WriteMessagesStep ==
  ASSUME TypeOK, FrontierInv, FetchPinned \/ OpenMessages \/ FsyncMessages
  PROVE  FrontierInv'
  <1> USE Sorts
  <1>1. /\ UNCHANGED <<history, nextId, lastMessageId, oldestSeen, complete, batch,
                       lastSeen, walkBatch, lastOldest, emitted, reason, anchor>>
        /\ pc \in {"pinned", "open", "fsync"}
        /\ pc' \in {"open", "fsync", "advance", "backfill"}
        /\ written' = written \/ written' = written \cup Valid(batch)
        /\ pc' = "advance" => written' = written \cup Valid(batch)
    BY DEF FetchPinned, OpenMessages, FsyncMessages, channel, row, forward, walk
  <1>2. OlderThanNext'  BY <1>1 DEF FrontierInv, OlderThanNext, Valid
  <1>3. ForwardInv'  BY <1>1 DEF FrontierInv, ForwardInv, Valid
  <1>4. AnchorInv' /\ WalkInv' /\ BudgetInv' /\ StartInv'
    BY <1>1 DEF FrontierInv, AnchorInv, WalkInv, BudgetInv, StartInv
  <1>5. FrontierSeamless' /\ BackfilledIsWhole'
    BY <1>1 DEF FrontierInv, FrontierSeamless, BackfilledIsWhole, Frontier, Valid
  <1>6. QED  BY <1>2, <1>3, <1>4, <1>5 DEF FrontierInv

\* The cursor moves over the batch: whatever the order of the strings, it lands on
\* a message of the batch, and all it passes has been written.
LEMMA AdvanceCursorStep ==
  ASSUME TypeOK, FrontierInv, AdvanceCursor  PROVE FrontierInv'
  <1> USE Sorts
  <1>1. PICK newLast \in Valid(batch) : lastMessageId' = newLast
    BY DEF AdvanceCursor
  <1>2. /\ UNCHANGED <<history, nextId, oldestSeen, complete, walkBatch, lastOldest,
                       emitted, reason, written>>
        /\ pc = "advance" /\ pc' = "backfill" /\ batch' = {} /\ lastSeen' = None
        /\ anchor' = IF anchor = "none" THEN "forward" ELSE anchor
    BY DEF AdvanceCursor, channel, walk
  <1>3. newLast \in batch /\ newLast \in Nat /\ newLast # None
    BY <1>1, IdsFacts DEF Valid, TypeOK
  <1>4. /\ newLast <= lastSeen /\ Valid(batch) \subseteq written
        /\ lastMessageId # None =>
             /\ lastMessageId < newLast
             /\ \A m \in history : lastMessageId < m /\ m <= lastSeen => m \in batch
    BY <1>2, <1>3 DEF FrontierInv, ForwardInv
  <1>5. \A m \in Valid(history) :
          lastMessageId # None /\ lastMessageId < m /\ m <= newLast => m \in written
    BY <1>3, <1>4 DEF Valid
  <1>6. OlderThanNext'
    BY <1>1, <1>2, <1>3 DEF FrontierInv, OlderThanNext, None
  <1>7. AnchorInv'
    BY <1>1, <1>2, <1>3 DEF FrontierInv, AnchorInv
  <1>8. ForwardInv' /\ WalkInv' /\ BudgetInv' /\ StartInv'
    BY <1>2 DEF ForwardInv, WalkInv, BudgetInv, StartInv
  <1>9. FrontierSeamless'
    <2> SUFFICES ASSUME anchor' = "forward", oldestSeen # None,
                        NEW m \in Valid(history), oldestSeen <= m, m <= newLast
                 PROVE  m \in written
      BY <1>1, <1>2 DEF FrontierSeamless, Frontier, Valid
    <2>1. anchor = "forward" /\ lastMessageId # None
      BY <1>2 DEF FrontierInv, AnchorInv
    <2>2. QED  BY <1>5, <2>1 DEF FrontierInv, FrontierSeamless, Frontier, Valid
  <1>10. BackfilledIsWhole'
    <2> SUFFICES ASSUME anchor' = "forward", complete,
                        NEW m \in Valid(history), m <= newLast
                 PROVE  m \in written
      BY <1>1, <1>2 DEF BackfilledIsWhole, Valid
    <2>1. anchor = "forward" /\ lastMessageId # None
      BY <1>2 DEF FrontierInv, AnchorInv
    <2>2. QED  BY <1>5, <2>1 DEF FrontierInv, BackfilledIsWhole, Valid
  <1>11. QED  BY <1>6, <1>7, <1>8, <1>9, <1>10 DEF FrontierInv

\* The steps of the backward walk and of its write.
LEMMA BeginBackfillStep ==
  ASSUME TypeOK, FrontierInv, BeginBackfill, WholePages  PROVE FrontierInv'
  <1> USE Sorts
  <1>1. UNCHANGED <<history, nextId, lastMessageId, oldestSeen, complete, written, anchor>>
    BY DEF BeginBackfill, channel, row
  <1>2. CASE Forget
    BY <1>1, <1>2, ForgetStep
  <1>3. CASE ~ Forget
    <2>1. /\ pc' = "walk" /\ batch' = {} /\ lastSeen' = None
          /\ walkBatch' = {} /\ emitted' = 0 /\ lastOldest' = oldestSeen
      BY <1>3 DEF BeginBackfill
    <2>2. OlderThanNext'  BY <1>1, <2>1 DEF FrontierInv, OlderThanNext, None
    <2>3. WalkInv'  BY <1>1, <2>1 DEF WalkInv
    <2>4. BudgetInv'
      <3>1. 0 < Budget /\ 0 = 0 * PageSize /\ 0 \in Nat  BY SettingsAssumption
      <3>2. QED  BY <2>1, <3>1 DEF BudgetInv
    <2>5. ForwardInv' /\ StartInv'  BY <2>1 DEF ForwardInv, StartInv
    <2>6. QED  BY <1>1, <2>2, <2>3, <2>4, <2>5
               DEF FrontierInv, AnchorInv, FrontierSeamless, BackfilledIsWhole,
                   Frontier, Valid
  <1>4. QED  BY <1>2, <1>3

\* Where the budget is a whole number of pages, it has room for the next one.
LEMMA RoomForAPage ==
  ASSUME WholePages, TypeOK, BudgetInv, pc = "walk"
  PROVE  emitted + PageSize <= Budget
  <1>1. PICK b \in Nat : Budget = b * PageSize  BY DEF WholePages
  <1>2. PICK k \in Nat : emitted = k * PageSize /\ emitted < Budget  BY DEF BudgetInv
  <1>3. PageSize \in Nat \ {0}  BY SettingsAssumption
  <1>4. k < b
    <2>1. ASSUME b <= k PROVE FALSE
      <3>1. (k - b) * PageSize >= 0
        <4>1. k - b \in Nat  BY <2>1
        <4>2. \A x, y \in Nat : x * y >= 0  BY SMT
        <4>3. QED  BY <1>3, <4>1, <4>2
      <3>2. (k - b) * PageSize = k * PageSize - b * PageSize  BY <1>3
      <3>3. QED  BY <1>1, <1>2, <1>3, <3>1, <3>2
    <2>2. QED  BY <2>1
  <1>5. (b - (k + 1)) * PageSize >= 0
    <2>1. b - (k + 1) \in Nat  BY <1>4
    <2>2. \A x, y \in Nat : x * y >= 0  BY SMT
    <2>3. QED  BY <1>3, <2>1, <2>2
  <1>6. (b - (k + 1)) * PageSize = b * PageSize - (k * PageSize + PageSize)  BY <1>3
  <1>7. QED  BY <1>1, <1>2, <1>3, <1>5, <1>6

\* The end of a walk: what StopWalk leaves is what the invariant asks, once the
\* walk's part of it is known for the pages fetched and the reason given.
LEMMA StopWalkStep ==
  ASSUME TypeOK, TypeOK', FrontierInv, pc = "walk", NEW why \in Reasons, StopWalk(why),
         UNCHANGED <<history, nextId, lastMessageId, oldestSeen, complete, batch,
                     lastSeen, written, anchor>>,
         \A m \in walkBatch' : m < nextId, lastOldest' < nextId,
         lastOldest' = None => walkBatch' = {} /\ oldestSeen = None,
         oldestSeen # None =>
           /\ lastOldest' <= oldestSeen
           /\ \A m \in history : lastOldest' <= m /\ m < oldestSeen => m \in walkBatch',
         oldestSeen = None /\ lastOldest' # None =>
           \A m \in history : lastOldest' <= m /\ m <= lastMessageId => m \in walkBatch',
         why \in {"channel_start", "stuck_cursor"} => StartsAt(lastOldest')
  PROVE  FrontierInv'
  <1> USE Sorts
  <1>1. /\ reason' = why /\ pc' \in {"count", "walkOpen"}
        /\ pc' = "count" => Valid(walkBatch') = {}
        /\ pc' # "count" => Valid(walkBatch') # {}
    BY DEF StopWalk
  <1>2. OlderThanNext'  BY DEF FrontierInv, OlderThanNext
  <1>3. WalkInv'  BY <1>1 DEF WalkInv
  <1>4. AnchorInv' /\ ForwardInv' /\ BudgetInv'
    BY <1>1 DEF FrontierInv, AnchorInv, ForwardInv, BudgetInv
  <1>5. StartInv'
    <2>1. ASSUME pc' = "walkOpen", Confirmed'  PROVE StartsAt(lastOldest)'
      BY <1>1, <2>1 DEF Confirmed, StartsAt, Valid
    <2>2. ASSUME pc' = "count", Confirmed'  PROVE StartsAt(oldestSeen)'
      <3>1. Valid(walkBatch') = {} /\ StartsAt(lastOldest')
        BY <1>1, <2>2 DEF Confirmed
      <3>2. SUFFICES ASSUME NEW m \in Valid(history)
                     PROVE  IF oldestSeen # None THEN oldestSeen <= m ELSE lastMessageId < m
        BY DEF StartsAt, Valid
      <3>3. m \in history /\ m \notin walkBatch' /\ m \in Nat
        BY <3>1 DEF Valid
      <3>4. IF lastOldest' # None THEN lastOldest' <= m ELSE lastMessageId < m
        BY <3>1 DEF StartsAt
      <3>5. CASE oldestSeen # None  BY <3>3, <3>4, <3>5 DEF None
      <3>6. CASE oldestSeen = None  BY <3>3, <3>4, <3>6
      <3>7. QED  BY <3>5, <3>6
    <2>3. QED  BY <1>1, <2>1, <2>2 DEF StartInv
  <1>6. FrontierSeamless' /\ BackfilledIsWhole'
    BY DEF FrontierInv, FrontierSeamless, BackfilledIsWhole, Frontier, Valid
  <1>7. QED  BY <1>2, <1>3, <1>4, <1>5, <1>6 DEF FrontierInv

\* A walk that fails keeps whole pages, and so leaves no gap.
LEMMA AbortWalkStep ==
  ASSUME TypeOK, TypeOK', FrontierInv, AbortWalk  PROVE FrontierInv'
  <1> USE Sorts
  <1>1. /\ pc = "walk" /\ StopWalk("aborted")
        /\ UNCHANGED <<history, nextId, lastMessageId, oldestSeen, complete, batch,
                       lastSeen, written, anchor, walkBatch, lastOldest>>
    BY DEF AbortWalk, channel, row, forward
  <1>2. "aborted" \in Reasons  BY DEF Reasons
  <1>3. /\ \A m \in walkBatch' : m < nextId
        /\ lastOldest' < nextId
    BY <1>1 DEF FrontierInv, OlderThanNext
  <1>4. /\ lastOldest' = None => walkBatch' = {} /\ oldestSeen = None
        /\ oldestSeen # None =>
             /\ lastOldest' <= oldestSeen
             /\ \A m \in history : lastOldest' <= m /\ m < oldestSeen => m \in walkBatch'
        /\ oldestSeen = None /\ lastOldest' # None =>
             \A m \in history : lastOldest' <= m /\ m <= lastMessageId => m \in walkBatch'
    BY <1>1 DEF FrontierInv, WalkInv
  <1>5. QED  BY <1>1, <1>2, <1>3, <1>4, StopWalkStep

\* A page of the walk: short, empty, stuck or cut by the budget.  With room for a
\* whole page, what the walk holds is all there is from its start to last_oldest_id.
LEMMA WalkPageStep ==
  ASSUME TypeOK, TypeOK', FrontierInv, WalkPage, WholePages  PROVE FrontierInv'
  <1> USE Sorts
  <1>1. /\ UNCHANGED <<history, nextId, lastMessageId, oldestSeen, complete, batch,
                       lastSeen, written, anchor>>
        /\ pc = "walk"
    BY DEF WalkPage, channel, row, forward
  <1>2. /\ \A m \in history \cup walkBatch : m < nextId
        /\ lastOldest < nextId
        /\ lastOldest = None => walkBatch = {} /\ oldestSeen = None
        /\ oldestSeen # None =>
             /\ lastOldest <= oldestSeen
             /\ \A m \in history : lastOldest <= m /\ m < oldestSeen => m \in walkBatch
        /\ oldestSeen = None /\ lastOldest # None =>
             \A m \in history : lastOldest <= m /\ m <= lastMessageId => m \in walkBatch
    BY <1>1 DEF FrontierInv, OlderThanNext, WalkInv
  <1>3. IsFiniteSet(history) /\ \A S \in SUBSET history : IsFiniteSet(S)
    BY IdsFacts, FS_Subset DEF TypeOK
  <1>4. PageSize \in Nat \ {0} /\ Budget \in Nat  BY SettingsAssumption
  <1> DEFINE older == {m \in history : lastOldest # None => m < lastOldest}
  <1>5. older \in SUBSET history /\ IsFiniteSet(older)  BY <1>3
  <1>6. PICK page \in SUBSET history :
          /\ PageBefore(page)
          /\ \/ /\ page = {}
                /\ UNCHANGED <<walkBatch, lastOldest, emitted>>
                /\ StopWalk("channel_start")
             \/ /\ page = {lastOldest}
                /\ walkBatch' = walkBatch \cup page
                /\ emitted' = emitted + 1
                /\ UNCHANGED lastOldest
                /\ StopWalk("stuck_cursor")
             \/ \E kept \in SUBSET page : \E oldest \in page \ {lastOldest} :
                  /\ AreOldest(kept, Budget - emitted, page)
                  /\ \A m \in page : oldest <= m
                  /\ walkBatch' = walkBatch \cup kept
                  /\ emitted' = emitted + Cardinality(kept)
                  /\ lastOldest' = oldest
                  /\ IF kept # page THEN StopWalk("cap_reached")
                     ELSE IF Cardinality(page) < PageSize THEN StopWalk("short_page")
                     ELSE IF emitted' >= Budget THEN StopWalk("cap_reached")
                     ELSE UNCHANGED <<reason, pc>>
    BY DEF WalkPage
  <1>7. \/ \E n \in 1 .. PageSize : AreNewest(page, n, older)
        \/ older = {} /\ lastOldest \in history /\ page = {lastOldest}
    BY <1>6 DEF PageBefore
  <1>8. CASE page = {} /\ UNCHANGED <<walkBatch, lastOldest>> /\ StopWalk("channel_start")
    <2>1. older = {}
      <3>1. PICK n \in 1 .. PageSize : AreNewest({}, n, older)  BY <1>7, <1>8
      <3>2. Cardinality({}) = AtMost(n, older)  BY <3>1 DEF AreNewest
      <3>3. n \in Nat /\ n > 0  BY <1>4, <3>1
      <3>4. QED  BY <1>5, <3>2, <3>3, PageFacts
    <2>2. StartsAt(lastOldest')  BY <1>8, <2>1 DEF StartsAt, Valid
    <2>3. "channel_start" \in Reasons  BY DEF Reasons
    <2>4. QED  BY <1>1, <1>2, <1>8, <2>2, <2>3, StopWalkStep
  <1>9. CASE /\ page = {lastOldest} /\ walkBatch' = walkBatch \cup page
             /\ UNCHANGED lastOldest /\ StopWalk("stuck_cursor")
    <2>1. lastOldest \in history  BY <1>9
    <2>2. lastOldest # None  BY <2>1, IdsFacts DEF TypeOK
    <2>3. older = {}
      <3>1. \A n \in 1 .. PageSize : ~ AreNewest(page, n, older)
        BY <1>9, <2>1, <2>2 DEF AreNewest
      <3>2. QED  BY <1>7, <3>1
    <2>4. StartsAt(lastOldest')  BY <1>9, <2>3 DEF StartsAt, Valid
    <2>5. "stuck_cursor" \in Reasons  BY DEF Reasons
    <2>6. \A m \in walkBatch' : m < nextId  BY <1>2, <1>9
    <2>7. walkBatch \subseteq walkBatch'  BY <1>9
    <2>8. lastOldest' = lastOldest  BY <1>9
    <2>9. QED  BY <1>1, <1>2, <1>9, <2>3, <2>4, <2>5, <2>6, <2>7, <2>8, StopWalkStep
  <1>10. ASSUME NEW kept \in SUBSET page, NEW oldest \in page, oldest # lastOldest,
                AreOldest(kept, Budget - emitted, page),
                \A m \in page : oldest <= m,
                walkBatch' = walkBatch \cup kept,
                emitted' = emitted + Cardinality(kept),
                lastOldest' = oldest,
                IF kept # page THEN StopWalk("cap_reached")
                ELSE IF Cardinality(page) < PageSize THEN StopWalk("short_page")
                ELSE IF emitted' >= Budget THEN StopWalk("cap_reached")
                ELSE UNCHANGED <<reason, pc>>
         PROVE  FrontierInv'
    <2>1. PICK n \in 1 .. PageSize : AreNewest(page, n, older)
      <3>1. page # {lastOldest}  BY <1>10
      <3>2. QED  BY <1>7, <3>1
    <2>2. /\ page \in SUBSET older /\ Cardinality(page) = AtMost(n, older)
      BY <2>1 DEF AreNewest
    <2>3. IsFiniteSet(page) /\ Cardinality(page) \in Nat /\ Cardinality(page) <= PageSize
      <3>1. n \in Nat /\ n <= PageSize  BY <1>4, <2>1
      <3>2. QED  BY <1>4, <1>5, <2>2, <3>1, PageFacts
    <2>4. emitted + PageSize <= Budget
      BY <1>1, RoomForAPage DEF FrontierInv
    <2>5. kept = page
      <3>1. Cardinality(page) <= Budget - emitted /\ Budget - emitted \in Int
        BY <1>4, <2>3, <2>4
      <3>2. QED  BY <1>10, <2>3, <3>1, KeepsWholePage
    <2>6. \A m \in older : oldest <= m => m \in page
      <3>1. older \in SUBSET Int  BY <1>5
      <3>2. QED  BY <1>10, <2>1, <3>1, NewestClosed
    <2>7. /\ oldest \in history /\ oldest \in Nat /\ oldest # None
          /\ lastOldest # None => oldest < lastOldest
      BY <1>10, <2>2
    <2>8. /\ \A m \in walkBatch' : m < nextId
          /\ lastOldest' < nextId /\ lastOldest' # None
      BY <1>2, <1>10, <2>5, <2>7
    <2>9. oldestSeen # None =>
            /\ lastOldest' <= oldestSeen
            /\ \A m \in history : lastOldest' <= m /\ m < oldestSeen => m \in walkBatch'
      <3>1. SUFFICES ASSUME oldestSeen # None
                     PROVE  /\ oldest <= oldestSeen
                            /\ \A m \in history :
                                 oldest <= m /\ m < oldestSeen => m \in walkBatch'
        BY <1>10
      <3>2. lastOldest # None /\ lastOldest <= oldestSeen  BY <1>2, <3>1
      <3>3. \A m \in history : oldest <= m /\ m < lastOldest => m \in walkBatch'
        BY <1>10, <2>5, <2>6, <3>2
      <3>4. \A m \in history : lastOldest <= m /\ m < oldestSeen => m \in walkBatch'
        BY <1>2, <1>10, <3>1
      <3>5. QED  BY <2>7, <3>2, <3>3, <3>4
    <2>10. oldestSeen = None =>
             \A m \in history : lastOldest' <= m /\ m <= lastMessageId => m \in walkBatch'
      <3>1. SUFFICES ASSUME oldestSeen = None, NEW m \in history,
                            oldest <= m, m <= lastMessageId
                     PROVE  m \in walkBatch'
        BY <1>10
      <3>2. CASE lastOldest = None \/ m < lastOldest
        BY <1>10, <2>5, <2>6, <3>1, <3>2
      <3>3. CASE lastOldest # None /\ lastOldest <= m
        BY <1>2, <1>10, <3>1, <3>3
      <3>4. QED  BY <3>2, <3>3
    <2>11. ASSUME NEW why \in {"cap_reached", "short_page"}, StopWalk(why)
           PROVE  FrontierInv'
      <3>1. why \in Reasons /\ why \notin {"channel_start", "stuck_cursor"}
        BY DEF Reasons
      <3>2. QED  BY <1>1, <2>8, <2>9, <2>10, <2>11, <3>1, StopWalkStep
    <2>12. CASE UNCHANGED <<reason, pc>> /\ ~ (Cardinality(page) < PageSize)
                /\ ~ (emitted' >= Budget)
      <3>1. Cardinality(page) = PageSize  BY <1>4, <2>3, <2>12
      <3>2. OlderThanNext'
        BY <1>1, <2>8 DEF FrontierInv, OlderThanNext
      <3>3. WalkInv'
        BY <1>1, <2>8, <2>9, <2>10, <2>12 DEF WalkInv
      <3>4. BudgetInv'
        <4>1. emitted' = emitted + PageSize /\ emitted' < Budget
          BY <1>4, <1>10, <2>5, <2>12, <3>1
        <4>2. PICK k \in Nat : emitted = k * PageSize
          BY <1>1 DEF FrontierInv, BudgetInv
        <4>3. emitted' = (k + 1) * PageSize /\ k + 1 \in Nat
          BY <1>4, <4>1, <4>2
        <4>4. QED  BY <4>1, <4>3 DEF BudgetInv
      <3>5. AnchorInv' /\ ForwardInv' /\ StartInv'
        BY <1>1, <2>12 DEF FrontierInv, AnchorInv, ForwardInv, StartInv
      <3>6. FrontierSeamless' /\ BackfilledIsWhole'
        BY <1>1 DEF FrontierInv, FrontierSeamless, BackfilledIsWhole, Frontier, Valid
      <3>7. QED  BY <3>2, <3>3, <3>4, <3>5, <3>6 DEF FrontierInv
    <2>13. QED  BY <1>10, <2>5, <2>11, <2>12
  <1>11. QED  BY <1>6, <1>8, <1>9, <1>10

\* The two steps that write the backfill file.
LEMMA WriteBackfillStep ==
  ASSUME TypeOK, FrontierInv, OpenBackfill \/ FsyncBackfill  PROVE FrontierInv'
  <1> USE Sorts
  <1>1. /\ UNCHANGED <<history, nextId, lastMessageId, oldestSeen, complete, batch,
                       lastSeen, walkBatch, lastOldest, emitted, reason, anchor>>
        /\ pc \in {"walkOpen", "walkFsync"} /\ pc' \in {"walkFsync", "walkAdvance"}
        /\ written' = written \/ written' = written \cup Valid(walkBatch)
        /\ pc' = "walkAdvance" => written' = written \cup Valid(walkBatch)
    BY DEF OpenBackfill, FsyncBackfill, channel, row, forward, walk
  <1>2. OlderThanNext'  BY <1>1 DEF FrontierInv, OlderThanNext, Valid
  <1>3. WalkInv'  BY <1>1 DEF FrontierInv, WalkInv, Valid
  <1>4. StartInv'  BY <1>1 DEF FrontierInv, StartInv, StartsAt, Valid, Confirmed
  <1>5. AnchorInv' /\ ForwardInv' /\ BudgetInv'
    BY <1>1 DEF FrontierInv, AnchorInv, ForwardInv, BudgetInv
  <1>6. FrontierSeamless' /\ BackfilledIsWhole'
    BY <1>1 DEF FrontierInv, FrontierSeamless, BackfilledIsWhole, Frontier, Valid
  <1>7. QED  BY <1>2, <1>3, <1>4, <1>5, <1>6 DEF FrontierInv

\* The older end moves over the walk's messages.  If it is the first move, the
\* walk came down from above the forward cursor.
LEMMA AdvanceBackwardStep ==
  ASSUME TypeOK, FrontierInv, AdvanceBackward  PROVE FrontierInv'
  <1> USE Sorts
  <1>1. /\ UNCHANGED <<history, nextId, lastMessageId, complete, batch, lastSeen,
                       walkBatch, lastOldest, emitted, reason, written>>
        /\ pc = "walkAdvance" /\ pc' = "count"
        /\ anchor' = IF anchor = "none" THEN "backward" ELSE anchor
    BY DEF AdvanceBackward, channel, forward, walk
  <1>2. /\ Valid(walkBatch) # {} /\ Valid(walkBatch) \subseteq written
        /\ lastOldest = None => walkBatch = {}
        /\ oldestSeen # None =>
             /\ lastOldest <= oldestSeen
             /\ \A m \in history : lastOldest <= m /\ m < oldestSeen => m \in walkBatch
        /\ oldestSeen = None /\ lastOldest # None =>
             \A m \in history : lastOldest <= m /\ m <= lastMessageId => m \in walkBatch
    BY <1>1 DEF FrontierInv, WalkInv
  <1>3. lastOldest # None  BY <1>2 DEF Valid
  <1>4. oldestSeen' = lastOldest
    BY <1>2 DEF AdvanceBackward
  <1>5. OlderThanNext'  BY <1>1, <1>4 DEF FrontierInv, OlderThanNext
  <1>6. AnchorInv'  BY <1>1 DEF FrontierInv, AnchorInv
  <1>7. ForwardInv' /\ WalkInv' /\ BudgetInv'  BY <1>1 DEF ForwardInv, WalkInv, BudgetInv
  <1>8. StartInv'  BY <1>1, <1>4 DEF FrontierInv, StartInv, StartsAt, Valid, Confirmed
  <1>9. FrontierSeamless'
    <2> SUFFICES ASSUME anchor' = "forward", NEW m \in Valid(history),
                        lastOldest <= m, m <= lastMessageId
                 PROVE  m \in written
      BY <1>1, <1>4 DEF FrontierSeamless, Frontier, Valid
    <2>1. m \in walkBatch => m \in written  BY <1>2 DEF Valid
    <2>2. anchor = "forward"  BY <1>1
    <2>3. CASE oldestSeen = None  BY <1>2, <1>3, <2>1, <2>3 DEF Valid
    <2>4. CASE oldestSeen # None /\ m < oldestSeen  BY <1>2, <2>1, <2>4 DEF Valid
    <2>5. CASE oldestSeen # None /\ oldestSeen <= m
      BY <2>2, <2>5 DEF FrontierInv, FrontierSeamless, Frontier, Valid
    <2>6. m \in Nat  BY DEF Valid
    <2>7. QED  BY <2>3, <2>4, <2>5, <2>6
  <1>10. BackfilledIsWhole'
    BY <1>1 DEF FrontierInv, BackfilledIsWhole, Valid
  <1>11. QED  BY <1>5, <1>6, <1>7, <1>8, <1>9, <1>10 DEF FrontierInv

\* The end of a walk: the run is counted, and the channel is marked as backfilled
\* only when the start of it was confirmed.
LEMMA EndWalkStep ==
  ASSUME TypeOK, FrontierInv, CountRun \/ MarkBackfilled  PROVE FrontierInv'
  <1> USE Sorts
  <1>1. CASE CountRun
    <2>1. UNCHANGED <<history, nextId, lastMessageId, oldestSeen, complete, written, anchor>>
      BY <1>1 DEF CountRun, channel
    <2>2. CASE Forget  BY <2>1, <2>2, ForgetStep
    <2>3. CASE ~ Forget
      <3>1. Confirmed /\ pc = "count" /\ pc' = "mark" /\ UNCHANGED <<forward, walk>>
        BY <1>1, <2>3 DEF CountRun, Confirmed
      <3>2. OlderThanNext'
        BY <2>1, <3>1 DEF FrontierInv, OlderThanNext, forward, walk
      <3>3. StartInv'
        BY <2>1, <3>1 DEF FrontierInv, StartInv, StartsAt, Confirmed, Valid, walk
      <3>4. QED  BY <2>1, <3>1, <3>2, <3>3
                 DEF FrontierInv, AnchorInv, ForwardInv, WalkInv, BudgetInv,
                     FrontierSeamless, BackfilledIsWhole, Frontier, Valid
    <2>4. QED  BY <2>2, <2>3
  <1>2. CASE MarkBackfilled
    <2>1. /\ UNCHANGED <<history, nextId, lastMessageId, oldestSeen, written>>
          /\ pc = "mark" /\ complete' = TRUE /\ Forget
          /\ anchor' = IF anchor = "none" THEN "backward" ELSE anchor
      BY <1>2 DEF MarkBackfilled, channel
    <2>2. StartsAt(oldestSeen)
      BY <2>1 DEF FrontierInv, StartInv
    <2>3. OlderThanNext' /\ AnchorInv'
      BY <2>1 DEF FrontierInv, OlderThanNext, AnchorInv, Forget, None
    <2>4. ForwardInv' /\ WalkInv' /\ BudgetInv' /\ StartInv'
      BY <2>1 DEF Forget, ForwardInv, WalkInv, BudgetInv, StartInv
    <2>5. FrontierSeamless'
      BY <2>1 DEF FrontierInv, FrontierSeamless, Frontier, Valid
    <2>6. BackfilledIsWhole'
      <3> SUFFICES ASSUME anchor' = "forward", NEW m \in Valid(history), m <= lastMessageId
                   PROVE  m \in written
        BY <2>1 DEF BackfilledIsWhole, Valid
      <3>1. anchor = "forward" /\ m \in Nat  BY <2>1 DEF Valid
      <3>2. oldestSeen # None /\ oldestSeen <= m
        BY <2>2, <3>1 DEF StartsAt
      <3>3. QED  BY <3>1, <3>2 DEF FrontierInv, FrontierSeamless, Frontier
    <2>7. QED  BY <2>3, <2>4, <2>5, <2>6 DEF FrontierInv
  <1>3. QED  BY <1>1, <1>2

\* A power cut drops what the scan holds and brings back the row of the disk.
LEMMA PowerCutStep ==
  ASSUME TypeOK, FrontierInv, DiskInv, PowerCut  PROVE FrontierInv'
  <1> USE Sorts
  <1>1. /\ UNCHANGED <<history, nextId, written>> /\ Forget
        /\ lastMessageId' = disk.last /\ oldestSeen' = disk.oldest
        /\ complete' = disk.complete /\ anchor' = disk.anchor
    BY DEF PowerCut, channel
  <1>2. OlderThanNext'
    BY <1>1 DEF FrontierInv, DiskInv, OlderThanNext, Forget, None
  <1>3. AnchorInv'  BY <1>1 DEF DiskInv, AnchorInv
  <1>4. ForwardInv' /\ WalkInv' /\ BudgetInv' /\ StartInv'
    BY <1>1 DEF Forget, ForwardInv, WalkInv, BudgetInv, StartInv
  <1>5. FrontierSeamless' /\ BackfilledIsWhole'
    BY <1>1 DEF DiskInv, FrontierSeamless, BackfilledIsWhole, Frontier, Valid
  <1>6. QED  BY <1>2, <1>3, <1>4, <1>5 DEF FrontierInv

\* What the row of the disk says stays true: nothing that was written is unwritten, and
\* a message that comes is newer than both its ends.
LEMMA DiskStays ==
  ASSUME TypeOK, DiskInv, UNCHANGED disk, nextId' \in Nat, nextId <= nextId',
         written \subseteq written', \A m \in history' : m \in history \/ m = nextId
  PROVE  DiskInv'
  <1> USE Sorts
  <1>1. \A m \in Valid(history)' : m <= disk.last => m \in Valid(history)
    BY DEF DiskInv, Valid
  <1>2. QED  BY <1>1 DEF DiskInv

\* Every step keeps the invariant of the disk: the row that reaches it is true.
LEMMA NextDiskInv ==
  ASSUME TypeOK, FrontierInv, DiskInv, [Next]_vars  PROVE DiskInv'
  <1> USE Sorts
  <1>1. CASE WriteBack
    <2>1. UNCHANGED <<history, nextId, written>> /\ disk' = Committed
      BY <1>1 DEF WriteBack, channel
    <2>2. QED
      BY <2>1 DEF DiskInv, Committed, FrontierInv, OlderThanNext, AnchorInv,
                  FrontierSeamless, BackfilledIsWhole, Frontier, Valid
  <1>2. CASE Post
    BY <1>2, DiskStays DEF Post
  <1>3. CASE \E m \in Deletable : Delete(m)
    BY <1>3, DiskStays DEF Delete
  <1>4. CASE FsyncMessages \/ FsyncBackfill
    <2>1. UNCHANGED <<history, nextId, disk>> /\ written \subseteq written'
      BY <1>4 DEF FsyncMessages, FsyncBackfill, channel
    <2>2. QED  BY <2>1, DiskStays
  <1>5. CASE UNCHANGED <<history, nextId, disk, written>>
    BY <1>5, DiskStays
  <1>6. CASE \/ StartScan \/ ForwardPage \/ FetchPinned \/ OpenMessages \/ AdvanceCursor
             \/ BeginBackfill \/ WalkPage \/ OpenBackfill \/ AdvanceBackward \/ CountRun
             \/ MarkBackfilled \/ SkipChannel \/ AbortWalk \/ Crash \/ PowerCut
             \/ UNCHANGED vars
    BY <1>5, <1>6
       DEF StartScan, ForwardPage, FetchPinned, OpenMessages, AdvanceCursor, BeginBackfill,
           WalkPage, OpenBackfill, AdvanceBackward, CountRun, MarkBackfilled, SkipChannel,
           AbortWalk, Crash, PowerCut, vars, channel
  <1>7. QED  BY <1>1, <1>2, <1>3, <1>4, <1>6 DEF Next, ScanStep

\* Every step keeps the invariant, one case for each disjunct of Next.
LEMMA NextFrontierInv ==
  ASSUME WholePages, TypeOK, TypeOK', FrontierInv, DiskInv, [Next]_vars  PROVE FrontierInv'
  <1>1. CASE Post \/ \E m \in Deletable : Delete(m)  BY <1>1, ChannelStep
  <1>2. CASE StartScan  BY <1>2, StartScanStep
  <1>3. CASE ForwardPage  BY <1>3, ForwardPageStep
  <1>4. CASE FetchPinned \/ OpenMessages \/ FsyncMessages  BY <1>4, WriteMessagesStep
  <1>5. CASE AdvanceCursor  BY <1>5, AdvanceCursorStep
  <1>6. CASE BeginBackfill  BY <1>6, BeginBackfillStep
  <1>7. CASE WalkPage  BY <1>7, WalkPageStep
  <1>8. CASE OpenBackfill \/ FsyncBackfill  BY <1>8, WriteBackfillStep
  <1>9. CASE AdvanceBackward  BY <1>9, AdvanceBackwardStep
  <1>10. CASE CountRun \/ MarkBackfilled  BY <1>10, EndWalkStep
  <1>11. CASE AbortWalk  BY <1>11, AbortWalkStep
  <1>12. CASE SkipChannel \/ Crash
    <2>1. Forget /\ UNCHANGED <<history, nextId, lastMessageId, oldestSeen, complete,
                                written, anchor>>
      BY <1>12 DEF SkipChannel, Crash, channel, row
    <2>2. QED  BY <2>1, ForgetStep
  <1>13. CASE UNCHANGED vars
    BY <1>13 DEF vars, channel, row, forward, walk, FrontierInv, OlderThanNext, AnchorInv,
                 ForwardInv, WalkInv, BudgetInv, StartInv, StartsAt, Confirmed,
                 FrontierSeamless, BackfilledIsWhole, Frontier, Valid
  <1>14. CASE WriteBack
    BY <1>14 DEF WriteBack, channel, row, forward, walk, FrontierInv, OlderThanNext,
                 AnchorInv, ForwardInv, WalkInv, BudgetInv, StartInv, StartsAt, Confirmed,
                 FrontierSeamless, BackfilledIsWhole, Frontier, Valid
  <1>15. CASE PowerCut  BY <1>15, PowerCutStep
  <1>16. QED
    BY <1>1, <1>2, <1>3, <1>4, <1>5, <1>6, <1>7, <1>8, <1>9, <1>10, <1>11, <1>12, <1>13,
       <1>14, <1>15 DEF Next, ScanStep

\* The inductive invariant of the frontier holds in every reachable state, when the
\* budget is a whole number of pages.
THEOREM FrontierInvariant == WholePages => (Spec => [](FrontierInv /\ DiskInv))
  <1> SUFFICES ASSUME WholePages PROVE Spec => [](FrontierInv /\ DiskInv)  OBVIOUS
  <1>1. Init => FrontierInv /\ DiskInv
    <2> SUFFICES ASSUME Init PROVE FrontierInv /\ DiskInv  OBVIOUS
    <2>1. FrontierInv  BY InitFrontierInv
    <2>2. QED  BY <2>1 DEF Init, Committed, DiskInv, FrontierInv, OlderThanNext
  <1>2. TypeOK /\ TypeOK' /\ FrontierInv /\ DiskInv /\ [Next]_vars => FrontierInv' /\ DiskInv'
    BY NextFrontierInv, NextDiskInv
  <1>3. QED  BY <1>1, <1>2, TypeCorrect, PTL DEF Spec

\* Between the two ends of the frontier nothing is missing, for every history, page size
\* and cap, whatever fails.
THEOREM FrontierCorrect == WholePages => (Spec => []FrontierSeamless)
  <1>1. FrontierInv => FrontierSeamless  BY DEF FrontierInv
  <1>2. QED  BY <1>1, FrontierInvariant, PTL

\* A channel marked as backfilled is whole, for every history, page size and cap, whatever
\* fails.
THEOREM BackfillCorrect == WholePages => (Spec => []BackfilledIsWhole)
  <1>1. FrontierInv => BackfilledIsWhole  BY DEF FrontierInv
  <1>2. QED  BY <1>1, FrontierInvariant, PTL

--------------------------------------------------------------------------------
(* The files.                                                              *)

\* A file that a scan writes is empty: it has just been opened, or it is the first of its
\* day.  It is opened for messages only.
FreshFiles ==
  /\ pc = "fsync" => messagesFile = {}
  /\ pc = "walkFsync" => backfillFile = {}
  /\ pc \in {"forward", "pinned", "open"} /\ ~ again => messagesFile = {}
  /\ pc \in {"forward", "pinned", "open", "fsync", "advance", "backfill", "walk",
             "walkOpen"} /\ ~ again => backfillFile = {}
  /\ pc = "open" => Valid(batch) # {}
  /\ pc = "walkOpen" => Valid(walkBatch) # {}

\* Every step keeps that.
LEMMA FilesStayFresh == FreshFiles /\ [Next]_vars => FreshFiles'
  <1> SUFFICES ASSUME FreshFiles, [Next]_vars PROVE FreshFiles'  OBVIOUS
  <1> USE DEF FreshFiles, files
  <1>1. CASE Post \/ (\E m \in Deletable : Delete(m)) \/ WriteBack \/ UNCHANGED vars
    <2>1. UNCHANGED <<files, pc, batch, walkBatch>>
      BY <1>1 DEF Post, Delete, WriteBack, vars, forward, walk
    <2>2. QED  BY <2>1 DEF Valid
  <1>2. CASE StartScan  BY <1>2 DEF StartScan
  <1>3. CASE ForwardPage
    <2>1. pc = "forward" /\ pc' \in {"forward", "pinned"} /\ UNCHANGED files
      BY <1>3 DEF ForwardPage
    <2>2. QED  BY <2>1
  <1>4. CASE FetchPinned
    <2>1. /\ pc = "pinned" /\ UNCHANGED <<files, batch, walkBatch>>
          /\ pc' = IF Valid(batch) = {} THEN "backfill" ELSE "open"
      BY <1>4 DEF FetchPinned, forward, walk
    <2>2. QED  BY <2>1 DEF Valid
  <1>5. CASE OpenMessages  BY <1>5 DEF OpenMessages
  <1>6. CASE FsyncMessages  BY <1>6 DEF FsyncMessages
  <1>7. CASE AdvanceCursor  BY <1>7 DEF AdvanceCursor
  <1>8. CASE BeginBackfill
    <2>1. pc = "backfill" /\ pc' \in {"walk", "idle"} /\ UNCHANGED files
      BY <1>8 DEF BeginBackfill, Forget
    <2>2. QED  BY <2>1
  <1>9. CASE WalkPage \/ AbortWalk
    <2>1. /\ pc = "walk" /\ pc' \in {"walk", "walkOpen", "count"} /\ UNCHANGED files
          /\ pc' = "walkOpen" => Valid(walkBatch') # {}
      BY <1>9 DEF WalkPage, AbortWalk, StopWalk
    <2>2. QED  BY <2>1 DEF Valid
  <1>10. CASE OpenBackfill  BY <1>10 DEF OpenBackfill
  <1>11. CASE FsyncBackfill  BY <1>11 DEF FsyncBackfill
  <1>12. CASE AdvanceBackward  BY <1>12 DEF AdvanceBackward
  <1>13. CASE CountRun
    <2>1. pc' \in {"idle", "mark"}
      BY <1>13 DEF CountRun, Forget
    <2>2. QED  BY <2>1
  <1>14. CASE MarkBackfilled \/ SkipChannel \/ Crash \/ PowerCut
    <2>1. pc' = "idle"
      BY <1>14 DEF MarkBackfilled, SkipChannel, Crash, PowerCut, Forget
    <2>2. QED  BY <2>1
  <1>15. QED
    BY <1>1, <1>2, <1>3, <1>4, <1>5, <1>6, <1>7, <1>8, <1>9, <1>10, <1>11, <1>12, <1>13,
       <1>14 DEF Next, ScanStep

\* Whatever dies or fails at whatever moment, what was recorded leaves the files of its
\* day only where a later scan of the same day opens one of them for new messages.
THEOREM DumpKept == Spec => KeptOnDisk
  <1> DEFINE Excused == \/ pc = "idle" /\ ~ again'
                        \/ again /\ pc = "open" /\ Valid(batch) # {}
                        \/ again /\ pc = "walkOpen" /\ Valid(walkBatch) # {}
  <1>1. Init => FreshFiles
    BY DEF Init, FreshFiles
  <1>2. FreshFiles /\ [Next]_vars => [~ OnDisk \subseteq OnDisk' => Excused]_vars
    <2> SUFFICES ASSUME FreshFiles, Next, ~ OnDisk \subseteq OnDisk' PROVE Excused
      OBVIOUS
    <2> USE DEF FreshFiles, OnDisk, files
    <2>1. CASE UNCHANGED <<messagesFile, backfillFile>>  BY <2>1
    <2>2. CASE Post \/ (\E m \in Deletable : Delete(m)) \/ WriteBack \/ FetchPinned
      BY <2>1, <2>2 DEF Post, Delete, WriteBack, FetchPinned
    <2>3. CASE StartScan  BY <2>3 DEF StartScan
    <2>4. CASE ForwardPage  BY <2>1, <2>4 DEF ForwardPage
    <2>5. CASE OpenMessages  BY <2>5 DEF OpenMessages
    <2>6. CASE FsyncMessages  BY <2>6 DEF FsyncMessages
    <2>7. CASE AdvanceCursor \/ BeginBackfill \/ AdvanceBackward \/ CountRun \/ MarkBackfilled
      BY <2>1, <2>7
         DEF AdvanceCursor, BeginBackfill, AdvanceBackward, CountRun, MarkBackfilled
    <2>8. CASE WalkPage  BY <2>1, <2>8 DEF WalkPage
    <2>9. CASE OpenBackfill  BY <2>9 DEF OpenBackfill
    <2>10. CASE FsyncBackfill  BY <2>10 DEF FsyncBackfill
    <2>11. CASE SkipChannel \/ AbortWalk \/ Crash \/ PowerCut
      BY <2>1, <2>11 DEF SkipChannel, AbortWalk, Crash, PowerCut
    <2>12. QED
      BY <2>2, <2>3, <2>4, <2>5, <2>6, <2>7, <2>8, <2>9, <2>10, <2>11 DEF Next, ScanStep
  <1>3. QED  BY <1>1, <1>2, FilesStayFresh, PTL DEF Spec, KeptOnDisk

--------------------------------------------------------------------------------
(* The promise of module Archive.                                          *)

\* The initial states are initial states of module Archive.
LEMMA InitPromise == TypeOK /\ FrontierInv /\ Init => Promise!Init
  BY Sorts, IdsFacts
     DEF TypeOK, FrontierInv, OlderThanNext, Init, Committed, Promise!Init, Promise!row

\* The two steps of a scan that move an end of the frontier keep the promise.
LEMMA AdvanceCursorKeepsPromise ==
  ASSUME TypeOK, FrontierInv, AdvanceCursor  PROVE Promise!AdvanceForward
  <1> USE Sorts
  <1>1. PICK newLast \in Valid(batch) : lastMessageId' = newLast
    BY DEF AdvanceCursor
  <1>2. pc = "advance" /\ UNCHANGED <<history, nextId, written, oldestSeen, complete, disk>>
    BY DEF AdvanceCursor, channel
  <1>3. newLast \in batch  BY <1>1 DEF Valid
  <1>4. /\ newLast <= lastSeen /\ Valid(batch) \subseteq written
        /\ lastMessageId # None =>
             /\ lastMessageId < newLast
             /\ \A m \in history : lastMessageId < m /\ m <= lastSeen => m \in batch
    BY <1>2, <1>3 DEF FrontierInv, ForwardInv
  <1>5. newLast \in written /\ newLast \in Nat  BY <1>3, <1>4
  <1>6. \A m \in Promise!Owed :
          lastMessageId # None /\ lastMessageId < m /\ m <= newLast => m \in written
    BY <1>4, <1>5 DEF Promise!Owed, Valid
  <1>7. QED  BY <1>1, <1>2, <1>4, <1>5, <1>6 DEF Promise!AdvanceForward

\* The step that moves the older end is a step of module Archive.
LEMMA AdvanceBackwardKeepsPromise ==
  ASSUME TypeOK, FrontierInv, AdvanceBackward
  PROVE  Promise!AdvanceBackward \/ UNCHANGED Promise!avars
  <1> USE Sorts
  <1>1. /\ pc = "walkAdvance"
        /\ UNCHANGED <<history, nextId, written, lastMessageId, complete, disk>>
    BY DEF AdvanceBackward, channel
  <1>2. /\ Valid(walkBatch) # {} /\ Valid(walkBatch) \subseteq written
        /\ lastOldest = None => walkBatch = {}
        /\ oldestSeen # None =>
             /\ lastOldest <= oldestSeen
             /\ \A m \in history : lastOldest <= m /\ m < oldestSeen => m \in walkBatch
    BY <1>1 DEF FrontierInv, WalkInv
  <1>3. lastOldest \in Ids /\ oldestSeen' = lastOldest
    BY <1>2 DEF Valid, AdvanceBackward, TypeOK
  <1>4. CASE oldestSeen = lastOldest
    BY <1>1, <1>3, <1>4 DEF Promise!avars, Promise!row
  <1>5. CASE oldestSeen # lastOldest
    <2>1. oldestSeen # None => lastOldest < oldestSeen  BY <1>2, <1>5
    <2>2. \A m \in Promise!Owed :
            oldestSeen # None /\ lastOldest <= m /\ m < oldestSeen => m \in written
      BY <1>2 DEF Promise!Owed, Valid
    <2>3. QED  BY <1>1, <1>3, <2>1, <2>2 DEF Promise!AdvanceBackward
  <1>6. QED  BY <1>4, <1>5

\* ChannelScan implements Archive: no step of a scan, of the channel or of a crash
\* breaks the promise of the cursor row.
THEOREM KeepsPromise == WholePages => (Spec => PromiseKept)
  <1> SUFFICES ASSUME WholePages PROVE Spec => PromiseKept  OBVIOUS
  <1>1. TypeOK /\ FrontierInv /\ Init => Promise!Init  BY InitPromise
  <1>2. TypeOK /\ FrontierInv /\ [Next]_vars => [Promise!Next]_(Promise!avars)
    <2> SUFFICES ASSUME TypeOK, FrontierInv, [Next]_vars
                 PROVE  Promise!Next \/ UNCHANGED Promise!avars
      OBVIOUS
    <2> USE Sorts
    <2>1. CASE Post
      BY <2>1, IdsAssumption DEF Post, Ids, TypeOK, row, Promise!row, Promise!Post, Promise!Next
    <2>2. CASE \E m \in Deletable : Delete(m)
      BY <2>2 DEF Delete, row, Promise!row, Promise!Delete, Promise!Next
    <2>3. CASE FsyncMessages
      <3>1. /\ Valid(batch) \in SUBSET (Ids \ Malformed)
            /\ \A m \in Valid(batch) : m < nextId
        BY DEF Valid, TypeOK, FrontierInv, OlderThanNext
      <3>2. /\ written' = written \cup Valid(batch)
            /\ UNCHANGED <<history, nextId, lastMessageId, oldestSeen, complete, disk>>
        BY <2>3 DEF FsyncMessages, channel, row
      <3>3. QED  BY <3>1, <3>2 DEF Promise!Record, Promise!row, Promise!Next
    <2>4. CASE FsyncBackfill
      <3>1. /\ Valid(walkBatch) \in SUBSET (Ids \ Malformed)
            /\ \A m \in Valid(walkBatch) : m < nextId
        BY DEF Valid, TypeOK, FrontierInv, OlderThanNext
      <3>2. /\ written' = written \cup Valid(walkBatch)
            /\ UNCHANGED <<history, nextId, lastMessageId, oldestSeen, complete, disk>>
        BY <2>4 DEF FsyncBackfill, channel, row
      <3>3. QED  BY <3>1, <3>2 DEF Promise!Record, Promise!row, Promise!Next
    <2>5. CASE AdvanceCursor
      BY <2>5, AdvanceCursorKeepsPromise DEF Promise!Next
    <2>6. CASE AdvanceBackward
      BY <2>6, AdvanceBackwardKeepsPromise DEF Promise!Next
    <2>7. CASE MarkBackfilled
      <3>1. StartsAt(oldestSeen)
        BY <2>7 DEF MarkBackfilled, FrontierInv, StartInv
      <3>2. oldestSeen # None => \A m \in Promise!Owed : oldestSeen <= m
        BY <3>1 DEF StartsAt, Promise!Owed, Valid
      <3>3. QED  BY <2>7, <3>2 DEF MarkBackfilled, channel, Promise!Finish, Promise!Next
    <2>8. CASE \/ StartScan \/ ForwardPage \/ FetchPinned \/ OpenMessages
               \/ BeginBackfill \/ WalkPage \/ OpenBackfill \/ CountRun
               \/ SkipChannel \/ AbortWalk \/ Crash \/ UNCHANGED vars
      BY <2>8 DEF StartScan, ForwardPage, FetchPinned, OpenMessages, BeginBackfill,
                  WalkPage, OpenBackfill, CountRun, SkipChannel, AbortWalk, Crash, vars,
                  channel, row, Promise!avars, Promise!row
    <2>9. CASE WriteBack
      BY <2>9 DEF WriteBack, Committed, channel, row, Promise!row, Promise!Sync, Promise!Next
    <2>10. CASE PowerCut
      BY <2>10 DEF PowerCut, channel, Promise!row, Promise!FallBack, Promise!Next
    <2>11. QED
      BY <2>1, <2>2, <2>3, <2>4, <2>5, <2>6, <2>7, <2>8, <2>9, <2>10 DEF Next, ScanStep
  <1>3. QED
    BY <1>1, <1>2, TypeCorrect, FrontierInvariant, PTL DEF Spec, PromiseKept, Promise!Spec

--------------------------------------------------------------------------------
(* The end of a scan of the channel.                                       *)

\* How many steps the scan in progress may still take: the forward fetch goes up the
\* snowflakes, the walk goes down them, and in between nothing is repeated.
Work ==
  CASE pc = "idle"        -> 0
    [] pc = "mark"        -> 1
    [] pc = "count"       -> 2
    [] pc = "walkAdvance" -> 3
    [] pc = "walkFsync"   -> 4
    [] pc = "walkOpen"    -> 5
    [] pc = "walk"        -> 5 + (IF lastOldest = None THEN LastId + 1 ELSE lastOldest)
    [] pc = "backfill"    -> LastId + 7
    [] pc = "advance"     -> LastId + 8
    [] pc = "fsync"       -> LastId + 9
    [] pc = "open"        -> LastId + 10
    [] pc = "pinned"      -> LastId + 11
    [] pc = "forward"     -> LastId + 12 + (LastId - lastSeen)

\* The work that is left is a number of steps, and none is left of no scan only.
LEMMA WorkType == TypeOK => Work \in 0 .. 2 * LastId + 12 /\ (Work = 0 => pc = "idle")
  <1> HAVE TypeOK
  <1>1. /\ LastId \in Nat /\ lastSeen \in 0 .. LastId /\ lastOldest \in 0 .. LastId
        /\ pc \in PCs /\ None = 0
    BY IdsAssumption DEF TypeOK, Ids, None
  <1>2. CASE pc = "walk"  BY <1>1, <1>2 DEF Work
  <1>3. CASE pc = "forward"  BY <1>1, <1>3 DEF Work
  <1>4. CASE pc \in {"idle", "mark", "count"}
    <2>1. Work \in 0 .. 2 /\ (Work = 0 => pc = "idle")  BY <1>4 DEF Work
    <2>2. QED  BY <1>1, <2>1
  <1>5. CASE pc \in {"walkAdvance", "walkFsync", "walkOpen"}
    <2>1. Work \in 3 .. 5  BY <1>5 DEF Work
    <2>2. QED  BY <1>1, <2>1
  <1>6. CASE pc \in {"backfill", "advance"}
    <2>1. Work = LastId + 7 \/ Work = LastId + 8  BY <1>6 DEF Work
    <2>2. QED  BY <1>1, <2>1
  <1>7. CASE pc \in {"fsync", "open", "pinned"}
    <2>1. Work = LastId + 9 \/ Work = LastId + 10 \/ Work = LastId + 11
      BY <1>7 DEF Work
    <2>2. QED  BY <1>1, <2>1
  <1>8. QED  BY <1>1, <1>2, <1>3, <1>4, <1>5, <1>6, <1>7 DEF PCs

\* A page of the forward fetch that does not end it moves the cursor up.
LEMMA ForwardGoesUp ==
  ASSUME TypeOK, ForwardPage
  PROVE  pc = "forward" /\ (pc' = "pinned" \/ (pc' = "forward" /\ lastSeen < lastSeen'))
  <1> USE Sorts
  <1>1. pc = "forward" /\ pc' \in {"pinned", "forward"}  BY DEF ForwardPage
  <1>2. ASSUME pc' = "forward"  PROVE lastSeen < lastSeen'
    <2>1. PICK page \in SUBSET history :
            PageAfter(page) /\ \E kept \in SUBSET page : lastSeen' \in kept
      BY <1>2 DEF ForwardPage
    <2>2. lastSeen' \in page  BY <2>1
    <2>3. lastSeen' \in history /\ lastSeen' \in Nat /\ lastSeen' # None  BY <2>2
    <2>4. CASE lastSeen = None  BY <2>3, <2>4 DEF None
    <2>5. CASE lastSeen # None
      BY <2>1, <2>2, <2>5 DEF PageAfter, AreOldest
    <2>6. QED  BY <2>4, <2>5
  <1>3. QED  BY <1>1, <1>2

\* A page of the walk that does not end it moves the cursor down.
LEMMA WalkGoesDown ==
  ASSUME TypeOK, WalkPage
  PROVE  /\ pc = "walk"
         /\ \/ pc' \in {"count", "walkOpen"}
            \/ /\ pc' = "walk" /\ lastOldest' # None
               /\ lastOldest = None \/ lastOldest' < lastOldest
  <1> USE Sorts
  <1>1. pc = "walk" /\ pc' \in {"count", "walkOpen", "walk"}
    BY DEF WalkPage, StopWalk
  <1>2. ASSUME pc' = "walk"
        PROVE  lastOldest' # None /\ (lastOldest = None \/ lastOldest' < lastOldest)
    <2>1. PICK page \in SUBSET history :
            PageBefore(page) /\ lastOldest' \in page \ {lastOldest}
      BY <1>2 DEF WalkPage, StopWalk
    <2>2. lastOldest' \in {m \in history : lastOldest # None => m < lastOldest}
      BY <2>1 DEF PageBefore, AreNewest
    <2>3. QED  BY <2>2
  <1>3. QED  BY <1>1, <1>2

\* Each step of a scan, and whatever ends it, leaves it less work.
LEMMA ScanShrinks ==
  ASSUME TypeOK, TypeOK', ScanStep \/ SkipChannel \/ AbortWalk \/ Crash
  PROVE  Work' < Work
  <1>1. /\ LastId \in Nat /\ lastSeen \in 0 .. LastId /\ lastOldest \in 0 .. LastId
        /\ lastSeen' \in 0 .. LastId /\ lastOldest' \in 0 .. LastId /\ None = 0
    BY IdsAssumption DEF TypeOK, Ids, None
  <1>2. ASSUME pc # "idle", Forget  PROVE Work' < Work
    <2>1. Work' = 0  BY <1>2 DEF Forget, Work
    <2>2. Work \in 0 .. 2 * LastId + 12 /\ Work # 0  BY <1>2, WorkType
    <2>3. QED  BY <1>1, <2>1, <2>2
  <1>3. CASE ForwardPage  BY <1>1, <1>3, ForwardGoesUp DEF Work
  <1>4. CASE FetchPinned  BY <1>1, <1>4 DEF FetchPinned, Work
  <1>5. CASE OpenMessages  BY <1>1, <1>5 DEF OpenMessages, Work
  <1>6. CASE FsyncMessages  BY <1>1, <1>6 DEF FsyncMessages, Work
  <1>7. CASE AdvanceCursor  BY <1>1, <1>7 DEF AdvanceCursor, Work
  <1>8. CASE BeginBackfill
    <2>1. CASE Forget  BY <1>2, <1>8, <2>1 DEF BeginBackfill
    <2>2. CASE ~ Forget
      <3>1. pc = "backfill" /\ pc' = "walk"  BY <1>8, <2>2 DEF BeginBackfill
      <3>2. QED  BY <1>1, <3>1 DEF Work
    <2>3. QED  BY <2>1, <2>2
  <1>9. CASE WalkPage
    <2>1. CASE pc' \in {"count", "walkOpen"}
      BY <1>1, <1>9, <2>1, WalkGoesDown DEF Work
    <2>2. CASE pc' = "walk"
      BY <1>1, <1>9, <2>2, WalkGoesDown DEF Work
    <2>3. QED  BY <1>9, <2>1, <2>2, WalkGoesDown
  <1>10. CASE OpenBackfill  BY <1>1, <1>10 DEF OpenBackfill, Work
  <1>11. CASE FsyncBackfill  BY <1>1, <1>11 DEF FsyncBackfill, Work
  <1>12. CASE AdvanceBackward  BY <1>1, <1>12 DEF AdvanceBackward, Work
  <1>13. CASE CountRun
    <2>1. CASE Forget  BY <1>2, <1>13, <2>1 DEF CountRun
    <2>2. CASE ~ Forget
      <3>1. pc = "count" /\ pc' = "mark"  BY <1>13, <2>2 DEF CountRun
      <3>2. QED  BY <3>1 DEF Work
    <2>3. QED  BY <2>1, <2>2
  <1>14. CASE MarkBackfilled  BY <1>2, <1>14 DEF MarkBackfilled
  <1>15. CASE SkipChannel  BY <1>2, <1>15 DEF SkipChannel
  <1>16. CASE AbortWalk
    <2>1. pc = "walk" /\ pc' \in {"count", "walkOpen"}
      BY <1>16 DEF AbortWalk, StopWalk
    <2>2. QED  BY <1>1, <2>1 DEF Work
  <1>17. CASE Crash  BY <1>2, <1>17 DEF Crash
  <1>18. QED
    BY <1>3, <1>4, <1>5, <1>6, <1>7, <1>8, <1>9, <1>10, <1>11, <1>12, <1>13, <1>14,
       <1>15, <1>16, <1>17 DEF ScanStep

\* Whatever is posted, deleted and answered, a scan comes nearer to its end with each
\* step, and only the next scan begins anew: the two pagination loops cannot go on for
\* ever, with any caps, and what ForwardCatchesUp and BackfillSettles need besides is
\* that requests are answered.
THEOREM ScanIsBounded ==
  Spec => /\ [](Work \in 0 .. 2 * LastId + 12)
          /\ [][/\ ScanStep \/ SkipChannel \/ AbortWalk \/ Crash => Work' < Work
                /\ Work' > Work => StartScan]_vars
  <1> DEFINE Ends == ScanStep \/ SkipChannel \/ AbortWalk \/ Crash
             Shrinks == (Ends => Work' < Work) /\ (Work' > Work => StartScan)
  <1>1. TypeOK /\ TypeOK' /\ [Next]_vars => [Shrinks]_vars
    <2> SUFFICES ASSUME TypeOK, TypeOK', Next PROVE Shrinks  OBVIOUS
    <2>1. Work \in Int /\ Work' \in Int /\ Work >= 0
      <3>1. (TypeOK => Work \in 0 .. 2 * LastId + 12)'  BY WorkType, PTL
      <3>2. LastId \in Nat  BY IdsAssumption
      <3>3. QED  BY <3>1, <3>2, WorkType
    <2>2. Ends => Work' < Work  BY ScanShrinks
    <2>3. ASSUME Post \/ (\E m \in Deletable : Delete(m)) \/ WriteBack
          PROVE  Work' = Work
      BY <2>3 DEF Post, Delete, WriteBack, forward, walk, Work
    <2>4. ASSUME PowerCut  PROVE Work' = 0
      BY <2>4 DEF PowerCut, Forget, Work
    <2>5. Work' > Work => StartScan
      <3> SUFFICES ASSUME Work' > Work, ~ StartScan  PROVE FALSE  OBVIOUS
      <3>1. ~ Ends  BY <2>1, <2>2
      <3>2. QED  BY <2>1, <2>3, <2>4, <3>1 DEF Next
    <2>6. QED  BY <2>2, <2>5
  <1>2. TypeOK => Work \in 0 .. 2 * LastId + 12  BY WorkType
  <1>3. QED  BY <1>1, <1>2, TypeCorrect, PTL DEF Spec

\* A walk under way was begun with a run to spare, also where the row is taken back.
RunsInv ==
  /\ runs <= MaxRuns /\ disk.runs <= MaxRuns
  /\ pc \in {"walk", "walkOpen", "walkFsync", "walkAdvance", "count"} => runs < MaxRuns

\* No more than max_scan_runs_per_channel walks are ever counted: a run is checked at the
\* start of a walk and counted at its end, and nothing comes between the two.
THEOREM RunsAreBounded == Spec => [](runs <= MaxRuns)
  <1>1. Init => RunsInv
    BY SettingsAssumption DEF Init, Committed, RunsInv
  <1>2. TypeOK /\ RunsInv /\ [Next]_vars => RunsInv'
    <2> SUFFICES ASSUME TypeOK, RunsInv, [Next]_vars PROVE RunsInv'  OBVIOUS
    <2> USE SettingsAssumption DEF TypeOK
    <2>1. ASSUME UNCHANGED <<runs, disk>>,
                 \/ UNCHANGED pc
                 \/ pc' \in {"idle", "mark", "forward", "pinned", "open", "fsync",
                             "advance", "backfill"}
                 \/ pc \in {"walk", "walkOpen", "walkFsync", "walkAdvance"}
          PROVE  RunsInv'
      BY <2>1 DEF RunsInv
    <2>2. CASE BeginBackfill
      <3>1. CASE Forget  BY <2>1, <2>2, <3>1 DEF BeginBackfill, Forget, row
      <3>2. CASE ~ Forget
        <4>1. UNCHANGED <<runs, disk>> /\ runs < MaxRuns
          BY <2>2, <3>2 DEF BeginBackfill, row
        <4>2. QED  BY <4>1 DEF RunsInv
      <3>3. QED  BY <3>1, <3>2
    <2>3. CASE CountRun
      <3>1. pc = "count" /\ runs' = runs + 1 /\ disk' = disk /\ pc' \in {"idle", "mark"}
        BY <2>3 DEF CountRun, Forget
      <3>2. QED  BY <3>1 DEF RunsInv
    <2>4. CASE WriteBack
      <3>1. runs' = runs /\ disk'.runs = runs /\ pc' = pc
        BY <2>4 DEF WriteBack, Committed, row
      <3>2. QED  BY <3>1 DEF RunsInv
    <2>5. CASE PowerCut
      <3>1. runs' = disk.runs /\ disk' = disk /\ pc' = "idle"
        BY <2>5 DEF PowerCut, Forget
      <3>2. QED  BY <3>1 DEF RunsInv
    <2>6. CASE Post \/ (\E m \in Deletable : Delete(m)) \/ UNCHANGED vars
      BY <2>1, <2>6 DEF Post, Delete, vars, row
    <2>7. CASE StartScan \/ FetchPinned \/ OpenMessages \/ FsyncMessages \/ AdvanceCursor
      BY <2>1, <2>7
         DEF StartScan, FetchPinned, OpenMessages, FsyncMessages, AdvanceCursor, row
    <2>8. CASE ForwardPage  BY <2>1, <2>8 DEF ForwardPage, row
    <2>9. CASE WalkPage  BY <2>1, <2>9 DEF WalkPage, row
    <2>10. CASE AbortWalk  BY <2>1, <2>10 DEF AbortWalk, row
    <2>11. CASE OpenBackfill \/ FsyncBackfill \/ AdvanceBackward
      BY <2>1, <2>11 DEF OpenBackfill, FsyncBackfill, AdvanceBackward, row
    <2>12. CASE MarkBackfilled \/ SkipChannel \/ Crash
      BY <2>1, <2>12 DEF MarkBackfilled, SkipChannel, Crash, Forget, row
    <2>13. QED
      BY <2>2, <2>3, <2>4, <2>5, <2>6, <2>7, <2>8, <2>9, <2>10, <2>11, <2>12
         DEF Next, ScanStep
  <1>3. RunsInv => runs <= MaxRuns  BY DEF RunsInv
  <1>4. QED  BY <1>1, <1>2, <1>3, TypeCorrect, PTL DEF Spec

================================================================================
