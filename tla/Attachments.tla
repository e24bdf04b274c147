------------------------------ MODULE Attachments ------------------------------
(***************************************************************************)
(* The attachments of the messages a pass archives: the loop of            *)
(* _download_message_attachments (scan/orchestrator.py), the streamed      *)
(* download with its sniff and its cap (fetch/attachments.py), the records *)
(* of videos that are buffered until the teardown of the pass, and the     *)
(* files these leave (dump/video_triage.py).                               *)
(*                                                                         *)
(* The messages of a channel are written and passed by its cursor before   *)
(* their attachments are looked at (module ChannelScan), so that a message *)
(* comes here once.  A body is a number of bytes that come in chunks; the  *)
(* attachments of a batch are taken in the order of their numbers.         *)
(***************************************************************************)
EXTENDS Integers, FiniteSets

CONSTANTS
  Messages, Guilds,
  guildOf,          \* The guild of a message.
  LastAttachment,   \* The attachments are 1 .. LastAttachment.
  msgOf,            \* The message of an attachment.
  kindOf,           \* What its type, name and URL make of it: see Kinds.
  Targets,          \* Paths in attachments/ directories ...
  targetOf,         \* ... {msg_id}_{sanitised name} of an attachment.
  SniffBytes,       \* MIME_SNIFF_BYTES.
  SizeCap,          \* size_cap.
  Chunks,           \* The sizes a chunk may have.
  RescanSameDay,    \* May two passes run on the same UTC day?
  MaxTrouble        \* Bound: failed requests and disks, and deaths.

Attachments == 1 .. LastAttachment

\* A GIF in any of its forms; a video; a record without a URL or a name; an
\* extension that is not allowed; and an image as its extension says.
Kinds == {"gif", "video", "blank", "forbidden", "image"}

ASSUME AttachmentsAssumption ==
  /\ guildOf \in [Messages -> Guilds] /\ LastAttachment \in Nat
  /\ msgOf \in [Attachments -> Messages] /\ kindOf \in [Attachments -> Kinds]
  /\ targetOf \in [Attachments -> Targets]
  /\ 0 \notin Attachments
ASSUME SizesAssumption ==
  /\ SniffBytes \in Nat \ {0} /\ SizeCap \in Nat /\ Chunks \subseteq Nat \ {0}
  /\ RescanSameDay \in BOOLEAN /\ MaxTrouble \in Nat

VARIABLES
  passed,           \* Messages that are written and behind their cursor.
  pc,
  todo,             \* The attachments of the batch that are still to come.
  now,              \* The attachment that is being downloaded, or Nothing.
  got,              \* How many bytes of it have come.
  files,            \* What a path holds: of which attachment, and whether all of it.
  outcome,          \* What became of an attachment: the counters of the channel.
  buffered,         \* video_triage_by_guild: the records of this pass.
  unflushed,        \* The guilds whose writer the teardown has not flushed.
  triage,           \* Today's video-triage.jsonl of a guild ...
  view,             \* ... and its video-triage.md.
  trouble,
  cut               \* Attachments whose pass died, or whose records met a bad disk.

batch == <<todo, now, got>>
sidecar == <<triage, view>>
vars == <<passed, pc, batch, files, outcome, buffered, unflushed, sidecar, trouble, cut>>

PCs == {"idle", "scan", "next", "request", "sniff", "stream", "flush"}
Outcomes == {"none", "gif", "triaged", "ok", "mime", "other"}

Nothing == 0
NoFile == [of |-> Nothing, whole |-> FALSE]
Part(a)  == [of |-> a, whole |-> FALSE]
Whole(a) == [of |-> a, whole |-> TRUE]

AttachmentsOf(M) == {a \in Attachments : msgOf[a] \in M}
IsFirst(a, S) == a \in S /\ \A b \in S : a <= b

Trouble == trouble < MaxTrouble /\ trouble' = trouble + 1

\* The attachment is done with; the loop goes on.
Settle(a, what) ==
  /\ outcome' = [outcome EXCEPT ![a] = what]
  /\ pc' = "next" /\ now' = Nothing /\ got' = 0

\* _delete_partial: whatever the path holds.
Delete(a) == files' = [files EXCEPT ![targetOf[a]] = NoFile]

--------------------------------------------------------------------------------
(* The pass.                                                               *)

StartPass ==
  /\ pc = "idle"
  /\ pc' = "scan"
  /\ buffered' = [g \in Guilds |-> {}]
  /\ \/ RescanSameDay /\ UNCHANGED sidecar
     \/ triage' = [g \in Guilds |-> {}] /\ view' = [g \in Guilds |-> {}]
  /\ UNCHANGED <<passed, batch, files, outcome, unflushed, trouble, cut>>

\* A channel has new messages; they are written, and its cursor passes them.
ScanChannel ==
  /\ pc = "scan"
  /\ \E M \in SUBSET (Messages \ passed) : \E g \in Guilds :
       /\ M # {} /\ \A m \in M : guildOf[m] = g
       /\ passed' = passed \cup M
       /\ todo' = AttachmentsOf(M)
  /\ pc' = "next"
  /\ UNCHANGED <<now, got, files, outcome, buffered, unflushed, sidecar, trouble, cut>>

\* The batch is done with.
EndChannel ==
  /\ pc = "next" /\ todo = {}
  /\ pc' = "scan"
  /\ UNCHANGED <<passed, batch, files, outcome, buffered, unflushed, sidecar, trouble,
                 cut>>

\* The pass is over, by an exception or not: the teardown begins.
EndPass ==
  /\ pc = "scan"
  /\ pc' = "flush"
  /\ unflushed' = {g \in Guilds : buffered[g] # {}}
  /\ UNCHANGED <<passed, batch, files, outcome, buffered, sidecar, trouble, cut>>

--------------------------------------------------------------------------------
(* Bugs this code could have had: each breaks one property.                *)

\* A file that turns out too long is left where it is.
StreamKeepingOversize ==
  /\ pc = "stream"
  /\ \E n \in Chunks :
       IF got + n > SizeCap THEN Settle(now, "other")
       ELSE got' = got + n /\ UNCHANGED <<pc, now, outcome>>
  /\ UNCHANGED <<passed, todo, files, buffered, unflushed, sidecar, trouble, cut>>

\* The first failure ends the loop over the attachments.
FailBreaking ==
  /\ pc \in {"request", "sniff", "stream"}
  /\ Trouble
  /\ Settle(now, "other")
  /\ Delete(now)
  /\ todo' = {}
  /\ UNCHANGED <<passed, buffered, unflushed, sidecar, cut>>

\* The end of the body is taken for the end of the download before the last bytes.
FinishUnflushed ==
  /\ pc \in {"sniff", "stream"}
  /\ files' = IF pc = "sniff" THEN [files EXCEPT ![targetOf[now]] = Whole(now)]
              ELSE files
  /\ Settle(now, "ok")
  /\ UNCHANGED <<passed, todo, buffered, unflushed, sidecar, trouble, cut>>

\* A flush that fails ends the loop over the writers.
FlushBreaking ==
  /\ pc = "flush"
  /\ \E g \in unflushed :
       \/ /\ triage' = [triage EXCEPT ![g] = buffered[g]]
          /\ view' = [view EXCEPT ![g] = buffered[g]]
          /\ unflushed' = unflushed \ {g}
          /\ UNCHANGED <<trouble, cut>>
       \/ /\ Trouble
          /\ cut' = cut \cup buffered[g]
          /\ unflushed' = {}
          /\ UNCHANGED sidecar
  /\ UNCHANGED <<passed, pc, batch, files, outcome, buffered>>

--------------------------------------------------------------------------------
(* _download_message_attachments and download_attachment.                  *)

\* What need not be downloaded: is_gif comes before is_video.
NextAttachment ==
  /\ pc = "next"
  /\ \E a \in todo :
       /\ IsFirst(a, todo)
       /\ todo' = todo \ {a}
       /\ \/ /\ kindOf[a] = "blank"
             /\ UNCHANGED <<pc, now, got, outcome, buffered>>
          \/ kindOf[a] = "gif" /\ Settle(a, "gif") /\ UNCHANGED buffered
          \/ /\ kindOf[a] = "video"
             /\ Settle(a, "triaged")
             /\ buffered' = [buffered EXCEPT ![guildOf[msgOf[a]]] = @ \cup {a}]
          \/ kindOf[a] = "forbidden" /\ Settle(a, "other") /\ UNCHANGED buffered
          \/ /\ kindOf[a] = "image"
             /\ pc' = "request" /\ now' = a /\ got' = 0
             /\ UNCHANGED <<outcome, buffered>>
  /\ UNCHANGED <<passed, files, unflushed, sidecar, trouble, cut>>

\* The body is going to be streamed.
Answer ==
  /\ pc = "request"
  /\ pc' = "sniff"
  /\ UNCHANGED <<passed, batch, files, outcome, buffered, unflushed, sidecar, trouble,
                 cut>>

\* A status of 400 or more, a challenge, a URL that is not allowed or a directory
\* that cannot be made: the path is left alone, and the loop goes on.
Refuse ==
  /\ pc = "request"
  /\ Trouble
  /\ Settle(now, "other")
  /\ UNCHANGED <<passed, todo, files, buffered, unflushed, sidecar, cut>>

\* Chunks before the sniff are held in memory; the file is opened (mode "wb") when
\* the first bytes are those of an image of the declared extension.
Sniff ==
  /\ pc = "sniff"
  /\ \E n \in Chunks :
       \/ /\ got + n < SniffBytes
          /\ got' = got + n
          /\ UNCHANGED <<pc, now, files, outcome>>
       \/ /\ got + n >= SniffBytes
          /\ \/ Settle(now, "mime") /\ UNCHANGED files
             \/ got + n > SizeCap /\ Settle(now, "other") /\ UNCHANGED files
             \/ /\ got + n <= SizeCap
                /\ files' = [files EXCEPT ![targetOf[now]] = Part(now)]
                /\ pc' = "stream" /\ got' = got + n
                /\ UNCHANGED <<now, outcome>>
  /\ UNCHANGED <<passed, todo, buffered, unflushed, sidecar, trouble, cut>>

Stream ==
  /\ pc = "stream"
  /\ \E n \in Chunks :
       IF got + n > SizeCap THEN Settle(now, "other") /\ Delete(now)
       ELSE got' = got + n /\ UNCHANGED <<pc, now, files, outcome>>
  /\ UNCHANGED <<passed, todo, buffered, unflushed, sidecar, trouble, cut>>

\* The end of the body; it may come before there is enough to sniff at.
Finish ==
  /\ \/ /\ pc = "stream" \/ (pc = "sniff" /\ got > 0)
        /\ files' = [files EXCEPT ![targetOf[now]] = Whole(now)]
        /\ Settle(now, "ok")
     \/ pc = "sniff" /\ Settle(now, "mime") /\ UNCHANGED files
  /\ UNCHANGED <<passed, todo, buffered, unflushed, sidecar, trouble, cut>>

\* The connection or the disk fails: the path is deleted, whatever it holds.
Fail ==
  /\ pc \in {"request", "sniff", "stream"}
  /\ Trouble
  /\ Settle(now, "other")
  /\ Delete(now)
  /\ UNCHANGED <<passed, todo, buffered, unflushed, sidecar, cut>>

--------------------------------------------------------------------------------
(* The teardown.                                                           *)

\* write_video_triage_md renders what the flush has written.
Render(g) == view' = [view EXCEPT ![g] = buffered[g]]

\* VideoTriageWriter.flush replaces the file of the day by the records of this
\* pass; a failure of it, or of the view, is logged.
Flush ==
  /\ pc = "flush"
  /\ \E g \in unflushed :
       /\ unflushed' = unflushed \ {g}
       /\ \/ /\ triage' = [triage EXCEPT ![g] = buffered[g]]
             /\ \/ Render(g) /\ UNCHANGED <<trouble, cut>>
                \/ UNCHANGED view /\ Trouble /\ cut' = cut \cup buffered[g]
          \/ UNCHANGED sidecar /\ Trouble /\ cut' = cut \cup buffered[g]
  /\ UNCHANGED <<passed, pc, batch, files, outcome, buffered>>

CloseResources ==
  /\ pc = "flush" /\ unflushed = {}
  /\ pc' = "idle"
  /\ UNCHANGED <<passed, batch, files, outcome, buffered, unflushed, sidecar, trouble,
                 cut>>

\* The process dies, or is interrupted (KeyboardInterrupt and CancelledError are no
\* Exceptions: nothing deletes the partial file).
Crash ==
  /\ pc # "idle"
  /\ Trouble
  /\ pc' = "idle" /\ todo' = {} /\ now' = Nothing /\ got' = 0
  /\ unflushed' = {}
  /\ cut' = cut \cup todo \cup ({now} \ {Nothing}) \cup UNION {buffered[g] : g \in Guilds}
  /\ UNCHANGED <<passed, files, outcome, buffered, sidecar>>

--------------------------------------------------------------------------------
Init ==
  /\ passed = {} /\ pc = "idle"
  /\ todo = {} /\ now = Nothing /\ got = 0
  /\ files = [t \in Targets |-> NoFile]
  /\ outcome = [a \in Attachments |-> "none"]
  /\ buffered = [g \in Guilds |-> {}] /\ unflushed = {}
  /\ triage = [g \in Guilds |-> {}] /\ view = [g \in Guilds |-> {}]
  /\ trouble = 0 /\ cut = {}

Next ==
  \/ StartPass \/ ScanChannel \/ EndChannel \/ EndPass
  \/ NextAttachment \/ Answer \/ Refuse \/ Sniff \/ Stream \/ Finish \/ Fail
  \/ Flush \/ CloseResources
  \/ Crash

Spec == Init /\ [][Next]_vars

--------------------------------------------------------------------------------
(* Properties.                                                             *)

TypeOK ==
  /\ passed \subseteq Messages /\ pc \in PCs
  /\ todo \subseteq Attachments /\ now \in Attachments \cup {Nothing} /\ got \in Nat
  /\ files \in [Targets -> [of : Attachments \cup {Nothing}, whole : BOOLEAN]]
  /\ outcome \in [Attachments -> Outcomes]
  /\ buffered \in [Guilds -> SUBSET Attachments] /\ unflushed \subseteq Guilds
  /\ triage \in [Guilds -> SUBSET Attachments] /\ view \in [Guilds -> SUBSET Attachments]
  /\ trouble \in 0 .. MaxTrouble /\ cut \subseteq Attachments

\* An image that is counted as downloaded is in its file, the whole of it and
\* nothing else, whatever becomes of the attachments after it.  (The names of a
\* message's attachments have to differ.)
DownloadedIsKept ==
  \A a \in Attachments : outcome[a] = "ok" => files[targetOf[a]] = Whole(a)

\* Part of an image is on the disk only while it comes, or when the pass died.
NoPartialLeft ==
  \A t \in Targets :
    files[t].of # Nothing /\ ~ files[t].whole =>
      files[t].of \in cut \/ (pc = "stream" /\ files[t].of = now)

\* One attachment's failure is no other's: between two channels everything that
\* came with the messages behind the cursor has been dealt with, unless the pass died.
EachIsDealtWith ==
  pc \in {"idle", "scan", "flush"} =>
    \A a \in AttachmentsOf(passed) \ cut : kindOf[a] # "blank" => outcome[a] # "none"

\* The teardown of a pass, whatever ended it, puts the record of every video of the
\* pass into the file of its guild and into the view of it, though the flush of
\* another guild fails.
TeardownKeepsVideos ==
  pc = "idle" =>
    \A g \in Guilds : \A a \in buffered[g] \ cut : a \in triage[g] \cap view[g]

================================================================================
