----------------------------- MODULE Fetch_proofs -----------------------------
(***************************************************************************)
(* Proofs about what a pass fetches beside the messages of its channels.   *)
(*                                                                         *)
(* About module Attachments: its types, that every attachment is dealt     *)
(* with and no part of an image is left behind, that an image that was     *)
(* downloaded stays when no two attachments share a path, and that the     *)
(* teardown keeps the records of the videos.                               *)
(*                                                                         *)
(* About module ForumThreads: its types, that a listing of the archive     *)
(* misses and repeats no thread, and that a snapshot has what the fetches  *)
(* of the threads it is made of have brought.                              *)
(***************************************************************************)
EXTENDS Attachments, ForumThreads, FiniteSetTheorems, SequenceTheorems, TLAPS

--------------------------------------------------------------------------------
(* Attachments: the inductive invariant.                                   *)

\* There is an attachment being downloaded just when the loop waits for one.
Waiting == pc \in {"request", "sniff", "stream"} <=> now # Nothing

\* What is still to come, or is coming, has no outcome yet and is counted once; and
\* where the loop is not running there is nothing to come.
Queue ==
  /\ todo \subseteq AttachmentsOf(passed)
  /\ now # Nothing => msgOf[now] \in passed /\ now \notin todo /\ outcome[now] = "none"
  /\ \A a \in todo : outcome[a] = "none"
  /\ \A a \in Attachments : outcome[a] # "none" => msgOf[a] \in passed
  /\ pc \in {"idle", "scan", "flush"} => todo = {}

\* An attachment that came with a passed message has an outcome, or comes still.
Accounted ==
  \A a \in AttachmentsOf(passed) \ cut :
    kindOf[a] # "blank" => outcome[a] # "none" \/ a \in todo \/ a = now

\* A path holds an attachment of that path, and part of one only while it comes.
Paths ==
  \A t \in Targets :
    /\ files[t].of # Nothing => targetOf[files[t].of] = t
    /\ files[t].of # Nothing /\ ~ files[t].whole =>
         files[t].of \in cut \/ (pc = "stream" /\ files[t].of = now)

\* The writers that are flushed have nothing that is not in their files.
Flushed ==
  pc \in {"idle", "flush"} =>
    \A g \in Guilds \ unflushed : \A a \in buffered[g] \ cut : a \in triage[g] \cap view[g]

Drained == pc = "idle" => unflushed = {}

--------------------------------------------------------------------------------
(* Types.                                                                  *)

\* What Settle leaves is typed: the outcome of one attachment, and an idle loop.
LEMMA SettleTypes ==
  ASSUME TypeOK, NEW a \in Attachments, NEW what \in Outcomes, Settle(a, what)
  PROVE  /\ outcome' \in [Attachments -> Outcomes]
         /\ pc' = "next" /\ now' = Nothing /\ got' = 0
         /\ outcome'[a] = what
         /\ \A b \in Attachments \ {a} : outcome'[b] = outcome[b]
  BY DEF TypeOK, Settle

\* What a path of an attachment is given is typed, and the other paths keep theirs.
LEMMA FilesTypes ==
  ASSUME TypeOK, NEW a \in Attachments, NEW r \in {NoFile, Part(a), Whole(a)},
         files' = [files EXCEPT ![targetOf[a]] = r]
  PROVE  /\ files' \in [Targets -> [of : Attachments \cup {Nothing}, whole : BOOLEAN]]
         /\ targetOf[a] \in Targets /\ files'[targetOf[a]] = r
         /\ \A t \in Targets \ {targetOf[a]} : files'[t] = files[t]
<1>1. targetOf[a] \in Targets
  BY AttachmentsAssumption
<1>2. r \in [of : Attachments \cup {Nothing}, whole : BOOLEAN]
  <2>1. CASE r = NoFile  BY <2>1 DEF NoFile
  <2>2. CASE r = Part(a)  BY <2>2 DEF Part
  <2>3. CASE r = Whole(a)  BY <2>3 DEF Whole
  <2>4. QED  BY <2>1, <2>2, <2>3
<1>3. QED  BY <1>1, <1>2 DEF TypeOK

\* While an attachment is being downloaded, it is one.
LEMMA NowIsOne == TypeOK /\ now # Nothing => now \in Attachments
  BY DEF TypeOK

\* Every step keeps the types.
LEMMA NextTypes ==
  ASSUME TypeOK, Waiting, [Next]_vars
  PROVE  TypeOK' /\ Waiting'
<1>0. Outcomes = {"none", "gif", "triaged", "ok", "mime", "other"} /\ Nothing = 0
  BY DEF Outcomes, Nothing
<1>1. CASE StartPass  BY <1>1 DEF StartPass, PCs, batch, sidecar, TypeOK, Waiting
<1>2. CASE ScanChannel
  BY <1>2 DEF ScanChannel, PCs, sidecar, AttachmentsOf, TypeOK, Waiting
<1>3. CASE EndChannel  BY <1>3 DEF EndChannel, PCs, batch, sidecar, TypeOK, Waiting
<1>4. CASE EndPass  BY <1>4 DEF EndPass, PCs, batch, sidecar, TypeOK, Waiting
<1>5. CASE NextAttachment
  <2>1. PICK a \in todo :
          /\ todo' = todo \ {a}
          /\ \/ UNCHANGED <<pc, now, got, outcome, buffered>>
             \/ \E what \in {"gif", "other"} : Settle(a, what) /\ UNCHANGED buffered
             \/ /\ Settle(a, "triaged")
                /\ buffered' = [buffered EXCEPT ![guildOf[msgOf[a]]] = @ \cup {a}]
             \/ /\ pc' = "request" /\ now' = a /\ got' = 0
                /\ UNCHANGED <<outcome, buffered>>
    BY <1>5 DEF NextAttachment
  <2>2. a \in Attachments /\ a # Nothing /\ todo' \subseteq Attachments
    BY <2>1, AttachmentsAssumption DEF TypeOK, Nothing
  <2>3. /\ pc = "next" /\ now = Nothing
        /\ UNCHANGED <<passed, files, unflushed, triage, view, trouble, cut>>
    BY <1>5 DEF NextAttachment, sidecar, Waiting
  <2>4. CASE UNCHANGED <<pc, now, got, outcome, buffered>>
    BY <2>2, <2>3, <2>4 DEF TypeOK, Waiting
  <2>5. ASSUME NEW what \in {"gif", "other"}, Settle(a, what), UNCHANGED buffered
        PROVE  TypeOK' /\ Waiting'
    <3>1. what \in Outcomes  BY DEF Outcomes
    <3>2. QED  BY <2>2, <2>3, <2>5, <3>1, SettleTypes DEF TypeOK, Waiting, PCs
  <2>6. CASE /\ Settle(a, "triaged")
             /\ buffered' = [buffered EXCEPT ![guildOf[msgOf[a]]] = @ \cup {a}]
    <3>1. "triaged" \in Outcomes  BY DEF Outcomes
    <3>2. buffered' \in [Guilds -> SUBSET Attachments]
      BY <2>2, <2>6 DEF TypeOK
    <3>3. QED  BY <2>2, <2>3, <2>6, <3>1, <3>2, SettleTypes DEF TypeOK, Waiting, PCs
  <2>7. CASE /\ pc' = "request" /\ now' = a /\ got' = 0
             /\ UNCHANGED <<outcome, buffered>>
    BY <2>2, <2>3, <2>7 DEF TypeOK, Waiting, PCs
  <2>8. QED  BY <2>1, <2>4, <2>5, <2>6, <2>7
<1>6. CASE Answer  BY <1>6 DEF Answer, PCs, batch, sidecar, TypeOK, Waiting
<1>7. CASE Refuse
  <2>1. now \in Attachments /\ trouble' \in 0 .. MaxTrouble
    BY <1>7, NowIsOne, SizesAssumption DEF Refuse, Waiting, Trouble, TypeOK
  <2>2. QED
    BY <1>0, <1>7, <2>1, SettleTypes DEF Refuse, PCs, sidecar, TypeOK, Waiting
<1>8. CASE Sniff
  <2>1. now \in Attachments  BY <1>8, NowIsOne DEF Sniff, Waiting
  <2>2. UNCHANGED <<passed, todo, buffered, unflushed, triage, view, trouble, cut>>
    BY <1>8 DEF Sniff, sidecar
  <2>3. PICK n \in Chunks :
          \/ got' = got + n /\ UNCHANGED <<pc, now, files, outcome>>
          \/ \E what \in {"mime", "other"} : Settle(now, what) /\ UNCHANGED files
          \/ /\ files' = [files EXCEPT ![targetOf[now]] = Part(now)]
             /\ pc' = "stream" /\ got' = got + n
             /\ UNCHANGED <<now, outcome>>
    BY <1>8 DEF Sniff
  <2>4. n \in Nat /\ got + n \in Nat  BY SizesAssumption DEF TypeOK
  <2>5. CASE got' = got + n /\ UNCHANGED <<pc, now, files, outcome>>
    BY <2>2, <2>4, <2>5 DEF TypeOK, Waiting
  <2>6. ASSUME NEW what \in {"mime", "other"}, Settle(now, what), UNCHANGED files
        PROVE  TypeOK' /\ Waiting'
    <3>1. what \in Outcomes  BY DEF Outcomes
    <3>2. QED  BY <2>1, <2>2, <2>6, <3>1, SettleTypes DEF TypeOK, Waiting, PCs
  <2>7. CASE /\ files' = [files EXCEPT ![targetOf[now]] = Part(now)]
             /\ pc' = "stream" /\ got' = got + n
             /\ UNCHANGED <<now, outcome>>
    <3>1. files' \in [Targets -> [of : Attachments \cup {Nothing}, whole : BOOLEAN]]
      BY <2>1, <2>7, FilesTypes
    <3>2. pc \in {"request", "sniff", "stream"}  BY <1>8 DEF Sniff
    <3>3. QED  BY <2>2, <2>4, <2>7, <3>1, <3>2 DEF TypeOK, Waiting, PCs
  <2>8. QED  BY <2>3, <2>5, <2>6, <2>7
<1>9. CASE Stream
  <2>1. now \in Attachments  BY <1>9, NowIsOne DEF Stream, Waiting
  <2>2. UNCHANGED <<passed, todo, buffered, unflushed, triage, view, trouble, cut>>
    BY <1>9 DEF Stream, sidecar
  <2>3. PICK n \in Chunks :
          \/ Settle(now, "other") /\ Delete(now)
          \/ got' = got + n /\ UNCHANGED <<pc, now, files, outcome>>
    BY <1>9 DEF Stream
  <2>4. n \in Nat /\ got + n \in Nat  BY SizesAssumption DEF TypeOK
  <2>5. CASE Settle(now, "other") /\ Delete(now)
    <3>1. files' \in [Targets -> [of : Attachments \cup {Nothing}, whole : BOOLEAN]]
      BY <2>1, <2>5, FilesTypes DEF Delete
    <3>2. QED  BY <1>0, <2>1, <2>2, <2>5, <3>1, SettleTypes DEF TypeOK, Waiting, PCs
  <2>6. CASE got' = got + n /\ UNCHANGED <<pc, now, files, outcome>>
    BY <2>2, <2>4, <2>6 DEF TypeOK, Waiting
  <2>7. QED  BY <2>3, <2>5, <2>6
<1>10. CASE Finish
  <2>1. now \in Attachments  BY <1>10, NowIsOne DEF Finish, Waiting
  <2>2. UNCHANGED <<passed, todo, buffered, unflushed, triage, view, trouble, cut>>
    BY <1>10 DEF Finish, sidecar
  <2>3. CASE files' = [files EXCEPT ![targetOf[now]] = Whole(now)] /\ Settle(now, "ok")
    <3>1. files' \in [Targets -> [of : Attachments \cup {Nothing}, whole : BOOLEAN]]
      BY <2>1, <2>3, FilesTypes
    <3>2. QED  BY <1>0, <2>1, <2>2, <2>3, <3>1, SettleTypes DEF TypeOK, Waiting, PCs
  <2>4. CASE Settle(now, "mime") /\ UNCHANGED files
    BY <1>0, <2>1, <2>2, <2>4, SettleTypes DEF TypeOK, Waiting, PCs
  <2>5. QED  BY <1>10, <2>3, <2>4 DEF Finish
<1>11. CASE Fail
  <2>1. now \in Attachments  BY <1>11, NowIsOne DEF Fail, Waiting
  <2>2. /\ UNCHANGED <<passed, todo, buffered, unflushed, triage, view, cut>>
        /\ trouble' \in 0 .. MaxTrouble
    BY <1>11, SizesAssumption DEF Fail, sidecar, Trouble, TypeOK
  <2>3. Settle(now, "other") /\ Delete(now)  BY <1>11 DEF Fail
  <2>4. files' \in [Targets -> [of : Attachments \cup {Nothing}, whole : BOOLEAN]]
    BY <2>1, <2>3, FilesTypes DEF Delete
  <2>5. QED  BY <1>0, <2>1, <2>2, <2>3, <2>4, SettleTypes DEF TypeOK, Waiting, PCs
<1>12. CASE Flush
  BY <1>12, SizesAssumption DEF Flush, Render, Trouble, batch, sidecar, TypeOK, Waiting
<1>13. CASE CloseResources
  BY <1>13 DEF CloseResources, PCs, batch, sidecar, TypeOK, Waiting
<1>14. CASE Crash
  BY <1>14, SizesAssumption DEF Crash, Trouble, PCs, sidecar, TypeOK, Waiting, Nothing
<1>15. CASE UNCHANGED vars  BY <1>15 DEF vars, batch, sidecar, TypeOK, Waiting
<1>16. QED
  BY <1>1, <1>2, <1>3, <1>4, <1>5, <1>6, <1>7, <1>8, <1>9, <1>10, <1>11, <1>12,
     <1>13, <1>14, <1>15 DEF Next

\* Every reachable state is well typed.
THEOREM TypeCorrect == Spec => []TypeOK
<1>1. Init => TypeOK /\ Waiting
  BY AttachmentsAssumption, SizesAssumption
     DEF Init, TypeOK, Waiting, PCs, Outcomes, NoFile, Nothing
<1>2. TypeOK /\ Waiting /\ [Next]_vars => (TypeOK /\ Waiting)'
  BY NextTypes
<1>3. QED  BY <1>1, <1>2, PTL DEF Spec

--------------------------------------------------------------------------------
(* Every attachment is dealt with.                                         *)

\* The attachment that was coming is settled: the rest of the queue is as it was.
LEMMA SettledNow ==
  ASSUME TypeOK, Waiting, Queue, Accounted, now # Nothing,
         NEW what \in Outcomes \ {"none"}, Settle(now, what),
         UNCHANGED <<passed, todo, cut>>
  PROVE  Queue' /\ Accounted'
<1>1. now \in Attachments /\ what \in Outcomes  BY NowIsOne
<1>2. /\ pc' = "next" /\ now' = Nothing
      /\ outcome'[now] = what
      /\ \A b \in Attachments \ {now} : outcome'[b] = outcome[b]
  BY <1>1, SettleTypes
<1>3. todo \subseteq Attachments /\ now \notin todo /\ msgOf[now] \in passed
  BY DEF TypeOK, Queue
<1>4. Queue'
  BY <1>1, <1>2, <1>3 DEF Queue, AttachmentsOf
<1>5. Accounted'
  BY <1>1, <1>2, <1>3 DEF Accounted, AttachmentsOf
<1>6. QED  BY <1>4, <1>5

\* A step that leaves the queue and the outcomes alone, and does not stop the loop
\* while something is to come.
LEMMA SameQueue ==
  ASSUME Queue, Accounted, UNCHANGED <<passed, todo, now, outcome>>,
         cut \subseteq cut', pc' \in {"idle", "scan", "flush"} => todo = {}
  PROVE  Queue' /\ Accounted'
<1>1. Queue'  BY DEF Queue, AttachmentsOf
<1>2. Accounted'  BY DEF Accounted, AttachmentsOf
<1>3. QED  BY <1>1, <1>2

\* Every step keeps the queue in order.
LEMMA QueueStep ==
  ASSUME TypeOK, Waiting, Queue, Accounted, [Next]_vars
  PROVE  Queue' /\ Accounted'
<1>0. /\ {"gif", "triaged", "ok", "mime", "other"} \subseteq Outcomes \ {"none"}
      /\ Nothing \notin Attachments
  BY AttachmentsAssumption DEF Outcomes, Nothing
<1>1. CASE StartPass  BY <1>1, SameQueue DEF StartPass, batch, Queue
<1>2. CASE ScanChannel
  <2>1. todo = {} /\ now = Nothing /\ pc' = "next" /\ UNCHANGED <<now, outcome, cut>>
    BY <1>2 DEF ScanChannel, Queue, Waiting
  <2>2. PICK M \in SUBSET (Messages \ passed) :
          passed' = passed \cup M /\ todo' = AttachmentsOf(M)
    BY <1>2 DEF ScanChannel
  <2>3. \A a \in AttachmentsOf(M) : outcome[a] = "none"
    BY <2>2 DEF Queue, AttachmentsOf
  <2>4. Queue'  BY <2>1, <2>2, <2>3 DEF Queue, AttachmentsOf
  <2>5. Accounted'  BY <2>1, <2>2 DEF Accounted, AttachmentsOf
  <2>6. QED  BY <2>4, <2>5
<1>3. CASE EndChannel  BY <1>3, SameQueue DEF EndChannel, batch
<1>4. CASE EndPass  BY <1>4, SameQueue DEF EndPass, batch, Queue
<1>5. CASE NextAttachment
  <2>1. PICK a \in todo :
          /\ todo' = todo \ {a}
          /\ \/ kindOf[a] = "blank" /\ UNCHANGED <<pc, now, outcome>>
             \/ \E what \in {"gif", "triaged", "other"} : Settle(a, what)
             \/ pc' = "request" /\ now' = a /\ UNCHANGED outcome
    BY <1>5 DEF NextAttachment
  <2>2. pc = "next" /\ now = Nothing /\ UNCHANGED <<passed, cut>>
    BY <1>5 DEF NextAttachment, Waiting
  <2>3. /\ a \in Attachments /\ a # Nothing /\ todo \subseteq Attachments
        /\ msgOf[a] \in passed /\ outcome[a] = "none"
    BY <1>0, <2>1 DEF Queue, AttachmentsOf
  <2>4. CASE kindOf[a] = "blank" /\ UNCHANGED <<pc, now, outcome>>
    <3>1. Queue'  BY <2>1, <2>2, <2>3, <2>4 DEF Queue, AttachmentsOf
    <3>2. Accounted'  BY <2>1, <2>2, <2>3, <2>4 DEF Accounted, AttachmentsOf
    <3>3. QED  BY <3>1, <3>2
  <2>5. ASSUME NEW what \in {"gif", "triaged", "other"}, Settle(a, what)
        PROVE  Queue' /\ Accounted'
    <3>1. what \in Outcomes /\ what # "none"  BY DEF Outcomes
    <3>2. /\ pc' = "next" /\ now' = Nothing /\ outcome'[a] = what
          /\ \A b \in Attachments \ {a} : outcome'[b] = outcome[b]
      BY <2>3, <2>5, <3>1, SettleTypes
    <3>3. Queue'  BY <2>1, <2>2, <2>3, <3>1, <3>2 DEF Queue, AttachmentsOf
    <3>4. Accounted'  BY <2>1, <2>2, <2>3, <3>1, <3>2 DEF Accounted, AttachmentsOf
    <3>5. QED  BY <3>3, <3>4
  <2>6. CASE pc' = "request" /\ now' = a /\ UNCHANGED outcome
    <3>1. Queue'  BY <2>1, <2>2, <2>3, <2>6 DEF Queue, AttachmentsOf
    <3>2. Accounted'  BY <1>0, <2>1, <2>2, <2>3, <2>6 DEF Accounted, AttachmentsOf
    <3>3. QED  BY <3>1, <3>2
  <2>7. QED  BY <2>1, <2>4, <2>5, <2>6
<1>6. CASE Answer  BY <1>6, SameQueue DEF Answer, batch
<1>7. CASE Refuse  BY <1>0, <1>7, SettledNow DEF Refuse, Waiting
<1>8. CASE Sniff
  <2>1. /\ now # Nothing /\ UNCHANGED <<passed, todo, cut>> /\ pc = "sniff"
        /\ \/ UNCHANGED <<pc, now, outcome>>
           \/ \E what \in {"mime", "other"} : Settle(now, what)
           \/ pc' = "stream" /\ UNCHANGED <<now, outcome>>
    BY <1>8 DEF Sniff, Waiting
  <2>2. QED  BY <1>0, <2>1, SettledNow, SameQueue
<1>9. CASE Stream
  <2>1. /\ now # Nothing /\ UNCHANGED <<passed, todo, cut>> /\ pc = "stream"
        /\ Settle(now, "other") \/ UNCHANGED <<pc, now, outcome>>
    BY <1>9 DEF Stream, Waiting
  <2>2. QED  BY <1>0, <2>1, SettledNow, SameQueue
<1>10. CASE Finish
  <2>1. /\ now # Nothing /\ UNCHANGED <<passed, todo, cut>>
        /\ \E what \in {"ok", "mime"} : Settle(now, what)
    BY <1>10 DEF Finish, Waiting
  <2>2. QED  BY <1>0, <2>1, SettledNow
<1>11. CASE Fail  BY <1>0, <1>11, SettledNow DEF Fail, Waiting
<1>12. CASE Flush
  <2>1. UNCHANGED <<passed, todo, now, outcome>> /\ cut \subseteq cut' /\ pc' = "flush"
    BY <1>12 DEF Flush, batch
  <2>2. QED  BY <1>12, <2>1, SameQueue DEF Flush, Queue
<1>13. CASE CloseResources  BY <1>13, SameQueue DEF CloseResources, batch, Queue
<1>14. CASE Crash
  <2>1. /\ todo' = {} /\ now' = Nothing /\ UNCHANGED <<passed, outcome>>
        /\ todo \subseteq cut' /\ cut \subseteq cut' /\ (now # Nothing => now \in cut')
    BY <1>14 DEF Crash
  <2>2. Queue'  BY <2>1 DEF Queue, AttachmentsOf
  <2>3. Accounted'  BY <1>0, <2>1 DEF Accounted, AttachmentsOf
  <2>4. QED  BY <2>2, <2>3
<1>15. CASE UNCHANGED vars  BY <1>15 DEF vars, batch, Queue, Accounted, AttachmentsOf
<1>16. QED
  BY <1>1, <1>2, <1>3, <1>4, <1>5, <1>6, <1>7, <1>8, <1>9, <1>10, <1>11, <1>12,
     <1>13, <1>14, <1>15 DEF Next

\* One attachment's failure is no other's: between two channels everything that came
\* with the messages behind the cursors has been dealt with, unless the pass died.
THEOREM DealtWithCorrect == Spec => []EachIsDealtWith
<1> DEFINE Inv == TypeOK /\ Waiting /\ Queue /\ Accounted
<1>1. Init => Inv
  BY AttachmentsAssumption, SizesAssumption
     DEF Init, TypeOK, Waiting, Queue, Accounted, AttachmentsOf, PCs, Outcomes, NoFile,
         Nothing
<1>2. Inv /\ [Next]_vars => Inv'
  BY NextTypes, QueueStep
<1>3. Inv => EachIsDealtWith
  <2> SUFFICES ASSUME Inv, pc \in {"idle", "scan", "flush"},
                      NEW a \in AttachmentsOf(passed) \ cut, kindOf[a] # "blank"
               PROVE  outcome[a] # "none"
    BY DEF EachIsDealtWith
  <2>1. todo = {} /\ now = Nothing /\ a # Nothing
    BY AttachmentsAssumption DEF Queue, Waiting, AttachmentsOf, Nothing
  <2>2. QED  BY <2>1 DEF Accounted
<1>4. QED  BY <1>1, <1>2, <1>3, PTL DEF Spec

--------------------------------------------------------------------------------
(* The files of the images.                                                *)

\* What a step can do to the files: nothing, or it gives the path of the attachment
\* that is coming a part of it, the whole of it or nothing.
LEMMA FileSteps ==
  ASSUME TypeOK, Waiting, [Next]_vars
  PROVE  \/ UNCHANGED files /\ cut \subseteq cut' /\ UNCHANGED now
            /\ (pc = "stream" => pc' = "stream")
         \/ UNCHANGED files /\ cut \subseteq cut' /\ pc # "stream"
         \/ UNCHANGED files /\ cut \cup ({now} \ {Nothing}) \subseteq cut'
         \/ /\ now # Nothing /\ UNCHANGED cut
            /\ \E r \in {NoFile, Whole(now)} :
                 files' = [files EXCEPT ![targetOf[now]] = r]
         \/ /\ now # Nothing /\ UNCHANGED <<cut, now>> /\ pc' = "stream"
            /\ files' = [files EXCEPT ![targetOf[now]] = Part(now)]
<1>1. CASE StartPass  BY <1>1 DEF StartPass, batch
<1>2. CASE ScanChannel  BY <1>2 DEF ScanChannel
<1>3. CASE EndChannel  BY <1>3 DEF EndChannel, batch
<1>4. CASE EndPass  BY <1>4 DEF EndPass, batch
<1>5. CASE NextAttachment  BY <1>5 DEF NextAttachment
<1>6. CASE Answer  BY <1>6 DEF Answer, batch
<1>7. CASE Refuse  BY <1>7 DEF Refuse
<1>8. CASE Sniff  BY <1>8 DEF Sniff, Waiting
<1>9. CASE Stream  BY <1>9 DEF Stream, Delete, Waiting
<1>10. CASE Finish  BY <1>10 DEF Finish, Waiting
<1>11. CASE Fail  BY <1>11 DEF Fail, Delete, Waiting
<1>12. CASE Flush  BY <1>12 DEF Flush, batch
<1>13. CASE CloseResources  BY <1>13 DEF CloseResources, batch
<1>14. CASE Crash  BY <1>14 DEF Crash
<1>15. CASE UNCHANGED vars  BY <1>15 DEF vars, batch
<1>16. QED
  BY <1>1, <1>2, <1>3, <1>4, <1>5, <1>6, <1>7, <1>8, <1>9, <1>10, <1>11, <1>12,
     <1>13, <1>14, <1>15 DEF Next

\* Part of an image is on the disk only while it comes, or when the pass died.
THEOREM NoPartialCorrect == Spec => []NoPartialLeft
<1> DEFINE Inv == TypeOK /\ Waiting /\ Paths
<1>1. Init => Inv
  BY AttachmentsAssumption, SizesAssumption
     DEF Init, TypeOK, Waiting, Paths, PCs, Outcomes, NoFile, Nothing
<1>2. Inv /\ [Next]_vars => Paths'
  <2> SUFFICES ASSUME Inv, [Next]_vars PROVE Paths'
    OBVIOUS
  <2>1. CASE UNCHANGED files /\ cut \subseteq cut' /\ UNCHANGED now
             /\ (pc = "stream" => pc' = "stream")
    BY <2>1 DEF Paths
  <2>2. CASE UNCHANGED files /\ cut \subseteq cut' /\ pc # "stream"
    BY <2>2 DEF Paths
  <2>3. CASE UNCHANGED files /\ cut \cup ({now} \ {Nothing}) \subseteq cut'
    BY <2>3 DEF Paths
  <2>4. ASSUME now # Nothing, UNCHANGED cut, NEW r \in {NoFile, Whole(now)},
               files' = [files EXCEPT ![targetOf[now]] = r]
        PROVE  Paths'
    <3>1. now \in Attachments  BY <2>4, NowIsOne
    <3>2. /\ files'[targetOf[now]] = r
          /\ \A t \in Targets \ {targetOf[now]} : files'[t] = files[t]
      BY <2>4, <3>1, FilesTypes
    <3>3. r = NoFile => r.of = Nothing  BY DEF NoFile
    <3>4. r = Whole(now) => r.of = now /\ r.whole  BY DEF Whole
    <3>5. ASSUME NEW t \in Targets, t # targetOf[now]
          PROVE  files[t].of # now
      BY <2>4, <3>5 DEF Paths
    <3>6. QED  BY <2>4, <3>2, <3>3, <3>4, <3>5 DEF Paths
  <2>5. CASE /\ now # Nothing /\ UNCHANGED <<cut, now>> /\ pc' = "stream"
             /\ files' = [files EXCEPT ![targetOf[now]] = Part(now)]
    <3>1. now \in Attachments  BY <2>5, NowIsOne
    <3>2. /\ files'[targetOf[now]] = Part(now)
          /\ \A t \in Targets \ {targetOf[now]} : files'[t] = files[t]
      BY <2>5, <3>1, FilesTypes
    <3>3. Part(now).of = now  BY DEF Part
    <3>4. QED  BY <2>5, <3>2, <3>3 DEF Paths
  <2>6. QED  BY <2>1, <2>2, <2>3, <2>4, <2>5, FileSteps
<1>3. Inv /\ [Next]_vars => Inv'
  BY <1>2, NextTypes
<1>4. Inv => NoPartialLeft
  BY DEF Paths, NoPartialLeft
<1>5. QED  BY <1>1, <1>3, <1>4, PTL DEF Spec

\* No two attachments have the same path.
DistinctTargets ==
  \A a, b \in Attachments : targetOf[a] = targetOf[b] => a = b

\* An outcome that is new is that of the attachment that was coming, or of one that
\* need not be downloaded; and "ok" comes with the whole of it in its file.
LEMMA OkSteps ==
  ASSUME TypeOK, Waiting, [Next]_vars, NEW a \in Attachments, outcome'[a] = "ok"
  PROVE  \/ outcome[a] = "ok"
         \/ a = now /\ files' = [files EXCEPT ![targetOf[now]] = Whole(now)]
<1>1. \A b \in Attachments, what \in Outcomes \ {"ok"} :
        Settle(b, what) => outcome[a] = "ok"
  BY SettleTypes
<1>2. {"gif", "triaged", "mime", "other"} \subseteq Outcomes \ {"ok"}
  BY DEF Outcomes
<1>3. now # Nothing => now \in Attachments
  BY NowIsOne
<1>4. CASE NextAttachment
  <2>1. \/ UNCHANGED outcome
        \/ \E b \in todo, what \in {"gif", "triaged", "other"} : Settle(b, what)
    BY <1>4 DEF NextAttachment
  <2>2. QED  BY <1>1, <1>2, <2>1 DEF TypeOK
<1>5. CASE Refuse  BY <1>1, <1>2, <1>3, <1>5 DEF Refuse, Waiting
<1>6. CASE Sniff
  <2>1. now # Nothing /\ (UNCHANGED outcome \/ \E what \in {"mime", "other"} : Settle(now, what))
    BY <1>6 DEF Sniff, Waiting
  <2>2. QED  BY <1>1, <1>2, <1>3, <2>1
<1>7. CASE Stream
  <2>1. now # Nothing /\ (UNCHANGED outcome \/ Settle(now, "other"))
    BY <1>7 DEF Stream, Waiting
  <2>2. QED  BY <1>1, <1>2, <1>3, <2>1
<1>8. CASE Finish
  <2>1. /\ now # Nothing
        /\ \/ Settle(now, "mime")
           \/ Settle(now, "ok") /\ files' = [files EXCEPT ![targetOf[now]] = Whole(now)]
    BY <1>8 DEF Finish, Waiting
  <2>2. "ok" \in Outcomes  BY DEF Outcomes
  <2>3. Settle(now, "ok") /\ a # now => outcome'[a] = outcome[a]
    BY <1>3, <2>1, <2>2, SettleTypes
  <2>4. QED  BY <1>1, <1>2, <1>3, <2>1, <2>3
<1>9. CASE Fail  BY <1>1, <1>2, <1>3, <1>9 DEF Fail, Waiting
<1>10. CASE UNCHANGED outcome  BY <1>10
<1>11. QED
  BY <1>4, <1>5, <1>6, <1>7, <1>8, <1>9, <1>10
     DEF Next, vars, batch, StartPass, ScanChannel, EndChannel, EndPass, Answer, Flush,
         CloseResources, Crash

\* An image that is counted as downloaded is in its file, the whole of it, whatever
\* becomes of the attachments after it, when no two of them have the same path.
THEOREM DownloadCorrect == DistinctTargets => (Spec => []DownloadedIsKept)
<1> SUFFICES ASSUME DistinctTargets PROVE Spec => []DownloadedIsKept
  OBVIOUS
<1> DEFINE Inv == TypeOK /\ Waiting /\ Queue /\ Accounted /\ DownloadedIsKept
<1>1. Init => Inv
  BY AttachmentsAssumption, SizesAssumption
     DEF Init, TypeOK, Waiting, Queue, Accounted, DownloadedIsKept, AttachmentsOf, PCs,
         Outcomes, NoFile, Nothing
<1>2. Inv /\ [Next]_vars => DownloadedIsKept'
  <2> SUFFICES ASSUME Inv, [Next]_vars, NEW a \in Attachments, outcome'[a] = "ok"
               PROVE  files'[targetOf[a]] = Whole(a)
    BY DEF DownloadedIsKept
  <2>1. CASE a = now /\ files' = [files EXCEPT ![targetOf[now]] = Whole(now)]
    BY <2>1, FilesTypes
  <2>2. CASE outcome[a] = "ok"
    <3>1. files[targetOf[a]] = Whole(a)  BY <2>2 DEF DownloadedIsKept
    <3>2. now # Nothing => a # now /\ now \in Attachments
      BY <2>2, NowIsOne DEF Queue
    <3>3. targetOf[a] \in Targets  BY AttachmentsAssumption
    <3>4. now # Nothing => targetOf[a] # targetOf[now]
      BY <3>2 DEF DistinctTargets
    <3>5. ASSUME now # Nothing, NEW r \in {NoFile, Part(now), Whole(now)},
                 files' = [files EXCEPT ![targetOf[now]] = r]
          PROVE  files'[targetOf[a]] = files[targetOf[a]]
      BY <3>2, <3>3, <3>4, <3>5, FilesTypes
    <3>6. QED  BY <3>1, <3>5, FileSteps
  <2>3. QED  BY <2>1, <2>2, OkSteps
<1>3. Inv /\ [Next]_vars => Inv'
  BY <1>2, NextTypes, QueueStep
<1>4. QED  BY <1>1, <1>3, PTL DEF Spec

--------------------------------------------------------------------------------
(* The records of the videos.                                              *)

\* Every step keeps the sidecar of a flushed writer complete.
LEMMA FlushStep ==
  ASSUME TypeOK, Flushed, Drained, [Next]_vars
  PROVE  Flushed' /\ Drained'
<1>1. CASE StartPass  BY <1>1 DEF StartPass, Flushed, Drained
<1>2. CASE ScanChannel  BY <1>2 DEF ScanChannel, Flushed, Drained
<1>3. CASE EndChannel  BY <1>3 DEF EndChannel, Flushed, Drained
<1>4. CASE EndPass  BY <1>4 DEF EndPass, Flushed, Drained
<1>5. CASE NextAttachment
  BY <1>5 DEF NextAttachment, Settle, Flushed, Drained
<1>6. CASE Answer  BY <1>6 DEF Answer, Flushed, Drained
<1>7. CASE Refuse  BY <1>7 DEF Refuse, Settle, Flushed, Drained
<1>8. CASE Sniff  BY <1>8 DEF Sniff, Settle, Flushed, Drained
<1>9. CASE Stream  BY <1>9 DEF Stream, Settle, Flushed, Drained
<1>10. CASE Finish  BY <1>10 DEF Finish, Settle, Flushed, Drained
<1>11. CASE Fail  BY <1>11 DEF Fail, Settle, Flushed, Drained
<1>12. CASE Flush
  <2>1. PICK g \in unflushed :
          /\ unflushed' = unflushed \ {g} /\ UNCHANGED <<pc, buffered>>
          /\ \/ /\ triage' = [triage EXCEPT ![g] = buffered[g]]
                /\ view' = [view EXCEPT ![g] = buffered[g]] /\ UNCHANGED cut
             \/ /\ triage' = [triage EXCEPT ![g] = buffered[g]]
                /\ UNCHANGED view /\ cut' = cut \cup buffered[g]
             \/ UNCHANGED sidecar /\ cut' = cut \cup buffered[g]
    BY <1>12 DEF Flush, Render
  <2>2. g \in Guilds  BY DEF TypeOK
  <2>3. pc = "flush"  BY <1>12 DEF Flush, Render
  <2>4. ASSUME NEW h \in Guilds \ unflushed', NEW a \in buffered'[h] \ cut'
        PROVE  a \in triage'[h] \cap view'[h]
    <3>1. CASE h = g  BY <2>1, <2>2, <2>4, <3>1 DEF TypeOK
    <3>2. CASE h # g
      <4>1. a \in triage[h] \cap view[h]
        BY <2>1, <2>3, <2>4, <3>2 DEF Flushed
      <4>2. triage'[h] = triage[h] /\ view'[h] = view[h]
        BY <2>1, <2>2, <2>4, <3>2 DEF TypeOK, sidecar
      <4>3. QED  BY <4>1, <4>2
    <3>3. QED  BY <3>1, <3>2
  <2>5. QED  BY <2>1, <2>3, <2>4 DEF Flushed, Drained
<1>13. CASE CloseResources  BY <1>13 DEF CloseResources, sidecar, Flushed, Drained
<1>14. CASE Crash
  <2>1. \A g \in Guilds : buffered'[g] \subseteq cut'
    BY <1>14 DEF Crash
  <2>2. unflushed' = {}  BY <1>14 DEF Crash
  <2>3. QED  BY <2>1, <2>2 DEF Flushed, Drained
<1>15. CASE UNCHANGED vars  BY <1>15 DEF vars, sidecar, Flushed, Drained
<1>16. QED
  BY <1>1, <1>2, <1>3, <1>4, <1>5, <1>6, <1>7, <1>8, <1>9, <1>10, <1>11, <1>12,
     <1>13, <1>14, <1>15 DEF Next

\* The teardown of a pass puts the record of every video of the pass into the file of
\* its guild and into the view of it, though the flush of another guild fails.
THEOREM TeardownCorrect == Spec => []TeardownKeepsVideos
<1> DEFINE Inv == TypeOK /\ Waiting /\ Flushed /\ Drained
<1>1. Init => Inv
  BY AttachmentsAssumption, SizesAssumption
     DEF Init, TypeOK, Waiting, Flushed, Drained, PCs, Outcomes, NoFile, Nothing
<1>2. Inv /\ [Next]_vars => Inv'
  BY NextTypes, FlushStep
<1>3. Inv => TeardownKeepsVideos
  BY DEF Flushed, Drained, TeardownKeepsVideos
<1>4. QED  BY <1>1, <1>2, <1>3, PTL DEF Spec

--------------------------------------------------------------------------------
(* ForumThreads: its types.                                                *)

\* A page is a sequence of its threads, the one with the latest timestamp first.
LEMMA NewestFirstIsSeq ==
  ASSUME NEW S \in SUBSET Threads, NEW q \in NewestFirst(S)
  PROVE  /\ q \in Seq(S) /\ ToSet(q) = S
         /\ \A i, j \in 1..Len(q) : i < j => stamp[q[j]] < stamp[q[i]]
<1>1. IsFiniteSet(S)
  BY FS_Subset, ForumAssumption DEF ForumAssumption
<1>2. Cardinality(S) \in Nat
  BY <1>1, FS_CardinalityType
<1>3. q \in [1..Cardinality(S) -> S] /\ ToSet(q) = S
      /\ \A i, j \in DOMAIN q : i < j => stamp[q[j]] < stamp[q[i]]
  BY DEF NewestFirst
<1>4. q \in Seq(S) /\ DOMAIN q = 1..Len(q)
  BY <1>2, <1>3, IsASeq
<1> QED
  BY <1>3, <1>4

\* What is listed is a thread, with a timestamp.
LEMMA ListedTyped ==
  ASSUME ForumTypeOK, NEW i \in 1..Len(out)
  PROVE  out[i] \in Valid /\ out[i] \in Threads /\ stamp[out[i]] \in Nat
<1>1. out \in Seq(Valid) /\ stamp \in [Threads -> Nat]
  BY DEF ForumTypeOK
<1>2. out[i] \in Valid
  BY <1>1, ElementOfSeq
<1> QED
  BY <1>1, <1>2 DEF Valid

\* The end of a thread: its messages join those of the others, and the next thread is
\* one that was listed.
LEMMA ThreadEnds ==
  ASSUME ForumTypeOK, NEW kept \in SUBSET (Valid \X Nat), EndThread(kept)
  PROVE  /\ all' \subseteq Valid \X Nat /\ raw' = {} /\ at' \in Nat \ {0} /\ seen' = 0
         /\ stage' \in {"idle", "fetch", "write"}
         /\ stage' = "fetch" => at' <= Len(out)
<1>1. all' \subseteq Valid \X Nat
  BY DEF ForumTypeOK, EndThread
<1>2. at' \in Nat \ {0} /\ at' = at + 1 /\ at \in Nat /\ Len(out) \in Nat
  BY DEF ForumTypeOK, EndThread
<1>3. stage' \in {"idle", "fetch", "write"} /\ (stage' = "fetch" => at < Len(out))
  BY DEF EndThread
<1> QED
  BY <1>1, <1>2, <1>3 DEF EndThread, From

\* Every variable keeps its type.
LEMMA ForumTyped == ForumTypeOK /\ [ForumNext]_forumVars => ForumTypeOK'
<1> SUFFICES ASSUME ForumTypeOK, [ForumNext]_forumVars PROVE ForumTypeOK'
  OBVIOUS
<1> USE DEF ForumTypeOK
<1>1. CASE StartListing
  <2>1. out' \in Seq(Valid)
    BY <1>1 DEF StartListing
  <2>2. still' \subseteq Threads /\ stage' = "list" /\ date' \in 1..Days
    BY <1>1 DEF StartListing
  <2> QED
    <3>1. /\ stamp' = stamp /\ posts' = posts /\ moves' = moves /\ today' = today
          /\ before' = 0 /\ pages' = 0 /\ whole' = FALSE /\ at' = 1 /\ seen' = 0
          /\ raw' = {} /\ all' = {} /\ missed' = {}
          /\ snapshots' = snapshots /\ troubles' = troubles
      BY <1>1 DEF StartListing, discord
    <3>2. stamp' \in [Threads -> Nat] /\ posts' \in [Threads -> Nat] /\ moves' \in Nat
          /\ today' \in 1..Days
      BY <3>1
    <3>3. before' \in Nat /\ pages' \in Nat /\ whole' \in BOOLEAN /\ missed' \subseteq Valid
      BY <3>1
    <3>4. at' \in Nat \ {0} /\ seen' \in Nat
     /\ raw' \subseteq Valid \X Nat /\ all' \subseteq Valid \X Nat
      BY <3>1
    <3>5. snapshots' \in [1..Days -> SUBSET (Valid \X Nat)]
         /\ troubles' \in Nat
      BY <3>1
    <3> QED
      BY <2>1, <2>2, <3>1, <3>2, <3>3, <3>4, <3>5
<1>2. CASE ListPage
  <2>0. PICK page \in SUBSET Older : \E listed \in NewestFirst(page \cap Valid) :
          /\ IsAnswer(page)
          /\ out' = out \o listed
          /\ pages' = pages + 1
          /\ IF HasMore /\ listed # <<>> /\ pages + 1 < MaxPages
             THEN before' = NextBefore(listed) /\ UNCHANGED <<stage, seen>>
             ELSE ToFetch(out') /\ UNCHANGED before
    BY <1>2 DEF ListPage
  <2>1. PICK listed \in NewestFirst(page \cap Valid) :
          /\ out' = out \o listed
          /\ pages' = pages + 1
          /\ IF HasMore /\ listed # <<>> /\ pages + 1 < MaxPages
             THEN before' = NextBefore(listed) /\ UNCHANGED <<stage, seen>>
             ELSE ToFetch(out') /\ UNCHANGED before
    BY <2>0
  <2>2. page \cap Valid \in SUBSET Threads
    BY DEF Older
  <2>3. listed \in Seq(Valid) /\ listed \in Seq(Threads)
    BY <2>2, NewestFirstIsSeq, SeqMonotonic DEF Valid
  <2>4. out' \in Seq(Valid)
    BY <2>1, <2>3, ConcatProperties
  <2>5. before' \in Nat
    <3>1. CASE listed # <<>>
      <4>1. Last(listed) \in Threads
        BY <2>3, <3>1, LenProperties, ElementOfSeq DEF Last
      <4> QED
        BY <2>1, <4>1 DEF NextBefore
    <3>2. CASE listed = <<>>
      BY <2>1, <3>2
    <3> QED
      BY <3>1, <3>2
  <2>6. /\ stage' \in {"list", "idle", "fetch"} /\ seen' \in Nat
        /\ stage' = "fetch" => out' # <<>>
    BY <1>2, <2>1 DEF ListPage, ToFetch, From
  <2>7. at' = 1 /\ (stage' = "fetch" => at' <= Len(out'))
    BY <1>2, <2>4, <2>6, EmptySeq, LenProperties DEF ListPage
  <2> QED
    BY <1>2, <2>1, <2>4, <2>5, <2>6, <2>7 DEF ListPage, discord
<1>3. CASE ListFails
  <2>1. /\ stage' \in {"idle", "fetch"} /\ seen' = 0
        /\ stage' = "fetch" => out # <<>>
    BY <1>3 DEF ListFails, ToFetch, From
  <2>2. at' = 1 /\ (stage' = "fetch" => at' <= Len(out))
    BY <1>3, <2>1, EmptySeq, LenProperties DEF ListFails
  <2> QED
    BY <1>3, <2>1, <2>2 DEF ListFails, discord, listing
<1>4. CASE ListRaises
  BY <1>4 DEF ListRaises, discord, listing, fetching
<1>5. CASE FetchPage
  <2> DEFINE answer == Batch(out[at])
             kept == raw \cup Capped(answer)
  <2>1. out[at] \in Valid
    BY <1>5, ElementOfSeq DEF FetchPage
  <2>2. answer \subseteq Valid \X Nat
    BY <2>1 DEF Batch, MessagesOf
  <2>3. kept \subseteq Valid \X Nat
    BY <2>2 DEF Capped
  <2>4. CASE EndThread(kept)
    <3>1. /\ all' \subseteq Valid \X Nat /\ raw' = {} /\ at' \in Nat \ {0} /\ seen' = 0
          /\ stage' \in {"idle", "fetch", "write"}
          /\ stage' = "fetch" => at' <= Len(out)
      BY <2>3, <2>4, ThreadEnds
    <3> QED
      BY <1>5, <3>1 DEF FetchPage, discord, listing
  <2>5. CASE /\ raw' = kept
             /\ \E last \in answer : seen' = last[2] /\ \A m \in answer : m[2] <= last[2]
             /\ UNCHANGED <<stage, at, all>>
    <3>1. raw' \subseteq Valid \X Nat /\ seen' \in Nat
      BY <2>2, <2>3, <2>5
    <3> QED
      BY <1>5, <2>5, <3>1 DEF FetchPage, discord, listing
  <2> QED
    BY <1>5, <2>4, <2>5 DEF FetchPage
<1>6. CASE FetchAborts
  <2>1. out[at] \in Valid
    BY <1>6, ElementOfSeq DEF FetchAborts
  <2>2. /\ all' \subseteq Valid \X Nat /\ raw' = {} /\ at' \in Nat \ {0} /\ seen' = 0
        /\ stage' \in {"idle", "fetch", "write"}
        /\ stage' = "fetch" => at' <= Len(out)
    BY <1>6, ThreadEnds DEF FetchAborts
  <2> QED
    BY <1>6, <2>1, <2>2 DEF FetchAborts, discord, listing
<1>7. CASE FetchRaises
  <2>1. out[at] \in Valid
    BY <1>7, ElementOfSeq DEF FetchRaises
  <2>2. /\ all' \subseteq Valid \X Nat /\ raw' = {} /\ at' \in Nat \ {0} /\ seen' = 0
        /\ stage' \in {"idle", "fetch", "write"}
        /\ stage' = "fetch" => at' <= Len(out)
    BY <1>7, ThreadEnds DEF FetchRaises
  <2> QED
    BY <1>7, <2>1, <2>2 DEF FetchRaises, discord, listing
<1>8. CASE OpenSnapshot
  BY <1>8 DEF OpenSnapshot, discord, listing, fetching
<1>9. CASE FsyncSnapshot
  BY <1>9 DEF FsyncSnapshot, discord, listing, fetching
<1>10. ASSUME NEW t \in Threads, Post(t) PROVE ForumTypeOK'
  BY <1>10 DEF Post, listing, fetching
<1>11. ASSUME NEW t \in Threads, Archive(t) PROVE ForumTypeOK'
  <2>1. Now + 1 \in Nat
    BY ForumAssumption, LenProperties DEF Now, ForumAssumption
  <2>2. stamp' \in [Threads -> Nat] /\ moves' \in Nat
    BY <1>11, <2>1 DEF Archive
  <2> QED
    BY <1>11, <2>2 DEF Archive, listing, fetching
<1>12. CASE NextDay
  BY <1>12, ForumAssumption DEF NextDay, discord, listing, fetching, ForumAssumption
<1>13. CASE Die
  BY <1>13 DEF Die, discord, listing, fetching
<1>14. CASE UNCHANGED forumVars
  BY <1>14 DEF forumVars, discord, listing, fetching
<1> QED
  BY <1>1, <1>2, <1>3, <1>4, <1>5, <1>6, <1>7, <1>8, <1>9, <1>10, <1>11, <1>12, <1>13, <1>14
  DEF ForumNext, ForumStep

--------------------------------------------------------------------------------
(* ForumThreads: the listing.                                              *)

\* No timestamp is to come, and what was there when the listing began is in the archive.
StampInv ==
  /\ \A t \in Threads : stamp[t] <= Now
  /\ \A t \in still : stamp[t] # 0

\* What was listed is not older than the cursor, unless it has left the archive; what has
\* stayed in it was listed or is older than the cursor.
CursorInv ==
  stage = "list" =>
    /\ before <= Now /\ (before = 0 <=> out = <<>>)
    /\ \A i \in 1..Len(out) : stamp[out[i]] = 0 \/ before <= stamp[out[i]]
    /\ \A t \in still \cap Valid : t \in ToSet(out) \/ before = 0 \/ stamp[t] < before

ListingInv == StampInv /\ CursorInv /\ ListedWhole

LEMMA ToSetIsRange ==
  ASSUME NEW S, NEW s \in Seq(S)
  PROVE  /\ \A x : x \in ToSet(s) <=> \E i \in 1..Len(s) : s[i] = x
         /\ IsInjective(s) <=> \A i, j \in 1..Len(s) : s[i] = s[j] => i = j
  BY DEF ToSet, IsInjective

\* One page more: with the threads that are newer than the cursor listed, the answer
\* brings the newest of the others, none of them a second time.
LEMMA PageListed ==
  ASSUME ForumTypeOK, ListingInv, ListPage PROVE ListingInv'
<1>0. PICK page \in SUBSET Older : \E listed \in NewestFirst(page \cap Valid) :
        /\ IsAnswer(page)
        /\ out' = out \o listed
        /\ IF HasMore /\ listed # <<>> /\ pages + 1 < MaxPages
           THEN before' = NextBefore(listed) /\ UNCHANGED <<stage, seen>>
           ELSE ToFetch(out') /\ UNCHANGED before
  BY DEF ListPage
<1>1. PICK listed \in NewestFirst(page \cap Valid) :
        /\ IsAnswer(page)
        /\ out' = out \o listed
        /\ IF HasMore /\ listed # <<>> /\ pages + 1 < MaxPages
           THEN before' = NextBefore(listed) /\ UNCHANGED <<stage, seen>>
           ELSE ToFetch(out') /\ UNCHANGED before
  BY <1>0
<1>2. page \cap Valid \in SUBSET Threads /\ page \subseteq Older
  BY DEF Older
<1>3. /\ listed \in Seq(page \cap Valid) /\ ToSet(listed) = page \cap Valid
      /\ \A i, j \in 1..Len(listed) : i < j => stamp[listed[j]] < stamp[listed[i]]
  BY <1>2, NewestFirstIsSeq
<1>4. out \in Seq(Valid) /\ listed \in Seq(Valid)
  BY <1>3, SeqMonotonic DEF ForumTypeOK
<1>5. /\ out' \in Seq(Valid) /\ Len(out') = Len(out) + Len(listed)
      /\ \A i \in 1..Len(out') :
           out'[i] = IF i <= Len(out) THEN out[i] ELSE listed[i - Len(out)]
  BY <1>1, <1>4, ConcatProperties
<1>6. Len(out) \in Nat /\ Len(listed) \in Nat
  BY <1>4, LenProperties
<1>7. \A i \in 1..Len(listed) : listed[i] \in page \cap Valid
  BY <1>3, ElementOfSeq
<1>8. \A i \in 1..Len(out), j \in 1..Len(listed) : out[i] # listed[j]
  <2> SUFFICES ASSUME NEW i \in 1..Len(out), NEW j \in 1..Len(listed), out[i] = listed[j]
               PROVE  FALSE
    OBVIOUS
  <2>1. listed[j] \in Older
    BY <1>2, <1>7
  <2>2. out # <<>>
    BY <1>4, EmptySeq, LenProperties
  <2>3. before # 0 /\ (stamp[out[i]] = 0 \/ before <= stamp[out[i]])
    BY <2>2 DEF ListingInv, CursorInv, ListPage
  <2>4. stamp[out[i]] # 0 /\ stamp[out[i]] < before
    BY <2>1, <2>3 DEF Older
  <2>5. out[i] \in Threads /\ stamp[out[i]] \in Nat /\ before \in Nat
    BY ListedTyped DEF ForumTypeOK
  <2> QED
    BY <2>3, <2>4, <2>5
<1>9. IsInjective(out')
  <2>1. \A i, j \in 1..Len(listed) : listed[i] = listed[j] => i = j
    <3> SUFFICES ASSUME NEW i \in 1..Len(listed), NEW j \in 1..Len(listed),
                        listed[i] = listed[j], i # j
                 PROVE  FALSE
      OBVIOUS
    <3>1. stamp[listed[i]] \in Nat
      BY <1>7 DEF ForumTypeOK, Valid
    <3>2. i < j \/ j < i
      BY <1>6
    <3> QED
      BY <1>3, <3>1, <3>2
  <2>2. \A i, j \in 1..Len(out) : out[i] = out[j] => i = j
    BY <1>4, ToSetIsRange DEF ListingInv, ListedWhole
  <2>3. \A i, j \in 1..Len(out') : out'[i] = out'[j] => i = j
    <3> SUFFICES ASSUME NEW i \in 1..Len(out'), NEW j \in 1..Len(out'), out'[i] = out'[j]
                 PROVE  i = j
      OBVIOUS
    <3>1. ASSUME NEW k \in 1..Len(out')
          PROVE  \/ k \in 1..Len(out) /\ out'[k] = out[k]
                 \/ k - Len(out) \in 1..Len(listed) /\ out'[k] = listed[k - Len(out)]
      BY <1>5, <1>6
    <3>2. CASE i \in 1..Len(out) /\ out'[i] = out[i]
      BY <1>8, <2>2, <3>1, <3>2
    <3>3. CASE i - Len(out) \in 1..Len(listed) /\ out'[i] = listed[i - Len(out)]
      <4>1. CASE j \in 1..Len(out) /\ out'[j] = out[j]
        BY <1>8, <3>3, <4>1
      <4>2. CASE j - Len(out) \in 1..Len(listed) /\ out'[j] = listed[j - Len(out)]
        <5>1. i - Len(out) = j - Len(out)
          BY <2>1, <3>3, <4>2
        <5> QED
          BY <1>5, <1>6, <5>1
      <4> QED
        BY <3>1, <4>1, <4>2
    <3> QED
      BY <3>1, <3>2, <3>3
  <2> QED
    BY <1>5, <2>3, ToSetIsRange
<1>10. ToSet(out') = ToSet(out) \cup (page \cap Valid)
  <2>1. \A x : x \in ToSet(out) <=> \E i \in 1..Len(out) : out[i] = x
    BY <1>4, ToSetIsRange
  <2>2. \A x : x \in ToSet(out') <=> \E i \in 1..Len(out') : out'[i] = x
    BY <1>5, ToSetIsRange
  <2>3. \A x : x \in page \cap Valid <=> \E i \in 1..Len(listed) : listed[i] = x
    BY <1>3, <1>4, ToSetIsRange
  <2>4. \A x : (\E i \in 1..Len(out') : out'[i] = x)
                 <=> (\E i \in 1..Len(out) : out[i] = x) \/ (\E i \in 1..Len(listed) : listed[i] = x)
    <3> SUFFICES ASSUME NEW x
                 PROVE  (\E i \in 1..Len(out') : out'[i] = x)
                          <=> \/ \E i \in 1..Len(out) : out[i] = x
                              \/ \E i \in 1..Len(listed) : listed[i] = x
      OBVIOUS
    <3>1. ASSUME NEW i \in 1..Len(out'), out'[i] = x
          PROVE  \/ \E k \in 1..Len(out) : out[k] = x
                 \/ \E k \in 1..Len(listed) : listed[k] = x
      <4>1. CASE i <= Len(out)
        BY <1>5, <1>6, <3>1, <4>1
      <4>2. CASE i > Len(out)
        <5>1. i - Len(out) \in 1..Len(listed)
          BY <1>5, <1>6, <4>2
        <5> QED
          BY <1>5, <1>6, <3>1, <4>2, <5>1
      <4> QED
        BY <1>6, <4>1, <4>2
    <3>2. ASSUME NEW i \in 1..Len(out), out[i] = x
          PROVE  \E k \in 1..Len(out') : out'[k] = x
      BY <1>5, <1>6, <3>2
    <3>3. ASSUME NEW i \in 1..Len(listed), listed[i] = x
          PROVE  \E k \in 1..Len(out') : out'[k] = x
      <4>1. Len(out) + i \in 1..Len(out') /\ i \in Nat \ {0}
        BY <1>5, <1>6
      <4>2. out'[Len(out) + i] = listed[(Len(out) + i) - Len(out)]
        BY <1>5, <1>6, <4>1
      <4>3. (Len(out) + i) - Len(out) = i
        BY <1>6, <4>1
      <4> QED
        BY <3>3, <4>1, <4>2, <4>3
    <3> QED
      BY <3>1, <3>2, <3>3
  <2> QED
    BY <2>1, <2>2, <2>3, <2>4
<1>11. \A t \in still \cap Valid : t \in ToSet(out') \/ t \in Older \ page
  BY <1>10 DEF ListingInv, CursorInv, StampInv, ListPage, Older, ForumTypeOK
<1>12. StampInv'
  BY DEF ListPage, ListingInv, StampInv, discord, Now
<1>13. ListedWhole'
  <2>1. ASSUME ~HasMore PROVE page = Older
    BY <1>1, <2>1 DEF IsAnswer
  <2>2. whole' => still' \cap Valid \subseteq ToSet(out')
    BY <1>11, <2>1 DEF ListPage
  <2> QED
    BY <1>5, <1>9, <2>2 DEF ListedWhole
<1>14. CursorInv'
  <2> SUFFICES ASSUME stage' = "list" PROVE CursorInv'
    BY DEF CursorInv
  <2>1. listed # <<>> /\ before' = NextBefore(listed)
    BY <1>1 DEF ToFetch
  <2> DEFINE last == listed[Len(listed)]
  <2>2. last \in page \cap Valid /\ Len(listed) \in 1..Len(listed)
    BY <1>4, <1>6, <1>7, <2>1, EmptySeq
  <2>3. before' = stamp[last]
    BY <2>1 DEF NextBefore, Last
  <2>4. last \in Threads /\ stamp[last] \in Nat /\ stamp[last] # 0 /\ stamp[last] <= Now
    BY <1>2, <2>2 DEF Older, ForumTypeOK, ListingInv, StampInv
  <2>5. before = 0 \/ stamp[last] < before
    BY <1>2, <2>2 DEF Older
  <2>6. out' # <<>>
    BY <1>5, <1>6, <2>2, EmptySeq
  <2>7. \A i \in 1..Len(out') : stamp[out'[i]] = 0 \/ stamp[last] <= stamp[out'[i]]
    <3> SUFFICES ASSUME NEW i \in 1..Len(out')
                 PROVE  stamp[out'[i]] = 0 \/ stamp[last] <= stamp[out'[i]]
      OBVIOUS
    <3>1. CASE i <= Len(out)
      <4>1. i \in 1..Len(out) /\ out'[i] = out[i] /\ out # <<>>
        BY <1>4, <1>5, <1>6, <3>1, EmptySeq
      <4>2. out[i] \in Threads /\ stamp[out[i]] \in Nat /\ before \in Nat
        BY <4>1, ListedTyped DEF ForumTypeOK
      <4>3. before # 0 /\ (stamp[out[i]] = 0 \/ before <= stamp[out[i]])
        BY <4>1 DEF ListingInv, CursorInv, ListPage
      <4> QED
        BY <2>4, <2>5, <4>1, <4>2, <4>3
    <3>2. CASE i > Len(out)
      <4>1. i - Len(out) \in 1..Len(listed) /\ out'[i] = listed[i - Len(out)]
        BY <1>5, <1>6, <3>2
      <4>2. i - Len(out) < Len(listed) \/ i - Len(out) = Len(listed)
        BY <1>6, <4>1
      <4>3. stamp[listed[i - Len(out)]] \in Nat
        BY <1>7, <4>1 DEF ForumTypeOK, Valid
      <4>4. stamp[last] <= stamp[listed[i - Len(out)]]
        <5>1. CASE i - Len(out) < Len(listed)
          <6>1. stamp[listed[Len(listed)]] < stamp[listed[i - Len(out)]]
            BY <1>3, <2>2, <4>1, <5>1
          <6> QED
            BY <2>4, <4>3, <6>1
        <5>2. CASE i - Len(out) = Len(listed)
          BY <4>3, <5>2
        <5> QED
          BY <4>2, <5>1, <5>2
      <4> QED
        BY <4>1, <4>4
    <3> QED
      BY <1>6, <3>1, <3>2
  <2>8. \A t \in still \cap Valid : t \in ToSet(out') \/ stamp[t] < stamp[last]
    <3>1. \A o \in Older \ page : stamp[o] < stamp[last]
      BY <1>1, <2>2 DEF IsAnswer
    <3> QED
      BY <1>11, <3>1
  <2>9. stamp' = stamp /\ still' = still /\ Now' = Now
    BY DEF ListPage, discord, Now
  <2> QED
    BY <2>3, <2>4, <2>6, <2>7, <2>8, <2>9 DEF CursorInv
<1> QED
  BY <1>12, <1>13, <1>14 DEF ListingInv

LEMMA ListingInit == ForumInit => ForumTypeOK /\ ListingInv
<1> SUFFICES ASSUME ForumInit PROVE ForumTypeOK /\ ListingInv
  OBVIOUS
<1>1. stamp \in [Threads -> Nat] /\ \A t \in Threads : stamp[t] <= Now
  <2>1. Len(Archived0) \in Nat /\ moves = 0 /\ DOMAIN Archived0 = 1..Len(Archived0)
    BY ForumAssumption, LenProperties DEF ForumAssumption, ForumInit
  <2>2. ASSUME NEW t \in Threads, t \in ToSet(Archived0)
        PROVE  (CHOOSE i \in DOMAIN Archived0 : Archived0[i] = t) \in 1..Len(Archived0)
    <3>1. \E i \in DOMAIN Archived0 : Archived0[i] = t
      BY <2>2 DEF ToSet
    <3> QED
      BY <2>1, <3>1
  <2> QED
    <3>1. \A t \in Threads : stamp[t] \in 0..Len(Archived0)
      BY <2>1, <2>2 DEF ForumInit
    <3>2. stamp \in [Threads -> Nat]
      BY <2>1, <2>2 DEF ForumInit
    <3> QED
      BY <2>1, <3>1, <3>2 DEF Now
<1>2. out = <<>> /\ out \in Seq(Valid) /\ IsInjective(out)
  BY EmptySeq DEF ForumInit, IsInjective
<1>3. ForumTypeOK
  <2>1. posts \in [Threads -> Nat] /\ moves \in Nat /\ today \in 1..Days /\ date \in 1..Days
    BY ForumAssumption DEF ForumInit, ForumAssumption
  <2>2. snapshots \in [1..Days -> SUBSET (Valid \X Nat)]
    BY DEF ForumInit
  <2> QED
    <3>1. /\ stage = "idle" /\ before = 0 /\ pages = 0 /\ whole = FALSE /\ still = {}
          /\ missed = {} /\ at = 1 /\ seen = 0 /\ raw = {} /\ all = {} /\ troubles = 0
      BY DEF ForumInit
    <3>2. before \in Nat /\ pages \in Nat /\ whole \in BOOLEAN /\ troubles \in Nat
      BY <3>1
    <3>3. still \subseteq Threads /\ missed \subseteq Valid
      BY <3>1
    <3>4. /\ at \in Nat \ {0} /\ seen \in Nat
          /\ raw \subseteq Valid \X Nat /\ all \subseteq Valid \X Nat
      BY <3>1
    <3> QED
      BY <1>1, <1>2, <2>1, <2>2, <3>1, <3>2, <3>3, <3>4 DEF ForumTypeOK
<1>4. ListingInv
  BY <1>1, <1>2 DEF ListingInv, StampInv, CursorInv, ListedWhole, ForumInit
<1> QED
  BY <1>3, <1>4

LEMMA ListingStep == ForumTypeOK /\ ListingInv /\ [ForumNext]_forumVars => ListingInv'
<1> SUFFICES ASSUME ForumTypeOK, ListingInv, [ForumNext]_forumVars PROVE ListingInv'
  OBVIOUS
<1>1. CASE StartListing
  <2>1. out' = <<>> /\ out' \in Seq(Valid) /\ IsInjective(out')
    BY <1>1, EmptySeq DEF StartListing, IsInjective
  <2>2. /\ stamp' = stamp /\ moves' = moves /\ still' = {t \in Threads : stamp[t] # 0}
        /\ before' = 0 /\ whole' = FALSE
    BY <1>1 DEF StartListing, discord
  <2>3. Now' = Now /\ Now \in Nat
    BY <2>2, ForumAssumption, LenProperties DEF Now, ForumTypeOK, ForumAssumption
  <2> QED
    BY <2>1, <2>2, <2>3 DEF ListingInv, StampInv, CursorInv, ListedWhole
<1>2. CASE ListPage
  BY <1>2, PageListed
<1>3. ASSUME UNCHANGED <<discord, listing, still>>, stage' = "list" => stage = "list"
      PROVE  ListingInv'
  BY <1>3 DEF ListingInv, StampInv, CursorInv, ListedWhole, discord, listing, Now
<1>4. CASE ListFails \/ ListRaises \/ FetchPage \/ FetchAborts \/ FetchRaises
  BY <1>3, <1>4 DEF ListFails, ListRaises, FetchPage, FetchAborts, FetchRaises, ToFetch, EndThread
<1>5. CASE OpenSnapshot \/ FsyncSnapshot \/ NextDay \/ Die \/ UNCHANGED forumVars
  BY <1>3, <1>5 DEF OpenSnapshot, FsyncSnapshot, NextDay, Die, forumVars
<1>6. ASSUME NEW t \in Threads, Post(t) PROVE ListingInv'
  <2>1. /\ stamp' = [stamp EXCEPT ![t] = 0] /\ still' = still \ {t}
        /\ UNCHANGED <<stage, before, out, whole>> /\ moves' = moves + 1
    BY <1>6 DEF Post, listing
  <2>2. Now \in Nat /\ Now' = Now + 1
    BY <2>1, ForumAssumption, LenProperties DEF Now, ForumTypeOK, ForumAssumption
  <2>3. /\ \A u \in Threads : stamp[u] \in Nat /\ stamp'[u] = IF u = t THEN 0 ELSE stamp[u]
        /\ before \in Nat /\ still \subseteq Threads
        /\ \A i \in 1..Len(out) : out[i] \in Threads
    BY <2>1, ListedTyped DEF ForumTypeOK
  <2>4. StampInv'
    BY <2>1, <2>2, <2>3 DEF ListingInv, StampInv
  <2>5. CursorInv'
    BY <2>1, <2>2, <2>3 DEF ListingInv, CursorInv
  <2>6. ListedWhole'
    BY <2>1 DEF ListingInv, ListedWhole
  <2> QED
    BY <2>4, <2>5, <2>6 DEF ListingInv
<1>7. ASSUME NEW t \in Threads, Archive(t) PROVE ListingInv'
  <2>1. /\ stamp' = [stamp EXCEPT ![t] = Now + 1] /\ still' = still /\ stamp[t] = 0
        /\ UNCHANGED <<stage, before, out, whole>> /\ moves' = moves + 1
    BY <1>7 DEF Archive, listing
  <2>2. Now \in Nat /\ Now' = Now + 1
    BY <2>1, ForumAssumption, LenProperties DEF Now, ForumTypeOK, ForumAssumption
  <2>3. /\ \A u \in Threads : stamp[u] \in Nat /\ stamp'[u] = IF u = t THEN Now + 1 ELSE stamp[u]
        /\ before \in Nat /\ still \subseteq Threads
        /\ \A i \in 1..Len(out) : out[i] \in Threads
    BY <2>1, <2>2, ListedTyped DEF ForumTypeOK
  <2>4. StampInv'
    BY <2>1, <2>2, <2>3 DEF ListingInv, StampInv
  <2>5. CursorInv'
    <3>1. t \notin still
      BY <2>1 DEF ListingInv, StampInv
    <3> QED
      BY <2>1, <2>2, <2>3, <3>1 DEF ListingInv, CursorInv
  <2>6. ListedWhole'
    BY <2>1 DEF ListingInv, ListedWhole
  <2> QED
    BY <2>4, <2>5, <2>6 DEF ListingInv
<1> QED
  BY <1>1, <1>2, <1>4, <1>5, <1>6, <1>7 DEF ForumNext, ForumStep

LEMMA ListingAlways == ForumSpec => [](ForumTypeOK /\ ListingInv)
<1>1. ForumTypeOK /\ ListingInv /\ [ForumNext]_forumVars => (ForumTypeOK /\ ListingInv)'
  BY ForumTyped, ListingStep
<1> QED
  BY ListingInit, <1>1, PTL DEF ForumSpec

\* Module ForumThreads is typed.
THEOREM ForumTypeCorrect == ForumSpec => []ForumTypeOK
  BY ListingAlways, PTL

\* forums.py: however many threads are posted to or archived while the archive is paged
\* through, a listing has no thread twice, and one that came to its end has every valid
\* thread that stayed in the archive.
THEOREM ListedCorrect == ForumSpec => []ListedWhole
<1>1. ForumTypeOK /\ ListingInv => ListedWhole
  BY DEF ListingInv
<1> QED
  BY ListingAlways, <1>1, PTL

--------------------------------------------------------------------------------
(* ForumThreads: the snapshot.                                             *)

\* A listed thread that is untouched since the listing began and was fetched to the end.
Fetched(t) == t \in still /\ t \notin missed

\* The newest page of each fetched thread has been kept; the thread in hand has given its
\* newest page first, before it is asked for what came after.
SnapshotInv ==
  /\ stage = "list" => raw = {}
  /\ stage = "fetch" =>
       /\ seen = 0 => raw = {}
       /\ seen # 0 /\ out[at] \in still => NewestPage(out[at]) \subseteq raw
  /\ stage \in {"fetch", "write", "fsync"} =>
       \A i \in 1..Len(out) : i < at /\ Fetched(out[i]) => NewestPage(out[i]) \subseteq all
  /\ stage \in {"write", "fsync"} => at > Len(out)

\* An empty list has room for as many messages of the newest page as the cap allows.
LEMMA NewestPageFits ==
  ASSUME ForumTypeOK, NEW t \in Threads, raw = {}, seen = 0
  PROVE  NewestPage(t) \subseteq Capped(Batch(t))
<1> DEFINE lo == BeforeNewest(t)
           answered == Batch(t)
<1>1. posts[t] \in Nat /\ MsgPage \in Nat \ {0} /\ MsgCap \in Nat
  BY ForumAssumption DEF ForumTypeOK, ForumAssumption
<1>2. lo \in Nat /\ (\A n \in 1..posts[t] : n > posts[t] - MsgPage <=> lo < n)
  BY <1>1 DEF BeforeNewest
<1>3. answered = {m \in MessagesOf(t) : m[2] > posts[t] - MsgPage}
  BY DEF Batch
<1>4. \A m \in answered : m[2] \in 1..posts[t] /\ lo < m[2] /\ m = <<t, m[2]>>
  BY <1>2, <1>3 DEF MessagesOf
<1>5. \A m \in NewestPage(t) : m \in answered /\ m[2] \in 1..posts[t] /\ m[2] <= lo + MsgCap
  BY <1>2, <1>3 DEF NewestPage, MessagesOf
<1>6. Cardinality(raw) = 0
  BY FS_EmptySet
<1> HIDE DEF lo, answered
<1>7. ASSUME NEW m \in NewestPage(t)
      PROVE  Cardinality(raw) + Cardinality({l \in answered : l[2] <= m[2]}) <= MsgCap
  <2> DEFINE upTo == {l \in answered : l[2] <= m[2]}
             f == [l \in upTo |-> l[2]]
  <2>1. m[2] \in Nat /\ lo < m[2] /\ m[2] <= lo + MsgCap
    BY <1>4, <1>5
  <2>2. f \in [upTo -> lo + 1..m[2]]
    BY <1>2, <1>4, <2>1
  <2>3. \A l, k \in upTo : f[l] = f[k] => l = k
    BY <1>4
  <2>4. f \in Injection(upTo, lo + 1..m[2])
    BY <2>2, <2>3 DEF Injection, IsInjective
  <2>5. IsFiniteSet(lo + 1..m[2]) /\ Cardinality(lo + 1..m[2]) = m[2] - lo
    <3>1. lo + 1 \in Int /\ m[2] \in Int /\ ~ lo + 1 > m[2] /\ m[2] - (lo + 1) + 1 = m[2] - lo
      BY <1>2, <2>1
    <3>2. /\ IsFiniteSet(lo + 1..m[2])
          /\ Cardinality(lo + 1..m[2]) = IF lo + 1 > m[2] THEN 0 ELSE m[2] - (lo + 1) + 1
      BY <3>1, FS_Interval
    <3> QED
      BY <3>1, <3>2
  <2> HIDE DEF upTo, f
  <2>6. IsFiniteSet(upTo) /\ Cardinality(upTo) <= m[2] - lo
    BY <2>4, <2>5, FS_Injection
  <2>7. Cardinality(upTo) \in Nat
    BY <2>6, FS_CardinalityType
  <2>8. Cardinality(upTo) <= MsgCap
    BY <1>1, <1>2, <2>1, <2>6, <2>7
  <2> QED
    BY <1>6, <2>7, <2>8 DEF upTo
<1> QED
  BY <1>5, <1>7 DEF Capped, answered

\* What the fetch of a thread has when its next page is answered.
LEMMA PageFetched ==
  ASSUME ForumTypeOK, SnapshotInv, stage = "fetch", out[at] \in still
  PROVE  NewestPage(out[at]) \subseteq raw \cup Capped(Batch(out[at]))
<1>1. out[at] \in Threads
  BY ListedTyped DEF ForumTypeOK
<1>2. CASE seen = 0
  <2>1. raw = {}
    BY <1>2 DEF SnapshotInv
  <2> QED
    BY <1>1, <1>2, <2>1, NewestPageFits
<1>3. CASE seen # 0
  BY <1>3 DEF SnapshotInv
<1> QED
  BY <1>2, <1>3

\* The end of a thread whose newest page is kept, or that counts as missed.
LEMMA ThreadKept ==
  ASSUME ForumTypeOK, SnapshotInv, stage = "fetch",
         NEW kept, EndThread(kept), missed \subseteq missed',
         out[at] \in still => NewestPage(out[at]) \subseteq kept \/ out[at] \in missed',
         UNCHANGED <<posts, out, still>>
  PROVE  SnapshotInv'
<1>1. \A t : NewestPage(t)' = NewestPage(t)
  BY DEF NewestPage, BeforeNewest, MessagesOf
<1>2. /\ all' = all \cup kept /\ raw' = {} /\ at' = at + 1
      /\ seen' = (IF at = Len(out) THEN 0 ELSE From(out[at + 1]))
      /\ stage' = (IF at < Len(out) THEN "fetch" ELSE IF all' = {} THEN "idle" ELSE "write")
  BY DEF EndThread
<1>3. at \in Nat /\ Len(out) \in Nat /\ at <= Len(out) /\ seen' = 0
  BY <1>2, LenProperties DEF ForumTypeOK, From
<1>4. ASSUME NEW i \in 1..Len(out), i < at + 1, Fetched(out[i])'
      PROVE  NewestPage(out[i]) \subseteq all'
  <2>1. Fetched(out[i]) /\ (i < at \/ i = at)
    BY <1>3, <1>4 DEF Fetched
  <2>2. CASE i < at
    BY <1>2, <2>1, <2>2 DEF SnapshotInv
  <2>3. CASE i = at
    BY <1>2, <1>4, <2>1, <2>3 DEF Fetched
  <2> QED
    BY <2>1, <2>2, <2>3
<1>5. stage' \in {"fetch", "idle", "write"} /\ (stage' = "write" => at' > Len(out))
  BY <1>2, <1>3
<1>6. \A i \in 1..Len(out') : i < at' /\ Fetched(out[i])' => NewestPage(out[i])' \subseteq all'
  BY <1>1, <1>2, <1>4
<1> QED
  BY <1>2, <1>3, <1>5, <1>6 DEF SnapshotInv

LEMMA SnapshotStep == ForumTypeOK /\ SnapshotInv /\ [ForumNext]_forumVars => SnapshotInv'
<1> SUFFICES ASSUME ForumTypeOK, SnapshotInv, [ForumNext]_forumVars PROVE SnapshotInv'
  OBVIOUS
<1>1. CASE StartListing
  BY <1>1 DEF StartListing, SnapshotInv
<1>2. ASSUME stage = "list", ToFetch(out'), at' = at, raw' = raw PROVE SnapshotInv'
  <2>1. stage' \in {"idle", "fetch"} /\ seen' = 0 /\ raw' = {} /\ at' = 1
    BY <1>2 DEF ToFetch, From, SnapshotInv, ForumTypeOK
  <2>2. \A i \in 1..Len(out') : ~ i < at'
    BY <2>1
  <2> QED
    BY <2>1, <2>2 DEF SnapshotInv
<1>3. CASE ListPage
  <2>1. ToFetch(out') \/ stage' = "list"
    BY <1>3 DEF ListPage
  <2>2. stage = "list" /\ at' = at /\ raw' = raw
    BY <1>3 DEF ListPage
  <2>3. ASSUME stage' = "list" PROVE SnapshotInv'
    BY <2>2, <2>3 DEF SnapshotInv
  <2> QED
    BY <1>2, <2>1, <2>2, <2>3
<1>4. CASE ListFails
  <2>1. out' = out
    BY <1>4 DEF ListFails, listing
  <2> QED
    BY <1>2, <1>4, <2>1 DEF ListFails
<1>5. CASE FetchPage
  <2> DEFINE answer == Batch(out[at])
             kept == raw \cup Capped(answer)
  <2>1. stage = "fetch" /\ UNCHANGED <<posts, out, still, missed>>
    BY <1>5 DEF FetchPage, discord, listing
  <2>2. out[at] \in still => NewestPage(out[at]) \subseteq kept
    BY <2>1, PageFetched
  <2>3. CASE EndThread(kept)
    BY <2>1, <2>2, <2>3, ThreadKept
  <2>4. CASE /\ raw' = kept /\ UNCHANGED <<stage, at, all>>
             /\ \E last \in answer : seen' = last[2]
    <3>1. \A t : NewestPage(t)' = NewestPage(t) /\ Fetched(t)' = Fetched(t)
      BY <2>1 DEF NewestPage, BeforeNewest, MessagesOf, Fetched
    <3>2. out[at] \in Threads
      BY <2>1, ListedTyped DEF ForumTypeOK
    <3>3. seen' # 0
      BY <2>4, <3>2 DEF Batch, MessagesOf, ForumTypeOK
    <3> QED
      BY <2>1, <2>2, <2>4, <3>1, <3>3 DEF SnapshotInv
  <2> QED
    BY <1>5, <2>3, <2>4 DEF FetchPage
<1>6. CASE FetchAborts
  <2>1. /\ stage = "fetch" /\ UNCHANGED <<posts, out, still>>
        /\ EndThread(raw) /\ missed' = missed \cup {out[at]}
    BY <1>6 DEF FetchAborts, discord, listing
  <2> QED
    BY <2>1, ThreadKept
<1>7. CASE FetchRaises
  <2>1. /\ stage = "fetch" /\ UNCHANGED <<posts, out, still>>
        /\ EndThread({}) /\ missed' = missed \cup {out[at]}
    BY <1>7 DEF FetchRaises, discord, listing
  <2> QED
    BY <2>1, ThreadKept
<1>8. ASSUME UNCHANGED <<posts, out, still, fetching>>,
             \/ stage' = stage
             \/ stage' = "idle"
             \/ stage = "write" /\ stage' = "fsync"
      PROVE  SnapshotInv'
  <2>1. \A t : NewestPage(t)' = NewestPage(t) /\ Fetched(t)' = Fetched(t)
    BY <1>8 DEF NewestPage, BeforeNewest, MessagesOf, Fetched, fetching
  <2> QED
    BY <1>8, <2>1 DEF SnapshotInv, fetching
<1>9. CASE ListRaises \/ OpenSnapshot \/ FsyncSnapshot \/ NextDay \/ Die \/ UNCHANGED forumVars
  BY <1>8, <1>9 DEF ListRaises, OpenSnapshot, FsyncSnapshot, NextDay, Die, forumVars, discord,
     listing
<1>10. ASSUME NEW t \in Threads, Archive(t) PROVE SnapshotInv'
  BY <1>8, <1>10 DEF Archive, listing
<1>11. ASSUME NEW t \in Threads, Post(t) PROVE SnapshotInv'
  <2>1. /\ posts' = [posts EXCEPT ![t] = @ + 1] /\ still' = still \ {t}
        /\ UNCHANGED <<stage, out, fetching>>
    BY <1>11 DEF Post, listing
  <2>2. \A u \in Threads \ {t} : NewestPage(u)' = NewestPage(u)
    BY <2>1 DEF NewestPage, BeforeNewest, MessagesOf, ForumTypeOK
  <2>3. \A u : Fetched(u)' => Fetched(u) /\ u # t
    BY <2>1 DEF Fetched, fetching
  <2>4. \A i \in 1..Len(out) : out[i] \in Threads
    BY ListedTyped DEF ForumTypeOK
  <2>5. stage = "fetch" => at \in 1..Len(out)
    BY LenProperties DEF ForumTypeOK
  <2>6. stage = "fetch" /\ seen # 0 /\ out[at] \in still' => NewestPage(out[at])' \subseteq raw
    <3> SUFFICES ASSUME stage = "fetch", seen # 0, out[at] \in still'
                 PROVE  NewestPage(out[at])' \subseteq raw
      OBVIOUS
    <3>1. out[at] \in still /\ out[at] \in Threads \ {t}
      BY <2>1, <2>4, <2>5
    <3>2. out' = out /\ at' = at
      BY <2>1 DEF fetching
    <3>3. NewestPage(out[at])' = NewestPage(out[at])
      BY <2>2, <3>1, <3>2
    <3> QED
      BY <3>1, <3>3 DEF SnapshotInv
  <2>7. stage \in {"fetch", "write", "fsync"} =>
          \A i \in 1..Len(out) :
            i < at /\ Fetched(out[i])' => NewestPage(out[i])' \subseteq all
    <3> SUFFICES ASSUME stage \in {"fetch", "write", "fsync"}, NEW i \in 1..Len(out),
                        i < at, Fetched(out[i])'
                 PROVE  NewestPage(out[i])' \subseteq all
      OBVIOUS
    <3>1. out' = out
      BY <2>1
    <3>2. Fetched(out[i]) /\ out[i] \in Threads \ {t}
      BY <2>3, <2>4, <3>1
    <3>3. NewestPage(out[i])' = NewestPage(out[i])
      BY <2>2, <3>1, <3>2
    <3> QED
      BY <3>2, <3>3 DEF SnapshotInv
  <2>8. UNCHANGED <<stage, out, at, seen, raw, all>>
    BY <2>1 DEF fetching
  <2> QED
    BY <2>6, <2>7, <2>8 DEF SnapshotInv
<1> QED
  BY <1>1, <1>3, <1>4, <1>5, <1>6, <1>7, <1>9, <1>10, <1>11 DEF ForumNext, ForumStep

\* threads.py: the snapshot that is written has the newest page of every listed thread
\* that stayed untouched and was fetched to the end, for all page sizes and caps.
THEOREM SnapshotCorrect == ForumSpec => []SnapshotWhole
<1>1. ForumInit => SnapshotInv
  BY DEF ForumInit, SnapshotInv
<1>2. ForumTypeOK /\ SnapshotInv => SnapshotWhole
  <2> SUFFICES ASSUME ForumTypeOK, SnapshotInv, stage \in {"write", "fsync"},
                      NEW t \in (still \cap ToSet(out)) \ missed
               PROVE  NewestPage(t) \subseteq all
    BY DEF SnapshotWhole
  <2>1. PICK i \in 1..Len(out) : out[i] = t
    BY ToSetIsRange DEF ForumTypeOK
  <2>2. i < at
    BY <2>1, LenProperties DEF SnapshotInv, ForumTypeOK
  <2> QED
    BY <2>1, <2>2 DEF SnapshotInv, Fetched
<1>3. SnapshotInv /\ ForumTypeOK /\ [ForumNext]_forumVars => SnapshotInv'
  BY SnapshotStep
<1> QED
  BY ForumTypeCorrect, <1>1, <1>2, <1>3, PTL DEF ForumSpec

================================================================================
