------------------------------ MODULE Daemon_proofs ------------------------------
(***************************************************************************)
(* What module Daemon promises for every number of processes, day          *)
(* directories and files, every raw_dump_keep_days, and every number of    *)
(* deaths, signals and entries that cannot be unlinked.                    *)
(***************************************************************************)
EXTENDS Daemon, TLAPS

--------------------------------------------------------------------------------
(* Types.                                                                  *)

\* Days begin, and prunes cut off, at a time; the cutoff moves on with the clock.
LEMMA Times ==
  /\ \A d \in Int : Midnight(d) \in Int
  /\ \A t \in Int : CutoffAt(t) \in Int /\ CutoffAt(t + 1) = CutoffAt(t) + 1
<1>1. Keep * PerDay \in Int /\ PerDay \in Int
  BY DaemonAssumption
<1>q. QED
  BY <1>1 DEF CutoffAt, Midnight

\* Every step keeps the types.
LEMMA NextTyped == TypeOK /\ [Next]_vars => TypeOK'
<1> SUFFICES ASSUME TypeOK, [Next]_vars PROVE TypeOK'
  OBVIOUS
<1> USE DaemonAssumption DEF TypeOK, Places
<1>c. CutoffAt(clock) \in Int
  BY Times
<1>l. ASSUME NEW p \in Daemons, NEW place \in {AfterPass(p), "done"}, LeavePass(p, place)
      PROVE  /\ pc' \in [Daemons -> Places] /\ iterations' \in [Daemons -> Nat]
             /\ date' \in [Daemons -> Days] /\ batch' \in [Daemons -> SUBSET Files]
  BY <1>l DEF LeavePass, Goto, AfterPass
<1>1. CASE UNCHANGED vars
  BY <1>1 DEF vars, store, prune, pass, loop
<1>2. CASE Tick
  <2>1. wrote' \in [Days -> SUBSET Files]
    BY <1>2 DEF Tick
  <2>q. QED
    BY <1>2, <2>1 DEF Tick, store, prune, pass, loop
<1>3. ASSUME NEW p \in Daemons, Start(p) \/ Step(p) \/ Signal(p) \/ Handle(p) \/ Cancel(p) \/ Interrupt(p) \/ Crash(p)
      PROVE  TypeOK'
  <2>1. CASE Start(p)
    BY <2>1 DEF Start, Goto, store, prune, pass, loop
  <2>2. CASE Loop(p)
    <3>1. CASE Stopping(p) \/ CapReached(p)
      BY <2>2, <3>1 DEF Loop, Goto, store, prune, pass, loop
    <3>2. CASE ~(Stopping(p) \/ CapReached(p))
      <4>1. /\ Goto(p, "prune") /\ cutoff' = [cutoff EXCEPT ![p] = CutoffAt(clock)]
            /\ todo' = [todo EXCEPT ![p] = dirs]
            /\ UNCHANGED <<victim, left, clock, store, pass, loop, troubles>>
        BY <2>2, <3>2 DEF Loop, Listing
      <4>q. QED
        BY <4>1, <1>c DEF Goto, store, prune, pass, loop
    <3>q. QED
      BY <3>1, <3>2
  <2>3. CASE Inspect(p)
    <3>1. PICK d \in todo[p] :
            /\ todo' = [todo EXCEPT ![p] = @ \ {d}]
            /\ IF d \in dirs THEN Goto(p, "stat") /\ victim' = [victim EXCEPT ![p] = d]
               ELSE Continue(p)
      BY <2>3 DEF Inspect
    <3>2. victim' \in [Daemons -> Days] /\ pc' \in [Daemons -> Places]
      BY <3>1 DEF Goto, Continue
    <3>q. QED
      BY <2>3, <3>1, <3>2 DEF Inspect, store, prune, pass, loop
  <2>4. CASE Stat(p)
    <3>1. CASE victim[p] \notin dirs
      BY <2>4, <3>1 DEF Stat, Goto, Forget, store, prune, pass, loop
    <3>2. CASE victim[p] \in dirs
      <4>1. pc' \in [Daemons -> Places] /\ victim' \in [Daemons -> Days]
        BY <2>4, <3>2 DEF Stat, Goto, Continue
      <4>q. QED
        BY <2>4, <3>2, <4>1 DEF Stat, store, prune, pass, loop
    <3>q. QED
      BY <3>1, <3>2
  <2>5. CASE Walk(p)
    BY <2>5 DEF Walk, Goto, store, prune, pass, loop
  <2>6. CASE Unlink(p)
    BY <2>6 DEF Unlink, Goto, store, prune, pass, loop
  <2>7. CASE Rmdir(p)
    BY <2>7 DEF Rmdir, Continue, Goto, store, prune, pass, loop
  <2>8. CASE EndPrune(p)
    BY <2>8 DEF EndPrune, Goto, Forget, store, prune, pass, loop
  <2>9. CASE BeginPass(p)
    <3>1. late' \in [Daemons -> 0 .. 2]
      BY <2>9 DEF BeginPass
    <3>2. CASE Locked(p)
      BY <2>9, <3>1, <3>2, <1>l DEF BeginPass, store, prune, pass, loop
    <3>3. CASE ~Locked(p)
      BY <2>9, <3>1, <3>3 DEF BeginPass, Goto, store, prune, pass, loop
    <3>q. QED
      BY <3>2, <3>3
  <2>10. CASE Mkdir(p)
    BY <2>10 DEF Mkdir, Goto, store, prune, pass, loop
  <2>11. CASE Open(p)
    <3>1. CASE date[p] \in dirs
      <4>1. mtime' \in [Days -> Nat]
        BY <2>11, <3>1 DEF Open
      <4>2. PICK f \in batch[p] :
              /\ files' = [files EXCEPT ![date[p]] = @ \cup {f}]
              /\ wrote' = [wrote EXCEPT ![date[p]] = IF Recent(date[p]) THEN @ \cup {f} ELSE @]
              /\ batch' = [batch EXCEPT ![p] = @ \ {f}]
              /\ Goto(p, "pass") /\ UNCHANGED <<iterations, date>>
        BY <2>11, <3>1 DEF Open
      <4>3. UNCHANGED <<clock, dirs, prune, stop, late, troubles>>
        BY <2>11 DEF Open
      <4>q. QED
        BY <4>1, <4>2, <4>3 DEF Goto, store, prune, pass, loop
    <3>2. CASE date[p] \notin dirs
      BY <2>11, <3>2, <1>l DEF Open, store, prune, pass, loop
    <3>q. QED
      BY <3>1, <3>2
  <2>12. CASE EndPass(p)
    BY <2>12, <1>l DEF EndPass, store, prune, pass, loop
  <2>13. CASE Awake(p)
    <3>1. pc' \in [Daemons -> Places]
      BY <2>13 DEF Awake, Goto
    <3>q. QED
      BY <2>13, <3>1 DEF Awake, store, prune, pass, loop
  <2>14. CASE Signal(p)
    BY <2>14 DEF Signal, Goto, store, prune, pass, loop
  <2>15. CASE Handle(p)
    BY <2>15 DEF Handle, Goto, store, prune, pass, loop
  <2>16. CASE Cancel(p)
    <3>1. CASE pc[p] = "sleep"
      BY <2>16, <3>1 DEF Cancel, Goto, store, prune, pass, loop
    <3>2. CASE pc[p] # "sleep"
      BY <2>16, <3>2, <1>l DEF Cancel, store, prune, pass, loop
    <3>q. QED
      BY <3>1, <3>2
  <2>17. CASE Crash(p)
    BY <2>17 DEF Crash, Goto, Forget, store, prune, pass, loop
  <2>18. CASE Interrupt(p)
    <3>1. pc' \in [Daemons -> Places] /\ iterations' \in [Daemons -> Nat]
      BY <2>18, <1>l DEF Interrupt, Goto
    <3>2. date' \in [Daemons -> Days] /\ batch' \in [Daemons -> SUBSET Files]
      BY <2>18, <1>l DEF Interrupt, pass
    <3>3. /\ cutoff' \in [Daemons -> Int] /\ todo' \in [Daemons -> SUBSET Days]
          /\ victim' \in [Daemons -> Days] /\ left' \in [Daemons -> SUBSET Files]
      BY <2>18 DEF Interrupt, Forget
    <3>q. QED
      BY <2>18, <3>1, <3>2, <3>3 DEF Interrupt, store
  <2>q. QED
    BY <1>3, <2>1, <2>2, <2>3, <2>4, <2>5, <2>6, <2>7, <2>8, <2>9, <2>10, <2>11, <2>12, <2>13, <2>14, <2>15, <2>16, <2>17, <2>18 DEF Step, Prune, Pass
<1>q. QED
  BY <1>1, <1>2, <1>3 DEF Next

\* Every variable has its type.
THEOREM TypeCorrect == Spec => []TypeOK
<1>1. Init => TypeOK
  BY DaemonAssumption DEF Init, TypeOK, Places
<1>2. TypeOK /\ [Next]_vars => TypeOK'
  BY NextTyped
<1>q. QED
  BY <1>1, <1>2, PTL DEF Spec

--------------------------------------------------------------------------------
(* Recent directories.                                                     *)

\* A directory is no older than its day.
DirAges ==
  \A d \in Days :
    /\ d \in dirs => Midnight(d) <= mtime[d] /\ Midnight(d) <= clock
    /\ d \notin dirs => files[d] = {}

\* A pass is no older than its date; a prune works with the cutoff of now or an earlier
\* one, and what it empties is past it.
ProcAges(p) ==
  /\ pc[p] \in {"pass", "open"} => Midnight(date[p]) <= clock
  /\ pc[p] \in {"prune", "stat", "walk", "unlink"} => cutoff[p] <= CutoffAt(clock)
  /\ pc[p] \in {"walk", "unlink"} => Midnight(victim[p]) < CutoffAt(clock)

\* What was written for a recent day is there.
RecentInv ==
  /\ DirAges
  /\ \A p \in Daemons : ProcAges(p)
  /\ RecentKept

\* The cutoff of a time and the days that are recent at it.
LEMMA RecentDays ==
  ASSUME NEW d \in Nat, NEW t \in Nat
  PROVE  t <= Midnight(d + Keep) <=> CutoffAt(t) <= Midnight(d)
<1>1. d * PerDay \in Int /\ Keep * PerDay \in Int /\ (d + Keep) * PerDay = d * PerDay + Keep * PerDay
  BY DaemonAssumption
<1>q. QED
  BY <1>1 DEF CutoffAt, Midnight

\* What is past the cutoff is not recent.
LEMMA PastIsNotRecent ==
  ASSUME TypeOK, NEW d \in Days, Midnight(d) < CutoffAt(clock)
  PROVE  ~Recent(d)
<1>1. d \in Nat /\ clock \in Nat
  BY DaemonAssumption DEF TypeOK
<1>2. Midnight(d) \in Int /\ CutoffAt(clock) \in Int
  BY <1>1, Times
<1>3. ~(CutoffAt(clock) <= Midnight(d))
  BY <1>2
<1>q. QED
  BY <1>1, <1>3, RecentDays DEF Recent

\* The other processes stand still.
Others(p) ==
  \A q \in Daemons \ {p} :
    pc'[q] = pc[q] /\ date'[q] = date[q] /\ cutoff'[q] = cutoff[q] /\ victim'[q] = victim[q]

\* For them only the directories may have changed.
LEMMA OthersAges ==
  ASSUME TypeOK, RecentInv, UNCHANGED clock, NEW p \in Daemons, Others(p), ProcAges(p)'
  PROVE  \A q \in Daemons : ProcAges(q)'
<1>1. \A q \in Daemons \ {p} : ProcAges(q)'
  BY DEF RecentInv, ProcAges, Others, CutoffAt
<1>q. QED
  BY <1>1

\* A step that leaves the directories alone.
LEMMA StoreKept ==
  ASSUME TypeOK, RecentInv, NEW p \in Daemons, Others(p), ProcAges(p)', UNCHANGED <<clock, store>>,
         pc'[p] = "open" => pc[p] = "open" /\ date'[p] = date[p]
  PROVE  RecentInv'
<1>1. \A q \in Daemons : ProcAges(q)'
  BY OthersAges
<1>2. DirAges'
  BY DEF RecentInv, DirAges, store
<1>3. RecentKept'
  <2>1. \A d \in Days : Recent(d)' = Recent(d)
    BY DEF Recent
  <2>2. \A d \in Days : Recent(d)' => wrote'[d] \subseteq files'[d]
    BY <2>1 DEF RecentInv, RecentKept, store
  <2>3. ASSUME NEW q \in Daemons, pc'[q] = "open", Recent(date[q])'
        PROVE  date'[q] \in dirs'
    <3>1. pc[q] = "open" /\ date'[q] = date[q] /\ date[q] \in Days
      BY <2>3 DEF Others, TypeOK
    <3>2. Recent(date[q])
      BY <2>3, <3>1 DEF Recent
    <3>q. QED
      BY <3>1, <3>2 DEF RecentInv, RecentKept, store
  <2>q. QED
    BY <2>2, <2>3 DEF RecentKept
<1>q. QED
  BY <1>1, <1>2, <1>3 DEF RecentInv

\* A process that is not in its pass and does not prune promises nothing.
LEMMA IdleAges ==
  ASSUME TypeOK, NEW p \in Daemons, pc'[p] \in {"off", "loop", "begin", "sleep", "done"}
  PROVE  ProcAges(p)'
  BY DEF ProcAges

\* Every step keeps the invariant.
LEMMA NextRecent == TypeOK /\ RecentInv /\ [Next]_vars => RecentInv'
<1> SUFFICES ASSUME TypeOK, RecentInv, [Next]_vars PROVE RecentInv'
  OBVIOUS
<1>t. TypeOK'
  BY NextTyped
<1>c. CutoffAt(clock) \in Int /\ \A d \in Days : Midnight(d) \in Int
  BY Times, DaemonAssumption DEF TypeOK
<1>1. CASE UNCHANGED vars
  BY <1>1 DEF vars, store, prune, pass, loop, RecentInv, DirAges, ProcAges, RecentKept, Recent, CutoffAt
<1>2. CASE Tick
  <2>1. /\ clock' = clock + 1 /\ clock \in Nat
        /\ UNCHANGED <<dirs, mtime, files, pc, date, cutoff, victim>>
        /\ \A d \in Days : wrote'[d] \subseteq wrote[d]
    BY <1>2 DEF Tick, store, prune, pass, TypeOK
  <2>2. CutoffAt(clock') = CutoffAt(clock) + 1
    BY <2>1, Times
  <2>3. ASSUME NEW d \in Days, Recent(d)' PROVE Recent(d)
    <3>1. d \in Nat /\ clock \in Nat /\ clock + 1 \in Nat
      BY <2>1, DaemonAssumption
    <3>2. CutoffAt(clock) + 1 <= Midnight(d)
      BY <2>1, <2>2, <2>3, <3>1, RecentDays DEF Recent
    <3>3. CutoffAt(clock) <= Midnight(d)
      BY <3>2, <1>c
    <3>q. QED
      BY <3>1, <3>3, RecentDays DEF Recent
  <2>4. DirAges'
    BY <2>1, <1>c DEF RecentInv, DirAges, TypeOK
  <2>5. ASSUME NEW p \in Daemons PROVE ProcAges(p)'
    <3>1. date[p] \in Days /\ victim[p] \in Days /\ cutoff[p] \in Int
      BY DEF TypeOK
    <3>2. Midnight(date[p]) \in Int /\ Midnight(victim[p]) \in Int
      BY <3>1, <1>c
    <3>3. ProcAges(p)
      BY DEF RecentInv
    <3>q. QED
      BY <3>1, <3>2, <3>3, <2>1, <2>2, <1>c DEF ProcAges
  <2>6. RecentKept'
    BY <2>1, <2>3 DEF RecentInv, RecentKept, TypeOK
  <2>q. QED
    BY <2>4, <2>5, <2>6 DEF RecentInv
<1>3. ASSUME NEW p \in Daemons, Start(p) \/ Step(p) \/ Signal(p) \/ Handle(p) \/ Cancel(p) \/ Interrupt(p) \/ Crash(p)
      PROVE  RecentInv'
  <2>a. ProcAges(p)
    BY DEF RecentInv
  <2>y. /\ date[p] \in Days /\ victim[p] \in Days /\ cutoff[p] \in Int
        /\ Midnight(date[p]) \in Int /\ Midnight(victim[p]) \in Int
    BY <1>c DEF TypeOK
  <2>1. CASE Start(p)
    <3>1. Others(p) /\ UNCHANGED <<clock, store>> /\ pc'[p] \in {"off", "loop", "begin", "sleep", "done"}
      BY <2>1 DEF Start, Goto, Others, store, prune, pass, loop, TypeOK
    <3>q. QED
      BY <3>1, IdleAges, StoreKept
  <2>2. CASE Loop(p)
    <3>1. Others(p) /\ UNCHANGED <<clock, store>>
      BY <2>2 DEF Loop, Goto, Others, store, prune, pass, loop, TypeOK
    <3>2. CASE Stopping(p) \/ CapReached(p)
      <4>1. pc'[p] = "done"
        BY <2>2, <3>2 DEF Loop, Goto, TypeOK
      <4>q. QED
        BY <3>1, <4>1, IdleAges, StoreKept
    <3>3. CASE ~(Stopping(p) \/ CapReached(p))
      <4>1. pc'[p] = "prune" /\ cutoff'[p] = CutoffAt(clock) /\ clock' = clock
        BY <2>2, <3>3 DEF Loop, Goto, TypeOK
      <4>2. ProcAges(p)'
        BY <4>1, <1>c DEF ProcAges
      <4>q. QED
        BY <3>1, <4>1, <4>2, StoreKept
    <3>q. QED
      BY <3>2, <3>3
  <2>3. CASE Inspect(p)
    <3>1. Others(p) /\ UNCHANGED <<clock, store, cutoff>> /\ pc'[p] \in {"prune", "stat"} /\ pc[p] = "prune"
      BY <2>3 DEF Inspect, Continue, Goto, Others, store, prune, pass, loop, TypeOK
    <3>2. ProcAges(p)'
      BY <3>1, <2>a DEF ProcAges, CutoffAt
    <3>q. QED
      BY <3>1, <3>2, StoreKept
  <2>4. CASE Stat(p)
    <3>1. CASE victim[p] \notin dirs
      <4>1. Others(p) /\ UNCHANGED <<clock, store>> /\ pc'[p] = "begin"
        BY <2>4, <3>1 DEF Stat, Goto, Forget, Others, store, prune, pass, loop, TypeOK
      <4>q. QED
        BY <4>1, IdleAges, StoreKept
    <3>2. CASE victim[p] \in dirs
      <4>1. Others(p) /\ UNCHANGED <<clock, store, cutoff>> /\ pc[p] = "stat"
        BY <2>4, <3>2 DEF Stat, Continue, Goto, Others, store, prune, pass, loop, TypeOK
      <4>2. /\ pc'[p] = IF mtime[victim[p]] >= cutoff[p] THEN "prune" ELSE "walk"
            /\ pc'[p] = "walk" => victim' = victim
        BY <2>4, <3>2 DEF Stat, Continue, Goto, TypeOK
      <4>3. mtime[victim[p]] \in Nat /\ Midnight(victim[p]) <= mtime[victim[p]]
        BY <3>2, <2>y DEF TypeOK, RecentInv, DirAges
      <4>4. cutoff[p] <= CutoffAt(clock)
        BY <4>1, <2>a DEF ProcAges
      <4>5. pc'[p] \in {"prune", "walk"} /\ (pc'[p] = "walk" => Midnight(victim[p]) < CutoffAt(clock))
        BY <4>2, <4>3, <4>4, <2>y, <1>c
      <4>6. ProcAges(p)'
        BY <4>1, <4>2, <4>4, <4>5 DEF ProcAges, CutoffAt
      <4>q. QED
        BY <4>1, <4>5, <4>6, StoreKept
    <3>q. QED
      BY <3>1, <3>2
  <2>5. CASE Walk(p)
    <3>1. Others(p) /\ UNCHANGED <<clock, store, cutoff, victim>> /\ pc[p] = "walk" /\ pc'[p] = "unlink"
      BY <2>5 DEF Walk, Goto, Others, store, prune, pass, loop, TypeOK
    <3>2. ProcAges(p)'
      BY <3>1, <2>a DEF ProcAges, CutoffAt
    <3>q. QED
      BY <3>1, <3>2, StoreKept
  <2>6. CASE Unlink(p)
    <3>1. /\ Others(p) /\ UNCHANGED <<clock, dirs, wrote, pc, date, cutoff, victim>> /\ pc[p] = "unlink"
      BY <2>6 DEF Unlink, Others, store, prune, pass, loop, TypeOK
    <3>2. ProcAges(p)' /\ Midnight(victim[p]) < CutoffAt(clock)
      BY <3>1, <2>a DEF ProcAges, CutoffAt
    <3>3. ~Recent(victim[p])
      BY <3>2, <2>y, PastIsNotRecent
    <3>4. CASE UNCHANGED <<files, mtime>>
      BY <3>1, <3>2, <3>4, StoreKept DEF store
    <3>5. CASE \E f \in files[victim[p]] : /\ files' = [files EXCEPT ![victim[p]] = @ \ {f}]
                                           /\ mtime' = [mtime EXCEPT ![victim[p]] = clock]
      <4>1. victim[p] \in dirs
        BY <3>5, <2>y DEF RecentInv, DirAges
      <4>2. DirAges'
        BY <3>1, <3>5, <4>1, <2>y DEF RecentInv, DirAges, TypeOK
      <4>3. RecentKept'
        BY <3>1, <3>3, <3>5, <2>y DEF RecentInv, RecentKept, Recent, TypeOK
      <4>q. QED
        BY <3>1, <3>2, <4>2, <4>3, OthersAges DEF RecentInv
    <3>q. QED
      BY <2>6, <3>4, <3>5 DEF Unlink
  <2>7. CASE Rmdir(p)
    <3>1. /\ Others(p) /\ UNCHANGED <<clock, files, wrote, date, cutoff>>
          /\ pc[p] = "unlink" /\ pc'[p] = "prune"
      BY <2>7 DEF Rmdir, Continue, Goto, Others, store, prune, pass, loop, TypeOK
    <3>2. ProcAges(p)' /\ Midnight(victim[p]) < CutoffAt(clock)
      BY <3>1, <2>a DEF ProcAges, CutoffAt
    <3>3. ~Recent(victim[p])
      BY <3>2, <2>y, PastIsNotRecent
    <3>4. CASE files[victim[p]] # {}
      BY <2>7, <3>1, <3>2, <3>4, StoreKept DEF Rmdir, store
    <3>5. CASE files[victim[p]] = {}
      <4>1. dirs' = dirs \ {victim[p]} /\ mtime' = [mtime EXCEPT ![victim[p]] = 0]
        BY <2>7, <3>5 DEF Rmdir
      <4>2. DirAges'
        BY <3>1, <3>5, <4>1, <2>y DEF RecentInv, DirAges, TypeOK
      <4>3. RecentKept'
        BY <3>1, <3>3, <4>1, <2>y DEF RecentInv, RecentKept, Recent, Others, TypeOK
      <4>q. QED
        BY <3>1, <3>2, <4>2, <4>3, OthersAges DEF RecentInv
    <3>q. QED
      BY <3>4, <3>5
  <2>8. CASE EndPrune(p)
    <3>1. Others(p) /\ UNCHANGED <<clock, store>> /\ pc'[p] \in {"off", "loop", "begin", "sleep", "done"}
      BY <2>8 DEF EndPrune, Goto, Forget, Others, store, prune, pass, loop, TypeOK
    <3>q. QED
      BY <3>1, IdleAges, StoreKept
  <2>9. CASE BeginPass(p)
    <3>1. CASE Locked(p)
      <4>1. Others(p) /\ UNCHANGED <<clock, store>> /\ pc'[p] \in {"sleep", "done"}
        BY <2>9, <3>1 DEF BeginPass, LeavePass, AfterPass, Goto, Others, store, prune, pass, loop, TypeOK
      <4>q. QED
        BY <4>1, IdleAges, StoreKept
    <3>2. CASE ~Locked(p)
      <4>1. Others(p) /\ UNCHANGED <<clock, store>> /\ pc'[p] = "pass" /\ OnDay(clock, date'[p])
        BY <2>9, <3>2 DEF BeginPass, Goto, Others, store, prune, pass, loop, TypeOK
      <4>2. ProcAges(p)'
        BY <4>1 DEF ProcAges, OnDay
      <4>q. QED
        BY <4>1, <4>2, StoreKept
    <3>q. QED
      BY <3>1, <3>2
  <2>10. CASE Mkdir(p)
    <3>1. /\ Others(p) /\ UNCHANGED <<clock, files, wrote, date>>
          /\ pc[p] = "pass" /\ pc'[p] = "open" /\ dirs' = dirs \cup {date[p]}
      BY <2>10 DEF Mkdir, Goto, Others, store, prune, pass, loop, TypeOK
    <3>2. \A d \in Days : mtime'[d] = IF d = date[p] /\ d \notin dirs THEN clock ELSE mtime[d]
      BY <2>10, <2>y DEF Mkdir, TypeOK
    <3>3. Midnight(date[p]) <= clock
      BY <3>1, <2>a DEF ProcAges
    <3>4. DirAges'
      BY <3>1, <3>2, <3>3 DEF RecentInv, DirAges
    <3>5. ProcAges(p)'
      BY <3>1, <3>3 DEF ProcAges
    <3>6. RecentKept'
      BY <3>1, <2>y DEF RecentInv, RecentKept, Recent, Others, TypeOK
    <3>q. QED
      BY <3>1, <3>4, <3>5, <3>6, OthersAges DEF RecentInv
  <2>11. CASE Open(p)
    <3>1. CASE date[p] \in dirs
      <4>1. PICK f \in batch[p] :
              /\ files' = [files EXCEPT ![date[p]] = @ \cup {f}]
              /\ mtime' = IF f \in files[date[p]] THEN mtime ELSE [mtime EXCEPT ![date[p]] = clock]
              /\ wrote' = [wrote EXCEPT ![date[p]] = IF Recent(date[p]) THEN @ \cup {f} ELSE @]
              /\ Goto(p, "pass") /\ UNCHANGED date
        BY <2>11, <3>1 DEF Open
      <4>2. /\ Others(p) /\ UNCHANGED <<clock, dirs, date>> /\ pc[p] = "open" /\ pc'[p] = "pass"
        BY <2>11, <4>1 DEF Open, Goto, Others, prune, TypeOK
      <4>3. Midnight(date[p]) <= clock
        BY <4>2, <2>a DEF ProcAges
      <4>4. \A d \in Days : mtime'[d] = mtime[d] \/ (d = date[p] /\ mtime'[d] = clock)
        BY <4>1, <2>y DEF TypeOK
      <4>5. DirAges'
        BY <4>1, <4>2, <4>3, <4>4, <3>1, <2>y DEF RecentInv, DirAges, TypeOK
      <4>6. ProcAges(p)'
        BY <4>2, <4>3 DEF ProcAges
      <4>7. RecentKept'
        BY <4>1, <4>2, <2>y DEF RecentInv, RecentKept, Recent, Others, TypeOK
      <4>q. QED
        BY <4>2, <4>5, <4>6, <4>7, OthersAges DEF RecentInv
    <3>2. CASE date[p] \notin dirs
      <4>1. Others(p) /\ UNCHANGED <<clock, store>> /\ pc'[p] \in {"sleep", "done"}
        BY <2>11, <3>2 DEF Open, LeavePass, AfterPass, Goto, Others, store, prune, pass, loop, TypeOK
      <4>q. QED
        BY <4>1, IdleAges, StoreKept
    <3>q. QED
      BY <3>1, <3>2
  <2>12. CASE EndPass(p)
    <3>1. Others(p) /\ UNCHANGED <<clock, store>> /\ pc'[p] \in {"off", "loop", "begin", "sleep", "done"}
      BY <2>12 DEF EndPass, Goto, LeavePass, AfterPass, Others, store, prune, pass, loop, TypeOK
    <3>q. QED
      BY <3>1, IdleAges, StoreKept
  <2>13. CASE Awake(p)
    <3>1. Others(p) /\ UNCHANGED <<clock, store>> /\ pc'[p] \in {"off", "loop", "begin", "sleep", "done"}
      BY <2>13 DEF Awake, Goto, Others, store, prune, pass, loop, TypeOK
    <3>q. QED
      BY <3>1, IdleAges, StoreKept
  <2>14. CASE Signal(p)
    <3>1. Others(p) /\ UNCHANGED <<clock, store, pc, date, cutoff, victim>>
      BY <2>14 DEF Signal, Others, store, prune, pass, loop, TypeOK
    <3>2. ProcAges(p)'
      BY <3>1, <2>a DEF ProcAges, CutoffAt
    <3>q. QED
      BY <3>1, <3>2, StoreKept
  <2>15. CASE Handle(p)
    <3>1. Others(p) /\ UNCHANGED <<clock, store, pc, date, cutoff, victim>>
      BY <2>15 DEF Handle, Others, store, prune, pass, loop, TypeOK
    <3>2. ProcAges(p)'
      BY <3>1, <2>a DEF ProcAges, CutoffAt
    <3>q. QED
      BY <3>1, <3>2, StoreKept
  <2>16. CASE Cancel(p)
    <3>1. Others(p) /\ UNCHANGED <<clock, store>> /\ pc'[p] \in {"off", "loop", "begin", "sleep", "done"}
      BY <2>16 DEF Cancel, Goto, LeavePass, Others, store, prune, pass, loop, TypeOK
    <3>q. QED
      BY <3>1, IdleAges, StoreKept
  <2>17. CASE Crash(p)
    <3>1. Others(p) /\ UNCHANGED <<clock, store>> /\ pc'[p] \in {"off", "loop", "begin", "sleep", "done"}
      BY <2>17 DEF Crash, Goto, Forget, Others, store, prune, pass, loop, TypeOK
    <3>q. QED
      BY <3>1, IdleAges, StoreKept
  <2>18. CASE Interrupt(p)
    <3>1. Others(p) /\ UNCHANGED <<clock, store>> /\ pc'[p] \in {"off", "loop", "begin", "sleep", "done"}
      BY <2>18 DEF Interrupt, Goto, Forget, LeavePass, Others, store, prune, pass, loop, TypeOK
    <3>q. QED
      BY <3>1, IdleAges, StoreKept
  <2>q. QED
    BY <1>3, <2>1, <2>2, <2>3, <2>4, <2>5, <2>6, <2>7, <2>8, <2>9, <2>10, <2>11, <2>12, <2>13, <2>14, <2>15, <2>16, <2>17, <2>18 DEF Step, Prune, Pass
<1>q. QED
  BY <1>1, <1>2, <1>3 DEF Next

\* What a pass wrote for a day stays until the day is raw_dump_keep_days old, whatever
\* processes prune beside it, and no pass finds its directory gone.
THEOREM RecentCorrect == Spec => []RecentKept
<1>1. Init => TypeOK /\ RecentInv
  BY DaemonAssumption DEF Init, TypeOK, Places, RecentInv, DirAges, ProcAges, RecentKept
<1>2. TypeOK /\ RecentInv /\ [Next]_vars => (TypeOK /\ RecentInv)'
  BY NextTyped, NextRecent
<1>3. RecentInv => RecentKept
  BY DEF RecentInv
<1>q. QED
  BY <1>1, <1>2, <1>3, PTL DEF Spec

--------------------------------------------------------------------------------
(* Shutdown.                                                               *)

\* Places of the loop where the event loop is not in control until a pass begins.
Busy == {"loop", "prune", "stat", "walk", "unlink", "begin"}

\* A pass that begins after a signal is the first one, as the event is set in it or in
\* the sleep after it; and a capped loop that is not over has passes left.
StopInv ==
  \A p \in Daemons :
    /\ stop[p] = "no" => late[p] = 0
    /\ stop[p] = "sent" /\ pc[p] \in Busy => late[p] = 0
    /\ late[p] <= 1
    /\ stop[p] = "set" => pc[p] \in {"pass", "open", "sleep", "loop", "done"}
    /\ p \in Capped => iterations[p] <= Cap
    /\ p \in Capped /\ pc[p] \in (Busy \ {"loop"}) \cup {"pass", "open"} => iterations[p] < Cap
    /\ pc[p] = "off" => stop[p] = "no"

\* Every step keeps that.
LEMMA NextStop == TypeOK /\ StopInv /\ [Next]_vars => StopInv'
<1> SUFFICES ASSUME TypeOK, StopInv, [Next]_vars PROVE StopInv'
  OBVIOUS
<1> USE DaemonAssumption DEF TypeOK, StopInv, Busy
<1>1. CASE UNCHANGED vars
  BY <1>1 DEF vars, loop
<1>2. CASE Tick
  BY <1>2 DEF Tick, loop
<1>3. ASSUME NEW p \in Daemons, Start(p) \/ Step(p) \/ Signal(p) \/ Handle(p) \/ Cancel(p) \/ Interrupt(p) \/ Crash(p)
      PROVE  StopInv'
  <2>1. CASE Start(p)
    BY <2>1 DEF Start, Goto, loop
  <2>2. CASE Loop(p)
    BY <2>2 DEF Loop, Goto, Stopping, CapReached, loop
  <2>3. CASE Inspect(p)
    BY <2>3 DEF Inspect, Continue, Goto, loop
  <2>4. CASE Stat(p)
    BY <2>4 DEF Stat, Continue, Goto, loop
  <2>5. CASE Walk(p)
    BY <2>5 DEF Walk, Goto, loop
  <2>6. CASE Unlink(p)
    BY <2>6 DEF Unlink, Goto, loop
  <2>7. CASE Rmdir(p)
    BY <2>7 DEF Rmdir, Continue, Goto, loop
  <2>8. CASE EndPrune(p)
    BY <2>8 DEF EndPrune, Goto, loop
  <2>9. CASE BeginPass(p)
    <3>1. late' = IF stop[p] = "no" \/ late[p] = 2 THEN late ELSE [late EXCEPT ![p] = @ + 1]
      BY <2>9 DEF BeginPass
    <3>2. stop' = stop /\ stop[p] # "set" /\ pc[p] = "begin"
      BY <2>9 DEF BeginPass
    <3>3. \A q \in Daemons : late'[q] <= 1 /\ (stop[q] = "no" => late'[q] = 0) /\ (q # p => late'[q] = late[q])
      BY <3>1, <3>2
    <3>4. CASE Locked(p)
      BY <2>9, <3>2, <3>3, <3>4 DEF BeginPass, LeavePass, AfterPass, Stopping, Goto
    <3>5. CASE ~Locked(p)
      BY <2>9, <3>2, <3>3, <3>5 DEF BeginPass, Goto
    <3>q. QED
      BY <3>4, <3>5
  <2>10. CASE Mkdir(p)
    BY <2>10 DEF Mkdir, Goto, loop
  <2>11. CASE Open(p)
    <3>1. CASE date[p] \in dirs
      BY <2>11, <3>1 DEF Open, Goto
    <3>2. CASE date[p] \notin dirs
      BY <2>11, <3>2 DEF Open, LeavePass, AfterPass, Stopping, Goto
    <3>q. QED
      BY <3>1, <3>2
  <2>12. CASE EndPass(p)
    BY <2>12 DEF EndPass, Goto, LeavePass, AfterPass, Stopping, loop
  <2>13. CASE Awake(p)
    BY <2>13 DEF Awake, Goto, Stopping, loop
  <2>14. CASE Signal(p)
    BY <2>14 DEF Signal, Goto, loop
  <2>15. CASE Handle(p)
    BY <2>15 DEF Handle, Goto, Awaiting, loop
  <2>16. CASE Cancel(p)
    BY <2>16 DEF Cancel, Goto, LeavePass, Awaiting, loop
  <2>17. CASE Crash(p)
    BY <2>17 DEF Crash, Goto, loop
  <2>18. CASE Interrupt(p)
    BY <2>18 DEF Interrupt, Goto, LeavePass, loop
  <2>q. QED
    BY <1>3, <2>1, <2>2, <2>3, <2>4, <2>5, <2>6, <2>7, <2>8, <2>9, <2>10, <2>11, <2>12, <2>13, <2>14, <2>15, <2>16, <2>17, <2>18 DEF Step, Prune, Pass
<1>q. QED
  BY <1>1, <1>2, <1>3 DEF Next

\* After a signal at most one more pass begins, none after the event is set, and a
\* capped daemon begins no more passes than its cap.
THEOREM StopCorrect == Spec => []StopsInTime
<1>1. Init => TypeOK /\ StopInv
  BY DaemonAssumption DEF Init, TypeOK, Places, StopInv, Busy
<1>2. TypeOK /\ StopInv /\ [Next]_vars => (TypeOK /\ StopInv)'
  BY NextTyped, NextStop
<1>3. StopInv => StopsInTime
  BY DEF StopInv, StopsInTime
<1>q. QED
  BY <1>1, <1>2, <1>3, PTL DEF Spec

================================================================================
