--------------------------------- MODULE Daemon ---------------------------------
(***************************************************************************)
(* The loop of the daemon (daemon.py: prune, pass, sleep, the shutdown     *)
(* event) and the retention it runs (retention.py), for several processes  *)
(* that share one output root.  The day directories of one guild are the   *)
(* shared state; the retention takes no lock, so that it meets the passes  *)
(* of the other processes and their retention at every step.               *)
(***************************************************************************)
EXTENDS Integers, FiniteSets

CONSTANTS
  Daemons,      \* Processes that run the daemon command over the output root.
  Handlers,     \* Those whose event loop takes signal handlers (POSIX).
  Capped,       \* Those started with --once or --max-iterations.
  Cap,          \* Their max_iterations.
  Keep,         \* retention.raw_dump_keep_days, any integer.
  PerDay,       \* Units of time in a day.
  Days,         \* Day directories, named by the number of their day.
  Files,        \* Files of a day directory.
  MaxTroubles   \* Bound: first signals, deaths, and entries that cannot be unlinked.

ASSUME DaemonAssumption ==
  /\ Handlers \subseteq Daemons /\ Capped \subseteq Daemons
  /\ Cap \in Nat /\ MaxTroubles \in Nat
  /\ Keep \in Int /\ PerDay \in Nat \ {0} /\ Days \subseteq Nat /\ 0 \in Days

VARIABLES
  clock,        \* Now, in units.
  dirs,         \* The day directories that exist.
  mtime,        \* Their modification times.
  files,        \* Their entries.
  wrote,        \* Ghost: what passes wrote for a day, as long as it is recent.
  pc,           \* Where each process is.
  date,         \* The day of its pass, read when the pass began.
  batch,        \* Files its pass may still write.
  cutoff,       \* cutoff_epoch of its prune, computed when the prune began.
  todo,         \* Entries of the listed directory still to be looked at.
  victim,       \* The directory being looked at or removed.
  left,         \* Entries of the victim still to be unlinked.
  stop,         \* "no", or a signal that was "sent", or the event that is "set".
  iterations,   \* Passes done (counted where a cap reads it).
  late,         \* Ghost: passes begun after the signal was sent (2: two or more).
  troubles

store == <<dirs, mtime, files, wrote>>
prune == <<cutoff, todo, victim, left>>
pass == <<date, batch>>
loop == <<stop, iterations, late>>
vars == <<clock, store, pc, prune, pass, loop, troubles>>

Places == {"off", "loop", "prune", "stat", "walk", "unlink", "begin", "pass", "open",
           "sleep", "done"}

\* The beginning of day d, and whether time t falls on it.
Midnight(d) == d * PerDay
OnDay(t, d) == Midnight(d) <= t /\ t < Midnight(d + 1)

\* The directory of day d is no older than raw_dump_keep_days, counted from the
\* beginning of the day.
Recent(d) == clock <= Midnight(d + Keep)

Init ==
  /\ clock = 0
  /\ dirs = {} /\ mtime = [d \in Days |-> 0]
  /\ files = [d \in Days |-> {}] /\ wrote = [d \in Days |-> {}]
  /\ pc = [p \in Daemons |-> "off"]
  /\ date = [p \in Daemons |-> 0] /\ batch = [p \in Daemons |-> {}]
  /\ cutoff = [p \in Daemons |-> 0] /\ todo = [p \in Daemons |-> {}]
  /\ victim = date /\ left = [p \in Daemons |-> {}]
  /\ stop = [p \in Daemons |-> "no"]
  /\ iterations = [p \in Daemons |-> 0] /\ late = [p \in Daemons |-> 0]
  /\ troubles = 0

-----------------------------------------------------------------------------
\* Bugs this code could have had; see the mutants in PROJECT.json.

CutoffInDays(t) == t - Keep
OtherFlag(p) == FALSE
OneTooMany(p) == p \in Capped /\ iterations[p] > Cap
NotEmptyOnes == {d \in dirs : files[d] # {}}

-----------------------------------------------------------------------------
\* The loop of run_forever.

Goto(p, place) == pc' = [pc EXCEPT ![p] = place]

\* The daemon command: one account, and a token that was found.
Start(p) ==
  /\ pc[p] = "off" /\ Goto(p, "loop")
  /\ UNCHANGED <<clock, store, prune, pass, loop, troubles>>

\* The loop looks at the shutdown event.
Stopping(p) == stop[p] = "set"

\* iterations >= max_iterations
CapReached(p) == p \in Capped /\ iterations[p] >= Cap

\* cutoff_epoch
CutoffAt(t) == t - Keep * PerDay

\* iterdir of the guild's directory.
Listing == dirs

\* The head of the loop; the prune lists the directories before it looks at one.
Loop(p) ==
  /\ pc[p] = "loop"
  /\ IF Stopping(p) \/ CapReached(p)
     THEN Goto(p, "done") /\ UNCHANGED prune
     ELSE /\ Goto(p, "prune")
          /\ cutoff' = [cutoff EXCEPT ![p] = CutoffAt(clock)]
          /\ todo' = [todo EXCEPT ![p] = Listing]
          /\ UNCHANGED <<victim, left>>
  /\ UNCHANGED <<clock, store, pass, loop, troubles>>

\* Another process is in its pass and has the cursor lock.
Locked(p) == \E q \in Daemons \ {p} : pc[q] \in {"pass", "open"}

\* Where the loop goes after the scan function returned or raised.
AfterPass(p) == IF Stopping(p) THEN "done" ELSE "sleep"

\* The pass ends, and the finally clause around it counts it.
LeavePass(p, place) ==
  /\ Goto(p, place)
  /\ iterations' = IF p \in Capped THEN [iterations EXCEPT ![p] = @ + 1] ELSE iterations
  /\ date' = [date EXCEPT ![p] = 0] /\ batch' = [batch EXCEPT ![p] = {}]

\* The scan function is called, whatever was sent meanwhile; it fails at a taken lock.
BeginPass(p) ==
  /\ pc[p] = "begin"
  /\ late' = IF stop[p] = "no" \/ late[p] = 2 THEN late ELSE [late EXCEPT ![p] = @ + 1]
  /\ IF Locked(p)
     THEN LeavePass(p, AfterPass(p))
     ELSE /\ Goto(p, "pass") /\ UNCHANGED iterations
          /\ \E d \in Days : OnDay(clock, d) /\ date' = [date EXCEPT ![p] = d]
          /\ batch' = [batch EXCEPT ![p] = Files]
  /\ UNCHANGED <<clock, store, prune, stop, troubles>>

\* secure_mkdir of the day directory, before a file is opened in it.
Mkdir(p) ==
  /\ pc[p] = "pass" /\ batch[p] # {} /\ Goto(p, "open")
  /\ dirs' = dirs \cup {date[p]}
  /\ mtime' = IF date[p] \in dirs THEN mtime ELSE [mtime EXCEPT ![date[p]] = clock]
  /\ UNCHANGED <<clock, files, wrote, prune, pass, loop, troubles>>

\* open("wb"): a new entry touches the directory, a file written again does not.
\* In a directory that has gone since, the open raises and ends the pass.
Open(p) ==
  /\ pc[p] = "open"
  /\ \E f \in batch[p] :
       IF date[p] \in dirs
       THEN /\ files' = [files EXCEPT ![date[p]] = @ \cup {f}]
            /\ mtime' = IF f \in files[date[p]] THEN mtime
                        ELSE [mtime EXCEPT ![date[p]] = clock]
            /\ wrote' = [wrote EXCEPT ![date[p]] = IF Recent(date[p]) THEN @ \cup {f} ELSE @]
            /\ batch' = [batch EXCEPT ![p] = @ \ {f}]
            /\ Goto(p, "pass") /\ UNCHANGED iterations
            /\ UNCHANGED date
       ELSE LeavePass(p, AfterPass(p)) /\ UNCHANGED <<files, mtime, wrote>>
  /\ UNCHANGED <<clock, dirs, prune, stop, late, troubles>>

\* The pass returns or raises; every Exception is swallowed.  It has awaited something
\* since a signal was sent, and the event loop has seen that.
EndPass(p) ==
  /\ pc[p] = "pass" /\ stop[p] # "sent" /\ LeavePass(p, AfterPass(p))
  /\ UNCHANGED <<clock, store, prune, stop, late, troubles>>

\* wait_for(shutdown.wait(), timeout): the event ends the wait and the loop.
Awake(p) ==
  /\ pc[p] = "sleep" /\ stop[p] # "sent"
  /\ Goto(p, IF Stopping(p) THEN "done" ELSE "loop")
  /\ UNCHANGED <<clock, store, prune, pass, loop, troubles>>

-----------------------------------------------------------------------------
\* prune_output and _safe_rmtree.

\* prune_output returns, and its locals are gone.
Forget(p) ==
  /\ cutoff' = [cutoff EXCEPT ![p] = 0] /\ todo' = [todo EXCEPT ![p] = {}]
  /\ victim' = [victim EXCEPT ![p] = 0] /\ left' = [left EXCEPT ![p] = {}]

\* The loop over the listing goes on.
Continue(p) == Goto(p, "prune") /\ victim' = [victim EXCEPT ![p] = 0]

\* is_symlink, is_dir and the name: what has gone since the listing is skipped.
Inspect(p) ==
  /\ pc[p] = "prune"
  /\ \E d \in todo[p] :
       /\ todo' = [todo EXCEPT ![p] = @ \ {d}]
       /\ IF d \in dirs THEN Goto(p, "stat") /\ victim' = [victim EXCEPT ![p] = d]
          ELSE Continue(p)
  /\ UNCHANGED <<clock, store, cutoff, left, pass, loop, troubles>>

\* stat: what has gone since is_dir raises, and the daemon swallows the whole prune.
\* A directory that is not old enough stays.
Stat(p) ==
  /\ pc[p] = "stat"
  /\ IF victim[p] \notin dirs
     THEN Goto(p, "begin") /\ Forget(p)
     ELSE /\ IF mtime[victim[p]] >= cutoff[p] THEN Continue(p)
             ELSE Goto(p, "walk") /\ UNCHANGED victim
          /\ UNCHANGED <<cutoff, todo, left>>
  /\ UNCHANGED <<clock, store, pass, loop, troubles>>

\* os.walk lists the directory before anything in it is unlinked.
Walk(p) ==
  /\ pc[p] = "walk" /\ Goto(p, "unlink")
  /\ left' = [left EXCEPT ![p] = files[victim[p]]]
  /\ UNCHANGED <<clock, store, cutoff, todo, victim, pass, loop, troubles>>

\* One entry is unlinked, which touches the directory.  An entry that has gone, is a
\* symlink or cannot be unlinked is left as it is.
Unlink(p) ==
  /\ pc[p] = "unlink"
  /\ \E f \in left[p] :
       /\ left' = [left EXCEPT ![p] = @ \ {f}]
       /\ \/ /\ f \in files[victim[p]]
             /\ files' = [files EXCEPT ![victim[p]] = @ \ {f}]
             /\ mtime' = [mtime EXCEPT ![victim[p]] = clock]
             /\ UNCHANGED troubles
          \/ /\ IF f \in files[victim[p]]
                THEN troubles < MaxTroubles /\ troubles' = troubles + 1
                ELSE UNCHANGED troubles
             /\ UNCHANGED <<files, mtime>>
  /\ UNCHANGED <<clock, dirs, wrote, pc, cutoff, todo, victim, pass, loop>>

\* rmdir, which fails where an entry is left.
Rmdir(p) ==
  /\ pc[p] = "unlink" /\ left[p] = {} /\ Continue(p)
  /\ IF files[victim[p]] = {}
     THEN dirs' = dirs \ {victim[p]} /\ mtime' = [mtime EXCEPT ![victim[p]] = 0]
     ELSE UNCHANGED <<dirs, mtime>>
  /\ UNCHANGED <<clock, files, wrote, cutoff, todo, left, pass, loop, troubles>>

EndPrune(p) ==
  /\ pc[p] = "prune" /\ todo[p] = {} /\ Goto(p, "begin") /\ Forget(p)
  /\ UNCHANGED <<clock, store, pass, loop, troubles>>

-----------------------------------------------------------------------------
\* Signals, time and death.

\* The first signal.  With a handler another one sets the event again, in no step of its own.
Signal(p) ==
  /\ pc[p] \notin {"off", "done"} /\ stop[p] = "no"
  /\ troubles < MaxTroubles /\ troubles' = troubles + 1
  /\ stop' = [stop EXCEPT ![p] = "sent"]
  /\ UNCHANGED <<clock, store, pc, prune, pass, iterations, late>>

\* The event loop is in control: retention and writes are synchronous.
Awaiting(p) == pc[p] \in {"pass", "sleep"}

\* The event loop runs request_shutdown.
Handle(p) ==
  /\ p \in Handlers /\ stop[p] = "sent" /\ Awaiting(p)
  /\ stop' = [stop EXCEPT ![p] = "set"]
  /\ UNCHANGED <<clock, store, pc, prune, pass, iterations, late, troubles>>

\* Without handlers asyncio.run cancels the task: the pass is counted and not swallowed.
Cancel(p) ==
  /\ p \notin Handlers /\ stop[p] = "sent" /\ Awaiting(p)
  /\ IF pc[p] = "sleep" THEN Goto(p, "done") /\ UNCHANGED <<pass, iterations>>
     ELSE LeavePass(p, "done")
  /\ UNCHANGED <<clock, store, prune, stop, late, troubles>>

\* Another signal without handlers, before the task saw the first one: asyncio.run raises
\* KeyboardInterrupt wherever the process is, and no handler of the loop swallows that.
Interrupt(p) ==
  /\ p \notin Handlers /\ stop[p] = "sent" /\ pc[p] \notin {"off", "done"}
  /\ IF pc[p] \in {"pass", "open"} THEN LeavePass(p, "done")
     ELSE Goto(p, "done") /\ UNCHANGED <<pass, iterations>>
  /\ Forget(p)
  /\ UNCHANGED <<clock, store, stop, late, troubles>>

Tick ==
  /\ \E d \in Days : OnDay(clock + 1, d)
  /\ clock' = clock + 1
  /\ wrote' = [d \in Days |-> IF Recent(d)' THEN wrote[d] ELSE {}]
  /\ UNCHANGED <<dirs, mtime, files, pc, prune, pass, loop, troubles>>

\* A process dies at any step; started again, it counts from zero.
Crash(p) ==
  /\ troubles < MaxTroubles /\ pc[p] \notin {"off", "done"}
  /\ Goto(p, "off") /\ troubles' = troubles + 1 /\ Forget(p)
  /\ date' = [date EXCEPT ![p] = 0] /\ batch' = [batch EXCEPT ![p] = {}]
  /\ stop' = [stop EXCEPT ![p] = "no"]
  /\ iterations' = [iterations EXCEPT ![p] = 0] /\ late' = [late EXCEPT ![p] = 0]
  /\ UNCHANGED <<clock, store>>

Prune(p) == Inspect(p) \/ Stat(p) \/ Walk(p) \/ Unlink(p) \/ Rmdir(p) \/ EndPrune(p)
Pass(p) == BeginPass(p) \/ Mkdir(p) \/ Open(p) \/ EndPass(p)
Step(p) == Loop(p) \/ Prune(p) \/ Pass(p) \/ Awake(p)

Next ==
  \/ \E p \in Daemons :
       \/ Start(p) \/ Step(p)
       \/ Signal(p) \/ Handle(p) \/ Cancel(p) \/ Interrupt(p) \/ Crash(p)
  \/ Tick

\* A daemon goes on, sleeps end, and the event loop sees a signal.
Fairness ==
  \A p \in Daemons : WF_vars(Step(p)) /\ WF_vars(Handle(p) \/ Cancel(p))

Spec == Init /\ [][Next]_vars /\ Fairness

-----------------------------------------------------------------------------
\* Every variable has its type.
TypeOK ==
  /\ clock \in Nat /\ troubles \in Nat
  /\ dirs \subseteq Days /\ mtime \in [Days -> Nat]
  /\ files \in [Days -> SUBSET Files] /\ wrote \in [Days -> SUBSET Files]
  /\ pc \in [Daemons -> Places]
  /\ date \in [Daemons -> Days] /\ batch \in [Daemons -> SUBSET Files]
  /\ cutoff \in [Daemons -> Int] /\ todo \in [Daemons -> SUBSET Days]
  /\ victim \in [Daemons -> Days] /\ left \in [Daemons -> SUBSET Files]
  /\ stop \in [Daemons -> {"no", "sent", "set"}]
  /\ iterations \in [Daemons -> Nat] /\ late \in [Daemons -> 0..2]

\* What a pass wrote for a day stays until the day is raw_dump_keep_days old, and until
\* then no pass finds its directory gone between the mkdir and the open, although the
\* retention of any process goes by a modification time that writes do not refresh,
\* looks at it once, and takes no lock.
RecentKept ==
  /\ \A d \in Days : Recent(d) => wrote[d] \subseteq files[d]
  /\ \A p \in Daemons : pc[p] = "open" /\ Recent(date[p]) => date[p] \in dirs

\* After a signal at most one more pass begins, and none when the event was set; a
\* daemon with a cap begins no more passes than that.
StopsInTime ==
  \A p \in Daemons :
    /\ late[p] <= 1
    /\ stop[p] = "set" => pc[p] \in {"pass", "open", "sleep", "loop", "done"}
    /\ p \in Capped => iterations[p] <= Cap

\* A signalled daemon ends, unless it dies first: wherever the signal found it, the
\* loop sees the event.
SignalEnds ==
  \A p \in Daemons : stop[p] # "no" ~> pc[p] \in {"done", "off"}

Old(d) == d \in dirs /\ mtime[d] < CutoffAt(clock)

\* A daemon that serves without a cap and that nobody has told to stop.
Serving == \E p \in Daemons \ Capped : pc[p] \notin {"off", "done"} /\ stop[p] = "no"

\* While some daemon serves, there is time and again no old directory: each one goes, or
\* is touched by what was unlinked in it or written to it, and no race of two prunes,
\* failing entry or death of a process in the middle keeps one for good.
OldDirectoriesGo == <>[]Serving => []<>(\A d \in Days : ~Old(d))

================================================================================
