------------------------------ MODULE ScanSession ------------------------------
(***************************************************************************)
(* The resources of a scan pass, and the processes that contend for them:  *)
(* _open_shared_resources and run_one_pass (scan/orchestrator.py), the     *)
(* lock and the life of the gateway session (session/gateway.py), the      *)
(* cursor lock (cursor/lock.py), the cookie jar (session/cookies.py), and  *)
(* what the loop of the daemon (daemon.py) and the exit of the scan        *)
(* command (cli.py) do with what a pass leaves behind; and the commands    *)
(* `resolve` and `list-guilds` (cli.py), which take no lock and rewrite    *)
(* the cookie jar of one account beside the passes.                        *)
(*                                                                         *)
(* All processes share one state root.  A file lock belongs to a process,  *)
(* is tried once (timeout=0), and is released by the system when the       *)
(* process ends.  The requests of the scan itself are modules of their own.*)
(***************************************************************************)
EXTENDS Integers, Sequences

CONSTANTS
  Procs,            \* Processes that an operator may start.
  Daemons,          \* Those that run the daemon command, not the scan command.
  Burners,          \* Accounts: auth.keyring_username or auth.burners[].
  Plan,             \* The accounts a pass of each process serves, in order.
  Tools,            \* Commands that rewrite a jar without a lock: resolve, list-guilds.
  Keyring,          \* auth.keyring_username, the account those commands act for.
  Free,             \* The holder of a lock that is not held.
  GatewayEnabled,   \* settings.gateway.enabled.
  MaxStarts,        \* Bound: times a process is started.
  MaxNetwork,       \* Bound: connections that fail or drop.
  MaxDisk,          \* Bound: writes and openings that fail.
  MaxCrashes,       \* Bound: deaths of a process.
  MaxTools          \* Bound: times one of Tools is started.

ASSUME ProcsAssumption ==
  /\ Daemons \subseteq Procs /\ Free \notin Procs
  /\ Plan \in [Procs -> Seq(Burners)]
  /\ \A p \in Procs : Plan[p] # <<>>
  /\ \A p \in Daemons : Len(Plan[p]) = 1   \* The daemon refuses a larger pool.
ASSUME SessionAssumption ==
  /\ GatewayEnabled \in BOOLEAN
  /\ MaxStarts \in Nat /\ MaxNetwork \in Nat /\ MaxDisk \in Nat /\ MaxCrashes \in Nat
  /\ Keyring \in Burners /\ MaxTools \in Nat

VARIABLES
  gatewayLock,      \* gateway-{burner}.lock: its holder.
  cursorLock,       \* cursor.lock: its holder.
  jar,              \* cookies-{burner}.json.
  tool,             \* Where a command of Tools is.
  unreadable,       \* Whether a pass has met a jar it could not read.
  pc,
  turn,             \* The position in its plan of the account a process serves.
  fatal,            \* The pass was ended by an exception.
  online,           \* Accounts for which the process has a session at the gateway.
  orphans,          \* Gateways that only their heartbeat task refers to ...
  garbage,          \* ... or nothing at all, with their lock.
  starts, network, disk, crashes, tools

locks  == <<gatewayLock, cursorLock>>
leaks  == <<orphans, garbage>>
jars   == <<jar, tool, unreadable>>
bounds == <<starts, network, disk, crashes, tools>>
vars   == <<locks, jars, pc, turn, fatal, online, leaks, bounds>>

PCs == {"off", "token", "lock", "connect", "handshake", "client", "cursor",
        "store", "scan", "persist", "write", "release", "close", "over", "idle"}

burner(p) == Plan[p][turn[p]]

\* Where a process holds the gateway of its current account, or the cursor lock,
\* through a live reference.
AtGateway == {"handshake", "client", "cursor", "store", "scan", "persist", "write",
              "release", "close"}
AtCursor  == {"store", "scan", "persist", "write", "release"}

Goto(p, there) == pc' = [pc EXCEPT ![p] = there]

\* An exception leaves run_one_pass: the accounts that are left are not served.
Abandon(p) == Goto(p, "over") /\ fatal' = [fatal EXCEPT ![p] = TRUE]

\* DormantGateway.close: the session ends, the lock is released.
CloseSession(p) ==
  /\ online' = [online EXCEPT ![p] = @ \ {burner(p)}]
  /\ gatewayLock' = IF GatewayEnabled
                    THEN [gatewayLock EXCEPT ![burner(p)] = Free] ELSE gatewayLock

\* Nothing refers to the gateway any more but its heartbeat task, which goes on.
LeaveGateway(p) ==
  orphans' = IF GatewayEnabled THEN [orphans EXCEPT ![p] = @ \cup {burner(p)}] ELSE orphans

\* What a write leaves of a jar: where another writer has filled it since it was
\* truncated, the end of the longer text stays behind the shorter one.
Filled(b) == IF jar[b] = "writing" THEN {"whole"} ELSE {"whole", "torn"}

\* What is left of it when the write fails, or its writer dies.
Cut(b) == IF jar[b] = "writing" THEN {"torn"} ELSE {jar[b], "torn"}

NetworkFails == network < MaxNetwork /\ network' = network + 1
                /\ UNCHANGED <<starts, disk, crashes, tools>>
DiskFails    == disk < MaxDisk /\ disk' = disk + 1
                /\ UNCHANGED <<starts, network, crashes, tools>>

--------------------------------------------------------------------------------
(* Bugs this code could have had: each breaks one property.                *)

\* The cursor lock is released before the cookie jar is saved.
EndScanReleasingCursor(p) ==
  /\ pc[p] = "scan"
  /\ Goto(p, "persist")
  /\ cursorLock' = Free
  /\ fatal' \in {fatal, [fatal EXCEPT ![p] = TRUE]}
  /\ UNCHANGED <<gatewayLock, jars, turn, online, leaks, bounds>>

\* The teardown closes the gateway first.
EndScanClosingGateway(p) ==
  /\ pc[p] = "scan"
  /\ Goto(p, "persist")
  /\ CloseSession(p)
  /\ fatal' \in {fatal, [fatal EXCEPT ![p] = TRUE]}
  /\ UNCHANGED <<cursorLock, jars, turn, leaks, bounds>>

\* A lock that is held is taken for one left behind.
TryGatewayLockStealing(p) ==
  /\ pc[p] = "lock"
  /\ gatewayLock' = [gatewayLock EXCEPT ![burner(p)] = p]
  /\ Goto(p, "connect")
  /\ UNCHANGED <<cursorLock, jars, turn, fatal, online, leaks, bounds>>

\* The loser of the cursor lock closes its client only.
TryCursorLockKeepingGateway(p) ==
  /\ pc[p] = "cursor"
  /\ \/ /\ cursorLock = Free
        /\ cursorLock' = p
        /\ Goto(p, "store")
        /\ UNCHANGED <<fatal, orphans>>
     \/ /\ cursorLock # Free
        /\ Abandon(p) /\ LeaveGateway(p)
        /\ UNCHANGED cursorLock
  /\ UNCHANGED <<gatewayLock, jars, turn, online, garbage, bounds>>

\* A handshake that fails leaves the gateway, and its heartbeat, as they are.
HandshakeUnclosed(p) ==
  /\ pc[p] = "handshake"
  /\ \/ /\ Goto(p, "client")
        /\ online' = [online EXCEPT ![p] = @ \cup {burner(p)}]
        /\ UNCHANGED <<fatal, orphans, bounds>>
     \/ NetworkFails /\ Abandon(p) /\ LeaveGateway(p) /\ UNCHANGED online
  /\ UNCHANGED <<locks, jars, turn, garbage>>

--------------------------------------------------------------------------------
(* A pass of process p.                                                    *)

\* The operator starts a process.
Start(p) ==
  /\ pc[p] = "off"
  /\ starts < MaxStarts
  /\ starts' = starts + 1
  /\ Goto(p, "token")
  /\ turn' = [turn EXCEPT ![p] = 1]
  /\ fatal' = [fatal EXCEPT ![p] = FALSE]
  /\ UNCHANGED <<locks, jars, online, leaks, network, disk, crashes, tools>>

\* The daemon wakes up for the next pass.
Wake(p) ==
  /\ pc[p] = "idle"
  /\ Goto(p, "token")
  /\ turn' = [turn EXCEPT ![p] = 1]
  /\ fatal' = [fatal EXCEPT ![p] = FALSE]
  /\ UNCHANGED <<locks, jars, online, leaks, bounds>>

\* load_token_for_burner finds the token of the account, or the pass ends.
LoadToken(p) ==
  /\ pc[p] = "token"
  /\ \/ /\ Goto(p, IF GatewayEnabled THEN "lock" ELSE "client")
        /\ UNCHANGED <<fatal, bounds>>
     \/ DiskFails /\ Abandon(p)
  /\ UNCHANGED <<locks, jars, turn, online, leaks>>

\* DormantGateway._acquire_lock.
TryGatewayLock(p) ==
  /\ pc[p] = "lock"
  /\ \/ /\ gatewayLock[burner(p)] = Free
        /\ gatewayLock' = [gatewayLock EXCEPT ![burner(p)] = p]
        /\ Goto(p, "connect")
        /\ UNCHANGED fatal
     \/ /\ gatewayLock[burner(p)] # Free
        /\ Abandon(p)
        /\ UNCHANGED gatewayLock
  /\ UNCHANGED <<cursorLock, jars, turn, online, leaks, bounds>>

\* websockets.connect; nothing closes the gateway when it fails.
OpenWebsocket(p) ==
  /\ pc[p] = "connect"
  /\ \/ Goto(p, "handshake") /\ UNCHANGED <<fatal, garbage, bounds>>
     \/ /\ NetworkFails /\ Abandon(p)
        /\ garbage' = [garbage EXCEPT ![p] = @ \cup {burner(p)}]
  /\ UNCHANGED <<locks, jars, turn, online, orphans>>

\* DormantGateway._do_handshake: HELLO, IDENTIFY, READY; closed when it fails.
Handshake(p) ==
  /\ pc[p] = "handshake"
  /\ \/ /\ Goto(p, "client")
        /\ online' = [online EXCEPT ![p] = @ \cup {burner(p)}]
        /\ UNCHANGED <<fatal, gatewayLock, bounds>>
     \/ NetworkFails /\ Abandon(p) /\ CloseSession(p)
  /\ UNCHANGED <<cursorLock, jars, turn, leaks>>

\* make_client reads the cookie jar; nothing closes the gateway when that fails.
MakeClient(p) ==
  /\ pc[p] = "client"
  /\ \/ /\ jar[burner(p)] \in {"absent", "whole"}
        /\ Goto(p, "cursor")
        /\ UNCHANGED <<fatal, orphans, unreadable, bounds>>
     \/ /\ \/ /\ jar[burner(p)] \in {"writing", "torn"}
              /\ unreadable' = TRUE
              /\ UNCHANGED bounds
           \/ DiskFails /\ UNCHANGED unreadable
        /\ Abandon(p) /\ LeaveGateway(p)
  /\ UNCHANGED <<locks, jar, tool, turn, online, garbage>>

\* CursorLock.acquire; the loser closes its client and its gateway, and only the
\* loser: a lock file that cannot be opened leaves the gateway behind.
TryCursorLock(p) ==
  /\ pc[p] = "cursor"
  /\ \/ /\ cursorLock = Free
        /\ cursorLock' = p
        /\ Goto(p, "store")
        /\ UNCHANGED <<fatal, online, gatewayLock, orphans, bounds>>
     \/ /\ cursorLock # Free
        /\ Abandon(p) /\ CloseSession(p)
        /\ UNCHANGED <<cursorLock, orphans, bounds>>
     \/ /\ DiskFails
        /\ Abandon(p) /\ LeaveGateway(p)
        /\ UNCHANGED <<locks, online>>
  /\ UNCHANGED <<jars, turn, garbage>>

\* CursorStore opens (and migrates) the database, or the teardown begins at once.
OpenStore(p) ==
  /\ pc[p] = "store"
  /\ \/ Goto(p, "scan") /\ UNCHANGED <<fatal, bounds>>
     \/ /\ DiskFails
        /\ Goto(p, "persist")
        /\ fatal' = [fatal EXCEPT ![p] = TRUE]
  /\ UNCHANGED <<locks, jars, turn, online, leaks>>

\* The scan of the account is over, with its results or with an exception; the
\* database is closed.
EndScan(p) ==
  /\ pc[p] = "scan"
  /\ Goto(p, "persist")
  /\ fatal' \in {fatal, [fatal EXCEPT ![p] = TRUE]}
  /\ UNCHANGED <<locks, jars, turn, online, leaks, bounds>>

\* persist_cookies: write_text truncates the file ...
TruncateJar(p) ==
  /\ pc[p] = "persist"
  /\ jar' = [jar EXCEPT ![burner(p)] = "writing"]
  /\ Goto(p, "write")
  /\ UNCHANGED <<locks, tool, unreadable, turn, fatal, online, leaks, bounds>>

\* ... and fills it, or fails, which the teardown ignores.
WriteJar(p) ==
  /\ pc[p] = "write"
  /\ \/ \E text \in Filled(burner(p)) : jar' = [jar EXCEPT ![burner(p)] = text]
        /\ UNCHANGED bounds
     \/ DiskFails /\ \E text \in Cut(burner(p)) : jar' = [jar EXCEPT ![burner(p)] = text]
  /\ Goto(p, "release")
  /\ UNCHANGED <<locks, tool, unreadable, turn, fatal, online, leaks>>

ReleaseCursor(p) ==
  /\ pc[p] = "release"
  /\ cursorLock' = Free
  /\ Goto(p, "close")
  /\ UNCHANGED <<gatewayLock, jars, turn, fatal, online, leaks, bounds>>

\* The gateway is closed last; the pass goes on with the next account of the pool.
CloseGateway(p) ==
  /\ pc[p] = "close"
  /\ CloseSession(p)
  /\ IF ~ fatal[p] /\ turn[p] < Len(Plan[p])
     THEN Goto(p, "token") /\ turn' = [turn EXCEPT ![p] = @ + 1]
     ELSE Goto(p, "over") /\ UNCHANGED turn
  /\ UNCHANGED <<cursorLock, jars, fatal, leaks, bounds>>

\* What the system does when process p is gone.
Vanish(p) ==
  /\ Goto(p, "off")
  /\ gatewayLock' = [b \in Burners |-> IF gatewayLock[b] = p THEN Free ELSE gatewayLock[b]]
  /\ cursorLock' = IF cursorLock = p THEN Free ELSE cursorLock
  /\ online' = [online EXCEPT ![p] = {}]
  /\ orphans' = [orphans EXCEPT ![p] = {}] /\ garbage' = [garbage EXCEPT ![p] = {}]

\* The daemon sleeps until the next pass, whatever ended this one; a scan exits.
EndPass(p) ==
  /\ pc[p] = "over"
  /\ IF p \in Daemons
     THEN Goto(p, "idle") /\ UNCHANGED <<locks, online, leaks>>
     ELSE Vanish(p)
  /\ UNCHANGED <<jars, turn, fatal, bounds>>

--------------------------------------------------------------------------------
(* What happens to processes and connections.                              *)

\* The garbage collector finds a gateway: its FileLock releases itself.
Collect(p) ==
  /\ \E b \in garbage[p] :
       /\ garbage' = [garbage EXCEPT ![p] = @ \ {b}]
       /\ gatewayLock' = [gatewayLock EXCEPT ![b] = Free]
  /\ UNCHANGED <<cursorLock, jars, pc, turn, fatal, online, orphans, bounds>>

\* Discord or the network ends a session.  Nothing reads from the websocket after
\* the handshake, and a heartbeat that cannot be sent is only logged.
Drop(p) ==
  /\ NetworkFails
  /\ \E b \in online[p] : online' = [online EXCEPT ![p] = @ \ {b}]
  /\ UNCHANGED <<locks, jars, pc, turn, fatal, leaks>>

Crash(p) ==
  /\ pc[p] # "off"
  /\ crashes < MaxCrashes
  /\ crashes' = crashes + 1
  /\ Vanish(p)
  /\ IF pc[p] = "write"
     THEN \E text \in Cut(burner(p)) : jar' = [jar EXCEPT ![burner(p)] = text]
     ELSE UNCHANGED jar
  /\ UNCHANGED <<tool, unreadable, turn, fatal, starts, network, disk, tools>>

--------------------------------------------------------------------------------
(* The commands that take no lock: `resolve` and `list-guilds`.            *)

\* The command reads the jar of the account of the keyring, or ends when it cannot.
StartTool(t) ==
  /\ tool[t] = "off"
  /\ tools < MaxTools
  /\ tools' = tools + 1
  /\ tool' = IF jar[Keyring] \in {"absent", "whole"} THEN [tool EXCEPT ![t] = "use"] ELSE tool
  /\ UNCHANGED <<jar, unreadable, starts, network, disk, crashes>>

\* Whatever ended its requests, it rewrites the jar, as a pass does, ...
TruncateByTool(t) ==
  /\ tool[t] = "use"
  /\ tool' = [tool EXCEPT ![t] = "write"]
  /\ jar' = [jar EXCEPT ![Keyring] = "writing"]
  /\ UNCHANGED <<unreadable, bounds>>

\* ... or fails to.
WriteByTool(t) ==
  /\ tool[t] = "write"
  /\ \/ \E text \in Filled(Keyring) : jar' = [jar EXCEPT ![Keyring] = text]
        /\ UNCHANGED bounds
     \/ DiskFails /\ \E text \in Cut(Keyring) : jar' = [jar EXCEPT ![Keyring] = text]
  /\ tool' = [tool EXCEPT ![t] = "off"]
  /\ UNCHANGED unreadable

CrashTool(t) ==
  /\ tool[t] # "off"
  /\ crashes < MaxCrashes
  /\ crashes' = crashes + 1
  /\ tool' = [tool EXCEPT ![t] = "off"]
  /\ IF tool[t] = "write"
     THEN \E text \in Cut(Keyring) : jar' = [jar EXCEPT ![Keyring] = text]
     ELSE UNCHANGED jar
  /\ UNCHANGED <<unreadable, starts, network, disk, tools>>

ToolStep(t) ==
  /\ StartTool(t) \/ TruncateByTool(t) \/ WriteByTool(t) \/ CrashTool(t)
  /\ UNCHANGED <<locks, pc, turn, fatal, online, leaks>>

--------------------------------------------------------------------------------
Init ==
  /\ gatewayLock = [b \in Burners |-> Free] /\ cursorLock = Free
  /\ jar = [b \in Burners |-> "absent"]
  /\ tool = [t \in Tools |-> "off"] /\ unreadable = FALSE
  /\ pc = [p \in Procs |-> "off"]
  /\ turn = [p \in Procs |-> 1] /\ fatal = [p \in Procs |-> FALSE]
  /\ online = [p \in Procs |-> {}]
  /\ orphans = [p \in Procs |-> {}] /\ garbage = [p \in Procs |-> {}]
  /\ starts = 0 /\ network = 0 /\ disk = 0 /\ crashes = 0 /\ tools = 0

\* What process p does by itself once it runs.
Step(p) ==
  \/ Wake(p) \/ LoadToken(p) \/ TryGatewayLock(p) \/ OpenWebsocket(p) \/ Handshake(p)
  \/ MakeClient(p) \/ TryCursorLock(p) \/ OpenStore(p) \/ EndScan(p)
  \/ TruncateJar(p) \/ WriteJar(p) \/ ReleaseCursor(p) \/ CloseGateway(p) \/ EndPass(p)

Next ==
  \/ \E p \in Procs : Start(p) \/ Step(p) \/ Collect(p) \/ Drop(p) \/ Crash(p)
  \/ \E t \in Tools : ToolStep(t)

Spec == Init /\ [][Next]_vars

\* A process that runs goes on, the garbage collector runs now and then, and the
\* operator starts the daemons.
Fairness ==
  /\ \A p \in Procs : WF_vars(Step(p)) /\ WF_vars(Collect(p))
  /\ \A p \in Daemons : WF_vars(Start(p))

FairSpec == Spec /\ Fairness

--------------------------------------------------------------------------------
(* Properties.                                                             *)

TypeOK ==
  /\ gatewayLock \in [Burners -> Procs \cup {Free}] /\ cursorLock \in Procs \cup {Free}
  /\ jar \in [Burners -> {"absent", "whole", "writing", "torn"}]
  /\ tool \in [Tools -> {"off", "use", "write"}] /\ unreadable \in BOOLEAN
  /\ pc \in [Procs -> PCs]
  /\ turn \in [Procs -> Nat \ {0}] /\ \A p \in Procs : turn[p] <= Len(Plan[p])
  /\ fatal \in [Procs -> BOOLEAN]
  /\ online \in [Procs -> SUBSET Burners]
  /\ orphans \in [Procs -> SUBSET Burners] /\ garbage \in [Procs -> SUBSET Burners]
  /\ starts \in 0 .. MaxStarts /\ network \in 0 .. MaxNetwork
  /\ disk \in 0 .. MaxDisk /\ crashes \in 0 .. MaxCrashes /\ tools \in 0 .. MaxTools

\* "Single-writer model" (cursor/state.py): of all passes that share the state root
\* at most one has the cursor database open or is saving a cookie jar, though
\* processes die and leave at any step of the teardown.
SingleWriter ==
  \A p, q \in Procs : pc[p] \in AtCursor /\ pc[q] \in AtCursor => p = q

\* An account has one session at the gateway, whatever processes serve it and
\* whatever sessions they have leaked (SEC-P0-13).
OneSessionPerBurner ==
  \A p, q \in Procs : p # q => online[p] \cap online[q] = {}

\* Why a jar may be unreadable: a disk that failed, a process that died, or, for the
\* account of the keyring only, a command that takes no lock.
Explained(b) == disk > 0 \/ crashes > 0 \/ (b = Keyring /\ tools > 0)

\* Passes do not meet at a jar: none reads it while another pass rewrites it, for the
\* gateway lock of the account covers both (the cursor lock does not: make_client runs
\* before it).  A jar a pass cannot read is left by a failed disk, a death, or, for
\* the account of the keyring, by `resolve` or `list-guilds`, which take no lock.
JarReadWhole ==
  \A p \in Procs : pc[p] = "client" =>
    /\ \A q \in Procs : pc[q] = "write" => burner(q) # burner(p)
    /\ jar[burner(p)] \in {"writing", "torn"} => Explained(burner(p))

\* No disk has failed and no pass has met a jar that it could not read.
Intact == disk = 0 /\ ~ unreadable

\* A gateway lock that is taken is released, whatever ends the pass that took it -
\* a connection or a handshake that fails, a lost race for the cursor, the death of
\* the process - unless a disk fails or a pass meets a jar that it cannot read, because
\* a process died, or a command without a lock was, in the middle of rewriting it.
LocksComeBack ==
  \A b \in Burners : gatewayLock[b] # Free ~> (gatewayLock[b] = Free \/ ~ Intact)

\* A daemon that stays up scans again and again: connections that fail and scans
\* started by hand, which take its locks, only delay it.  (A jar that cannot be read
\* stops it for good: the gateway it leaves behind keeps the lock of the account.)
DaemonScansAgain ==
  \A p \in Daemons : <>[](pc[p] = "off") \/ <>(~ Intact) \/ []<>(pc[p] = "scan")

================================================================================
