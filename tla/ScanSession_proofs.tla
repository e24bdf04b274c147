-------------------------- MODULE ScanSession_proofs --------------------------
(***************************************************************************)
(* Theorems about module ScanSession, for any number of processes,         *)
(* daemons and accounts, any plans and any bounds.                         *)
(***************************************************************************)
EXTENDS ScanSession, TLAPS

\* The account a process serves is an account.
LEMMA BurnerType ==
  ASSUME TypeOK, NEW p \in Procs
  PROVE  burner(p) \in Burners /\ turn[p] \in Nat \ {0}
<1>1. Plan[p] \in Seq(Burners) /\ turn[p] \in 1 .. Len(Plan[p])
  BY ProcsAssumption DEF TypeOK
<1> QED
  BY <1>1 DEF burner, TypeOK

--------------------------------------------------------------------------------
(* Types.                                                                  *)

\* The initial state is typed ...
LEMMA InitTyped == Init => TypeOK
<1> SUFFICES ASSUME Init PROVE TypeOK
  OBVIOUS
<1>1. \A p \in Procs : 1 <= Len(Plan[p])
  <2> TAKE p \in Procs
  <2>1. Plan[p] \in Seq(Burners) /\ Plan[p] # <<>>
    BY ProcsAssumption
  <2> QED
    BY <2>1
<1>2. /\ jar \in [Burners -> {"absent", "whole", "writing", "torn"}]
      /\ tool \in [Tools -> {"off", "use", "write"}] /\ unreadable \in BOOLEAN
  BY Zenon DEF Init
<1> QED
  BY <1>1, <1>2, ProcsAssumption, SessionAssumption DEF Init, TypeOK, PCs

\* A write, or what cuts it short, leaves a jar a jar.
LEMMA TextTyped ==
  ASSUME TypeOK, NEW b,
         \E text \in Filled(b) \cup Cut(b) : jar' = [jar EXCEPT ![b] = text]
  PROVE  jar' \in [Burners -> {"absent", "whole", "writing", "torn"}]
<1>1. CASE b \in Burners
  <2>1. Filled(b) \cup Cut(b) \subseteq {"absent", "whole", "writing", "torn"}
    BY <1>1 DEF Filled, Cut, TypeOK
  <2> QED
    BY <2>1 DEF TypeOK
<1>2. CASE b \notin Burners
  BY <1>2 DEF TypeOK
<1> QED
  BY <1>1, <1>2

\* ... and every step keeps the types.
LEMMA NextTyped == TypeOK /\ [Next]_vars => TypeOK'
<1> SUFFICES ASSUME TypeOK, [Next]_vars PROVE TypeOK'
  OBVIOUS
<1>acc. \A q \in Procs : burner(q) \in Burners
  BY BurnerType
<1>len. \A q \in Procs : Len(Plan[q]) \in Nat \ {0}
  <2> TAKE q \in Procs
  <2>1. Plan[q] \in Seq(Burners) /\ Plan[q] # <<>>
    BY ProcsAssumption
  <2> QED
    BY <2>1
<1>1. CASE UNCHANGED vars
  BY <1>1 DEF vars, locks, leaks, jars, bounds, TypeOK
<1>2. ASSUME NEW p \in Procs, Start(p) \/ Step(p) \/ Collect(p) \/ Drop(p) \/ Crash(p)
      PROVE  TypeOK'
  <2>acc. burner(p) \in Burners
    BY <1>acc
  <2>1. CASE Start(p)
    BY <2>1, <2>acc, <1>len, SessionAssumption, ProcsAssumption
    DEF Start, Goto, locks, leaks, jars, TypeOK, PCs
  <2>2. CASE Wake(p)
    BY <2>2, <2>acc, <1>len, SessionAssumption, ProcsAssumption
    DEF Wake, Goto, locks, leaks, bounds, jars, TypeOK, PCs
  <2>3. CASE LoadToken(p)
    <3>0. UNCHANGED <<locks, jars, turn, online, leaks>>
      BY <2>3 DEF LoadToken
    <3>1. CASE UNCHANGED <<fatal, bounds>> /\ Goto(p, IF GatewayEnabled THEN "lock" ELSE "client")
      BY <3>0, <3>1, <2>acc, SessionAssumption, ProcsAssumption
      DEF Goto, locks, leaks, bounds, jars, TypeOK, PCs
    <3>2. CASE DiskFails /\ Abandon(p)
      BY <3>0, <3>2, <2>acc, SessionAssumption, ProcsAssumption
      DEF Goto, Abandon, DiskFails, locks, leaks, bounds, jars, TypeOK, PCs
    <3> QED
      BY <2>3, <3>1, <3>2 DEF LoadToken
  <2>4. CASE TryGatewayLock(p)
    <3>0. UNCHANGED <<cursorLock, jars, turn, online, leaks, bounds>>
      BY <2>4 DEF TryGatewayLock
    <3>1. CASE UNCHANGED fatal /\ Goto(p, "connect")
               /\ gatewayLock' = [gatewayLock EXCEPT ![burner(p)] = p]
      BY <3>0, <3>1, <2>acc, SessionAssumption, ProcsAssumption
      DEF Goto, locks, leaks, bounds, jars, TypeOK, PCs
    <3>2. CASE Abandon(p) /\ UNCHANGED gatewayLock
      BY <3>0, <3>2, <2>acc, SessionAssumption, ProcsAssumption
      DEF Goto, Abandon, locks, leaks, bounds, jars, TypeOK, PCs
    <3> QED
      BY <2>4, <3>1, <3>2 DEF TryGatewayLock
  <2>5. CASE OpenWebsocket(p)
    <3>0. UNCHANGED <<locks, jars, turn, online, orphans>>
      BY <2>5 DEF OpenWebsocket
    <3>1. CASE Goto(p, "handshake") /\ UNCHANGED <<fatal, garbage, bounds>>
      BY <3>0, <3>1, <2>acc, SessionAssumption, ProcsAssumption
      DEF Goto, locks, leaks, bounds, jars, TypeOK, PCs
    <3>2. CASE NetworkFails /\ Abandon(p)
               /\ garbage' = [garbage EXCEPT ![p] = @ \cup {burner(p)}]
      BY <3>0, <3>2, <2>acc, SessionAssumption, ProcsAssumption
      DEF Goto, Abandon, NetworkFails, locks, leaks, bounds, jars, TypeOK, PCs
    <3> QED
      BY <2>5, <3>1, <3>2 DEF OpenWebsocket
  <2>6. CASE Handshake(p)
    <3>0. UNCHANGED <<cursorLock, jars, turn, leaks>>
      BY <2>6 DEF Handshake
    <3>1. CASE Goto(p, "client") /\ UNCHANGED <<fatal, gatewayLock, bounds>>
               /\ online' = [online EXCEPT ![p] = @ \cup {burner(p)}]
      BY <3>0, <3>1, <2>acc, SessionAssumption, ProcsAssumption
      DEF Goto, locks, leaks, bounds, jars, TypeOK, PCs
    <3>2. CASE NetworkFails /\ Abandon(p) /\ CloseSession(p)
      BY <3>0, <3>2, <2>acc, SessionAssumption, ProcsAssumption
      DEF Goto, Abandon, CloseSession, NetworkFails, locks, leaks, bounds, jars, TypeOK, PCs
    <3> QED
      BY <2>6, <3>1, <3>2 DEF Handshake
  <2>7. CASE MakeClient(p)
    <3>0. UNCHANGED <<locks, jar, tool, turn, online, garbage>>
      BY <2>7 DEF MakeClient
    <3>1. CASE Goto(p, "cursor") /\ UNCHANGED <<fatal, orphans, unreadable, bounds>>
      BY <3>0, <3>1, <2>acc, SessionAssumption, ProcsAssumption
      DEF Goto, locks, leaks, bounds, jars, TypeOK, PCs
    <3>2. CASE UNCHANGED bounds /\ unreadable' = TRUE /\ Abandon(p) /\ LeaveGateway(p)
      BY <3>0, <3>2, <2>acc, SessionAssumption, ProcsAssumption
      DEF Goto, Abandon, LeaveGateway, locks, leaks, bounds, jars, TypeOK, PCs
    <3>3. CASE DiskFails /\ UNCHANGED unreadable /\ Abandon(p) /\ LeaveGateway(p)
      BY <3>0, <3>3, <2>acc, SessionAssumption, ProcsAssumption
      DEF Goto, Abandon, LeaveGateway, DiskFails, locks, leaks, bounds, jars, TypeOK, PCs
    <3> QED
      BY <2>7, <3>1, <3>2, <3>3 DEF MakeClient
  <2>8. CASE TryCursorLock(p)
    <3>0. UNCHANGED <<jars, turn, garbage>>
      BY <2>8 DEF TryCursorLock
    <3>1. CASE cursorLock' = p /\ Goto(p, "store")
               /\ UNCHANGED <<fatal, online, gatewayLock, orphans, bounds>>
      BY <3>0, <3>1, <2>acc, SessionAssumption, ProcsAssumption
      DEF Goto, locks, leaks, bounds, jars, TypeOK, PCs
    <3>2. CASE Abandon(p) /\ CloseSession(p) /\ UNCHANGED <<cursorLock, orphans, bounds>>
      BY <3>0, <3>2, <2>acc, SessionAssumption, ProcsAssumption
      DEF Goto, Abandon, CloseSession, locks, leaks, bounds, jars, TypeOK, PCs
    <3>3. CASE DiskFails /\ Abandon(p) /\ LeaveGateway(p) /\ UNCHANGED <<locks, online>>
      BY <3>0, <3>3, <2>acc, SessionAssumption, ProcsAssumption
      DEF Goto, Abandon, LeaveGateway, DiskFails, locks, leaks, bounds, jars, TypeOK, PCs
    <3> QED
      BY <2>8, <3>1, <3>2, <3>3 DEF TryCursorLock
  <2>9. CASE OpenStore(p)
    <3>0. UNCHANGED <<locks, jars, turn, online, leaks>>
      BY <2>9 DEF OpenStore
    <3>1. CASE Goto(p, "scan") /\ UNCHANGED <<fatal, bounds>>
      BY <3>0, <3>1, <2>acc, SessionAssumption, ProcsAssumption
      DEF Goto, locks, leaks, bounds, jars, TypeOK, PCs
    <3>2. CASE DiskFails /\ Goto(p, "persist") /\ fatal' = [fatal EXCEPT ![p] = TRUE]
      BY <3>0, <3>2, <2>acc, SessionAssumption, ProcsAssumption
      DEF Goto, DiskFails, locks, leaks, bounds, jars, TypeOK, PCs
    <3> QED
      BY <2>9, <3>1, <3>2 DEF OpenStore
  <2>10. CASE EndScan(p)
    <3>0. Goto(p, "persist") /\ UNCHANGED <<locks, jars, turn, online, leaks, bounds>>
      BY <2>10 DEF EndScan
    <3>1. CASE fatal' = fatal
      BY <3>0, <3>1, <2>acc, SessionAssumption, ProcsAssumption
      DEF Goto, locks, leaks, bounds, jars, TypeOK, PCs
    <3>2. CASE fatal' = [fatal EXCEPT ![p] = TRUE]
      BY <3>0, <3>2, <2>acc, SessionAssumption, ProcsAssumption
      DEF Goto, locks, leaks, bounds, jars, TypeOK, PCs
    <3> QED
      BY <2>10, <3>1, <3>2 DEF EndScan
  <2>11. CASE TruncateJar(p)
    BY <2>11, <2>acc, SessionAssumption, ProcsAssumption
    DEF TruncateJar, Goto, locks, leaks, bounds, jars, TypeOK, PCs
  <2>12. CASE WriteJar(p)
    <3>0. /\ Goto(p, "release")
          /\ UNCHANGED <<locks, tool, unreadable, turn, fatal, online, leaks>>
          /\ UNCHANGED bounds \/ DiskFails
      BY <2>12 DEF WriteJar
    <3>1. jar' \in [Burners -> {"absent", "whole", "writing", "torn"}]
      BY <2>12, TextTyped DEF WriteJar
    <3>2. CASE UNCHANGED bounds
      BY <3>0, <3>1, <3>2, <2>acc, SessionAssumption, ProcsAssumption
      DEF Goto, locks, leaks, bounds, TypeOK, PCs
    <3>3. CASE DiskFails
      BY <3>0, <3>1, <3>3, <2>acc, SessionAssumption, ProcsAssumption
      DEF Goto, DiskFails, locks, leaks, bounds, TypeOK, PCs
    <3> QED
      BY <3>0, <3>2, <3>3
  <2>13. CASE ReleaseCursor(p)
    BY <2>13, <2>acc, SessionAssumption, ProcsAssumption
    DEF ReleaseCursor, Goto, leaks, bounds, jars, TypeOK, PCs
  <2>14. CASE CloseGateway(p)
    <3>0. CloseSession(p) /\ UNCHANGED <<cursorLock, jars, fatal, leaks, bounds>>
      BY <2>14 DEF CloseGateway
    <3>1. CASE turn[p] < Len(Plan[p]) /\ Goto(p, "token")
               /\ turn' = [turn EXCEPT ![p] = @ + 1]
      BY <3>0, <3>1, <2>acc, <1>len, SessionAssumption, ProcsAssumption
      DEF Goto, CloseSession, locks, leaks, bounds, jars, TypeOK, PCs
    <3>2. CASE Goto(p, "over") /\ UNCHANGED turn
      BY <3>0, <3>2, <2>acc, <1>len, SessionAssumption, ProcsAssumption
      DEF Goto, CloseSession, locks, leaks, bounds, jars, TypeOK, PCs
    <3> QED
      BY <2>14, <3>1, <3>2 DEF CloseGateway
  <2>15. CASE EndPass(p)
    <3>0. UNCHANGED <<jars, turn, fatal, bounds>>
      BY <2>15 DEF EndPass
    <3>1. CASE Goto(p, "idle") /\ UNCHANGED <<locks, online, leaks>>
      BY <3>0, <3>1, <2>acc, SessionAssumption, ProcsAssumption
      DEF Goto, locks, leaks, bounds, jars, TypeOK, PCs
    <3>2. CASE Vanish(p)
      BY <3>0, <3>2, <2>acc, SessionAssumption, ProcsAssumption
      DEF Goto, Vanish, locks, leaks, bounds, jars, TypeOK, PCs
    <3> QED
      BY <2>15, <3>1, <3>2 DEF EndPass
  <2>16. CASE Collect(p)
    BY <2>16, <2>acc, SessionAssumption, ProcsAssumption
    DEF Collect, bounds, jars, TypeOK, PCs
  <2>17. CASE Drop(p)
    BY <2>17, <2>acc, SessionAssumption, ProcsAssumption
    DEF Drop, NetworkFails, locks, leaks, jars, TypeOK, PCs
  <2>18. CASE Crash(p)
    <3>1. jar' \in [Burners -> {"absent", "whole", "writing", "torn"}]
      BY <2>18, TextTyped DEF Crash, TypeOK
    <3> QED
      BY <2>18, <3>1, <2>acc, SessionAssumption, ProcsAssumption
      DEF Crash, Vanish, Goto, TypeOK, PCs
  <2> QED
    BY <1>2, <2>1, <2>2, <2>3, <2>4, <2>5, <2>6, <2>7, <2>8, <2>9, <2>10, <2>11, <2>12,
       <2>13, <2>14, <2>15, <2>16, <2>17, <2>18 DEF Step
<1>3. ASSUME NEW c \in Tools, ToolStep(c)
      PROVE  TypeOK'
  <2>1. /\ UNCHANGED <<locks, pc, turn, fatal, online, leaks, unreadable>>
        /\ tool' \in [Tools -> {"off", "use", "write"}]
    BY <1>3 DEF ToolStep, StartTool, TruncateByTool, WriteByTool, CrashTool, TypeOK
  <2>2. jar' \in [Burners -> {"absent", "whole", "writing", "torn"}]
    <3>1. CASE StartTool(c)
      BY <3>1 DEF StartTool, TypeOK
    <3>2. CASE TruncateByTool(c)
      BY <3>2 DEF TruncateByTool, TypeOK
    <3>3. CASE WriteByTool(c)
      BY <3>3, TextTyped DEF WriteByTool
    <3>4. CASE CrashTool(c)
      BY <3>4, TextTyped DEF CrashTool, TypeOK
    <3> QED
      BY <1>3, <3>1, <3>2, <3>3, <3>4 DEF ToolStep
  <2>3. /\ starts' \in 0 .. MaxStarts /\ network' \in 0 .. MaxNetwork
        /\ disk' \in 0 .. MaxDisk /\ crashes' \in 0 .. MaxCrashes /\ tools' \in 0 .. MaxTools
    BY <1>3, SessionAssumption
    DEF ToolStep, StartTool, TruncateByTool, WriteByTool, CrashTool, DiskFails, bounds, TypeOK
  <2> QED
    BY <2>1, <2>2, <2>3 DEF locks, leaks, TypeOK
<1> QED
  BY <1>1, <1>2, <1>3 DEF Next

\* Every variable keeps its type, and no process serves an account that is not in
\* its plan.
THEOREM TypeCorrect == Spec => []TypeOK
  BY InitTyped, NextTyped, PTL DEF Spec

--------------------------------------------------------------------------------
(* The cursor lock.                                                        *)

\* A process between the taking of the cursor lock and its release holds it.
CursorHeld == \A p \in Procs : pc[p] \in AtCursor => cursorLock = p

\* Nothing but its holder releases the cursor lock.
LEMMA CursorKept ==
  ASSUME TypeOK, CursorHeld, [Next]_vars
  PROVE  CursorHeld'
<1>t. pc \in [Procs -> PCs] /\ cursorLock \in Procs \cup {Free}
  BY DEF TypeOK
<1>acc. \A q \in Procs : burner(q) \in Burners
  BY BurnerType
<1>1. CASE UNCHANGED vars
  BY <1>1 DEF vars, locks, CursorHeld
<1>2. ASSUME NEW p \in Procs, Start(p) \/ Step(p) \/ Collect(p) \/ Drop(p) \/ Crash(p)
      PROVE  CursorHeld'
  <2>1. CASE Start(p)
    BY <1>t, <1>acc, <2>1, ProcsAssumption DEF Start, Goto, locks, leaks, CursorHeld, AtCursor
  <2>2. CASE Wake(p)
    BY <1>t, <1>acc, <2>2, ProcsAssumption DEF Wake, Goto, locks, leaks, bounds, CursorHeld, AtCursor
  <2>3. CASE LoadToken(p)
    BY <1>t, <1>acc, <2>3, ProcsAssumption DEF LoadToken, Goto, Abandon, locks, leaks, CursorHeld, AtCursor
  <2>4. CASE TryGatewayLock(p)
    BY <1>t, <1>acc, <2>4, ProcsAssumption DEF TryGatewayLock, Goto, Abandon, leaks, CursorHeld, AtCursor
  <2>5. CASE OpenWebsocket(p)
    BY <1>t, <1>acc, <2>5, ProcsAssumption DEF OpenWebsocket, Goto, Abandon, locks, CursorHeld, AtCursor
  <2>6. CASE Handshake(p)
    BY <1>t, <1>acc, <2>6, ProcsAssumption DEF Handshake, Goto, Abandon, CloseSession, leaks, CursorHeld, AtCursor
  <2>7. CASE MakeClient(p)
    BY <1>t, <1>acc, <2>7, ProcsAssumption DEF MakeClient, Goto, Abandon, LeaveGateway, locks, CursorHeld, AtCursor
  <2>8. CASE TryCursorLock(p)
    BY <1>t, <1>acc, <2>8, ProcsAssumption DEF TryCursorLock, Goto, Abandon, CloseSession, LeaveGateway, locks, CursorHeld, AtCursor
  <2>9. CASE OpenStore(p)
    BY <1>t, <1>acc, <2>9, ProcsAssumption DEF OpenStore, Goto, locks, leaks, CursorHeld, AtCursor
  <2>10. CASE EndScan(p)
    BY <1>t, <1>acc, <2>10, ProcsAssumption DEF EndScan, Goto, locks, leaks, CursorHeld, AtCursor
  <2>11. CASE TruncateJar(p)
    BY <1>t, <1>acc, <2>11, ProcsAssumption DEF TruncateJar, Goto, locks, leaks, CursorHeld, AtCursor
  <2>12. CASE WriteJar(p)
    BY <1>t, <1>acc, <2>12, ProcsAssumption DEF WriteJar, Goto, locks, leaks, CursorHeld, AtCursor
  <2>13. CASE ReleaseCursor(p)
    BY <1>t, <1>acc, <2>13, ProcsAssumption DEF ReleaseCursor, Goto, leaks, CursorHeld, AtCursor
  <2>14. CASE CloseGateway(p)
    BY <1>t, <1>acc, <2>14, ProcsAssumption DEF CloseGateway, Goto, CloseSession, leaks, CursorHeld, AtCursor
  <2>15. CASE EndPass(p)
    BY <1>t, <1>acc, <2>15, ProcsAssumption DEF EndPass, Goto, Vanish, locks, leaks, CursorHeld, AtCursor
  <2>16. CASE Collect(p)
    BY <1>t, <1>acc, <2>16, ProcsAssumption DEF Collect, CursorHeld, AtCursor
  <2>17. CASE Drop(p)
    BY <1>t, <1>acc, <2>17, ProcsAssumption DEF Drop, locks, leaks, CursorHeld, AtCursor
  <2>18. CASE Crash(p)
    BY <1>t, <1>acc, <2>18, ProcsAssumption DEF Crash, Vanish, Goto, CursorHeld, AtCursor
  <2> QED
    BY <1>2, <2>1, <2>2, <2>3, <2>4, <2>5, <2>6, <2>7, <2>8, <2>9, <2>10, <2>11, <2>12,
       <2>13, <2>14, <2>15, <2>16, <2>17, <2>18 DEF Step
<1>3. ASSUME NEW c \in Tools, ToolStep(c)
      PROVE  CursorHeld'
  BY <1>3 DEF ToolStep, locks, CursorHeld
<1> QED
  BY <1>1, <1>2, <1>3 DEF Next

\* At most one process has the cursor database open or is saving a cookie jar.
THEOREM SingleWriterCorrect == Spec => []SingleWriter
<1>1. Init => CursorHeld
  BY DEF Init, CursorHeld, AtCursor
<1>2. CursorHeld => SingleWriter
  BY DEF CursorHeld, SingleWriter
<1> QED
  BY <1>1, <1>2, CursorKept, TypeCorrect, PTL DEF Spec

--------------------------------------------------------------------------------
(* The lock of the gateway.                                                *)

\* A process that serves an account holds its lock, and none of its leaks do; what
\* a process has a session for, or has leaked, it holds the lock of.
GatewayHeld ==
  /\ \A p \in Procs : pc[p] \in AtGateway \cup {"connect"} =>
       /\ gatewayLock[burner(p)] = p
       /\ burner(p) \notin orphans[p] \cup garbage[p]
  /\ \A p \in Procs : pc[p] = "connect" => burner(p) \notin online[p]
  /\ \A p \in Procs : \A b \in online[p] \cup orphans[p] \cup garbage[p] : gatewayLock[b] = p
  /\ \A p \in Procs : garbage[p] \cap (online[p] \cup orphans[p]) = {}

\* The facts about types that the steps below need.
GatewaySorts ==
  /\ pc \in [Procs -> PCs] /\ turn \in [Procs -> Nat \ {0}]
  /\ gatewayLock \in [Burners -> Procs \cup {Free}] /\ online \in [Procs -> SUBSET Burners]
  /\ orphans \in [Procs -> SUBSET Burners] /\ garbage \in [Procs -> SUBSET Burners]
  /\ \A q \in Procs : burner(q) \in Burners

\* A process that closes its session gives up the lock and nothing else.
LEMMA ClosingKeeps ==
  ASSUME GatewayEnabled, GatewaySorts, GatewayHeld, NEW p \in Procs, pc[p] \in AtGateway,
         CloseSession(p), UNCHANGED leaks, NEW there \in {"token", "over"}, Goto(p, there),
         \A q \in Procs : q # p => turn'[q] = turn[q]
  PROVE  GatewayHeld'
<1> DEFINE b == burner(p)
<1>1. /\ gatewayLock' = [gatewayLock EXCEPT ![b] = Free]
      /\ online' = [online EXCEPT ![p] = @ \ {b}]
      /\ orphans' = orphans /\ garbage' = garbage /\ pc' = [pc EXCEPT ![p] = there]
  BY DEF CloseSession, leaks, Goto
<1>2. b \in Burners /\ gatewayLock[b] = p /\ b \notin orphans[p] \cup garbage[p]
  BY DEF GatewayHeld, GatewaySorts
<1>3. \A q \in Procs : pc'[q] \in AtGateway \cup {"connect"} => q # p /\ pc'[q] = pc[q]
                                                              /\ burner(q)' = burner(q)
  BY <1>1 DEF GatewaySorts, AtGateway, burner
<1>4. \A q \in Procs : pc'[q] \in AtGateway \cup {"connect"} =>
         gatewayLock'[burner(q)'] = q /\ burner(q)' \notin orphans'[q] \cup garbage'[q]
  BY <1>1, <1>2, <1>3 DEF GatewaySorts, GatewayHeld
<1>5. \A q \in Procs : pc'[q] = "connect" => burner(q)' \notin online'[q]
  BY <1>1, <1>3 DEF GatewaySorts, GatewayHeld
<1>6. \A q \in Procs : \A c \in online'[q] \cup orphans'[q] \cup garbage'[q] : gatewayLock'[c] = q
  BY <1>1, <1>2 DEF GatewaySorts, GatewayHeld
<1>7. \A q \in Procs : garbage'[q] \cap (online'[q] \cup orphans'[q]) = {}
  BY <1>1 DEF GatewaySorts, GatewayHeld
<1> QED
  BY <1>4, <1>5, <1>6, <1>7 DEF GatewayHeld

\* A process that leaves its gateway behind keeps the lock.
LEMMA LeavingKeeps ==
  ASSUME GatewayEnabled, GatewaySorts, GatewayHeld, NEW p \in Procs, pc[p] \in AtGateway,
         LeaveGateway(p), Goto(p, "over"), UNCHANGED <<gatewayLock, online, garbage, turn>>
  PROVE  GatewayHeld'
<1>1. /\ orphans' = [orphans EXCEPT ![p] = @ \cup {burner(p)}]
      /\ pc' = [pc EXCEPT ![p] = "over"]
  BY DEF LeaveGateway, Goto
<1>2. \A q \in Procs : pc'[q] \in AtGateway \cup {"connect"} => q # p /\ pc'[q] = pc[q]
  BY <1>1 DEF GatewaySorts, AtGateway
<1>3. \A q \in Procs : burner(q)' = burner(q)
  BY DEF burner
<1>4. gatewayLock[burner(p)] = p /\ burner(p) \notin garbage[p]
  BY DEF GatewayHeld
<1> QED
  BY <1>1, <1>2, <1>3, <1>4 DEF GatewayHeld, GatewaySorts

\* The end of a process frees its locks and ends its sessions.
LEMMA VanishingKeeps ==
  ASSUME GatewaySorts, GatewayHeld, NEW p \in Procs, Vanish(p), UNCHANGED turn
  PROVE  GatewayHeld'
<1>1. /\ pc' = [pc EXCEPT ![p] = "off"]
      /\ online' = [online EXCEPT ![p] = {}]
      /\ orphans' = [orphans EXCEPT ![p] = {}] /\ garbage' = [garbage EXCEPT ![p] = {}]
      /\ \A b \in Burners : gatewayLock[b] # p => gatewayLock'[b] = gatewayLock[b]
  BY DEF Vanish, Goto, GatewaySorts
<1>2. \A q \in Procs : pc'[q] \in AtGateway \cup {"connect"} => q # p /\ pc'[q] = pc[q]
  BY <1>1 DEF GatewaySorts, AtGateway
<1>3. \A q \in Procs : burner(q)' = burner(q) /\ burner(q) \in Burners
  BY DEF burner, GatewaySorts
<1> QED
  BY <1>1, <1>2, <1>3 DEF GatewayHeld, GatewaySorts

\* Every step keeps locks, sessions and leaks together.
LEMMA GatewayKept ==
  ASSUME GatewayEnabled, TypeOK, GatewayHeld, [Next]_vars
  PROVE  GatewayHeld'
<1>t. GatewaySorts
  BY BurnerType DEF TypeOK, GatewaySorts
<1>1. CASE UNCHANGED vars
  BY <1>1 DEF vars, locks, leaks, GatewayHeld, burner
<1>2. ASSUME NEW p \in Procs, Start(p) \/ Step(p) \/ Collect(p) \/ Drop(p) \/ Crash(p)
      PROVE  GatewayHeld'
  <2>1. CASE Start(p)
    BY <1>t, <2>1, ProcsAssumption DEF Start, Goto, locks, leaks, GatewayHeld, GatewaySorts, AtGateway, burner
  <2>2. CASE Wake(p)
    BY <1>t, <2>2, ProcsAssumption DEF Wake, Goto, locks, leaks, bounds, GatewayHeld, GatewaySorts, AtGateway, burner
  <2>3. CASE LoadToken(p)
    BY <1>t, <2>3, ProcsAssumption DEF LoadToken, Goto, Abandon, locks, leaks, GatewayHeld, GatewaySorts, AtGateway, burner
  <2>4. CASE TryGatewayLock(p)
    BY <1>t, <2>4, ProcsAssumption DEF TryGatewayLock, Goto, Abandon, leaks, GatewayHeld, GatewaySorts, AtGateway, burner
  <2>5. CASE OpenWebsocket(p)
    <3>1. /\ pc[p] = "connect" /\ UNCHANGED <<gatewayLock, turn, online, orphans>>
          /\ \A q \in Procs : burner(q)' = burner(q)
      BY <2>5 DEF OpenWebsocket, locks, burner
    <3>2. CASE Goto(p, "handshake") /\ UNCHANGED garbage
      BY <1>t, <3>1, <3>2 DEF Goto, GatewayHeld, GatewaySorts, AtGateway
    <3>3. CASE Goto(p, "over") /\ garbage' = [garbage EXCEPT ![p] = @ \cup {burner(p)}]
      <4>1. /\ gatewayLock[burner(p)] = p /\ burner(p) \notin orphans[p]
            /\ burner(p) \notin online[p]
        BY <3>1 DEF GatewayHeld
      <4>2. \A q \in Procs :
              pc'[q] \in AtGateway \cup {"connect"} => q # p /\ pc'[q] = pc[q]
        BY <1>t, <3>3 DEF Goto, GatewaySorts, AtGateway
      <4>3. \A q \in Procs : q # p => garbage'[q] = garbage[q]
        BY <1>t, <3>3 DEF GatewaySorts
      <4>4. garbage'[p] = garbage[p] \cup {burner(p)}
        BY <1>t, <3>3 DEF GatewaySorts
      <4> QED
        BY <3>1, <4>1, <4>2, <4>3, <4>4 DEF GatewayHeld
    <3> QED
      BY <2>5, <3>2, <3>3 DEF OpenWebsocket, Abandon
  <2>6. CASE Handshake(p)
    <3>1. pc[p] = "handshake" /\ UNCHANGED <<turn, leaks>>
      BY <2>6 DEF Handshake
    <3>2. CASE /\ Goto(p, "client") /\ UNCHANGED gatewayLock
               /\ online' = [online EXCEPT ![p] = @ \cup {burner(p)}]
      <4>1. gatewayLock[burner(p)] = p /\ burner(p) \notin garbage[p]
        BY <3>1 DEF GatewayHeld, AtGateway
      <4>2. \A q \in Procs : burner(q)' = burner(q)
        BY <3>1 DEF burner
      <4> QED
        BY <1>t, <3>1, <3>2, <4>1, <4>2 DEF Goto, leaks, GatewayHeld, GatewaySorts, AtGateway
    <3>3. CASE Goto(p, "over") /\ CloseSession(p)
      BY <1>t, <3>1, <3>3, ClosingKeeps DEF AtGateway
    <3> QED
      BY <2>6, <3>2, <3>3 DEF Handshake, Abandon
  <2>7. CASE MakeClient(p)
    <3>1. pc[p] = "client" /\ UNCHANGED <<gatewayLock, turn, online, garbage>>
      BY <2>7 DEF MakeClient, locks
    <3>2. CASE Goto(p, "cursor") /\ UNCHANGED orphans
      BY <1>t, <3>1, <3>2 DEF Goto, GatewayHeld, GatewaySorts, AtGateway, burner
    <3>3. CASE Goto(p, "over") /\ LeaveGateway(p)
      BY <1>t, <3>1, <3>3, LeavingKeeps DEF AtGateway
    <3> QED
      BY <2>7, <3>2, <3>3 DEF MakeClient, Abandon
  <2>8. CASE TryCursorLock(p)
    <3>1. pc[p] = "cursor" /\ UNCHANGED <<turn, garbage>>
      BY <2>8 DEF TryCursorLock
    <3>2. CASE Goto(p, "store") /\ UNCHANGED <<gatewayLock, online, orphans>>
      BY <1>t, <3>1, <3>2 DEF Goto, GatewayHeld, GatewaySorts, AtGateway, burner
    <3>3. CASE Goto(p, "over") /\ CloseSession(p) /\ UNCHANGED orphans
      BY <1>t, <3>1, <3>3, ClosingKeeps DEF AtGateway, leaks
    <3>4. CASE Goto(p, "over") /\ LeaveGateway(p) /\ UNCHANGED <<gatewayLock, online>>
      BY <1>t, <3>1, <3>4, LeavingKeeps DEF AtGateway
    <3> QED
      BY <2>8, <3>2, <3>3, <3>4 DEF TryCursorLock, Abandon, locks
  <2>9. CASE OpenStore(p)
    BY <1>t, <2>9, ProcsAssumption DEF OpenStore, Goto, locks, leaks, GatewayHeld, GatewaySorts, AtGateway, burner
  <2>10. CASE EndScan(p)
    BY <1>t, <2>10, ProcsAssumption DEF EndScan, Goto, locks, leaks, GatewayHeld, GatewaySorts, AtGateway, burner
  <2>11. CASE TruncateJar(p)
    BY <1>t, <2>11, ProcsAssumption DEF TruncateJar, Goto, locks, leaks, GatewayHeld, GatewaySorts, AtGateway, burner
  <2>12. CASE WriteJar(p)
    BY <1>t, <2>12, ProcsAssumption DEF WriteJar, Goto, locks, leaks, GatewayHeld, GatewaySorts, AtGateway, burner
  <2>13. CASE ReleaseCursor(p)
    BY <1>t, <2>13, ProcsAssumption DEF ReleaseCursor, Goto, leaks, GatewayHeld, GatewaySorts, AtGateway, burner
  <2>14. CASE CloseGateway(p)
    <3>1. /\ pc[p] = "close" /\ CloseSession(p) /\ UNCHANGED leaks
          /\ Goto(p, "token") \/ Goto(p, "over")
          /\ UNCHANGED turn \/ turn' = [turn EXCEPT ![p] = @ + 1]
      BY <2>14 DEF CloseGateway
    <3>2. \A q \in Procs : q # p => turn'[q] = turn[q]
      BY <1>t, <3>1 DEF GatewaySorts
    <3> QED
      BY <1>t, <3>1, <3>2, ClosingKeeps DEF AtGateway
  <2>15. CASE EndPass(p)
    <3>1. CASE Goto(p, "idle") /\ UNCHANGED <<locks, turn, online, leaks>>
      BY <1>t, <3>1 DEF Goto, locks, leaks, GatewayHeld, GatewaySorts, AtGateway, burner
    <3>2. CASE Vanish(p) /\ UNCHANGED turn
      BY <1>t, <3>2, VanishingKeeps
    <3> QED
      BY <2>15, <3>1, <3>2 DEF EndPass
  <2>16. CASE Collect(p)
    BY <1>t, <2>16, ProcsAssumption DEF Collect, GatewayHeld, GatewaySorts, AtGateway, burner
  <2>17. CASE Drop(p)
    BY <1>t, <2>17, ProcsAssumption DEF Drop, locks, leaks, GatewayHeld, GatewaySorts, AtGateway, burner
  <2>18. CASE Crash(p)
    BY <1>t, <2>18, VanishingKeeps DEF Crash
  <2> QED
    BY <1>2, <2>1, <2>2, <2>3, <2>4, <2>5, <2>6, <2>7, <2>8, <2>9, <2>10, <2>11, <2>12,
       <2>13, <2>14, <2>15, <2>16, <2>17, <2>18 DEF Step
<1>3. ASSUME NEW c \in Tools, ToolStep(c)
      PROVE  GatewayHeld'
  BY <1>3 DEF ToolStep, locks, leaks, GatewayHeld, burner
<1> QED
  BY <1>1, <1>2, <1>3 DEF Next

\* However accounts are shared among processes, and whatever they have leaked, an
\* account has at most one session at the gateway.
THEOREM OneSessionCorrect == GatewayEnabled => (Spec => []OneSessionPerBurner)
<1> SUFFICES ASSUME GatewayEnabled PROVE Spec => []OneSessionPerBurner
  OBVIOUS
<1>1. Init => GatewayHeld
  BY DEF Init, GatewayHeld, AtGateway
<1>2. TypeOK /\ GatewayHeld => OneSessionPerBurner
  BY DEF TypeOK, GatewayHeld, OneSessionPerBurner
<1> QED
  BY <1>1, <1>2, GatewayKept, TypeCorrect, PTL DEF Spec

--------------------------------------------------------------------------------
(* The cookie jar.                                                         *)

\* A jar that is being rewritten has a writer, a jar that is torn an explanation, and
\* so has a jar that another writer has filled before the pass that truncated it.
JarHeld ==
  /\ \A b \in Burners : jar[b] = "writing" =>
       \/ \E p \in Procs : pc[p] = "write" /\ burner(p) = b
       \/ b = Keyring /\ tools > 0
  /\ \A b \in Burners : jar[b] = "torn" => Explained(b)
  /\ \A p \in Procs : pc[p] = "write" =>
       jar[burner(p)] = "writing" \/ Explained(burner(p))
  /\ \A c \in Tools : tool[c] # "off" => tools > 0

\* The facts about types, and about the bounds of a step, that the steps below need.
JarSorts ==
  /\ GatewaySorts
  /\ jar \in [Burners -> {"absent", "whole", "writing", "torn"}]
  /\ tool \in [Tools -> {"off", "use", "write"}]
  /\ disk \in Nat /\ crashes \in Nat /\ tools \in Nat
  /\ disk' \in Nat /\ crashes' \in Nat /\ tools' \in Nat
  /\ disk <= disk' /\ crashes <= crashes' /\ tools <= tools'

\* Two processes at the gateway of one account are one.
LEMMA OneHolder ==
  ASSUME GatewayHeld, NEW p \in Procs, NEW q \in Procs, burner(p) = burner(q),
         pc[p] \in AtGateway, pc[q] \in AtGateway
  PROVE  p = q
BY DEF GatewayHeld

\* What explains a jar goes on explaining it.
LEMMA ExplainedStays ==
  ASSUME JarSorts, NEW b, Explained(b)
  PROVE  Explained(b)'
BY DEF Explained, JarSorts

\* Another process keeps its place when p goes to its next.
LEMMA Going ==
  ASSUME GatewaySorts, NEW p \in Procs, NEW there, Goto(p, there)
  PROVE  pc'[p] = there /\ \A q \in Procs \ {p} : pc'[q] = pc[q]
BY DEF Goto, GatewaySorts

\* A step of p to another place, with what it may do to the jar of its account b.
LEMMA JarMoves ==
  ASSUME JarHeld, JarSorts, NEW p \in Procs, NEW b \in Burners, b = burner(p),
         NEW there, Goto(p, there), UNCHANGED tool,
         \A q \in Procs \ {p} : turn'[q] = turn[q],
         \A c \in Burners \ {b} : jar'[c] = jar[c],
         there = "write" => turn'[p] = turn[p] /\ jar'[b] = "writing",
         pc[p] = "write" => jar'[b] # "writing",
         jar'[b] = "writing" => jar[b] = "writing" \/ there = "write",
         jar'[b] = "torn" => Explained(b)',
         \A q \in Procs \ {p} : pc[q] = "write" /\ burner(q) = b => jar'[b] = jar[b]
  PROVE  JarHeld'
<1>1. pc'[p] = there /\ \A q \in Procs \ {p} : pc'[q] = pc[q] /\ burner(q)' = burner(q)
  BY Going DEF JarSorts, burner
<1>2. \A q \in Procs : burner(q) \in Burners
  BY DEF JarSorts, GatewaySorts
<1>3. \A c \in Burners : Explained(c) => Explained(c)'
  BY ExplainedStays
<1>4. there = "write" => burner(p)' = b
  BY DEF burner
<1>5. ASSUME NEW c \in Burners, jar'[c] = "writing"
      PROVE  \/ \E q \in Procs : pc'[q] = "write" /\ burner(q)' = c
             \/ c = Keyring /\ tools' > 0
  <2>1. CASE there = "write" /\ c = b
    BY <1>1, <1>4, <2>1
  <2>2. CASE jar[c] = "writing"
    <3>1. CASE c = Keyring /\ tools > 0
      BY <3>1 DEF JarSorts
    <3>2. ASSUME NEW q \in Procs, pc[q] = "write", burner(q) = c
          PROVE  pc'[q] = "write" /\ burner(q)' = c
      BY <1>1, <1>5, <3>2
    <3> QED
      BY <2>2, <3>1, <3>2 DEF JarHeld
  <2> QED
    BY <1>5, <2>1, <2>2
<1>6. \A c \in Burners : jar'[c] = "torn" => Explained(c)'
  BY <1>3 DEF JarHeld
<1>7. ASSUME NEW q \in Procs, pc'[q] = "write"
      PROVE  jar'[burner(q)'] = "writing" \/ Explained(burner(q))'
  <2>1. CASE q = p
    BY <1>1, <1>4, <1>7, <2>1
  <2>2. CASE q # p
    <3>1. pc[q] = "write" /\ burner(q)' = burner(q)
      BY <1>1, <1>7, <2>2
    <3>2. jar'[burner(q)] = jar[burner(q)]
      BY <1>2, <2>2, <3>1
    <3> QED
      BY <1>2, <1>3, <3>1, <3>2 DEF JarHeld, Explained
  <2> QED
    BY <2>1, <2>2
<1>8. \A c \in Tools : tool'[c] # "off" => tools' > 0
  BY DEF JarHeld, JarSorts
<1> QED
  BY <1>5, <1>6, <1>7, <1>8 DEF JarHeld

\* A step that leaves the jars alone.
LEMMA JarStays ==
  ASSUME JarHeld, JarSorts, NEW p \in Procs, NEW there, Goto(p, there), pc[p] # "write",
         there # "write", \A q \in Procs \ {p} : turn'[q] = turn[q],
         UNCHANGED <<jar, tool>>
  PROVE  JarHeld'
<1>1. \A c \in Burners : jar[c] = "torn" => Explained(c)'
  BY ExplainedStays DEF JarHeld
<1>2. PICK b \in Burners : b = burner(p)
  BY DEF JarSorts, GatewaySorts
<1> QED
  BY <1>1, <1>2, JarMoves

\* A step that moves no process.
LEMMA JarSame ==
  ASSUME JarHeld, JarSorts, UNCHANGED <<jar, tool, pc, turn>>
  PROVE  JarHeld'
<1>1. \A q \in Procs : burner(q)' = burner(q) /\ burner(q) \in Burners
  BY DEF burner, JarSorts, GatewaySorts
<1>2. \A b \in Burners : Explained(b) => Explained(b)'
  BY ExplainedStays
<1>3. tools > 0 => tools' > 0
  BY DEF JarSorts
<1>4. \A q \in Procs : Explained(burner(q)) => Explained(burner(q))'
  BY <1>1, <1>2 DEF Explained
<1> QED
  BY <1>1, <1>2, <1>3, <1>4 DEF JarHeld

\* A pass stops rewriting its jar: with its text in it, or cut short for a reason.
LEMMA JarLeft ==
  ASSUME JarHeld, JarSorts, GatewayHeld, NEW p \in Procs, pc[p] = "write",
         NEW there \in {"release", "off"}, Goto(p, there), UNCHANGED <<tool, turn>>,
         \/ \E text \in Filled(burner(p)) : jar' = [jar EXCEPT ![burner(p)] = text]
         \/ /\ \E text \in Cut(burner(p)) : jar' = [jar EXCEPT ![burner(p)] = text]
            /\ Explained(burner(p))'
  PROVE  JarHeld'
<1>b. PICK b \in Burners : b = burner(p)
  BY DEF JarSorts, GatewaySorts
<1>1. \A q \in Procs \ {p} : pc[q] = "write" => burner(q) # b
  BY <1>b, OneHolder DEF AtGateway
<1>e. burner(p)' = burner(p) /\ (Explained(burner(p))' => Explained(b)')
  BY <1>b DEF burner, Explained
<1>2. PICK text \in Filled(b) \cup Cut(b) :
        jar' = [jar EXCEPT ![b] = text] /\ (text \in Filled(b) \/ Explained(b)')
  BY <1>b, <1>e
<1>3. jar'[b] = text /\ \A c \in Burners \ {b} : jar'[c] = jar[c]
  BY <1>2 DEF JarSorts
<1>4. text # "writing"
  BY <1>2 DEF Filled, Cut
<1>5. text = "torn" => Explained(b)'
  <2>1. CASE jar[b] = "writing" /\ text \in Filled(b)
    BY <2>1 DEF Filled
  <2>2. CASE jar[b] # "writing"
    <3>1. Explained(b)
      BY <1>b, <2>2 DEF JarHeld
    <3> QED
      BY <3>1, ExplainedStays
  <2> QED
    BY <1>2, <2>1, <2>2
<1> QED
  BY <1>b, <1>1, <1>3, <1>4, <1>5, JarMoves

\* What a command without a lock does to the jar of the keyring.
LEMMA JarOfTool ==
  ASSUME JarHeld, JarSorts, tools' > 0, UNCHANGED <<pc, turn>>,
         \A b \in Burners \ {Keyring} : jar'[b] = jar[b]
  PROVE  JarHeld'
<1>1. \A q \in Procs : burner(q)' = burner(q) /\ burner(q) \in Burners
  BY DEF burner, JarSorts, GatewaySorts
<1>2. /\ \A b \in Burners : Explained(b) => Explained(b)'
      /\ Explained(Keyring)'
  BY ExplainedStays DEF Explained
<1>3. \A b \in Burners : jar'[b] = "writing" =>
         \/ \E q \in Procs : pc'[q] = "write" /\ burner(q)' = b
         \/ b = Keyring /\ tools' > 0
  BY <1>1 DEF JarHeld
<1>4. \A b \in Burners : jar'[b] = "torn" => Explained(b)'
  BY <1>2 DEF JarHeld
<1>6. \A c \in Tools : tool'[c] # "off" => tools' > 0
  OBVIOUS
<1>5. \A q \in Procs : pc'[q] = "write" =>
         jar'[burner(q)'] = "writing" \/ Explained(burner(q))'
  BY <1>1, <1>2 DEF JarHeld, Explained
<1> QED
  BY <1>3, <1>4, <1>5, <1>6 DEF JarHeld

\* Nothing takes back a failed disk, a death or the start of a command.
LEMMA BoundsGrow ==
  ASSUME disk \in Nat, crashes \in Nat, tools \in Nat, [Next]_vars
  PROVE  disk <= disk' /\ crashes <= crashes' /\ tools <= tools'
<1>1. CASE UNCHANGED vars
  BY <1>1 DEF vars, bounds
<1>2. ASSUME NEW p \in Procs, Start(p) \/ Step(p) \/ Collect(p) \/ Drop(p) \/ Crash(p)
      PROVE  disk <= disk' /\ crashes <= crashes' /\ tools <= tools'
  <2>1. \/ UNCHANGED bounds \/ NetworkFails \/ DiskFails
        \/ UNCHANGED <<disk, tools>> /\ (crashes' = crashes + 1 \/ UNCHANGED crashes)
    BY <1>2
    DEF Start, Step, Wake, LoadToken, TryGatewayLock, OpenWebsocket, Handshake,
        MakeClient, TryCursorLock, OpenStore, EndScan, TruncateJar, WriteJar,
        ReleaseCursor, CloseGateway, EndPass, Collect, Drop, Crash
  <2> QED
    BY <2>1 DEF bounds, NetworkFails, DiskFails
<1>3. ASSUME NEW c \in Tools, ToolStep(c)
      PROVE  disk <= disk' /\ crashes <= crashes' /\ tools <= tools'
  BY <1>3
  DEF ToolStep, StartTool, TruncateByTool, WriteByTool, CrashTool, DiskFails, bounds
<1> QED
  BY <1>1, <1>2, <1>3 DEF Next

\* Every step leaves each jar whole, or with an explanation.
LEMMA JarKept ==
  ASSUME GatewayEnabled, TypeOK, TypeOK', GatewayHeld, JarHeld, [Next]_vars
  PROVE  JarHeld'
<1>t. JarSorts
  <2>1. GatewaySorts
    BY BurnerType DEF TypeOK, GatewaySorts
  <2>2. /\ disk \in Nat /\ crashes \in Nat /\ tools \in Nat
        /\ disk' \in Nat /\ crashes' \in Nat /\ tools' \in Nat
    BY SessionAssumption DEF TypeOK
  <2>3. disk <= disk' /\ crashes <= crashes' /\ tools <= tools'
    BY <2>2, BoundsGrow
  <2> QED
    BY <2>1, <2>2, <2>3 DEF TypeOK, JarSorts
<1>1. CASE UNCHANGED vars
  BY <1>1, <1>t, JarSame DEF vars, jars
<1>2. ASSUME NEW p \in Procs, Start(p) \/ Step(p) \/ Collect(p) \/ Drop(p) \/ Crash(p)
      PROVE  JarHeld'
  <2>1. CASE Start(p)
    <3>1. pc[p] = "off" /\ Goto(p, "token") /\ UNCHANGED <<jar, tool>>
      BY <2>1 DEF Start, jars
    <3>2. \A q \in Procs \ {p} : turn'[q] = turn[q]
      BY <1>t, <2>1 DEF Start, JarSorts, GatewaySorts
    <3> QED
      BY <1>t, <2>1, <3>1, <3>2, JarStays
  <2>2. CASE Wake(p)
    <3>1. pc[p] = "idle" /\ Goto(p, "token") /\ UNCHANGED <<jar, tool>>
      BY <2>2 DEF Wake, jars
    <3>2. \A q \in Procs \ {p} : turn'[q] = turn[q]
      BY <1>t, <2>2 DEF Wake, JarSorts, GatewaySorts
    <3> QED
      BY <1>t, <2>2, <3>1, <3>2, JarStays
  <2>3. CASE LoadToken(p)
    <3>1. pc[p] = "token" /\ UNCHANGED <<jar, tool, turn>>
      BY <2>3 DEF LoadToken, jars
    <3>2. PICK there \in {"lock", "client", "over"} : Goto(p, there)
      BY <2>3 DEF LoadToken, Abandon
    <3> QED
      BY <1>t, <2>3, <3>1, <3>2, JarStays
  <2>4. CASE TryGatewayLock(p)
    <3>1. pc[p] = "lock" /\ UNCHANGED <<jar, tool, turn>>
      BY <2>4 DEF TryGatewayLock, jars
    <3>2. PICK there \in {"connect", "over"} : Goto(p, there)
      BY <2>4 DEF TryGatewayLock, Abandon
    <3> QED
      BY <1>t, <2>4, <3>1, <3>2, JarStays
  <2>5. CASE OpenWebsocket(p)
    <3>1. pc[p] = "connect" /\ UNCHANGED <<jar, tool, turn>>
      BY <2>5 DEF OpenWebsocket, jars
    <3>2. PICK there \in {"handshake", "over"} : Goto(p, there)
      BY <2>5 DEF OpenWebsocket, Abandon
    <3> QED
      BY <1>t, <2>5, <3>1, <3>2, JarStays
  <2>6. CASE Handshake(p)
    <3>1. pc[p] = "handshake" /\ UNCHANGED <<jar, tool, turn>>
      BY <2>6 DEF Handshake, jars
    <3>2. PICK there \in {"client", "over"} : Goto(p, there)
      BY <2>6 DEF Handshake, Abandon
    <3> QED
      BY <1>t, <2>6, <3>1, <3>2, JarStays
  <2>7. CASE MakeClient(p)
    <3>1. pc[p] = "client" /\ UNCHANGED <<jar, tool, turn>>
      BY <2>7 DEF MakeClient, jars
    <3>2. PICK there \in {"cursor", "over"} : Goto(p, there)
      BY <2>7 DEF MakeClient, Abandon
    <3> QED
      BY <1>t, <2>7, <3>1, <3>2, JarStays
  <2>8. CASE TryCursorLock(p)
    <3>1. pc[p] = "cursor" /\ UNCHANGED <<jar, tool, turn>>
      BY <2>8 DEF TryCursorLock, jars
    <3>2. PICK there \in {"store", "over"} : Goto(p, there)
      BY <2>8 DEF TryCursorLock, Abandon
    <3> QED
      BY <1>t, <2>8, <3>1, <3>2, JarStays
  <2>9. CASE OpenStore(p)
    <3>1. pc[p] = "store" /\ UNCHANGED <<jar, tool, turn>>
      BY <2>9 DEF OpenStore, jars
    <3>2. PICK there \in {"scan", "persist"} : Goto(p, there)
      BY <2>9 DEF OpenStore, Abandon
    <3> QED
      BY <1>t, <2>9, <3>1, <3>2, JarStays
  <2>10. CASE EndScan(p)
    <3>1. pc[p] = "scan" /\ UNCHANGED <<jar, tool, turn>>
      BY <2>10 DEF EndScan, jars
    <3>2. PICK there \in {"persist"} : Goto(p, there)
      BY <2>10 DEF EndScan, Abandon
    <3> QED
      BY <1>t, <2>10, <3>1, <3>2, JarStays
  <2>11. CASE TruncateJar(p)
    <3>1. /\ pc[p] = "persist" /\ Goto(p, "write") /\ UNCHANGED <<tool, turn>>
          /\ jar' = [jar EXCEPT ![burner(p)] = "writing"]
      BY <2>11 DEF TruncateJar
    <3>b. PICK b \in Burners : b = burner(p)
      BY <1>t DEF JarSorts, GatewaySorts
    <3>2. jar'[b] = "writing" /\ \A c \in Burners \ {b} : jar'[c] = jar[c]
      BY <1>t, <3>b, <3>1 DEF JarSorts
    <3>3. \A q \in Procs \ {p} : pc[q] = "write" => burner(q) # b
      BY <3>b, <3>1, OneHolder DEF AtGateway
    <3> QED
      BY <1>t, <3>b, <3>1, <3>2, <3>3, JarMoves
  <2>12. CASE WriteJar(p)
    <3>1. pc[p] = "write" /\ Goto(p, "release") /\ UNCHANGED <<tool, turn>>
      BY <2>12 DEF WriteJar
    <3>2. \/ \E text \in Filled(burner(p)) : jar' = [jar EXCEPT ![burner(p)] = text]
          \/ /\ \E text \in Cut(burner(p)) : jar' = [jar EXCEPT ![burner(p)] = text]
             /\ Explained(burner(p))'
      BY <1>t, <2>12 DEF WriteJar, DiskFails, Explained, JarSorts
    <3> QED
      BY <1>t, <2>12, <3>1, <3>2, JarLeft
  <2>13. CASE ReleaseCursor(p)
    <3>1. pc[p] = "release" /\ UNCHANGED <<jar, tool, turn>>
      BY <2>13 DEF ReleaseCursor, jars
    <3>2. PICK there \in {"close"} : Goto(p, there)
      BY <2>13 DEF ReleaseCursor, Abandon
    <3> QED
      BY <1>t, <2>13, <3>1, <3>2, JarStays
  <2>14. CASE CloseGateway(p)
    <3>1. pc[p] = "close" /\ UNCHANGED <<jar, tool>>
      BY <2>14 DEF CloseGateway, jars
    <3>2. PICK there \in {"token", "over"} : Goto(p, there)
      BY <2>14 DEF CloseGateway
    <3>3. \A q \in Procs \ {p} : turn'[q] = turn[q]
      BY <1>t, <2>14 DEF CloseGateway, JarSorts, GatewaySorts
    <3> QED
      BY <1>t, <2>14, <3>1, <3>2, <3>3, JarStays
  <2>15. CASE EndPass(p)
    <3>1. pc[p] = "over" /\ UNCHANGED <<jar, tool, turn>>
      BY <2>15 DEF EndPass, jars
    <3>2. PICK there \in {"idle", "off"} : Goto(p, there)
      BY <2>15 DEF EndPass, Abandon, Vanish
    <3> QED
      BY <1>t, <2>15, <3>1, <3>2, JarStays
  <2>16. CASE Collect(p)
    <3>1. UNCHANGED <<jar, tool, pc, turn>>
      BY <2>16 DEF Collect, jars
    <3> QED
      BY <1>t, <2>16, <3>1, JarSame
  <2>17. CASE Drop(p)
    <3>1. UNCHANGED <<jar, tool, pc, turn>>
      BY <2>17 DEF Drop, jars
    <3> QED
      BY <1>t, <2>17, <3>1, JarSame
  <2>18. CASE Crash(p)
    <3>1. Goto(p, "off") /\ UNCHANGED <<tool, turn>> /\ Explained(burner(p))'
      BY <1>t, <2>18 DEF Crash, Vanish, Explained, JarSorts
    <3>2. CASE pc[p] # "write"
      BY <1>t, <2>18, <3>1, <3>2, JarStays DEF Crash
    <3>3. CASE pc[p] = "write"
      BY <1>t, <2>18, <3>1, <3>3, JarLeft DEF Crash
    <3> QED
      BY <3>2, <3>3
  <2> QED
    BY <1>2, <2>1, <2>2, <2>3, <2>4, <2>5, <2>6, <2>7, <2>8, <2>9, <2>10, <2>11, <2>12,
       <2>13, <2>14, <2>15, <2>16, <2>17, <2>18 DEF Step
<1>3. ASSUME NEW c \in Tools, ToolStep(c)
      PROVE  JarHeld'
  <2>1. UNCHANGED <<pc, turn>>
    BY <1>3 DEF ToolStep
  <2>2. tools' > 0
    <3>1. tools > 0 \/ tools' = tools + 1
      BY <1>3 DEF ToolStep, StartTool, TruncateByTool, WriteByTool, CrashTool, JarHeld
    <3> QED
      BY <1>t, <3>1 DEF JarSorts
  <2>3. \A b \in Burners \ {Keyring} : jar'[b] = jar[b]
    BY <1>3, <1>t
    DEF ToolStep, StartTool, TruncateByTool, WriteByTool, CrashTool, JarSorts
  <2> QED
    BY <1>t, <2>1, <2>2, <2>3, JarOfTool
<1> QED
  BY <1>1, <1>2, <1>3 DEF Next

\* With the gateway enabled no pass reads a jar that another pass is rewriting, and what
\* a pass cannot read of its jar is left by a failed disk, a death, or, for the account of
\* the keyring only, a command that takes no lock.
THEOREM JarReadCorrect == GatewayEnabled => (Spec => []JarReadWhole)
<1> SUFFICES ASSUME GatewayEnabled PROVE Spec => []JarReadWhole
  OBVIOUS
<1>1. Init => GatewayHeld /\ JarHeld
  BY DEF Init, GatewayHeld, JarHeld, AtGateway
<1>2. ASSUME TypeOK, GatewayHeld, JarHeld, NEW p \in Procs, pc[p] = "client"
      PROVE  /\ \A q \in Procs : pc[q] = "write" => burner(q) # burner(p)
             /\ jar[burner(p)] \in {"writing", "torn"} => Explained(burner(p))
  <2>1. \A q \in Procs : pc[q] = "write" => burner(q) # burner(p)
    BY <1>2, OneHolder DEF AtGateway
  <2>2. burner(p) \in Burners
    BY <1>2, BurnerType
  <2> QED
    BY <1>2, <2>1, <2>2 DEF JarHeld, Explained
<1>3. TypeOK /\ GatewayHeld /\ JarHeld => JarReadWhole
  BY <1>2 DEF JarReadWhole
<1> QED
  BY <1>1, <1>3, GatewayKept, JarKept, TypeCorrect, PTL DEF Spec

--------------------------------------------------------------------------------
(* No lock is left behind.                                                 *)

\* Who holds a lock of an account serves it, or has leaked it.
Owns(p, b) ==
  \/ pc[p] \in AtGateway \cup {"connect"} /\ burner(p) = b
  \/ b \in orphans[p] \cup garbage[p]

LocksOwned ==
  /\ \A p \in Procs : cursorLock = p => pc[p] \in AtCursor
  /\ \A p \in Procs, b \in Burners : gatewayLock[b] = p => Owns(p, b)

\* A step of p concerns the locks of p only: each is given up or has its reason after it.
LEMMA OwnersStay ==
  ASSUME LocksOwned, NEW p \in Procs,
         \A q \in Procs \ {p} : /\ pc'[q] = pc[q] /\ turn'[q] = turn[q]
                                /\ orphans'[q] = orphans[q] /\ garbage'[q] = garbage[q],
         \A q \in Procs \ {p} : cursorLock' = q => cursorLock = q,
         \A q \in Procs \ {p}, b \in Burners : gatewayLock'[b] = q => gatewayLock[b] = q,
         cursorLock' = p => pc'[p] \in AtCursor,
         \A b \in Burners : gatewayLock'[b] = p => Owns(p, b)'
  PROVE  LocksOwned'
<1>1. \A q \in Procs \ {p}, b \in Burners : Owns(q, b) => Owns(q, b)'
  BY DEF Owns, burner
<1>2. \A q \in Procs : cursorLock' = q => pc'[q] \in AtCursor
  BY DEF LocksOwned
<1>3. \A q \in Procs, b \in Burners : gatewayLock'[b] = q => Owns(q, b)'
  BY <1>1 DEF LocksOwned
<1> QED
  BY <1>2, <1>3 DEF LocksOwned

\* A step from place to place with the locks as they are.
LEMMA MovingOwns ==
  ASSUME LocksOwned, GatewaySorts, NEW p \in Procs, NEW there, Goto(p, there),
         pc[p] \in AtCursor => there \in AtCursor,
         pc[p] \in AtGateway \cup {"connect"} =>
           there \in AtGateway \cup {"connect"} /\ turn'[p] = turn[p],
         \A q \in Procs \ {p} : turn'[q] = turn[q],
         UNCHANGED <<locks, leaks>>
  PROVE  LocksOwned'
<1>1. pc'[p] = there /\ \A q \in Procs \ {p} : pc'[q] = pc[q]
  BY Going
<1>2. \A b \in Burners : Owns(p, b) => Owns(p, b)'
  BY <1>1 DEF Owns, burner, leaks
<1>3. /\ cursorLock = p => pc[p] \in AtCursor
      /\ \A b \in Burners : gatewayLock[b] = p => Owns(p, b)
  BY DEF LocksOwned
<1> QED
  BY <1>1, <1>2, <1>3, OwnersStay DEF locks, leaks

\* The session is closed, and the pass goes on or is over.
LEMMA ClosingOwns ==
  ASSUME GatewayEnabled, LocksOwned, GatewaySorts, NEW p \in Procs, pc[p] \notin AtCursor,
         CloseSession(p), UNCHANGED <<cursorLock, leaks>>, NEW there, Goto(p, there),
         \A q \in Procs \ {p} : turn'[q] = turn[q]
  PROVE  LocksOwned'
<1>1. pc'[p] = there /\ \A q \in Procs \ {p} : pc'[q] = pc[q]
  BY Going
<1>2. gatewayLock' = [gatewayLock EXCEPT ![burner(p)] = Free]
  BY DEF CloseSession
<1>3. \A q \in Procs, b \in Burners : gatewayLock'[b] = q => b # burner(p) /\ gatewayLock[b] = q
  BY <1>2, ProcsAssumption DEF GatewaySorts
<1>4. \A b \in Burners : gatewayLock'[b] = p => b \in orphans[p] \cup garbage[p]
  BY <1>3 DEF LocksOwned, Owns
<1>5. cursorLock' # p
  BY DEF LocksOwned
<1>6. \A b \in Burners : gatewayLock'[b] = p => Owns(p, b)'
  BY <1>4 DEF Owns, leaks
<1> QED
  BY <1>1, <1>3, <1>5, <1>6, OwnersStay DEF leaks

\* The gateway is left behind with its lock, and the pass is over.
LEMMA LeavingOwns ==
  ASSUME LocksOwned, GatewaySorts, NEW p \in Procs, pc[p] \notin AtCursor,
         Goto(p, "over"), UNCHANGED <<locks, turn>>,
         \/ /\ orphans' = [orphans EXCEPT ![p] = @ \cup {burner(p)}]
            /\ garbage' = garbage
         \/ /\ garbage' = [garbage EXCEPT ![p] = @ \cup {burner(p)}]
            /\ orphans' = orphans
  PROVE  LocksOwned'
<1>1. pc'[p] = "over" /\ \A q \in Procs \ {p} : pc'[q] = pc[q]
  BY Going
<1>2. /\ \A q \in Procs \ {p} : orphans'[q] = orphans[q] /\ garbage'[q] = garbage[q]
      /\ orphans[p] \cup garbage[p] \cup {burner(p)} \subseteq orphans'[p] \cup garbage'[p]
  BY DEF GatewaySorts
<1>3. \A b \in Burners : gatewayLock[b] = p => Owns(p, b)'
  BY <1>2 DEF LocksOwned, Owns
<1>4. cursorLock # p
  BY DEF LocksOwned
<1> QED
  BY <1>1, <1>2, <1>3, <1>4, OwnersStay DEF locks

\* The system takes back what a process held that is gone.
LEMMA VanishingOwns ==
  ASSUME LocksOwned, GatewaySorts, NEW p \in Procs, Vanish(p), UNCHANGED turn
  PROVE  LocksOwned'
<1>1. \A q \in Procs \ {p} : pc'[q] = pc[q]
  BY Going DEF Vanish
<1>2. \A q \in Procs \ {p} : orphans'[q] = orphans[q] /\ garbage'[q] = garbage[q]
  BY DEF Vanish, GatewaySorts
<1>3. \A b \in Burners : gatewayLock'[b] # p
  BY ProcsAssumption DEF Vanish
<1>4. \A q \in Procs, b \in Burners : gatewayLock'[b] = q => gatewayLock[b] = q
  BY ProcsAssumption DEF Vanish
<1>5. cursorLock' # p /\ \A q \in Procs : cursorLock' = q => cursorLock = q
  BY ProcsAssumption DEF Vanish
<1> QED
  BY <1>1, <1>2, <1>3, <1>4, <1>5, OwnersStay

\* Every step gives up a lock, or has a reason to hold it.
LEMMA OwnersKept ==
  ASSUME GatewayEnabled, TypeOK, LocksOwned, [Next]_vars
  PROVE  LocksOwned'
<1>t. GatewaySorts
  BY BurnerType DEF TypeOK, GatewaySorts
<1>1. CASE UNCHANGED vars
  BY <1>1 DEF vars, locks, leaks, LocksOwned, Owns, burner
<1>2. ASSUME NEW p \in Procs, Start(p) \/ Step(p) \/ Collect(p) \/ Drop(p) \/ Crash(p)
      PROVE  LocksOwned'
  <2> USE <1>t DEF AtCursor, AtGateway
  <2>1. CASE Start(p)
    BY <2>1, MovingOwns DEF Start, GatewaySorts
  <2>2. CASE Wake(p)
    BY <2>2, MovingOwns DEF Wake, GatewaySorts
  <2>3. CASE LoadToken(p)
    BY <2>3, MovingOwns DEF LoadToken, Abandon
  <2>4. CASE TryGatewayLock(p)
    <3>1. pc[p] = "lock" /\ UNCHANGED <<cursorLock, turn, leaks>>
      BY <2>4 DEF TryGatewayLock
    <3>2. CASE Goto(p, "over") /\ UNCHANGED gatewayLock
      BY <3>1, <3>2, MovingOwns DEF locks
    <3>3. CASE /\ Goto(p, "connect")
               /\ gatewayLock' = [gatewayLock EXCEPT ![burner(p)] = p]
      <4>1. pc'[p] = "connect" /\ \A q \in Procs \ {p} : pc'[q] = pc[q]
        BY <3>3, Going
      <4>2. \A b \in Burners : gatewayLock'[b] = p => b = burner(p) \/ gatewayLock[b] = p
        BY <3>3 DEF GatewaySorts
      <4>3. \A b \in Burners : gatewayLock'[b] = p => Owns(p, b)'
        BY <3>1, <4>1, <4>2 DEF LocksOwned, Owns, burner, leaks
      <4>4. \A q \in Procs \ {p}, b \in Burners : gatewayLock'[b] = q => gatewayLock[b] = q
        BY <3>3 DEF GatewaySorts
      <4>5. cursorLock # p
        BY <3>1 DEF LocksOwned
      <4> QED
        BY <3>1, <4>1, <4>3, <4>4, <4>5, OwnersStay DEF leaks
    <3> QED
      BY <2>4, <3>2, <3>3 DEF TryGatewayLock, Abandon
  <2>5. CASE OpenWebsocket(p)
    <3>1. pc[p] = "connect" /\ UNCHANGED <<locks, turn, orphans>>
      BY <2>5 DEF OpenWebsocket
    <3>2. CASE Goto(p, "handshake") /\ UNCHANGED garbage
      BY <3>1, <3>2, MovingOwns DEF leaks
    <3>3. CASE Goto(p, "over") /\ garbage' = [garbage EXCEPT ![p] = @ \cup {burner(p)}]
      BY <3>1, <3>3, LeavingOwns
    <3> QED
      BY <2>5, <3>2, <3>3 DEF OpenWebsocket, Abandon
  <2>6. CASE Handshake(p)
    <3>1. pc[p] = "handshake" /\ UNCHANGED <<cursorLock, turn, leaks>>
      BY <2>6 DEF Handshake
    <3>2. CASE Goto(p, "client") /\ UNCHANGED gatewayLock
      BY <3>1, <3>2, MovingOwns DEF locks
    <3>3. CASE Goto(p, "over") /\ CloseSession(p)
      BY <3>1, <3>3, ClosingOwns
    <3> QED
      BY <2>6, <3>2, <3>3 DEF Handshake, Abandon
  <2>7. CASE MakeClient(p)
    <3>1. pc[p] = "client" /\ UNCHANGED <<locks, turn, garbage>>
      BY <2>7 DEF MakeClient
    <3>2. CASE Goto(p, "cursor") /\ UNCHANGED orphans
      BY <3>1, <3>2, MovingOwns DEF leaks
    <3>3. CASE Goto(p, "over") /\ LeaveGateway(p)
      BY <3>1, <3>3, LeavingOwns DEF LeaveGateway
    <3> QED
      BY <2>7, <3>2, <3>3 DEF MakeClient, Abandon
  <2>8. CASE TryCursorLock(p)
    <3>1. pc[p] = "cursor" /\ UNCHANGED <<turn, garbage>>
      BY <2>8 DEF TryCursorLock
    <3>2. CASE cursorLock' = p /\ Goto(p, "store") /\ UNCHANGED <<gatewayLock, orphans>>
      <4>1. pc'[p] = "store" /\ \A q \in Procs \ {p} : pc'[q] = pc[q]
        BY <3>2, Going
      <4>2. \A b \in Burners : gatewayLock[b] = p => Owns(p, b)'
        BY <3>1, <3>2, <4>1 DEF LocksOwned, Owns, burner
      <4> QED
        BY <3>1, <3>2, <4>1, <4>2, OwnersStay
    <3>3. CASE Goto(p, "over") /\ CloseSession(p) /\ UNCHANGED <<cursorLock, orphans>>
      BY <3>1, <3>3, ClosingOwns DEF leaks
    <3>4. CASE Goto(p, "over") /\ LeaveGateway(p) /\ UNCHANGED locks
      BY <3>1, <3>4, LeavingOwns DEF LeaveGateway
    <3> QED
      BY <2>8, <3>2, <3>3, <3>4 DEF TryCursorLock, Abandon
  <2>9. CASE OpenStore(p)
    BY <2>9, MovingOwns DEF OpenStore
  <2>10. CASE EndScan(p)
    BY <2>10, MovingOwns DEF EndScan
  <2>11. CASE TruncateJar(p)
    BY <2>11, MovingOwns DEF TruncateJar
  <2>12. CASE WriteJar(p)
    BY <2>12, MovingOwns DEF WriteJar
  <2>13. CASE ReleaseCursor(p)
    <3>1. /\ pc[p] = "release" /\ cursorLock' = Free /\ Goto(p, "close")
          /\ UNCHANGED <<gatewayLock, turn, leaks>>
      BY <2>13 DEF ReleaseCursor
    <3>2. pc'[p] = "close" /\ \A q \in Procs \ {p} : pc'[q] = pc[q]
      BY <3>1, Going
    <3>3. \A b \in Burners : gatewayLock[b] = p => Owns(p, b)'
      BY <3>1, <3>2 DEF LocksOwned, Owns, burner, leaks
    <3> QED
      BY <3>1, <3>2, <3>3, OwnersStay, ProcsAssumption DEF leaks
  <2>14. CASE CloseGateway(p)
    <3>1. /\ pc[p] = "close" /\ CloseSession(p) /\ UNCHANGED <<cursorLock, leaks>>
          /\ Goto(p, "token") \/ Goto(p, "over")
          /\ UNCHANGED turn \/ turn' = [turn EXCEPT ![p] = @ + 1]
      BY <2>14 DEF CloseGateway
    <3>2. \A q \in Procs \ {p} : turn'[q] = turn[q]
      BY <3>1 DEF GatewaySorts
    <3> QED
      BY <3>1, <3>2, ClosingOwns
  <2>15. CASE EndPass(p)
    <3>1. pc[p] = "over" /\ UNCHANGED turn
      BY <2>15 DEF EndPass
    <3>2. CASE Goto(p, "idle") /\ UNCHANGED <<locks, leaks>>
      BY <3>1, <3>2, MovingOwns
    <3>3. CASE Vanish(p)
      BY <3>1, <3>3, VanishingOwns
    <3> QED
      BY <2>15, <3>2, <3>3 DEF EndPass
  <2>16. CASE Collect(p)
    <3>1. UNCHANGED <<cursorLock, pc, turn, orphans>>
      BY <2>16 DEF Collect
    <3>2. PICK b \in garbage[p] : /\ garbage' = [garbage EXCEPT ![p] = @ \ {b}]
                                  /\ gatewayLock' = [gatewayLock EXCEPT ![b] = Free]
      BY <2>16 DEF Collect
    <3>3. /\ garbage'[p] = garbage[p] \ {b}
          /\ \A q \in Procs \ {p} : garbage'[q] = garbage[q]
      BY <3>2 DEF GatewaySorts
    <3>4. \A q \in Procs, c \in Burners : gatewayLock'[c] = q => gatewayLock[c] = q /\ c # b
      BY <3>2, ProcsAssumption DEF GatewaySorts
    <3>5. \A c \in Burners : gatewayLock'[c] = p => Owns(p, c)'
      BY <3>1, <3>3, <3>4 DEF LocksOwned, Owns, burner
    <3>6. cursorLock = p => pc[p] \in AtCursor
      BY DEF LocksOwned
    <3> QED
      BY <3>1, <3>3, <3>4, <3>5, <3>6, OwnersStay
  <2>17. CASE Drop(p)
    BY <2>17 DEF Drop, locks, leaks, LocksOwned, Owns, burner
  <2>18. CASE Crash(p)
    BY <2>18, VanishingOwns DEF Crash
  <2> QED
    BY <1>2, <2>1, <2>2, <2>3, <2>4, <2>5, <2>6, <2>7, <2>8, <2>9, <2>10, <2>11, <2>12,
       <2>13, <2>14, <2>15, <2>16, <2>17, <2>18 DEF Step
<1>3. ASSUME NEW c \in Tools, ToolStep(c)
      PROVE  LocksOwned'
  BY <1>3 DEF ToolStep, locks, leaks, LocksOwned, Owns, burner
<1> QED
  BY <1>1, <1>2, <1>3 DEF Next

--------------------------------------------------------------------------------
(* Why a lock may not come back.                                           *)

\* A gateway is left to its heartbeat only where a disk failed or a jar was unreadable.
OrphansExplained == (\E p \in Procs : orphans[p] # {}) => ~ Intact

\* Nothing makes a failed disk, or a jar that could not be read, undone.
LEMMA IntactFalls ==
  ASSUME disk \in Nat, unreadable \in BOOLEAN, orphans \in [Procs -> SUBSET Burners], [Next]_vars
  PROVE  /\ Intact' => Intact
         /\ Intact' => \A p \in Procs : orphans'[p] \subseteq orphans[p]
<1>1. CASE UNCHANGED vars
  BY <1>1 DEF vars, bounds, jars, leaks, Intact
<1>2. ASSUME NEW p \in Procs, Start(p) \/ Step(p) \/ Collect(p) \/ Drop(p) \/ Crash(p), Intact'
      PROVE  Intact /\ \A q \in Procs : orphans'[q] \subseteq orphans[q]
  <2> USE <1>2
  <2>1. ASSUME UNCHANGED <<disk, unreadable>>, \A q \in Procs : orphans'[q] \subseteq orphans[q]
        PROVE  Intact /\ \A q \in Procs : orphans'[q] \subseteq orphans[q]
    BY <2>1 DEF Intact
  <2>2. ~ DiskFails
    BY DEF DiskFails, Intact
  <2>3. NetworkFails => UNCHANGED disk
    BY DEF NetworkFails
  <2>4. CASE MakeClient(p)
    <3>1. UNCHANGED <<disk, unreadable, orphans>>
      BY <2>2, <2>4, Zenon DEF MakeClient, Intact, bounds
    <3> QED
      BY <2>1, <3>1
  <2>5. CASE TryCursorLock(p)
    <3>1. UNCHANGED <<disk, unreadable, orphans>>
      BY <2>2, <2>5, Zenon DEF TryCursorLock, jars, bounds
    <3> QED
      BY <2>1, <3>1
  <2>6. CASE OpenWebsocket(p) \/ Handshake(p) \/ Drop(p)
    <3>1. UNCHANGED <<disk, unreadable, orphans>>
      BY <2>3, <2>6, Zenon DEF OpenWebsocket, Handshake, Drop, jars, leaks, bounds
    <3> QED
      BY <2>1, <3>1
  <2>7. CASE LoadToken(p) \/ OpenStore(p) \/ WriteJar(p)
    <3>1. UNCHANGED <<disk, unreadable, orphans>>
      BY <2>2, <2>7, Zenon DEF LoadToken, OpenStore, WriteJar, jars, leaks, bounds
    <3> QED
      BY <2>1, <3>1
  <2>8. CASE EndPass(p) \/ Crash(p)
    <3>1. UNCHANGED <<disk, unreadable>>
      BY <2>8, Zenon DEF EndPass, Crash, jars, bounds
    <3>2. orphans' = orphans \/ orphans' = [orphans EXCEPT ![p] = {}]
      BY <2>8, Zenon DEF EndPass, Crash, Vanish, leaks
    <3>3. \A q \in Procs : orphans'[q] \subseteq orphans[q]
      BY <3>2
    <3> QED
      BY <2>1, <3>1, <3>3
  <2>9. CASE \/ Start(p) \/ Wake(p) \/ TryGatewayLock(p) \/ EndScan(p) \/ TruncateJar(p)
             \/ ReleaseCursor(p) \/ CloseGateway(p) \/ Collect(p)
    <3>1. UNCHANGED <<disk, unreadable, orphans>>
      BY <2>9, Zenon
      DEF Start, Wake, TryGatewayLock, EndScan, TruncateJar, ReleaseCursor, CloseGateway,
          Collect, jars, leaks, bounds
    <3> QED
      BY <2>1, <3>1
  <2> QED
    BY <2>4, <2>5, <2>6, <2>7, <2>8, <2>9 DEF Step
<1>3. ASSUME NEW c \in Tools, ToolStep(c), Intact'
      PROVE  Intact /\ UNCHANGED orphans
  <2>1. ~ DiskFails
    BY <1>3 DEF DiskFails, Intact
  <2>2. UNCHANGED <<disk, unreadable, orphans>>
    BY <1>3, <2>1, Zenon
    DEF ToolStep, StartTool, TruncateByTool, WriteByTool, CrashTool, leaks, bounds
  <2> QED
    BY <1>3, <2>2 DEF Intact
<1> QED
  BY <1>1, <1>2, <1>3 DEF Next

\* While no disk has failed and no pass has met an unreadable jar, the lock of an account
\* is held by a process that serves it, or that has left it to its garbage collector.
OnTheWayBack ==
  Intact => \A p \in Procs, b \in Burners : gatewayLock[b] = p =>
    \/ pc[p] \in AtGateway \cup {"connect"} /\ burner(p) = b
    \/ b \in garbage[p]

\* No lock is left behind, by whatever a pass is ended: the cursor lock is held where
\* the cursor is used, and a gateway lock by who serves the account or has leaked it;
\* and who has leaked it to its heartbeat met an unreadable jar or a failed disk.  Of what
\* LocksComeBack promises only the fairness of the processes is missing here.
THEOREM LocksAreOwned == GatewayEnabled => (Spec => [](LocksOwned /\ OnTheWayBack))
<1> SUFFICES ASSUME GatewayEnabled PROVE Spec => [](LocksOwned /\ OnTheWayBack)
  OBVIOUS
<1>1. Init => LocksOwned /\ OrphansExplained
  BY ProcsAssumption DEF Init, LocksOwned, OrphansExplained
<1>2. LocksOwned /\ OrphansExplained => OnTheWayBack
  BY DEF LocksOwned, Owns, OrphansExplained, OnTheWayBack
<1>3. TypeOK /\ LocksOwned /\ [Next]_vars => LocksOwned'
  BY OwnersKept
<1>4. TypeOK /\ OrphansExplained /\ [Next]_vars => OrphansExplained'
  <2> SUFFICES ASSUME TypeOK, OrphansExplained, [Next]_vars, Intact', NEW p \in Procs
               PROVE  orphans'[p] = {}
    BY DEF OrphansExplained
  <2>1. /\ disk \in Nat /\ unreadable \in BOOLEAN
        /\ orphans \in [Procs -> SUBSET Burners]
    BY SessionAssumption DEF TypeOK
  <2>2. Intact /\ orphans'[p] \subseteq orphans[p]
    BY <2>1, IntactFalls
  <2> QED
    BY <2>2 DEF OrphansExplained
<1> QED
  BY <1>1, <1>2, <1>3, <1>4, TypeCorrect, PTL DEF Spec

--------------------------------------------------------------------------------
(* The end of a pass.                                                      *)

\* How many steps of its own a process is from the end of its pass.
StepsLeft(p) ==
  IF pc[p] \in {"off", "idle"} THEN 0
  ELSE IF pc[p] = "over" THEN 1
  ELSE 13 * (Len(Plan[p]) - turn[p])
       + (CASE pc[p] = "token"     -> 13 [] pc[p] = "lock"    -> 12
            [] pc[p] = "connect"   -> 11 [] pc[p] = "handshake" -> 10
            [] pc[p] = "client"    -> 9  [] pc[p] = "cursor"  -> 8
            [] pc[p] = "store"     -> 7  [] pc[p] = "scan"    -> 6
            [] pc[p] = "persist"   -> 5  [] pc[p] = "write"   -> 4
            [] pc[p] = "release"   -> 3  [] pc[p] = "close"   -> 2)

\* A process is at an account of its plan.
LEMMA TurnType ==
  ASSUME TypeOK, NEW p \in Procs
  PROVE  Len(Plan[p]) \in Nat /\ turn[p] \in 1 .. Len(Plan[p])
<1>1. Len(Plan[p]) \in Nat
  BY ProcsAssumption
<1>2. turn[p] \in 1 .. Len(Plan[p])
  <2>1. turn \in [Procs -> Nat] /\ \A q \in Procs : turn[q] \in 1 .. Len(Plan[q])
    BY DEF TypeOK
  <2> QED
    BY <2>1
<1> QED
  BY <1>1, <1>2

\* It is a number, and no larger than the plan allows.
LEMMA StepsLeftType ==
  ASSUME TypeOK, NEW p \in Procs
  PROVE  StepsLeft(p) \in 0 .. 13 * Len(Plan[p])
<1> DEFINE n == 13 * (Len(Plan[p]) - turn[p])
<1>1. Len(Plan[p]) \in Nat /\ turn[p] \in 1 .. Len(Plan[p])
  BY TurnType
<1>2. n \in Nat /\ n + 13 <= 13 * Len(Plan[p]) /\ 13 * Len(Plan[p]) \in Nat
  BY <1>1
<1>3. 1 \in 0 .. 13 * Len(Plan[p]) /\ 0 \in 0 .. 13 * Len(Plan[p])
  BY <1>1
<1> HIDE DEF n
<1>4. CASE pc[p] \in {"off", "idle", "over"}
  BY <1>3, <1>4 DEF StepsLeft
<1>5. CASE pc[p] \in {"token", "lock", "connect"}
  <2>1. StepsLeft(p) = n + 13 \/ StepsLeft(p) = n + 12 \/ StepsLeft(p) = n + 11
    BY <1>5 DEF StepsLeft, n
  <2> QED
    BY <1>2, <2>1
<1>6. CASE pc[p] \in {"handshake", "client", "cursor"}
  <2>1. StepsLeft(p) = n + 10 \/ StepsLeft(p) = n + 9 \/ StepsLeft(p) = n + 8
    BY <1>6 DEF StepsLeft, n
  <2> QED
    BY <1>2, <2>1
<1>7. CASE pc[p] \in {"store", "scan", "persist"}
  <2>1. StepsLeft(p) = n + 7 \/ StepsLeft(p) = n + 6 \/ StepsLeft(p) = n + 5
    BY <1>7 DEF StepsLeft, n
  <2> QED
    BY <1>2, <2>1
<1>8. CASE pc[p] \in {"write", "release", "close"}
  <2>1. StepsLeft(p) = n + 4 \/ StepsLeft(p) = n + 3 \/ StepsLeft(p) = n + 2
    BY <1>8 DEF StepsLeft, n
  <2> QED
    BY <1>2, <2>1
<1> QED
  BY <1>4, <1>5, <1>6, <1>7, <1>8 DEF TypeOK, PCs

\* Each step of a process, but the one that wakes it, brings its pass nearer to its end.
LEMMA StepsShrink ==
  ASSUME TypeOK, TypeOK', NEW p \in Procs, Step(p), pc[p] # "idle"
  PROVE  StepsLeft(p)' < StepsLeft(p)
<1> DEFINE n == 13 * (Len(Plan[p]) - turn[p])
<1>1. Len(Plan[p]) \in Nat /\ turn[p] \in 1 .. Len(Plan[p]) /\ n \in Nat
  BY TurnType
<1>t. pc \in [Procs -> PCs]
  BY DEF TypeOK
\* The end of a pass, from anywhere in it.
<1>o. ASSUME Goto(p, "over"), pc[p] \notin {"off", "idle", "over"}
      PROVE  StepsLeft(p)' < StepsLeft(p)
  <2>1. StepsLeft(p)' = 1
    BY <1>t, <1>o DEF Goto, StepsLeft
  <2>2. ~ (StepsLeft(p) \in {0, 1}) /\ StepsLeft(p) \in Nat
    <3>1. StepsLeft(p) \in Nat
      BY <1>1, StepsLeftType
    <3>2. CASE pc[p] \in {"token", "lock", "connect"}
      BY <1>1, <3>2 DEF StepsLeft
    <3>3. CASE pc[p] \in {"handshake", "client", "cursor"}
      BY <1>1, <3>3 DEF StepsLeft
    <3>4. CASE pc[p] \in {"store", "scan", "persist"}
      BY <1>1, <3>4 DEF StepsLeft
    <3>5. CASE pc[p] \in {"write", "release", "close"}
      BY <1>1, <3>5 DEF StepsLeft
    <3> QED
      BY <1>t, <1>o, <3>1, <3>2, <3>3, <3>4, <3>5 DEF PCs
  <2> QED
    BY <2>1, <2>2
\* From one place to the next, for the same account.
<1>g. ASSUME NEW there, Goto(p, there)
      PROVE  pc'[p] = there
  BY <1>t, <1>g DEF Goto
<1> HIDE DEF n
<1>2. CASE LoadToken(p)
  <2>1. pc[p] = "token" /\ turn' = turn
        /\ (Goto(p, "lock") \/ Goto(p, "client") \/ Goto(p, "over"))
    BY <1>2 DEF LoadToken, Abandon
  <2>2. StepsLeft(p) = n + 13
    BY <2>1 DEF StepsLeft, n
  <2>3. pc'[p] = "lock" => StepsLeft(p)' = n + 12
    BY <2>1 DEF StepsLeft, n
  <2>4. pc'[p] = "client" => StepsLeft(p)' = n + 9
    BY <2>1 DEF StepsLeft, n
  <2> QED
    BY <1>1, <1>o, <1>g, <2>1, <2>2, <2>3, <2>4
<1>3. CASE TryGatewayLock(p)
  <2>1. pc[p] = "lock" /\ turn' = turn /\ (Goto(p, "connect") \/ Goto(p, "over"))
    BY <1>3 DEF TryGatewayLock, Abandon
  <2>2. StepsLeft(p) = n + 12 /\ (pc'[p] = "connect" => StepsLeft(p)' = n + 11)
    BY <2>1 DEF StepsLeft, n
  <2> QED
    BY <1>1, <1>o, <1>g, <2>1, <2>2
<1>4. CASE OpenWebsocket(p)
  <2>1. pc[p] = "connect" /\ turn' = turn /\ (Goto(p, "handshake") \/ Goto(p, "over"))
    BY <1>4 DEF OpenWebsocket, Abandon
  <2>2. StepsLeft(p) = n + 11 /\ (pc'[p] = "handshake" => StepsLeft(p)' = n + 10)
    BY <2>1 DEF StepsLeft, n
  <2> QED
    BY <1>1, <1>o, <1>g, <2>1, <2>2
<1>5. CASE Handshake(p)
  <2>1. pc[p] = "handshake" /\ turn' = turn /\ (Goto(p, "client") \/ Goto(p, "over"))
    BY <1>5 DEF Handshake, Abandon
  <2>2. StepsLeft(p) = n + 10 /\ (pc'[p] = "client" => StepsLeft(p)' = n + 9)
    BY <2>1 DEF StepsLeft, n
  <2> QED
    BY <1>1, <1>o, <1>g, <2>1, <2>2
<1>6. CASE MakeClient(p)
  <2>1. pc[p] = "client" /\ turn' = turn /\ (Goto(p, "cursor") \/ Goto(p, "over"))
    BY <1>6 DEF MakeClient, Abandon
  <2>2. StepsLeft(p) = n + 9 /\ (pc'[p] = "cursor" => StepsLeft(p)' = n + 8)
    BY <2>1 DEF StepsLeft, n
  <2> QED
    BY <1>1, <1>o, <1>g, <2>1, <2>2
<1>7. CASE TryCursorLock(p)
  <2>1. pc[p] = "cursor" /\ turn' = turn /\ (Goto(p, "store") \/ Goto(p, "over"))
    BY <1>7 DEF TryCursorLock, Abandon
  <2>2. StepsLeft(p) = n + 8 /\ (pc'[p] = "store" => StepsLeft(p)' = n + 7)
    BY <2>1 DEF StepsLeft, n
  <2> QED
    BY <1>1, <1>o, <1>g, <2>1, <2>2
<1>8. CASE OpenStore(p)
  <2>1. pc[p] = "store" /\ turn' = turn /\ (Goto(p, "scan") \/ Goto(p, "persist"))
    BY <1>8 DEF OpenStore
  <2>2. /\ StepsLeft(p) = n + 7 /\ (pc'[p] = "scan" => StepsLeft(p)' = n + 6)
        /\ pc'[p] = "persist" => StepsLeft(p)' = n + 5
    BY <2>1 DEF StepsLeft, n
  <2> QED
    BY <1>1, <1>g, <2>1, <2>2
<1>9. CASE EndScan(p)
  <2>1. pc[p] = "scan" /\ turn' = turn /\ Goto(p, "persist")
    BY <1>9 DEF EndScan
  <2>2. StepsLeft(p) = n + 6 /\ (pc'[p] = "persist" => StepsLeft(p)' = n + 5)
    BY <2>1 DEF StepsLeft, n
  <2> QED
    BY <1>1, <1>g, <2>1, <2>2
<1>10. CASE TruncateJar(p)
  <2>1. pc[p] = "persist" /\ turn' = turn /\ Goto(p, "write")
    BY <1>10 DEF TruncateJar
  <2>2. StepsLeft(p) = n + 5 /\ (pc'[p] = "write" => StepsLeft(p)' = n + 4)
    BY <2>1 DEF StepsLeft, n
  <2> QED
    BY <1>1, <1>g, <2>1, <2>2
<1>11. CASE WriteJar(p)
  <2>1. pc[p] = "write" /\ turn' = turn /\ Goto(p, "release")
    BY <1>11 DEF WriteJar
  <2>2. StepsLeft(p) = n + 4 /\ (pc'[p] = "release" => StepsLeft(p)' = n + 3)
    BY <2>1 DEF StepsLeft, n
  <2> QED
    BY <1>1, <1>g, <2>1, <2>2
<1>12. CASE ReleaseCursor(p)
  <2>1. pc[p] = "release" /\ turn' = turn /\ Goto(p, "close")
    BY <1>12 DEF ReleaseCursor
  <2>2. StepsLeft(p) = n + 3 /\ (pc'[p] = "close" => StepsLeft(p)' = n + 2)
    BY <2>1 DEF StepsLeft, n
  <2> QED
    BY <1>1, <1>g, <2>1, <2>2
<1>13. CASE CloseGateway(p)
  <2>1. pc[p] = "close"
    BY <1>13 DEF CloseGateway
  <2>2. CASE Goto(p, "over")
    BY <1>o, <2>1, <2>2
  <2>3. CASE Goto(p, "token") /\ turn' = [turn EXCEPT ![p] = @ + 1]
    <3>1. pc'[p] = "token" /\ turn'[p] = turn[p] + 1
      BY <1>g, <2>3 DEF TypeOK
    <3>2. StepsLeft(p)' = 13 * (Len(Plan[p]) - (turn[p] + 1)) + 13
      BY <3>1 DEF StepsLeft
    <3>3. StepsLeft(p) = 13 * (Len(Plan[p]) - turn[p]) + 2
      BY <2>1 DEF StepsLeft
    <3> QED
      BY <1>1, <3>2, <3>3
  <2> QED
    BY <1>13, <2>2, <2>3 DEF CloseGateway
<1>14. CASE EndPass(p)
  <2>1. pc[p] = "over" /\ (Goto(p, "idle") \/ Goto(p, "off"))
    BY <1>14 DEF EndPass, Vanish
  <2>2. StepsLeft(p) = 1 /\ (pc'[p] \in {"idle", "off"} => StepsLeft(p)' = 0)
    BY <2>1 DEF StepsLeft
  <2> QED
    BY <1>g, <2>1, <2>2
<1>15. ~ Wake(p)
  BY DEF Wake
<1> QED
  BY <1>2, <1>3, <1>4, <1>5, <1>6, <1>7, <1>8, <1>9, <1>10, <1>11, <1>12, <1>13, <1>14,
     <1>15 DEF Step

\* Whatever the other processes, the network and the disk do, each step of a pass brings
\* it nearer to its end, where its locks are released, and nothing but a new start or the
\* next pass takes it back: no pass waits for a lock, and none serves an account twice.
THEOREM PassIsBounded ==
  Spec => /\ [](\A p \in Procs : StepsLeft(p) \in 0 .. 13 * Len(Plan[p]))
          /\ [][\A p \in Procs :
                  /\ Step(p) /\ pc[p] # "idle" => StepsLeft(p)' < StepsLeft(p)
                  /\ StepsLeft(p)' > StepsLeft(p) => pc[p] \in {"off", "idle"}]_vars
<1> DEFINE Bounded == \A p \in Procs : StepsLeft(p) \in 0 .. 13 * Len(Plan[p])
           Shrinks(p) == /\ Step(p) /\ pc[p] # "idle" => StepsLeft(p)' < StepsLeft(p)
                         /\ StepsLeft(p)' > StepsLeft(p) => pc[p] \in {"off", "idle"}
<1>1. TypeOK => Bounded
  BY StepsLeftType
<1>2. TypeOK /\ TypeOK' /\ [Next]_vars => [\A p \in Procs : Shrinks(p)]_vars
  <2> SUFFICES ASSUME TypeOK, TypeOK', Next, NEW p \in Procs PROVE Shrinks(p)
    OBVIOUS
  <2>1. StepsLeft(p) \in Int /\ StepsLeft(p)' \in Int /\ StepsLeft(p) >= 0
    <3>1. (TypeOK => Bounded)'
      BY <1>1, PTL
    <3>2. Len(Plan[p]) \in Nat
      <4>1. Plan[p] \in Seq(Burners)
        BY ProcsAssumption
      <4> QED
        BY <4>1
    <3> QED
      BY <1>1, <3>1, <3>2
  <2>2. Step(p) /\ pc[p] # "idle" => StepsLeft(p)' < StepsLeft(p)
    BY StepsShrink
  <2>t. pc \in [Procs -> PCs] /\ turn \in [Procs -> Nat \ {0}]
    BY DEF TypeOK
  <2>4. ASSUME pc'[p] = pc[p], turn'[p] = turn[p]
        PROVE  StepsLeft(p)' = StepsLeft(p)
    BY <2>4 DEF StepsLeft
  <2>3. CASE \E c \in Tools : ToolStep(c)
    <3>1. UNCHANGED <<pc, turn>>
      BY <2>3 DEF ToolStep
    <3> QED
      BY <2>1, <2>2, <2>4, <3>1
  <2>5. ASSUME NEW q \in Procs, q # p,
               Start(q) \/ Step(q) \/ Collect(q) \/ Drop(q) \/ Crash(q)
        PROVE  Shrinks(p)
    <3>1. pc'[p] = pc[p] /\ turn'[p] = turn[p]
      BY <2>t, <2>5
         DEF Start, Step, Wake, LoadToken, TryGatewayLock, OpenWebsocket, Handshake,
             MakeClient, TryCursorLock, OpenStore, EndScan, TruncateJar, WriteJar,
             ReleaseCursor, CloseGateway, EndPass, Collect, Drop, Crash, Vanish, Abandon,
             Goto
    <3> QED
      BY <2>1, <2>2, <2>4, <3>1
  <2>6. CASE Start(p) \/ Step(p) \/ Collect(p) \/ Drop(p) \/ Crash(p)
    <3>1. CASE Start(p)
      BY <2>2, <3>1 DEF Start
    <3>2. CASE Step(p)
      BY <2>1, <2>2, <3>2
    <3>3. CASE Collect(p) \/ Drop(p)
      <4>1. UNCHANGED <<pc, turn>>
        BY <3>3 DEF Collect, Drop
      <4> QED
        BY <2>1, <2>2, <2>4, <4>1
    <3>4. CASE Crash(p)
      <4>1. pc'[p] = "off"
        BY <2>t, <3>4 DEF Crash, Vanish, Goto
      <4>2. StepsLeft(p)' = 0
        BY <4>1 DEF StepsLeft
      <4> QED
        BY <2>1, <2>2, <4>2
    <3> QED
      BY <2>6, <3>1, <3>2, <3>3, <3>4
  <2> QED
    BY <2>3, <2>5, <2>6 DEF Next
<1> QED
  BY <1>1, <1>2, TypeCorrect, PTL DEF Spec

================================================================================
