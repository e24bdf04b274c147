---------------------------- MODULE Gateway_proofs ----------------------------
(***************************************************************************)
(* What module Gateway promises, for every number of dropped connections,  *)
(* refused sessions and reconnections: one heartbeat loop at most, a       *)
(* connection only while the account's lock is held, and both ends of it   *)
(* speaking of one session, that is never asked for again when refused and *)
(* hears of its presence once.                                             *)
(***************************************************************************)
EXTENDS Gateway, TLAPS

--------------------------------------------------------------------------------
(* Types.                                                                  *)

\* Reading the next message leaves a sequence of messages.
LEMMA ReceiveTypes ==
  ASSUME toClient \in Seq(Incoming), NEW m, Receive(m)
  PROVE  toClient' \in Seq(Incoming) /\ m \in Incoming
<1>1. toClient # <<>> /\ Head(toClient) = m /\ toClient' = Tail(toClient)
  BY DEF Receive
<1>2. QED
  BY <1>1

\* So does what either end sends.
LEMMA SendTypes ==
  ASSUME toServer \in Seq(Outgoing), NEW m \in Outgoing, Send(m)
  PROVE  toServer' \in Seq(Outgoing)
  BY DEF Send

\* And what Discord answers.
LEMMA AnswerTypes ==
  ASSUME toClient \in Seq(Incoming), NEW m \in Incoming, Answer(m)
  PROVE  toClient' \in Seq(Incoming)
  BY DEF Answer

\* A place to which an exception leads is one.
LEMMA RaiseTypes ==
  ASSUME Raise
  PROVE  pc' \in PCs
  BY DEF Raise, PCs

\* Trouble stays within its bound.
LEMMA TroubleTypes ==
  ASSUME trouble \in 0 .. MaxTrouble, Trouble
  PROVE  trouble' \in 0 .. MaxTrouble
  BY GatewayAssumption DEF Trouble

\* The types of the parts that most steps leave alone.
ClientTypes == pc \in PCs /\ call \in {"connect", "reconnect"}
                 /\ ws \in {"none", "open", "dead"} /\ locked \in BOOLEAN
BeatTypes == task \in BOOLEAN /\ loops \in Nat /\ shutdown \in BOOLEAN
StateTypes ==
  /\ session \in Sessions \cup {None} /\ sequence \in 0 .. MaxSequence
  /\ presenceSent \in BOOLEAN /\ refusals \in Nat
  /\ result \in {"none", "connected", "resumed", "reidentified"}
NetworkTypes == toClient \in Seq(Incoming) /\ toServer \in Seq(Outgoing)
DiscordTypes ==
  /\ serving \in Sessions \cup {None} /\ nextSession \in 1 .. (MaxTrouble + 2)
  /\ sent \in [Sessions -> 0 .. MaxSequence] /\ presences \in [Sessions -> Nat]
EnvTypes == refused \subseteq Sessions /\ trouble \in 0 .. MaxTrouble

\* One heartbeat is not inductive: a handshake may start a loop only because the task
\* of the last one has been cancelled before the new connection is opened.
HeartbeatInv ==
  /\ task \in BOOLEAN
  /\ OneHeartbeat
  /\ pc \in {"new", "opening", "hello", "lost"} => ~ task

\* Where the task is cancelled and awaited, no loop is left.
LEMMA CancelEnds ==
  ASSUME OneHeartbeat, task \in BOOLEAN, loops' = IF task THEN loops - 1 ELSE loops
  PROVE  loops' = 0
<1>1. CASE task
  <2>1. loops = 1 /\ loops' = loops - 1
    BY <1>1 DEF OneHeartbeat
  <2>2. QED
    BY <2>1
<1>2. CASE ~ task
  BY <1>2 DEF OneHeartbeat
<1>3. QED
  BY <1>1, <1>2

\* Every step of the object, of Discord and of the network keeps HeartbeatInv:
\* reconnect_with_resume and close cancel the task before anything else.
LEMMA HeartbeatStep == HeartbeatInv /\ [Next]_vars => HeartbeatInv'
<1> SUFFICES ASSUME HeartbeatInv, [Next]_vars PROVE HeartbeatInv'
  OBVIOUS
<1> USE DEF HeartbeatInv, OneHeartbeat
<1>1. CASE Connect
  BY <1>1 DEF Connect, beat
<1>2. CASE ReconnectWithResume
  <2>1. loops' = 0
    BY <1>2, CancelEnds DEF ReconnectWithResume
  <2>2. QED
    BY <1>2, <2>1 DEF ReconnectWithResume
<1>3. CASE OpenWebsocket
  BY <1>3 DEF OpenWebsocket, beat
<1>4. CASE Collect
  BY <1>4 DEF Collect, beat
<1>5. CASE RecvHello
  BY <1>5 DEF RecvHello
<1>6. CASE SendIdentify
  BY <1>6 DEF SendIdentify, beat
<1>7. CASE RecvEvent
  BY <1>7 DEF RecvEvent, beat, client
<1>8. CASE RecvReady
  BY <1>8 DEF RecvReady, beat
<1>9. CASE RecvInvalid
  BY <1>9 DEF RecvInvalid, Raise, beat
<1>10. CASE RecvReconnect
  BY <1>10 DEF RecvReconnect, Raise, beat
<1>11. CASE ConnectionClosed
  BY <1>11 DEF ConnectionClosed, Raise, beat
<1>12. CASE SendPresence
  BY <1>12 DEF SendPresence, beat
<1>13. CASE CloseTask
  <2>1. loops' = 0
    BY <1>13, CancelEnds DEF CloseTask
  <2>2. QED
    BY <1>13, <2>1 DEF CloseTask
<1>14. CASE CloseWs
  BY <1>14 DEF CloseWs, beat
<1>15. CASE CloseLock
  BY <1>15 DEF CloseLock, beat
<1>16. CASE RefuseWebsocket
  BY <1>16 DEF RefuseWebsocket, beat
<1>17. CASE Close
  BY <1>17 DEF Close, beat
<1>18. CASE Beat
  BY <1>18 DEF Beat, beat, client
<1>19. CASE Serve \/ Dispatch \/ AskReconnect
  <2>1. UNCHANGED <<client, beat>>
    BY <1>19 DEF Serve, Dispatch, AskReconnect
  <2>2. QED
    BY <2>1 DEF beat, client
<1>20. CASE Drop
  BY <1>20 DEF Drop, beat
<1>21. CASE UNCHANGED vars
  BY <1>21 DEF vars, beat, client
<1>22. QED
  BY <1>1, <1>2, <1>3, <1>4, <1>5, <1>6, <1>7, <1>8, <1>9, <1>10, <1>11, <1>12, <1>13,
     <1>14, <1>15, <1>16, <1>17, <1>18, <1>19, <1>20, <1>21 DEF Next, Step

\* However often reconnect_with_resume is called and wherever it fails, no second
\* heartbeat loop runs and none runs without a handle.
THEOREM HeartbeatCorrect == Spec => []OneHeartbeat
<1>1. Init => HeartbeatInv
  BY DEF Init, HeartbeatInv, OneHeartbeat
<1>2. HeartbeatInv => OneHeartbeat
  BY DEF HeartbeatInv
<1>3. QED
  BY <1>1, <1>2, HeartbeatStep, PTL DEF Spec

--------------------------------------------------------------------------------
\* The parts make up the types.
LEMMA TypeParts ==
  TypeOK <=> ClientTypes /\ BeatTypes /\ StateTypes /\ NetworkTypes /\ DiscordTypes /\ EnvTypes
  BY DEF TypeOK, ClientTypes, BeatTypes, StateTypes, NetworkTypes, DiscordTypes, EnvTypes

\* What Discord does with a message of the client keeps its own types and those of the
\* network: the dispatches a RESUME has missed are dispatches of its session.
LEMMA ServeTypes ==
  ASSUME NetworkTypes, DiscordTypes, EnvTypes, Serve
  PROVE  NetworkTypes' /\ DiscordTypes' /\ EnvTypes'
<1> DEFINE m == Head(toServer)
<1>1. toServer' = Tail(toServer) /\ toServer # <<>> /\ UNCHANGED refused
  BY DEF Serve
<1>2. m \in Outgoing /\ toServer' \in Seq(Outgoing)
  BY <1>1 DEF NetworkTypes
<1>3. CASE /\ m.op = "identify" /\ nextSession \in Sessions
           /\ serving' = nextSession /\ nextSession' = nextSession + 1
           /\ sent' = [sent EXCEPT ![nextSession] = 1]
           /\ Answer(Ready(nextSession, 1))
           /\ UNCHANGED <<presences, trouble>>
  <2>1. Ready(nextSession, 1) \in Incoming
    BY <1>3, GatewayAssumption DEF Incoming
  <2>2. toClient' \in Seq(Incoming)
    BY <1>3, <2>1, AnswerTypes DEF NetworkTypes
  <2>3. nextSession' \in 1 .. (MaxTrouble + 2)
    BY <1>3, GatewayAssumption DEF Sessions
  <2>4. sent' \in [Sessions -> 0 .. MaxSequence]
    BY <1>3, GatewayAssumption DEF DiscordTypes
  <2>5. QED
    BY <1>1, <1>2, <1>3, <2>2, <2>3, <2>4 DEF NetworkTypes, DiscordTypes, EnvTypes
<1>4. CASE /\ m.op \in {"identify", "resume"}
           /\ Trouble /\ Answer(Invalid)
           /\ serving' = None /\ UNCHANGED <<sent, presences, nextSession>>
  <2>1. Invalid \in Incoming
    BY DEF Incoming
  <2>2. toClient' \in Seq(Incoming)
    BY <1>4, <2>1, AnswerTypes DEF NetworkTypes
  <2>3. EnvTypes'
    BY <1>1, <1>4, TroubleTypes DEF EnvTypes
  <2>4. QED
    BY <1>2, <1>4, <2>2, <2>3 DEF NetworkTypes, DiscordTypes
<1>5. CASE /\ m.op = "resume" /\ sent[m.session] < MaxSequence
           /\ serving' = m.session
           /\ sent' = [sent EXCEPT ![m.session] = @ + 1]
           /\ toClient' = toClient
                \o [i \in 1 .. (sent[m.session] - m.seq) |-> Event(m.seq + i)]
                \o <<Resumed(sent[m.session] + 1)>>
           /\ UNCHANGED <<presences, nextSession, trouble>>
  <2>1. m.session \in Sessions /\ m.seq \in 0 .. MaxSequence
    BY <1>2, <1>5 DEF Outgoing, Identify, Presence, Heartbeat, Resume
  <2>2. sent[m.session] \in 0 .. MaxSequence
    BY <2>1 DEF DiscordTypes
  <2>3. sent' \in [Sessions -> 0 .. MaxSequence]
    BY <1>5, <2>1, <2>2, GatewayAssumption DEF DiscordTypes
  <2>4. [i \in 1 .. (sent[m.session] - m.seq) |-> Event(m.seq + i)] \in Seq(Incoming)
    <3>1. \A i \in 1 .. (sent[m.session] - m.seq) : Event(m.seq + i) \in Incoming
      BY <2>1, <2>2, GatewayAssumption DEF Incoming
    <3>2. QED
      BY <2>1, <2>2, <3>1
  <2>5. <<Resumed(sent[m.session] + 1)>> \in Seq(Incoming)
    BY <1>5, <2>2, GatewayAssumption DEF Incoming
  <2>6. toClient' \in Seq(Incoming)
    BY <1>5, <2>4, <2>5 DEF NetworkTypes
  <2>7. QED
    BY <1>1, <1>2, <1>5, <2>1, <2>3, <2>6 DEF NetworkTypes, DiscordTypes, EnvTypes
<1>6. CASE /\ m.op = "presence" /\ serving # None
           /\ presences' = [presences EXCEPT ![serving] = @ + 1]
           /\ UNCHANGED <<toClient, serving, sent, nextSession, trouble>>
  BY <1>1, <1>2, <1>6 DEF NetworkTypes, DiscordTypes, EnvTypes
<1>7. CASE /\ m.op = "heartbeat"
           /\ UNCHANGED <<toClient, discord, trouble>>
  BY <1>1, <1>2, <1>7 DEF NetworkTypes, DiscordTypes, EnvTypes, discord
<1>8. QED
  BY <1>3, <1>4, <1>5, <1>6, <1>7 DEF Serve

\* Every step keeps the types; that a cancelled loop was one comes from HeartbeatInv.
LEMMA TypeStep == TypeOK /\ HeartbeatInv /\ [Next]_vars => TypeOK'
<1> SUFFICES ASSUME TypeOK, HeartbeatInv, [Next]_vars
             PROVE  (ClientTypes /\ BeatTypes /\ StateTypes /\ NetworkTypes /\ DiscordTypes
                      /\ EnvTypes)'
  BY DEF TypeOK, ClientTypes, BeatTypes, StateTypes, NetworkTypes, DiscordTypes, EnvTypes
<1>0. ClientTypes /\ BeatTypes /\ StateTypes /\ NetworkTypes /\ DiscordTypes /\ EnvTypes
  BY TypeParts
<1>k. /\ UNCHANGED <<pc, call, ws, locked>> => ClientTypes'
      /\ UNCHANGED <<task, loops, shutdown>> => BeatTypes'
      /\ UNCHANGED <<session, sequence, presenceSent, refusals, result>> => StateTypes'
      /\ UNCHANGED <<toClient, toServer>> => NetworkTypes'
      /\ UNCHANGED <<serving, sent, presences, nextSession>> => DiscordTypes'
      /\ UNCHANGED <<refused, trouble>> => EnvTypes'
  BY <1>0 DEF ClientTypes, BeatTypes, StateTypes, NetworkTypes, DiscordTypes, EnvTypes
<1>c. ASSUME loops' = (IF task THEN loops - 1 ELSE loops), task' \in BOOLEAN, shutdown' \in BOOLEAN
      PROVE  BeatTypes'
  <2>1. loops' = 0
    BY <1>c, CancelEnds DEF HeartbeatInv
  <2>2. QED
    BY <1>c, <2>1 DEF BeatTypes
<1>s. ASSUME serving' = None, UNCHANGED <<sent, presences, nextSession>>
      PROVE  DiscordTypes'
  BY <1>0, <1>s DEF DiscordTypes
<1>e. ASSUME toClient' = <<>>, toServer' = <<>>
      PROVE  NetworkTypes'
  BY <1>e DEF NetworkTypes
<1>1. CASE Connect
  <2>1. ClientTypes'
    BY <1>0, <1>1 DEF Connect, ClientTypes, PCs
  <2>2. QED
    BY <2>1, <1>1, <1>k DEF Connect, beat, state, network, discord
<1>2. CASE ReconnectWithResume
  <2>1. ClientTypes' /\ StateTypes'
    BY <1>0, <1>2 DEF ReconnectWithResume, CloseOld, ClientTypes, StateTypes, PCs
  <2>2. BeatTypes'
    BY <1>2, <1>c DEF ReconnectWithResume
  <2>3. QED
    BY <2>1, <2>2, <1>2, <1>k, <1>s, <1>e DEF ReconnectWithResume, CloseOld
<1>3. CASE OpenWebsocket
  <2>1. ClientTypes'
    BY <1>0, <1>3 DEF OpenWebsocket, ClientTypes, PCs, Handshaking
  <2>2. NetworkTypes'
    BY <1>3 DEF OpenWebsocket, NetworkTypes, Incoming
  <2>3. QED
    BY <2>1, <2>2, <1>3, <1>k, <1>s DEF OpenWebsocket, beat, state
<1>4. CASE Collect
  <2>1. ClientTypes'
    BY <1>0, <1>4 DEF Collect, ClientTypes
  <2>2. QED
    BY <2>1, <1>4, <1>k DEF Collect, beat, state, network, discord
<1>5. CASE RecvHello
  <2>1. ClientTypes'
    BY <1>0, <1>5 DEF RecvHello, ClientTypes, PCs, Handshaking
  <2>2. BeatTypes'
    <3>1. loops' \in Nat
      BY <1>0, <1>5 DEF RecvHello, BeatTypes
    <3>2. task' \in BOOLEAN /\ shutdown' \in BOOLEAN
      BY <1>5 DEF RecvHello
    <3>3. QED
      BY <3>1, <3>2 DEF BeatTypes
  <2>3. NetworkTypes'
    BY <1>0, <1>5, ReceiveTypes DEF RecvHello, NetworkTypes
  <2>4. QED
    BY <2>1, <2>2, <2>3, <1>5, <1>k DEF RecvHello, state, discord
<1>6. CASE SendIdentify
  <2>1. ClientTypes'
    BY <1>0, <1>6 DEF SendIdentify, ClientTypes, PCs, Handshaking
  <2>2. (IF call = "reconnect" /\ session # None THEN Resume(session, sequence)
          ELSE Identify) \in Outgoing
    BY <1>0 DEF StateTypes, Outgoing
  <2>3. NetworkTypes'
    BY <1>0, <1>6, <2>2, SendTypes DEF SendIdentify, NetworkTypes
  <2>4. QED
    BY <2>1, <2>3, <1>6, <1>k DEF SendIdentify, beat, state, discord
<1>7. CASE RecvEvent
  <2>1. PICK q \in 1 .. MaxSequence : Receive(Event(q)) /\ sequence' = q
    BY <1>7 DEF RecvEvent
  <2>2. StateTypes'
    BY <1>0, <1>7, <2>1 DEF RecvEvent, StateTypes
  <2>3. NetworkTypes'
    BY <1>0, <1>7, <2>1, ReceiveTypes DEF RecvEvent, NetworkTypes
  <2>4. QED
    BY <2>2, <2>3, <1>7, <1>k DEF RecvEvent, client, beat, discord
<1>8. CASE RecvReady
  <2>1. PICK q \in 1 .. MaxSequence :
          /\ sequence' = q
          /\ \/ Receive(Resumed(q)) /\ UNCHANGED session
             \/ \E s \in Sessions : Receive(Ready(s, q)) /\ session' = s
    BY <1>8 DEF RecvReady
  <2>2. ClientTypes'
    BY <1>0, <1>8 DEF RecvReady, ClientTypes, PCs, Handshaking
  <2>3. StateTypes'
    BY <1>0, <1>8, <2>1 DEF RecvReady, StateTypes
  <2>4. NetworkTypes'
    BY <1>0, <1>8, <2>1, ReceiveTypes DEF RecvReady, NetworkTypes
  <2>5. QED
    BY <2>2, <2>3, <2>4, <1>8, <1>k DEF RecvReady, beat, discord
<1>9. CASE RecvInvalid
  <2>1. toClient' \in Seq(Incoming)
    BY <1>0, <1>9, ReceiveTypes DEF RecvInvalid, NetworkTypes
  <2>2. toServer' \in Seq(Outgoing)
    <3>1. Identify \in Outgoing
      BY DEF Outgoing
    <3>2. Send(Identify) \/ UNCHANGED toServer
      BY <1>9 DEF RecvInvalid
    <3>3. QED
      BY <1>0, <3>1, <3>2, SendTypes DEF NetworkTypes
  <2>3. ClientTypes'
    <3>1. Raise \/ UNCHANGED pc
      BY <1>9 DEF RecvInvalid
    <3>2. pc' \in PCs
      BY <1>0, <3>1, RaiseTypes DEF ClientTypes
    <3>3. QED
      BY <1>0, <1>9, <3>2 DEF RecvInvalid, ClientTypes
  <2>4. StateTypes'
    <3>1. CASE call = "reconnect"
      <4>1. refusals' \in Nat
        BY <1>0, <1>9, <3>1 DEF RecvInvalid, StateTypes
      <4>2. sequence' \in 0 .. MaxSequence
        BY <1>9, <3>1, GatewayAssumption DEF RecvInvalid, None
      <4>3. presenceSent' \in BOOLEAN /\ session' \in Sessions \cup {None}
        BY <1>9, <3>1 DEF RecvInvalid
      <4>4. QED
        BY <1>0, <1>9, <4>1, <4>2, <4>3 DEF RecvInvalid, StateTypes
    <3>2. CASE call # "reconnect"
      BY <1>0, <1>9, <3>2 DEF RecvInvalid, StateTypes
    <3>3. QED
      BY <3>1, <3>2
  <2>5. EnvTypes'
    BY <1>0, <1>9 DEF RecvInvalid, EnvTypes, StateTypes
  <2>6. QED
    BY <2>1, <2>2, <2>3, <2>4, <2>5, <1>9, <1>k DEF RecvInvalid, NetworkTypes, beat, discord
<1>10. CASE RecvReconnect
  <2>1. ClientTypes'
    BY <1>0, <1>10, RaiseTypes DEF RecvReconnect, ClientTypes
  <2>2. NetworkTypes'
    BY <1>0, <1>10, ReceiveTypes DEF RecvReconnect, NetworkTypes
  <2>3. QED
    BY <2>1, <2>2, <1>10, <1>k DEF RecvReconnect, beat, state, discord
<1>11. CASE ConnectionClosed
  <2>1. ClientTypes'
    BY <1>0, <1>11, RaiseTypes DEF ConnectionClosed, ClientTypes
  <2>2. QED
    BY <2>1, <1>11, <1>k DEF ConnectionClosed, beat, state, network, discord
<1>12. CASE SendPresence
  <2>1. ClientTypes'
    BY <1>0, <1>12 DEF SendPresence, ClientTypes, PCs
  <2>2. StateTypes'
    <3>1. presenceSent' \in BOOLEAN
      BY <1>0, <1>12 DEF SendPresence, StateTypes
    <3>2. result' \in {"none", "connected", "resumed", "reidentified"}
      BY <1>12 DEF SendPresence
    <3>3. QED
      BY <1>0, <1>12, <3>1, <3>2 DEF SendPresence, StateTypes
  <2>3. NetworkTypes'
    <3>1. Presence \in Outgoing
      BY DEF Outgoing
    <3>2. Send(Presence) \/ UNCHANGED toServer
      BY <1>12 DEF SendPresence
    <3>3. QED
      BY <1>0, <1>12, <3>1, <3>2, SendTypes DEF SendPresence, NetworkTypes
  <2>4. QED
    BY <2>1, <2>2, <2>3, <1>12, <1>k DEF SendPresence, beat, discord
<1>13. CASE CloseTask
  <2>1. ClientTypes'
    BY <1>0, <1>13 DEF CloseTask, ClientTypes, PCs
  <2>2. BeatTypes'
    BY <1>13, <1>c DEF CloseTask
  <2>3. QED
    BY <2>1, <2>2, <1>13, <1>k DEF CloseTask, state, network, discord
<1>14. CASE CloseWs
  <2>1. ClientTypes'
    BY <1>0, <1>14 DEF CloseWs, ClientTypes, PCs
  <2>2. QED
    BY <2>1, <1>14, <1>k, <1>s, <1>e DEF CloseWs, beat, state
<1>15. CASE CloseLock
  <2>1. ClientTypes'
    BY <1>0, <1>15 DEF CloseLock, ClientTypes, PCs
  <2>2. QED
    BY <2>1, <1>15, <1>k DEF CloseLock, beat, state, network, discord
<1>16. CASE RefuseWebsocket
  <2>1. ClientTypes'
    BY <1>0, <1>16 DEF RefuseWebsocket, ClientTypes, PCs
  <2>2. EnvTypes'
    BY <1>0, <1>16, TroubleTypes DEF RefuseWebsocket, EnvTypes
  <2>3. QED
    BY <2>1, <2>2, <1>16, <1>k DEF RefuseWebsocket, beat, state, network, discord
<1>17. CASE Close
  <2>1. ClientTypes'
    BY <1>0, <1>17 DEF Close, ClientTypes, PCs
  <2>2. QED
    BY <2>1, <1>17, <1>k DEF Close, beat, state, network, discord
<1>18. CASE Beat
  <2>1. Heartbeat(sequence) \in Outgoing
    BY <1>0 DEF StateTypes, Outgoing
  <2>2. NetworkTypes'
    BY <1>0, <1>18, <2>1, SendTypes DEF Beat, NetworkTypes
  <2>3. QED
    BY <2>2, <1>18, <1>k DEF Beat, client, beat, state, discord
<1>19. CASE Serve
  BY <1>0, <1>19, <1>k, ServeTypes DEF Serve, client, beat, state
<1>20. CASE Dispatch
  <2>1. serving \in Sessions /\ sent[serving] + 1 \in 1 .. MaxSequence
    BY <1>0, <1>20, GatewayAssumption DEF Dispatch, DiscordTypes
  <2>2. DiscordTypes'
    BY <1>0, <1>20, <2>1 DEF Dispatch, DiscordTypes
  <2>3. Event(sent[serving] + 1) \in Incoming
    BY <2>1 DEF Incoming
  <2>4. NetworkTypes'
    BY <1>0, <1>20, <2>3, AnswerTypes DEF Dispatch, NetworkTypes
  <2>5. QED
    BY <2>2, <2>4, <1>20, <1>k DEF Dispatch, client, beat, state
<1>21. CASE AskReconnect
  <2>1. Reconnect7 \in Incoming
    BY DEF Incoming
  <2>2. NetworkTypes'
    BY <1>0, <1>21, <2>1, AnswerTypes DEF AskReconnect, NetworkTypes
  <2>3. EnvTypes'
    BY <1>0, <1>21, TroubleTypes DEF AskReconnect, EnvTypes
  <2>4. QED
    BY <2>2, <2>3, <1>21, <1>k DEF AskReconnect, client, beat, state, discord
<1>22. CASE Drop
  <2>1. ClientTypes'
    BY <1>0, <1>22 DEF Drop, ClientTypes
  <2>2. PICK n \in 0 .. Len(toClient) : toClient' = SubSeq(toClient, 1, n)
    BY <1>22 DEF Drop
  <2>3. NetworkTypes'
    BY <1>0, <1>22, <2>2 DEF Drop, NetworkTypes
  <2>4. EnvTypes'
    BY <1>0, <1>22, TroubleTypes DEF Drop, EnvTypes
  <2>5. QED
    BY <2>1, <2>3, <2>4, <1>22, <1>k, <1>s DEF Drop, beat, state
<1>23. CASE UNCHANGED vars
  BY <1>23, <1>k DEF vars, client, beat, state, network, discord
<1>24. QED
  BY <1>1, <1>2, <1>3, <1>4, <1>5, <1>6, <1>7, <1>8, <1>9, <1>10, <1>11, <1>12, <1>13,
     <1>14, <1>15, <1>16, <1>17, <1>18, <1>19, <1>20, <1>21, <1>22, <1>23 DEF Next, Step

\* The types hold whatever the bounds are.
THEOREM TypeCorrect == Spec => []TypeOK
<1>1. Init => TypeOK /\ HeartbeatInv
  <2> SUFFICES ASSUME Init PROVE TypeOK /\ HeartbeatInv
    OBVIOUS
  <2>1. ClientTypes /\ BeatTypes /\ NetworkTypes
    <3>1. ClientTypes
      BY DEF Init, ClientTypes, PCs
    <3>2. NetworkTypes
      BY DEF Init, NetworkTypes
    <3>3. loops \in Nat
      BY DEF Init
    <3>4. QED
      BY <3>1, <3>2, <3>3 DEF Init, BeatTypes
  <2>2. StateTypes /\ DiscordTypes /\ EnvTypes
    <3>1. sequence \in 0 .. MaxSequence /\ refusals \in Nat
      BY GatewayAssumption DEF Init, None
    <3>2. StateTypes
      BY <3>1 DEF Init, StateTypes
    <3>3. DiscordTypes /\ EnvTypes
      BY GatewayAssumption DEF Init, DiscordTypes, EnvTypes
    <3>4. QED
      BY <3>2, <3>3
  <2>3. HeartbeatInv
    BY DEF Init, HeartbeatInv, OneHeartbeat
  <2>4. QED
    BY <2>1, <2>2, <2>3, TypeParts
<1>2. QED
  BY <1>1, TypeStep, HeartbeatStep, PTL DEF Spec

--------------------------------------------------------------------------------
\* The lock is held at every place of the owner but the first and the last ones, and
\* a connection is open at fewer places still: close() closes it before it releases
\* the lock, and a constructor that failed has none.
LockInv ==
  /\ pc \notin {"new", "lost", "closed"} => locked
  /\ ws = "open" => pc \notin {"new", "opening", "lost", "closeLock", "closed"}

\* Every step keeps LockInv.
LEMMA LockStep == LockInv /\ [Next]_vars => LockInv'
<1> SUFFICES ASSUME LockInv, [Next]_vars PROVE LockInv'
  OBVIOUS
<1> USE DEF LockInv
<1>1. CASE Connect
  BY <1>1 DEF Connect
<1>2. CASE ReconnectWithResume
  BY <1>2 DEF ReconnectWithResume, CloseOld
<1>3. CASE OpenWebsocket
  BY <1>3 DEF OpenWebsocket
<1>4. CASE Collect
  BY <1>4 DEF Collect
<1>5. CASE RecvHello
  BY <1>5 DEF RecvHello
<1>6. CASE SendIdentify
  BY <1>6 DEF SendIdentify
<1>7. CASE RecvEvent
  BY <1>7 DEF RecvEvent, client
<1>8. CASE RecvReady
  BY <1>8 DEF RecvReady
<1>9. CASE RecvInvalid
  BY <1>9 DEF RecvInvalid, Raise
<1>10. CASE RecvReconnect
  BY <1>10 DEF RecvReconnect, Raise
<1>11. CASE ConnectionClosed
  BY <1>11 DEF ConnectionClosed, Raise
<1>12. CASE SendPresence
  BY <1>12 DEF SendPresence
<1>13. CASE CloseTask
  BY <1>13 DEF CloseTask
<1>14. CASE CloseWs
  BY <1>14 DEF CloseWs
<1>15. CASE CloseLock
  BY <1>15 DEF CloseLock
<1>16. CASE RefuseWebsocket
  BY <1>16 DEF RefuseWebsocket
<1>17. CASE Close
  BY <1>17 DEF Close
<1>18. CASE Beat \/ Serve \/ Dispatch \/ AskReconnect
  BY <1>18 DEF Beat, Serve, Dispatch, AskReconnect, client
<1>19. CASE Drop
  BY <1>19 DEF Drop
<1>20. CASE UNCHANGED vars
  BY <1>20 DEF vars, client
<1>21. QED
  BY <1>1, <1>2, <1>3, <1>4, <1>5, <1>6, <1>7, <1>8, <1>9, <1>10, <1>11, <1>12, <1>13,
     <1>14, <1>15, <1>16, <1>17, <1>18, <1>19, <1>20 DEF Next, Step

\* A connection of the account is open only while its lock is held: through a failing
\* handshake, a failing reconnection and close() itself.
THEOREM LockCorrect == Spec => []ConnectedIsLocked
<1>1. Init => LockInv
  BY DEF Init, LockInv
<1>2. LockInv => ConnectedIsLocked
  BY DEF LockInv, ConnectedIsLocked
<1>3. QED
  BY <1>1, <1>2, LockStep, PTL DEF Spec

--------------------------------------------------------------------------------
(* One request, one answer, one session.                                   *)

\* Requests for a session, and what ends the wait for it.
Requests == {"identify", "resume"}
Answers == {"ready", "resumed", "invalid"}

\* Of the messages of kinds K none is under way, or one at most.
Free(q, K) == \A i \in 1 .. Len(q) : q[i].op \notin K
Once(q, K) == \A i, j \in 1 .. Len(q) : q[i].op \in K /\ q[j].op \in K => i = j

\* A request is under way, or its answer, but not both, and neither outside the wait;
\* until the answer is read Discord serves no session but the one it answers with.
WireInv ==
  /\ Once(toServer, Requests) /\ Once(toClient, Answers)
  /\ Free(toServer, Requests) \/ Free(toClient, Answers)
  /\ ws # "open" => toServer = <<>> /\ serving = None
  /\ pc \in {"new", "opening", "lost", "closeLock", "closed"} =>
       toClient = <<>> /\ toServer = <<>> /\ serving = None
  /\ pc \in {"hello", "identify"} =>
       /\ serving = None /\ Free(toServer, Requests)
       /\ Free(toClient, Answers) /\ Free(toClient, {"event"})
  /\ pc \in {"presence", "up"} => Free(toServer, Requests) /\ Free(toClient, Answers)
  /\ ~ Free(toServer, Requests) \/ ~ Free(toClient, {"invalid"}) =>
       serving = None /\ Free(toClient, {"event"})

\* The session that each message is about; a refused one is nobody's any more.
SessionInv ==
  /\ session < nextSession /\ session \notin refused
  /\ \A s \in refused : s < nextSession
  /\ pc = "new" => session = None
  /\ call = "connect" /\ pc \in {"opening", "hello", "identify", "ready"} => session = None
  /\ pc \in {"presence", "up"} => session # None /\ (ws = "open" => serving = session)
  /\ serving # None /\ Free(toClient, {"ready"}) => serving = session
  /\ \A i \in 1 .. Len(toServer) :
       /\ toServer[i].op = "identify" => session = None
       /\ toServer[i].op = "resume" => session # None /\ toServer[i].session = session
  /\ \A i \in 1 .. Len(toClient) :
       /\ toClient[i].op = "ready" =>
            /\ session = None
            /\ toClient[i].session < nextSession /\ toClient[i].session \notin refused
            /\ ws = "open" => serving = toClient[i].session
       /\ toClient[i].op = "resumed" => session # None /\ (ws = "open" => serving = session)

\* Nobody has a sequence number that its session has not come to: dispatches come after
\* their READY, and heartbeats that were sent for an earlier session are read before
\* Discord serves the next one.
SequenceInv ==
  /\ session = None => sequence = None
  /\ session # None => sequence <= sent[session]
  /\ \A i \in 1 .. Len(toClient) : toClient[i].op = "ready" =>
       /\ toClient[i].seq <= sent[toClient[i].session]
       /\ \A j \in 1 .. Len(toClient) : toClient[j].op = "event" =>
            j > i /\ toClient[j].seq <= sent[toClient[i].session]
  /\ Free(toClient, {"ready"}) =>
       \A i \in 1 .. Len(toClient) : toClient[i].op \in {"event", "resumed"} =>
         session # None /\ toClient[i].seq <= sent[session]
  /\ \A i \in 1 .. Len(toServer) : toServer[i].op = "resume" =>
       toServer[i].seq <= sent[session]
  /\ \A i \in 1 .. Len(toServer) : toServer[i].op = "heartbeat" =>
       /\ serving # None => toServer[i].seq <= sent[serving]
       /\ \A j \in 1 .. Len(toServer) : j < i =>
            /\ toServer[j].op = "identify" => toServer[i].seq = None
            /\ toServer[j].op = "resume" => toServer[i].seq <= sent[session]

\* A presence is under way only after the handshake, for a session that has had none.
PresenceInv ==
  /\ PresenceOnce
  /\ \A s \in Sessions : s >= nextSession => presences[s] = 0
  /\ ~ presenceSent /\ session # None => presences[session] = 0
  /\ \A i \in 1 .. Len(toClient) :
       toClient[i].op = "ready" => presences[toClient[i].session] = 0
  /\ Once(toServer, {"presence"})
  /\ ~ Free(toServer, {"presence"}) =>
       /\ presenceSent /\ pc \in {"up", "closeTask", "closeWs"}
       /\ session # None /\ serving = session /\ presences[session] = 0

CallInv == WireInv /\ SessionInv /\ SequenceInv /\ PresenceInv

\* What is left of a sequence of messages when its head is read.
LEMMA TailIs ==
  ASSUME NEW S, NEW q \in Seq(S), q # <<>>
  PROVE  /\ Tail(q) \in Seq(S) /\ Len(q) \in Nat /\ Len(q) >= 1 /\ Len(Tail(q)) = Len(q) - 1
         /\ \A i \in 1 .. Len(Tail(q)) : i + 1 \in 1 .. Len(q) /\ Tail(q)[i] = q[i + 1]
         /\ q[1] = Head(q) /\ Head(q) \in S
  OBVIOUS

\* And what there is when another one is sent.
LEMMA AppendIs ==
  ASSUME NEW S, NEW q \in Seq(S), NEW m
  PROVE  /\ Len(q) \in Nat /\ Len(Append(q, m)) = Len(q) + 1
         /\ \A i \in 1 .. Len(q) : Append(q, m)[i] = q[i]
         /\ Append(q, m)[Len(q) + 1] = m
  OBVIOUS

\* Reading keeps what is said of all messages, and one of a kind is then none.
LEMMA TailKinds ==
  ASSUME NEW S, NEW q \in Seq(S), q # <<>>, NEW K
  PROVE  /\ Free(q, K) => Free(Tail(q), K)
         /\ Once(q, K) => Once(Tail(q), K)
         /\ Once(q, K) /\ Head(q).op \in K => Free(Tail(q), K)
<1>1. /\ Len(q) \in Nat /\ Len(q) >= 1 /\ Len(Tail(q)) = Len(q) - 1
      /\ \A i \in 1 .. Len(Tail(q)) : i + 1 \in 1 .. Len(q) /\ Tail(q)[i] = q[i + 1]
      /\ q[1] = Head(q)
  BY TailIs
<1>2. Free(q, K) => Free(Tail(q), K)
  BY <1>1 DEF Free
<1>3. Once(q, K) => Once(Tail(q), K)
  <2>1. SUFFICES ASSUME Once(q, K), NEW i \in 1 .. Len(Tail(q)), NEW j \in 1 .. Len(Tail(q)),
                        Tail(q)[i].op \in K, Tail(q)[j].op \in K
                 PROVE  i = j
    BY DEF Once
  <2>2. i + 1 = j + 1
    BY <1>1, <2>1 DEF Once
  <2>q. QED
    BY <2>2
<1>4. Once(q, K) /\ Head(q).op \in K => Free(Tail(q), K)
  <2>1. SUFFICES ASSUME Once(q, K), Head(q).op \in K, NEW i \in 1 .. Len(Tail(q)),
                        Tail(q)[i].op \in K
                 PROVE  FALSE
    BY DEF Free
  <2>2. 1 = i + 1
    BY <1>1, <2>1 DEF Once
  <2>q. QED
    BY <2>2
<1>q. QED
  BY <1>2, <1>3, <1>4

\* A kind that is read away is one the head was of.
LEMMA TailRest ==
  ASSUME NEW S, NEW q \in Seq(S), q # <<>>, NEW K, Free(Tail(q), K), Head(q).op \notin K
  PROVE  Free(q, K)
<1>1. /\ Len(q) \in Nat /\ Len(q) >= 1 /\ Len(Tail(q)) = Len(q) - 1
      /\ \A i \in 1 .. Len(Tail(q)) : Tail(q)[i] = q[i + 1]
      /\ q[1] = Head(q)
  BY TailIs
<1>2. ASSUME NEW i \in 1 .. Len(q) PROVE q[i].op \notin K
  <2>1. CASE i = 1
    BY <1>1, <2>1
  <2>2. CASE i # 1
    <3>1. i - 1 \in 1 .. Len(Tail(q)) /\ (i - 1) + 1 = i
      BY <1>1, <2>2
    <3>2. Tail(q)[i - 1] = q[i]
      BY <1>1, <3>1
    <3>q. QED
      BY <3>1, <3>2 DEF Free
  <2>q. QED
    BY <2>1, <2>2
<1>q. QED
  BY <1>2 DEF Free

\* Sending leaves the kinds of the others.
LEMMA AppendKinds ==
  ASSUME NEW S, NEW q \in Seq(S), NEW m, NEW K
  PROVE  /\ Free(q, K) /\ m.op \notin K => Free(Append(q, m), K)
         /\ Once(q, K) /\ m.op \notin K => Once(Append(q, m), K)
         /\ Free(q, K) => Once(Append(q, m), K)
         /\ Free(Append(q, m), K) => Free(q, K) /\ m.op \notin K
<1>1. /\ Len(q) \in Nat /\ Len(Append(q, m)) = Len(q) + 1
      /\ \A i \in 1 .. Len(q) : Append(q, m)[i] = q[i]
      /\ Append(q, m)[Len(q) + 1] = m
  BY AppendIs
<1>q. QED
  BY <1>1 DEF Free, Once

\* A step that leaves the messages and the sessions, and enters no place where more is
\* promised of them.
LEMMA CallKept ==
  ASSUME CallInv, UNCHANGED <<ws, session, sequence, presenceSent, network, discord, refused>>,
         pc' \notin {"new", "hello", "identify", "ready", "presence", "up"},
         pc' \in {"opening", "lost", "closeLock", "closed"} =>
           toClient = <<>> /\ toServer = <<>> /\ serving = None,
         call' = "connect" /\ pc' = "opening" => session = None,
         pc' \in {"closeTask", "closeWs"} \/ Free(toServer, {"presence"})
  PROVE  CallInv'
<1>1. /\ toClient' = toClient /\ toServer' = toServer /\ serving' = serving /\ sent' = sent
      /\ presences' = presences /\ nextSession' = nextSession
  BY DEF network, discord
<1>2. WireInv'
  BY <1>1 DEF CallInv, WireInv, Free, Once
<1>3. SessionInv'
  BY <1>1 DEF CallInv, SessionInv, Free
<1>4. SequenceInv'
  BY <1>1 DEF CallInv, SequenceInv, Free
<1>5. PresenceInv'
  BY <1>1 DEF CallInv, PresenceInv, PresenceOnce, Free, Once
<1>q. QED
  BY <1>2, <1>3, <1>4, <1>5 DEF CallInv

\* A step after which nothing is under way but the HELLO of a new connection.
LEMMA CallCleared ==
  ASSUME CallInv,
         UNCHANGED <<session, sequence, presenceSent, sent, presences, nextSession, refused>>,
         toClient' \in {<<>>, <<Hello>>}, toServer' = <<>>, serving' = None,
         pc' \in {"opening", "hello", "closeLock"}, pc' # "hello" => toClient' = <<>>,
         call' = "connect" /\ pc' # "closeLock" => session = None
  PROVE  CallInv'
<1>1. \A i \in 1 .. Len(toClient') : toClient'[i].op = "hello" /\ i = 1
  <2>1. CASE toClient' = <<>>
    BY <2>1
  <2>2. CASE toClient' = <<Hello>>
    <3>1. Len(<<Hello>>) = 1 /\ <<Hello>>[1] = Hello
      OBVIOUS
    <3>q. QED
      BY <2>2, <3>1 DEF Hello
  <2>q. QED
    BY <2>1, <2>2
<1>2. Len(toServer') = 0
  OBVIOUS
<1>3. WireInv'
  BY <1>1, <1>2 DEF CallInv, WireInv, Free, Once, Requests, Answers
<1>4. SessionInv'
  BY <1>1, <1>2 DEF CallInv, SessionInv, Free
<1>5. SequenceInv'
  BY <1>1, <1>2 DEF CallInv, SequenceInv, Free
<1>6. PresenceInv'
  BY <1>1, <1>2 DEF CallInv, PresenceInv, PresenceOnce, Free, Once
<1>q. QED
  BY <1>3, <1>4, <1>5, <1>6 DEF CallInv

\* The client sends a message that is no request.
LEMMA CallSent ==
  ASSUME CallInv, toServer \in Seq(Outgoing), NEW m, Send(m), ws = "open",
         m.op \in {"heartbeat", "presence"},
         m.op = "heartbeat" => UNCHANGED <<pc, presenceSent>> /\ m.seq = sequence,
         m.op = "presence" => /\ Free(toServer, {"presence"}) /\ presenceSent'
                              /\ pc = "presence" /\ pc' = "up" /\ presences[session] = 0,
         pc \notin {"new", "opening", "lost", "closeLock", "closed"},
         serving # None => None <= sent[serving],
         UNCHANGED <<call, ws, session, sequence, toClient, discord, refused>>
  PROVE  CallInv'
<1>0. /\ toServer' = Append(toServer, m) /\ serving' = serving /\ sent' = sent
      /\ presences' = presences /\ nextSession' = nextSession /\ toClient' = toClient
  BY DEF Send, discord
<1>1. /\ Len(toServer) \in Nat /\ Len(toServer') = Len(toServer) + 1
      /\ \A i \in 1 .. Len(toServer) : toServer'[i] = toServer[i]
      /\ toServer'[Len(toServer) + 1] = m
  BY <1>0, AppendIs
<1>2. /\ m.op \notin Requests
      /\ Free(toServer, Requests) <=> Free(toServer', Requests)
      /\ Once(toServer, Requests) => Once(toServer', Requests)
  BY <1>0, <1>1, AppendKinds DEF Requests, Free
<1>3. WireInv'
  BY <1>0, <1>2 DEF CallInv, WireInv
<1>4. SessionInv'
  <2>1. \A i \in 1 .. Len(toServer') :
          /\ toServer'[i].op = "identify" => session = None
          /\ toServer'[i].op = "resume" => session # None /\ toServer'[i].session = session
    BY <1>1 DEF CallInv, SessionInv
  <2>q. QED
    BY <1>0, <2>1 DEF CallInv, SessionInv
<1>5. SequenceInv'
  <2>1. serving # None => sequence <= sent[serving]
    <3>1. CASE Free(toClient, {"ready"})
      BY <3>1 DEF CallInv, SessionInv, SequenceInv
    <3>2. CASE ~ Free(toClient, {"ready"})
      BY <3>2 DEF CallInv, SessionInv, SequenceInv, Free
    <3>q. QED
      BY <3>1, <3>2
  <2>2. ASSUME NEW i \in 1 .. Len(toServer'), toServer'[i].op = "heartbeat"
        PROVE  /\ serving # None => toServer'[i].seq <= sent[serving]
               /\ \A j \in 1 .. Len(toServer') : j < i =>
                    /\ toServer'[j].op = "identify" => toServer'[i].seq = None
                    /\ toServer'[j].op = "resume" => toServer'[i].seq <= sent[session]
    <3>1. CASE i \in 1 .. Len(toServer)
      BY <1>1, <2>2, <3>1 DEF CallInv, SequenceInv
    <3>2. CASE i = Len(toServer) + 1
      <4>1. toServer'[i].seq = sequence
        BY <1>1, <2>2, <3>2
      <4>2. ASSUME NEW j \in 1 .. Len(toServer'), j < i
            PROVE  /\ toServer'[j].op = "identify" => sequence = None
                   /\ toServer'[j].op = "resume" => sequence <= sent[session]
        BY <1>1, <3>2, <4>2 DEF CallInv, SessionInv, SequenceInv
      <4>q. QED
        BY <2>1, <4>1, <4>2
    <3>q. QED
      BY <1>1, <3>1, <3>2
  <2>q. QED
    BY <1>0, <2>2 DEF CallInv, SequenceInv
<1>6. PresenceInv'
  <2>1. CASE m.op = "heartbeat"
    <3>1. m.op \notin {"presence"}
      BY <2>1
    <3>2. /\ Free(toServer, {"presence"}) <=> Free(toServer', {"presence"})
          /\ Once(toServer, {"presence"}) => Once(toServer', {"presence"})
      BY <1>0, <1>1, <3>1, AppendKinds DEF Free
    <3>q. QED
      BY <1>0, <2>1, <3>2 DEF CallInv, PresenceInv, PresenceOnce
  <2>2. CASE m.op = "presence"
    <3>1. Once(toServer', {"presence"})
      BY <1>0, <2>2, AppendKinds
    <3>2. session # None /\ serving = session
      BY <2>2 DEF CallInv, SessionInv
    <3>q. QED
      BY <1>0, <2>2, <3>1, <3>2 DEF CallInv, PresenceInv, PresenceOnce
  <2>q. QED
    BY <2>1, <2>2
<1>q. QED
  BY <1>3, <1>4, <1>5, <1>6 DEF CallInv

\* The client reads a message that changes nothing: HELLO, or RECONNECT.
LEMMA CallRead ==
  ASSUME CallInv, toClient \in Seq(Incoming), NEW m, Receive(m),
         m.op \in {"hello", "reconnect"},
         pc \in {"hello", "ready"}, pc' \in {"identify", "failed", "closeTask"},
         pc' = "identify" => pc = "hello",
         UNCHANGED <<call, ws, session, sequence, presenceSent, toServer, discord, refused>>
  PROVE  CallInv'
<1>0. /\ toClient # <<>> /\ Head(toClient) = m /\ toClient' = Tail(toClient)
      /\ serving' = serving /\ sent' = sent /\ presences' = presences
      /\ nextSession' = nextSession /\ toServer' = toServer
  BY DEF Receive, discord
<1>1. /\ Len(toClient) \in Nat /\ Len(toClient) >= 1 /\ Len(toClient') = Len(toClient) - 1
      /\ \A i \in 1 .. Len(toClient') : i + 1 \in 1 .. Len(toClient) /\ toClient'[i] = toClient[i + 1]
      /\ toClient[1] = m
  BY <1>0, TailIs
<1>2. /\ Once(toClient, Answers) => Once(toClient', Answers)
      /\ Free(toClient, Answers) => Free(toClient', Answers)
      /\ Free(toClient, {"event"}) => Free(toClient', {"event"})
      /\ Free(toClient, {"invalid"}) => Free(toClient', {"invalid"})
  BY <1>0, TailKinds
<1>3. Free(toClient', {"ready"}) => Free(toClient, {"ready"})
  <2>1. m.op \notin {"ready"}
    OBVIOUS
  <2>q. QED
    BY <1>0, <2>1, TailRest
<1>4. WireInv'
  BY <1>0, <1>2 DEF CallInv, WireInv
<1>5. SessionInv'
  <2>1. \A i \in 1 .. Len(toClient') :
       /\ toClient'[i].op = "ready" =>
            /\ session = None
            /\ toClient'[i].session < nextSession /\ toClient'[i].session \notin refused
            /\ ws = "open" => serving = toClient'[i].session
       /\ toClient'[i].op = "resumed" => session # None /\ (ws = "open" => serving = session)
    BY <1>1 DEF CallInv, SessionInv
  <2>q. QED
    BY <1>0, <1>3, <2>1 DEF CallInv, SessionInv
<1>6. SequenceInv'
  <2>1. ASSUME NEW i \in 1 .. Len(toClient'), toClient'[i].op = "ready"
        PROVE  /\ toClient'[i].seq <= sent[toClient'[i].session]
               /\ \A j \in 1 .. Len(toClient') : toClient'[j].op = "event" =>
                    j > i /\ toClient'[j].seq <= sent[toClient'[i].session]
    <3>1. i + 1 \in 1 .. Len(toClient) /\ toClient'[i] = toClient[i + 1]
      BY <1>1
    <3>2. \A j \in 1 .. Len(toClient') : toClient'[j].op = "event" => j + 1 > i + 1
      BY <1>1, <2>1, <3>1 DEF CallInv, SequenceInv
    <3>q. QED
      BY <1>1, <2>1, <3>1, <3>2 DEF CallInv, SequenceInv
  <2>2. Free(toClient', {"ready"}) =>
          \A i \in 1 .. Len(toClient') : toClient'[i].op \in {"event", "resumed"} =>
            session # None /\ toClient'[i].seq <= sent[session]
    BY <1>1, <1>3 DEF CallInv, SequenceInv
  <2>q. QED
    BY <1>0, <2>1, <2>2 DEF CallInv, SequenceInv
<1>7. PresenceInv'
  <2>1. \A i \in 1 .. Len(toClient') :
          toClient'[i].op = "ready" => presences[toClient'[i].session] = 0
    BY <1>1 DEF CallInv, PresenceInv
  <2>2. Free(toServer, {"presence"})
    BY DEF CallInv, PresenceInv
  <2>q. QED
    BY <1>0, <2>1, <2>2 DEF CallInv, PresenceInv, PresenceOnce
<1>q. QED
  BY <1>4, <1>5, <1>6, <1>7 DEF CallInv

\* An IDENTIFY, or a RESUME of the session at hand, with no other request under way.
LEMMA CallAsked ==
  ASSUME CallInv, toServer \in Seq(Outgoing), NEW m, Send(m), ws = "open",
         \/ m = Identify /\ session' = None
         \/ m = Resume(session, sequence) /\ session' = session /\ session # None,
         pc \in {"identify", "ready"}, pc' = "ready",
         Free(toServer, Requests), Free(toClient', Answers), Free(toClient', {"event"}),
         serving = None, UNCHANGED <<call, ws, discord>>,
         refused' \subseteq refused \cup ({session} \ {None}),
         session' # None => UNCHANGED <<sequence, presenceSent, refused>>,
         session' = None => sequence' = None /\ nextSession > 0 /\ None \notin refused'
  PROVE  CallInv'
<1>0. /\ toServer' = Append(toServer, m) /\ serving' = serving /\ sent' = sent
      /\ presences' = presences /\ nextSession' = nextSession
  BY DEF Send, discord
<1>1. /\ Len(toServer) \in Nat /\ Len(toServer') = Len(toServer) + 1
      /\ \A i \in 1 .. Len(toServer) : toServer'[i] = toServer[i]
      /\ toServer'[Len(toServer) + 1] = m
  BY <1>0, AppendIs
<1>2. m.op \in {"identify", "resume"} /\ (m.op = "resume" => m.session = session)
  BY DEF Identify, Resume
<1>3. /\ Once(toServer', Requests)
      /\ Once(toServer, {"presence"}) => Once(toServer', {"presence"})
      /\ Free(toServer, {"presence"}) => Free(toServer', {"presence"})
  <2>1. m.op \notin {"presence"}
    BY <1>2
  <2>q. QED
    BY <1>0, <2>1, AppendKinds
<1>4. \A i \in 1 .. Len(toClient') :
        toClient'[i].op \notin {"ready", "resumed", "invalid", "event"}
  BY DEF Free, Answers
<1>5. Once(toClient', Answers)
  BY DEF Free, Once
<1>6. Free(toServer, {"presence"})
  BY DEF CallInv, PresenceInv
<1>7. WireInv'
  BY <1>0, <1>3, <1>5 DEF CallInv, WireInv
<1>8. SessionInv'
  <2>1. \A i \in 1 .. Len(toServer) : toServer'[i].op \notin {"identify", "resume"}
    BY <1>1 DEF Free, Requests
  <2>2. \A i \in 1 .. Len(toServer') :
          /\ toServer'[i].op = "identify" => session' = None
          /\ toServer'[i].op = "resume" => session' # None /\ toServer'[i].session = session'
    BY <1>1, <1>2, <2>1 DEF Identify, Resume
  <2>3. session' < nextSession /\ session' \notin refused'
    BY DEF CallInv, SessionInv, None
  <2>4. \A s \in refused' : s < nextSession
    BY DEF CallInv, SessionInv
  <2>5. call' = "connect" => session' = None
    BY DEF CallInv, SessionInv
  <2>q. QED
    BY <1>0, <1>4, <2>2, <2>3, <2>4, <2>5 DEF SessionInv
<1>9. SequenceInv'
  <2>1. ASSUME NEW i \in 1 .. Len(toServer'), toServer'[i].op = "heartbeat",
               NEW j \in 1 .. Len(toServer'), j < i
        PROVE  toServer'[j].op \notin {"identify", "resume"}
    BY <1>1, <2>1 DEF Free, Requests
  <2>2. session' # None => sequence' <= sent[session']
    BY DEF CallInv, SequenceInv
  <2>3. session' = None => sequence' = None
    BY DEF CallInv, SequenceInv
  <2>4. \A j \in 1 .. Len(toServer') :
          toServer'[j].op = "resume" => session' # None /\ toServer'[j].seq <= sent[session']
    <3>1. \A i \in 1 .. Len(toServer) : toServer'[i].op \notin {"identify", "resume"}
      BY <1>1 DEF Free, Requests
    <3>2. m.op = "resume" => session' # None /\ m.seq <= sent[session']
      BY DEF CallInv, SequenceInv, Identify, Resume
    <3>q. QED
      BY <1>1, <3>1, <3>2
  <2>q. QED
    BY <1>0, <1>4, <2>1, <2>2, <2>3, <2>4 DEF SequenceInv
<1>10. PresenceInv'
  <2>1. ~ presenceSent' /\ session' # None => presences[session'] = 0
    BY DEF CallInv, PresenceInv
  <2>q. QED
    BY <1>0, <1>3, <1>4, <1>6, <2>1 DEF CallInv, PresenceInv, PresenceOnce
<1>q. QED
  BY <1>7, <1>8, <1>9, <1>10 DEF CallInv

\* A dispatch that is read before the answer is one of the session at hand.
LEMMA CallEvent ==
  ASSUME CallInv, toClient \in Seq(Incoming), NEW q, Receive(Event(q)), sequence' = q,
         pc = "ready",
         UNCHANGED <<pc, call, ws, session, presenceSent, toServer, discord, refused>>
  PROVE  CallInv'
<1>0. /\ toClient # <<>> /\ Head(toClient) = Event(q) /\ toClient' = Tail(toClient)
      /\ serving' = serving /\ sent' = sent /\ presences' = presences
      /\ nextSession' = nextSession /\ toServer' = toServer
  BY DEF Receive, discord
<1>1. /\ Len(toClient) \in Nat /\ Len(toClient) >= 1 /\ Len(toClient') = Len(toClient) - 1
      /\ \A i \in 1 .. Len(toClient') : i + 1 \in 1 .. Len(toClient) /\ toClient'[i] = toClient[i + 1]
      /\ toClient[1] = Event(q) /\ 1 \in 1 .. Len(toClient)
  BY <1>0, TailIs
<1>2. Event(q).op = "event" /\ Event(q).seq = q
  BY DEF Event
<1>3. \A i \in 1 .. Len(toClient) : toClient[i].op # "ready"
  <2>1. ASSUME NEW i \in 1 .. Len(toClient), toClient[i].op = "ready" PROVE FALSE
    <3>1. 1 > i
      BY <1>1, <1>2, <2>1 DEF CallInv, SequenceInv
    <3>q. QED
      BY <3>1
  <2>q. QED
    BY <2>1
<1>4. Free(toClient, {"ready"})
  BY <1>3 DEF Free
<1>5. session # None /\ q <= sent[session]
  BY <1>1, <1>2, <1>4 DEF CallInv, SequenceInv
<1>6. /\ Once(toClient, Answers) => Once(toClient', Answers)
      /\ Free(toClient, Answers) => Free(toClient', Answers)
      /\ Free(toClient, {"event"}) => Free(toClient', {"event"})
      /\ Free(toClient, {"invalid"}) => Free(toClient', {"invalid"})
      /\ Free(toClient', {"ready"})
  BY <1>0, <1>4, TailKinds
<1>7. WireInv'
  BY <1>0, <1>6 DEF CallInv, WireInv
<1>8. SessionInv'
  BY <1>0, <1>1, <1>3, <1>4 DEF CallInv, SessionInv
<1>9. SequenceInv'
  BY <1>0, <1>1, <1>3, <1>4, <1>5 DEF CallInv, SequenceInv
<1>10. PresenceInv'
  BY <1>0, <1>1, <1>3 DEF CallInv, PresenceInv, PresenceOnce
<1>q. QED
  BY <1>7, <1>8, <1>9, <1>10 DEF CallInv

\* READY or RESUMED is the only answer: what is left in the wire is of its session.
LEMMA CallReady ==
  ASSUME CallInv, toClient \in Seq(Incoming), NEW q, sequence' = q,
         \/ Receive(Resumed(q)) /\ session' = session
         \/ \E s \in Sessions : Receive(Ready(s, q)) /\ session' = s,
         pc = "ready", pc' = "presence",
         UNCHANGED <<call, ws, presenceSent, toServer, discord, refused>>
  PROVE  CallInv'
<1> DEFINE m == Head(toClient)
<1>0. /\ toClient # <<>> /\ toClient' = Tail(toClient)
      /\ serving' = serving /\ sent' = sent /\ presences' = presences
      /\ nextSession' = nextSession /\ toServer' = toServer
  BY DEF Receive, discord
<1>1. /\ Len(toClient) \in Nat /\ Len(toClient) >= 1 /\ Len(toClient') = Len(toClient) - 1
      /\ \A i \in 1 .. Len(toClient') : i + 1 \in 1 .. Len(toClient) /\ toClient'[i] = toClient[i + 1]
      /\ toClient[1] = m /\ 1 \in 1 .. Len(toClient)
  BY <1>0, TailIs
<1>2. /\ m.seq = q /\ m.op \in {"ready", "resumed"}
      /\ m.op = "ready" => m.session = session' /\ session' \in Sessions
      /\ m.op = "resumed" => session' = session
  BY DEF Receive, Resumed, Ready
<1> HIDE DEF m
<1>3. Free(toClient', Answers)
  BY <1>0, <1>2, TailKinds DEF CallInv, WireInv, Answers, m
<1>4. Free(toServer, Requests)
  <2>1. ~ Free(toClient, Answers)
    BY <1>1, <1>2 DEF Free, Answers
  <2>q. QED
    BY <2>1 DEF CallInv, WireInv
<1>5. \A i \in 1 .. Len(toClient') : toClient'[i].op \notin {"ready", "resumed", "invalid"}
  BY <1>3 DEF Free, Answers
<1>6. /\ session' # None /\ session' < nextSession /\ session' \notin refused
      /\ ws = "open" => serving = session'
      /\ q <= sent[session'] /\ (~ presenceSent => presences[session'] = 0)
      /\ \A i \in 1 .. Len(toClient') : toClient'[i].op = "event" => toClient'[i].seq <= sent[session']
  <2>1. CASE m.op = "ready"
    <3>1. session' \in Sessions /\ session' # None
      BY <1>2, <2>1 DEF Sessions, None
    <3>q. QED
      BY <1>1, <1>2, <2>1, <3>1 DEF CallInv, SessionInv, SequenceInv, PresenceInv
  <2>2. CASE m.op = "resumed"
    <3>1. \A i \in 1 .. Len(toClient) : toClient[i].op # "ready"
      <4>1. ASSUME NEW i \in 1 .. Len(toClient), toClient[i].op = "ready" PROVE FALSE
        <5>1. i = 1
          BY <1>1, <2>2, <4>1 DEF CallInv, WireInv, Once, Answers
        <5>q. QED
          BY <1>1, <2>2, <4>1, <5>1
      <4>q. QED
        BY <4>1
    <3>2. Free(toClient, {"ready"})
      BY <3>1 DEF Free
    <3>q. QED
      BY <1>1, <1>2, <2>2, <3>2 DEF CallInv, SessionInv, SequenceInv, PresenceInv
  <2>q. QED
    BY <1>2, <2>1, <2>2
<1>7. serving # None => serving = session'
  BY <1>6 DEF CallInv, WireInv
<1>8. WireInv'
  <2>1. Free(toClient', {"invalid"}) /\ Once(toClient', Answers)
    BY <1>3, <1>5 DEF Free, Once
  <2>q. QED
    BY <1>0, <1>3, <1>4, <2>1 DEF CallInv, WireInv
<1>9. SessionInv'
  <2>1. \A i \in 1 .. Len(toServer) : toServer[i].op \notin {"identify", "resume"}
    BY <1>4 DEF Free, Requests
  <2>q. QED
    BY <1>0, <1>5, <1>6, <1>7, <2>1 DEF CallInv, SessionInv
<1>10. SequenceInv'
  <2>1. \A i \in 1 .. Len(toServer) : toServer[i].op \notin {"identify", "resume"}
    BY <1>4 DEF Free, Requests
  <2>q. QED
    BY <1>0, <1>5, <1>6, <2>1 DEF CallInv, SequenceInv
<1>11. PresenceInv'
  <2>1. Free(toServer, {"presence"})
    BY DEF CallInv, PresenceInv
  <2>q. QED
    BY <1>0, <1>5, <1>6, <2>1 DEF CallInv, PresenceInv, PresenceOnce
<1>q. QED
  BY <1>8, <1>9, <1>10, <1>11 DEF CallInv

\* Messages that have a session or a sequence number.
LEMMA MessageTypes ==
  ASSUME toClient \in Seq(Incoming), toServer \in Seq(Outgoing)
  PROVE  /\ \A i \in 1 .. Len(toClient) :
              /\ toClient[i].op = "ready" => toClient[i].session \in Sessions
              /\ toClient[i].op \in {"ready", "resumed", "event"} => toClient[i].seq \in 1 .. MaxSequence
         /\ \A i \in 1 .. Len(toServer) :
              /\ toServer[i].op = "resume" => toServer[i].session \in Sessions
              /\ toServer[i].op \in {"resume", "heartbeat"} => toServer[i].seq \in 0 .. MaxSequence
<1>1. ASSUME NEW m \in Incoming
      PROVE  /\ m.op = "ready" => m.session \in Sessions
             /\ m.op \in {"ready", "resumed", "event"} => m.seq \in 1 .. MaxSequence
  BY DEF Incoming, Hello, Invalid, Reconnect7, Event, Resumed, Ready
<1>2. ASSUME NEW m \in Outgoing
      PROVE  /\ m.op = "resume" => m.session \in Sessions
             /\ m.op \in {"resume", "heartbeat"} => m.seq \in 0 .. MaxSequence
  BY DEF Outgoing, Identify, Presence, Heartbeat, Resume
<1>3. \A i \in 1 .. Len(toClient) : toClient[i] \in Incoming
  OBVIOUS
<1>4. \A i \in 1 .. Len(toServer) : toServer[i] \in Outgoing
  OBVIOUS
<1>q. QED
  BY <1>1, <1>2, <1>3, <1>4

\* Discord says something that answers nothing: a dispatch, or to reconnect.
LEMMA CallTold ==
  ASSUME TypeOK, CallInv, NEW m, Answer(m), ws = "open",
         pc \notin {"new", "opening", "lost", "closeLock", "closed"},
         \/ m.op = "reconnect" /\ UNCHANGED sent
         \/ /\ m.op = "event" /\ serving \in Sessions /\ m.seq = sent[serving] + 1
            /\ sent' = [sent EXCEPT ![serving] = @ + 1],
         UNCHANGED <<pc, call, ws, state, toServer, serving, presences, nextSession, refused>>
  PROVE  CallInv'
<1>0. /\ toClient' = Append(toClient, m) /\ toServer' = toServer /\ session' = session
      /\ sequence' = sequence /\ presenceSent' = presenceSent
      /\ m.op \in {"reconnect", "event"}
  BY DEF Answer, state
<1>1. /\ Len(toClient) \in Nat /\ Len(toClient') = Len(toClient) + 1
      /\ \A i \in 1 .. Len(toClient) : toClient'[i] = toClient[i]
      /\ toClient'[Len(toClient) + 1] = m
  BY <1>0, AppendIs DEF TypeOK
<1>2. /\ Free(toClient', Answers) <=> Free(toClient, Answers)
      /\ Once(toClient, Answers) => Once(toClient', Answers)
      /\ Free(toClient', {"ready"}) <=> Free(toClient, {"ready"})
      /\ Free(toClient', {"invalid"}) <=> Free(toClient, {"invalid"})
      /\ m.op = "reconnect" => (Free(toClient', {"event"}) <=> Free(toClient, {"event"}))
  <2>1. m.op \notin Answers /\ m.op \notin {"ready"} /\ m.op \notin {"invalid"}
        /\ (m.op = "reconnect" => m.op \notin {"event"})
    BY <1>0 DEF Answers
  <2>q. QED
    BY <1>0, <2>1, AppendKinds DEF TypeOK
<1>3. m.op = "event" => /\ serving # None /\ pc \notin {"hello", "identify"}
                        /\ Free(toServer, Requests) /\ Free(toClient, {"invalid"})
  <2>1. m.op = "event" => serving # None
    BY DEF Sessions, None
  <2>q. QED
    BY <2>1 DEF CallInv, WireInv
<1>4. WireInv'
  BY <1>0, <1>2, <1>3 DEF CallInv, WireInv
<1>5. SessionInv'
  BY <1>0, <1>1, <1>2 DEF CallInv, SessionInv
<1>6. SequenceInv'
  <2>1. CASE m.op = "reconnect"
    BY <1>0, <1>1, <1>2, <2>1 DEF CallInv, SequenceInv
  <2>2. CASE m.op = "event"
    <3>0. /\ serving \in Sessions /\ m.seq = sent[serving] + 1
          /\ sent' = [sent EXCEPT ![serving] = sent[serving] + 1]
          /\ sent \in [Sessions -> Nat]
      BY <2>2, GatewayAssumption DEF TypeOK
    <3>1. \A x \in Nat, s \in Sessions : x <= sent[s] => x <= sent'[s]
      <4>1. ASSUME NEW x \in Nat, NEW s \in Sessions, x <= sent[s] PROVE x <= sent'[s]
        <5>1. sent[s] \in Nat /\ sent'[s] = IF s = serving THEN sent[s] + 1 ELSE sent[s]
          BY <3>0, <4>1
        <5>q. QED
          BY <4>1, <5>1
      <4>q. QED
        BY <4>1
    <3>2. m.seq <= sent'[serving] /\ serving # None
      BY <1>3, <2>2, <3>0
    <3>3. sequence \in Nat /\ session \in Sessions \cup {None}
      BY GatewayAssumption DEF TypeOK
    <3>4. session # None => sequence <= sent'[session]
      BY <3>1, <3>3 DEF CallInv, SequenceInv
    <3>5. ASSUME NEW i \in 1 .. Len(toClient'), toClient'[i].op = "ready"
          PROVE  /\ toClient'[i].seq <= sent'[toClient'[i].session]
                 /\ \A j \in 1 .. Len(toClient') : toClient'[j].op = "event" =>
                      j > i /\ toClient'[j].seq <= sent'[toClient'[i].session]
      <4>1. i \in 1 .. Len(toClient) /\ toClient'[i] = toClient[i]
        BY <1>1, <2>2, <3>5
      <4>2. toClient[i].session \in Sessions /\ toClient[i].session = serving
        BY <3>5, <4>1, MessageTypes DEF CallInv, SessionInv, TypeOK
      <4>3. toClient[i].seq <= sent'[toClient[i].session]
        <5>1. toClient[i].seq <= sent[toClient[i].session]
          BY <3>5, <4>1 DEF CallInv, SequenceInv
        <5>2. toClient[i].seq \in Nat
          BY <3>5, <4>1, MessageTypes DEF TypeOK
        <5>q. QED
          BY <3>1, <4>1, <4>2, <5>1, <5>2
      <4>4. ASSUME NEW j \in 1 .. Len(toClient), toClient[j].op = "event"
            PROVE  j > i /\ toClient[j].seq <= sent'[toClient[i].session]
        <5>1. j > i /\ toClient[j].seq <= sent[toClient[i].session]
          BY <3>5, <4>1, <4>4 DEF CallInv, SequenceInv
        <5>2. toClient[j].seq \in Nat
          BY <4>4, MessageTypes DEF TypeOK
        <5>q. QED
          BY <3>1, <4>2, <5>1, <5>2
      <4>q. QED
        BY <1>1, <3>2, <4>1, <4>2, <4>3, <4>4
    <3>6. ASSUME Free(toClient, {"ready"}), NEW i \in 1 .. Len(toClient'),
                 toClient'[i].op \in {"event", "resumed"}
          PROVE  session # None /\ toClient'[i].seq <= sent'[session]
      <4>1. serving = session
        BY <1>3, <2>2, <3>6 DEF CallInv, SessionInv
      <4>2. CASE i \in 1 .. Len(toClient)
        <5>1. session # None /\ toClient[i].seq <= sent[session] /\ toClient'[i] = toClient[i]
          BY <1>1, <3>6, <4>2 DEF CallInv, SequenceInv
        <5>2. toClient[i].seq \in Nat
          BY <3>6, <4>2, <5>1, MessageTypes DEF TypeOK
        <5>q. QED
          BY <3>1, <3>3, <5>1, <5>2
      <4>q. QED
        BY <1>1, <3>2, <4>1, <4>2
    <3>7. \A i \in 1 .. Len(toServer) : toServer[i].op \notin {"identify", "resume"}
      BY <1>3, <2>2 DEF Free, Requests
    <3>8. \A i \in 1 .. Len(toServer) : toServer[i].op = "heartbeat" =>
            toServer[i].seq <= sent'[serving]
      <4>1. \A i \in 1 .. Len(toServer) : toServer[i].op = "heartbeat" =>
              toServer[i].seq <= sent[serving]
        BY <3>2 DEF CallInv, SequenceInv
      <4>2. \A i \in 1 .. Len(toServer) : toServer[i].op = "heartbeat" => toServer[i].seq \in Nat
        BY MessageTypes DEF TypeOK
      <4>q. QED
        BY <3>0, <3>1, <4>1, <4>2
    <3>q. QED
      BY <1>0, <1>2, <3>4, <3>5, <3>6, <3>7, <3>8 DEF CallInv, SequenceInv
  <2>q. QED
    BY <1>0, <2>1, <2>2
<1>7. PresenceInv'
  BY <1>0, <1>1 DEF CallInv, PresenceInv, PresenceOnce
<1>q. QED
  BY <1>4, <1>5, <1>6, <1>7 DEF CallInv

\* A refusal is read: no request is under way any more, nor an answer.
LEMMA CallRefused ==
  ASSUME CallInv, toClient \in Seq(Incoming), Receive(Invalid), pc = "ready",
         pc' \in {"failed", "closeTask"}, session' = None, sequence' = None,
         nextSession \in Nat \ {0}, None \notin refused',
         refused' \subseteq refused \cup ({session} \ {None}),
         UNCHANGED <<call, ws, toServer, discord>>
  PROVE  CallInv'
<1>0. /\ toClient # <<>> /\ Head(toClient) = Invalid /\ toClient' = Tail(toClient)
      /\ serving' = serving /\ sent' = sent /\ presences' = presences
      /\ nextSession' = nextSession /\ toServer' = toServer
  BY DEF Receive, discord
<1>1. 1 \in 1 .. Len(toClient) /\ toClient[1].op = "invalid"
  BY <1>0, TailIs DEF Invalid
<1>2. ~ Free(toClient, {"invalid"}) /\ ~ Free(toClient, Answers)
  BY <1>1 DEF Free, Answers
<1>3. Free(toServer, Requests) /\ serving = None /\ Free(toClient, {"event"})
  BY <1>2 DEF CallInv, WireInv
<1>4. Free(toClient', Answers) /\ Free(toClient', {"event"})
  <2>1. Head(toClient).op \in Answers
    BY <1>0 DEF Invalid, Answers
  <2>q. QED
    BY <1>0, <1>3, <2>1, TailKinds DEF CallInv, WireInv
<1>5. \A i \in 1 .. Len(toClient') : toClient'[i].op \notin {"ready", "resumed", "invalid", "event"}
  BY <1>4 DEF Free, Answers
<1>6. \A i \in 1 .. Len(toServer) : toServer[i].op \notin {"identify", "resume", "presence"}
  BY <1>3 DEF CallInv, PresenceInv, Free, Requests
<1>7. Free(toServer, {"presence"}) /\ Once(toServer, {"presence"}) /\ Once(toClient', Answers)
      /\ Free(toClient', {"invalid"})
  BY <1>4, <1>5, <1>6 DEF Free, Once
<1>8. WireInv'
  BY <1>0, <1>3, <1>4, <1>7 DEF CallInv, WireInv
<1>9. SessionInv'
  BY <1>0, <1>3, <1>5, <1>6 DEF CallInv, SessionInv, None
<1>10. SequenceInv'
  BY <1>0, <1>3, <1>5, <1>6 DEF CallInv, SequenceInv
<1>11. PresenceInv'
  BY <1>0, <1>5, <1>7 DEF CallInv, PresenceInv, PresenceOnce
<1>q. QED
  BY <1>8, <1>9, <1>10, <1>11 DEF CallInv

\* What is left when Discord has read a message.
LEMMA ServeTail ==
  ASSUME toServer \in Seq(Outgoing), toServer # <<>>, toServer' = Tail(toServer)
  PROVE  /\ \A i \in 1 .. Len(toServer') :
              i + 1 \in 1 .. Len(toServer) /\ toServer'[i] = toServer[i + 1] /\ 1 < i + 1
         /\ \A i, j \in 1 .. Len(toServer') : j < i => j + 1 < i + 1
         /\ 1 \in 1 .. Len(toServer) /\ toServer[1] = Head(toServer)
<1>1. /\ Len(toServer) \in Nat /\ Len(toServer) >= 1 /\ Len(toServer') = Len(toServer) - 1
      /\ \A i \in 1 .. Len(toServer') : i + 1 \in 1 .. Len(toServer) /\ toServer'[i] = toServer[i + 1]
      /\ toServer[1] = Head(toServer)
  BY TailIs
<1>q. QED
  BY <1>1

\* A request is read, and Discord serves nobody yet.
LEMMA ServeRequest ==
  ASSUME CallInv, toServer \in Seq(Outgoing), toServer # <<>>, toServer' = Tail(toServer),
         Head(toServer).op \in Requests, pc \in PCs
  PROVE  /\ Free(toServer', Requests) /\ Free(toServer', {"presence"}) /\ serving = None
         /\ pc \in {"ready", "failed", "closeTask", "closeWs"}
         /\ \A i \in 1 .. Len(toClient) :
              toClient[i].op \notin {"ready", "resumed", "invalid", "event"}
         /\ Free(toClient, Answers) /\ Free(toClient, {"event"})
         /\ \A i \in 1 .. Len(toServer') : toServer'[i].op \notin {"identify", "resume", "presence"}
<1>1. 1 \in 1 .. Len(toServer) /\ toServer[1] = Head(toServer)
  BY ServeTail
<1>2. ~ Free(toServer, Requests)
  BY <1>1 DEF Free
<1>3. Free(toServer', Requests)
  BY TailKinds DEF CallInv, WireInv
<1>4. Free(toClient, Answers) /\ Free(toClient, {"event"}) /\ serving = None
  BY <1>2 DEF CallInv, WireInv
<1>5. Free(toServer, {"presence"})
  BY <1>4 DEF CallInv, PresenceInv
<1>6. Free(toServer', {"presence"})
  BY <1>5, TailKinds
<1>7. pc \in {"ready", "failed", "closeTask", "closeWs"}
  BY <1>2 DEF CallInv, WireInv, PCs, Handshaking
<1>q. QED
  BY <1>3, <1>4, <1>6, <1>7 DEF Free, Requests, Answers

\* An IDENTIFY is answered with a new session.
LEMMA ServeIdentify ==
  ASSUME TypeOK, CallInv, ws = "open", toServer # <<>>, toServer' = Tail(toServer),
         Head(toServer).op = "identify", nextSession \in Sessions,
         serving' = nextSession, nextSession' = nextSession + 1,
         sent' = [sent EXCEPT ![nextSession] = 1], Answer(Ready(nextSession, 1)),
         UNCHANGED <<client, beat, state, refused, presences>>
  PROVE  CallInv'
<1>0. /\ toClient' = Append(toClient, Ready(nextSession, 1)) /\ session' = session
      /\ pc' = pc /\ call' = call /\ ws' = ws /\ nextSession \in Nat /\ nextSession # None
      /\ sequence' = sequence /\ presenceSent' = presenceSent
      /\ toServer \in Seq(Outgoing) /\ toClient \in Seq(Incoming)
  BY DEF Answer, state, client, TypeOK, Sessions, None
<1>1. /\ Len(toClient) \in Nat /\ Len(toClient') = Len(toClient) + 1
      /\ \A i \in 1 .. Len(toClient) : toClient'[i] = toClient[i]
      /\ toClient'[Len(toClient) + 1] = Ready(nextSession, 1)
  BY <1>0, AppendIs
<1>2. /\ Ready(nextSession, 1).op = "ready" /\ Ready(nextSession, 1).session = nextSession
      /\ Ready(nextSession, 1).seq = 1
  BY DEF Ready
<1>3. Head(toServer).op \in Requests
  BY DEF Requests
<1>4. /\ Free(toServer', Requests) /\ Free(toServer', {"presence"}) /\ serving = None
      /\ pc \in {"ready", "failed", "closeTask", "closeWs"}
      /\ \A i \in 1 .. Len(toClient) :
           toClient[i].op \notin {"ready", "resumed", "invalid", "event"}
      /\ Free(toClient, Answers) /\ Free(toClient, {"event"})
      /\ \A i \in 1 .. Len(toServer') : toServer'[i].op \notin {"identify", "resume", "presence"}
  BY <1>0, <1>3, ServeRequest DEF TypeOK
<1>5. /\ Once(toClient', Answers) /\ Free(toClient', {"event"}) /\ Free(toClient', {"invalid"})
      /\ ~ Free(toClient', {"ready"})
  <2>1. Free(toClient, {"invalid"})
    BY <1>4 DEF Free
  <2>2. Ready(nextSession, 1).op \notin {"event"} /\ Ready(nextSession, 1).op \notin {"invalid"}
    BY <1>2
  <2>3. ~ Free(toClient', {"ready"})
    <3>1. Len(toClient) + 1 \in 1 .. Len(toClient') /\ toClient'[Len(toClient) + 1].op = "ready"
      BY <1>1, <1>2
    <3>q. QED
      BY <3>1 DEF Free
  <2>q. QED
    BY <1>0, <1>4, <2>1, <2>2, <2>3, AppendKinds
<1>6. session = None /\ sequence = None
  BY <1>0, ServeTail DEF CallInv, SessionInv, SequenceInv
<1>7. sent'[nextSession] = 1
  BY DEF TypeOK
<1>8. Once(toServer', Requests) /\ Once(toServer', {"presence"})
  BY <1>4 DEF Free, Once
<1>9. WireInv'
  BY <1>0, <1>4, <1>5, <1>8 DEF CallInv, WireInv
<1>10. SessionInv'
  <2>1. \A s \in refused : s < nextSession /\ s \in Nat
    BY DEF CallInv, SessionInv, TypeOK, Sessions
  <2>2. session < nextSession + 1 /\ \A s \in refused : s < nextSession + 1
    BY <1>0, <1>6, <2>1 DEF None
  <2>3. nextSession \notin refused
    BY <1>0, <2>1
  <2>4. pc \notin {"presence", "up"}
    BY <1>4
  <2>5. session \notin refused
    BY DEF CallInv, SessionInv
  <2>6. \A i \in 1 .. Len(toClient') :
       /\ toClient'[i].op = "ready" => toClient'[i].session = nextSession
       /\ toClient'[i].op # "resumed"
    BY <1>1, <1>2, <1>4
  <2>7. nextSession < nextSession + 1
    BY <1>0
  <2>q. QED
    BY <1>0, <1>4, <1>5, <1>6, <2>2, <2>3, <2>4, <2>5, <2>6, <2>7 DEF SessionInv
<1>11. SequenceInv'
  <2>1. \A i \in 1 .. Len(toClient') :
          /\ toClient'[i].op \notin {"event", "resumed"}
          /\ toClient'[i].op = "ready" => toClient'[i].seq = 1 /\ toClient'[i].session = nextSession
    BY <1>1, <1>2, <1>4
  <2>2. \A i \in 1 .. Len(toServer') : toServer'[i].op = "heartbeat" => toServer'[i].seq = None
    <3>1. /\ 1 \in 1 .. Len(toServer) /\ toServer[1].op = "identify"
          /\ \A i \in 1 .. Len(toServer') :
              i + 1 \in 1 .. Len(toServer) /\ toServer'[i] = toServer[i + 1] /\ 1 < i + 1
      BY <1>0, ServeTail
    <3>q. QED
      BY <3>1 DEF CallInv, SequenceInv
  <2>q. QED
    BY <1>0, <1>4, <1>5, <1>6, <1>7, <2>1, <2>2 DEF SequenceInv, None
<1>12. PresenceInv'
  <2>1. \A i \in 1 .. Len(toClient') :
          toClient'[i].op = "ready" => toClient'[i].session = nextSession
    BY <1>1, <1>2, <1>4
  <2>2. presences[nextSession] = 0
    BY <1>0 DEF CallInv, PresenceInv
  <2>3. \A s \in Sessions : s >= nextSession + 1 => s >= nextSession
    BY <1>0 DEF Sessions
  <2>q. QED
    BY <1>0, <1>4, <1>6, <1>8, <2>1, <2>2, <2>3 DEF CallInv, PresenceInv, PresenceOnce
<1>q. QED
  BY <1>9, <1>10, <1>11, <1>12 DEF CallInv

\* A request is refused.
LEMMA ServeRefusal ==
  ASSUME TypeOK, CallInv, ws = "open", toServer # <<>>, toServer' = Tail(toServer),
         Head(toServer).op \in Requests, serving' = None, Answer(Invalid),
         UNCHANGED <<client, beat, state, refused, sent, presences, nextSession>>
  PROVE  CallInv'
<1>0. /\ toClient' = Append(toClient, Invalid) /\ session' = session
      /\ pc' = pc /\ call' = call /\ ws' = ws
      /\ sequence' = sequence /\ presenceSent' = presenceSent
      /\ toServer \in Seq(Outgoing) /\ toClient \in Seq(Incoming)
  BY DEF Answer, state, client, TypeOK
<1>1. /\ Len(toClient) \in Nat /\ Len(toClient') = Len(toClient) + 1
      /\ \A i \in 1 .. Len(toClient) : toClient'[i] = toClient[i]
      /\ toClient'[Len(toClient) + 1].op = "invalid"
  BY <1>0, AppendIs DEF Invalid
<1>2. /\ Free(toServer', Requests) /\ Free(toServer', {"presence"}) /\ serving = None
      /\ pc \in {"ready", "failed", "closeTask", "closeWs"}
      /\ \A i \in 1 .. Len(toClient) :
           toClient[i].op \notin {"ready", "resumed", "invalid", "event"}
      /\ Free(toClient, Answers) /\ Free(toClient, {"event"})
      /\ \A i \in 1 .. Len(toServer') : toServer'[i].op \notin {"identify", "resume", "presence"}
  BY <1>0, ServeRequest DEF TypeOK
<1>3. /\ Once(toClient', Answers) /\ Free(toClient', {"event"})
      /\ Once(toServer', Requests) /\ Once(toServer', {"presence"})
  BY <1>1, <1>2 DEF Free, Once
<1>4. \A i \in 1 .. Len(toClient') : toClient'[i].op \notin {"ready", "resumed", "event"}
  BY <1>1, <1>2
<1>5. WireInv'
  BY <1>0, <1>2, <1>3 DEF CallInv, WireInv
<1>6. SessionInv'
  BY <1>0, <1>2, <1>4 DEF CallInv, SessionInv
<1>7. SequenceInv'
  BY <1>0, <1>2, <1>4 DEF CallInv, SequenceInv
<1>8. PresenceInv'
  BY <1>0, <1>2, <1>3, <1>4 DEF CallInv, PresenceInv, PresenceOnce
<1>q. QED
  BY <1>5, <1>6, <1>7, <1>8 DEF CallInv

\* One sequence of messages after another.
LEMMA ConcatIs ==
  ASSUME NEW S, NEW e \in Seq(S), NEW f \in Seq(S)
  PROVE  /\ e \o f \in Seq(S) /\ Len(e) \in Nat /\ Len(e \o f) = Len(e) + Len(f)
         /\ \A i \in 1 .. Len(e) : (e \o f)[i] = e[i]
         /\ \A i \in 1 .. Len(f) : (e \o f)[Len(e) + i] = f[i]
  OBVIOUS

\* And a last message after both.
LEMMA ConcatThree ==
  ASSUME NEW S, NEW e \in Seq(S), NEW T, NEW f \in Seq(T), NEW r
  PROVE  /\ Len(e) \in Nat /\ Len((e \o f) \o <<r>>) = Len(e) + Len(f) + 1
         /\ \A i \in 1 .. Len(e) : ((e \o f) \o <<r>>)[i] = e[i]
         /\ \A i \in 1 .. Len(f) : ((e \o f) \o <<r>>)[Len(e) + i] = f[i]
         /\ ((e \o f) \o <<r>>)[Len(e) + Len(f) + 1] = r
<1> DEFINE U == S \cup T \cup {r}
           v == e \o f
           a == Append(v, r)
<1>0. e \in Seq(U) /\ f \in Seq(U) /\ r \in U
  OBVIOUS
<1> HIDE DEF U
<1>1. /\ v \in Seq(U) /\ Len(e) \in Nat /\ Len(f) \in Nat /\ Len(v) = Len(e) + Len(f)
      /\ \A i \in 1 .. Len(e) : v[i] = e[i]
      /\ \A i \in 1 .. Len(f) : v[Len(e) + i] = f[i]
  BY <1>0, ConcatIs
<1> HIDE DEF v
<1>2. v \o <<r>> = a
  BY <1>0, <1>1
<1>3. /\ Len(a) = Len(v) + 1 /\ a[Len(v) + 1] = r
      /\ \A i \in 1 .. Len(v) : a[i] = v[i]
  BY <1>0, <1>1
<1> HIDE DEF a
<1>4. /\ \A i \in 1 .. Len(e) : a[i] = e[i]
      /\ \A i \in 1 .. Len(f) : a[Len(e) + i] = f[i]
  BY <1>1, <1>3
<1>q. QED
  BY <1>1, <1>2, <1>3, <1>4 DEF v

\* The dispatches that a session has missed.
Missed(q, n) == [i \in 1 .. n |-> Event(q + i)]

\* They are n messages.
LEMMA MissedIs ==
  ASSUME NEW q \in Nat, NEW n \in Nat
  PROVE  /\ Missed(q, n) \in Seq({Event(q + i) : i \in 1 .. n}) /\ Len(Missed(q, n)) = n
         /\ \A i \in 1 .. n : Missed(q, n)[i] = Event(q + i)
<1>1. Missed(q, n) \in [1 .. n -> {Event(q + i) : i \in 1 .. n}]
  BY DEF Missed
<1>2. \A m, k, U : k \in Nat /\ m \in [1 .. k -> U] => m \in Seq(U) /\ Len(m) = k
  OBVIOUS
<1>3. \A i \in 1 .. n : Missed(q, n)[i] = Event(q + i)
  BY DEF Missed
<1>q. QED
  BY <1>1, <1>2, <1>3

\* A RESUME is answered with what the session has missed, and RESUMED.
LEMMA ServeResume ==
  ASSUME TypeOK, CallInv, ws = "open", toServer # <<>>, toServer' = Tail(toServer),
         Head(toServer).op = "resume", sent[session] < MaxSequence,
         serving' = session, sent' = [sent EXCEPT ![session] = @ + 1],
         NEW q \in Nat, NEW n \in Nat, q + n = sent[session], session # None,
         Len(toClient') = Len(toClient) + n + 1,
         \A i \in 1 .. Len(toClient) : toClient'[i] = toClient[i],
         \A i \in 1 .. n : toClient'[Len(toClient) + i] = Event(q + i),
         toClient'[Len(toClient) + n + 1] = Resumed(sent[session] + 1),
         UNCHANGED <<client, beat, state, refused, presences, nextSession>>
  PROVE  CallInv'
<1>0. /\ session' = session /\ pc' = pc /\ call' = call /\ ws' = ws /\ nextSession' = nextSession
      /\ sequence' = sequence /\ presenceSent' = presenceSent /\ refused' = refused
      /\ presences' = presences
      /\ toServer \in Seq(Outgoing) /\ toClient \in Seq(Incoming)
  BY DEF state, client, TypeOK
<1>1. /\ 1 \in 1 .. Len(toServer) /\ toServer[1] = Head(toServer)
      /\ \A i \in 1 .. Len(toServer') :
           i + 1 \in 1 .. Len(toServer) /\ toServer'[i] = toServer[i + 1] /\ 1 < i + 1
  BY <1>0, ServeTail
<1>3. session \in Sessions /\ sent[session] \in Nat /\ sent'[session] = sent[session] + 1
  BY GatewayAssumption DEF TypeOK
<1>4. Head(toServer).op \in Requests
  BY DEF Requests
<1>5. /\ Free(toServer', Requests) /\ Free(toServer', {"presence"}) /\ serving = None
      /\ pc \in {"ready", "failed", "closeTask", "closeWs"}
      /\ \A i \in 1 .. Len(toClient) :
           toClient[i].op \notin {"ready", "resumed", "invalid", "event"}
      /\ Free(toClient, Answers) /\ Free(toClient, {"event"})
      /\ \A i \in 1 .. Len(toServer') : toServer'[i].op \notin {"identify", "resume", "presence"}
  BY <1>0, <1>4, ServeRequest DEF TypeOK
<1>7. \A i \in 1 .. Len(toClient') :
        /\ toClient'[i].op \notin {"ready", "invalid"}
        /\ toClient'[i].op = "resumed" => i = Len(toClient')
        /\ toClient'[i].op \in {"event", "resumed"} => toClient'[i].seq <= sent[session] + 1
  <2>1. ASSUME NEW i \in 1 .. Len(toClient')
        PROVE  /\ toClient'[i].op \notin {"ready", "invalid"}
               /\ toClient'[i].op = "resumed" => i = Len(toClient')
               /\ toClient'[i].op \in {"event", "resumed"} => toClient'[i].seq <= sent[session] + 1
    <3>0. Len(toClient) \in Nat
      BY <1>0
    <3>1. CASE i \in 1 .. Len(toClient)
      BY <1>5, <3>1
    <3>2. CASE i > Len(toClient) /\ i <= Len(toClient) + n
      <4>1. i - Len(toClient) \in 1 .. n /\ Len(toClient) + (i - Len(toClient)) = i
        BY <3>0, <3>2
      <4>2. toClient'[i] = Event(q + (i - Len(toClient)))
        BY <4>1
      <4>3. toClient'[i].op = "event" /\ toClient'[i].seq = q + (i - Len(toClient))
        BY <4>2 DEF Event
      <4>4. q + (i - Len(toClient)) <= sent[session] + 1
        BY <1>3, <4>1
      <4>q. QED
        BY <4>3, <4>4
    <3>3. CASE i = Len(toClient) + n + 1
      <4>1. toClient'[i].op = "resumed" /\ toClient'[i].seq = sent[session] + 1
        BY <3>3 DEF Resumed
      <4>q. QED
        BY <1>3, <3>3, <4>1
    <3>q. QED
      BY <3>0, <3>1, <3>2, <3>3
  <2>q. QED
    BY <2>1
<1>8. /\ Once(toClient', Answers) /\ Free(toClient', {"invalid"})
      /\ Once(toServer', Requests) /\ Once(toServer', {"presence"})
  <2>1. Once(toClient', Answers) /\ Free(toClient', {"invalid"})
    BY <1>7 DEF Free, Once, Answers
  <2>q. QED
    BY <1>5, <2>1 DEF Free, Once
<1>9. WireInv'
  BY <1>0, <1>5, <1>8 DEF CallInv, WireInv
<1>10. SessionInv'
  BY <1>0, <1>5, <1>7 DEF CallInv, SessionInv
<1>11. SequenceInv'
  <2>1. ASSUME NEW i \in 1 .. Len(toServer'), toServer'[i].op = "heartbeat"
        PROVE  toServer'[i].seq <= sent[session] + 1
    <3>1. toServer'[i].seq <= sent[session] /\ toServer[i + 1].seq \in Nat
      BY <1>0, <1>1, <2>1, MessageTypes DEF CallInv, SequenceInv
    <3>q. QED
      BY <1>1, <1>3, <3>1
  <2>2. sequence <= sent[session] + 1
    BY <1>3, GatewayAssumption DEF CallInv, SequenceInv, TypeOK
  <2>q. QED
    BY <1>0, <1>3, <1>5, <1>7, <2>1, <2>2 DEF SequenceInv
<1>12. PresenceInv'
  BY <1>0, <1>5, <1>7, <1>8 DEF CallInv, PresenceInv, PresenceOnce
<1>q. QED
  BY <1>9, <1>10, <1>11, <1>12 DEF CallInv

\* What Discord reads without an answer leaves the rest as it is.
LEMMA ServeQuiet ==
  ASSUME TypeOK, CallInv, ws = "open", toServer # <<>>, toServer' = Tail(toServer),
         Head(toServer).op \notin Requests,
         UNCHANGED <<client, state, refused, toClient, serving, sent, nextSession>>
  PROVE  WireInv' /\ SessionInv' /\ SequenceInv'
<1>0. /\ session' = session /\ pc' = pc /\ call' = call /\ ws' = ws
      /\ sequence' = sequence /\ presenceSent' = presenceSent
      /\ toServer \in Seq(Outgoing)
  BY DEF state, client, TypeOK
<1>1. /\ \A i \in 1 .. Len(toServer') :
           i + 1 \in 1 .. Len(toServer) /\ toServer'[i] = toServer[i + 1]
      /\ \A i, j \in 1 .. Len(toServer') : j < i => j + 1 < i + 1
  BY <1>0, ServeTail
<1>2. /\ Free(toServer, Requests) => Free(toServer', Requests)
      /\ Free(toServer', Requests) => Free(toServer, Requests)
      /\ Once(toServer, Requests) => Once(toServer', Requests)
  BY <1>0, TailKinds, TailRest
<1>3. WireInv'
  BY <1>0, <1>2 DEF CallInv, WireInv
<1>4. SessionInv'
  BY <1>0, <1>1 DEF CallInv, SessionInv
<1>5. SequenceInv'
  <2>1. \A i \in 1 .. Len(toServer') : toServer'[i].op = "resume" =>
          toServer'[i].seq <= sent[session]
    BY <1>1 DEF CallInv, SequenceInv
  <2>2. ASSUME NEW i \in 1 .. Len(toServer'), toServer'[i].op = "heartbeat"
        PROVE  /\ serving # None => toServer'[i].seq <= sent[serving]
               /\ \A j \in 1 .. Len(toServer') : j < i =>
                    /\ toServer'[j].op = "identify" => toServer'[i].seq = None
                    /\ toServer'[j].op = "resume" => toServer'[i].seq <= sent[session]
    BY <1>1, <2>2 DEF CallInv, SequenceInv
  <2>q. QED
    BY <1>0, <2>1, <2>2 DEF CallInv, SequenceInv
<1>q. QED
  BY <1>3, <1>4, <1>5

\* A heartbeat is read.
LEMMA ServeHeartbeat ==
  ASSUME TypeOK, CallInv, ws = "open", toServer # <<>>, toServer' = Tail(toServer),
         Head(toServer).op = "heartbeat",
         UNCHANGED <<client, beat, state, refused, toClient, discord>>
  PROVE  CallInv'
<1>0. /\ session' = session /\ pc' = pc /\ presenceSent' = presenceSent
      /\ serving' = serving /\ sent' = sent /\ presences' = presences /\ nextSession' = nextSession
      /\ toServer \in Seq(Outgoing) /\ Head(toServer).op \notin Requests
  BY DEF state, client, discord, TypeOK, Requests
<1>1. WireInv' /\ SessionInv' /\ SequenceInv'
  BY <1>0, ServeQuiet
<1>2. /\ Free(toServer, {"presence"}) => Free(toServer', {"presence"})
      /\ Once(toServer, {"presence"}) => Once(toServer', {"presence"})
  BY <1>0, TailKinds
<1>3. PresenceInv'
  BY <1>0, <1>2 DEF CallInv, PresenceInv, PresenceOnce
<1>q. QED
  BY <1>1, <1>3 DEF CallInv

\* A presence is read, the first of its session.
LEMMA ServePresence ==
  ASSUME TypeOK, CallInv, ws = "open", toServer # <<>>, toServer' = Tail(toServer),
         Head(toServer).op = "presence", presences' = [presences EXCEPT ![serving] = @ + 1],
         UNCHANGED <<client, beat, state, refused, toClient, serving, sent, nextSession>>
  PROVE  CallInv'
<1>0. /\ session' = session /\ pc' = pc /\ presenceSent' = presenceSent
      /\ toServer \in Seq(Outgoing) /\ Head(toServer).op \notin Requests
      /\ Head(toServer).op \in {"presence"}
  BY DEF state, client, TypeOK, Requests
<1>1. WireInv' /\ SessionInv' /\ SequenceInv'
  BY <1>0, ServeQuiet
<1>2. Free(toServer', {"presence"}) /\ Once(toServer', {"presence"})
  BY <1>0, TailKinds DEF CallInv, PresenceInv
<1>3. presenceSent /\ session # None /\ serving = session /\ presences[session] = 0
  <2>1. 1 \in 1 .. Len(toServer) /\ toServer[1] = Head(toServer)
    BY <1>0, ServeTail
  <2>2. ~ Free(toServer, {"presence"})
    BY <1>0, <2>1 DEF Free
  <2>q. QED
    BY <2>2 DEF CallInv, PresenceInv
<1>4. session \in Sessions /\ presences \in [Sessions -> Nat]
  BY <1>3 DEF TypeOK
<1>5. \A s \in Sessions : presences'[s] = IF s = session THEN 1 ELSE presences[s]
  BY <1>3, <1>4
<1>6. ~ (session >= nextSession)
  BY <1>4 DEF CallInv, SessionInv, Sessions, TypeOK
<1>7. \A i \in 1 .. Len(toClient) : toClient[i].op # "ready"
  BY <1>3 DEF CallInv, SessionInv
<1>8. PresenceInv'
  BY <1>0, <1>2, <1>3, <1>5, <1>6, <1>7 DEF CallInv, PresenceInv, PresenceOnce
<1>q. QED
  BY <1>1, <1>8 DEF CallInv

\* Discord handles a message.
LEMMA CallServed ==
  ASSUME TypeOK, CallInv, Serve
  PROVE  CallInv'
<1> DEFINE m == Head(toServer)
<1>0. /\ ws = "open" /\ toServer # <<>> /\ toServer' = Tail(toServer)
      /\ UNCHANGED <<client, beat, state, refused>>
  BY DEF Serve
<1>1. CASE /\ m.op = "identify" /\ nextSession \in Sessions
           /\ serving' = nextSession /\ nextSession' = nextSession + 1
           /\ sent' = [sent EXCEPT ![nextSession] = 1]
           /\ Answer(Ready(nextSession, 1))
           /\ UNCHANGED <<presences, trouble>>
  BY <1>0, <1>1, ServeIdentify
<1>2. CASE /\ m.op \in {"identify", "resume"}
           /\ Trouble /\ Answer(Invalid)
           /\ serving' = None /\ UNCHANGED <<sent, presences, nextSession>>
  BY <1>0, <1>2, ServeRefusal DEF Requests
<1>3. CASE /\ m.op = "resume" /\ sent[m.session] < MaxSequence
           /\ serving' = m.session
           /\ sent' = [sent EXCEPT ![m.session] = @ + 1]
           /\ toClient' = toClient
                \o [i \in 1 .. (sent[m.session] - m.seq) |-> Event(m.seq + i)]
                \o <<Resumed(sent[m.session] + 1)>>
           /\ UNCHANGED <<presences, nextSession, trouble>>
  <2>0. 1 \in 1 .. Len(toServer) /\ toServer[1] = m
    BY <1>0, ServeTail DEF TypeOK
  <2>1. m.session = session /\ session # None /\ m.seq <= sent[session]
    BY <1>3, <2>0 DEF CallInv, SessionInv, SequenceInv
  <2>2. m.seq \in Nat /\ session \in Sessions /\ toClient \in Seq(Incoming)
    BY <1>3, <2>0, <2>1, MessageTypes DEF TypeOK
  <2>3. sent[session] \in Nat
    BY <2>2, GatewayAssumption DEF TypeOK
  <2> DEFINE q == m.seq
             n == sent[session] - q
             r == Resumed(sent[session] + 1)
  <2>4. n \in Nat /\ q \in Nat /\ q + n = sent[session]
    BY <2>1, <2>2, <2>3
  <2>5. toClient' = (toClient \o Missed(q, n)) \o <<r>>
    BY <1>3, <2>1 DEF Missed
  <2> HIDE DEF q, n, r
  <2>6. /\ Len(toClient') = Len(toClient) + n + 1
        /\ \A i \in 1 .. Len(toClient) : toClient'[i] = toClient[i]
        /\ \A i \in 1 .. n : toClient'[Len(toClient) + i] = Event(q + i)
        /\ toClient'[Len(toClient) + n + 1] = r
    <3>1. /\ Missed(q, n) \in Seq({Event(q + i) : i \in 1 .. n}) /\ Len(Missed(q, n)) = n
          /\ \A i \in 1 .. n : Missed(q, n)[i] = Event(q + i)
      BY <2>4, MissedIs
    <3> DEFINE X == {Event(q + i) : i \in 1 .. n}
               f == Missed(q, n)
               w == (toClient \o f) \o <<r>>
    <3>0. toClient \in Seq(Incoming) /\ f \in Seq(X)
      BY <2>2, <3>1
    <3> HIDE DEF X, f
    <3>2. /\ Len(toClient) \in Nat /\ Len(w) = Len(toClient) + Len(f) + 1
          /\ \A i \in 1 .. Len(toClient) : w[i] = toClient[i]
          /\ \A i \in 1 .. Len(f) : w[Len(toClient) + i] = f[i]
          /\ w[Len(toClient) + Len(f) + 1] = r
      BY <3>0, ConcatThree
    <3>3. toClient' = w
      BY <2>5 DEF f
    <3> HIDE DEF w
    <3>q. QED
      BY <3>1, <3>2, <3>3 DEF f
  <2>7. /\ m.op = "resume" /\ sent[session] < MaxSequence /\ serving' = session
        /\ sent' = [sent EXCEPT ![session] = @ + 1]
        /\ UNCHANGED <<presences, nextSession>>
    BY <1>3, <2>1
  <2> HIDE DEF m
  <2>q. QED
    BY <1>0, <2>1, <2>4, <2>6, <2>7, ServeResume DEF r, m
<1>4. CASE /\ m.op = "presence" /\ serving # None
           /\ presences' = [presences EXCEPT ![serving] = @ + 1]
           /\ UNCHANGED <<toClient, serving, sent, nextSession, trouble>>
  BY <1>0, <1>4, ServePresence
<1>5. CASE m.op = "heartbeat" /\ UNCHANGED <<toClient, discord, trouble>>
  BY <1>0, <1>5, ServeHeartbeat
<1>q. QED
  BY <1>1, <1>2, <1>3, <1>4, <1>5 DEF Serve

\* The connection drops: what is left to read is a beginning of what was under way.
LEMMA CallDropped ==
  ASSUME TypeOK, LockInv, CallInv, Drop
  PROVE  CallInv'
<1>1. PICK n \in 0 .. Len(toClient) : toClient' = SubSeq(toClient, 1, n)
  BY DEF Drop
<1>2. /\ session' = session /\ pc' = pc /\ call' = call /\ ws' = "dead" /\ nextSession' = nextSession
      /\ sequence' = sequence /\ presenceSent' = presenceSent /\ refused' = refused
      /\ presences' = presences /\ sent' = sent /\ toServer' = <<>> /\ serving' = None
      /\ toClient \in Seq(Incoming)
      /\ pc \notin {"new", "opening", "lost", "closeLock", "closed"}
  BY DEF Drop, state, TypeOK, LockInv
<1>3. /\ Len(toServer') = 0 /\ Len(toClient') = n /\ n \in Nat /\ n <= Len(toClient)
      /\ \A i \in 1 .. n : toClient'[i] = toClient[i] /\ i \in 1 .. Len(toClient)
  BY <1>1, <1>2
<1>4. Free(toServer', Requests) /\ Free(toServer', {"presence"})
      /\ Once(toServer', Requests) /\ Once(toServer', {"presence"})
  BY <1>3 DEF Free, Once
<1>5. /\ Once(toClient, Answers) => Once(toClient', Answers)
      /\ Free(toClient, Answers) => Free(toClient', Answers)
      /\ Free(toClient, {"event"}) => Free(toClient', {"event"})
      /\ Free(toClient, {"invalid"}) => Free(toClient', {"invalid"})
  BY <1>3 DEF Free, Once
<1>6. WireInv'
  BY <1>2, <1>4, <1>5 DEF CallInv, WireInv
<1>7. SessionInv'
  BY <1>2, <1>3 DEF CallInv, SessionInv
<1>8. SequenceInv'
  <2>1. ASSUME Free(toClient', {"ready"}), NEW i \in 1 .. n,
               toClient[i].op \in {"event", "resumed"},
               NEW k \in 1 .. Len(toClient), toClient[k].op = "ready"
        PROVE  FALSE
    <3>1. CASE toClient[i].op = "event"
      <4>1. i > k
        BY <1>3, <2>1, <3>1 DEF CallInv, SequenceInv
      <4>2. k \in 1 .. n
        BY <1>3, <4>1
      <4>q. QED
        BY <1>3, <2>1, <4>2 DEF Free
    <3>2. CASE toClient[i].op = "resumed"
      <4>1. i = k
        BY <1>3, <2>1, <3>2 DEF CallInv, WireInv, Once, Answers
      <4>q. QED
        BY <2>1, <3>2, <4>1
    <3>q. QED
      BY <2>1, <3>1, <3>2
  <2>2. ASSUME Free(toClient', {"ready"}), NEW i \in 1 .. n,
               toClient[i].op \in {"event", "resumed"}
        PROVE  session # None /\ toClient[i].seq <= sent[session]
    <3>1. Free(toClient, {"ready"})
      BY <2>1, <2>2 DEF Free
    <3>q. QED
      BY <1>3, <2>2, <3>1 DEF CallInv, SequenceInv
  <2>q. QED
    BY <1>2, <1>3, <2>2 DEF CallInv, SequenceInv
<1>9. PresenceInv'
  BY <1>2, <1>3, <1>4 DEF CallInv, PresenceInv, PresenceOnce
<1>q. QED
  BY <1>6, <1>7, <1>8, <1>9 DEF CallInv

\* The call returns without a presence, which the session has had.
LEMMA CallReturned ==
  ASSUME CallInv, pc = "presence", pc' = "up",
         UNCHANGED <<call, ws, session, sequence, presenceSent, toClient, toServer, discord, refused>>
  PROVE  CallInv'
<1>1. /\ serving' = serving /\ sent' = sent /\ presences' = presences /\ nextSession' = nextSession
  BY DEF discord
<1>2. WireInv'
  BY <1>1 DEF CallInv, WireInv
<1>3. SessionInv'
  BY <1>1 DEF CallInv, SessionInv
<1>4. SequenceInv'
  BY <1>1 DEF CallInv, SequenceInv
<1>5. PresenceInv'
  BY <1>1 DEF CallInv, PresenceInv, PresenceOnce
<1>q. QED
  BY <1>2, <1>3, <1>4, <1>5 DEF CallInv

\* Every step of the object, of Discord and of the network keeps CallInv.
LEMMA CallStep == TypeOK /\ LockInv /\ CallInv /\ [Next]_vars => CallInv'
<1> SUFFICES ASSUME TypeOK, LockInv, CallInv, [Next]_vars PROVE CallInv'
  OBVIOUS
<1>0. /\ toClient \in Seq(Incoming) /\ toServer \in Seq(Outgoing)
      /\ nextSession \in Nat \ {0} /\ None \notin refused
  BY DEF TypeOK, Sessions, None
<1>1. CASE Connect
  <2>1. /\ UNCHANGED <<ws, session, sequence, presenceSent, network, discord, refused>>
        /\ pc = "new" /\ pc' = "opening"
    BY <1>1 DEF Connect, state
  <2>2. /\ toClient = <<>> /\ toServer = <<>> /\ serving = None /\ Free(toServer, {"presence"})
        /\ session = None
    BY <2>1 DEF CallInv, WireInv, SessionInv, PresenceInv
  <2>q. QED
    BY <2>1, <2>2, CallKept
<1>2. CASE ReconnectWithResume
  BY <1>2, CallCleared DEF ReconnectWithResume, CloseOld
<1>3. CASE OpenWebsocket
  <2>1. /\ UNCHANGED <<session, sequence, presenceSent, sent, presences, nextSession, refused>>
        /\ toClient' = <<Hello>> /\ toServer' = <<>> /\ serving' = None
        /\ pc = "opening" /\ pc' = "hello" /\ call' = call
    BY <1>3 DEF OpenWebsocket, state
  <2>2. call = "connect" => session = None
    BY <2>1 DEF CallInv, SessionInv
  <2>q. QED
    BY <2>1, <2>2, CallCleared
<1>4. CASE Collect
  <2>1. /\ UNCHANGED <<ws, session, sequence, presenceSent, network, discord, refused>>
        /\ pc = "lost" /\ pc' = "lost"
    BY <1>4 DEF Collect, state
  <2>2. /\ toClient = <<>> /\ toServer = <<>> /\ serving = None /\ Free(toServer, {"presence"})
    BY <2>1 DEF CallInv, WireInv, PresenceInv
  <2>q. QED
    BY <2>1, <2>2, CallKept
<1>5. CASE RecvHello
  <2>1. Hello.op = "hello"
    BY DEF Hello
  <2>q. QED
    BY <1>0, <1>5, <2>1, CallRead DEF RecvHello, state
<1>6. CASE SendIdentify
  <2>1. /\ Free(toServer, Requests) /\ Free(toClient, Answers) /\ Free(toClient, {"event"})
        /\ serving = None
    BY <1>6 DEF SendIdentify, CallInv, WireInv
  <2>2. /\ pc = "identify" /\ pc' = "ready" /\ ws = "open" /\ toClient' = toClient
        /\ UNCHANGED <<call, ws, session, sequence, presenceSent, discord, refused>>
    BY <1>6 DEF SendIdentify, state
  <2>3. CASE call = "reconnect" /\ session # None
    <3>1. Send(Resume(session, sequence))
      BY <1>6, <2>3 DEF SendIdentify
    <3>q. QED
      BY <1>0, <2>1, <2>2, <2>3, <3>1, CallAsked
  <2>4. CASE ~ (call = "reconnect" /\ session # None)
    <3>1. Send(Identify)
      BY <1>6, <2>4 DEF SendIdentify
    <3>2. session = None /\ sequence = None
      BY <2>2, <2>4 DEF CallInv, SessionInv, SequenceInv, TypeOK
    <3>q. QED
      BY <1>0, <2>1, <2>2, <3>1, <3>2, CallAsked
  <2>q. QED
    BY <2>3, <2>4
<1>7. CASE RecvEvent
  <2>1. PICK q \in 1 .. MaxSequence : Receive(Event(q)) /\ sequence' = q
    BY <1>7 DEF RecvEvent
  <2>2. pc = "ready" /\ UNCHANGED <<pc, call, ws, session, presenceSent, toServer, discord, refused>>
    BY <1>7 DEF RecvEvent, client
  <2>q. QED
    BY <1>0, <2>1, <2>2, CallEvent
<1>8. CASE RecvReady
  <2>1. PICK q \in 1 .. MaxSequence :
          /\ sequence' = q
          /\ \/ Receive(Resumed(q)) /\ UNCHANGED session
             \/ \E s \in Sessions : Receive(Ready(s, q)) /\ session' = s
    BY <1>8 DEF RecvReady
  <2>2. /\ pc = "ready" /\ pc' = "presence"
        /\ UNCHANGED <<call, ws, presenceSent, toServer, discord, refused>>
    BY <1>8 DEF RecvReady
  <2>q. QED
    BY <1>0, <2>1, <2>2, CallReady
<1>9. CASE RecvInvalid
  <2>1. /\ pc = "ready" /\ Receive(Invalid) /\ refused' = refused \cup ({session} \ {None})
        /\ UNCHANGED <<call, ws, discord>> /\ None \notin refused'
    BY <1>0, <1>9 DEF RecvInvalid
  <2>2. CASE call = "reconnect" /\ ws = "open"
    <3>1. /\ session' = None /\ sequence' = None /\ presenceSent' = FALSE
          /\ Send(Identify) /\ pc' = pc
      BY <1>9, <2>2 DEF RecvInvalid
    <3>2. /\ toClient # <<>> /\ toClient' = Tail(toClient) /\ Head(toClient).op = "invalid"
      BY <2>1 DEF Receive, Invalid
    <3>3. 1 \in 1 .. Len(toClient) /\ toClient[1].op = "invalid"
      BY <1>0, <3>2, TailIs
    <3>4. ~ Free(toClient, {"invalid"}) /\ ~ Free(toClient, Answers)
      BY <3>3 DEF Free, Answers
    <3>5. Free(toServer, Requests) /\ serving = None /\ Free(toClient, {"event"})
      BY <3>4 DEF CallInv, WireInv
    <3>6. Head(toClient).op \in Answers
      BY <3>2 DEF Answers
    <3>7. Free(toClient', Answers) /\ Free(toClient', {"event"})
      BY <1>0, <3>2, <3>5, <3>6, TailKinds DEF CallInv, WireInv
    <3>q. QED
      BY <1>0, <2>1, <2>2, <3>1, <3>5, <3>7, CallAsked
  <2>3. CASE call = "reconnect" /\ ws # "open"
    <3>1. session' = None /\ sequence' = None /\ Raise /\ UNCHANGED toServer
      BY <1>9, <2>3 DEF RecvInvalid
    <3>q. QED
      BY <1>0, <2>1, <3>1, CallRefused DEF Raise
  <2>4. CASE call # "reconnect"
    <3>1. UNCHANGED <<session, sequence, toServer>> /\ Raise
      BY <1>9, <2>4 DEF RecvInvalid
    <3>2. session = None /\ sequence = None
      BY <2>1, <2>4 DEF CallInv, SessionInv, SequenceInv, TypeOK
    <3>q. QED
      BY <1>0, <2>1, <3>1, <3>2, CallRefused DEF Raise
  <2>q. QED
    BY <2>2, <2>3, <2>4
<1>10. CASE RecvReconnect
  <2>1. Reconnect7.op = "reconnect"
    BY DEF Reconnect7
  <2>q. QED
    BY <1>0, <1>10, <2>1, CallRead DEF RecvReconnect, Raise, state
<1>11. CASE ConnectionClosed
  <2>1. /\ UNCHANGED <<ws, session, sequence, presenceSent, network, discord, refused>>
        /\ pc' \in {"failed", "closeTask"} /\ pc \in {"hello", "ready", "identify", "presence"}
    BY <1>11 DEF ConnectionClosed, Raise, state
  <2>2. Free(toServer, {"presence"})
    BY <2>1 DEF CallInv, PresenceInv
  <2>q. QED
    BY <2>1, <2>2, CallKept
<1>12. CASE SendPresence
  <2>1. /\ pc = "presence" /\ pc' = "up"
        /\ UNCHANGED <<call, ws, session, sequence, toClient, discord, refused>>
    BY <1>12 DEF SendPresence
  <2>2. CASE presenceSent /\ UNCHANGED <<toServer, presenceSent>>
    BY <2>1, <2>2, CallReturned
  <2>3. CASE ~ presenceSent /\ ws = "open" /\ Send(Presence) /\ presenceSent' = TRUE
    <3>1. /\ Free(toServer, {"presence"}) /\ session # None /\ presences[session] = 0
          /\ serving = session
      BY <2>1, <2>3 DEF CallInv, PresenceInv, SessionInv
    <3>2. None <= sent[serving]
      BY <3>1, GatewayAssumption DEF TypeOK, None
    <3>3. Presence.op = "presence"
      BY DEF Presence
    <3>q. QED
      BY <1>0, <2>1, <2>3, <3>1, <3>2, <3>3, CallSent
  <2>q. QED
    BY <1>12, <2>2, <2>3 DEF SendPresence
<1>13. CASE CloseTask
  BY <1>13, CallKept DEF CloseTask, state
<1>14. CASE CloseWs
  BY <1>14, CallCleared DEF CloseWs, state
<1>15. CASE CloseLock
  <2>1. /\ UNCHANGED <<ws, session, sequence, presenceSent, network, discord, refused>>
        /\ pc = "closeLock" /\ pc' = "closed" /\ call' = call
    BY <1>15 DEF CloseLock, state
  <2>2. /\ toClient = <<>> /\ toServer = <<>> /\ serving = None /\ Free(toServer, {"presence"})
    BY <2>1 DEF CallInv, WireInv, PresenceInv
  <2>q. QED
    BY <2>1, <2>2, CallKept
<1>16. CASE RefuseWebsocket
  <2>1. /\ UNCHANGED <<ws, session, sequence, presenceSent, network, discord, refused>>
        /\ pc = "opening" /\ pc' \in {"lost", "failed"}
    BY <1>16 DEF RefuseWebsocket, state
  <2>2. /\ toClient = <<>> /\ toServer = <<>> /\ serving = None /\ Free(toServer, {"presence"})
    BY <2>1 DEF CallInv, WireInv, PresenceInv
  <2>q. QED
    BY <2>1, <2>2, CallKept
<1>17. CASE Close
  BY <1>17, CallKept DEF Close, state
<1>18. CASE Beat
  <2>1. /\ Send(Heartbeat(sequence)) /\ ws = "open"
        /\ UNCHANGED <<pc, call, ws, session, sequence, presenceSent, toClient, discord, refused>>
    BY <1>18 DEF Beat, client, state
  <2>2. Heartbeat(sequence).op = "heartbeat" /\ Heartbeat(sequence).seq = sequence
    BY DEF Heartbeat
  <2>3. pc \notin {"new", "opening", "lost", "closeLock", "closed"}
    BY <2>1 DEF LockInv
  <2>4. serving # None => None <= sent[serving]
    BY GatewayAssumption DEF TypeOK, None
  <2>q. QED
    BY <1>0, <2>1, <2>2, <2>3, <2>4, CallSent
<1>19. CASE Serve
  BY <1>19, CallServed
<1>20. CASE Dispatch
  <2>1. serving \in Sessions
    BY <1>20 DEF Dispatch, TypeOK
  <2>2. /\ Event(sent[serving] + 1).op = "event" /\ Event(sent[serving] + 1).seq = sent[serving] + 1
    BY DEF Event
  <2>3. /\ Answer(Event(sent[serving] + 1)) /\ ws = "open"
        /\ sent' = [sent EXCEPT ![serving] = @ + 1]
        /\ UNCHANGED <<pc, call, ws, state, toServer, serving, presences, nextSession, refused>>
    BY <1>20 DEF Dispatch, client
  <2>4. pc \notin {"new", "opening", "lost", "closeLock", "closed"}
    BY <2>3 DEF LockInv
  <2>q. QED
    BY <2>1, <2>2, <2>3, <2>4, CallTold
<1>21. CASE AskReconnect
  <2>1. Reconnect7.op = "reconnect"
    BY DEF Reconnect7
  <2>2. /\ Answer(Reconnect7) /\ ws = "open" /\ UNCHANGED sent
        /\ UNCHANGED <<pc, call, ws, state, toServer, serving, presences, nextSession, refused>>
    BY <1>21 DEF AskReconnect, client, discord
  <2>3. pc \notin {"new", "opening", "lost", "closeLock", "closed"}
    BY <2>2 DEF LockInv
  <2>q. QED
    BY <2>1, <2>2, <2>3, CallTold
<1>22. CASE Drop
  BY <1>22, CallDropped
<1>23. CASE UNCHANGED vars
  <2>1. UNCHANGED <<pc, call, ws, session, sequence, presenceSent, toClient, toServer, serving,
                    sent, presences, nextSession, refused>>
    BY <1>23 DEF vars, client, state, network, discord
  <2>2. WireInv'
    BY <2>1 DEF CallInv, WireInv
  <2>3. SessionInv'
    BY <2>1 DEF CallInv, SessionInv
  <2>4. SequenceInv'
    BY <2>1 DEF CallInv, SequenceInv
  <2>5. PresenceInv'
    BY <2>1 DEF CallInv, PresenceInv, PresenceOnce
  <2>q. QED
    BY <2>2, <2>3, <2>4, <2>5 DEF CallInv
<1>q. QED
  BY <1>1, <1>2, <1>3, <1>4, <1>5, <1>6, <1>7, <1>8, <1>9, <1>10, <1>11, <1>12, <1>13, <1>14,
     <1>15, <1>16, <1>17, <1>18, <1>19, <1>20, <1>21, <1>22, <1>23 DEF Next, Step

\* At the start nothing is under way and no session has begun.
LEMMA CallInit == Init => CallInv
<1> SUFFICES ASSUME Init PROVE CallInv
  OBVIOUS
<1>1. Len(toClient) = 0 /\ Len(toServer) = 0
  BY DEF Init
<1>2. WireInv
  BY <1>1 DEF Init, WireInv, Free, Once
<1>3. SessionInv
  BY <1>1 DEF Init, SessionInv, None
<1>4. SequenceInv
  BY <1>1 DEF Init, SequenceInv
<1>5. PresenceInv
  BY <1>1 DEF Init, PresenceInv, PresenceOnce, Free, Once
<1>q. QED
  BY <1>2, <1>3, <1>4, <1>5 DEF CallInv

\* The parts hold together in every state.
LEMMA CallAlways == Spec => [](TypeOK /\ CallInv)
<1>1. Init => LockInv
  BY DEF Init, LockInv
<1>q. QED
  BY <1>1, CallInit, CallStep, LockStep, TypeCorrect, PTL DEF Spec

\* A refused session is in no RESUME: the request under way is for the session that the
\* client has, and it forgets one when it reads the refusal.
THEOREM RefusedCorrect == Spec => []RefusedIsForgotten
<1>1. CallInv => RefusedIsForgotten
  BY DEF CallInv, SessionInv, RefusedIsForgotten
<1>q. QED
  BY <1>1, CallAlways, PTL

\* However often a session is resumed, it hears of its presence once.
THEOREM PresenceCorrect == Spec => []PresenceOnce
<1>1. CallInv => PresenceOnce
  BY DEF CallInv, PresenceInv
<1>q. QED
  BY <1>1, CallAlways, PTL

\* After a handshake both ends mean one session, and no heartbeat runs ahead of it.
THEOREM EndsCorrect == Spec => []EndsAgree
<1>1. TypeOK /\ CallInv => EndsAgree
  <2> SUFFICES ASSUME TypeOK, CallInv PROVE EndsAgree
    OBVIOUS
  <2>1. ASSUME pc = "up", ws = "open"
        PROVE  session = serving /\ serving # None /\ sequence <= sent[serving]
    BY <2>1 DEF CallInv, SessionInv, SequenceInv
  <2>2. ASSUME toServer # <<>>, Head(toServer).op = "heartbeat", serving # None
        PROVE  Head(toServer).seq <= sent[serving]
    <3>1. 1 \in 1 .. Len(toServer) /\ toServer[1] = Head(toServer)
      BY <2>2, TailIs DEF TypeOK
    <3>q. QED
      BY <2>2, <3>1 DEF CallInv, SequenceInv
  <2>q. QED
    BY <2>1, <2>2 DEF EndsAgree
<1>q. QED
  BY <1>1, CallAlways, PTL
================================================================================
