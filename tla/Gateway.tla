-------------------------------- MODULE Gateway --------------------------------
(***************************************************************************)
(* One DormantGateway (session/gateway.py) and the Discord gateway at the  *)
(* other end of its connection: connect(), the handshake with IDENTIFY or  *)
(* RESUME, the heartbeat task that runs beside it, reconnect_with_resume() *)
(* and close().  Who may have a gateway at all is module ScanSession.      *)
(*                                                                         *)
(* The two ends exchange messages in order; a connection that drops loses  *)
(* what is under way.  Between a handshake and the next nobody reads from  *)
(* the connection.  Acknowledgements of heartbeats are not modelled: the   *)
(* handshake discards them, and nothing else would read them.  The object  *)
(* is used once: the program makes a new one for each account of a pass.   *)
(***************************************************************************)
EXTENDS Integers, Sequences, FiniteSets

CONSTANTS
  Reconnects,       \* Does the owner call reconnect_with_resume?  Only tests do.
  MaxSequence,      \* Bound: dispatches of one session.
  MaxWire,          \* Bound: messages under way in each direction.
  MaxTrouble        \* Bound: dropped connections, refused sessions and requests.

ASSUME GatewayAssumption ==
  /\ Reconnects \in BOOLEAN
  /\ MaxSequence \in Nat \ {0} /\ MaxWire \in Nat \ {0} /\ MaxTrouble \in Nat

VARIABLES
  \* The object.
  pc,               \* Where its owner is.
  call,             \* The method that is running, or ran last.
  ws,               \* "none", "open", or "dead": it dropped, or its end was closed.
  locked,           \* gateway-{burner}.lock is held.
  task,             \* _heartbeat_task is set.
  loops,            \* Heartbeat loops that run.
  shutdown,         \* The event _shutdown.
  session, sequence, presenceSent,        \* _SessionState.
  refusals,         \* The counter resume_fail, since the call began.
  result,           \* What reconnect_with_resume returned last.
  \* The network.
  toClient, toServer,
  \* The Discord gateway.
  serving,          \* The session of the connection, or None.
  sent,             \* The sequence number of the last dispatch of a session.
  presences,        \* How many PRESENCE UPDATEs a session has received.
  nextSession,
  refused,          \* Sessions the client has been told are invalid.
  trouble

client  == <<pc, call, ws, locked>>
beat    == <<task, loops, shutdown>>
state   == <<session, sequence, presenceSent, refusals, result>>
network == <<toClient, toServer>>
discord == <<serving, sent, presences, nextSession>>
vars == <<client, beat, state, network, discord, refused, trouble>>

None == 0
Sessions == 1 .. (MaxTrouble + 1)

Hello       == [op |-> "hello"]
Ready(s, q) == [op |-> "ready", session |-> s, seq |-> q]
Resumed(q)  == [op |-> "resumed", seq |-> q]
Event(q)    == [op |-> "event", seq |-> q]
Invalid     == [op |-> "invalid"]
Reconnect7  == [op |-> "reconnect"]

Identify     == [op |-> "identify"]
Resume(s, q) == [op |-> "resume", session |-> s, seq |-> q]
Presence     == [op |-> "presence"]
Heartbeat(q) == [op |-> "heartbeat", seq |-> q]

Handshaking == {"hello", "identify", "ready", "presence"}

Trouble == trouble < MaxTrouble /\ trouble' = trouble + 1

Send(m) == toServer' = Append(toServer, m)

\* An exception leaves the handshake: connect closes everything, while
\* reconnect_with_resume leaves it to its caller.
Raise == pc' = IF call = "connect" THEN "closeTask" ELSE "failed"

\* What is left of a websocket is closed.
CloseOld == ws' = "dead" /\ toClient' = <<>> /\ toServer' = <<>> /\ serving' = None

--------------------------------------------------------------------------------
(* Bugs this code could have had: each breaks one property.                *)

\* The old heartbeat task is told to end, but not cancelled and awaited.
ReconnectUncancelled ==
  /\ Reconnects
  /\ pc = "failed" \/ (pc = "up" /\ ws = "dead")
  /\ pc' = "opening" /\ call' = "reconnect"
  /\ shutdown' = TRUE /\ task' = FALSE
  /\ refusals' = 0
  /\ CloseOld
  /\ UNCHANGED <<locked, loops, session, sequence, presenceSent, result, sent, presences,
                 nextSession, refused, trouble>>

\* Every reconnection announces the presence again.
ReconnectForgettingPresence ==
  /\ Reconnects
  /\ pc = "failed" \/ (pc = "up" /\ ws = "dead")
  /\ pc' = "opening" /\ call' = "reconnect"
  /\ shutdown' = TRUE /\ task' = FALSE
  /\ loops' = IF task THEN loops - 1 ELSE loops
  /\ refusals' = 0 /\ presenceSent' = FALSE
  /\ CloseOld
  /\ UNCHANGED <<locked, session, sequence, result, sent, presences, nextSession, refused,
                 trouble>>

\* A session that is not resumed is not forgotten.
InvalidKeepingSession ==
  /\ pc = "ready" /\ toClient # <<>> /\ Head(toClient) = Invalid
  /\ toClient' = Tail(toClient)
  /\ refused' = refused \cup ({session} \ {None})
  /\ IF call = "reconnect" /\ ws = "open"
     THEN /\ refusals' = refusals + 1
          /\ sequence' = None /\ presenceSent' = FALSE
          /\ Send(Identify)
          /\ UNCHANGED <<pc, session>>
     ELSE /\ Raise
          /\ UNCHANGED <<refusals, session, sequence, presenceSent, toServer>>
  /\ UNCHANGED <<call, ws, locked, beat, result, discord, trouble>>

\* The sequence number of the old session survives it.
InvalidKeepingSequence ==
  /\ pc = "ready" /\ toClient # <<>> /\ Head(toClient) = Invalid
  /\ toClient' = Tail(toClient)
  /\ refused' = refused \cup ({session} \ {None})
  /\ IF call = "reconnect" /\ ws = "open"
     THEN /\ refusals' = refusals + 1
          /\ session' = None /\ presenceSent' = FALSE
          /\ Send(Identify)
          /\ UNCHANGED <<pc, sequence>>
     ELSE /\ Raise
          /\ UNCHANGED <<refusals, session, sequence, presenceSent, toServer>>
  /\ UNCHANGED <<call, ws, locked, beat, result, discord, trouble>>

\* A refused RESUME ends the wait.
InvalidEndingWait ==
  /\ pc = "ready" /\ toClient # <<>> /\ Head(toClient) = Invalid
  /\ toClient' = Tail(toClient)
  /\ refused' = refused \cup ({session} \ {None})
  /\ refusals' = refusals + 1
  /\ session' = None /\ sequence' = None /\ presenceSent' = FALSE
  /\ pc' = "presence"
  /\ UNCHANGED <<call, ws, locked, beat, result, toServer, discord, trouble>>


--------------------------------------------------------------------------------
(* connect and reconnect_with_resume.                                      *)

Connect ==
  /\ pc = "new"
  /\ pc' = "opening" /\ call' = "connect" /\ locked' = TRUE
  /\ UNCHANGED <<ws, beat, state, network, discord, refused, trouble>>

\* The owner sees that the connection is gone, or that its last call failed.  The
\* heartbeat task is cancelled and awaited before the new handshake starts another.
ReconnectWithResume ==
  /\ Reconnects
  /\ pc = "failed" \/ (pc = "up" /\ ws = "dead")
  /\ pc' = "opening" /\ call' = "reconnect"
  /\ shutdown' = TRUE /\ task' = FALSE
  /\ loops' = IF task THEN loops - 1 ELSE loops
  /\ refusals' = 0
  /\ CloseOld
  /\ UNCHANGED <<locked, session, sequence, presenceSent, result, sent, presences,
                 nextSession, refused, trouble>>

\* websockets.connect; Discord says hello.
OpenWebsocket ==
  /\ pc = "opening"
  /\ pc' = "hello" /\ ws' = "open"
  /\ toClient' = <<Hello>> /\ toServer' = <<>> /\ serving' = None
  /\ UNCHANGED <<call, locked, beat, state, sent, presences, nextSession, refused,
                 trouble>>

\* It fails: connect has no handler for this and keeps the lock until the object
\* is collected.
RefuseWebsocket ==
  /\ pc = "opening"
  /\ Trouble
  /\ pc' = IF call = "connect" THEN "lost" ELSE "failed"
  /\ UNCHANGED <<call, ws, locked, beat, state, network, discord, refused>>

Collect ==
  /\ pc = "lost" /\ locked
  /\ locked' = FALSE
  /\ UNCHANGED <<pc, call, ws, beat, state, network, discord, refused, trouble>>

--------------------------------------------------------------------------------
(* _do_handshake and _await_ready.                                         *)

Receive(m) == toClient # <<>> /\ Head(toClient) = m /\ toClient' = Tail(toClient)

\* HELLO, from which on the heartbeat task runs.
RecvHello ==
  /\ pc = "hello"
  /\ Receive(Hello)
  /\ pc' = "identify"
  /\ shutdown' = FALSE /\ task' = TRUE /\ loops' = loops + 1
  /\ UNCHANGED <<call, ws, locked, state, toServer, discord, refused, trouble>>

SendIdentify ==
  /\ pc = "identify" /\ ws = "open"
  /\ pc' = "ready"
  /\ Send(IF call = "reconnect" /\ session # None THEN Resume(session, sequence)
          ELSE Identify)
  /\ UNCHANGED <<call, ws, locked, beat, state, toClient, discord, refused, trouble>>

\* A dispatch that is not READY or RESUMED only leaves its sequence number.
RecvEvent ==
  /\ pc = "ready"
  /\ \E q \in 1 .. MaxSequence : Receive(Event(q)) /\ sequence' = q
  /\ UNCHANGED <<client, beat, session, presenceSent, refusals, result, toServer,
                 discord, refused, trouble>>

RecvReady ==
  /\ pc = "ready"
  /\ \E q \in 1 .. MaxSequence :
       /\ sequence' = q
       /\ \/ Receive(Resumed(q)) /\ UNCHANGED session
          \/ \E s \in Sessions : Receive(Ready(s, q)) /\ session' = s
  /\ pc' = "presence"
  /\ UNCHANGED <<call, ws, locked, beat, presenceSent, refusals, result, toServer,
                 discord, refused, trouble>>

\* INVALID_SESSION: in a reconnection the session is forgotten and the wait goes on,
\* for the answer to an IDENTIFY.
RecvInvalid ==
  /\ pc = "ready"
  /\ Receive(Invalid)
  /\ refused' = refused \cup ({session} \ {None})
  /\ IF call = "reconnect"
     THEN /\ refusals' = refusals + 1
          /\ session' = None /\ sequence' = None /\ presenceSent' = FALSE
          /\ IF ws = "open" THEN Send(Identify) /\ UNCHANGED pc
             ELSE Raise /\ UNCHANGED toServer
     ELSE /\ Raise
          /\ UNCHANGED <<refusals, session, sequence, presenceSent, toServer>>
  /\ UNCHANGED <<call, ws, locked, beat, result, discord, trouble>>

\* RECONNECT ends the handshake, and so does anything but HELLO before HELLO.
RecvReconnect ==
  /\ pc \in {"hello", "ready"}
  /\ Receive(Reconnect7)
  /\ Raise
  /\ UNCHANGED <<call, ws, locked, beat, state, toServer, discord, refused, trouble>>

\* recv() raises when all that had come is read, send() at once.
ConnectionClosed ==
  /\ ws = "dead"
  /\ \/ pc \in {"hello", "ready"} /\ toClient = <<>>
     \/ pc = "identify"
     \/ pc = "presence" /\ ~ presenceSent
  /\ Raise
  /\ UNCHANGED <<call, ws, locked, beat, state, network, discord, refused, trouble>>

\* The presence is announced once; the call returns.
SendPresence ==
  /\ pc = "presence"
  /\ \/ presenceSent /\ UNCHANGED <<toServer, presenceSent>>
     \/ ~ presenceSent /\ ws = "open" /\ Send(Presence) /\ presenceSent' = TRUE
  /\ pc' = "up"
  /\ result' = IF call = "connect" THEN "connected"
               ELSE IF refusals > 0 THEN "reidentified" ELSE "resumed"
  /\ UNCHANGED <<call, ws, locked, beat, session, sequence, refusals, toClient, discord,
                 refused, trouble>>

--------------------------------------------------------------------------------
(* _heartbeat_loop and _send_heartbeat.                                    *)

\* A heartbeat; on a connection that dropped it fails, which is logged.  The loop ends
\* where its task is cancelled and awaited: CloseTask and ReconnectWithResume.
Beat ==
  /\ loops > 0 /\ ~ shutdown /\ ws = "open" /\ Len(toServer) < MaxWire
  /\ Send(Heartbeat(sequence))
  /\ UNCHANGED <<client, beat, state, toClient, discord, refused, trouble>>

--------------------------------------------------------------------------------
(* close.                                                                  *)

\* The owner is done, or __aexit__ is reached with an exception.
Close ==
  /\ pc \in {"up", "failed"}
  /\ pc' = "closeTask"
  /\ UNCHANGED <<call, ws, locked, beat, state, network, discord, refused, trouble>>

CloseTask ==
  /\ pc = "closeTask"
  /\ shutdown' = TRUE /\ task' = FALSE
  /\ loops' = IF task THEN loops - 1 ELSE loops
  /\ pc' = "closeWs"
  /\ UNCHANGED <<call, ws, locked, state, network, discord, refused, trouble>>

CloseWs ==
  /\ pc = "closeWs"
  /\ ws' = "none" /\ pc' = "closeLock"
  /\ toClient' = <<>> /\ toServer' = <<>> /\ serving' = None
  /\ UNCHANGED <<call, locked, beat, state, sent, presences, nextSession, refused,
                 trouble>>

CloseLock ==
  /\ pc = "closeLock"
  /\ locked' = FALSE /\ pc' = "closed"
  /\ UNCHANGED <<call, ws, beat, state, network, discord, refused, trouble>>

--------------------------------------------------------------------------------
(* Discord and the network.                                                *)

Answer(m) == toClient' = Append(toClient, m)

\* The next message of the client is handled: a new session, a resumed one with the
\* dispatches it has missed, or a refusal.
Serve ==
  /\ ws = "open" /\ toServer # <<>>
  /\ toServer' = Tail(toServer)
  /\ LET m == Head(toServer) IN
     \/ /\ m.op = "identify" /\ nextSession \in Sessions
        /\ serving' = nextSession /\ nextSession' = nextSession + 1
        /\ sent' = [sent EXCEPT ![nextSession] = 1]
        /\ Answer(Ready(nextSession, 1))
        /\ UNCHANGED <<presences, trouble>>
     \/ /\ m.op \in {"identify", "resume"}
        /\ Trouble /\ Answer(Invalid)
        /\ serving' = None /\ UNCHANGED <<sent, presences, nextSession>>
     \/ /\ m.op = "resume" /\ sent[m.session] < MaxSequence
        /\ serving' = m.session
        /\ sent' = [sent EXCEPT ![m.session] = @ + 1]
        /\ toClient' = toClient
             \o [i \in 1 .. (sent[m.session] - m.seq) |-> Event(m.seq + i)]
             \o <<Resumed(sent[m.session] + 1)>>
        /\ UNCHANGED <<presences, nextSession, trouble>>
     \/ /\ m.op = "presence" /\ serving # None
        /\ presences' = [presences EXCEPT ![serving] = @ + 1]
        /\ UNCHANGED <<toClient, serving, sent, nextSession, trouble>>
     \/ /\ m.op = "heartbeat"
        /\ UNCHANGED <<toClient, discord, trouble>>
  /\ UNCHANGED <<client, beat, state, refused>>

\* Something happens in a guild of the account.
Dispatch ==
  /\ ws = "open" /\ serving # None
  /\ sent[serving] < MaxSequence - MaxTrouble /\ Len(toClient) < MaxWire
  /\ sent' = [sent EXCEPT ![serving] = @ + 1]
  /\ Answer(Event(sent[serving] + 1))
  /\ UNCHANGED <<client, beat, state, toServer, serving, presences, nextSession, refused,
                 trouble>>

\* Discord asks the client to reconnect.
AskReconnect ==
  /\ ws = "open" /\ Trouble
  /\ Answer(Reconnect7)
  /\ UNCHANGED <<client, beat, state, toServer, discord, refused>>

\* The connection drops: a failing network, a close by Discord, or by the websockets
\* library when nobody reads what has come.
Drop ==
  /\ ws = "open" /\ Trouble
  /\ ws' = "dead" /\ toServer' = <<>> /\ serving' = None
  /\ \E n \in 0 .. Len(toClient) : toClient' = SubSeq(toClient, 1, n)
  /\ UNCHANGED <<pc, call, locked, beat, state, sent, presences, nextSession, refused>>

--------------------------------------------------------------------------------
Init ==
  /\ pc = "new" /\ call = "connect" /\ ws = "none" /\ locked = FALSE
  /\ task = FALSE /\ loops = 0 /\ shutdown = FALSE
  /\ session = None /\ sequence = None /\ presenceSent = FALSE
  /\ refusals = 0 /\ result = "none"
  /\ toClient = <<>> /\ toServer = <<>>
  /\ serving = None /\ nextSession = 1
  /\ sent = [s \in Sessions |-> 0] /\ presences = [s \in Sessions |-> 0]
  /\ refused = {} /\ trouble = 0

\* The steps of a call that nothing but Discord holds up ...
Step ==
  \/ OpenWebsocket \/ Collect
  \/ RecvHello \/ SendIdentify \/ RecvEvent \/ RecvReady \/ RecvInvalid
  \/ RecvReconnect \/ ConnectionClosed \/ SendPresence
  \/ CloseTask \/ CloseWs \/ CloseLock

\* ... and the rest: what the owner calls, and what the world does.
Next ==
  \/ Connect \/ ReconnectWithResume \/ Close
  \/ Step \/ RefuseWebsocket
  \/ Beat
  \/ Serve \/ Dispatch \/ AskReconnect \/ Drop

Spec == Init /\ [][Next]_vars

\* A call goes on and Discord answers; the owner need not call anything.
FairSpec == Spec /\ WF_vars(Step) /\ WF_vars(Serve)

--------------------------------------------------------------------------------
(* Properties.                                                             *)

PCs == {"new", "opening", "up", "failed", "lost", "closeTask", "closeWs", "closeLock",
        "closed"} \cup Handshaking

Outgoing == {Identify, Presence} \cup {Heartbeat(q) : q \in 0 .. MaxSequence}
              \cup {Resume(s, q) : s \in Sessions, q \in 0 .. MaxSequence}
Incoming == {Hello, Invalid, Reconnect7}
              \cup {Event(q) : q \in 1 .. MaxSequence} \cup {Resumed(q) : q \in 1 .. MaxSequence}
              \cup {Ready(s, q) : s \in Sessions, q \in 1 .. MaxSequence}

TypeOK ==
  /\ pc \in PCs /\ call \in {"connect", "reconnect"} /\ ws \in {"none", "open", "dead"}
  /\ locked \in BOOLEAN /\ task \in BOOLEAN /\ loops \in Nat /\ shutdown \in BOOLEAN
  /\ session \in Sessions \cup {None} /\ sequence \in 0 .. MaxSequence
  /\ presenceSent \in BOOLEAN /\ refusals \in Nat
  /\ result \in {"none", "connected", "resumed", "reidentified"}
  /\ toClient \in Seq(Incoming) /\ toServer \in Seq(Outgoing)
  /\ serving \in Sessions \cup {None} /\ nextSession \in 1 .. (MaxTrouble + 2)
  /\ sent \in [Sessions -> 0 .. MaxSequence] /\ presences \in [Sessions -> Nat]
  /\ refused \subseteq Sessions /\ trouble \in 0 .. MaxTrouble

\* However often the connection is made again, one heartbeat loop runs at most, and
\* none without a handle that close() can cancel.
OneHeartbeat == loops = IF task THEN 1 ELSE 0

\* Discord has a connection of this account only while its lock is held.
ConnectedIsLocked == ws = "open" => locked

\* When a handshake has succeeded, both ends mean the same session; and a heartbeat
\* never carries a sequence number that its session has not come to.
EndsAgree ==
  /\ pc = "up" /\ ws = "open" =>
       session = serving /\ serving # None /\ sequence <= sent[serving]
  /\ toServer # <<>> /\ Head(toServer).op = "heartbeat" /\ serving # None =>
       Head(toServer).seq <= sent[serving]

\* A session that Discord has refused is not asked for again.
RefusedIsForgotten ==
  \A i \in 1 .. Len(toServer) :
    toServer[i].op = "resume" => toServer[i].session \notin refused

\* No session hears of its presence twice.
PresenceOnce == \A s \in Sessions : presences[s] <= 1


================================================================================
