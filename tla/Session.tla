------------------------------- MODULE Session -------------------------------
(***************************************************************************)
(* The agent's session with its control plane: the reconnecting WebSocket   *)
(* of src/transport/websocket-client.ts under the lifecycle manager of      *)
(* src/core/lifecycle.ts, on Linux.                                         *)
(*                                                                         *)
(* The agent is one event loop: a step is one socket event, one timer, one  *)
(* continuation of an awaited call, with everything it calls and emits.     *)
(* Sockets have an identity, so events of an old one may still come in      *)
(* after it has been replaced.                                              *)
(***************************************************************************)
EXTENDS Integers, FiniteSets

CONSTANTS
  Request,         \* tools requests of the control plane
  None,            \* no value
  WriteEnabled,    \* config.writeEnabled
  MaxSocket,       \* bound: WebSockets the agent opens
  MaxCrash         \* bound: deaths of the agent process

ASSUME SwitchAssumption == WriteEnabled \in BOOLEAN
ASSUME BoundAssumption == MaxSocket \in Nat /\ MaxCrash \in Nat
ASSUME NoneAssumption == None \notin [generation : Nat, write : BOOLEAN]

Socket == 1..MaxSocket
NoSocket == 0

VARIABLES
  \* WebSocketClient; `stopped` is the negation of `running`.
  socket,       \* this.socket
  readyState,   \* of every WebSocket ever made
  reconnect,    \* the reconnect timer is set
  pinging,      \* the ping interval is set
  pong,         \* the pong deadline is set
  \* LifecycleManager.
  running,
  ready,
  generation,
  helperReady,
  opening,      \* generations whose open() awaits the helper's capabilities
  deadline,     \* the handshake deadline is set
  heartbeat,    \* the generation of the heartbeat interval, or 0
  provisional,  \* generations whose one-second reconnect timer is set
  \* What it drives.
  policy,       \* the router's session policy
  snapshots,    \* the snapshot manager is active
  marker,       \* /run/acornops-agentv/authenticated exists
  call,         \* requests the router is working on: generation and socket
  \* The network and the control plane.
  silent,       \* sockets whose peer has vanished without closing
  handshakes,   \* handshakes sent on each socket
  offer,        \* did the last handshake on each socket offer the write tool?
  carrier,      \* the socket on which each request was answered
  crashes

clientVars == <<socket, readyState, reconnect, pinging, pong>>
sessionVars == <<ready, deadline, heartbeat, policy, snapshots, marker>>
peerVars == <<silent, handshakes, offer>>
vars == <<clientVars, running, generation, helperReady, opening, provisional,
          sessionVars, call, peerVars, carrier, crashes>>

ReadyState == {"UNUSED", "CONNECTING", "OPEN", "CLOSING", "CLOSED"}
Idle == [stage |-> "idle", generation |-> 0, socket |-> NoSocket]

Init ==
  /\ socket = NoSocket /\ readyState = [s \in Socket |-> "UNUSED"]
  /\ reconnect = FALSE /\ pinging = FALSE /\ pong = FALSE
  /\ running = FALSE /\ ready = FALSE /\ generation = 0 /\ helperReady = FALSE
  /\ opening = {} /\ provisional = {} /\ deadline = FALSE /\ heartbeat = 0
  /\ policy = None /\ snapshots = FALSE /\ marker = FALSE
  /\ call = [r \in Request |-> Idle]
  /\ silent = {} /\ handshakes = [s \in Socket |-> 0] /\ offer = [s \in Socket |-> FALSE]
  /\ carrier = [r \in Request |-> NoSocket] /\ crashes = 0

-----------------------------------------------------------------------------
(* Building blocks. *)

IsOpen == running /\ socket # NoSocket /\ readyState[socket] = "OPEN"

\* Mutants of ClearSession: it forgets the snapshots, or the router.
ClearButSnapshots ==
  /\ ready' = FALSE /\ policy' = None /\ deadline' = FALSE /\ heartbeat' = 0
  /\ marker' = FALSE
  /\ UNCHANGED snapshots

ClearButPolicy ==
  /\ ready' = FALSE /\ snapshots' = FALSE /\ deadline' = FALSE /\ heartbeat' = 0
  /\ marker' = FALSE
  /\ UNCHANGED policy

\* clearSession()
ClearSession ==
  /\ ready' = FALSE /\ policy' = None /\ snapshots' = FALSE
  /\ deadline' = FALSE /\ heartbeat' = 0
  /\ marker' = FALSE

ClearPing == pinging' = FALSE /\ pong' = FALSE

\* closed(), for a running agent
Closed == generation' = generation + 1 /\ ClearSession

\* connect(): a new WebSocket, when there is none
Connect ==
  \E s \in Socket :
    /\ readyState[s] = "UNUSED" /\ \A t \in 1..(s - 1) : readyState[t] # "UNUSED"
    /\ socket' = s
    /\ readyState' = [readyState EXCEPT ![s] = "CONNECTING"]

Terminated == [s \in Socket |-> IF s = socket THEN "CLOSING" ELSE readyState[s]]

\* Mutant of ForceReconnect: nothing is scheduled, the close event will do that.
ForceClose ==
  \/ /\ running
     /\ socket' = NoSocket /\ readyState' = Terminated
     /\ ClearPing /\ Closed
     /\ UNCHANGED reconnect
  \/ ~running /\ UNCHANGED <<clientVars, generation, sessionVars>>

\* forceReconnect(): the socket is dropped and terminated, the session closed, a
\* reconnect scheduled.  The close event of that socket is yet to come.
ForceReconnect ==
  \/ /\ running
     /\ socket' = NoSocket /\ readyState' = Terminated
     /\ ClearPing /\ Closed
     /\ reconnect' = TRUE
  \/ ~running /\ UNCHANGED <<clientVars, generation, sessionVars>>

-----------------------------------------------------------------------------
(* The process. *)

Start ==
  /\ ~running
  /\ running' = TRUE
  /\ Closed
  /\ Connect
  /\ reconnect' = FALSE
  /\ UNCHANGED <<pinging, pong, helperReady, opening, provisional, call, peerVars,
                 carrier, crashes>>

Stop ==
  /\ running
  /\ running' = FALSE
  /\ Closed
  /\ socket' = NoSocket /\ readyState' = Terminated
  /\ reconnect' = FALSE /\ ClearPing
  /\ UNCHANGED <<helperReady, opening, provisional, call, peerVars, carrier, crashes>>

\* The process dies with all its memory; its sockets and its marker do not.
Crash ==
  /\ running /\ crashes < MaxCrash
  /\ crashes' = crashes + 1
  /\ running' = FALSE /\ ready' = FALSE /\ generation' = 0 /\ helperReady' = FALSE
  /\ opening' = {} /\ provisional' = {} /\ deadline' = FALSE /\ heartbeat' = 0
  /\ policy' = None /\ snapshots' = FALSE /\ UNCHANGED marker
  /\ call' = [r \in Request |-> IF call[r].stage = "pending" THEN [call[r] EXCEPT !.stage = "dropped"]
                                ELSE call[r]]
  /\ socket' = NoSocket /\ reconnect' = FALSE /\ ClearPing
  /\ readyState' = [s \in Socket |-> IF readyState[s] = "UNUSED" THEN "UNUSED" ELSE "CLOSED"]
  /\ UNCHANGED <<peerVars, carrier>>

-----------------------------------------------------------------------------
(* Socket events.  The handlers of WebSocketClient ignore a socket that is no *)
(* longer its own.                                                            *)

\* Mutant of Open: what the helper said for the last connection is kept.
OpenKeepsHelper(s) ==
  /\ readyState[s] = "CONNECTING" /\ s \notin silent
  /\ readyState' = [readyState EXCEPT ![s] = "OPEN"]
  /\ socket = s /\ running
  /\ pinging' = TRUE /\ pong' = FALSE
  /\ generation' = generation + 1 /\ ClearSession
  /\ opening' = opening \cup {generation'}
  /\ UNCHANGED <<socket, reconnect, running, helperReady, provisional, call, peerVars,
                 carrier, crashes>>

\* The server answers the upgrade; open() runs up to its await.
Open(s) ==
  /\ readyState[s] = "CONNECTING" /\ s \notin silent
  /\ readyState' = [readyState EXCEPT ![s] = "OPEN"]
  /\ socket = s /\ running
  /\ pinging' = TRUE /\ pong' = FALSE
  /\ generation' = generation + 1 /\ ClearSession /\ helperReady' = FALSE
  /\ opening' = opening \cup {generation'}
  /\ UNCHANGED <<socket, reconnect, running, provisional, call, peerVars, carrier, crashes>>

\* The connection fails, or the peer closes it.
Disconnect(s) ==
  /\ readyState[s] \in {"CONNECTING", "OPEN"} /\ s \notin silent
  /\ readyState' = [readyState EXCEPT ![s] = "CLOSING"]
  /\ UNCHANGED <<socket, reconnect, pinging, pong, running, generation, helperReady, opening,
                 provisional, sessionVars, call, peerVars, carrier, crashes>>

\* The peer vanishes: no close, no answer to the upgrade, no pong any more.
Vanish(s) ==
  /\ s \notin silent /\ readyState[s] \in {"CONNECTING", "OPEN"}
  /\ silent' = silent \cup {s}
  /\ UNCHANGED <<clientVars, running, generation, helperReady, opening, provisional,
                 sessionVars, call, handshakes, offer, carrier, crashes>>

\* The close event of a socket.
CloseEvent(s) ==
  /\ readyState[s] = "CLOSING"
  /\ readyState' = [readyState EXCEPT ![s] = "CLOSED"]
  /\ \/ /\ socket = s
        /\ socket' = NoSocket /\ ClearPing /\ Closed /\ reconnect' = TRUE
     \/ /\ socket # s
        /\ UNCHANGED <<socket, pinging, pong, generation, sessionVars, reconnect>>
  /\ UNCHANGED <<running, helperReady, opening, provisional, call, peerVars, carrier, crashes>>

-----------------------------------------------------------------------------
(* The handshake. *)

\* open() continues with the helper's answer, or with its failure: the handshake
\* is sent if the connection is still the same.
Continue(g) ==
  /\ g \in opening
  /\ opening' = opening \ {g}
  /\ \/ /\ g = generation /\ IsOpen
        /\ \E h \in (IF WriteEnabled THEN BOOLEAN ELSE {FALSE}) :
             /\ helperReady' = h
             /\ \/ /\ offer' = [offer EXCEPT ![socket] = h]
                   /\ handshakes' = [handshakes EXCEPT ![socket] = @ + 1]
                   /\ deadline' = TRUE
                   /\ UNCHANGED <<clientVars, generation, ready, heartbeat, policy,
                                  snapshots, marker>>
                \/ ForceReconnect /\ UNCHANGED <<handshakes, offer>>
     \/ /\ ~(g = generation /\ IsOpen)
        /\ UNCHANGED <<clientVars, generation, helperReady, sessionVars, handshakes, offer>>
  /\ UNCHANGED <<running, provisional, call, silent, carrier, crashes>>

\* A message reaches the handler of a running agent.
Hears == running /\ socket # NoSocket /\ readyState[socket] = "OPEN" /\ socket \notin silent

\* Malformed, no response to the handshake, an error, or a contract that is refused.
RejectMessage ==
  /\ Hears
  /\ ForceReconnect
  /\ UNCHANGED <<running, helperReady, opening, provisional, call, peerVars, carrier, crashes>>

\* acceptHandshake(): the session becomes ready.
AcceptHandshake ==
  /\ Hears /\ ~ready
  /\ deadline' = FALSE
  /\ \E w \in BOOLEAN :
       policy' = [generation |-> generation, write |-> w /\ helperReady /\ WriteEnabled]
  /\ ready' = TRUE /\ snapshots' = TRUE /\ heartbeat' = generation
  /\ marker' \in {TRUE, marker}
  /\ UNCHANGED <<clientVars, running, generation, helperReady, opening, provisional, call,
                 peerVars, carrier, crashes>>

\* acceptHandshake() of a provisional session: try again in a second.
AcceptProvisional ==
  /\ Hears /\ ~ready
  /\ deadline' = FALSE
  /\ provisional' = provisional \cup {generation}
  /\ UNCHANGED <<clientVars, running, generation, helperReady, opening, ready, heartbeat,
                 policy, snapshots, marker, call, peerVars, carrier, crashes>>

-----------------------------------------------------------------------------
(* A ready session. *)

\* An invalid request is answered with an error at once, if that can be sent.
InvalidRequest ==
  /\ Hears /\ ready
  /\ UNCHANGED <<clientVars, generation, sessionVars>> \/ ForceReconnect
  /\ UNCHANGED <<running, helperReady, opening, provisional, call, peerVars, carrier, crashes>>

Receive(r) ==
  /\ Hears /\ ready
  /\ call[r].stage = "idle"
  /\ call' = [call EXCEPT ![r] =
       [stage |-> "pending", generation |-> generation, socket |-> socket]]
  /\ UNCHANGED <<clientVars, running, generation, helperReady, opening, provisional,
                 sessionVars, peerVars, carrier, crashes>>

\* Mutant of Respond: any ready session will do.
RespondToAnyone(r) ==
  /\ call[r].stage = "pending"
  /\ \/ /\ ready /\ IsOpen
        /\ carrier' = [carrier EXCEPT ![r] = socket]
        /\ call' = [call EXCEPT ![r].stage = "answered"]
     \/ /\ ~(ready /\ IsOpen)
        /\ call' = [call EXCEPT ![r].stage = "dropped"]
        /\ UNCHANGED carrier
  /\ UNCHANGED <<clientVars, running, generation, helperReady, opening, provisional,
                 sessionVars, peerVars, crashes>>

\* The router is done: the response is sent, unless the session has changed.
Respond(r) ==
  /\ call[r].stage = "pending"
  /\ \/ /\ ready /\ call[r].generation = generation
        /\ \/ /\ IsOpen
              /\ carrier' = [carrier EXCEPT ![r] = socket]
              /\ call' = [call EXCEPT ![r].stage = "answered"]
              /\ UNCHANGED <<clientVars, generation, sessionVars>>
           \/ /\ ForceReconnect
              /\ call' = [call EXCEPT ![r].stage = "dropped"]
              /\ UNCHANGED carrier
     \/ /\ ~(ready /\ call[r].generation = generation)
        /\ call' = [call EXCEPT ![r].stage = "dropped"]
        /\ UNCHANGED <<clientVars, generation, sessionVars, carrier>>
  /\ UNCHANGED <<running, helperReady, opening, provisional, peerVars, crashes>>

-----------------------------------------------------------------------------
(* Timers. *)

ReconnectTimer ==
  /\ reconnect
  /\ reconnect' = FALSE
  /\ Connect
  /\ UNCHANGED <<pinging, pong, running, generation, helperReady, opening, provisional,
                 sessionVars, call, peerVars, carrier, crashes>>

HandshakeDeadline ==
  /\ deadline
  /\ ForceReconnect
  /\ UNCHANGED <<running, helperReady, opening, provisional, call, peerVars, carrier, crashes>>

\* Mutant of ProvisionalTimer: it does not reconnect.
ProvisionalTimerIdle(g) ==
  /\ g \in provisional
  /\ provisional' = provisional \ {g}
  /\ UNCHANGED <<clientVars, running, generation, helperReady, opening, sessionVars, call,
                 peerVars, carrier, crashes>>

ProvisionalTimer(g) ==
  /\ g \in provisional
  /\ provisional' = provisional \ {g}
  /\ \/ g = generation /\ ForceReconnect
     \/ g # generation /\ UNCHANGED <<clientVars, generation, sessionVars>>
  /\ UNCHANGED <<running, helperReady, opening, call, peerVars, carrier, crashes>>

\* A heartbeat that cannot be sent.
HeartbeatFails ==
  /\ ready /\ heartbeat = generation
  /\ ForceReconnect
  /\ UNCHANGED <<running, helperReady, opening, provisional, call, peerVars, carrier, crashes>>

\* Mutant of Ping: no deadline is set for the pong.
PingOnly ==
  /\ pinging /\ IsOpen
  /\ UNCHANGED vars

Ping ==
  /\ pinging /\ IsOpen
  /\ pong' = TRUE
  /\ UNCHANGED <<socket, readyState, reconnect, pinging, running, generation, helperReady,
                 opening, provisional, sessionVars, call, peerVars, carrier, crashes>>

\* A pong is taken for the current socket's, whichever socket it came on.
Pong(s) ==
  /\ pong /\ readyState[s] \in {"OPEN", "CLOSING"} /\ s \notin silent
  /\ pong' = FALSE
  /\ UNCHANGED <<socket, readyState, reconnect, pinging, running, generation, helperReady,
                 opening, provisional, sessionVars, call, peerVars, carrier, crashes>>

PongDeadline ==
  /\ pong
  /\ ForceReconnect
  /\ UNCHANGED <<running, helperReady, opening, provisional, call, peerVars, carrier, crashes>>

Next ==
  \/ Start \/ Stop \/ Crash
  \/ \E s \in Socket : Open(s) \/ Disconnect(s) \/ Vanish(s) \/ CloseEvent(s) \/ Pong(s)
  \/ \E g \in opening : Continue(g)
  \/ \E g \in provisional : ProvisionalTimer(g)
  \/ RejectMessage \/ AcceptHandshake \/ AcceptProvisional \/ InvalidRequest
  \/ \E r \in Request : Receive(r) \/ Respond(r)
  \/ ReconnectTimer \/ HandshakeDeadline \/ HeartbeatFails \/ Ping \/ PongDeadline

\* Timers fire, awaited calls settle (the helper client gives up after 2 s), and a
\* peer that has not vanished answers the upgrade.  Nothing else is asked of it.
Fairness ==
  /\ WF_vars(ReconnectTimer) /\ WF_vars(HandshakeDeadline)
  /\ WF_vars(Ping) /\ WF_vars(PongDeadline)
  /\ WF_vars(\E g \in opening : Continue(g))
  /\ WF_vars(\E g \in provisional : ProvisionalTimer(g))
  /\ \A s \in Socket : WF_vars(Open(s)) /\ WF_vars(CloseEvent(s))

Spec == Init /\ [][Next]_vars
FairSpec == Spec /\ Fairness

-----------------------------------------------------------------------------
(* Properties. *)

TypeOK ==
  /\ socket \in Socket \cup {NoSocket}
  /\ readyState \in [Socket -> ReadyState]
  /\ {reconnect, pinging, pong, running, ready, helperReady, deadline, snapshots, marker}
       \subseteq BOOLEAN
  /\ generation \in Nat /\ heartbeat \in 0..generation
  /\ opening \subseteq 1..generation /\ provisional \subseteq 1..generation
  /\ policy \in [generation : 1..generation, write : BOOLEAN] \cup {None}
  /\ call \in [Request -> [stage : {"idle", "pending", "answered", "dropped"},
                          generation : Nat, socket : Socket \cup {NoSocket}]]
  /\ silent \subseteq Socket
  /\ handshakes \in [Socket -> Nat] /\ offer \in [Socket -> BOOLEAN]
  /\ carrier \in [Request -> Socket \cup {NoSocket}]
  /\ crashes \in Nat

\* A running agent has a live socket or is about to make one, never neither and
\* never both: no event, in whatever order, loses the reconnect or doubles it.
SocketOrTimer ==
  /\ running => (socket # NoSocket) # reconnect
  /\ ~running => socket = NoSocket /\ ~reconnect
  /\ \A s \in Socket : readyState[s] \in {"CONNECTING", "OPEN"} => s = socket

\* "Disconnect revokes queued and future work and stops telemetry": without a
\* connection there is no policy, no telemetry and no timer that could act on
\* the next connection.
NothingOutlivesConnection ==
  socket = NoSocket =>
    /\ ~ready /\ policy = None /\ ~snapshots
    /\ ~deadline /\ heartbeat = 0 /\ ~pinging /\ ~pong

\* Tools are exposed only in an authenticated session, under its own generation; and
\* the marker the installer trusts does not outlive that session, nor, once the agent
\* runs again, the process that wrote it.
ReadyIsCurrent ==
  /\ marker /\ running => ready
  /\ ready <=> policy # None
  /\ ready => policy.generation = generation /\ heartbeat = generation /\ snapshots

\* The control plane is made one offer per connection, and write tools are enabled only
\* where that offer had them because the helper answered for this connection, however
\* long it was asked on behalf of an earlier one.
OneOffer ==
  /\ \A s \in Socket : handshakes[s] <= 1
  /\ policy # None /\ policy.write => offer[socket]

\* A response goes to the connection its request came from, or nowhere.
ResponsesStayHome ==
  \A r \in Request : carrier[r] # NoSocket => carrier[r] = call[r].socket

\* "Control plane unavailable: the agent reconnects": an agent without a session
\* gets one or schedules another attempt.
Reconnects == (running /\ ~ready) ~> (ready \/ reconnect \/ ~running)

\* The upgrade of the current socket will never be answered.
Unanswered == socket \in silent /\ readyState[socket] = "CONNECTING"

\* An agent without a session gets one or schedules another attempt, unless its
\* peer accepted the connection and never answers the upgrade.
NeverStuck == (running /\ ~ready) ~> (ready \/ reconnect \/ ~running \/ Unanswered)

\* A session whose peer has vanished is given up.
DeadPeerNoticed == (ready /\ socket \in silent) ~> ~ready

=============================================================================
