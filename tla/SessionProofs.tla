----------------------------- MODULE SessionProofs -----------------------------
(***************************************************************************)
(* Of the session with the control plane, for any number of sockets, of      *)
(* requests and of deaths of the process: there is always one way forward,   *)
(* nothing of a connection outlives it, and what the control plane is        *)
(* offered, and answered, belongs to the connection it is offered and        *)
(* answered on.                                                             *)
(***************************************************************************)
EXTENDS Session, TLAPS

\* What helperReady says was asked and offered on the socket that is open; a
\* generation whose open() still waits has not offered anything.
Asked ==
  /\ socket # NoSocket /\ readyState[socket] = "OPEN" /\ helperReady => offer[socket]
  /\ generation \in opening =>
       /\ socket # NoSocket /\ handshakes[socket] = 0
       /\ ~helperReady /\ (policy # None => ~policy.write)
  /\ \A s \in Socket : readyState[s] \in {"UNUSED", "CONNECTING"} => handshakes[s] = 0

\* A request of the generation in force came on the socket in use.
Pending ==
  \A r \in Request :
    /\ call[r].stage = "idle" => carrier[r] = NoSocket
    /\ call[r].stage = "pending" => call[r].generation <= generation
    /\ call[r].stage = "pending" /\ call[r].generation = generation =>
         socket # NoSocket /\ call[r].socket = socket

\* A running agent has a generation.
Numbered == running => generation # 0

IInv ==
  /\ TypeOK /\ SocketOrTimer /\ NothingOutlivesConnection /\ ReadyIsCurrent
  /\ OneOffer /\ ResponsesStayHome /\ Asked /\ Pending /\ Numbered

\* The agent begins stopped, with no socket.
LEMMA InitInv == Init => IInv
<1> SUFFICES ASSUME Init PROVE IInv
  OBVIOUS
<1> USE NoneAssumption, SwitchAssumption, BoundAssumption DEF IInv, Init, Socket, NoSocket,
        ReadyState, Idle
<1>1. TypeOK
  <2>1. socket \in Socket \cup {NoSocket}
    OBVIOUS
  <2>2. readyState \in [Socket -> ReadyState]
    OBVIOUS
  <2>3. {reconnect, pinging, pong, running, ready, helperReady, deadline, snapshots, marker} \subseteq BOOLEAN
    OBVIOUS
  <2>4. generation \in Nat /\ heartbeat \in 0..generation
    OBVIOUS
  <2>5. opening \subseteq 1..generation /\ provisional \subseteq 1..generation
    OBVIOUS
  <2>6. policy \in [generation : 1..generation, write : BOOLEAN] \cup {None}
    OBVIOUS
  <2>7. call \in [Request -> [stage : {"idle", "pending", "answered", "dropped"},
                        generation : Nat, socket : Socket \cup {NoSocket}]]
    OBVIOUS
  <2>8. silent \subseteq Socket /\ crashes \in Nat
    OBVIOUS
  <2>9. handshakes \in [Socket -> Nat] /\ offer \in [Socket -> BOOLEAN]
    OBVIOUS
  <2>10. carrier \in [Request -> Socket \cup {NoSocket}]
    OBVIOUS
  <2> QED BY <2>1, <2>2, <2>3, <2>4, <2>5, <2>6, <2>7, <2>8, <2>9, <2>10 DEF TypeOK
<1>2. SocketOrTimer /\ NothingOutlivesConnection /\ ReadyIsCurrent
  BY DEF SocketOrTimer, NothingOutlivesConnection, ReadyIsCurrent
<1>3. OneOffer /\ ResponsesStayHome /\ Asked /\ Pending /\ Numbered
  BY DEF OneOffer, ResponsesStayHome, Asked, Pending, Numbered
<1> QED BY <1>1, <1>2, <1>3

\* The server answers the upgrade.
LEMMA OpenInv ==
  ASSUME IInv, NEW s \in Socket, Open(s)
  PROVE  IInv'
<1> USE NoneAssumption, SwitchAssumption, BoundAssumption DEF IInv, Socket, NoSocket, Open,
        ClearSession, ReadyState, clientVars, sessionVars, peerVars
<1>1. TypeOK'
  <2>1. (socket \in Socket \cup {NoSocket})'
    BY DEF TypeOK
  <2>2. (readyState \in [Socket -> ReadyState])'
    BY DEF TypeOK
  <2>3. ({reconnect, pinging, pong, running, ready, helperReady, deadline, snapshots, marker} \subseteq BOOLEAN)'
    BY DEF TypeOK
  <2>4. (generation \in Nat /\ heartbeat \in 0..generation)'
    BY DEF TypeOK
  <2>5. (opening \subseteq 1..generation /\ provisional \subseteq 1..generation)'
    BY DEF TypeOK
  <2>6. (policy \in [generation : 1..generation, write : BOOLEAN] \cup {None})'
    BY DEF TypeOK
  <2>7. (call \in [Request -> [stage : {"idle", "pending", "answered", "dropped"},
                        generation : Nat, socket : Socket \cup {NoSocket}]])'
    BY DEF TypeOK
  <2>8. (silent \subseteq Socket /\ crashes \in Nat)'
    BY DEF TypeOK
  <2>9. (handshakes \in [Socket -> Nat] /\ offer \in [Socket -> BOOLEAN])'
    BY DEF TypeOK
  <2>10. (carrier \in [Request -> Socket \cup {NoSocket}])'
    BY DEF TypeOK
  <2> QED BY <2>1, <2>2, <2>3, <2>4, <2>5, <2>6, <2>7, <2>8, <2>9, <2>10 DEF TypeOK
<1>2. SocketOrTimer'
  BY DEF TypeOK, SocketOrTimer
<1>3. NothingOutlivesConnection'
  BY DEF TypeOK, NothingOutlivesConnection, SocketOrTimer
<1>4. ReadyIsCurrent'
  BY DEF TypeOK, ReadyIsCurrent, NothingOutlivesConnection, SocketOrTimer
<1>5. OneOffer'
  BY DEF TypeOK, OneOffer, ReadyIsCurrent, Asked
<1>6. ResponsesStayHome'
  BY DEF TypeOK, ResponsesStayHome, Pending
<1>7. Asked'
  BY DEF TypeOK, Asked, OneOffer, SocketOrTimer
<1>8. Pending'
  BY DEF TypeOK, Pending, SocketOrTimer
<1>9. Numbered'
  BY DEF TypeOK, Numbered
<1> QED BY <1>1, <1>2, <1>3, <1>4, <1>5, <1>6, <1>7, <1>8, <1>9

\* A connection fails.
LEMMA DisconnectInv ==
  ASSUME IInv, NEW s \in Socket, Disconnect(s)
  PROVE  IInv'
<1> USE NoneAssumption, SwitchAssumption, BoundAssumption DEF IInv, Socket, NoSocket, Disconnect,
        ReadyState, clientVars, sessionVars, peerVars
<1>1. TypeOK'
  <2>1. (socket \in Socket \cup {NoSocket})'
    BY DEF TypeOK
  <2>2. (readyState \in [Socket -> ReadyState])'
    BY DEF TypeOK
  <2>3. ({reconnect, pinging, pong, running, ready, helperReady, deadline, snapshots, marker} \subseteq BOOLEAN)'
    BY DEF TypeOK
  <2>4. (generation \in Nat /\ heartbeat \in 0..generation)'
    BY DEF TypeOK
  <2>5. (opening \subseteq 1..generation /\ provisional \subseteq 1..generation)'
    BY DEF TypeOK
  <2>6. (policy \in [generation : 1..generation, write : BOOLEAN] \cup {None})'
    BY DEF TypeOK
  <2>7. (call \in [Request -> [stage : {"idle", "pending", "answered", "dropped"},
                        generation : Nat, socket : Socket \cup {NoSocket}]])'
    BY DEF TypeOK
  <2>8. (silent \subseteq Socket /\ crashes \in Nat)'
    BY DEF TypeOK
  <2>9. (handshakes \in [Socket -> Nat] /\ offer \in [Socket -> BOOLEAN])'
    BY DEF TypeOK
  <2>10. (carrier \in [Request -> Socket \cup {NoSocket}])'
    BY DEF TypeOK
  <2> QED BY <2>1, <2>2, <2>3, <2>4, <2>5, <2>6, <2>7, <2>8, <2>9, <2>10 DEF TypeOK
<1>2. SocketOrTimer'
  BY DEF TypeOK, SocketOrTimer
<1>3. NothingOutlivesConnection'
  BY DEF TypeOK, NothingOutlivesConnection, SocketOrTimer
<1>4. ReadyIsCurrent'
  BY DEF TypeOK, ReadyIsCurrent, NothingOutlivesConnection, SocketOrTimer
<1>5. OneOffer'
  BY DEF TypeOK, OneOffer, ReadyIsCurrent, Asked
<1>6. ResponsesStayHome'
  BY DEF TypeOK, ResponsesStayHome, Pending
<1>7. Asked'
  BY DEF TypeOK, Asked, OneOffer, SocketOrTimer
<1>8. Pending'
  BY DEF TypeOK, Pending, SocketOrTimer
<1>9. Numbered'
  BY DEF TypeOK, Numbered
<1> QED BY <1>1, <1>2, <1>3, <1>4, <1>5, <1>6, <1>7, <1>8, <1>9

\* A socket closes.
LEMMA CloseEventInv ==
  ASSUME IInv, NEW s \in Socket, CloseEvent(s)
  PROVE  IInv'
<1> USE NoneAssumption, SwitchAssumption, BoundAssumption DEF IInv, Socket, NoSocket, CloseEvent,
        Closed, ClearSession, ClearPing, ReadyState, clientVars, sessionVars, peerVars
<1>1. TypeOK'
  <2>1. (socket \in Socket \cup {NoSocket})'
    BY DEF TypeOK
  <2>2. (readyState \in [Socket -> ReadyState])'
    BY DEF TypeOK
  <2>3. ({reconnect, pinging, pong, running, ready, helperReady, deadline, snapshots, marker} \subseteq BOOLEAN)'
    BY DEF TypeOK
  <2>4. (generation \in Nat /\ heartbeat \in 0..generation)'
    BY DEF TypeOK
  <2>5. (opening \subseteq 1..generation /\ provisional \subseteq 1..generation)'
    BY DEF TypeOK
  <2>6. (policy \in [generation : 1..generation, write : BOOLEAN] \cup {None})'
    BY DEF TypeOK
  <2>7. (call \in [Request -> [stage : {"idle", "pending", "answered", "dropped"},
                        generation : Nat, socket : Socket \cup {NoSocket}]])'
    BY DEF TypeOK
  <2>8. (silent \subseteq Socket /\ crashes \in Nat)'
    BY DEF TypeOK
  <2>9. (handshakes \in [Socket -> Nat] /\ offer \in [Socket -> BOOLEAN])'
    BY DEF TypeOK
  <2>10. (carrier \in [Request -> Socket \cup {NoSocket}])'
    BY DEF TypeOK
  <2> QED BY <2>1, <2>2, <2>3, <2>4, <2>5, <2>6, <2>7, <2>8, <2>9, <2>10 DEF TypeOK
<1>2. SocketOrTimer'
  BY DEF TypeOK, SocketOrTimer
<1>3. NothingOutlivesConnection'
  BY DEF TypeOK, NothingOutlivesConnection, SocketOrTimer
<1>4. ReadyIsCurrent'
  BY DEF TypeOK, ReadyIsCurrent, NothingOutlivesConnection, SocketOrTimer
<1>5. OneOffer'
  BY DEF TypeOK, OneOffer, ReadyIsCurrent, Asked
<1>6. ResponsesStayHome'
  BY DEF TypeOK, ResponsesStayHome, Pending
<1>7. Asked'
  BY DEF TypeOK, Asked, OneOffer, SocketOrTimer
<1>8. Pending'
  BY DEF TypeOK, Pending, SocketOrTimer
<1>9. Numbered'
  BY DEF TypeOK, Numbered
<1> QED BY <1>1, <1>2, <1>3, <1>4, <1>5, <1>6, <1>7, <1>8, <1>9

\* The agent starts.
LEMMA StartInv ==
  ASSUME IInv, Start
  PROVE  IInv'
<1> USE NoneAssumption, SwitchAssumption, BoundAssumption DEF IInv, Socket, NoSocket, Start,
        Connect, Closed, ClearSession, ReadyState, clientVars, sessionVars, peerVars
<1>1. TypeOK'
  <2>1. (socket \in Socket \cup {NoSocket})'
    BY DEF TypeOK
  <2>2. (readyState \in [Socket -> ReadyState])'
    BY DEF TypeOK
  <2>3. ({reconnect, pinging, pong, running, ready, helperReady, deadline, snapshots, marker} \subseteq BOOLEAN)'
    BY DEF TypeOK
  <2>4. (generation \in Nat /\ heartbeat \in 0..generation)'
    BY DEF TypeOK
  <2>5. (opening \subseteq 1..generation /\ provisional \subseteq 1..generation)'
    BY DEF TypeOK
  <2>6. (policy \in [generation : 1..generation, write : BOOLEAN] \cup {None})'
    BY DEF TypeOK
  <2>7. (call \in [Request -> [stage : {"idle", "pending", "answered", "dropped"},
                        generation : Nat, socket : Socket \cup {NoSocket}]])'
    BY DEF TypeOK
  <2>8. (silent \subseteq Socket /\ crashes \in Nat)'
    BY DEF TypeOK
  <2>9. (handshakes \in [Socket -> Nat] /\ offer \in [Socket -> BOOLEAN])'
    BY DEF TypeOK
  <2>10. (carrier \in [Request -> Socket \cup {NoSocket}])'
    BY DEF TypeOK
  <2> QED BY <2>1, <2>2, <2>3, <2>4, <2>5, <2>6, <2>7, <2>8, <2>9, <2>10 DEF TypeOK
<1>2. SocketOrTimer'
  <2>1. socket = 0 /\ \A t \in Socket : readyState[t] \notin {"CONNECTING", "OPEN"}
    BY DEF TypeOK, SocketOrTimer
  <2>2. PICK t \in Socket : socket' = t /\ readyState' = [readyState EXCEPT ![t] = "CONNECTING"]
    OBVIOUS
  <2>3. \A u \in Socket : readyState'[u] \in {"CONNECTING", "OPEN"} => u = socket'
    BY <2>1, <2>2 DEF TypeOK
  <2>4. running' /\ ~reconnect' /\ socket' # 0
    BY <2>2 DEF SocketOrTimer
  <2> QED BY <2>3, <2>4 DEF SocketOrTimer
<1>3. NothingOutlivesConnection'
  BY DEF TypeOK, NothingOutlivesConnection, SocketOrTimer
<1>4. ReadyIsCurrent'
  BY DEF TypeOK, ReadyIsCurrent, NothingOutlivesConnection, SocketOrTimer
<1>5. OneOffer'
  BY DEF TypeOK, OneOffer, ReadyIsCurrent, Asked
<1>6. ResponsesStayHome'
  BY DEF TypeOK, ResponsesStayHome, Pending
<1>7. Asked'
  BY DEF TypeOK, Asked, OneOffer, SocketOrTimer
<1>8. Pending'
  BY DEF TypeOK, Pending, SocketOrTimer
<1>9. Numbered'
  BY DEF TypeOK, Numbered
<1> QED BY <1>1, <1>2, <1>3, <1>4, <1>5, <1>6, <1>7, <1>8, <1>9

\* The agent stops.
LEMMA StopInv ==
  ASSUME IInv, Stop
  PROVE  IInv'
<1> USE NoneAssumption, SwitchAssumption, BoundAssumption DEF IInv, Socket, NoSocket, Stop,
        Terminated, Closed, ClearSession, ClearPing, ReadyState, clientVars, sessionVars, peerVars
<1>1. TypeOK'
  <2>1. (socket \in Socket \cup {NoSocket})'
    BY DEF TypeOK
  <2>2. (readyState \in [Socket -> ReadyState])'
    BY DEF TypeOK
  <2>3. ({reconnect, pinging, pong, running, ready, helperReady, deadline, snapshots, marker} \subseteq BOOLEAN)'
    BY DEF TypeOK
  <2>4. (generation \in Nat /\ heartbeat \in 0..generation)'
    BY DEF TypeOK
  <2>5. (opening \subseteq 1..generation /\ provisional \subseteq 1..generation)'
    BY DEF TypeOK
  <2>6. (policy \in [generation : 1..generation, write : BOOLEAN] \cup {None})'
    BY DEF TypeOK
  <2>7. (call \in [Request -> [stage : {"idle", "pending", "answered", "dropped"},
                        generation : Nat, socket : Socket \cup {NoSocket}]])'
    BY DEF TypeOK
  <2>8. (silent \subseteq Socket /\ crashes \in Nat)'
    BY DEF TypeOK
  <2>9. (handshakes \in [Socket -> Nat] /\ offer \in [Socket -> BOOLEAN])'
    BY DEF TypeOK
  <2>10. (carrier \in [Request -> Socket \cup {NoSocket}])'
    BY DEF TypeOK
  <2> QED BY <2>1, <2>2, <2>3, <2>4, <2>5, <2>6, <2>7, <2>8, <2>9, <2>10 DEF TypeOK
<1>2. SocketOrTimer'
  BY DEF TypeOK, SocketOrTimer
<1>3. NothingOutlivesConnection'
  BY DEF TypeOK, NothingOutlivesConnection, SocketOrTimer
<1>4. ReadyIsCurrent'
  BY DEF TypeOK, ReadyIsCurrent, NothingOutlivesConnection, SocketOrTimer
<1>5. OneOffer'
  BY DEF TypeOK, OneOffer, ReadyIsCurrent, Asked
<1>6. ResponsesStayHome'
  BY DEF TypeOK, ResponsesStayHome, Pending
<1>7. Asked'
  BY DEF TypeOK, Asked, OneOffer, SocketOrTimer
<1>8. Pending'
  BY DEF TypeOK, Pending, SocketOrTimer
<1>9. Numbered'
  BY DEF TypeOK, Numbered
<1> QED BY <1>1, <1>2, <1>3, <1>4, <1>5, <1>6, <1>7, <1>8, <1>9

\* The agent dies.
LEMMA CrashInv ==
  ASSUME IInv, Crash
  PROVE  IInv'
<1> USE NoneAssumption, SwitchAssumption, BoundAssumption DEF IInv, Socket, NoSocket, Crash,
        ClearPing, ReadyState, clientVars, sessionVars, peerVars
<1>1. TypeOK'
  <2>1. (socket \in Socket \cup {NoSocket})'
    BY DEF TypeOK
  <2>2. (readyState \in [Socket -> ReadyState])'
    BY DEF TypeOK
  <2>3. ({reconnect, pinging, pong, running, ready, helperReady, deadline, snapshots, marker} \subseteq BOOLEAN)'
    BY DEF TypeOK
  <2>4. (generation \in Nat /\ heartbeat \in 0..generation)'
    BY DEF TypeOK
  <2>5. (opening \subseteq 1..generation /\ provisional \subseteq 1..generation)'
    BY DEF TypeOK
  <2>6. (policy \in [generation : 1..generation, write : BOOLEAN] \cup {None})'
    BY DEF TypeOK
  <2>7. (call \in [Request -> [stage : {"idle", "pending", "answered", "dropped"},
                        generation : Nat, socket : Socket \cup {NoSocket}]])'
    <3>1. ASSUME NEW r \in Request
          PROVE  call'[r] \in [stage : {"idle", "pending", "answered", "dropped"},
                               generation : Nat, socket : Socket \cup {NoSocket}]
      BY DEF TypeOK
    <3> QED BY <3>1
  <2>8. (silent \subseteq Socket /\ crashes \in Nat)'
    BY DEF TypeOK
  <2>9. (handshakes \in [Socket -> Nat] /\ offer \in [Socket -> BOOLEAN])'
    BY DEF TypeOK
  <2>10. (carrier \in [Request -> Socket \cup {NoSocket}])'
    BY DEF TypeOK
  <2> QED BY <2>1, <2>2, <2>3, <2>4, <2>5, <2>6, <2>7, <2>8, <2>9, <2>10 DEF TypeOK
<1>2. SocketOrTimer'
  BY DEF TypeOK, SocketOrTimer
<1>3. NothingOutlivesConnection'
  BY DEF TypeOK, NothingOutlivesConnection, SocketOrTimer
<1>4. ReadyIsCurrent'
  BY DEF TypeOK, ReadyIsCurrent, NothingOutlivesConnection, SocketOrTimer
<1>5. OneOffer'
  BY DEF TypeOK, OneOffer, ReadyIsCurrent, Asked
<1>6. ResponsesStayHome'
  BY DEF TypeOK, ResponsesStayHome, Pending
<1>7. Asked'
  BY DEF TypeOK, Asked, OneOffer, SocketOrTimer
<1>8. Pending'
  BY DEF TypeOK, Pending, SocketOrTimer
<1>9. Numbered'
  BY DEF TypeOK, Numbered
<1> QED BY <1>1, <1>2, <1>3, <1>4, <1>5, <1>6, <1>7, <1>8, <1>9

\* Another attempt is made.
LEMMA ReconnectTimerInv ==
  ASSUME IInv, ReconnectTimer
  PROVE  IInv'
<1> USE NoneAssumption, SwitchAssumption, BoundAssumption DEF IInv, Socket, NoSocket,
        ReconnectTimer, Connect, ReadyState, clientVars, sessionVars, peerVars
<1>1. TypeOK'
  <2>1. (socket \in Socket \cup {NoSocket})'
    BY DEF TypeOK
  <2>2. (readyState \in [Socket -> ReadyState])'
    BY DEF TypeOK
  <2>3. ({reconnect, pinging, pong, running, ready, helperReady, deadline, snapshots, marker} \subseteq BOOLEAN)'
    BY DEF TypeOK
  <2>4. (generation \in Nat /\ heartbeat \in 0..generation)'
    BY DEF TypeOK
  <2>5. (opening \subseteq 1..generation /\ provisional \subseteq 1..generation)'
    BY DEF TypeOK
  <2>6. (policy \in [generation : 1..generation, write : BOOLEAN] \cup {None})'
    BY DEF TypeOK
  <2>7. (call \in [Request -> [stage : {"idle", "pending", "answered", "dropped"},
                        generation : Nat, socket : Socket \cup {NoSocket}]])'
    BY DEF TypeOK
  <2>8. (silent \subseteq Socket /\ crashes \in Nat)'
    BY DEF TypeOK
  <2>9. (handshakes \in [Socket -> Nat] /\ offer \in [Socket -> BOOLEAN])'
    BY DEF TypeOK
  <2>10. (carrier \in [Request -> Socket \cup {NoSocket}])'
    BY DEF TypeOK
  <2> QED BY <2>1, <2>2, <2>3, <2>4, <2>5, <2>6, <2>7, <2>8, <2>9, <2>10 DEF TypeOK
<1>2. SocketOrTimer'
  <2>1. socket = 0 /\ \A t \in Socket : readyState[t] \notin {"CONNECTING", "OPEN"}
    <3>1. reconnect = TRUE /\ running
      BY DEF TypeOK, SocketOrTimer
    <3>2. socket = 0
      BY <3>1 DEF SocketOrTimer
    <3> QED BY <3>2 DEF SocketOrTimer
  <2>2. PICK t \in Socket : socket' = t /\ readyState' = [readyState EXCEPT ![t] = "CONNECTING"]
    OBVIOUS
  <2>3. \A u \in Socket : readyState'[u] \in {"CONNECTING", "OPEN"} => u = socket'
    BY <2>1, <2>2 DEF TypeOK
  <2>4. running' /\ ~reconnect' /\ socket' # 0
    BY <2>2 DEF SocketOrTimer
  <2> QED BY <2>3, <2>4 DEF SocketOrTimer
<1>3. NothingOutlivesConnection'
  BY DEF TypeOK, NothingOutlivesConnection, SocketOrTimer
<1>4. ReadyIsCurrent'
  BY DEF TypeOK, ReadyIsCurrent, NothingOutlivesConnection, SocketOrTimer
<1>5. OneOffer'
  <2>1. socket = 0 /\ policy = None
    BY DEF TypeOK, SocketOrTimer, NothingOutlivesConnection
  <2> QED BY <2>1 DEF OneOffer
<1>6. ResponsesStayHome'
  BY DEF TypeOK, ResponsesStayHome, Pending
<1>7. Asked'
  BY DEF TypeOK, Asked, OneOffer, SocketOrTimer
<1>8. Pending'
  BY DEF TypeOK, Pending, SocketOrTimer
<1>9. Numbered'
  BY DEF TypeOK, Numbered
<1> QED BY <1>1, <1>2, <1>3, <1>4, <1>5, <1>6, <1>7, <1>8, <1>9

\* A peer vanishes.
LEMMA VanishInv ==
  ASSUME IInv, NEW s \in Socket, Vanish(s)
  PROVE  IInv'
<1> USE NoneAssumption, SwitchAssumption, BoundAssumption DEF IInv, Socket, NoSocket, Vanish,
        clientVars, sessionVars, peerVars
<1>1. TypeOK'
  <2>1. (socket \in Socket \cup {NoSocket})'
    BY DEF TypeOK
  <2>2. (readyState \in [Socket -> ReadyState])'
    BY DEF TypeOK
  <2>3. ({reconnect, pinging, pong, running, ready, helperReady, deadline, snapshots, marker} \subseteq BOOLEAN)'
    BY DEF TypeOK
  <2>4. (generation \in Nat /\ heartbeat \in 0..generation)'
    BY DEF TypeOK
  <2>5. (opening \subseteq 1..generation /\ provisional \subseteq 1..generation)'
    BY DEF TypeOK
  <2>6. (policy \in [generation : 1..generation, write : BOOLEAN] \cup {None})'
    BY DEF TypeOK
  <2>7. (call \in [Request -> [stage : {"idle", "pending", "answered", "dropped"},
                        generation : Nat, socket : Socket \cup {NoSocket}]])'
    BY DEF TypeOK
  <2>8. (silent \subseteq Socket /\ crashes \in Nat)'
    BY DEF TypeOK
  <2>9. (handshakes \in [Socket -> Nat] /\ offer \in [Socket -> BOOLEAN])'
    BY DEF TypeOK
  <2>10. (carrier \in [Request -> Socket \cup {NoSocket}])'
    BY DEF TypeOK
  <2> QED BY <2>1, <2>2, <2>3, <2>4, <2>5, <2>6, <2>7, <2>8, <2>9, <2>10 DEF TypeOK
<1>2. SocketOrTimer'
  BY DEF TypeOK, SocketOrTimer
<1>3. NothingOutlivesConnection'
  BY DEF TypeOK, NothingOutlivesConnection, SocketOrTimer
<1>4. ReadyIsCurrent'
  BY DEF TypeOK, ReadyIsCurrent, NothingOutlivesConnection, SocketOrTimer
<1>5. OneOffer'
  BY DEF TypeOK, OneOffer, ReadyIsCurrent, Asked
<1>6. ResponsesStayHome'
  BY DEF TypeOK, ResponsesStayHome, Pending
<1>7. Asked'
  BY DEF TypeOK, Asked, OneOffer, SocketOrTimer
<1>8. Pending'
  BY DEF TypeOK, Pending, SocketOrTimer
<1>9. Numbered'
  BY DEF TypeOK, Numbered
<1> QED BY <1>1, <1>2, <1>3, <1>4, <1>5, <1>6, <1>7, <1>8, <1>9

\* A ping goes out, or a pong comes in.
LEMMA PingInv ==
  ASSUME IInv, Ping \/ \E s \in Socket : Pong(s)
  PROVE  IInv'
<1> USE NoneAssumption, SwitchAssumption, BoundAssumption DEF IInv, Socket, NoSocket, Ping, Pong,
        IsOpen, clientVars, sessionVars, peerVars
<1>1. TypeOK'
  <2>1. (socket \in Socket \cup {NoSocket})'
    BY DEF TypeOK
  <2>2. (readyState \in [Socket -> ReadyState])'
    BY DEF TypeOK
  <2>3. ({reconnect, pinging, pong, running, ready, helperReady, deadline, snapshots, marker} \subseteq BOOLEAN)'
    BY DEF TypeOK
  <2>4. (generation \in Nat /\ heartbeat \in 0..generation)'
    BY DEF TypeOK
  <2>5. (opening \subseteq 1..generation /\ provisional \subseteq 1..generation)'
    BY DEF TypeOK
  <2>6. (policy \in [generation : 1..generation, write : BOOLEAN] \cup {None})'
    BY DEF TypeOK
  <2>7. (call \in [Request -> [stage : {"idle", "pending", "answered", "dropped"},
                        generation : Nat, socket : Socket \cup {NoSocket}]])'
    BY DEF TypeOK
  <2>8. (silent \subseteq Socket /\ crashes \in Nat)'
    BY DEF TypeOK
  <2>9. (handshakes \in [Socket -> Nat] /\ offer \in [Socket -> BOOLEAN])'
    BY DEF TypeOK
  <2>10. (carrier \in [Request -> Socket \cup {NoSocket}])'
    BY DEF TypeOK
  <2> QED BY <2>1, <2>2, <2>3, <2>4, <2>5, <2>6, <2>7, <2>8, <2>9, <2>10 DEF TypeOK
<1>2. SocketOrTimer'
  BY DEF TypeOK, SocketOrTimer
<1>3. NothingOutlivesConnection'
  BY DEF TypeOK, NothingOutlivesConnection, SocketOrTimer
<1>4. ReadyIsCurrent'
  BY DEF TypeOK, ReadyIsCurrent, NothingOutlivesConnection, SocketOrTimer
<1>5. OneOffer'
  BY DEF TypeOK, OneOffer, ReadyIsCurrent, Asked
<1>6. ResponsesStayHome'
  BY DEF TypeOK, ResponsesStayHome, Pending
<1>7. Asked'
  BY DEF TypeOK, Asked, OneOffer, SocketOrTimer
<1>8. Pending'
  BY DEF TypeOK, Pending, SocketOrTimer
<1>9. Numbered'
  BY DEF TypeOK, Numbered
<1> QED BY <1>1, <1>2, <1>3, <1>4, <1>5, <1>6, <1>7, <1>8, <1>9

\* A session becomes ready.
LEMMA AcceptHandshakeInv ==
  ASSUME IInv, AcceptHandshake
  PROVE  IInv'
<1> USE NoneAssumption, SwitchAssumption, BoundAssumption DEF IInv, Socket, NoSocket,
        AcceptHandshake, Hears, clientVars, sessionVars, peerVars
<1>1. TypeOK'
  <2>1. (socket \in Socket \cup {NoSocket})'
    BY DEF TypeOK
  <2>2. (readyState \in [Socket -> ReadyState])'
    BY DEF TypeOK
  <2>3. ({reconnect, pinging, pong, running, ready, helperReady, deadline, snapshots, marker} \subseteq BOOLEAN)'
    BY DEF TypeOK
  <2>4. (generation \in Nat /\ heartbeat \in 0..generation)'
    BY DEF TypeOK
  <2>5. (opening \subseteq 1..generation /\ provisional \subseteq 1..generation)'
    BY DEF TypeOK, SocketOrTimer, Numbered
  <2>6. (policy \in [generation : 1..generation, write : BOOLEAN] \cup {None})'
    BY DEF TypeOK, SocketOrTimer, Numbered
  <2>7. (call \in [Request -> [stage : {"idle", "pending", "answered", "dropped"},
                        generation : Nat, socket : Socket \cup {NoSocket}]])'
    BY DEF TypeOK
  <2>8. (silent \subseteq Socket /\ crashes \in Nat)'
    BY DEF TypeOK
  <2>9. (handshakes \in [Socket -> Nat] /\ offer \in [Socket -> BOOLEAN])'
    BY DEF TypeOK
  <2>10. (carrier \in [Request -> Socket \cup {NoSocket}])'
    BY DEF TypeOK
  <2> QED BY <2>1, <2>2, <2>3, <2>4, <2>5, <2>6, <2>7, <2>8, <2>9, <2>10 DEF TypeOK
<1>2. SocketOrTimer'
  BY DEF TypeOK, SocketOrTimer
<1>3. NothingOutlivesConnection'
  BY DEF TypeOK, NothingOutlivesConnection, SocketOrTimer
<1>4. ReadyIsCurrent'
  BY DEF TypeOK, ReadyIsCurrent, NothingOutlivesConnection, SocketOrTimer
<1>5. OneOffer'
  BY DEF TypeOK, OneOffer, ReadyIsCurrent, Asked
<1>6. ResponsesStayHome'
  BY DEF TypeOK, ResponsesStayHome, Pending
<1>7. Asked'
  BY DEF TypeOK, Asked, OneOffer, SocketOrTimer
<1>8. Pending'
  BY DEF TypeOK, Pending, SocketOrTimer
<1>9. Numbered'
  BY DEF TypeOK, Numbered
<1> QED BY <1>1, <1>2, <1>3, <1>4, <1>5, <1>6, <1>7, <1>8, <1>9

\* A session is provisional.
LEMMA AcceptProvisionalInv ==
  ASSUME IInv, AcceptProvisional
  PROVE  IInv'
<1> USE NoneAssumption, SwitchAssumption, BoundAssumption DEF IInv, Socket, NoSocket,
        AcceptProvisional, Hears, clientVars, sessionVars, peerVars
<1>1. TypeOK'
  <2>1. (socket \in Socket \cup {NoSocket})'
    BY DEF TypeOK
  <2>2. (readyState \in [Socket -> ReadyState])'
    BY DEF TypeOK
  <2>3. ({reconnect, pinging, pong, running, ready, helperReady, deadline, snapshots, marker} \subseteq BOOLEAN)'
    BY DEF TypeOK
  <2>4. (generation \in Nat /\ heartbeat \in 0..generation)'
    BY DEF TypeOK
  <2>5. (opening \subseteq 1..generation /\ provisional \subseteq 1..generation)'
    BY DEF TypeOK, SocketOrTimer, Numbered
  <2>6. (policy \in [generation : 1..generation, write : BOOLEAN] \cup {None})'
    BY DEF TypeOK, SocketOrTimer, Numbered
  <2>7. (call \in [Request -> [stage : {"idle", "pending", "answered", "dropped"},
                        generation : Nat, socket : Socket \cup {NoSocket}]])'
    BY DEF TypeOK
  <2>8. (silent \subseteq Socket /\ crashes \in Nat)'
    BY DEF TypeOK
  <2>9. (handshakes \in [Socket -> Nat] /\ offer \in [Socket -> BOOLEAN])'
    BY DEF TypeOK
  <2>10. (carrier \in [Request -> Socket \cup {NoSocket}])'
    BY DEF TypeOK
  <2> QED BY <2>1, <2>2, <2>3, <2>4, <2>5, <2>6, <2>7, <2>8, <2>9, <2>10 DEF TypeOK
<1>2. SocketOrTimer'
  BY DEF TypeOK, SocketOrTimer
<1>3. NothingOutlivesConnection'
  BY DEF TypeOK, NothingOutlivesConnection, SocketOrTimer
<1>4. ReadyIsCurrent'
  BY DEF TypeOK, ReadyIsCurrent, NothingOutlivesConnection, SocketOrTimer
<1>5. OneOffer'
  BY DEF TypeOK, OneOffer, ReadyIsCurrent, Asked
<1>6. ResponsesStayHome'
  BY DEF TypeOK, ResponsesStayHome, Pending
<1>7. Asked'
  BY DEF TypeOK, Asked, OneOffer, SocketOrTimer
<1>8. Pending'
  BY DEF TypeOK, Pending, SocketOrTimer
<1>9. Numbered'
  BY DEF TypeOK, Numbered
<1> QED BY <1>1, <1>2, <1>3, <1>4, <1>5, <1>6, <1>7, <1>8, <1>9

\* A request comes in.
LEMMA ReceiveInv ==
  ASSUME IInv, NEW r \in Request, Receive(r)
  PROVE  IInv'
<1> USE NoneAssumption, SwitchAssumption, BoundAssumption DEF IInv, Socket, NoSocket, Receive,
        Hears, clientVars, sessionVars, peerVars
<1>1. TypeOK'
  <2>1. (socket \in Socket \cup {NoSocket})'
    BY DEF TypeOK
  <2>2. (readyState \in [Socket -> ReadyState])'
    BY DEF TypeOK
  <2>3. ({reconnect, pinging, pong, running, ready, helperReady, deadline, snapshots, marker} \subseteq BOOLEAN)'
    BY DEF TypeOK
  <2>4. (generation \in Nat /\ heartbeat \in 0..generation)'
    BY DEF TypeOK
  <2>5. (opening \subseteq 1..generation /\ provisional \subseteq 1..generation)'
    BY DEF TypeOK
  <2>6. (policy \in [generation : 1..generation, write : BOOLEAN] \cup {None})'
    BY DEF TypeOK
  <2>7. (call \in [Request -> [stage : {"idle", "pending", "answered", "dropped"},
                        generation : Nat, socket : Socket \cup {NoSocket}]])'
    BY DEF TypeOK
  <2>8. (silent \subseteq Socket /\ crashes \in Nat)'
    BY DEF TypeOK
  <2>9. (handshakes \in [Socket -> Nat] /\ offer \in [Socket -> BOOLEAN])'
    BY DEF TypeOK
  <2>10. (carrier \in [Request -> Socket \cup {NoSocket}])'
    BY DEF TypeOK
  <2> QED BY <2>1, <2>2, <2>3, <2>4, <2>5, <2>6, <2>7, <2>8, <2>9, <2>10 DEF TypeOK
<1>2. SocketOrTimer'
  BY DEF TypeOK, SocketOrTimer
<1>3. NothingOutlivesConnection'
  BY DEF TypeOK, NothingOutlivesConnection, SocketOrTimer
<1>4. ReadyIsCurrent'
  BY DEF TypeOK, ReadyIsCurrent, NothingOutlivesConnection, SocketOrTimer
<1>5. OneOffer'
  BY DEF TypeOK, OneOffer, ReadyIsCurrent, Asked
<1>6. ResponsesStayHome'
  BY DEF TypeOK, ResponsesStayHome, Pending
<1>7. Asked'
  BY DEF TypeOK, Asked, OneOffer, SocketOrTimer
<1>8. Pending'
  BY DEF TypeOK, Pending, SocketOrTimer
<1>9. Numbered'
  BY DEF TypeOK, Numbered
<1> QED BY <1>1, <1>2, <1>3, <1>4, <1>5, <1>6, <1>7, <1>8, <1>9

\* A request is dropped, or none is.
CallsKept ==
  \/ call' = call
  \/ \E r \in Request : call[r].stage = "pending" /\ call' = [call EXCEPT ![r].stage = "dropped"]

\* A request that is dropped keeps its generation and its socket.
LEMMA CallsKeptEffect ==
  ASSUME TypeOK, CallsKept
  PROVE  /\ call' \in [Request -> [stage : {"idle", "pending", "answered", "dropped"},
                                   generation : Nat, socket : Socket \cup {NoSocket}]]
         /\ \A r \in Request :
              /\ call'[r].socket = call[r].socket /\ call'[r].generation = call[r].generation
              /\ call'[r].stage \in {call[r].stage, "dropped"}
<1>1. CASE call' = call
  BY <1>1 DEF TypeOK
<1>2. ASSUME NEW r \in Request, call' = [call EXCEPT ![r].stage = "dropped"]
      PROVE  \A q \in Request :
               /\ call'[q].socket = call[q].socket /\ call'[q].generation = call[q].generation
               /\ call'[q].stage \in {call[q].stage, "dropped"}
  BY <1>2 DEF TypeOK
<1>3. ASSUME NEW r \in Request, call' = [call EXCEPT ![r].stage = "dropped"]
      PROVE  call' \in [Request -> [stage : {"idle", "pending", "answered", "dropped"},
                                   generation : Nat, socket : Socket \cup {NoSocket}]]
  BY <1>3 DEF TypeOK
<1> QED BY <1>1, <1>2, <1>3 DEF CallsKept

\* The socket is dropped, in whatever step, with the awaits and timers that step ends.
LEMMA ReconnectInv ==
  ASSUME IInv, ForceReconnect, opening' \subseteq opening, provisional' \subseteq provisional, CallsKept,
         UNCHANGED <<running, peerVars, carrier, crashes>>,
         helperReady' = helperReady \/ (running /\ helperReady' \in BOOLEAN)
  PROVE  IInv'
<1> USE NoneAssumption, SwitchAssumption, BoundAssumption DEF IInv, Socket, NoSocket,
        ForceReconnect, Terminated, Closed, ClearSession, ClearPing, ReadyState, clientVars,
        sessionVars, peerVars
<1>1. TypeOK'
  <2>1. (socket \in Socket \cup {NoSocket})'
    BY DEF TypeOK
  <2>2. (readyState \in [Socket -> ReadyState])'
    BY DEF TypeOK
  <2>3. ({reconnect, pinging, pong, running, ready, helperReady, deadline, snapshots, marker} \subseteq BOOLEAN)'
    BY DEF TypeOK
  <2>4. (generation \in Nat /\ heartbeat \in 0..generation)'
    BY DEF TypeOK
  <2>5. (opening \subseteq 1..generation /\ provisional \subseteq 1..generation)'
    BY DEF TypeOK
  <2>6. (policy \in [generation : 1..generation, write : BOOLEAN] \cup {None})'
    BY DEF TypeOK
  <2>7. (call \in [Request -> [stage : {"idle", "pending", "answered", "dropped"},
                        generation : Nat, socket : Socket \cup {NoSocket}]])'
    BY CallsKeptEffect DEF TypeOK
  <2>8. (silent \subseteq Socket /\ crashes \in Nat)'
    BY DEF TypeOK
  <2>9. (handshakes \in [Socket -> Nat] /\ offer \in [Socket -> BOOLEAN])'
    BY DEF TypeOK
  <2>10. (carrier \in [Request -> Socket \cup {NoSocket}])'
    BY DEF TypeOK
  <2> QED BY <2>1, <2>2, <2>3, <2>4, <2>5, <2>6, <2>7, <2>8, <2>9, <2>10 DEF TypeOK
<1>2. SocketOrTimer'
  <2>1. CASE running
    <3>1. socket' = 0 /\ reconnect' = TRUE /\ running'
      BY <2>1
    <3>2. \A s \in Socket : readyState'[s] \notin {"CONNECTING", "OPEN"}
      BY <2>1 DEF TypeOK, SocketOrTimer
    <3> QED BY <3>1, <3>2 DEF SocketOrTimer
  <2>2. CASE ~running
    BY <2>2 DEF SocketOrTimer
  <2> QED BY <2>1, <2>2
<1>3. NothingOutlivesConnection'
  BY DEF TypeOK, NothingOutlivesConnection, SocketOrTimer
<1>4. ReadyIsCurrent'
  BY DEF TypeOK, ReadyIsCurrent, NothingOutlivesConnection, SocketOrTimer
<1>5. OneOffer'
  BY DEF TypeOK, OneOffer, ReadyIsCurrent, Asked
<1>6. ResponsesStayHome'
  BY CallsKeptEffect DEF TypeOK, ResponsesStayHome, Pending
<1>7. Asked'
  BY DEF TypeOK, Asked, OneOffer, SocketOrTimer
<1>8. Pending'
  <2>1. \A r \in Request :
          /\ call'[r].socket = call[r].socket /\ call'[r].generation = call[r].generation
          /\ call'[r].stage \in {call[r].stage, "dropped"} /\ call[r].generation \in Nat
    BY CallsKeptEffect DEF TypeOK
  <2>2. CASE generation' = generation + 1
    <3>1. generation \in Nat /\ carrier' = carrier
      BY DEF TypeOK
    <3>2. ASSUME NEW r \in Request, call'[r].stage = "pending"
          PROVE  call'[r].generation <= generation' /\ call'[r].generation # generation'
      BY <2>1, <2>2, <3>1, <3>2 DEF Pending
    <3>3. ASSUME NEW r \in Request, call'[r].stage = "idle"
          PROVE  carrier'[r] = NoSocket
      BY <2>1, <3>1, <3>3 DEF Pending
    <3> QED BY <3>2, <3>3 DEF Pending
  <2>3. CASE UNCHANGED <<socket, generation>>
    BY <2>1, <2>3 DEF Pending
  <2> QED BY <2>2, <2>3
<1>9. Numbered'
  BY DEF TypeOK, Numbered
<1> QED BY <1>1, <1>2, <1>3, <1>4, <1>5, <1>6, <1>7, <1>8, <1>9

\* An await or a timer ends, and nothing else.
LEMMA QuietInv ==
  ASSUME IInv, UNCHANGED <<clientVars, running, generation, helperReady, sessionVars, peerVars, carrier, crashes>>,
         opening' \subseteq opening, provisional' \subseteq provisional, CallsKept
  PROVE  IInv'
<1> USE NoneAssumption, SwitchAssumption, BoundAssumption DEF IInv, Socket, NoSocket, clientVars,
        sessionVars, peerVars
<1>1. TypeOK'
  <2>1. (socket \in Socket \cup {NoSocket})'
    BY DEF TypeOK
  <2>2. (readyState \in [Socket -> ReadyState])'
    BY DEF TypeOK
  <2>3. ({reconnect, pinging, pong, running, ready, helperReady, deadline, snapshots, marker} \subseteq BOOLEAN)'
    BY DEF TypeOK
  <2>4. (generation \in Nat /\ heartbeat \in 0..generation)'
    BY DEF TypeOK
  <2>5. (opening \subseteq 1..generation /\ provisional \subseteq 1..generation)'
    BY DEF TypeOK
  <2>6. (policy \in [generation : 1..generation, write : BOOLEAN] \cup {None})'
    BY DEF TypeOK
  <2>7. (call \in [Request -> [stage : {"idle", "pending", "answered", "dropped"},
                        generation : Nat, socket : Socket \cup {NoSocket}]])'
    BY CallsKeptEffect DEF TypeOK
  <2>8. (silent \subseteq Socket /\ crashes \in Nat)'
    BY DEF TypeOK
  <2>9. (handshakes \in [Socket -> Nat] /\ offer \in [Socket -> BOOLEAN])'
    BY DEF TypeOK
  <2>10. (carrier \in [Request -> Socket \cup {NoSocket}])'
    BY DEF TypeOK
  <2> QED BY <2>1, <2>2, <2>3, <2>4, <2>5, <2>6, <2>7, <2>8, <2>9, <2>10 DEF TypeOK
<1>2. SocketOrTimer'
  BY DEF TypeOK, SocketOrTimer
<1>3. NothingOutlivesConnection'
  BY DEF TypeOK, NothingOutlivesConnection, SocketOrTimer
<1>4. ReadyIsCurrent'
  BY DEF TypeOK, ReadyIsCurrent, NothingOutlivesConnection, SocketOrTimer
<1>5. OneOffer'
  BY DEF TypeOK, OneOffer, ReadyIsCurrent, Asked
<1>6. ResponsesStayHome'
  BY CallsKeptEffect DEF TypeOK, ResponsesStayHome, Pending
<1>7. Asked'
  BY DEF TypeOK, Asked, OneOffer, SocketOrTimer
<1>8. Pending'
  BY CallsKeptEffect DEF TypeOK, Pending, SocketOrTimer
<1>9. Numbered'
  BY DEF TypeOK, Numbered
<1> QED BY <1>1, <1>2, <1>3, <1>4, <1>5, <1>6, <1>7, <1>8, <1>9

\* The handshake is sent.
LEMMA OfferInv ==
  ASSUME IInv, NEW g \in opening, g = generation, IsOpen, helperReady' \in BOOLEAN,
         opening' = opening \ {g}, deadline' = TRUE, offer' = [offer EXCEPT ![socket] = helperReady'],
         handshakes' = [handshakes EXCEPT ![socket] = @ + 1],
         UNCHANGED <<clientVars, running, provisional, generation, ready, heartbeat, policy, snapshots, marker,
                     call, silent, carrier, crashes>>
  PROVE  IInv'
<1> USE NoneAssumption, SwitchAssumption, BoundAssumption DEF IInv, Socket, NoSocket, IsOpen,
        clientVars, sessionVars, peerVars
<1>1. TypeOK'
  <2>1. (socket \in Socket \cup {NoSocket})'
    BY DEF TypeOK
  <2>2. (readyState \in [Socket -> ReadyState])'
    BY DEF TypeOK
  <2>3. ({reconnect, pinging, pong, running, ready, helperReady, deadline, snapshots, marker} \subseteq BOOLEAN)'
    BY DEF TypeOK
  <2>4. (generation \in Nat /\ heartbeat \in 0..generation)'
    BY DEF TypeOK
  <2>5. (opening \subseteq 1..generation /\ provisional \subseteq 1..generation)'
    BY DEF TypeOK
  <2>6. (policy \in [generation : 1..generation, write : BOOLEAN] \cup {None})'
    BY DEF TypeOK
  <2>7. (call \in [Request -> [stage : {"idle", "pending", "answered", "dropped"},
                        generation : Nat, socket : Socket \cup {NoSocket}]])'
    BY DEF TypeOK
  <2>8. (silent \subseteq Socket /\ crashes \in Nat)'
    BY DEF TypeOK
  <2>9. (handshakes \in [Socket -> Nat] /\ offer \in [Socket -> BOOLEAN])'
    BY DEF TypeOK
  <2>10. (carrier \in [Request -> Socket \cup {NoSocket}])'
    BY DEF TypeOK
  <2> QED BY <2>1, <2>2, <2>3, <2>4, <2>5, <2>6, <2>7, <2>8, <2>9, <2>10 DEF TypeOK
<1>2. SocketOrTimer'
  BY DEF TypeOK, SocketOrTimer
<1>3. NothingOutlivesConnection'
  BY DEF TypeOK, NothingOutlivesConnection, SocketOrTimer
<1>4. ReadyIsCurrent'
  BY DEF TypeOK, ReadyIsCurrent, NothingOutlivesConnection, SocketOrTimer
<1>5. OneOffer'
  BY DEF TypeOK, OneOffer, ReadyIsCurrent, Asked
<1>6. ResponsesStayHome'
  BY DEF TypeOK, ResponsesStayHome, Pending
<1>7. Asked'
  BY DEF TypeOK, Asked, OneOffer, SocketOrTimer
<1>8. Pending'
  BY DEF TypeOK, Pending, SocketOrTimer
<1>9. Numbered'
  BY DEF TypeOK, Numbered
<1> QED BY <1>1, <1>2, <1>3, <1>4, <1>5, <1>6, <1>7, <1>8, <1>9

\* A response is sent.
LEMMA AnswerInv ==
  ASSUME IInv, NEW r \in Request, call[r].stage = "pending", call[r].generation = generation, IsOpen,
         carrier' = [carrier EXCEPT ![r] = socket], call' = [call EXCEPT ![r].stage = "answered"],
         UNCHANGED <<clientVars, running, generation, helperReady, opening, provisional, sessionVars, peerVars, crashes>>
  PROVE  IInv'
<1> USE NoneAssumption, SwitchAssumption, BoundAssumption DEF IInv, Socket, NoSocket, IsOpen,
        clientVars, sessionVars, peerVars
<1>1. TypeOK'
  <2>1. (socket \in Socket \cup {NoSocket})'
    BY DEF TypeOK
  <2>2. (readyState \in [Socket -> ReadyState])'
    BY DEF TypeOK
  <2>3. ({reconnect, pinging, pong, running, ready, helperReady, deadline, snapshots, marker} \subseteq BOOLEAN)'
    BY DEF TypeOK
  <2>4. (generation \in Nat /\ heartbeat \in 0..generation)'
    BY DEF TypeOK
  <2>5. (opening \subseteq 1..generation /\ provisional \subseteq 1..generation)'
    BY DEF TypeOK
  <2>6. (policy \in [generation : 1..generation, write : BOOLEAN] \cup {None})'
    BY DEF TypeOK
  <2>7. (call \in [Request -> [stage : {"idle", "pending", "answered", "dropped"},
                        generation : Nat, socket : Socket \cup {NoSocket}]])'
    BY DEF TypeOK
  <2>8. (silent \subseteq Socket /\ crashes \in Nat)'
    BY DEF TypeOK
  <2>9. (handshakes \in [Socket -> Nat] /\ offer \in [Socket -> BOOLEAN])'
    BY DEF TypeOK
  <2>10. (carrier \in [Request -> Socket \cup {NoSocket}])'
    BY DEF TypeOK
  <2> QED BY <2>1, <2>2, <2>3, <2>4, <2>5, <2>6, <2>7, <2>8, <2>9, <2>10 DEF TypeOK
<1>2. SocketOrTimer'
  BY DEF TypeOK, SocketOrTimer
<1>3. NothingOutlivesConnection'
  BY DEF TypeOK, NothingOutlivesConnection, SocketOrTimer
<1>4. ReadyIsCurrent'
  BY DEF TypeOK, ReadyIsCurrent, NothingOutlivesConnection, SocketOrTimer
<1>5. OneOffer'
  BY DEF TypeOK, OneOffer, ReadyIsCurrent, Asked
<1>6. ResponsesStayHome'
  BY DEF TypeOK, ResponsesStayHome, Pending
<1>7. Asked'
  BY DEF TypeOK, Asked, OneOffer, SocketOrTimer
<1>8. Pending'
  <2>1. call'[r].stage = "answered"
    BY DEF TypeOK
  <2>2. ASSUME NEW q \in Request, q # r PROVE call'[q] = call[q] /\ carrier'[q] = carrier[q]
    BY <2>2 DEF TypeOK
  <2> QED BY <2>1, <2>2 DEF Pending
<1>9. Numbered'
  BY DEF TypeOK, Numbered
<1> QED BY <1>1, <1>2, <1>3, <1>4, <1>5, <1>6, <1>7, <1>8, <1>9

\* open() continues.
LEMMA ContinueInv == ASSUME IInv, NEW g \in opening, Continue(g) PROVE IInv'
<1>1. opening' = opening \ {g} /\ opening' \subseteq opening /\ provisional' \subseteq provisional /\ CallsKept
  BY DEF Continue, CallsKept
<1>2. CASE ~(g = generation /\ IsOpen)
  BY <1>1, <1>2, QuietInv DEF Continue, peerVars
<1>3. CASE ForceReconnect /\ IsOpen /\ helperReady' \in BOOLEAN /\ UNCHANGED peerVars
  BY <1>1, <1>3, ReconnectInv DEF Continue, IsOpen
<1>4. ASSUME g = generation, IsOpen, NEW h \in BOOLEAN, helperReady' = h,
             offer' = [offer EXCEPT ![socket] = h], handshakes' = [handshakes EXCEPT ![socket] = @ + 1],
             deadline' = TRUE,
             UNCHANGED <<clientVars, generation, ready, heartbeat, policy, snapshots, marker>>
      PROVE  IInv'
  BY <1>1, <1>4, OfferInv DEF Continue
<1> QED BY <1>2, <1>3, <1>4, SwitchAssumption DEF Continue, peerVars

\* The router has answered a request.
LEMMA RespondInv == ASSUME IInv, NEW r \in Request, Respond(r) PROVE IInv'
<1>1. call[r].stage = "pending" /\ opening' \subseteq opening /\ provisional' \subseteq provisional
  BY DEF Respond
<1>2. CASE call' = [call EXCEPT ![r].stage = "dropped"]
  <2>1. CallsKept
    BY <1>1, <1>2 DEF CallsKept
  <2>2. CASE ForceReconnect /\ UNCHANGED carrier
    BY <1>1, <2>1, <2>2, ReconnectInv DEF Respond
  <2>3. CASE UNCHANGED <<clientVars, generation, sessionVars, carrier>>
    BY <1>1, <2>1, <2>3, QuietInv DEF Respond
  <2>4. CASE IsOpen /\ carrier' = [carrier EXCEPT ![r] = socket] /\ call' = [call EXCEPT ![r].stage = "answered"]
    <3>1. call'[r].stage = "answered" /\ call'[r].stage = "dropped"
      BY <1>2, <2>4 DEF IInv, TypeOK
    <3> QED BY <3>1
  <2> QED BY <2>2, <2>3, <2>4 DEF Respond
<1>3. CASE /\ call[r].generation = generation /\ IsOpen /\ carrier' = [carrier EXCEPT ![r] = socket]
           /\ call' = [call EXCEPT ![r].stage = "answered"] /\ UNCHANGED <<clientVars, generation, sessionVars>>
  BY <1>1, <1>3, AnswerInv DEF Respond
<1> QED BY <1>2, <1>3 DEF Respond

\* The timers that end in another attempt, or in nothing.
LEMMA TimerInv ==
  ASSUME IInv,
         \/ RejectMessage \/ InvalidRequest \/ HandshakeDeadline \/ HeartbeatFails \/ PongDeadline
         \/ \E g \in provisional : ProvisionalTimer(g)
  PROVE  IInv'
<1>1. /\ opening' \subseteq opening /\ provisional' \subseteq provisional /\ CallsKept
      /\ UNCHANGED <<running, helperReady, peerVars, carrier, crashes>>
      /\ ForceReconnect \/ UNCHANGED <<clientVars, generation, sessionVars>>
  BY DEF RejectMessage, InvalidRequest, HandshakeDeadline, HeartbeatFails, PongDeadline,
     ProvisionalTimer, CallsKept
<1> QED BY <1>1, ReconnectInv, QuietInv

\* Every step keeps the invariant.
LEMMA NextInv == ASSUME IInv, [Next]_vars PROVE IInv'
<1>1. CASE Start BY <1>1, StartInv
<1>2. CASE Stop BY <1>2, StopInv
<1>3. CASE Crash BY <1>3, CrashInv
<1>4. CASE \E s \in Socket : Open(s) BY <1>4, OpenInv
<1>5. CASE \E s \in Socket : Disconnect(s) BY <1>5, DisconnectInv
<1>6. CASE \E s \in Socket : Vanish(s) BY <1>6, VanishInv
<1>7. CASE \E s \in Socket : CloseEvent(s) BY <1>7, CloseEventInv
<1>8. CASE Ping \/ \E s \in Socket : Pong(s) BY <1>8, PingInv
<1>9. CASE \E g \in opening : Continue(g) BY <1>9, ContinueInv
<1>10. CASE \/ RejectMessage \/ InvalidRequest \/ HandshakeDeadline \/ HeartbeatFails \/ PongDeadline
            \/ \E g \in provisional : ProvisionalTimer(g)
  BY <1>10, TimerInv
<1>11. CASE AcceptHandshake BY <1>11, AcceptHandshakeInv
<1>12. CASE AcceptProvisional BY <1>12, AcceptProvisionalInv
<1>13. CASE \E r \in Request : Receive(r) BY <1>13, ReceiveInv
<1>14. CASE \E r \in Request : Respond(r) BY <1>14, RespondInv
<1>15. CASE ReconnectTimer BY <1>15, ReconnectTimerInv
<1>16. CASE UNCHANGED vars
  <2>1. opening' \subseteq opening /\ provisional' \subseteq provisional /\ CallsKept
    BY <1>16 DEF vars, CallsKept
  <2> QED BY <1>16, <2>1, QuietInv DEF vars
<1> QED
  BY <1>1, <1>2, <1>3, <1>4, <1>5, <1>6, <1>7, <1>8, <1>9, <1>10, <1>11, <1>12, <1>13, <1>14,
     <1>15, <1>16
  DEF Next

-----------------------------------------------------------------------------
(* The theorems. *)

\* The invariant holds of every behaviour of the session.
THEOREM Inductive == Spec => []IInv
BY InitInv, NextInv, PTL DEF Spec

\* Sockets, generations, policies and requests keep their types.
THEOREM TypeCorrect == Spec => []TypeOK
<1>1. IInv => TypeOK
  BY DEF IInv
<1> QED BY <1>1, Inductive, PTL

\* A running agent has one socket or one reconnect timer, never both and never neither,
\* whatever events of whatever sockets come in whatever order.
THEOREM OneWayForward == Spec => []SocketOrTimer
<1>1. IInv => SocketOrTimer
  BY DEF IInv
<1> QED BY <1>1, Inductive, PTL

\* Without a connection there is no policy, no telemetry and no timer that could act on
\* the next one.
THEOREM DisconnectRevokes == Spec => []NothingOutlivesConnection
<1>1. IInv => NothingOutlivesConnection
  BY DEF IInv
<1> QED BY <1>1, Inductive, PTL

\* What is ready is the session in force, and the marker is that of a session, of a
\* process that runs.
THEOREM ReadyMeansNow == Spec => []ReadyIsCurrent
<1>1. IInv => ReadyIsCurrent
  BY DEF IInv
<1> QED BY <1>1, Inductive, PTL

\* Each connection makes one offer at most, and write tools are enabled only where that
\* offer had them.
THEOREM WritesWereOffered == Spec => []OneOffer
<1>1. IInv => OneOffer
  BY DEF IInv
<1> QED BY <1>1, Inductive, PTL

\* A response goes to the connection its request came from, or nowhere, however many
\* reconnects and restarts lie between.
THEOREM AnswersStayHome == Spec => []ResponsesStayHome
<1>1. IInv => ResponsesStayHome
  BY DEF IInv
<1> QED BY <1>1, Inductive, PTL

=============================================================================
