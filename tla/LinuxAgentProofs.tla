--------------------------- MODULE LinuxAgentProofs ---------------------------
(***************************************************************************)
(* Of the Linux agent under systemd, for any number of processes, sessions   *)
(* and failing file operations: what the installer reads is true, and the    *)
(* timers of telemetry belong to the session in force, whatever processes    *)
(* died in whatever moment.                                                 *)
(***************************************************************************)
EXTENDS LinuxAgent, SnapshotManagerProofs

-----------------------------------------------------------------------------
(* The snapshot manager inside the agent. *)

\* A process that is gone leaves the manager of the next one as new.
LEMMA GoneKeepsManager == ASSUME IInv, Gone PROVE IInv'
<1> USE DEF IInv, Gone
<1>1. TypeOK'
  <2>1. ({active, inFlight, pending} \subseteq BOOLEAN)'
    OBVIOUS
  <2>2. (generation \in Nat /\ interval \in 0..generation /\ collecting \in 0..generation)'
    OBVIOUS
  <2>3. (maxBytes \in Budget /\ bytes \in Size \cup {0} /\ starts \in Nat /\ triggers \in Nat)'
    BY DEF TypeOK
  <2>4. (stage \in Stage /\ (inFlight <=> stage # "none"))'
    BY DEF Stage
  <2>5. (started \subseteq 1..generation)'
    OBVIOUS
  <2>6. (sent \subseteq [collected : 1..generation, delivered : 1..generation])'
    OBVIOUS
  <2> QED BY <2>1, <2>2, <2>3, <2>4, <2>5, <2>6 DEF TypeOK
<1>2. NothingOutlivesSession' /\ Numbered'
  BY DEF NothingOutlivesSession, Numbered
<1> QED BY <1>1, <1>2

\* A step that leaves the manager alone.
LEMMA ManagerStutter == ASSUME IInv, UNCHANGED vars PROVE IInv'
BY NextInv

\* Every step of the agent keeps the invariant of the manager.
LEMMA ManagerKept == ASSUME IInv, [AgentNext]_agentVars PROVE IInv'
<1>1. CASE Crash \/ Exit
  BY <1>1, GoneKeepsManager DEF Crash, Exit
<1>2. CASE Activate \/ ReadyDelivered \/ Deactivate
  BY <1>2, ManagerStutter DEF Activate, ReadyDelivered, Deactivate
<1>3. CASE Load \/ Notified \/ sendWatchdog \/ WatchdogSettled
  BY <1>3, ManagerStutter DEF Load, Notified, sendWatchdog, WatchdogSettled
<1>4. CASE Terminate
  BY <1>4, GoneKeepsManager, StopInv, ManagerStutter DEF Terminate
<1>5. CASE Opened \/ Closed
  BY <1>5, StopInv, ManagerStutter DEF Opened, Closed, StopSnapshots
<1>6. CASE AcceptHandshake
  BY <1>6, StartInv DEF AcceptHandshake
<1>7. CASE Snapshots
  BY <1>7, IntervalInv, HostSampledInv, CompressInv, SendInv DEF Snapshots, Collect
<1>8. CASE UNCHANGED agentVars
  BY <1>8, ManagerStutter DEF agentVars
<1> QED
  BY <1>1, <1>2, <1>3, <1>4, <1>5, <1>6, <1>7, <1>8 DEF AgentNext, UnitStep, ProcessStep,
     SessionStep

-----------------------------------------------------------------------------
(* The marker. *)

\* A unit is active only once its process has cleared the session before.
ActiveHasLoaded ==
  /\ goal \in {"inactive", "restarting"}
  /\ unit \in {"inactive", "restarting"} => phase = "none"
  /\ unit = "active" => phase \notin {"none", "loading"}

\* A marker of no session is one that a process left when it died, or could not remove.
MarkerIsExplained ==
  marker /\ link # "ready" /\ ~unremoved => phase \in {"none", "loading"}

MarkerInv == ActiveHasLoaded /\ MarkerIsExplained

\* No process, no marker.
LEMMA MarkerInit == AgentInit => MarkerInv
BY DEF AgentInit, MarkerInv, ActiveHasLoaded, MarkerIsExplained

\* The process is gone, and the marker with it or not.
LEMMA GoneKeepsMarker == ASSUME MarkerInv, Gone PROVE MarkerInv'
BY DEF MarkerInv, ActiveHasLoaded, MarkerIsExplained, Gone

\* Every step keeps the marker explained.
LEMMA MarkerKept == ASSUME MarkerInv, [AgentNext]_agentVars PROVE MarkerInv'
<1> USE DEF MarkerInv, ActiveHasLoaded, MarkerIsExplained, unitVars, watchdogVars, markerVars
<1>1. CASE Crash \/ Exit
  BY <1>1, GoneKeepsMarker DEF Crash, Exit
<1>2. CASE Activate \/ ReadyDelivered \/ Deactivate
  BY <1>2 DEF Activate, ReadyDelivered, Deactivate
<1>3. CASE Load
  BY <1>3 DEF Load, disconnected
<1>4. CASE Notified \/ sendWatchdog \/ WatchdogSettled
  BY <1>4 DEF Notified, sendWatchdog, WatchdogSettled
<1>5. CASE Terminate
  <2>1. CASE Gone
    BY <2>1, GoneKeepsMarker
  <2>2. CASE phase = "running" /\ phase' = "leaving" /\ disconnected /\ UNCHANGED unitVars
    BY <2>2 DEF disconnected
  <2> QED BY <1>5, <2>1, <2>2 DEF Terminate
<1>6. CASE Opened \/ Closed
  BY <1>6 DEF Opened, Closed, disconnected
<1>7. CASE AcceptHandshake
  BY <1>7 DEF AcceptHandshake, authenticated
<1>8. CASE Snapshots
  BY <1>8 DEF Snapshots
<1>9. CASE UNCHANGED agentVars
  BY <1>9 DEF agentVars
<1> QED
  BY <1>1, <1>2, <1>3, <1>4, <1>5, <1>6, <1>7, <1>8, <1>9
  DEF AgentNext, UnitStep, ProcessStep, SessionStep

-----------------------------------------------------------------------------
(* The theorems. *)

AgentInv == IInv /\ MarkerInv

\* The invariant holds of every behaviour of the agent.
LEMMA AgentInductive == AgentSpec => []AgentInv
<1>1. AgentInit => AgentInv
  BY InitInv, MarkerInit DEF AgentInit, AgentInv
<1>2. AgentInv /\ [AgentNext]_agentVars => AgentInv'
  BY ManagerKept, MarkerKept DEF AgentInv
<1> QED BY <1>1, <1>2, PTL DEF AgentSpec

\* An active unit and the marker together mean a session that is ready now, but for a
\* removal that failed: a marker left by a process that died is gone before the next
\* one can be taken for active.
THEOREM MarkerTellsTheTruth == AgentSpec => []ActiveMarkerIsTrue
<1>1. AgentInv => ActiveMarkerIsTrue
  BY DEF AgentInv, MarkerInv, ActiveHasLoaded, MarkerIsExplained, ActiveMarkerIsTrue
<1> QED BY <1>1, AgentInductive, PTL

\* In the process under systemd, too, no request and no timer of telemetry outlives its
\* session, whichever process it belonged to.
THEOREM ServiceOwnsItsTimers == AgentSpec => []NothingOutlivesSession
<1>1. AgentInv => NothingOutlivesSession
  BY DEF AgentInv, IInv
<1> QED BY <1>1, AgentInductive, PTL

=============================================================================
