------------------------------ MODULE LinuxAgent ------------------------------
(***************************************************************************)
(* The Linux agent as a service: the process of src/index.ts under its unit *)
(* packaging/systemd/acornops-agentv.service, with the notifications of     *)
(* src/systemd-notify.ts, the marker of an authenticated session that the   *)
(* installer reads, and, composed with them, the snapshot manager.          *)
(*                                                                         *)
(* The process connects before it reports that it is ready, and listens to  *)
(* signals only after that.  What a connection hears is the subject of      *)
(* Session.                                                                 *)
(***************************************************************************)
EXTENDS SnapshotManager

CONSTANTS
  MaxLaunch,   \* bound: processes
  MaxFault     \* bound: file operations on the marker that fail

ASSUME LaunchAssumption == MaxLaunch \in Nat /\ MaxFault \in Nat

VARIABLES
  \* The unit, as systemd has it.
  unit,
  goal,       \* what a unit that is deactivating becomes
  launches,
  \* The process.
  phase,      \* "notifying" while it awaits notifyReady(), "running" with its handlers
  beating,    \* the watchdog interval is set
  watchdogInFlight,
  beat,       \* flips with every notification of the watchdog begun
  \* The session.
  link,
  \* /run/acornops-agentv/authenticated.
  marker,
  unremoved,  \* it could not be removed when the agent meant to, which the log says
  faults

unitVars == <<unit, goal, launches>>
watchdogVars == <<beating, watchdogInFlight, beat>>
markerVars == <<marker, unremoved, faults>>
agentVars == <<vars, unitVars, phase, watchdogVars, link, markerVars>>

AgentInit ==
  /\ Init
  /\ unit = "inactive" /\ goal = "inactive" /\ launches = 0
  /\ phase = "none"
  /\ beating = FALSE /\ watchdogInFlight = FALSE /\ beat = FALSE
  /\ link = "down"
  /\ marker = FALSE /\ unremoved = FALSE /\ faults = 0

-----------------------------------------------------------------------------
(* The marker.  An error is logged, and nothing more. *)

Fault == faults < MaxFault /\ faults' = faults + 1

authenticated ==
  \/ marker' = TRUE /\ unremoved' = FALSE /\ UNCHANGED faults
  \/ Fault /\ UNCHANGED <<marker, unremoved>>

disconnected ==
  \/ marker' = FALSE /\ unremoved' = FALSE /\ UNCHANGED faults
  \/ marker /\ Fault /\ unremoved' = TRUE /\ UNCHANGED marker

-----------------------------------------------------------------------------
(* systemd. *)

Activate ==
  /\ unit \in {"inactive", "restarting"} /\ launches < MaxLaunch
  /\ unit' = "activating" /\ launches' = launches + 1
  /\ phase' = "loading"
  /\ UNCHANGED <<vars, goal, watchdogVars, link, markerVars>>

\* READY=1 has arrived, whether or not its sender knows.
ReadyDelivered ==
  /\ unit = "activating" /\ phase = "notifying"
  /\ unit' = "active"
  /\ UNCHANGED <<vars, goal, launches, phase, watchdogVars, link, markerVars>>

\* systemctl stop, systemctl restart, or no READY=1 in time.
Deactivate ==
  /\ unit \in {"activating", "active"}
  /\ unit' = "deactivating" /\ goal' \in {"inactive", "restarting"}
  /\ UNCHANGED <<vars, launches, phase, watchdogVars, link, markerVars>>

\* The process is gone.  Restart=always; and RuntimeDirectoryPreserve=restart keeps
\* the directory of the marker, unless the unit stops.
Gone ==
  /\ unit' = IF unit = "deactivating" THEN goal ELSE "restarting"
  /\ IF unit' = "inactive" THEN marker' = FALSE /\ unremoved' = FALSE
                           ELSE UNCHANGED <<marker, unremoved>>
  /\ phase' = "none" /\ beating' = FALSE /\ watchdogInFlight' = FALSE /\ link' = "down"
  /\ active' = FALSE /\ generation' = 0 /\ inFlight' = FALSE /\ pending' = FALSE
  /\ interval' = 0 /\ stage' = "none" /\ collecting' = 0 /\ bytes' = 0
  /\ started' = {} /\ sent' = {}
  /\ UNCHANGED <<goal, launches, beat, maxBytes, starts, triggers, faults>>

\* It fails, or is killed: by the watchdog too.
Crash == phase # "none" /\ Gone

UnitStep == Activate \/ ReadyDelivered \/ Deactivate \/ Crash

-----------------------------------------------------------------------------
(* The process. *)

Beat == watchdogInFlight' = TRUE /\ beat' = ~beat

\* Mutant of Load: what a process before has left is not removed.
LoadOver ==
  /\ phase = "loading" /\ phase' = "notifying"
  /\ UNCHANGED <<vars, unitVars, watchdogVars, link, markerVars>>

\* Up to `await notifyReady()`: lifecycle.start() clears the session.
Load ==
  /\ phase = "loading" /\ phase' = "notifying"
  /\ disconnected
  /\ UNCHANGED <<vars, unitVars, watchdogVars, link>>

\* notifyReady() has returned, or timed out.
Notified ==
  /\ phase = "notifying" /\ phase' = "running"
  /\ beating' = TRUE /\ Beat
  /\ UNCHANGED <<vars, unitVars, link, markerVars>>

\* sendWatchdog(), from the interval
sendWatchdog ==
  /\ beating /\ ~watchdogInFlight
  /\ Beat
  /\ UNCHANGED <<vars, unitVars, phase, beating, link, markerVars>>

\* Mutant of WatchdogSettled: the flag is not reset.
WatchdogStuck ==
  /\ watchdogInFlight
  /\ UNCHANGED agentVars

\* systemd-notify has ended, one way or another, or run into its timeout.
WatchdogSettled ==
  /\ watchdogInFlight /\ watchdogInFlight' = FALSE
  /\ UNCHANGED <<vars, unitVars, phase, beating, beat, link, markerVars>>

\* SIGTERM; before the process has handlers it ends at once, and clears nothing.
Terminate ==
  /\ unit = "deactivating"
  /\ \/ phase \in {"loading", "notifying"} /\ Gone
     \/ /\ phase = "running" /\ phase' = "leaving"
        /\ beating' = FALSE /\ link' = "down"
        /\ disconnected
        /\ Stop \/ (~active /\ UNCHANGED vars)
        /\ UNCHANGED <<unitVars, watchdogInFlight, beat>>

\* At the latest 250 ms after.
Exit == phase = "leaving" /\ Gone

ProcessStep ==
  Load \/ Notified \/ sendWatchdog \/ WatchdogSettled \/ Terminate \/ Exit

-----------------------------------------------------------------------------
(* The session. *)

Connecting == phase \in {"notifying", "running"}

StopSnapshots ==
  \/ Stop
  \/ ~active /\ UNCHANGED vars

\* open(): what is left of the session before is cleared.
Opened ==
  /\ Connecting /\ link = "down" /\ link' = "open"
  /\ StopSnapshots /\ disconnected
  /\ UNCHANGED <<unitVars, phase, watchdogVars>>

\* acceptHandshake(), of an active session
AcceptHandshake ==
  /\ Connecting /\ link = "open" /\ link' = "ready"
  /\ Start /\ authenticated
  /\ UNCHANGED <<unitVars, phase, watchdogVars>>

Closed ==
  /\ Connecting /\ link # "down" /\ link' = "down"
  /\ StopSnapshots /\ disconnected
  /\ UNCHANGED <<unitVars, phase, watchdogVars>>

Snapshots ==
  /\ Interval \/ Collect
  /\ UNCHANGED <<unitVars, phase, watchdogVars, link, markerVars>>

SessionStep == Opened \/ AcceptHandshake \/ Closed \/ Snapshots

AgentNext == UnitStep \/ ProcessStep \/ SessionStep

\* Timers fire, and every child of the process has a timeout.
AgentSpec == AgentInit /\ [][AgentNext]_agentVars
FairAgentSpec ==
  /\ AgentSpec
  /\ WF_agentVars(sendWatchdog) /\ WF_agentVars(WatchdogSettled)
  /\ WF_agentVars(Collect /\ Snapshots)

-----------------------------------------------------------------------------
(* Properties. *)

\* What the installer and the recovery take for a working agent, an active unit and
\* the marker, means that the process of that unit has a session that is ready now,
\* whatever process before it died in whatever moment; but for a removal that failed.
ActiveMarkerIsTrue == unit = "active" /\ marker => link = "ready" \/ unremoved

\* As long as the agent runs it goes on to notify the watchdog, whatever became of
\* the notifications before.
WatchdogGoesOn ==
  \A b \in BOOLEAN : (beating /\ beat = b) ~> (beat # b \/ ~beating)

=============================================================================
