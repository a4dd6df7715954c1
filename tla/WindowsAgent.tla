----------------------------- MODULE WindowsAgent -----------------------------
(***************************************************************************)
(* One launch of the Windows service: the entry of                          *)
(* src/windows-service-entry.ts, which obeys the native host over a pipe,   *)
(* the runtime of src/windows-runtime.ts it starts, the sessions of that    *)
(* runtime (src/core/lifecycle.ts, its Windows variant), the receipt of     *)
(* src/windows-readiness.ts the installer waits for, and, composed with     *)
(* them, the snapshot manager and the collector runner.                     *)
(*                                                                         *)
(* The runtime probes the host with one collector call; a ready session     *)
(* collects snapshots and serves a tool call.  What a link hears and how it *)
(* is made again is the subject of Session.                                 *)
(***************************************************************************)
EXTENDS WindowsSnapshotManager, CollectorRunner, Config

CONSTANTS
  Probe, Tool,     \* the calls of the start and of a tool
  SnapshotCalls,   \* the calls of one snapshot
  File,            \* settings the protected file may hold
  Inherited,       \* settings the process may be started with
  MaxFault         \* bound: file operations on the receipt that fail

ASSUME CallAssumption == Call = SnapshotCalls \cup {Probe, Tool}
ASSUME FaultAssumption == MaxFault \in Nat

VARIABLES
  \* runWindowsServiceEntry.
  alive,         \* the process
  pipe,          \* "open" until the host has closed its end
  launched,      \* `started`: START has come
  stopRequested,
  boot,          \* where the start of the runtime stands; "up" is a handle
  shutdown,      \* where handle.stop() stands
  done,
  config,        \* what loadConfig returned
  \* LifecycleManager and its transport.
  running,
  transport,     \* it has been told to connect, and not to close
  link,          \* the connection, as far as its handshake has come
  \* createWindowsReadiness.
  marker,        \* authenticated.json: whose launch it names, and the phase
  provisional,
  faults

entryVars == <<alive, pipe, launched, stopRequested, boot, shutdown, done, config>>
sessionVars == <<running, transport, link>>
receiptVars == <<marker, provisional, faults>>
managerVars == <<active, generation, inFlight, pending, interval, collecting, aborted,
                 starts, started, sent>>
agentVars == <<entryVars, sessionVars, receiptVars, managerVars, runnerVars>>

Receipt(launch, phase) == [launch |-> launch, phase |-> phase]

ASSUME ReceiptAssumption ==
  None \notin [launch : {"this", "previous"}, phase : {"active", "provisional"}]

AgentInit ==
  /\ Init /\ RunnerInit
  /\ alive = TRUE /\ pipe = "open" /\ launched = FALSE /\ stopRequested = FALSE
  /\ boot = "none" /\ shutdown = "no" /\ done = "pending" /\ config = None
  /\ running = FALSE /\ transport = FALSE /\ link = "down"
  /\ marker \in {None, Receipt("previous", "active"), Receipt("previous", "provisional")}
  /\ provisional = FALSE /\ faults = 0

-----------------------------------------------------------------------------
(* The receipt.  Its file operations may fail, and then throw. *)

Fault == faults < MaxFault /\ faults' = faults + 1

\* clear()
Clear == marker' = None /\ provisional' = FALSE /\ UNCHANGED faults
ClearThrows == Fault /\ marker' \in {marker, None} /\ provisional' = FALSE

\* publish(): the marker is removed, then written anew.
Publish(phase) ==
  /\ marker' = Receipt("this", phase) /\ provisional' = (phase = "provisional")
  /\ UNCHANGED faults
PublishThrows == Fault /\ marker' \in {marker, None} /\ UNCHANGED provisional

\* Mutant of Disconnected: no receipt goes.
DisconnectedKeeps == UNCHANGED receiptVars

\* disconnected()
Disconnected ==
  \/ provisional /\ UNCHANGED receiptVars
  \/ ~provisional /\ Clear
DisconnectedThrows == ~provisional /\ ClearThrows

-----------------------------------------------------------------------------
(* The session. *)

StopSnapshots ==
  \/ Stop
  \/ ~active /\ UNCHANGED managerVars

SessionCalls == {c \in SnapshotCalls \cup {Tool} : Calling(c)}

\* clearSession(), but for the receipt: policy and telemetry stop, which aborts the
\* tool call and the collection in flight.
EndSession ==
  /\ StopSnapshots
  /\ Signal(SessionCalls)

\* An exception nobody catches: the process dies, and its job object kills what
\* it has started.
Die ==
  /\ alive' = FALSE
  /\ running' = FALSE /\ transport' = FALSE /\ link' = "down"
  /\ active' = FALSE /\ inFlight' = FALSE /\ pending' = None /\ interval' = None
  /\ child' = [c \in Call |-> "none"] /\ step' = [c \in Call |-> "idle"]
  /\ UNCHANGED <<pipe, launched, stopRequested, boot, shutdown, done, config, generation,
                 collecting, aborted, starts, started, sent, stopping, failure, outcome,
                 signalled, awaited, halted>>

\* open(): the session of the connection before is cleared, the handshake sent.
Opened ==
  /\ alive /\ running /\ transport /\ link = "down"
  /\ \/ /\ Disconnected /\ EndSession /\ link' = "open"
        /\ UNCHANGED <<entryVars, running, transport>>
     \/ DisconnectedThrows /\ Die

\* acceptHandshake() of a provisional session.
AcceptProvisional ==
  /\ alive /\ running /\ link \in {"open", "accepted"}
  /\ \/ /\ Publish("provisional") /\ link' = "accepted"
        /\ UNCHANGED <<entryVars, running, transport, managerVars, runnerVars>>
     \/ PublishThrows /\ Die

\* acceptHandshake(): the first snapshot is begun, the receipt published.
AcceptHandshake ==
  /\ alive /\ running /\ link \in {"open", "accepted"}
  /\ \/ /\ Start
        /\ IF inFlight THEN Signal({c \in SnapshotCalls : Calling(c)}) ELSE Run(SnapshotCalls)
        /\ link' = "ready" /\ Publish("active")
        /\ UNCHANGED <<entryVars, running, transport>>
     \/ starts < MaxStart /\ PublishThrows /\ Die

\* closed(), for whatever reason: the peer, a deadline, the second after a
\* provisional handshake.
Closed ==
  /\ alive /\ running /\ link # "down"
  /\ \/ /\ Disconnected /\ EndSession /\ link' = "down"
        /\ UNCHANGED <<entryVars, running, transport>>
     \/ DisconnectedThrows /\ Die

\* A tool of the session calls a collector; its executor may give up at any time.
CallTool ==
  /\ alive /\ link = "ready" /\ running /\ ~Calling(Tool) /\ outcome[Tool] = "none"
  /\ Run({Tool})
  /\ UNCHANGED <<entryVars, sessionVars, receiptVars, managerVars>>

AbortTool ==
  /\ alive /\ Calling(Tool) /\ Tool \notin signalled
  /\ Signal({Tool})
  /\ UNCHANGED <<entryVars, sessionVars, receiptVars, managerVars>>

SnapshotInterval ==
  /\ alive /\ Interval /\ Run(SnapshotCalls)
  /\ UNCHANGED <<entryVars, sessionVars, receiptVars>>

\* buildWindowsSnapshot has what each of its collectors returned.
SnapshotCollected ==
  /\ alive /\ \A c \in SnapshotCalls : ~Calling(c)
  /\ Collected
  /\ IF active /\ pending # None THEN Run(SnapshotCalls) ELSE UNCHANGED runnerVars
  /\ UNCHANGED <<entryVars, sessionVars, receiptVars>>

SessionStep ==
  \/ Opened \/ AcceptProvisional \/ AcceptHandshake \/ Closed
  \/ CallTool \/ AbortTool \/ SnapshotInterval \/ SnapshotCollected

-----------------------------------------------------------------------------
(* The start of the runtime. *)

Settle(result) == done' = IF done = "pending" THEN result ELSE done

FailBoot == boot' = "failed" /\ Settle("rejected")

\* startFromProtectedConfig() up to its imports: the file is read and compared with
\* the hash it was launched with, the receipt of an earlier launch removed.
ReadConfig ==
  /\ alive /\ boot = "reading"
  /\ \/ FailBoot /\ UNCHANGED <<config, receiptVars>>
     \/ FailBoot /\ DisconnectedThrows /\ UNCHANGED config
     \/ /\ Disconnected
        /\ \E file \in File, inherited \in Inherited :
             LET settings == parseWindowsServiceConfig(file)
             IN IF settings = Refused THEN FailBoot /\ UNCHANGED config
                ELSE /\ boot' = "importing" /\ UNCHANGED done
                     /\ config' = loadConfig(ServiceEnvironment(inherited, settings))
  /\ UNCHANGED <<alive, pipe, launched, stopRequested, shutdown, sessionVars, managerVars,
                 runnerVars>>

\* What startWindowsAgent() asks of its configuration.
RunsOnWindows(c) ==
  IF c = Refused THEN FALSE
  ELSE c.osFamily = "windows" /\ ~c.writeEnabled /\ ~c.mockActionsEnabled

\* startWindowsAgent() up to its probe of the host.
Import ==
  /\ alive /\ boot = "importing"
  /\ \/ ~RunsOnWindows(config) /\ FailBoot /\ UNCHANGED runnerVars
     \/ RunsOnWindows(config) /\ boot' = "probing" /\ Run({Probe}) /\ UNCHANGED done
  /\ UNCHANGED <<alive, pipe, launched, stopRequested, shutdown, config, sessionVars,
                 receiptVars, managerVars>>

-----------------------------------------------------------------------------
(* The stop of the runtime. *)

\* handle.stop(): the session ends, the connection is closed, the receipt removed, the
\* runner stopped; the last also when a file operation throws, before or after the
\* close.
StopRuntime(connected) ==
  /\ running' = FALSE
  /\ StopSnapshots /\ SignalAndStop(SessionCalls)
  /\ \/ Clear /\ shutdown' = "waiting" /\ transport' = FALSE
     \/ /\ ClearThrows /\ shutdown' = "failing"
        /\ transport' \in IF provisional THEN {FALSE} ELSE {FALSE, connected}
  /\ link' = IF transport' THEN link ELSE "down"

\* boundedStop(): once, and only of a runtime that is up.
BoundedStop ==
  \/ boot = "up" /\ shutdown = "no" /\ StopRuntime(transport)
  \/ /\ ~(boot = "up" /\ shutdown = "no")
     /\ UNCHANGED <<shutdown, sessionVars, receiptVars, managerVars, runnerVars>>

\* Mutant of CameUp: a stop requested meanwhile is not looked for.
CameUpAnyway ==
  /\ boot' = "up"
  /\ Disconnected /\ running' = TRUE /\ transport' = TRUE
  /\ UNCHANGED <<shutdown, done, link, managerVars, runnerVars>>

\* The runtime is up: it connects, unless a stop was requested meanwhile.
CameUp ==
  /\ boot' = "up"
  /\ \/ /\ ~stopRequested
        /\ Disconnected /\ running' = TRUE /\ transport' = TRUE
        /\ UNCHANGED <<shutdown, link, managerVars, runnerVars>>
     \/ stopRequested /\ StopRuntime(TRUE)
  /\ UNCHANGED done

\* The probe has returned, with evidence that will do or not; lifecycle.start() may
\* throw, and leaves the runner as it is.
Probed ==
  /\ alive /\ boot = "probing" /\ ~Calling(Probe)
  /\ \/ /\ boot' = "abandoning" /\ StopRunner
        /\ UNCHANGED <<shutdown, done, sessionVars, receiptVars, managerVars>>
     \/ /\ outcome[Probe] = "ok" /\ DisconnectedThrows /\ FailBoot /\ running' = TRUE
        /\ UNCHANGED <<shutdown, transport, link, managerVars, runnerVars>>
     \/ outcome[Probe] = "ok" /\ CameUp
  /\ UNCHANGED <<alive, pipe, launched, stopRequested, config>>

\* The failed start has stopped its runner.
Abandoned ==
  /\ alive /\ boot = "abandoning" /\ halted
  /\ FailBoot
  /\ UNCHANGED <<alive, pipe, launched, stopRequested, shutdown, config, sessionVars,
                 receiptVars, managerVars, runnerVars>>

\* handle.stop() has returned.
ShutdownOver ==
  /\ alive /\ shutdown \in {"waiting", "failing"} /\ halted
  /\ shutdown' = "over"
  /\ Settle(IF shutdown = "waiting" THEN "resolved" ELSE "rejected")
  /\ UNCHANGED <<alive, pipe, launched, stopRequested, boot, config, sessionVars, receiptVars,
                 managerVars, runnerVars>>

-----------------------------------------------------------------------------
(* The commands of the host, and the deadlines. *)

Listening == alive /\ done = "pending"

Rest == <<sessionVars, receiptVars, managerVars, runnerVars>>

Launch ==
  /\ Listening /\ pipe = "open" /\ ~launched
  /\ launched' = TRUE /\ boot' = "reading"
  /\ UNCHANGED <<alive, pipe, stopRequested, shutdown, done, config, Rest>>

\* requestStop()
RequestStop ==
  /\ stopRequested' = TRUE
  /\ BoundedStop
  /\ UNCHANGED <<alive, launched, boot, config>>

\* STOP; before START it is all there is to do.
StopCommand ==
  /\ Listening /\ pipe = "open"
  /\ RequestStop
  /\ done' = IF launched THEN done ELSE "resolved"
  /\ UNCHANGED pipe

\* fail(): whatever is not the protocol, a second START included.
Malformed ==
  /\ Listening /\ pipe = "open"
  /\ RequestStop
  /\ done' = "rejected"
  /\ UNCHANGED pipe

\* The host has closed its end; in time this is a STOP.
EndOfInput ==
  /\ Listening /\ pipe = "open"
  /\ pipe' = "ended"
  /\ RequestStop
  /\ done' = IF launched THEN done ELSE "rejected"

StartDeadline ==
  /\ Listening /\ ~launched
  /\ done' = "rejected"
  /\ UNCHANGED <<alive, pipe, launched, stopRequested, boot, shutdown, config, Rest>>

\* Mutant of StartupDeadline: the runtime may still come up.
StartupDeadlineOnly ==
  /\ Listening /\ launched /\ boot \notin {"up", "failed"}
  /\ done' = "rejected"
  /\ UNCHANGED <<alive, pipe, launched, stopRequested, boot, shutdown, config, Rest>>

StartupDeadline ==
  /\ Listening /\ launched /\ boot \notin {"up", "failed"}
  /\ done' = "rejected" /\ stopRequested' = TRUE
  /\ UNCHANGED <<alive, pipe, launched, boot, shutdown, config, Rest>>

ShutdownDeadline ==
  /\ Listening /\ shutdown \in {"waiting", "failing"}
  /\ done' = "rejected"
  /\ UNCHANGED <<alive, pipe, launched, stopRequested, boot, shutdown, config, Rest>>

\* With nothing left to wait for the process leaves.
Exit ==
  /\ alive /\ done # "pending"
  /\ boot \in {"none", "failed"} \/ shutdown = "over"
  /\ ~transport /\ \A c \in Call : ~Calling(c)
  /\ alive' = FALSE
  /\ UNCHANGED <<pipe, launched, stopRequested, boot, shutdown, done, config, Rest>>

EntryStep ==
  \/ ReadConfig \/ Import \/ Probed \/ Abandoned \/ ShutdownOver
  \/ Launch \/ StopCommand \/ Malformed \/ EndOfInput
  \/ StartDeadline \/ StartupDeadline \/ ShutdownDeadline \/ Exit

CollectorStep == alive /\ RunnerStep /\ UNCHANGED <<entryVars, sessionVars, receiptVars, managerVars>>

AgentNext == EntryStep \/ SessionStep \/ CollectorStep

AgentSpec == AgentInit /\ [][AgentNext]_agentVars

\* Timers fire, a promise that can settle does, and a process that is killed closes.
Fairness ==
  /\ WF_agentVars(StartDeadline) /\ WF_agentVars(StartupDeadline)
  /\ WF_agentVars(ShutdownOver \/ ShutdownDeadline)
  /\ WF_agentVars(ReadConfig) /\ WF_agentVars(Import) /\ WF_agentVars(Probed)
  /\ WF_agentVars(Abandoned) /\ WF_agentVars(SnapshotCollected)
  /\ WF_agentVars(CollectorStep /\ Halt)
  /\ \A c \in Call :
       /\ WF_agentVars(CollectorStep /\ Trusted(c))
       /\ WF_agentVars(CollectorStep /\ Expire(c))
       /\ WF_agentVars(CollectorStep /\ child[c] = "dying" /\ Close(c))

FairAgentSpec == AgentSpec /\ Fairness

-----------------------------------------------------------------------------
(* Properties. *)

\* A service that reports a clean stop leaves nothing: no connection, session,
\* telemetry, collector or receipt of its own, and nothing will start again.
NothingLeftRunning ==
  done = "resolved" /\ launched =>
    /\ ~running /\ ~transport /\ link = "down" /\ ~active
    /\ halted /\ \A c \in Call : child[c] = "none"
    /\ marker # None => marker.launch # "this"

\* "never as active readiness": while the service lives and is not being stopped, the
\* receipt of an active session is there only in one, and none of another launch is
\* there once the runtime is up.
ReceiptIsCurrent ==
  alive /\ shutdown = "no" =>
    /\ marker = Receipt("this", "active") => link = "ready"
    /\ boot = "up" => marker = None \/ marker.launch = "this"

\* A runtime that comes up after its entry has given up, or has been told to stop, is
\* stopped: none lives on behind an entry that no longer listens.
NoRunawayRuntime ==
  alive /\ boot = "up" /\ (stopRequested \/ done # "pending") => shutdown # "no"

\* The service refuses or runs read-only, live and over https, whatever the file says
\* and whatever the process inherited.
RunsConfined ==
  config \notin {None, Refused} =>
    /\ config.osFamily = "windows" /\ config.collectorMode = "live"
    /\ ~config.writeEnabled /\ config.platformUrl = "https"

\* The entry never waits for ever: not for START, not for the runtime to come up, and
\* not for it to stop.
EntrySettles ==
  (alive /\ done = "pending" /\ (boot # "up" \/ stopRequested))
    ~> (done # "pending" \/ (boot = "up" /\ ~stopRequested) \/ ~alive)

=============================================================================
