-------------------------- MODULE WindowsAgentProofs --------------------------
(***************************************************************************)
(* Of the Windows service, for any set of collector calls, any configuration *)
(* files, any number of sessions and of failing file operations.  First its  *)
(* collector runner and its snapshot manager, each on its own; then these    *)
(* theorems are carried over to the process that embeds both; the rest is    *)
(* about the entry, the session and the receipt of one launch.               *)
(***************************************************************************)
EXTENDS WindowsAgent, TLAPS

-----------------------------------------------------------------------------
(* The collector runner: no collector runs on for a caller that has given up, and    *)
(* none is left once the runner has stopped.  The lemmas are about the operators an  *)
(* owner of the runner composes.                                                    *)

\* What a runner that stops has still to wait for: no child is born unknown to it.
StopKnowsAll ==
  /\ stopping => \A c \in Call : child[c] # "none" => c \in awaited
  /\ halted => stopping /\ \A c \in awaited : child[c] = "none"

RunnerInv == RunnerTypeOK /\ NoOrphan /\ StopKnowsAll

\* The runner begins with no call.
LEMMA RunnerInitInv == RunnerInit => RunnerInv
BY DEF RunnerInit, RunnerInv, RunnerTypeOK, Step, NoOrphan, StopKnowsAll, GivenUp

\* Calls are made, whatever the runner is doing.
LEMMA RunInv == ASSUME RunnerInv, NEW C \in SUBSET Call, Run(C) PROVE RunnerInv'
<1> USE DEF RunnerInv, Run
<1>1. RunnerTypeOK'
  BY DEF RunnerTypeOK, Step
<1>2. NoOrphan'
  BY DEF NoOrphan, GivenUp
<1>3. StopKnowsAll'
  BY DEF StopKnowsAll
<1> QED BY <1>1, <1>2, <1>3

\* The executable of a call has been checked.
LEMMA TrustedInv == ASSUME RunnerInv, NEW c \in Call, Trusted(c) PROVE RunnerInv'
<1> USE DEF RunnerInv, Trusted, Return
<1>1. RunnerTypeOK'
  BY DEF RunnerTypeOK, Step
<1>2. NoOrphan'
  BY DEF NoOrphan, GivenUp, RunnerTypeOK
<1>3. StopKnowsAll'
  BY DEF StopKnowsAll, GivenUp, RunnerTypeOK
<1> QED BY <1>1, <1>2, <1>3

\* A call has run out of time.
LEMMA ExpireInv == ASSUME RunnerInv, NEW c \in Call, Expire(c) PROVE RunnerInv'
<1> USE DEF RunnerInv, Expire, Kill
<1>1. RunnerTypeOK'
  BY DEF RunnerTypeOK, Step
<1>2. NoOrphan'
  BY DEF NoOrphan, GivenUp, RunnerTypeOK
<1>3. StopKnowsAll'
  BY DEF StopKnowsAll, RunnerTypeOK
<1> QED BY <1>1, <1>2, <1>3

\* Callers give up.
LEMMA SignalInv == ASSUME RunnerInv, NEW C \in SUBSET Call, Signal(C) PROVE RunnerInv'
<1> USE DEF RunnerInv, Signal, Kill
<1>1. RunnerTypeOK'
  BY DEF RunnerTypeOK, Step
<1>2. NoOrphan'
  BY DEF NoOrphan, GivenUp, RunnerTypeOK
<1>3. StopKnowsAll'
  BY DEF StopKnowsAll, RunnerTypeOK
<1> QED BY <1>1, <1>2, <1>3

\* A child has closed.
LEMMA CloseInv == ASSUME RunnerInv, NEW c \in Call, Close(c) PROVE RunnerInv'
<1> USE DEF RunnerInv, Close, Return
<1>1. RunnerTypeOK'
  BY DEF RunnerTypeOK, Step
<1>2. NoOrphan'
  BY DEF NoOrphan, GivenUp, RunnerTypeOK
<1>3. StopKnowsAll'
  BY DEF StopKnowsAll, RunnerTypeOK
<1> QED BY <1>1, <1>2, <1>3

\* The runner is told to stop, once or again.
LEMMA StopRunnerInv == ASSUME RunnerInv, NEW C \in SUBSET Call, SignalAndStop(C) PROVE RunnerInv'
<1> USE DEF RunnerInv, SignalAndStop
<1>1. RunnerTypeOK'
  BY DEF RunnerTypeOK, Step
<1>2. NoOrphan'
  BY DEF NoOrphan, GivenUp, RunnerTypeOK
<1>3. StopKnowsAll'
  BY DEF StopKnowsAll, RunnerTypeOK
<1> QED BY <1>1, <1>2, <1>3

\* The runner has stopped.
LEMMA HaltInv == ASSUME RunnerInv, Halt PROVE RunnerInv'
BY DEF RunnerInv, Halt, callVars, RunnerTypeOK, NoOrphan, GivenUp, StopKnowsAll

\* Nothing has happened to the runner.
LEMMA RunnerStutter == ASSUME RunnerInv, UNCHANGED runnerVars PROVE RunnerInv'
BY DEF RunnerInv, runnerVars, callVars, RunnerTypeOK, NoOrphan, GivenUp, StopKnowsAll

\* What the runner does by itself.
LEMMA RunnerStepInv == ASSUME RunnerInv, RunnerStep PROVE RunnerInv'
<1>1. CASE Halt
  BY <1>1, HaltInv
<1>2. ASSUME NEW c \in Call, Trusted(c) PROVE RunnerInv'
  BY <1>2, TrustedInv
<1>3. ASSUME NEW c \in Call, Expire(c) PROVE RunnerInv'
  BY <1>3, ExpireInv
<1>4. ASSUME NEW c \in Call, Close(c) PROVE RunnerInv'
  BY <1>4, CloseInv
<1> QED BY <1>1, <1>2, <1>3, <1>4 DEF RunnerStep

\* Every step keeps the invariant.
LEMMA RunnerNextInv == ASSUME RunnerInv, [RunnerNext]_runnerVars PROVE RunnerInv'
<1>1. CASE RunnerStep
  BY <1>1, RunnerStepInv
<1>2. CASE StopRunner
  <2>1. {} \in SUBSET Call
    OBVIOUS
  <2> QED BY <1>2, <2>1, StopRunnerInv DEF StopRunner
<1>3. ASSUME NEW c \in Call, Run({c}) \/ Signal({c}) PROVE RunnerInv'
  <2>1. {c} \in SUBSET Call
    OBVIOUS
  <2> QED BY <1>3, <2>1, RunInv, SignalInv
<1>4. CASE UNCHANGED runnerVars
  BY <1>4, RunnerStutter
<1> QED BY <1>1, <1>2, <1>3, <1>4 DEF RunnerNext

\* The invariant holds of every behaviour of the runner.
LEMMA RunnerInductive == RunnerSpec => []RunnerInv
BY RunnerInitInv, RunnerNextInv, PTL DEF RunnerSpec

\* No collector runs on, unkilled, for a caller that has given up or in a runner that
\* stops, whichever await the abort or the stop came in.
THEOREM NoCallIsOrphaned == RunnerSpec => []NoOrphan
<1>1. RunnerInv => NoOrphan
  BY DEF RunnerInv
<1> QED BY <1>1, RunnerInductive, PTL

\* When stop() has returned no collector is alive and none will be: there is no moment
\* between the check of the executable and the registration of the child in which
\* stop() could miss it.
THEOREM StopLeavesNone == RunnerSpec => []StoppedIsQuiet
<1>1. RunnerInv => StoppedIsQuiet
  BY DEF RunnerInv, StopKnowsAll, StoppedIsQuiet
<1> QED BY <1>1, RunnerInductive, PTL

-----------------------------------------------------------------------------
(* The snapshot manager: what a session delivers was collected in it, and a          *)
(* collection that waits belongs to the session in force.                           *)

\* An active manager has a generation, and so has a collection in flight.
Numbered ==
  /\ active => generation \in Nat \ {0}
  /\ inFlight => collecting \in Nat \ {0}

IInv == TypeOK /\ WaitingIsCurrent /\ SentInItsSession /\ Numbered

\* The manager begins with nothing in flight.
LEMMA InitInv == Init => IInv
<1> SUFFICES ASSUME Init PROVE IInv
  OBVIOUS
<1> USE DEF Init
<1>1. TypeOK
  <2>1. {active, inFlight, aborted} \subseteq BOOLEAN
    BY DEF Init
  <2>2. generation \in Nat /\ collecting \in 0..generation
    BY DEF Init
  <2>3. pending \in 1..generation \cup {None} /\ interval \in 1..generation \cup {None}
    BY DEF Init
  <2>4. starts \in Nat /\ started \subseteq 1..generation
    BY DEF Init
  <2>5. sent \subseteq [collected : 1..generation, delivered : 1..generation]
    BY DEF Init
  <2> QED BY <2>1, <2>2, <2>3, <2>4, <2>5 DEF TypeOK
<1>2. WaitingIsCurrent /\ SentInItsSession /\ Numbered
  BY DEF WaitingIsCurrent, SentInItsSession, Numbered
<1> QED BY <1>1, <1>2 DEF IInv

\* A session begins: a collection in flight is aborted, and the first one waits for it.
LEMMA StartInv == ASSUME IInv, Start PROVE IInv'
<1> USE NoneAssumption DEF IInv, Start, Begin, Numbered
<1>1. TypeOK'
  <2>1. ({active, inFlight, aborted} \subseteq BOOLEAN)'
    BY DEF TypeOK
  <2>2. (generation \in Nat /\ collecting \in 0..generation)'
    BY DEF TypeOK
  <2>3. (pending \in 1..generation \cup {None} /\ interval \in 1..generation \cup {None})'
    BY DEF TypeOK
  <2>4. (starts \in Nat /\ started \subseteq 1..generation)'
    <3>1. starts' \in Nat /\ started \subseteq 1..generation'
      BY DEF TypeOK
    <3>2. generation' \in 1..generation'
      BY DEF TypeOK
    <3> QED BY <3>1, <3>2
  <2>5. (sent \subseteq [collected : 1..generation, delivered : 1..generation])'
    BY DEF TypeOK
  <2> QED BY <2>1, <2>2, <2>3, <2>4, <2>5 DEF TypeOK
<1>2. WaitingIsCurrent'
  BY DEF TypeOK, WaitingIsCurrent
<1>3. SentInItsSession'
  BY DEF SentInItsSession
<1>4. Numbered'
  BY DEF TypeOK
<1> QED BY <1>1, <1>2, <1>3, <1>4

\* A session ends: what is in flight is aborted, what waits is dropped.
LEMMA StopInv == ASSUME IInv, Stop PROVE IInv'
<1> USE NoneAssumption DEF IInv, Stop, Numbered
<1>1. TypeOK'
  <2>1. ({active, inFlight, aborted} \subseteq BOOLEAN)'
    BY DEF TypeOK
  <2>2. (generation \in Nat /\ collecting \in 0..generation)'
    BY DEF TypeOK
  <2>3. (pending \in 1..generation \cup {None} /\ interval \in 1..generation \cup {None})'
    BY DEF TypeOK
  <2>4. (starts \in Nat /\ started \subseteq 1..generation)'
    BY DEF TypeOK
  <2>5. (sent \subseteq [collected : 1..generation, delivered : 1..generation])'
    BY DEF TypeOK
  <2> QED BY <2>1, <2>2, <2>3, <2>4, <2>5 DEF TypeOK
<1>2. WaitingIsCurrent'
  BY DEF TypeOK, WaitingIsCurrent
<1>3. SentInItsSession'
  BY DEF SentInItsSession
<1>4. Numbered'
  BY DEF TypeOK
<1> QED BY <1>1, <1>2, <1>3, <1>4

\* The interval fires.
LEMMA IntervalInv == ASSUME IInv, Interval PROVE IInv'
<1> USE NoneAssumption DEF IInv, Interval, Begin, Numbered
<1>1. TypeOK'
  <2>1. ({active, inFlight, aborted} \subseteq BOOLEAN)'
    BY DEF TypeOK
  <2>2. (generation \in Nat /\ collecting \in 0..generation)'
    BY DEF TypeOK
  <2>3. (pending \in 1..generation \cup {None} /\ interval \in 1..generation \cup {None})'
    BY DEF TypeOK
  <2>4. (starts \in Nat /\ started \subseteq 1..generation)'
    BY DEF TypeOK
  <2>5. (sent \subseteq [collected : 1..generation, delivered : 1..generation])'
    BY DEF TypeOK
  <2> QED BY <2>1, <2>2, <2>3, <2>4, <2>5 DEF TypeOK
<1>2. WaitingIsCurrent'
  BY DEF TypeOK, WaitingIsCurrent
<1>3. SentInItsSession'
  BY DEF SentInItsSession
<1>4. Numbered'
  BY DEF TypeOK
<1> QED BY <1>1, <1>2, <1>3, <1>4

\* A collection ends: it is sent only in its session, and the one that waits begins.
LEMMA CollectedInv == ASSUME IInv, Collected PROVE IInv'
<1> USE NoneAssumption DEF IInv, Collected, Finally, Begin, Numbered
<1>1. TypeOK'
  <2>1. ({active, inFlight, aborted} \subseteq BOOLEAN)'
    BY DEF TypeOK
  <2>2. (generation \in Nat /\ collecting \in 0..generation)'
    BY DEF TypeOK
  <2>3. (pending \in 1..generation \cup {None} /\ interval \in 1..generation \cup {None})'
    BY DEF TypeOK
  <2>4. (starts \in Nat /\ started \subseteq 1..generation)'
    BY DEF TypeOK
  <2>5. (sent \subseteq [collected : 1..generation, delivered : 1..generation])'
    BY DEF TypeOK
  <2> QED BY <2>1, <2>2, <2>3, <2>4, <2>5 DEF TypeOK
<1>2. WaitingIsCurrent'
  BY DEF TypeOK, WaitingIsCurrent
<1>3. SentInItsSession'
  BY DEF SentInItsSession
<1>4. Numbered'
  BY DEF TypeOK
<1> QED BY <1>1, <1>2, <1>3, <1>4

\* Every step keeps the invariant.
LEMMA NextInv == ASSUME IInv, [Next]_vars PROVE IInv'
<1>1. CASE Start BY <1>1, StartInv
<1>2. CASE Stop BY <1>2, StopInv
<1>3. CASE Interval BY <1>3, IntervalInv
<1>4. CASE Collected BY <1>4, CollectedInv
<1>5. CASE UNCHANGED vars
  BY <1>5 DEF vars, IInv, TypeOK, WaitingIsCurrent, SentInItsSession, Numbered
<1> QED BY <1>1, <1>2, <1>3, <1>4, <1>5 DEF Next

\* The invariant holds of every behaviour of the manager.
THEOREM Inductive == Spec => []IInv
BY InitInv, NextInv, PTL DEF Spec

\* Generations, timers and what is delivered keep their types.
THEOREM TypeCorrect == Spec => []TypeOK
<1>1. IInv => TypeOK
  BY DEF IInv
<1> QED BY <1>1, Inductive, PTL

\* A collection that waits for another is for the session in force, and one of an
\* ended session has been told to stop.
THEOREM WaitsForItsSession == Spec => []WaitingIsCurrent
<1>1. IInv => WaitingIsCurrent
  BY DEF IInv
<1> QED BY <1>1, Inductive, PTL

\* No snapshot of one session is handed to the transport in another: collect()
\* compares the generation after its only await.
THEOREM StaysInItsSession == Spec => []SentInItsSession
<1>1. IInv => SentInItsSession
  BY DEF IInv
<1> QED BY <1>1, Inductive, PTL

-----------------------------------------------------------------------------
(* The snapshot manager inside the agent. *)

\* A process that dies leaves its manager idle.
LEMMA DieKeepsManager == ASSUME IInv, Die PROVE IInv'
<1> USE DEF IInv, Die
<1>1. TypeOK'
  BY DEF TypeOK
<1>2. WaitingIsCurrent' /\ SentInItsSession' /\ Numbered'
  BY DEF WaitingIsCurrent, SentInItsSession, Numbered
<1> QED BY <1>1, <1>2

\* A step that leaves the manager alone.
LEMMA ManagerStutter == ASSUME IInv, UNCHANGED managerVars PROVE IInv'
BY NextInv DEF managerVars, vars

\* A session ends, and with it what its manager was doing.
LEMMA StopSnapshotsKeeps == ASSUME IInv, StopSnapshots PROVE IInv'
<1>1. CASE Stop
  BY <1>1, StopInv
<1>2. CASE UNCHANGED managerVars
  BY <1>2, ManagerStutter
<1> QED BY <1>1, <1>2 DEF StopSnapshots

\* A bounded stop of the runtime.
LEMMA BoundedStopKeepsManager == ASSUME IInv, BoundedStop PROVE IInv'
BY StopSnapshotsKeeps, ManagerStutter DEF BoundedStop, StopRuntime

\* Every step of the agent keeps the invariant of the manager.
LEMMA ManagerKept == ASSUME IInv, [AgentNext]_agentVars PROVE IInv'
<1>1. CASE Opened
  BY <1>1, StopSnapshotsKeeps, DieKeepsManager DEF Opened, EndSession
<1>2. CASE AcceptProvisional
  BY <1>2, ManagerStutter, DieKeepsManager DEF AcceptProvisional
<1>3. CASE AcceptHandshake
  BY <1>3, StartInv, DieKeepsManager DEF AcceptHandshake
<1>4. CASE Closed
  BY <1>4, StopSnapshotsKeeps, DieKeepsManager DEF Closed, EndSession
<1>5. CASE CallTool \/ AbortTool
  BY <1>5, ManagerStutter DEF CallTool, AbortTool
<1>6. CASE SnapshotInterval
  BY <1>6, IntervalInv DEF SnapshotInterval
<1>7. CASE SnapshotCollected
  BY <1>7, CollectedInv DEF SnapshotCollected
<1>8. CASE StopCommand \/ Malformed \/ EndOfInput
  BY <1>8, BoundedStopKeepsManager DEF StopCommand, Malformed, EndOfInput, RequestStop
<1>9. CASE Probed
  BY <1>9, StopSnapshotsKeeps, ManagerStutter DEF Probed, CameUp, StopRuntime
<1>10. CASE ReadConfig \/ Import \/ Abandoned \/ ShutdownOver
  BY <1>10, ManagerStutter DEF ReadConfig, Import, Abandoned, ShutdownOver
<1>11. CASE Launch \/ StartDeadline \/ StartupDeadline \/ ShutdownDeadline \/ Exit
  BY <1>11, ManagerStutter DEF Launch, StartDeadline, StartupDeadline, ShutdownDeadline, Exit, Rest
<1>12. CASE CollectorStep \/ UNCHANGED agentVars
  BY <1>12, ManagerStutter DEF CollectorStep, agentVars
<1> QED
  BY <1>1, <1>2, <1>3, <1>4, <1>5, <1>6, <1>7, <1>8, <1>9, <1>10, <1>11, <1>12
  DEF AgentNext, EntryStep, SessionStep

-----------------------------------------------------------------------------
(* The collector runner inside the agent. *)

\* The calls of a session are calls.
LEMMA CallSets ==
  /\ SnapshotCalls \in SUBSET Call /\ {Tool} \in SUBSET Call /\ {Probe} \in SUBSET Call
  /\ {c \in SnapshotCalls : Calling(c)} \in SUBSET Call
  /\ SessionCalls \in SUBSET Call /\ {} \in SUBSET Call
BY CallAssumption DEF SessionCalls

\* A process that dies takes its collectors with it.
LEMMA DieKeepsRunner == ASSUME RunnerInv, Die PROVE RunnerInv'
<1> USE DEF RunnerInv, Die
<1>1. RunnerTypeOK'
  BY DEF RunnerTypeOK, Step
<1>2. NoOrphan' /\ StopKnowsAll'
  BY DEF RunnerTypeOK, NoOrphan, StopKnowsAll
<1> QED BY <1>1, <1>2

\* A bounded stop of the runtime.
LEMMA BoundedStopKeepsRunner == ASSUME RunnerInv, BoundedStop PROVE RunnerInv'
BY CallSets, StopRunnerInv, RunnerStutter DEF BoundedStop, StopRuntime

\* Every step of the agent keeps the invariant of the runner.
LEMMA RunnerKept == ASSUME RunnerInv, [AgentNext]_agentVars PROVE RunnerInv'
<1> USE CallSets
<1>1. CASE Opened
  BY <1>1, SignalInv, DieKeepsRunner DEF Opened, EndSession
<1>2. CASE AcceptProvisional
  BY <1>2, RunnerStutter, DieKeepsRunner DEF AcceptProvisional
<1>3. CASE AcceptHandshake
  BY <1>3, SignalInv, RunInv, DieKeepsRunner DEF AcceptHandshake
<1>4. CASE Closed
  BY <1>4, SignalInv, DieKeepsRunner DEF Closed, EndSession
<1>5. CASE CallTool \/ AbortTool
  BY <1>5, RunInv, SignalInv DEF CallTool, AbortTool
<1>6. CASE SnapshotInterval
  BY <1>6, RunInv DEF SnapshotInterval
<1>7. CASE SnapshotCollected
  BY <1>7, RunInv, RunnerStutter DEF SnapshotCollected
<1>8. CASE StopCommand \/ Malformed \/ EndOfInput
  BY <1>8, BoundedStopKeepsRunner DEF StopCommand, Malformed, EndOfInput, RequestStop
<1>9. CASE Probed
  BY <1>9, StopRunnerInv, RunnerStutter DEF Probed, CameUp, StopRuntime, StopRunner
<1>10. CASE Import
  BY <1>10, RunInv, RunnerStutter DEF Import
<1>11. CASE ReadConfig \/ Abandoned \/ ShutdownOver
  BY <1>11, RunnerStutter DEF ReadConfig, Abandoned, ShutdownOver
<1>12. CASE Launch \/ StartDeadline \/ StartupDeadline \/ ShutdownDeadline \/ Exit
  BY <1>12, RunnerStutter DEF Launch, StartDeadline, StartupDeadline, ShutdownDeadline, Exit, Rest
<1>13. CASE CollectorStep
  BY <1>13, RunnerStepInv DEF CollectorStep
<1>14. CASE UNCHANGED agentVars
  BY <1>14, RunnerStutter DEF agentVars
<1> QED
  BY <1>1, <1>2, <1>3, <1>4, <1>5, <1>6, <1>7, <1>8, <1>9, <1>10, <1>11, <1>12, <1>13, <1>14
  DEF AgentNext, EntryStep, SessionStep

-----------------------------------------------------------------------------
(* The entry, the session and the receipt. *)

\* The runtime is stopped and connected only once it has come up.
Booted ==
  /\ ~launched => boot = "none"
  /\ shutdown # "no" => boot = "up"
  /\ transport => boot = "up"
  /\ link # "down" => transport

\* An entry that has given up, or a runtime that has been told to stop, will not be
\* left to run.
GivenUpForGood ==
  /\ done # "pending" /\ boot \notin {"none", "failed"} => stopRequested \/ shutdown # "no"
  /\ boot = "up" /\ stopRequested => shutdown # "no"

\* What the process remembers of its receipt is on the disk, and nothing else is.
Marked ==
  alive =>
    /\ provisional => marker = Receipt("this", "provisional")
    /\ shutdown = "no" =>
         /\ marker = Receipt("this", "active") => link = "ready"
         /\ boot = "up" => marker = None \/ marker.launch = "this"

Down ==
  /\ ~running /\ ~transport /\ link = "down" /\ ~active
  /\ marker # None => marker.launch # "this"

\* A stop that went well has taken everything down, and keeps it down.
TakenDown ==
  /\ shutdown = "waiting" => Down /\ stopping
  /\ done = "resolved" /\ launched => shutdown = "over" /\ Down /\ halted

EntryInv == Booted /\ GivenUpForGood /\ Marked /\ TakenDown

\* Receipts of different launches or phases differ, and none is no receipt.
LEMMA Receipts ==
  /\ Receipt("this", "active") # Receipt("this", "provisional")
  /\ Receipt("this", "active") # Receipt("previous", "active")
  /\ Receipt("this", "active") # Receipt("previous", "provisional")
  /\ Receipt("this", "active") # None /\ Receipt("this", "provisional") # None
  /\ \A phase : Receipt("this", phase).launch = "this"
  /\ \A phase : Receipt("previous", phase).launch = "previous"
BY ReceiptAssumption DEF Receipt

\* The agent begins with no runtime, and perhaps with a receipt of a launch before.
LEMMA EntryInit == AgentInit => EntryInv
BY Receipts DEF AgentInit, RunnerInit, Init, EntryInv, Booted, GivenUpForGood, Marked, TakenDown,
   Down

\* What neither the entry nor the session nor the receipt takes part in.
LEMMA EntryStutter ==
  ASSUME EntryInv, UNCHANGED <<entryVars, sessionVars, receiptVars>>, active' = active,
         stopping => stopping', halted => halted'
  PROVE  EntryInv'
BY DEF EntryInv, Booted, GivenUpForGood, Marked, TakenDown, Down, entryVars, sessionVars,
   receiptVars

\* A runner never takes back that it stops, or that it has stopped.
LEMMA RunnerMonotone ==
  ASSUME \/ RunnerStep \/ UNCHANGED runnerVars
         \/ \E C \in SUBSET Call : Run(C) \/ Signal(C) \/ SignalAndStop(C)
  PROVE  (stopping => stopping') /\ (halted => halted')
<1>1. CASE RunnerStep
  <2>1. CASE Halt
    BY <2>1 DEF Halt
  <2>2. ASSUME NEW c \in Call, Trusted(c) \/ Expire(c) \/ Close(c)
        PROVE  (stopping => stopping') /\ (halted => halted')
    BY <2>2 DEF Trusted, Expire, Close
  <2> QED BY <1>1, <2>1, <2>2 DEF RunnerStep
<1>2. ASSUME NEW C \in SUBSET Call, Run(C) \/ Signal(C) \/ SignalAndStop(C)
      PROVE  (stopping => stopping') /\ (halted => halted')
  BY <1>2 DEF Run, Signal, SignalAndStop
<1>3. CASE UNCHANGED runnerVars
  BY <1>3 DEF runnerVars
<1> QED BY <1>1, <1>2, <1>3

\* A process that dies holds nothing.
LEMMA DieKeepsEntry == ASSUME EntryInv, Die, marker' \in {marker, None} PROVE EntryInv'
BY DEF EntryInv, Die, Booted, GivenUpForGood, Marked, TakenDown, Down

\* A connection opens, or ends.
LEMMA LinkKeepsEntry == ASSUME EntryInv, Opened \/ Closed PROVE EntryInv'
<1>1. CASE DisconnectedThrows /\ Die
  BY <1>1, DieKeepsEntry DEF DisconnectedThrows, ClearThrows
<1>2. CASE /\ running /\ transport' = transport /\ running' = running /\ UNCHANGED entryVars
           /\ link' = "down" \/ (transport /\ link' = "open")
           /\ Disconnected /\ EndSession
  <2> USE <1>2 DEF EntryInv, entryVars, Disconnected, Clear, receiptVars
  <2>1. Booted'
    BY DEF Booted
  <2>2. GivenUpForGood'
    BY DEF GivenUpForGood
  <2>3. Marked'
    BY Receipts DEF Marked
  <2>4. TakenDown'
    BY DEF TakenDown, Down
  <2> QED BY <2>1, <2>2, <2>3, <2>4
<1> QED BY <1>1, <1>2 DEF Opened, Closed, EntryInv, Booted

\* A handshake is accepted, for the session to be or for the time being.
LEMMA AcceptKeepsEntry == ASSUME EntryInv, AcceptProvisional \/ AcceptHandshake PROVE EntryInv'
<1>1. CASE PublishThrows /\ Die
  BY <1>1, DieKeepsEntry DEF PublishThrows
<1>2. CASE /\ link # "down" /\ running /\ UNCHANGED <<entryVars, running, transport>>
           /\ \/ Publish("provisional") /\ link' = "accepted"
              \/ Publish("active") /\ link' = "ready"
  <2> USE <1>2 DEF EntryInv, entryVars, Publish
  <2>1. Booted'
    BY DEF Booted
  <2>2. GivenUpForGood'
    BY DEF GivenUpForGood
  <2>3. Marked'
    <3>1. CASE Publish("provisional")
      BY <3>1, Receipts DEF Marked
    <3>2. CASE Publish("active") /\ link' = "ready"
      BY <3>2, Receipts DEF Marked
    <3> QED BY <3>1, <3>2
  <2>4. TakenDown'
    BY DEF TakenDown, Down
  <2> QED BY <2>1, <2>2, <2>3, <2>4
<1> QED BY <1>1, <1>2 DEF AcceptProvisional, AcceptHandshake

\* handle.stop() takes everything down, unless a file operation throws.
LEMMA StopRuntimeEffect ==
  ASSUME NEW connected, StopRuntime(connected)
  PROVE  /\ shutdown' \in {"waiting", "failing"} /\ stopping'
         /\ shutdown' = "waiting" => Down'
         /\ transport' => connected
         /\ link' # "down" => transport'
         /\ ~provisional'
<1>1. stopping' = TRUE /\ ~running' /\ ~active'
  BY DEF StopRuntime, StopSnapshots, Stop, managerVars, SignalAndStop
<1>2. CASE Clear /\ shutdown' = "waiting" /\ transport' = FALSE
  BY <1>1, <1>2 DEF StopRuntime, Clear, Down
<1>3. CASE /\ ClearThrows /\ shutdown' = "failing"
           /\ transport' \in IF provisional THEN {FALSE} ELSE {FALSE, connected}
  <2>1. transport' = FALSE \/ transport' = connected
    BY <1>3
  <2>2. link' = IF transport' THEN link ELSE "down"
    BY DEF StopRuntime
  <2>3. shutdown' = "failing" /\ ~provisional' /\ stopping'
    BY <1>1, <1>3 DEF ClearThrows
  <2> QED BY <2>1, <2>2, <2>3
<1> QED BY <1>2, <1>3 DEF StopRuntime

\* A command to stop, an end of the input, or what is not the protocol.
LEMMA CommandKeepsEntry == ASSUME EntryInv, StopCommand \/ Malformed \/ EndOfInput PROVE EntryInv'
<1> USE DEF EntryInv
<1>1. /\ RequestStop /\ Listening
      /\ done' \in {done, "rejected"} \/ (done' = "resolved" /\ ~launched)
  BY DEF StopCommand, Malformed, EndOfInput
<1>2. CASE boot = "up" /\ shutdown = "no" /\ StopRuntime(transport)
  <2>1. /\ shutdown' \in {"waiting", "failing"} /\ stopping'
        /\ shutdown' = "waiting" => Down'
        /\ transport' => transport
        /\ link' # "down" => transport'
        /\ ~provisional'
    BY <1>2, StopRuntimeEffect DEF Booted
  <2>2. stopRequested' = TRUE /\ UNCHANGED <<alive, launched, boot>>
    BY <1>1 DEF RequestStop
  <2>3. Booted' /\ GivenUpForGood'
    BY <1>2, <2>1, <2>2 DEF Booted, GivenUpForGood
  <2>4. Marked'
    BY <2>1 DEF Marked
  <2>5. TakenDown'
    BY <1>1, <1>2, <2>1, <2>2 DEF TakenDown, Booted, Listening
  <2> QED BY <2>3, <2>4, <2>5
<1>3. CASE /\ ~(boot = "up" /\ shutdown = "no")
           /\ UNCHANGED <<shutdown, sessionVars, receiptVars, managerVars, runnerVars>>
  <2> USE <1>1, <1>3 DEF RequestStop, sessionVars, receiptVars, managerVars, runnerVars, Listening
  <2>1. Booted'
    BY DEF Booted
  <2>2. GivenUpForGood'
    BY DEF GivenUpForGood
  <2>3. Marked'
    BY DEF Marked
  <2>4. TakenDown'
    BY DEF TakenDown, Down
  <2> QED BY <2>1, <2>2, <2>3, <2>4
<1> QED BY <1>1, <1>2, <1>3 DEF RequestStop, BoundedStop

\* The runtime has come up, or has not.
LEMMA ProbedKeepsEntry == ASSUME EntryInv, Probed PROVE EntryInv'
<1> USE DEF EntryInv
<1>1. /\ boot = "probing" /\ alive /\ launched /\ shutdown = "no" /\ ~transport /\ link = "down"
      /\ UNCHANGED <<alive, pipe, launched, stopRequested, config>>
  BY DEF Probed, Booted
<1>2. CASE boot' = "abandoning" /\ StopRunner /\ UNCHANGED <<shutdown, done, sessionVars, receiptVars, managerVars>>
  <2> USE <1>1, <1>2 DEF StopRunner, SignalAndStop, sessionVars, receiptVars, managerVars
  <2>1. Booted' /\ GivenUpForGood'
    BY DEF Booted, GivenUpForGood
  <2>2. Marked'
    BY DEF Marked
  <2>3. TakenDown'
    BY DEF TakenDown
  <2> QED BY <2>1, <2>2, <2>3
<1>3. CASE DisconnectedThrows /\ FailBoot /\ UNCHANGED <<shutdown, transport, link>>
  <2> USE <1>1, <1>3 DEF DisconnectedThrows, ClearThrows, FailBoot, Settle
  <2>1. Booted' /\ GivenUpForGood'
    BY DEF Booted, GivenUpForGood
  <2>2. Marked'
    BY Receipts DEF Marked
  <2>3. TakenDown'
    BY DEF TakenDown
  <2> QED BY <2>1, <2>2, <2>3
<1>4. CASE /\ boot' = "up" /\ done' = done /\ ~stopRequested /\ Disconnected /\ transport' = TRUE
           /\ UNCHANGED <<shutdown, link>>
  <2> USE <1>1, <1>4 DEF Disconnected, Clear, receiptVars
  <2>1. Booted' /\ GivenUpForGood'
    BY DEF Booted, GivenUpForGood
  <2>2. Marked'
    BY Receipts DEF Marked
  <2>3. TakenDown'
    BY DEF TakenDown
  <2> QED BY <2>1, <2>2, <2>3
<1>5. CASE boot' = "up" /\ done' = done /\ stopRequested /\ StopRuntime(TRUE)
  <2>1. /\ shutdown' \in {"waiting", "failing"} /\ stopping'
        /\ shutdown' = "waiting" => Down'
        /\ link' # "down" => transport'
        /\ ~provisional'
    BY <1>5, StopRuntimeEffect
  <2>2. Booted' /\ GivenUpForGood'
    BY <1>1, <1>5, <2>1 DEF Booted, GivenUpForGood
  <2>3. Marked'
    BY <2>1 DEF Marked
  <2>4. TakenDown'
    BY <1>1, <1>5, <2>1 DEF TakenDown
  <2> QED BY <2>2, <2>3, <2>4
<1> QED BY <1>2, <1>3, <1>4, <1>5 DEF Probed, CameUp

\* The start of the runtime up to its probe, and its end when it fails.
LEMMA BootKeepsEntry == ASSUME EntryInv, ReadConfig \/ Import \/ Abandoned PROVE EntryInv'
<1> USE DEF EntryInv
<1>1. /\ boot \in {"reading", "importing", "abandoning"} /\ shutdown = "no" /\ launched
      /\ ~transport /\ link = "down"
      /\ boot' \in {"importing", "probing", "failed"} /\ (boot' = "failed" \/ done' = done)
      /\ done' \in {done, "rejected"}
      /\ UNCHANGED <<alive, launched, stopRequested, shutdown, sessionVars>>
      /\ UNCHANGED managerVars
  BY DEF ReadConfig, Import, Abandoned, FailBoot, Settle, Booted
<1>2. UNCHANGED receiptVars \/ Disconnected \/ DisconnectedThrows
  BY DEF ReadConfig, Import, Abandoned
<1> USE <1>1 DEF sessionVars, managerVars
<1>3. Booted' /\ GivenUpForGood'
  BY DEF Booted, GivenUpForGood
<1>4. Marked'
  BY <1>2, Receipts DEF Marked, receiptVars, Disconnected, DisconnectedThrows, Clear, ClearThrows
<1>5. TakenDown'
  BY DEF TakenDown
<1> QED BY <1>3, <1>4, <1>5

\* The deadlines, the answer of the entry, its launch and its end.
LEMMA DeadlineKeepsEntry ==
  ASSUME EntryInv,
         \/ ShutdownOver \/ Launch \/ StartDeadline \/ StartupDeadline \/ ShutdownDeadline \/ Exit
  PROVE  EntryInv'
<1> USE DEF EntryInv, Rest, sessionVars, receiptVars, managerVars, runnerVars, Listening
<1>1. CASE ShutdownOver
  BY <1>1 DEF ShutdownOver, Settle, Booted, GivenUpForGood, Marked, TakenDown, Down
<1>2. CASE Launch
  BY <1>2 DEF Launch, Booted, GivenUpForGood, Marked, TakenDown, Down
<1>3. CASE StartDeadline
  BY <1>3 DEF StartDeadline, Booted, GivenUpForGood, Marked, TakenDown, Down
<1>4. CASE StartupDeadline
  BY <1>4 DEF StartupDeadline, Booted, GivenUpForGood, Marked, TakenDown, Down
<1>5. CASE ShutdownDeadline
  BY <1>5 DEF ShutdownDeadline, Booted, GivenUpForGood, Marked, TakenDown, Down
<1>6. CASE Exit
  BY <1>6 DEF Exit, Booted, GivenUpForGood, Marked, TakenDown, Down
<1> QED BY <1>1, <1>2, <1>3, <1>4, <1>5, <1>6

\* Every step of the agent keeps the invariant of the entry.
LEMMA EntryKept == ASSUME EntryInv, [AgentNext]_agentVars PROVE EntryInv'
<1>1. CASE Opened \/ Closed
  BY <1>1, LinkKeepsEntry
<1>2. CASE AcceptProvisional \/ AcceptHandshake
  BY <1>2, AcceptKeepsEntry
<1>3. CASE CallTool \/ AbortTool \/ SnapshotInterval \/ SnapshotCollected \/ CollectorStep
  <2>1. /\ UNCHANGED <<entryVars, sessionVars, receiptVars>> /\ active' = active
        /\ \/ RunnerStep \/ UNCHANGED runnerVars
           \/ \E C \in SUBSET Call : Run(C) \/ Signal(C) \/ SignalAndStop(C)
    BY <1>3, CallSets
    DEF CallTool, AbortTool, SnapshotInterval, SnapshotCollected, CollectorStep, Interval, Collected,
        managerVars
  <2> QED BY <2>1, RunnerMonotone, EntryStutter
<1>4. CASE StopCommand \/ Malformed \/ EndOfInput
  BY <1>4, CommandKeepsEntry
<1>5. CASE Probed
  BY <1>5, ProbedKeepsEntry
<1>6. CASE ReadConfig \/ Import \/ Abandoned
  BY <1>6, BootKeepsEntry
<1>7. CASE ShutdownOver \/ Launch \/ StartDeadline \/ StartupDeadline \/ ShutdownDeadline \/ Exit
  BY <1>7, DeadlineKeepsEntry
<1>8. CASE UNCHANGED agentVars
  BY <1>8, EntryStutter DEF agentVars, managerVars, runnerVars
<1> QED
  BY <1>1, <1>2, <1>3, <1>4, <1>5, <1>6, <1>7, <1>8 DEF AgentNext, EntryStep, SessionStep

-----------------------------------------------------------------------------
(* The configuration. *)

\* What no file and no inherited setting can change.
LEMMA FixedSettings ==
  /\ {"OS_FAMILY", "COLLECTOR_MODE", "WRITE_ENABLED"} \subseteq DOMAIN fixed
  /\ DOMAIN fixed \subseteq settingsKeys
  /\ fixed["OS_FAMILY"] = "windows" /\ fixed["COLLECTOR_MODE"] = "live"
  /\ fixed["WRITE_ENABLED"] = "no"
BY DEF fixed, settingsKeys

\* The environment the service makes of a file it takes.
LEMMA FileSettings ==
  ASSUME NEW file, parseWindowsServiceConfig(file) # Refused,
         NEW e, e = parseWindowsServiceConfig(file)
  PROVE  /\ {"OS_FAMILY", "COLLECTOR_MODE", "WRITE_ENABLED"} \subseteq DOMAIN e
         /\ "ALLOW_INSECURE_TRANSPORT" \notin DOMAIN e
         /\ e["OS_FAMILY"] = "windows" /\ e["COLLECTOR_MODE"] = "live" /\ e["WRITE_ENABLED"] = "no"
<1>1. /\ e = [name \in DOMAIN fixed \cup DOMAIN file |->
                 IF name \in DOMAIN fixed THEN fixed[name] ELSE file[name]]
      /\ DOMAIN file \subseteq settingsKeys
  BY DEF parseWindowsServiceConfig
<1>2. "ALLOW_INSECURE_TRANSPORT" \notin settingsKeys
  BY DEF settingsKeys
<1> QED BY <1>1, <1>2, FixedSettings

\* A file the service takes, whatever else it says, makes a configuration that is
\* refused or confined.
LEMMA FileConfines ==
  ASSUME NEW file, parseWindowsServiceConfig(file) # Refused,
         NEW e, e = parseWindowsServiceConfig(file), NEW c, c = loadConfig(e), c # Refused
  PROVE  /\ c.osFamily = "windows" /\ c.collectorMode = "live"
         /\ ~c.writeEnabled /\ c.platformUrl = "https"
<1>1. /\ {"OS_FAMILY", "COLLECTOR_MODE", "WRITE_ENABLED"} \subseteq DOMAIN e
      /\ "ALLOW_INSECURE_TRANSPORT" \notin DOMAIN e
      /\ e["OS_FAMILY"] = "windows" /\ e["COLLECTOR_MODE"] = "live" /\ e["WRITE_ENABLED"] = "no"
  BY FileSettings
<1>2. platformUrl(e)
  BY DEF loadConfig
<1>3. ~boolEnv(e, "ALLOW_INSECURE_TRANSPORT") /\ ~boolEnv(e, "WRITE_ENABLED")
  BY <1>1 DEF boolEnv, env
<1>4. e["PLATFORM_URL"] = "https"
  BY <1>2, <1>3 DEF platformUrl, env
<1>5. /\ c.osFamily = env(e, "OS_FAMILY", "linux") /\ c.collectorMode = env(e, "COLLECTOR_MODE", "live")
      /\ c.writeEnabled = boolEnv(e, "WRITE_ENABLED") /\ c.platformUrl = e["PLATFORM_URL"]
  BY DEF loadConfig
<1> QED BY <1>1, <1>3, <1>4, <1>5 DEF env

\* Only the reading of the file sets the configuration.
LEMMA ConfinedKept == ASSUME RunsConfined, [AgentNext]_agentVars PROVE RunsConfined'
<1>1. CASE config' = config
  BY <1>1 DEF RunsConfined
<1>2. ASSUME NEW file \in File, NEW inherited \in Inherited,
             parseWindowsServiceConfig(file) # Refused,
             config' = loadConfig(ServiceEnvironment(inherited, parseWindowsServiceConfig(file)))
      PROVE  RunsConfined'
  BY <1>2, FileConfines DEF ServiceEnvironment, RunsConfined
<1>3. CASE ReadConfig
  <2>1. CASE \E file \in File, inherited \in Inherited :
               LET settings == parseWindowsServiceConfig(file)
               IN IF settings = Refused THEN FailBoot /\ UNCHANGED config
                  ELSE /\ boot' = "importing" /\ UNCHANGED done
                       /\ config' = loadConfig(ServiceEnvironment(inherited, settings))
    BY <2>1, <1>1, <1>2
  <2> QED BY <1>1, <1>3, <2>1 DEF ReadConfig
<1>4. CASE CollectorStep \/ SessionStep \/ UNCHANGED agentVars
  BY <1>1, <1>4
  DEF CollectorStep, SessionStep, Opened, AcceptProvisional, AcceptHandshake, Closed, CallTool, AbortTool,
      SnapshotInterval, SnapshotCollected, Die, entryVars, agentVars
<1>5. CASE StopCommand \/ Malformed \/ EndOfInput \/ Probed
  BY <1>1, <1>5 DEF StopCommand, Malformed, EndOfInput, RequestStop, Probed
<1>6. CASE \/ Import \/ Abandoned \/ ShutdownOver \/ Launch \/ StartDeadline \/ StartupDeadline
           \/ ShutdownDeadline \/ Exit
  BY <1>1, <1>6
  DEF Import, Abandoned, ShutdownOver, Launch, StartDeadline, StartupDeadline, ShutdownDeadline, Exit
<1> QED BY <1>3, <1>4, <1>5, <1>6 DEF AgentNext, EntryStep

-----------------------------------------------------------------------------
(* The theorems. *)

AgentInv == IInv /\ RunnerInv /\ EntryInv /\ RunsConfined

\* The agent begins with each part as it begins by itself.
LEMMA AgentInitInv == AgentInit => AgentInv
<1> SUFFICES ASSUME AgentInit PROVE AgentInv
  OBVIOUS
<1>1. IInv /\ RunnerInv
  BY InitInv, RunnerInitInv DEF AgentInit
<1>2. RunsConfined
  BY DEF AgentInit, RunsConfined
<1> QED BY <1>1, <1>2, EntryInit DEF AgentInv

\* The invariant holds of every behaviour of the launch.
LEMMA AgentInductive == AgentSpec => []AgentInv
<1>1. AgentInv /\ [AgentNext]_agentVars => AgentInv'
  BY ManagerKept, RunnerKept, EntryKept, ConfinedKept DEF AgentInv
<1> QED BY <1>1, AgentInitInv, PTL DEF AgentSpec

\* In the running service, too, no snapshot crosses from one session to another, though
\* sessions, stops and collectors interleave as they may and the process may die.
THEOREM ServiceSnapshotsStayHome == AgentSpec => []SentInItsSession
<1>1. AgentInv => SentInItsSession
  BY DEF AgentInv, IInv
<1> QED BY <1>1, AgentInductive, PTL

\* No collector of a probe, a snapshot or a tool runs on, unkilled, once its caller has
\* given up or the service stops.
THEOREM ServiceOrphansNone == AgentSpec => []NoOrphan
<1>1. AgentInv => NoOrphan
  BY DEF AgentInv, RunnerInv
<1> QED BY <1>1, AgentInductive, PTL

\* A runtime that comes up behind an entry that has given up on it is stopped.
THEOREM LateRuntimeIsStopped == AgentSpec => []NoRunawayRuntime
<1>1. AgentInv => NoRunawayRuntime
  BY DEF AgentInv, EntryInv, GivenUpForGood, NoRunawayRuntime
<1> QED BY <1>1, AgentInductive, PTL

\* While the service lives and is not being stopped, the receipt of an active session
\* is there only in one, and no receipt of another launch is taken for its own.
THEOREM ReceiptTellsTheTruth == AgentSpec => []ReceiptIsCurrent
<1>1. AgentInv => ReceiptIsCurrent
  BY DEF AgentInv, EntryInv, Marked, ReceiptIsCurrent
<1> QED BY <1>1, AgentInductive, PTL

\* A clean stop leaves no connection, session, telemetry, collector or receipt, ever.
THEOREM CleanStopIsClean == AgentSpec => []NothingLeftRunning
<1>1. AgentInv => NothingLeftRunning
  BY DEF AgentInv, RunnerInv, StopKnowsAll, EntryInv, TakenDown, Down, NothingLeftRunning
<1> QED BY <1>1, AgentInductive, PTL

\* Whatever the protected file says and whatever the process inherited, the service is
\* refused or runs read-only, live and over https.
THEOREM ServiceIsConfined == AgentSpec => []RunsConfined
<1>1. AgentInv => RunsConfined
  BY DEF AgentInv
<1> QED BY <1>1, AgentInductive, PTL

=============================================================================
