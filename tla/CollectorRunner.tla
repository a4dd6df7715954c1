--------------------------- MODULE CollectorRunner ---------------------------
(***************************************************************************)
(* The PowerShell collectors of the Windows service:                        *)
(* WindowsCollectorRunner of src/windows/runner.ts.  A call of run() awaits *)
(* the check of the executable and then its child; between the two it       *)
(* tests again, and spawns and registers the child, without an await.       *)
(*                                                                         *)
(* The module is a component: its owner starts calls, fires the signals it  *)
(* handed to them, and stops the runner.                                    *)
(***************************************************************************)
EXTENDS FiniteSets

CONSTANT Call   \* callers of run(), each with one call at a time

VARIABLES
  stopping,   \* this.stopping
  step,       \* where the call stands: at the check of the executable, at its child
  child,      \* its process: running, told to die, or none
  failure,    \* the call has a cause of its own to report, whatever its child returns
  outcome,    \* what run() returned, "none" before it has
  signalled,  \* calls whose AbortSignal has fired
  awaited,    \* the children stop() waits for
  halted      \* stop() has returned

callVars == <<step, child, failure, outcome, signalled>>
runnerVars == <<stopping, callVars, awaited, halted>>

Step == {"idle", "trust", "child"}

RunnerInit ==
  /\ stopping = FALSE /\ awaited = {} /\ halted = FALSE
  /\ step = [c \in Call |-> "idle"] /\ child = [c \in Call |-> "none"]
  /\ failure = [c \in Call |-> FALSE] /\ outcome = [c \in Call |-> "none"]
  /\ signalled = {}

Return(c, o) ==
  /\ step' = [step EXCEPT ![c] = "idle"]
  /\ outcome' = [outcome EXCEPT ![c] = o]

GivenUp(c) == stopping \/ c \in signalled

\* run(), by the calls C at once, each with a signal that has not fired.
Run(C) ==
  /\ step' = [c \in Call |-> IF c \in C /\ ~stopping THEN "trust" ELSE step[c]]
  /\ outcome' = [c \in Call |-> IF c \notin C THEN outcome[c]
                               ELSE IF stopping THEN "failed" ELSE "none"]
  /\ failure' = [c \in Call |-> failure[c] /\ c \notin C]
  /\ signalled' = signalled \ C
  /\ UNCHANGED <<stopping, child, awaited, halted>>

\* Mutant of Trusted: the conditions are not tested again after the check.
TrustedAnyway(c) ==
  /\ step[c] = "trust"
  /\ \/ Return(c, "failed") /\ UNCHANGED child
     \/ /\ step' = [step EXCEPT ![c] = "child"]
        /\ child' = [child EXCEPT ![c] = "running"]
        /\ UNCHANGED outcome
  /\ UNCHANGED <<stopping, failure, signalled, awaited, halted>>

\* The executable has been checked: a child is spawned and registered, unless the
\* call has been refused meanwhile.
Trusted(c) ==
  /\ step[c] = "trust"
  /\ \/ Return(c, "failed") /\ UNCHANGED child
     \/ /\ ~GivenUp(c)
        /\ step' = [step EXCEPT ![c] = "child"]
        /\ child' = [child EXCEPT ![c] = "running"]
        /\ UNCHANGED outcome
  /\ UNCHANGED <<stopping, failure, signalled, awaited, halted>>

\* kill() for the calls C that have a child: the first cause is the one reported.
Kill(C) ==
  /\ child' = [c \in Call |-> IF c \in C /\ child[c] = "running" THEN "dying" ELSE child[c]]
  /\ failure' = [c \in Call |-> failure[c] \/ (c \in C /\ child[c] # "none")]

\* The timer of the call, or more output than the limit.
Expire(c) ==
  /\ child[c] = "running"
  /\ Kill({c})
  /\ UNCHANGED <<stopping, step, outcome, signalled, awaited, halted>>

\* The signals of the calls C fire.
Signal(C) ==
  /\ signalled' = signalled \cup C
  /\ Kill(C)
  /\ UNCHANGED <<stopping, step, outcome, awaited, halted>>

\* The child has closed; it may not have started, or left by itself with whatever
\* exit code and output.
Close(c) ==
  /\ child[c] # "none"
  /\ child' = [child EXCEPT ![c] = "none"]
  /\ \/ Return(c, "failed")
     \/ ~failure[c] /\ Return(c, "ok")
  /\ UNCHANGED <<stopping, failure, signalled, awaited, halted>>

\* Mutant of SignalAndStop: the children are killed, and not waited for.
SignalAndLeave(C) ==
  /\ signalled' = signalled \cup C
  /\ stopping' = TRUE /\ awaited' = {}
  /\ child' = [c \in Call |-> IF child[c] = "running" THEN "dying" ELSE child[c]]
  /\ failure' = [c \in Call |-> failure[c] \/ (c \in C /\ child[c] # "none")]
  /\ UNCHANGED <<step, outcome, halted>>

\* stop(), after the signals of the calls C have fired; no cause is noted for the
\* other children it kills.
SignalAndStop(C) ==
  /\ signalled' = signalled \cup C
  /\ stopping' = TRUE /\ awaited' = {c \in Call : child[c] # "none"}
  /\ child' = [c \in Call |-> IF child[c] = "running" THEN "dying" ELSE child[c]]
  /\ failure' = [c \in Call |-> failure[c] \/ (c \in C /\ child[c] # "none")]
  /\ UNCHANGED <<step, outcome, halted>>

StopRunner == SignalAndStop({})

\* stop() returns: the children it knew have closed.
Halt ==
  /\ stopping /\ ~halted
  /\ \A c \in awaited : child[c] = "none"
  /\ halted' = TRUE
  /\ UNCHANGED <<stopping, callVars, awaited>>

RunnerStep == Halt \/ \E c \in Call : Trusted(c) \/ Expire(c) \/ Close(c)

Calling(c) == step[c] # "idle"

RunnerNext ==
  \/ RunnerStep
  \/ StopRunner /\ ~stopping
  \/ \E c \in Call : (Run({c}) /\ ~Calling(c)) \/ Signal({c})

RunnerSpec == RunnerInit /\ [][RunnerNext]_runnerVars

-----------------------------------------------------------------------------
(* Properties. *)

RunnerTypeOK ==
  /\ stopping \in BOOLEAN /\ halted \in BOOLEAN
  /\ step \in [Call -> Step]
  /\ child \in [Call -> {"none", "running", "dying"}]
  /\ failure \in [Call -> BOOLEAN]
  /\ outcome \in [Call -> {"none", "ok", "failed"}]
  /\ signalled \subseteq Call /\ awaited \subseteq Call

\* No collector runs on, unkilled, for a caller that has given up or in a service that
\* stops, whichever await the abort or the stop came in.
NoOrphan == \A c \in Call : child[c] = "running" => ~GivenUp(c)

\* Once stop() has returned no collector is alive, and none will be started.
StoppedIsQuiet == halted => \A c \in Call : child[c] = "none"

=============================================================================
