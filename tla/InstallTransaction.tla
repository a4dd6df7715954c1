-------------------------- MODULE InstallTransaction --------------------------
(***************************************************************************)
(* Replacing a Linux installation: the transaction of                       *)
(* packaging/systemd/install-worker.sh, its rollback when it fails, and its *)
(* recovery by packaging/systemd/acornops-agentv-install-recover when it    *)
(* was interrupted.  The control plane and the agent are what those two     *)
(* scripts see of them: a transaction status, a marker under /run.          *)
(*                                                                         *)
(* A step is one command that changes something outside the script, with    *)
(* what the script decides on it.  The worker and the recovery exclude each *)
(* other by a lock that dies with its holder.  A file operation that has    *)
(* returned survives a crash, and a request to the control plane takes      *)
(* effect before its sender gives up on it, or never.                       *)
(***************************************************************************)
EXTENDS Naturals, Sequences

CONSTANTS
  Setup,      \* the installations to begin with
  MaxFaults   \* bound: kills, reboots, deaths of the agent, lost connections

\* Mutant of Order: the action policy is not restored.
OrderButPolicy == <<"runtime", "release", "env">>

\* What the transaction snapshots and restores, in that order.
Order == <<"runtime", "release", "env", "policy">>
Part == {"runtime", "release", "env", "policy"}
Mode == {"initial", "replace", "repair"}

\* mode: the first installation, a new credential, or the one at hand kept;
\* before: the parts there were: before a first installation a runtime and a policy
\* can be left over, and an old installation has no runtime of its own;
\* differs: the parts in which the candidate is not what was there before;
\* active: the agent was running (previous-active).
ASSUME SetupAssumption ==
  /\ Setup \subseteq [mode : Mode, before : SUBSET Part, differs : SUBSET Part, active : BOOLEAN]
  /\ \A s \in Setup :
       /\ Part \ s.before \subseteq s.differs
       /\ IF s.mode = "initial" THEN s.before \subseteq {"runtime", "policy"} /\ ~s.active
                                ELSE Part \ {"runtime"} \subseteq s.before
       /\ s.mode = "replace" => "env" \in s.differs
ASSUME FaultAssumption == MaxFaults \in Nat

VARIABLES
  setup,
  installed,   \* the version of each part on the host
  units,       \* the recovery and its unit are there and enabled
  enabled,     \* acornops-agentv.service is enabled
  files,       \* what the transaction directory says
  link,        \* the active link exists
  agent,       \* "stopped", "none" while systemd retries, or the env it runs with
  connected,   \* the agent has a normal session
  marker,      \* /run/acornops-agentv/authenticated
  restarting,  \* systemctl restart --no-block has been queued
  remote,      \* the status of the control plane's transaction
  window,      \* it can still be committed or rolled back
  heard,       \* activeConnected
  worker,      \* where install-worker.sh is
  outcome,     \* local_rollback and control_rollback of on_exit
  torn,        \* history: the worker was killed, or gave up, while it restored
  recovery,    \* where the recovery is
  seen,        \* the status file of this recovery
  changed,     \* local_changed
  faults

hostVars == <<installed, units, enabled>>
txnVars == <<files, link>>
agentVars == <<agent, connected, marker, restarting>>
remoteVars == <<remote, window, heard>>
workerVars == <<worker, outcome, torn>>
recoveryVars == <<recovery, seen, changed>>
vars == <<setup, hostVars, txnVars, agentVars, remoteVars, workerVars, recoveryVars, faults>>

Version == {"none", "previous", "candidate"}
Pending == {"exchanged", "verified"}
Previous == [p \in Part |-> IF p \in setup.before THEN "previous" ELSE "none"]
Candidate == [p \in Part |-> IF p \in setup.differs THEN "candidate" ELSE Previous[p]]
HasControl == "control" \in files

\* Which credential a normal session can be opened with: the candidate's from the
\* commit on, until then, and again after a rollback, the previous one.
Accepted(v) ==
  IF setup.mode = "repair" THEN v \in {"previous", "candidate"}
  ELSE v = IF remote = "completed" THEN "candidate" ELSE "previous"

Init ==
  /\ setup \in Setup
  /\ installed = Previous
  /\ units = (setup.mode # "initial") /\ enabled = setup.active
  /\ files = {} /\ link = FALSE
  /\ agent = IF setup.active THEN "previous" ELSE "stopped"
  /\ connected = setup.active /\ marker = setup.active /\ restarting = FALSE
  /\ remote = "none" /\ window = FALSE /\ heard = setup.active
  /\ worker = "idle" /\ outcome = [local |-> "not-needed", control |-> "not-needed"]
  /\ torn = FALSE
  /\ recovery = "idle" /\ seen = [status |-> "none", heard |-> FALSE] /\ changed = FALSE
  /\ faults = 0

-----------------------------------------------------------------------------
(* The agent, as systemd runs it and the control plane treats it. *)

\* What a start of the agent gives: it removes the marker and reads the env.
Loads == IF installed["release"] = "none" THEN "none" ELSE installed["env"]
Started == agent' = Loads /\ connected' = FALSE /\ marker' = FALSE

Stopped == agent' = "stopped" /\ connected' = FALSE /\ marker' = FALSE

\* A normal handshake writes the marker.
Connect ==
  /\ ~connected /\ Accepted(agent)
  /\ connected' = TRUE /\ marker' = TRUE /\ heard' = TRUE
  /\ UNCHANGED <<setup, hostVars, txnVars, agent, restarting, remote, window, workerVars,
                 recoveryVars, faults>>

\* A provisional handshake proves the pending credential, and ends.
Provisional ==
  /\ agent = "candidate" /\ remote = "exchanged"
  /\ remote' = "verified"
  /\ UNCHANGED <<setup, hostVars, txnVars, agentVars, window, heard, workerVars, recoveryVars,
                 faults>>

\* The session ends: its credential is no longer accepted, or the network failed.
Drop ==
  /\ connected
  /\ \/ ~Accepted(agent) /\ UNCHANGED faults
     \/ faults < MaxFaults /\ faults' = faults + 1
  /\ connected' = FALSE /\ marker' = FALSE
  /\ heard' \in {heard, FALSE}
  /\ UNCHANGED <<setup, hostVars, txnVars, agent, restarting, remote, window, workerVars,
                 recoveryVars>>

\* The agent dies, with or without removing its marker, and comes back.
AgentDies ==
  /\ agent \in {"previous", "candidate"} /\ faults < MaxFaults
  /\ agent' = "none" /\ connected' = FALSE /\ marker' \in {marker, FALSE}
  /\ heard' \in {heard, FALSE}
  /\ faults' = faults + 1
  /\ UNCHANGED <<setup, hostVars, txnVars, restarting, remote, window, workerVars, recoveryVars>>

AgentReturns ==
  /\ agent = "none" /\ Loads # "none"
  /\ Started
  /\ UNCHANGED <<setup, hostVars, txnVars, restarting, remoteVars, workerVars, recoveryVars,
                 faults>>

QueuedRestart ==
  /\ restarting
  /\ restarting' = FALSE
  /\ Started
  /\ UNCHANGED <<setup, hostVars, txnVars, remoteVars, workerVars, recoveryVars, faults>>

\* An hour after the exchange, or half an hour after the commit.
CloseWindow ==
  /\ window
  /\ window' = FALSE
  /\ remote' = IF remote \in Pending THEN "expired" ELSE remote
  /\ UNCHANGED <<setup, hostVars, txnVars, agentVars, heard, workerVars, recoveryVars, faults>>

\* POST .../rollback, taking effect.
RolledBack ==
  /\ window /\ remote \in Pending \cup {"completed", "cancelled"}
  /\ remote' = "cancelled"
  /\ heard' = (heard /\ remote # "completed")
  /\ UNCHANGED window

-----------------------------------------------------------------------------
(* install-worker.sh. *)

\* The snapshot is complete before the active link is made.
Publish ==
  /\ worker = "idle" /\ ~link
  /\ link' = TRUE
  /\ worker' = IF setup.mode = "repair" THEN "runtime" ELSE "exchange"
  /\ UNCHANGED <<setup, hostVars, files, agentVars, remoteVars, outcome, torn, recoveryVars,
                 faults>>

Exchange ==
  /\ worker = "exchange"
  /\ remote' = "exchanged" /\ window' = TRUE
  /\ worker' = "save"
  /\ UNCHANGED <<setup, hostVars, txnVars, agentVars, heard, outcome, torn, recoveryVars, faults>>

SaveControl ==
  /\ worker = "save"
  /\ files' = files \cup {"control"}
  /\ worker' = "runtime"
  /\ UNCHANGED <<setup, hostVars, link, agentVars, remoteVars, outcome, torn, recoveryVars, faults>>

After == [runtime |-> "release", release |-> "units", units |-> "env", env |-> "policy",
          policy |-> "record"]

\* install.sh saves the runtime, switches the release and enables the units (its
\* placeholder env counts as none); then come the env and the policy.
InstallPart ==
  /\ worker \in DOMAIN After
  /\ \/ /\ worker \in Part
        /\ installed' = [installed EXCEPT ![worker] = Candidate[worker]]
        /\ UNCHANGED <<units, enabled>>
     \/ /\ worker = "units"
        /\ units' = TRUE /\ enabled' = TRUE /\ UNCHANGED installed
  /\ worker' = After[worker]
  /\ UNCHANGED <<setup, txnVars, agentVars, remoteVars, outcome, torn, recoveryVars, faults>>

RecordCandidate ==
  /\ worker = "record"
  /\ files' = files \cup {"candidate"}
  /\ worker' = "start"
  /\ UNCHANGED <<setup, hostVars, link, agentVars, remoteVars, outcome, torn, recoveryVars, faults>>

\* The agent is restarted on the candidate, and again once it is committed.
RestartAgent ==
  /\ \/ worker = "start" /\ worker' = IF HasControl THEN "verify" ELSE "await"
     \/ worker = "reconnect" /\ worker' = "confirm"
  /\ Started
  /\ UNCHANGED <<setup, hostVars, txnVars, restarting, remoteVars, outcome, torn, recoveryVars,
                 faults>>

\* What the worker waits for.
Observe ==
  /\ \/ worker = "await" /\ marker /\ worker' = "finish"
     \/ worker = "verify" /\ remote \in {"verified", "completed"} /\ worker' = "commit"
     \/ /\ worker = "confirm" /\ agent \in {"previous", "candidate"} /\ marker
        /\ remote = "completed" /\ heard
        /\ worker' = "finish"
  /\ UNCHANGED <<setup, hostVars, txnVars, agentVars, remoteVars, outcome, torn, recoveryVars,
                 faults>>

Commit ==
  /\ worker = "commit" /\ remote = "verified" /\ window
  /\ remote' = "completed" /\ heard' = FALSE
  /\ worker' = "reconnect"
  /\ UNCHANGED <<setup, hostVars, txnVars, agentVars, window, outcome, torn, recoveryVars, faults>>

Finish ==
  /\ worker = "finish"
  /\ files' = files \cup {"committed"}
  /\ worker' = "unlink"
  /\ UNCHANGED <<setup, hostVars, link, agentVars, remoteVars, outcome, torn, recoveryVars, faults>>

WorkerUnlinks ==
  /\ worker = "unlink"
  /\ link' = FALSE /\ files' = {}
  /\ worker' = "gone"
  /\ UNCHANGED <<setup, hostVars, agentVars, remoteVars, outcome, torn, recoveryVars, faults>>

BeforeCutover == {"exchange", "save"}
AfterCutover == DOMAIN After \cup {"record", "start", "await", "verify", "commit", "reconnect",
                                   "confirm", "finish"}

\* A command fails, a wait times out, a reply is lost, a signal comes: on_exit.
Fail ==
  /\ \/ worker \in BeforeCutover /\ worker' = "cancel" /\ UNCHANGED outcome
     \/ /\ worker \in AfterCutover /\ worker' = "undo"
        /\ outcome' = [outcome EXCEPT !.local = "failed"]
  /\ UNCHANGED <<setup, hostVars, txnVars, agentVars, remoteVars, torn, recoveryVars, faults>>

\* The parts that are not as wanted, by their place in the order; the first of them.
Wrong(wanted) == {i \in 1..Len(Order) : installed[Order[i]] # wanted[Order[i]]}
FirstWrong(wanted) == Order[CHOOSE i \in Wrong(wanted) : \A j \in Wrong(wanted) : i <= j]

\* It is put right.
Put(wanted) == installed' = [installed EXCEPT ![FirstWrong(wanted)] = wanted[FirstWrong(wanted)]]

\* restore_previous(): one part after the other,
UndoPart ==
  /\ worker = "undo" /\ Wrong(Previous) # {}
  /\ Put(Previous)
  /\ UNCHANGED <<setup, units, enabled, txnVars, agentVars, remoteVars, workerVars, recoveryVars,
                 faults>>

\* Mutant: of a first installation everything is removed at once.
UndoAgentAndUnits ==
  /\ worker = "undo" /\ Wrong(Previous) = {}
  /\ \/ setup.active /\ Started /\ UNCHANGED <<units, enabled>>
     \/ /\ ~setup.active /\ Stopped
        /\ enabled' = (enabled /\ setup.mode # "initial")
        /\ units' = (units /\ setup.mode # "initial")
  /\ worker' = "select"
  /\ UNCHANGED <<setup, installed, txnVars, restarting, remoteVars, outcome, torn,
                 recoveryVars, faults>>

\* then the agent as it was.
UndoAgent ==
  /\ worker = "undo" /\ Wrong(Previous) = {}
  /\ \/ setup.active /\ Started /\ UNCHANGED enabled
     \/ ~setup.active /\ Stopped /\ enabled' = (enabled /\ setup.mode # "initial")
  /\ worker' = "select"
  /\ UNCHANGED <<setup, installed, units, txnVars, restarting, remoteVars, outcome, torn,
                 recoveryVars, faults>>

\* The runtime or the policy cannot be restored, or the agent not be restarted.
UndoFails ==
  /\ worker = "undo"
  /\ Wrong(Previous) # {} => FirstWrong(Previous) \in {"runtime", "policy"}
  /\ worker' = "cancel" /\ torn' = TRUE
  /\ UNCHANGED <<setup, hostVars, txnVars, agentVars, remoteVars, outcome, recoveryVars, faults>>

SelectPrevious ==
  /\ worker = "select"
  /\ files' = files \cup {"previous-selected"}
  /\ outcome' = [outcome EXCEPT !.local = "succeeded"]
  /\ worker' = "cancel"
  /\ UNCHANGED <<setup, hostVars, link, agentVars, remoteVars, torn, recoveryVars, faults>>

AfterCancel ==
  IF "failed" \in {outcome'.control, outcome'.local} THEN "gone"
  ELSE IF outcome'.local = "succeeded" THEN "remove" ELSE "unlink"

\* Mutant: a rollback without an answer is taken for done.
CancelUnchecked ==
  /\ worker = "cancel"
  /\ \/ ~HasControl /\ UNCHANGED <<outcome, remoteVars>>
     \/ HasControl /\ UNCHANGED remoteVars /\ outcome' = [outcome EXCEPT !.control = "succeeded"]
     \/ /\ HasControl /\ RolledBack
        /\ outcome' = [outcome EXCEPT !.control = "succeeded"]
  /\ worker' = AfterCancel
  /\ UNCHANGED <<setup, hostVars, txnVars, agentVars, torn, recoveryVars, faults>>

\* rollback_control_plane(): nothing to do; no answer, with or without effect; done.
\* Unless all went well the transaction stays for the recovery.
CancelRemote ==
  /\ worker = "cancel"
  /\ \/ ~HasControl /\ UNCHANGED <<outcome, remoteVars>>
     \/ /\ HasControl
        /\ RolledBack \/ UNCHANGED remoteVars
        /\ outcome' = [outcome EXCEPT !.control = "failed"]
     \/ /\ HasControl /\ RolledBack
        /\ outcome' = [outcome EXCEPT !.control = "succeeded"]
  /\ worker' = AfterCancel
  /\ UNCHANGED <<setup, hostVars, txnVars, agentVars, torn, recoveryVars, faults>>

\* remove_initial_candidate()
RemoveInitial ==
  /\ worker = "remove"
  /\ \/ setup.mode = "initial" /\ units' = FALSE /\ enabled' = FALSE /\ Stopped
     \/ setup.mode # "initial" /\ UNCHANGED <<units, enabled, agent, connected, marker>>
  /\ worker' = "rejoin"
  /\ UNCHANGED <<setup, installed, txnVars, restarting, remoteVars, outcome, torn, recoveryVars,
                 faults>>

\* wait_for_restored_connection()
Rejoin ==
  /\ worker = "rejoin"
  /\ \/ /\ setup.active => marker /\ (HasControl => remote = "cancelled" /\ heard)
        /\ worker' = "unlink"
     \/ setup.active /\ worker' = "gone"
  /\ UNCHANGED <<setup, hostVars, txnVars, agentVars, remoteVars, outcome, torn, recoveryVars,
                 faults>>
-----------------------------------------------------------------------------
(* acornops-agentv-install-recover: at boot, by hand, and again while it fails. *)

Exits == recovery' = "idle"

\* restore_local() compares the release it goes back to with the one recorded for
\* the candidate, once that is recorded, and not with the one installed.
ReleaseChanges == "candidate" \in files /\ "release" \in setup.differs /\ setup.mode # "initial"

RecoveryStart ==
  /\ recovery = "idle" /\ worker = "gone" /\ link /\ units
  /\ recovery' = IF "committed" \in files THEN "unlink"
                 ELSE IF HasControl THEN "status" ELSE "local"
  /\ seen' = [status |-> "none", heard |-> FALSE]
  /\ changed' = ReleaseChanges
  /\ UNCHANGED <<setup, hostVars, txnVars, agentVars, remoteVars, workerVars, faults>>

AfterStatus ==
  IF remote \in {"cancelled", "expired"} THEN "local"
  ELSE IF remote \in Pending \/ (remote = "completed" /\ "previous-selected" \in files)
       THEN "rollback" ELSE "judge"

ReadStatus ==
  /\ recovery = "status"
  /\ seen' = [status |-> remote, heard |-> heard]
  /\ recovery' = AfterStatus
  /\ UNCHANGED <<setup, hostVars, txnVars, agentVars, remoteVars, workerVars, changed, faults>>

\* The control plane cannot be reached, or does not answer the rollback, which may
\* have taken effect: nothing is changed on the host.
NoAnswer ==
  /\ recovery \in {"status", "rollback"} /\ Exits
  /\ (recovery = "rollback" /\ RolledBack) \/ UNCHANGED remoteVars
  /\ UNCHANGED <<setup, hostVars, txnVars, agentVars, workerVars, seen, changed, faults>>

\* Mutant: the previous installation is restored even if the rollback is refused.
AnswerAnyway ==
  /\ recovery = "rollback" /\ recovery' = "local"
  /\ RolledBack \/ (~window /\ UNCHANGED remoteVars)
  /\ UNCHANGED <<setup, hostVars, txnVars, agentVars, workerVars, seen, changed, faults>>

\* Rolled back; or refused, which for a committed candidate means that it has to stay.
Answer ==
  /\ recovery = "rollback"
  /\ \/ RolledBack /\ recovery' = "local"
     \/ /\ ~window /\ UNCHANGED remoteVars
        /\ recovery' = IF seen.status = "completed" THEN "reinstall" ELSE "idle"
  /\ UNCHANGED <<setup, hostVars, txnVars, agentVars, workerVars, seen, changed, faults>>

\* A committed candidate is kept once it has authenticated.
Judge ==
  /\ recovery = "judge"
  /\ \/ marker /\ seen.heard /\ files' = files \cup {"committed"} /\ recovery' = "unlink"
     \/ ~(marker /\ seen.heard) /\ Exits /\ UNCHANGED files
  /\ UNCHANGED <<setup, hostVars, link, agentVars, remoteVars, workerVars, seen, changed, faults>>

\* restore_local(): one part after the other,
RestorePart ==
  /\ recovery = "local" /\ Wrong(Previous) # {}
  /\ Put(Previous)
  /\ changed' = (changed \/ FirstWrong(Previous) # "policy")
  /\ UNCHANGED <<setup, units, enabled, txnVars, agentVars, remoteVars, workerVars, recovery,
                 seen, faults>>

\* The marker goes, and a restart is queued behind this unit.
Requeue == restarting' = TRUE /\ marker' = FALSE

\* then the agent: nothing of a first installation is left; one that had been active
\* is restarted if anything changed, and its connection is asked for.
RestoreAgent ==
  /\ recovery = "local" /\ Wrong(Previous) = {}
  /\ \/ /\ setup.mode = "initial"
        /\ units' = FALSE /\ enabled' = FALSE /\ Stopped /\ UNCHANGED restarting
     \/ /\ setup.mode # "initial" /\ UNCHANGED <<units, enabled, agent, connected>>
        /\ IF changed /\ setup.active /\ agent \in {"previous", "candidate"}
           THEN Requeue ELSE UNCHANGED <<marker, restarting>>
  /\ recovery' = IF ~setup.active THEN "unlink"
                 ELSE IF seen.status \in {"none", "cancelled", "expired"} THEN "require" ELSE "idle"
  /\ UNCHANGED <<setup, installed, txnVars, remoteVars, workerVars, seen, changed, faults>>

\* require_restored_connection()
Require ==
  /\ recovery = "require"
  /\ recovery' = IF marker /\ (HasControl => seen.heard) THEN "unlink" ELSE "idle"
  /\ UNCHANGED <<setup, hostVars, txnVars, agentVars, remoteVars, workerVars, seen, changed,
                 faults>>

\* restore_candidate(): one part after the other,
ReinstallPart ==
  /\ recovery = "reinstall" /\ Wrong(Candidate) # {}
  /\ \/ "candidate" \in files /\ Put(Candidate) /\ UNCHANGED recovery
     \/ "candidate" \notin files /\ Exits /\ UNCHANGED installed
  /\ UNCHANGED <<setup, units, enabled, txnVars, agentVars, remoteVars, workerVars, seen,
                 changed, faults>>

\* then the agent.
ReinstallAgent ==
  /\ recovery = "reinstall" /\ Wrong(Candidate) = {}
  /\ enabled' = TRUE /\ Requeue
  /\ recovery' = "deselect"
  /\ UNCHANGED <<setup, installed, units, txnVars, agent, connected, remoteVars, workerVars,
                 seen, changed, faults>>

\* Mutant: the choice of the previous installation is kept.
DeselectNothing ==
  /\ recovery = "deselect" /\ Exits
  /\ UNCHANGED <<setup, hostVars, txnVars, agentVars, remoteVars, workerVars, seen, changed,
                 faults>>

Deselect ==
  /\ recovery = "deselect" /\ Exits
  /\ files' = files \ {"previous-selected"}
  /\ UNCHANGED <<setup, hostVars, link, agentVars, remoteVars, workerVars, seen, changed, faults>>

RecoveryUnlinks ==
  /\ recovery = "unlink" /\ Exits
  /\ link' = FALSE /\ files' = {}
  /\ UNCHANGED <<setup, hostVars, agentVars, remoteVars, workerVars, seen, changed, faults>>

-----------------------------------------------------------------------------
(* Crashes. *)

\* SIGKILL, or the end of the script's own process: no trap runs.
Kill ==
  /\ faults < MaxFaults /\ faults' = faults + 1
  /\ \/ /\ worker \notin {"idle", "gone"}
        /\ worker' = "gone" /\ torn' = (torn \/ worker \in {"undo", "select"})
        /\ UNCHANGED recovery
     \/ recovery # "idle" /\ Exits /\ UNCHANGED <<worker, torn>>
  /\ UNCHANGED <<setup, hostVars, txnVars, agentVars, remoteVars, outcome, seen, changed>>

\* Power is lost and comes back: /run is empty, what is enabled starts.
Reboot ==
  /\ worker # "idle" /\ faults < MaxFaults /\ faults' = faults + 1
  /\ worker' = "gone" /\ torn' = (torn \/ worker \in {"undo", "select"})
  /\ Exits /\ restarting' = FALSE
  /\ IF enabled THEN Started ELSE Stopped
  /\ heard' \in {heard, FALSE}
  /\ UNCHANGED <<setup, hostVars, txnVars, remote, window, outcome, seen, changed>>

-----------------------------------------------------------------------------

WorkerStep ==
  \/ Publish \/ Exchange \/ SaveControl \/ InstallPart \/ RecordCandidate \/ RestartAgent
  \/ Observe \/ Commit \/ Finish \/ Fail
  \/ UndoPart \/ UndoAgent \/ UndoFails \/ SelectPrevious \/ CancelRemote \/ RemoveInitial
  \/ Rejoin \/ WorkerUnlinks

RecoveryStep ==
  \/ ReadStatus \/ NoAnswer \/ Answer \/ Judge \/ RestorePart \/ RestoreAgent \/ Require
  \/ ReinstallPart \/ ReinstallAgent \/ Deselect \/ RecoveryUnlinks

Next ==
  \/ WorkerStep \/ RecoveryStart \/ RecoveryStep
  \/ Connect \/ Provisional \/ Drop \/ AgentDies \/ AgentReturns \/ QueuedRestart
  \/ CloseWindow \/ Kill \/ Reboot

\* Scripts go on, systemd starts what it has to, the recovery is started again while
\* it fails; the control plane is reached again and again, and so is a session.
Fairness ==
  /\ WF_vars(WorkerStep) /\ WF_vars(RecoveryStart) /\ WF_vars(RecoveryStep)
  /\ SF_vars(ReadStatus) /\ SF_vars(Answer)
  /\ WF_vars(AgentReturns) /\ WF_vars(QueuedRestart) /\ SF_vars(Connect)
  /\ WF_vars(connected /\ ~Accepted(agent) /\ Drop)

Spec == Init /\ [][Next]_vars
FairSpec == Spec /\ Fairness

-----------------------------------------------------------------------------
(* Properties. *)

TypeOK ==
  /\ setup \in Setup
  /\ installed \in [Part -> Version]
  /\ {units, enabled, link, connected, marker, restarting, window, heard, torn, changed,
      seen.heard} \subseteq BOOLEAN
  /\ files \subseteq {"control", "candidate", "previous-selected", "committed"}
  /\ agent \in Version \cup {"stopped"}
  /\ {remote, seen.status} \subseteq
       {"none", "exchanged", "verified", "completed", "cancelled", "expired"}
  /\ worker \in BeforeCutover \cup AfterCutover \cup
       {"idle", "gone", "unlink", "undo", "select", "cancel", "remove", "rejoin"}
  /\ outcome \in [local : {"not-needed", "succeeded", "failed"},
                  control : {"not-needed", "succeeded", "failed"}]
  /\ recovery \in {"idle", "status", "rollback", "judge", "local", "require", "reinstall",
                   "deselect", "unlink"}
  /\ faults \in 0..MaxFaults

\* The transaction is over.
Settled == worker = "gone" /\ ~link

\* A host whose transaction is over holds the credential the control plane accepts;
\* one that was rolled back to nothing left nothing accepted behind.
HoldsAccepted == Settled => IF installed["env"] = "none" THEN remote # "completed"
                            ELSE Accepted(installed["env"])

\* The one case in which it may not: the worker was killed, or gave up, in the middle
\* of its rollback, and the candidate stays committed.
Abandoned == torn /\ remote = "completed"

\* It does, however the transaction was interrupted, and whoever finished it.
SettledIsAccepted == ~Abandoned => HoldsAccepted

\* Then, too, it holds all of the previous installation or all of the candidate, with
\* its units unless there was nothing.
SettledIsWhole ==
  Settled /\ ~Abandoned =>
    /\ installed \in {Previous, Candidate}
    /\ installed["env"] # "none" => units

\* Once committed, and until it is rolled back, the candidate is the only credential
\* that works: what it takes to bring it back must still be there.
OnlyCredentialRestorable == link /\ remote = "completed" => "candidate" \in files /\ units

\* The recovery touches the host only when the credential it is about to select is
\* the accepted one for good, whatever replies were lost and whenever the window closed.
DecidedBeforeTouched ==
  /\ recovery = "local" /\ HasControl => remote \in {"cancelled", "expired"}
  /\ recovery \in {"reinstall", "deselect"} => remote = "completed" /\ ~window

\* What the recovery cannot settle.
\* A restored release is taken for a change at every attempt, and the agent restarted.
Repeating == ReleaseChanges /\ setup.active /\ remote # "completed"
\* The candidate is committed, enough of it is gone that it cannot run, and the choice
\* of the previous installation has not been recorded.
Stranded == remote = "completed" /\ "previous-selected" \notin files /\ ~Accepted(Loads)
\* A first installation died before its recovery was installed, or after it was removed.
Orphaned == ~units
\* The parts were restored and the script killed before it restarted the agent, which
\* goes on with a credential that is no longer there; nothing has changed since.
Unrestarted ==
  /\ Wrong(Previous) = {} /\ agent = "candidate" /\ ~Accepted(agent)
  /\ ~restarting /\ ~changed
KnownGap == worker = "gone" /\ (Repeating \/ Stranded \/ Orphaned \/ Unrestarted)

\* An interrupted installation is settled, by the worker or by the recovery.
RecoverySettles == []<>~link

\* It is, whatever is interrupted, but for the gaps named above.
SettlesElsewhere == []<>(~link \/ KnownGap)

=============================================================================
