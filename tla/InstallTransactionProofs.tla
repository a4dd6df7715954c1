---------------------- MODULE InstallTransactionProofs -----------------------
(***************************************************************************)
(* Of the installation transaction, for any set of installations to begin    *)
(* with and any number of crashes: what is settled is settled right, and      *)
(* nothing is touched, or given up, before it has been decided.              *)
(***************************************************************************)
EXTENDS InstallTransaction, TLAPS

-----------------------------------------------------------------------------
(* The inductive invariant, in named parts. *)

\* The two ends of a transaction: the host is back where it was, under a credential
\* that the control plane did not replace; or it is all the candidate, under one that
\* it did.
Restored == installed = Previous /\ remote # "completed"
Kept == installed = Candidate /\ units /\ (setup.mode = "repair" \/ remote = "completed")

\* The worker and the recovery exclude each other, and the active link says when there
\* is a transaction.
Exclusion ==
  /\ recovery # "idle" => worker = "gone" /\ link
  /\ worker = "idle" => ~link
  /\ worker \notin {"idle", "gone"} => link
  /\ ~link => files = {}

\* Before the cutover nothing is installed, and nothing has failed; and the control
\* plane has not committed before it is asked to.
Beginning ==
  /\ worker \in {"idle", "exchange", "save"} =>
       installed = Previous /\ files = {} /\ outcome.local = "not-needed"
  /\ worker \in {"idle", "exchange"} => remote = "none"
  /\ worker \in DOMAIN After \cup {"save", "record", "start", "await", "verify", "commit"} =>
       remote # "completed"

\* Which transactions the control plane has a part in, and that the host knows it in
\* time.
Controlled ==
  /\ setup.mode = "repair" =>
       remote = "none" /\ ~HasControl /\ worker \notin {"exchange", "save"}
  /\ HasControl \/ worker = "save" => remote # "none"
  /\ worker \in AfterCutover \cup {"undo", "select"} /\ ~HasControl => setup.mode = "repair"
  /\ link /\ remote = "completed" => HasControl

\* Where the installation stands, with these parts of the candidate in place.
Partial(parts) == [p \in Part |-> IF p \in parts THEN Candidate[p] ELSE Previous[p]]

\* The parts in place when the worker is about to do a step.
Done == [runtime |-> {}, release |-> {"runtime"}, units |-> {"runtime", "release"},
         env |-> {"runtime", "release"}, policy |-> {"runtime", "release", "env"},
         record |-> Part]

\* The worker's way through the cutover, to the end of what it waits for.
Cutover ==
  /\ worker \in DOMAIN Done => installed = Partial(Done[worker])
  /\ worker \in {"env", "policy", "record"} \/ setup.mode # "initial" => units
  /\ worker \in {"start", "await", "verify", "commit", "reconnect", "confirm", "finish"} =>
       installed = Candidate /\ "candidate" \in files /\ units
  /\ worker = "await" => setup.mode = "repair"
  /\ worker = "finish" => setup.mode = "repair" \/ remote = "completed"

\* Its way back.
WayBack ==
  /\ worker \in {"undo", "select"} => outcome.local = "failed"
  /\ worker = "select" => installed = Previous
  /\ worker = "cancel" =>
       \/ outcome.local = "not-needed" /\ installed = Previous /\ ~HasControl
       \/ outcome.local = "succeeded" /\ installed = Previous /\ "previous-selected" \in files
       \/ outcome.local = "failed" /\ torn
  /\ worker \in {"remove", "rejoin"} => Restored

\* The recovery's.
Recovering ==
  /\ recovery = "status" => HasControl
  /\ recovery = "rollback" /\ seen.status = "completed" =>
       remote = "completed" /\ "previous-selected" \in files
  /\ recovery = "judge" => remote = "completed" /\ "previous-selected" \notin files
  /\ recovery \in {"reinstall", "deselect"} => "previous-selected" \in files
  /\ recovery = "deselect" => installed = Candidate
  /\ recovery = "require" => Restored

\* What is said to be committed is the candidate, and is not worked on any more.
Committed ==
  "committed" \in files =>
    worker \in {"unlink", "gone"} /\ recovery \in {"idle", "unlink"} /\ (~Abandoned => Kept)

\* Once the control plane has committed, and no rollback is under way or recorded, the
\* host is the candidate.
Chosen ==
  /\ link /\ remote = "completed" /\ "previous-selected" \notin files /\ ~torn
  /\ worker \notin {"undo", "select"}
  => installed = Candidate

\* The transaction is given up at one of its ends only.
Ended ==
  /\ worker = "unlink" \/ recovery = "unlink" \/ Settled
  /\ ~Abandoned
  => Restored \/ Kept

IInv ==
  /\ TypeOK
  /\ Exclusion /\ Beginning /\ Controlled /\ Cutover /\ WayBack /\ Recovering /\ Committed
  /\ Chosen /\ Ended
  /\ OnlyCredentialRestorable /\ DecidedBeforeTouched

-----------------------------------------------------------------------------
(* Facts the steps need. *)

\* The places of the worker, one by one.
LEMMA Places ==
  /\ DOMAIN After = {"runtime", "release", "units", "env", "policy"}
  /\ AfterCutover = {"runtime", "release", "units", "env", "policy", "record", "start", "await",
                     "verify", "commit", "reconnect", "confirm", "finish"}
  /\ DOMAIN Done = {"runtime", "release", "units", "env", "policy", "record"}
BY DEF After, AfterCutover, Done

\* What the host was and what it shall be are versions of every part.
LEMMA Versions ==
  /\ Previous \in [Part -> Version]
  /\ Candidate \in [Part -> Version]
BY DEF Previous, Candidate, Version

\* They do not change.
LEMMA Frozen == ASSUME setup' = setup PROVE Previous' = Previous /\ Candidate' = Candidate
BY DEF Previous, Candidate

\* The first part changes the previous installation, the last completes the candidate.
LEMMA Progress ==
  /\ Partial(Done["runtime"]) = Previous
  /\ Partial(Done["record"]) = Candidate
  /\ Done["env"] = Done["units"]
  /\ \A p \in Part : [Partial(Done[p]) EXCEPT ![p] = Candidate[p]] = Partial(Done[After[p]])
<1>1. Part = {"runtime", "release", "env", "policy"}
  BY DEF Part
<1>2. Partial(Done["runtime"]) = Previous
  BY DEF Partial, Done, Previous
<1>3. Partial(Done["record"]) = Candidate
  BY DEF Partial, Done, Candidate
<1>4. ASSUME NEW p \in Part PROVE Done[After[p]] = Done[p] \cup {p} /\ p \notin Done[p]
  BY <1>1, <1>4 DEF Done, After
<1>5. ASSUME NEW p \in Part
      PROVE [Partial(Done[p]) EXCEPT ![p] = Candidate[p]] = Partial(Done[After[p]])
  BY <1>4, <1>5 DEF Partial
<1> QED BY <1>2, <1>3, <1>5 DEF Done

\* A start of the agent gives it a version or nothing.
LEMMA LoadsTyped == ASSUME TypeOK PROVE Loads \in Version
BY DEF TypeOK, Loads, Version, Part

\* Nothing wrong is all as wanted; what is put right is the first part that is wrong.
LEMMA PutRight ==
  ASSUME TypeOK, NEW wanted \in [Part -> Version]
  PROVE  /\ Wrong(wanted) = {} => installed = wanted
         /\ Wrong(wanted) # {} => FirstWrong(wanted) \in Part
         /\ Wrong(wanted) # {} /\ Put(wanted) => installed' \in [Part -> Version]
<1> DEFINE First == CHOOSE i \in Wrong(wanted) : \A j \in Wrong(wanted) : i <= j
<1>1. Len(Order) = 4 /\ Wrong(wanted) \subseteq 1..4
  BY DEF Order, Wrong
<1>2. ASSUME Wrong(wanted) = {} PROVE installed = wanted
  <2>1. \A i \in 1..4 : installed[Order[i]] = wanted[Order[i]]
    BY <1>1, <1>2 DEF Wrong
  <2>2. \A p \in Part : \E i \in 1..4 : Order[i] = p
    BY DEF Part, Order
  <2> QED BY <2>1, <2>2 DEF TypeOK
<1>3. ASSUME Wrong(wanted) # {} PROVE FirstWrong(wanted) \in Part
  <2>1. \E i \in Wrong(wanted) : \A j \in Wrong(wanted) : i <= j
    <3>1. \/ 1 \in Wrong(wanted)
          \/ 1 \notin Wrong(wanted) /\ 2 \in Wrong(wanted)
          \/ 1 \notin Wrong(wanted) /\ 2 \notin Wrong(wanted) /\ 3 \in Wrong(wanted)
          \/ Wrong(wanted) = {4}
      BY <1>1, <1>3
    <3> QED BY <1>1, <3>1
  <2>2. First \in 1..4
    BY <1>1, <2>1
  <2>3. \A i \in 1..4 : Order[i] \in Part
    BY DEF Order, Part
  <2> QED BY <2>2, <2>3 DEF FirstWrong
<1> QED BY <1>2, <1>3 DEF Put, TypeOK

\* Of a step of the agent, or of the control plane, nothing shows in the transaction.
LEMMA AgentStep ==
  ASSUME IInv, TypeOK',
         UNCHANGED <<setup, hostVars, txnVars, remote, window, workerVars, recovery, seen>>
  PROVE  IInv'
<1> USE DEF IInv, hostVars, txnVars, workerVars
<1>0. Previous' = Previous /\ Candidate' = Candidate
  BY Frozen
<1>1. (Exclusion /\ Beginning /\ Controlled)'
  BY <1>0 DEF Exclusion, Beginning, Controlled, HasControl
<1>2. (Cutover /\ WayBack)'
  BY <1>0 DEF Cutover, WayBack, HasControl, Restored, Partial
<1>3. (Recovering /\ DecidedBeforeTouched)'
  BY <1>0 DEF Recovering, DecidedBeforeTouched, HasControl, Restored
<1>4. (Committed /\ Chosen /\ Ended /\ OnlyCredentialRestorable)'
  BY <1>0 DEF Committed, Chosen, Ended, OnlyCredentialRestorable, Settled, Restored, Kept, Abandoned
<1> QED BY <1>1, <1>2, <1>3, <1>4

\* The link is made before anything else is done.
LEMMA PublishInv == ASSUME IInv, Publish PROVE IInv'
<1> USE DEF IInv, Publish, hostVars, txnVars, agentVars, remoteVars, workerVars, recoveryVars
<1>0. Previous' = Previous /\ Candidate' = Candidate
  BY Frozen
<1>1. TypeOK'
  BY Places DEF TypeOK, Pending, BeforeCutover
<1>2. (Exclusion /\ Beginning /\ Controlled)'
  BY <1>0, Places DEF Exclusion, Beginning, Controlled, HasControl, BeforeCutover, Pending
<1>3. (Cutover /\ WayBack)'
  BY <1>0, Places, Progress
  DEF Exclusion, Beginning, Controlled, Cutover, WayBack, HasControl, Restored, Partial,
      BeforeCutover
<1>4. (Recovering /\ DecidedBeforeTouched)'
  BY <1>0
  DEF Exclusion, Beginning, Controlled, Recovering, DecidedBeforeTouched, HasControl, Restored,
      Pending
<1>5. (Committed /\ Chosen /\ Ended /\ OnlyCredentialRestorable)'
  BY <1>0, Places, Progress
  DEF Exclusion, Beginning, Controlled, Cutover, WayBack, Recovering, DecidedBeforeTouched,
      Committed, Chosen, Ended, OnlyCredentialRestorable, HasControl, Settled, Restored, Kept,
      Abandoned, BeforeCutover, Pending
<1> QED BY <1>1, <1>2, <1>3, <1>4, <1>5

\* The credential is exchanged before the cutover.
LEMMA ExchangeInv == ASSUME IInv, Exchange PROVE IInv'
<1> USE DEF IInv, Exchange, hostVars, txnVars, agentVars, remoteVars, workerVars, recoveryVars
<1>0. Previous' = Previous /\ Candidate' = Candidate
  BY Frozen
<1>1. TypeOK'
  BY Places DEF TypeOK, Pending, BeforeCutover
<1>2. (Exclusion /\ Beginning /\ Controlled)'
  BY <1>0, Places DEF Exclusion, Beginning, Controlled, HasControl, BeforeCutover, Pending
<1>3. (Cutover /\ WayBack)'
  BY <1>0, Places
  DEF Exclusion, Beginning, Controlled, Cutover, WayBack, HasControl, Restored, Partial,
      BeforeCutover
<1>4. (Recovering /\ DecidedBeforeTouched)'
  BY <1>0
  DEF Exclusion, Beginning, Controlled, Recovering, DecidedBeforeTouched, HasControl, Restored,
      Pending
<1>5. (Committed /\ Chosen /\ Ended /\ OnlyCredentialRestorable)'
  BY <1>0, Places
  DEF Exclusion, Beginning, Controlled, Cutover, WayBack, Recovering, DecidedBeforeTouched,
      Committed, Chosen, Ended, OnlyCredentialRestorable, HasControl, Settled, Restored, Kept,
      Abandoned, BeforeCutover, Pending
<1> QED BY <1>1, <1>2, <1>3, <1>4, <1>5

\* From here on the recovery can ask the control plane.
LEMMA SaveControlInv == ASSUME IInv, SaveControl PROVE IInv'
<1> USE DEF IInv, SaveControl, hostVars, txnVars, agentVars, remoteVars, workerVars,
            recoveryVars
<1>0. Previous' = Previous /\ Candidate' = Candidate
  BY Frozen
<1>1. TypeOK'
  BY Places DEF TypeOK, Pending, BeforeCutover
<1>2. (Exclusion /\ Beginning /\ Controlled)'
  BY <1>0, Places DEF Exclusion, Beginning, Controlled, HasControl, BeforeCutover, Pending
<1>3. (Cutover /\ WayBack)'
  BY <1>0, Places, Progress
  DEF Exclusion, Beginning, Controlled, Cutover, WayBack, HasControl, Restored, Partial,
      BeforeCutover
<1>4. (Recovering /\ DecidedBeforeTouched)'
  BY <1>0
  DEF Exclusion, Beginning, Controlled, Recovering, DecidedBeforeTouched, HasControl, Restored,
      Pending
<1>5. (Committed /\ Chosen /\ Ended /\ OnlyCredentialRestorable)'
  BY <1>0, Places, Progress
  DEF Exclusion, Beginning, Controlled, Cutover, WayBack, Recovering, DecidedBeforeTouched,
      Committed, Chosen, Ended, OnlyCredentialRestorable, HasControl, Settled, Restored, Kept,
      Abandoned, BeforeCutover, Pending
<1> QED BY <1>1, <1>2, <1>3, <1>4, <1>5

\* One part after the other becomes the candidate.
LEMMA InstallPartInv == ASSUME IInv, InstallPart PROVE IInv'
<1> USE DEF IInv, txnVars, agentVars, remoteVars, recoveryVars
<1>0. Previous' = Previous /\ Candidate' = Candidate
  BY Frozen DEF InstallPart
<1>1. /\ worker \in {"runtime", "release", "units", "env", "policy"}
      /\ worker' \in {"release", "units", "env", "policy", "record"}
      /\ worker' = After[worker]
      /\ worker' = "env" => worker = "units"
      /\ UNCHANGED <<setup, txnVars, agentVars, remoteVars, outcome, torn, recoveryVars, faults>>
  BY Places DEF InstallPart, After
<1>3. /\ units' \in BOOLEAN /\ enabled' \in BOOLEAN
      /\ units = TRUE => units' = TRUE
      /\ worker = "units" => units' = TRUE
  <2>1. CASE worker \in Part /\ UNCHANGED <<units, enabled>>
    BY <2>1 DEF TypeOK, Part
  <2>2. CASE units' = TRUE /\ enabled' = TRUE
    BY <2>2
  <2> QED BY <2>1, <2>2 DEF InstallPart
<1>4. installed' = Partial(Done[worker'])
  <2>1. installed = Partial(Done[worker])
    BY <1>1, Places DEF Cutover
  <2>2. CASE worker \in Part
    BY <1>1, <2>1, <2>2, Progress DEF InstallPart, Part
  <2>3. CASE worker = "units"
    BY <1>1, <2>1, <2>3, Progress DEF InstallPart, Part, After
  <2> QED BY <1>1, <2>2, <2>3 DEF Part
<1>5. TypeOK'
  <2>1. installed' \in [Part -> Version]
    BY Versions DEF TypeOK, InstallPart
  <2> QED BY <1>1, <1>3, <2>1, Places DEF TypeOK, InstallPart
<1>6. (Exclusion /\ Beginning /\ Controlled)'
  BY <1>0, <1>1, Places DEF Exclusion, Beginning, Controlled, HasControl
<1>7. (Cutover /\ WayBack)'
  <2>1. worker' \in {"env", "policy", "record"} => units'
    BY <1>1, <1>3, Places DEF Cutover, After
  <2>2. setup.mode # "initial" => units'
    BY <1>3 DEF Cutover
  <2> QED BY <1>0, <1>1, <1>4, <2>1, <2>2 DEF Cutover, WayBack, Partial
<1>8. (Recovering /\ DecidedBeforeTouched)'
  BY <1>0, <1>1 DEF Exclusion, Recovering, DecidedBeforeTouched, HasControl
<1>9. (Committed /\ Chosen /\ Ended /\ OnlyCredentialRestorable)'
  <2>1. remote # "completed"
    BY <1>1, Places DEF Beginning
  <2> QED
    BY <1>0, <1>1, <1>3, <2>1
    DEF Exclusion, Committed, Chosen, Ended, OnlyCredentialRestorable, Settled
<1> QED BY <1>5, <1>6, <1>7, <1>8, <1>9

\* The candidate is recorded whole.
LEMMA RecordCandidateInv == ASSUME IInv, RecordCandidate PROVE IInv'
<1> USE DEF IInv, RecordCandidate, hostVars, txnVars, agentVars, remoteVars, workerVars,
            recoveryVars
<1>0. Previous' = Previous /\ Candidate' = Candidate
  BY Frozen
<1>1. TypeOK'
  BY Places DEF TypeOK, Pending, BeforeCutover
<1>2. (Exclusion /\ Beginning /\ Controlled)'
  BY <1>0, Places DEF Exclusion, Beginning, Controlled, HasControl, BeforeCutover, Pending
<1>3. (Cutover /\ WayBack)'
  BY <1>0, Places, Progress
  DEF Exclusion, Beginning, Controlled, Cutover, WayBack, HasControl, Restored, Partial,
      BeforeCutover
<1>4. (Recovering /\ DecidedBeforeTouched)'
  BY <1>0
  DEF Exclusion, Beginning, Controlled, Recovering, DecidedBeforeTouched, HasControl, Restored,
      Pending
<1>5. (Committed /\ Chosen /\ Ended /\ OnlyCredentialRestorable)'
  BY <1>0, Places, Progress
  DEF Exclusion, Beginning, Controlled, Cutover, WayBack, Recovering, DecidedBeforeTouched,
      Committed, Chosen, Ended, OnlyCredentialRestorable, HasControl, Settled, Restored, Kept,
      Abandoned, BeforeCutover, Pending
<1> QED BY <1>1, <1>2, <1>3, <1>4, <1>5

\* A restart changes nothing but the agent, and where the worker waits.
LEMMA RestartAgentInv == ASSUME IInv, RestartAgent PROVE IInv'
<1> USE DEF IInv, RestartAgent, Started, Loads, hostVars, txnVars, agentVars, remoteVars,
            workerVars, recoveryVars
<1>0. Previous' = Previous /\ Candidate' = Candidate
  BY Frozen
<1>1. TypeOK'
  BY LoadsTyped, Places DEF TypeOK, Pending, BeforeCutover
<1>2. (Exclusion /\ Beginning /\ Controlled)'
  BY <1>0, Places DEF Exclusion, Beginning, Controlled, HasControl, BeforeCutover, Pending
<1>3. (Cutover /\ WayBack)'
  BY <1>0, Places
  DEF Exclusion, Beginning, Controlled, Cutover, WayBack, HasControl, Restored, Partial,
      BeforeCutover
<1>4. (Recovering /\ DecidedBeforeTouched)'
  BY <1>0
  DEF Exclusion, Beginning, Controlled, Recovering, DecidedBeforeTouched, HasControl, Restored,
      Pending
<1>5. (Committed /\ Chosen /\ Ended /\ OnlyCredentialRestorable)'
  BY <1>0, Places
  DEF Exclusion, Beginning, Controlled, Cutover, WayBack, Recovering, DecidedBeforeTouched,
      Committed, Chosen, Ended, OnlyCredentialRestorable, HasControl, Settled, Restored, Kept,
      Abandoned, BeforeCutover, Pending
<1> QED BY <1>1, <1>2, <1>3, <1>4, <1>5

\* What the worker sees before it goes on.
LEMMA ObserveInv == ASSUME IInv, Observe PROVE IInv'
<1> USE DEF IInv, Observe, hostVars, txnVars, agentVars, remoteVars, workerVars, recoveryVars
<1>0. Previous' = Previous /\ Candidate' = Candidate
  BY Frozen
<1>1. TypeOK'
  BY Places DEF TypeOK, Pending, BeforeCutover
<1>2. (Exclusion /\ Beginning /\ Controlled)'
  BY <1>0, Places DEF Exclusion, Beginning, Controlled, HasControl, BeforeCutover, Pending
<1>3. (Cutover /\ WayBack)'
  BY <1>0, Places
  DEF Exclusion, Beginning, Controlled, Cutover, WayBack, HasControl, Restored, Partial,
      BeforeCutover
<1>4. (Recovering /\ DecidedBeforeTouched)'
  BY <1>0
  DEF Exclusion, Beginning, Controlled, Recovering, DecidedBeforeTouched, HasControl, Restored,
      Pending
<1>5. (Committed /\ Chosen /\ Ended /\ OnlyCredentialRestorable)'
  BY <1>0, Places
  DEF Exclusion, Beginning, Controlled, Cutover, WayBack, Recovering, DecidedBeforeTouched,
      Committed, Chosen, Ended, OnlyCredentialRestorable, HasControl, Settled, Restored, Kept,
      Abandoned, BeforeCutover, Pending
<1> QED BY <1>1, <1>2, <1>3, <1>4, <1>5

\* The commit comes after the candidate is installed and recorded.
LEMMA CommitInv == ASSUME IInv, Commit PROVE IInv'
<1> USE DEF IInv, Commit, hostVars, txnVars, agentVars, remoteVars, workerVars, recoveryVars
<1>0. Previous' = Previous /\ Candidate' = Candidate
  BY Frozen
<1>1. TypeOK'
  BY Places DEF TypeOK, Pending, BeforeCutover
<1>2. (Exclusion /\ Beginning /\ Controlled)'
  BY <1>0, Places DEF Exclusion, Beginning, Controlled, HasControl, BeforeCutover, Pending
<1>3. (Cutover /\ WayBack)'
  BY <1>0, Places
  DEF Exclusion, Beginning, Controlled, Cutover, WayBack, HasControl, Restored, Partial,
      BeforeCutover
<1>4. (Recovering /\ DecidedBeforeTouched)'
  BY <1>0
  DEF Exclusion, Beginning, Controlled, Recovering, DecidedBeforeTouched, HasControl, Restored,
      Pending
<1>5. (Committed /\ Chosen /\ Ended /\ OnlyCredentialRestorable)'
  BY <1>0, Places
  DEF Exclusion, Beginning, Controlled, Cutover, WayBack, Recovering, DecidedBeforeTouched,
      Committed, Chosen, Ended, OnlyCredentialRestorable, HasControl, Settled, Restored, Kept,
      Abandoned, BeforeCutover, Pending
<1> QED BY <1>1, <1>2, <1>3, <1>4, <1>5

\* What is recorded as committed is the candidate.
LEMMA FinishInv == ASSUME IInv, Finish PROVE IInv'
<1> USE DEF IInv, Finish, hostVars, txnVars, agentVars, remoteVars, workerVars, recoveryVars
<1>0. Previous' = Previous /\ Candidate' = Candidate
  BY Frozen
<1>1. TypeOK'
  BY Places DEF TypeOK, Pending, BeforeCutover
<1>2. (Exclusion /\ Beginning /\ Controlled)'
  BY <1>0, Places DEF Exclusion, Beginning, Controlled, HasControl, BeforeCutover, Pending
<1>3. (Cutover /\ WayBack)'
  BY <1>0, Places
  DEF Exclusion, Beginning, Controlled, Cutover, WayBack, HasControl, Restored, Partial,
      BeforeCutover
<1>4. (Recovering /\ DecidedBeforeTouched)'
  BY <1>0
  DEF Exclusion, Beginning, Controlled, Recovering, DecidedBeforeTouched, HasControl, Restored,
      Pending
<1>5. (Committed /\ Chosen /\ Ended /\ OnlyCredentialRestorable)'
  BY <1>0, Places
  DEF Exclusion, Beginning, Controlled, Cutover, WayBack, Recovering, DecidedBeforeTouched,
      Committed, Chosen, Ended, OnlyCredentialRestorable, HasControl, Settled, Restored, Kept,
      Abandoned, BeforeCutover, Pending
<1> QED BY <1>1, <1>2, <1>3, <1>4, <1>5

\* A failure before the cutover leaves nothing to undo.
LEMMA FailInv == ASSUME IInv, Fail PROVE IInv'
<1> USE DEF IInv, Fail, hostVars, txnVars, agentVars, remoteVars, workerVars, recoveryVars
<1>0. Previous' = Previous /\ Candidate' = Candidate
  BY Frozen
<1>1. TypeOK'
  BY Places DEF TypeOK, Pending, BeforeCutover
<1>2. (Exclusion /\ Beginning /\ Controlled)'
  BY <1>0, Places DEF Exclusion, Beginning, Controlled, HasControl, BeforeCutover, Pending
<1>3. (Cutover /\ WayBack)'
  BY <1>0, Places
  DEF TypeOK, Exclusion, Beginning, Controlled, Cutover, WayBack, HasControl, Restored, Partial,
      BeforeCutover
<1>4. (Recovering /\ DecidedBeforeTouched)'
  BY <1>0
  DEF Exclusion, Beginning, Controlled, Recovering, DecidedBeforeTouched, HasControl, Restored,
      Pending
<1>5. (Committed /\ Chosen /\ Ended /\ OnlyCredentialRestorable)'
  BY <1>0, Places
  DEF Exclusion, Beginning, Controlled, Cutover, WayBack, Recovering, DecidedBeforeTouched,
      Committed, Chosen, Ended, OnlyCredentialRestorable, HasControl, Settled, Restored, Kept,
      Abandoned, BeforeCutover, Pending
<1> QED BY <1>1, <1>2, <1>3, <1>4, <1>5

\* Parts are put back one by one.
LEMMA UndoPartInv == ASSUME IInv, UndoPart PROVE IInv'
<1> USE DEF IInv, UndoPart, hostVars, txnVars, agentVars, remoteVars, workerVars, recoveryVars
<1>0. Previous' = Previous /\ Candidate' = Candidate
  BY Frozen
<1>1. TypeOK'
  BY Versions, PutRight, Places DEF TypeOK, Pending, BeforeCutover
<1>2. (Exclusion /\ Beginning /\ Controlled)'
  BY <1>0, Places DEF Exclusion, Beginning, Controlled, HasControl, BeforeCutover, Pending
<1>3. (Cutover /\ WayBack)'
  BY <1>0, Places, Versions, PutRight
  DEF Exclusion, Beginning, Controlled, Cutover, WayBack, HasControl, Restored, Partial,
      BeforeCutover
<1>4. (Recovering /\ DecidedBeforeTouched)'
  BY <1>0, PutRight, Versions
  DEF Exclusion, Beginning, Controlled, Recovering, DecidedBeforeTouched, HasControl, Restored,
      Pending
<1>5. (Committed /\ Chosen /\ Ended /\ OnlyCredentialRestorable)'
  BY <1>0, Places, Versions, PutRight
  DEF Exclusion, Beginning, Controlled, Cutover, WayBack, Recovering, DecidedBeforeTouched,
      Committed, Chosen, Ended, OnlyCredentialRestorable, HasControl, Settled, Restored, Kept,
      Abandoned, BeforeCutover, Pending
<1> QED BY <1>1, <1>2, <1>3, <1>4, <1>5

\* The agent follows when all parts are back.
LEMMA UndoAgentInv == ASSUME IInv, UndoAgent PROVE IInv'
<1> USE DEF IInv, UndoAgent, Started, Stopped, Loads, hostVars, txnVars, agentVars, remoteVars,
            workerVars, recoveryVars
<1>0. Previous' = Previous /\ Candidate' = Candidate
  BY Frozen
<1>1. TypeOK'
  BY LoadsTyped, Versions, PutRight, Places DEF TypeOK, Pending, BeforeCutover
<1>2. (Exclusion /\ Beginning /\ Controlled)'
  BY <1>0, Places DEF Exclusion, Beginning, Controlled, HasControl, BeforeCutover, Pending
<1>3. (Cutover /\ WayBack)'
  BY <1>0, Places, Versions, PutRight
  DEF Exclusion, Beginning, Controlled, Cutover, WayBack, HasControl, Restored, Partial,
      BeforeCutover
<1>4. (Recovering /\ DecidedBeforeTouched)'
  BY <1>0, PutRight, Versions
  DEF Exclusion, Beginning, Controlled, Recovering, DecidedBeforeTouched, HasControl, Restored,
      Pending
<1>5. (Committed /\ Chosen /\ Ended /\ OnlyCredentialRestorable)'
  BY <1>0, Places, Versions, PutRight
  DEF Exclusion, Beginning, Controlled, Cutover, WayBack, Recovering, DecidedBeforeTouched,
      Committed, Chosen, Ended, OnlyCredentialRestorable, HasControl, Settled, Restored, Kept,
      Abandoned, BeforeCutover, Pending
<1> QED BY <1>1, <1>2, <1>3, <1>4, <1>5

\* A rollback that fails is remembered as torn.
LEMMA UndoFailsInv == ASSUME IInv, UndoFails PROVE IInv'
<1> USE DEF IInv, UndoFails, hostVars, txnVars, agentVars, remoteVars, workerVars, recoveryVars
<1>0. Previous' = Previous /\ Candidate' = Candidate
  BY Frozen
<1>1. TypeOK'
  BY Places DEF TypeOK, Pending, BeforeCutover
<1>2. (Exclusion /\ Beginning /\ Controlled)'
  BY <1>0, Places DEF Exclusion, Beginning, Controlled, HasControl, BeforeCutover, Pending
<1>3. (Cutover /\ WayBack)'
  BY <1>0, Places
  DEF Exclusion, Beginning, Controlled, Cutover, WayBack, HasControl, Restored, Partial,
      BeforeCutover
<1>4. (Recovering /\ DecidedBeforeTouched)'
  BY <1>0
  DEF Exclusion, Beginning, Controlled, Recovering, DecidedBeforeTouched, HasControl, Restored,
      Pending
<1>5. (Committed /\ Chosen /\ Ended /\ OnlyCredentialRestorable)'
  BY <1>0, Places
  DEF Exclusion, Beginning, Controlled, Cutover, WayBack, Recovering, DecidedBeforeTouched,
      Committed, Chosen, Ended, OnlyCredentialRestorable, HasControl, Settled, Restored, Kept,
      Abandoned, BeforeCutover, Pending
<1> QED BY <1>1, <1>2, <1>3, <1>4, <1>5

\* The choice of the previous installation is recorded when it is back.
LEMMA SelectPreviousInv == ASSUME IInv, SelectPrevious PROVE IInv'
<1> USE DEF IInv, SelectPrevious, hostVars, txnVars, agentVars, remoteVars, workerVars,
            recoveryVars
<1>0. Previous' = Previous /\ Candidate' = Candidate
  BY Frozen
<1>1. TypeOK'
  BY Places DEF TypeOK, Pending, BeforeCutover
<1>2. (Exclusion /\ Beginning /\ Controlled)'
  BY <1>0, Places DEF Exclusion, Beginning, Controlled, HasControl, BeforeCutover, Pending
<1>3. (Cutover /\ WayBack)'
  BY <1>0, Places
  DEF Exclusion, Beginning, Controlled, Cutover, WayBack, HasControl, Restored, Partial,
      BeforeCutover
<1>4. (Recovering /\ DecidedBeforeTouched)'
  BY <1>0
  DEF Exclusion, Beginning, Controlled, Recovering, DecidedBeforeTouched, HasControl, Restored,
      Pending
<1>5. (Committed /\ Chosen /\ Ended /\ OnlyCredentialRestorable)'
  BY <1>0, Places
  DEF Exclusion, Beginning, Controlled, Cutover, WayBack, Recovering, DecidedBeforeTouched,
      Committed, Chosen, Ended, OnlyCredentialRestorable, HasControl, Settled, Restored, Kept,
      Abandoned, BeforeCutover, Pending
<1> QED BY <1>1, <1>2, <1>3, <1>4, <1>5

\* The control plane is told after the host is back, and the worker goes on to the end
\* only if it has answered.
LEMMA CancelRemoteInv == ASSUME IInv, CancelRemote PROVE IInv'
<1> USE DEF IInv, CancelRemote, AfterCancel, RolledBack, hostVars, txnVars, agentVars,
            remoteVars, workerVars, recoveryVars
<1>0. Previous' = Previous /\ Candidate' = Candidate
  BY Frozen
<1>1. TypeOK'
  BY Places DEF TypeOK, Pending, BeforeCutover
<1>2. (Exclusion /\ Beginning /\ Controlled)'
  BY <1>0, Places DEF Exclusion, Beginning, Controlled, HasControl, BeforeCutover, Pending
<1>3. (Cutover /\ WayBack)'
  BY <1>0, Places
  DEF TypeOK, Pending, Exclusion, Beginning, Controlled, Cutover, WayBack, HasControl, Restored,
      Partial, BeforeCutover
<1>4. (Recovering /\ DecidedBeforeTouched)'
  BY <1>0
  DEF Exclusion, Beginning, Controlled, Recovering, DecidedBeforeTouched, HasControl, Restored,
      Pending
<1>5. (Committed /\ Chosen /\ Ended /\ OnlyCredentialRestorable)'
  BY <1>0, Places
  DEF TypeOK, Exclusion, Beginning, Controlled, Cutover, WayBack, Recovering,
      DecidedBeforeTouched, Committed, Chosen, Ended, OnlyCredentialRestorable, HasControl,
      Settled, Restored, Kept, Abandoned, BeforeCutover, Pending
<1> QED BY <1>1, <1>2, <1>3, <1>4, <1>5

\* Nothing is removed that a committed candidate needs.
LEMMA RemoveInitialInv == ASSUME IInv, RemoveInitial PROVE IInv'
<1> USE DEF IInv, RemoveInitial, Stopped, hostVars, txnVars, agentVars, remoteVars, workerVars,
            recoveryVars
<1>0. Previous' = Previous /\ Candidate' = Candidate
  BY Frozen
<1>1. TypeOK'
  BY Places DEF TypeOK, Pending, BeforeCutover
<1>2. (Exclusion /\ Beginning /\ Controlled)'
  BY <1>0, Places DEF Exclusion, Beginning, Controlled, HasControl, BeforeCutover, Pending
<1>3. (Cutover /\ WayBack)'
  BY <1>0, Places
  DEF Exclusion, Beginning, Controlled, Cutover, WayBack, HasControl, Restored, Partial,
      BeforeCutover
<1>4. (Recovering /\ DecidedBeforeTouched)'
  BY <1>0
  DEF Exclusion, Beginning, Controlled, Recovering, DecidedBeforeTouched, HasControl, Restored,
      Pending
<1>5. (Committed /\ Chosen /\ Ended /\ OnlyCredentialRestorable)'
  BY <1>0, Places
  DEF Exclusion, Beginning, Controlled, Cutover, WayBack, Recovering, DecidedBeforeTouched,
      Committed, Chosen, Ended, OnlyCredentialRestorable, HasControl, Settled, Restored, Kept,
      Abandoned, BeforeCutover, Pending
<1> QED BY <1>1, <1>2, <1>3, <1>4, <1>5

\* The worker waits for the restored connection.
LEMMA RejoinInv == ASSUME IInv, Rejoin PROVE IInv'
<1> USE DEF IInv, Rejoin, hostVars, txnVars, agentVars, remoteVars, workerVars, recoveryVars
<1>0. Previous' = Previous /\ Candidate' = Candidate
  BY Frozen
<1>1. TypeOK'
  BY Places DEF TypeOK, Pending, BeforeCutover
<1>2. (Exclusion /\ Beginning /\ Controlled)'
  BY <1>0, Places DEF Exclusion, Beginning, Controlled, HasControl, BeforeCutover, Pending
<1>3. (Cutover /\ WayBack)'
  BY <1>0, Places
  DEF Exclusion, Beginning, Controlled, Cutover, WayBack, HasControl, Restored, Partial,
      BeforeCutover
<1>4. (Recovering /\ DecidedBeforeTouched)'
  BY <1>0
  DEF Exclusion, Beginning, Controlled, Recovering, DecidedBeforeTouched, HasControl, Restored,
      Pending
<1>5. (Committed /\ Chosen /\ Ended /\ OnlyCredentialRestorable)'
  BY <1>0, Places
  DEF Exclusion, Beginning, Controlled, Cutover, WayBack, Recovering, DecidedBeforeTouched,
      Committed, Chosen, Ended, OnlyCredentialRestorable, HasControl, Settled, Restored, Kept,
      Abandoned, BeforeCutover, Pending
<1> QED BY <1>1, <1>2, <1>3, <1>4, <1>5

\* The worker gives the transaction up at one of its ends.
LEMMA WorkerUnlinksInv == ASSUME IInv, WorkerUnlinks PROVE IInv'
<1> USE DEF IInv, WorkerUnlinks, hostVars, txnVars, agentVars, remoteVars, workerVars,
            recoveryVars
<1>0. Previous' = Previous /\ Candidate' = Candidate
  BY Frozen
<1>1. TypeOK'
  BY Places DEF TypeOK, Pending, BeforeCutover
<1>2. (Exclusion /\ Beginning /\ Controlled)'
  BY <1>0, Places DEF Exclusion, Beginning, Controlled, HasControl, BeforeCutover, Pending
<1>3. (Cutover /\ WayBack)'
  BY <1>0, Places
  DEF Exclusion, Beginning, Controlled, Cutover, WayBack, HasControl, Restored, Partial,
      BeforeCutover
<1>4. (Recovering /\ DecidedBeforeTouched)'
  BY <1>0
  DEF Exclusion, Beginning, Controlled, Recovering, DecidedBeforeTouched, HasControl, Restored,
      Pending
<1>5. (Committed /\ Chosen /\ Ended /\ OnlyCredentialRestorable)'
  BY <1>0, Places
  DEF Exclusion, Beginning, Controlled, Cutover, WayBack, Recovering, DecidedBeforeTouched,
      Committed, Chosen, Ended, OnlyCredentialRestorable, HasControl, Settled, Restored, Kept,
      Abandoned, BeforeCutover, Pending
<1> QED BY <1>1, <1>2, <1>3, <1>4, <1>5

\* The recovery starts when the worker is gone.
LEMMA RecoveryStartInv == ASSUME IInv, RecoveryStart PROVE IInv'
<1> USE DEF IInv, RecoveryStart, ReleaseChanges, hostVars, txnVars, agentVars, remoteVars,
            workerVars, recoveryVars
<1>0. Previous' = Previous /\ Candidate' = Candidate
  BY Frozen
<1>1. TypeOK'
  BY Places DEF TypeOK, Pending, BeforeCutover
<1>2. (Exclusion /\ Beginning /\ Controlled)'
  BY <1>0, Places DEF Exclusion, Beginning, Controlled, HasControl, BeforeCutover, Pending
<1>3. (Cutover /\ WayBack)'
  BY <1>0, Places
  DEF Exclusion, Beginning, Controlled, Cutover, WayBack, HasControl, Restored, Partial,
      BeforeCutover
<1>4. (Recovering /\ DecidedBeforeTouched)'
  BY <1>0
  DEF Exclusion, Beginning, Controlled, Recovering, DecidedBeforeTouched, HasControl, Restored,
      Pending
<1>5. (Committed /\ Chosen /\ Ended /\ OnlyCredentialRestorable)'
  BY <1>0, Places
  DEF Exclusion, Beginning, Controlled, Cutover, WayBack, Recovering, DecidedBeforeTouched,
      Committed, Chosen, Ended, OnlyCredentialRestorable, HasControl, Settled, Restored, Kept,
      Abandoned, BeforeCutover, Pending
<1> QED BY <1>1, <1>2, <1>3, <1>4, <1>5

\* What the status lets the recovery do.
LEMMA ReadStatusInv == ASSUME IInv, ReadStatus PROVE IInv'
<1> USE DEF IInv, ReadStatus, AfterStatus, hostVars, txnVars, agentVars, remoteVars, workerVars,
            recoveryVars
<1>0. Previous' = Previous /\ Candidate' = Candidate
  BY Frozen
<1>1. TypeOK'
  BY Places DEF TypeOK, Pending, BeforeCutover
<1>2. (Exclusion /\ Beginning /\ Controlled)'
  BY <1>0, Places DEF Exclusion, Beginning, Controlled, HasControl, BeforeCutover, Pending
<1>3. (Cutover /\ WayBack)'
  BY <1>0, Places
  DEF Exclusion, Beginning, Controlled, Cutover, WayBack, HasControl, Restored, Partial,
      BeforeCutover
<1>4. (Recovering /\ DecidedBeforeTouched)'
  BY <1>0
  DEF TypeOK, Exclusion, Beginning, Controlled, Recovering, DecidedBeforeTouched, HasControl,
      Restored, Pending
<1>5. (Committed /\ Chosen /\ Ended /\ OnlyCredentialRestorable)'
  BY <1>0, Places
  DEF Exclusion, Beginning, Controlled, Cutover, WayBack, Recovering, DecidedBeforeTouched,
      Committed, Chosen, Ended, OnlyCredentialRestorable, HasControl, Settled, Restored, Kept,
      Abandoned, BeforeCutover, Pending
<1> QED BY <1>1, <1>2, <1>3, <1>4, <1>5

\* Without an answer the recovery ends, whatever took effect.
LEMMA NoAnswerInv == ASSUME IInv, NoAnswer PROVE IInv'
<1> USE DEF IInv, NoAnswer, Exits, RolledBack, hostVars, txnVars, agentVars, remoteVars,
            workerVars, recoveryVars
<1>0. Previous' = Previous /\ Candidate' = Candidate
  BY Frozen
<1>1. TypeOK'
  BY Places DEF TypeOK, Pending, BeforeCutover
<1>2. (Exclusion /\ Beginning /\ Controlled)'
  BY <1>0, Places DEF Pending, Exclusion, Beginning, Controlled, HasControl, BeforeCutover
<1>3. (Cutover /\ WayBack)'
  BY <1>0, Places
  DEF Exclusion, Beginning, Controlled, Cutover, WayBack, HasControl, Restored, Partial,
      BeforeCutover
<1>4. (Recovering /\ DecidedBeforeTouched)'
  BY <1>0
  DEF Exclusion, Beginning, Controlled, Recovering, DecidedBeforeTouched, HasControl, Restored,
      Pending
<1>5. (Committed /\ Chosen /\ Ended /\ OnlyCredentialRestorable)'
  BY <1>0, Places
  DEF Exclusion, Beginning, Controlled, Cutover, WayBack, Recovering, DecidedBeforeTouched,
      Committed, Chosen, Ended, OnlyCredentialRestorable, HasControl, Settled, Restored, Kept,
      Abandoned, BeforeCutover, Pending
<1> QED BY <1>1, <1>2, <1>3, <1>4, <1>5

\* An answer that the transaction was rolled back, or could not be, is for good.
LEMMA AnswerInv == ASSUME IInv, Answer PROVE IInv'
<1> USE DEF IInv, Answer, RolledBack, hostVars, txnVars, agentVars, remoteVars, workerVars,
            recoveryVars
<1>0. Previous' = Previous /\ Candidate' = Candidate
  BY Frozen
<1>1. TypeOK'
  BY Places DEF TypeOK, Pending, BeforeCutover
<1>2. (Exclusion /\ Beginning /\ Controlled)'
  BY <1>0, Places DEF Pending, Exclusion, Beginning, Controlled, HasControl, BeforeCutover
<1>3. (Cutover /\ WayBack)'
  BY <1>0, Places
  DEF Exclusion, Beginning, Controlled, Cutover, WayBack, HasControl, Restored, Partial,
      BeforeCutover
<1>4. (Recovering /\ DecidedBeforeTouched)'
  BY <1>0
  DEF Exclusion, Beginning, Controlled, Recovering, DecidedBeforeTouched, HasControl, Restored,
      Pending
<1>5. (Committed /\ Chosen /\ Ended /\ OnlyCredentialRestorable)'
  BY <1>0, Places
  DEF Exclusion, Beginning, Controlled, Cutover, WayBack, Recovering, DecidedBeforeTouched,
      Committed, Chosen, Ended, OnlyCredentialRestorable, HasControl, Settled, Restored, Kept,
      Abandoned, BeforeCutover, Pending
<1> QED BY <1>1, <1>2, <1>3, <1>4, <1>5

\* The recovery takes a committed candidate for good.
LEMMA JudgeInv == ASSUME IInv, Judge PROVE IInv'
<1> USE DEF IInv, Judge, Exits, hostVars, txnVars, agentVars, remoteVars, workerVars,
            recoveryVars
<1>0. Previous' = Previous /\ Candidate' = Candidate
  BY Frozen
<1>1. TypeOK'
  BY Places DEF TypeOK, Pending, BeforeCutover
<1>2. (Exclusion /\ Beginning /\ Controlled)'
  BY <1>0, Places DEF Exclusion, Beginning, Controlled, HasControl, BeforeCutover, Pending
<1>3. (Cutover /\ WayBack)'
  BY <1>0, Places
  DEF Exclusion, Beginning, Controlled, Cutover, WayBack, HasControl, Restored, Partial,
      BeforeCutover
<1>4. (Recovering /\ DecidedBeforeTouched)'
  BY <1>0
  DEF Exclusion, Beginning, Controlled, Recovering, DecidedBeforeTouched, HasControl, Restored,
      Pending
<1>5. (Committed /\ Chosen /\ Ended /\ OnlyCredentialRestorable)'
  BY <1>0, Places
  DEF Exclusion, Beginning, Controlled, Cutover, WayBack, Recovering, DecidedBeforeTouched,
      Committed, Chosen, Ended, OnlyCredentialRestorable, HasControl, Settled, Restored, Kept,
      Abandoned, BeforeCutover, Pending
<1> QED BY <1>1, <1>2, <1>3, <1>4, <1>5

\* The recovery puts parts back one by one,
LEMMA RestorePartInv == ASSUME IInv, RestorePart PROVE IInv'
<1> USE DEF IInv, RestorePart, hostVars, txnVars, agentVars, remoteVars, workerVars,
            recoveryVars
<1>0. Previous' = Previous /\ Candidate' = Candidate
  BY Frozen
<1>1. TypeOK'
  BY Versions, PutRight, Places DEF TypeOK, Pending, BeforeCutover
<1>2. (Exclusion /\ Beginning /\ Controlled)'
  BY <1>0, Places DEF Exclusion, Beginning, Controlled, HasControl, BeforeCutover, Pending
<1>3. (Cutover /\ WayBack)'
  BY <1>0, Places, Versions, PutRight
  DEF Exclusion, Beginning, Controlled, Cutover, WayBack, HasControl, Restored, Partial,
      BeforeCutover
<1>4. (Recovering /\ DecidedBeforeTouched)'
  BY <1>0, PutRight, Versions
  DEF Exclusion, Beginning, Controlled, Recovering, DecidedBeforeTouched, HasControl, Restored,
      Pending
<1>5. (Committed /\ Chosen /\ Ended /\ OnlyCredentialRestorable)'
  BY <1>0, Places, Versions, PutRight
  DEF Exclusion, Beginning, Controlled, Cutover, WayBack, Recovering, DecidedBeforeTouched,
      Committed, Chosen, Ended, OnlyCredentialRestorable, HasControl, Settled, Restored, Kept,
      Abandoned, BeforeCutover, Pending
<1> QED BY <1>1, <1>2, <1>3, <1>4, <1>5

\* and the agent when all are back.
LEMMA RestoreAgentInv == ASSUME IInv, RestoreAgent PROVE IInv'
<1> USE DEF IInv, RestoreAgent, Requeue, Stopped, hostVars, txnVars, agentVars, remoteVars,
            workerVars, recoveryVars
<1>0. Previous' = Previous /\ Candidate' = Candidate
  BY Frozen
<1>1. TypeOK'
  BY Versions, PutRight, Places DEF TypeOK, Pending, BeforeCutover
<1>2. (Exclusion /\ Beginning /\ Controlled)'
  BY <1>0, Places DEF Exclusion, Beginning, Controlled, HasControl, BeforeCutover, Pending
<1>3. (Cutover /\ WayBack)'
  BY <1>0, Places, Versions, PutRight
  DEF Exclusion, Beginning, Controlled, Cutover, WayBack, HasControl, Restored, Partial,
      BeforeCutover
<1>4. (Recovering /\ DecidedBeforeTouched)'
  BY <1>0, PutRight, Versions
  DEF Exclusion, Beginning, Controlled, Recovering, DecidedBeforeTouched, HasControl, Restored,
      Pending
<1>5. (Committed /\ Chosen /\ Ended /\ OnlyCredentialRestorable)'
  BY <1>0, Places, Versions, PutRight
  DEF Exclusion, Beginning, Controlled, Cutover, WayBack, Recovering, DecidedBeforeTouched,
      Committed, Chosen, Ended, OnlyCredentialRestorable, HasControl, Settled, Restored, Kept,
      Abandoned, BeforeCutover, Pending
<1> QED BY <1>1, <1>2, <1>3, <1>4, <1>5

\* It asks for the connection.
LEMMA RequireInv == ASSUME IInv, Require PROVE IInv'
<1> USE DEF IInv, Require, hostVars, txnVars, agentVars, remoteVars, workerVars, recoveryVars
<1>0. Previous' = Previous /\ Candidate' = Candidate
  BY Frozen
<1>1. TypeOK'
  BY Places DEF TypeOK, Pending, BeforeCutover
<1>2. (Exclusion /\ Beginning /\ Controlled)'
  BY <1>0, Places DEF Exclusion, Beginning, Controlled, HasControl, BeforeCutover, Pending
<1>3. (Cutover /\ WayBack)'
  BY <1>0, Places
  DEF Exclusion, Beginning, Controlled, Cutover, WayBack, HasControl, Restored, Partial,
      BeforeCutover
<1>4. (Recovering /\ DecidedBeforeTouched)'
  BY <1>0
  DEF Exclusion, Beginning, Controlled, Recovering, DecidedBeforeTouched, HasControl, Restored,
      Pending
<1>5. (Committed /\ Chosen /\ Ended /\ OnlyCredentialRestorable)'
  BY <1>0, Places
  DEF Exclusion, Beginning, Controlled, Cutover, WayBack, Recovering, DecidedBeforeTouched,
      Committed, Chosen, Ended, OnlyCredentialRestorable, HasControl, Settled, Restored, Kept,
      Abandoned, BeforeCutover, Pending
<1> QED BY <1>1, <1>2, <1>3, <1>4, <1>5

\* The recovery puts the candidate back, one part after the other,
LEMMA ReinstallPartInv == ASSUME IInv, ReinstallPart PROVE IInv'
<1> USE DEF IInv, ReinstallPart, Exits, hostVars, txnVars, agentVars, remoteVars, workerVars,
            recoveryVars
<1>0. Previous' = Previous /\ Candidate' = Candidate
  BY Frozen
<1>1. TypeOK'
  BY Versions, PutRight, Places DEF TypeOK, Pending, BeforeCutover
<1>2. (Exclusion /\ Beginning /\ Controlled)'
  BY <1>0, Places DEF Exclusion, Beginning, Controlled, HasControl, BeforeCutover, Pending
<1>3. (Cutover /\ WayBack)'
  BY <1>0, Places, Versions, PutRight
  DEF Exclusion, Beginning, Controlled, Cutover, WayBack, HasControl, Restored, Partial,
      BeforeCutover
<1>4. (Recovering /\ DecidedBeforeTouched)'
  BY <1>0, PutRight, Versions
  DEF Exclusion, Beginning, Controlled, Recovering, DecidedBeforeTouched, HasControl, Restored,
      Pending
<1>5. (Committed /\ Chosen /\ Ended /\ OnlyCredentialRestorable)'
  BY <1>0, Places, Versions, PutRight
  DEF Exclusion, Beginning, Controlled, Cutover, WayBack, Recovering, DecidedBeforeTouched,
      Committed, Chosen, Ended, OnlyCredentialRestorable, HasControl, Settled, Restored, Kept,
      Abandoned, BeforeCutover, Pending
<1> QED BY <1>1, <1>2, <1>3, <1>4, <1>5

\* and the agent when all is the candidate.
LEMMA ReinstallAgentInv == ASSUME IInv, ReinstallAgent PROVE IInv'
<1> USE DEF IInv, ReinstallAgent, Requeue, hostVars, txnVars, agentVars, remoteVars, workerVars,
            recoveryVars
<1>0. Previous' = Previous /\ Candidate' = Candidate
  BY Frozen
<1>1. TypeOK'
  BY Versions, PutRight, Places DEF TypeOK, Pending, BeforeCutover
<1>2. (Exclusion /\ Beginning /\ Controlled)'
  BY <1>0, Places DEF Exclusion, Beginning, Controlled, HasControl, BeforeCutover, Pending
<1>3. (Cutover /\ WayBack)'
  BY <1>0, Places, Versions, PutRight
  DEF Exclusion, Beginning, Controlled, Cutover, WayBack, HasControl, Restored, Partial,
      BeforeCutover
<1>4. (Recovering /\ DecidedBeforeTouched)'
  BY <1>0, PutRight, Versions
  DEF Exclusion, Beginning, Controlled, Recovering, DecidedBeforeTouched, HasControl, Restored,
      Pending
<1>5. (Committed /\ Chosen /\ Ended /\ OnlyCredentialRestorable)'
  BY <1>0, Places, Versions, PutRight
  DEF Exclusion, Beginning, Controlled, Cutover, WayBack, Recovering, DecidedBeforeTouched,
      Committed, Chosen, Ended, OnlyCredentialRestorable, HasControl, Settled, Restored, Kept,
      Abandoned, BeforeCutover, Pending
<1> QED BY <1>1, <1>2, <1>3, <1>4, <1>5

\* The choice of the previous installation is taken back when the candidate is whole.
LEMMA DeselectInv == ASSUME IInv, Deselect PROVE IInv'
<1> USE DEF IInv, Deselect, Exits, hostVars, txnVars, agentVars, remoteVars, workerVars,
            recoveryVars
<1>0. Previous' = Previous /\ Candidate' = Candidate
  BY Frozen
<1>1. TypeOK'
  BY Places DEF TypeOK, Pending, BeforeCutover
<1>2. (Exclusion /\ Beginning /\ Controlled)'
  BY <1>0, Places DEF Exclusion, Beginning, Controlled, HasControl, BeforeCutover, Pending
<1>3. (Cutover /\ WayBack)'
  BY <1>0, Places
  DEF Exclusion, Beginning, Controlled, Cutover, WayBack, HasControl, Restored, Partial,
      BeforeCutover
<1>4. (Recovering /\ DecidedBeforeTouched)'
  BY <1>0
  DEF Exclusion, Beginning, Controlled, Recovering, DecidedBeforeTouched, HasControl, Restored,
      Pending
<1>5. (Committed /\ Chosen /\ Ended /\ OnlyCredentialRestorable)'
  BY <1>0, Places
  DEF Exclusion, Beginning, Controlled, Cutover, WayBack, Recovering, DecidedBeforeTouched,
      Committed, Chosen, Ended, OnlyCredentialRestorable, HasControl, Settled, Restored, Kept,
      Abandoned, BeforeCutover, Pending
<1> QED BY <1>1, <1>2, <1>3, <1>4, <1>5

\* The recovery gives the transaction up at one of its ends.
LEMMA RecoveryUnlinksInv == ASSUME IInv, RecoveryUnlinks PROVE IInv'
<1> USE DEF IInv, RecoveryUnlinks, Exits, hostVars, txnVars, agentVars, remoteVars, workerVars,
            recoveryVars
<1>0. Previous' = Previous /\ Candidate' = Candidate
  BY Frozen
<1>1. TypeOK'
  BY Places DEF TypeOK, Pending, BeforeCutover
<1>2. (Exclusion /\ Beginning /\ Controlled)'
  BY <1>0, Places DEF Exclusion, Beginning, Controlled, HasControl, BeforeCutover, Pending
<1>3. (Cutover /\ WayBack)'
  BY <1>0, Places
  DEF Exclusion, Beginning, Controlled, Cutover, WayBack, HasControl, Restored, Partial,
      BeforeCutover
<1>4. (Recovering /\ DecidedBeforeTouched)'
  BY <1>0
  DEF Exclusion, Beginning, Controlled, Recovering, DecidedBeforeTouched, HasControl, Restored,
      Pending
<1>5. (Committed /\ Chosen /\ Ended /\ OnlyCredentialRestorable)'
  BY <1>0, Places
  DEF Exclusion, Beginning, Controlled, Cutover, WayBack, Recovering, DecidedBeforeTouched,
      Committed, Chosen, Ended, OnlyCredentialRestorable, HasControl, Settled, Restored, Kept,
      Abandoned, BeforeCutover, Pending
<1> QED BY <1>1, <1>2, <1>3, <1>4, <1>5

\* A session begins,
LEMMA ConnectInv == ASSUME IInv, Connect PROVE IInv'
<1> USE DEF IInv, Connect, hostVars, txnVars, agentVars, remoteVars, workerVars, recoveryVars
<1>1. TypeOK'
  BY DEF TypeOK
<1> QED BY <1>1, AgentStep

\* a session ends,
LEMMA DropInv == ASSUME IInv, Drop PROVE IInv'
<1> USE DEF IInv, Drop, hostVars, txnVars, agentVars, remoteVars, workerVars, recoveryVars
<1>1. TypeOK'
  <2>1. heard' \in BOOLEAN /\ connected' = FALSE /\ marker' = FALSE
    BY DEF TypeOK
  <2>2. faults' \in 0..MaxFaults
    BY FaultAssumption DEF TypeOK
  <2>3. UNCHANGED <<setup, installed, units, enabled, files, link, agent, restarting, remote,
                    window, worker, outcome, torn, recovery, seen, changed>>
    OBVIOUS
  <2>4. ({units, enabled, link, connected, marker, restarting, window, heard, torn, changed,
         seen.heard} \subseteq BOOLEAN)'
    BY <2>1, <2>3 DEF TypeOK
  <2> HIDE DEF Drop
  <2> QED BY <2>2, <2>3, <2>4 DEF TypeOK
<1> QED BY <1>1, AgentStep

\* the agent dies,
LEMMA AgentDiesInv == ASSUME IInv, AgentDies PROVE IInv'
<1> USE DEF IInv, AgentDies, hostVars, txnVars, agentVars, remoteVars, workerVars, recoveryVars
<1>1. TypeOK'
  <2>1. heard' \in BOOLEAN /\ marker' \in BOOLEAN
    BY DEF TypeOK
  <2>2. faults' \in 0..MaxFaults
    BY FaultAssumption DEF TypeOK
  <2>3. agent' \in Version \cup {"stopped"}
    BY DEF Version
  <2> QED BY <2>1, <2>2, <2>3 DEF TypeOK
<1> QED BY <1>1, AgentStep

\* it comes back,
LEMMA AgentReturnsInv == ASSUME IInv, AgentReturns PROVE IInv'
<1> USE DEF IInv, AgentReturns, Started, Loads, hostVars, txnVars, agentVars, remoteVars,
            workerVars, recoveryVars
<1>1. TypeOK'
  BY LoadsTyped DEF TypeOK
<1> QED BY <1>1, AgentStep

\* it is restarted.
LEMMA QueuedRestartInv == ASSUME IInv, QueuedRestart PROVE IInv'
<1> USE DEF IInv, QueuedRestart, Started, Loads, hostVars, txnVars, agentVars, remoteVars,
            workerVars, recoveryVars
<1>1. TypeOK'
  BY LoadsTyped DEF TypeOK
<1> QED BY <1>1, AgentStep

\* A provisional handshake proves the credential.
LEMMA ProvisionalInv == ASSUME IInv, Provisional PROVE IInv'
<1> USE DEF IInv, Provisional, hostVars, txnVars, agentVars, remoteVars, workerVars,
            recoveryVars
<1>0. Previous' = Previous /\ Candidate' = Candidate
  BY Frozen
<1>1. TypeOK'
  BY Places DEF TypeOK, Pending, BeforeCutover
<1>2. (Exclusion /\ Beginning /\ Controlled)'
  BY <1>0, Places DEF Exclusion, Beginning, Controlled, HasControl, BeforeCutover, Pending
<1>3. (Cutover /\ WayBack)'
  BY <1>0, Places
  DEF Exclusion, Beginning, Controlled, Cutover, WayBack, HasControl, Restored, Partial,
      BeforeCutover
<1>4. (Recovering /\ DecidedBeforeTouched)'
  BY <1>0
  DEF Exclusion, Beginning, Controlled, Recovering, DecidedBeforeTouched, HasControl, Restored,
      Pending
<1>5. (Committed /\ Chosen /\ Ended /\ OnlyCredentialRestorable)'
  BY <1>0, Places
  DEF Exclusion, Beginning, Controlled, Cutover, WayBack, Recovering, DecidedBeforeTouched,
      Committed, Chosen, Ended, OnlyCredentialRestorable, HasControl, Settled, Restored, Kept,
      Abandoned, BeforeCutover, Pending
<1> QED BY <1>1, <1>2, <1>3, <1>4, <1>5

\* The window closes.
LEMMA CloseWindowInv == ASSUME IInv, CloseWindow PROVE IInv'
<1> USE DEF IInv, CloseWindow, hostVars, txnVars, agentVars, remoteVars, workerVars,
            recoveryVars
<1>0. Previous' = Previous /\ Candidate' = Candidate
  BY Frozen
<1>1. TypeOK'
  BY Places DEF TypeOK, Pending, BeforeCutover
<1>2. (Exclusion /\ Beginning /\ Controlled)'
  BY <1>0, Places DEF Pending, Exclusion, Beginning, Controlled, HasControl, BeforeCutover
<1>3. (Cutover /\ WayBack)'
  BY <1>0, Places
  DEF Pending, Exclusion, Beginning, Controlled, Cutover, WayBack, HasControl, Restored,
      Partial, BeforeCutover
<1>4. (Recovering /\ DecidedBeforeTouched)'
  BY <1>0
  DEF Exclusion, Beginning, Controlled, Recovering, DecidedBeforeTouched, HasControl, Restored,
      Pending
<1>5. (Committed /\ Chosen /\ Ended /\ OnlyCredentialRestorable)'
  BY <1>0, Places
  DEF Exclusion, Beginning, Controlled, Cutover, WayBack, Recovering, DecidedBeforeTouched,
      Committed, Chosen, Ended, OnlyCredentialRestorable, HasControl, Settled, Restored, Kept,
      Abandoned, BeforeCutover, Pending
<1> QED BY <1>1, <1>2, <1>3, <1>4, <1>5

\* A script is killed, in whatever moment.
LEMMA KillInv == ASSUME IInv, Kill PROVE IInv'
<1> USE DEF IInv, Kill, Exits, hostVars, txnVars, agentVars, remoteVars, workerVars,
            recoveryVars
<1>0. Previous' = Previous /\ Candidate' = Candidate
  BY Frozen
<1>1. TypeOK'
  <2>1. torn' \in BOOLEAN
    BY DEF TypeOK
  <2>2. faults' \in 0..MaxFaults
    BY FaultAssumption DEF TypeOK
  <2> QED BY <2>1, <2>2 DEF TypeOK
<1>2. (Exclusion /\ Beginning /\ Controlled)'
  BY <1>0, Places DEF Exclusion, Beginning, Controlled, HasControl, BeforeCutover, Pending
<1>3. (Cutover /\ WayBack)'
  BY <1>0, Places
  DEF Exclusion, Beginning, Controlled, Cutover, WayBack, HasControl, Restored, Partial,
      BeforeCutover
<1>4. (Recovering /\ DecidedBeforeTouched)'
  BY <1>0
  DEF Exclusion, Beginning, Controlled, Recovering, DecidedBeforeTouched, HasControl, Restored,
      Pending
<1>5. (Committed /\ Chosen /\ Ended /\ OnlyCredentialRestorable)'
  BY <1>0, Places
  DEF TypeOK, Exclusion, Beginning, Controlled, Cutover, WayBack, Recovering,
      DecidedBeforeTouched, Committed, Chosen, Ended, OnlyCredentialRestorable, HasControl,
      Settled, Restored, Kept, Abandoned, BeforeCutover, Pending
<1> QED BY <1>1, <1>2, <1>3, <1>4, <1>5

\* Power is lost, in whatever moment.
LEMMA RebootInv == ASSUME IInv, Reboot PROVE IInv'
<1> USE DEF IInv, Reboot, Exits, Started, Stopped, Loads, hostVars, txnVars, agentVars,
            remoteVars, workerVars, recoveryVars
<1>0. Previous' = Previous /\ Candidate' = Candidate
  BY Frozen
<1>1. TypeOK'
  <2>1. torn' \in BOOLEAN /\ heard' \in BOOLEAN
    BY DEF TypeOK
  <2>2. faults' \in 0..MaxFaults
    BY FaultAssumption DEF TypeOK
  <2>3. agent' \in Version \cup {"stopped"} /\ connected' = FALSE /\ marker' = FALSE
    BY LoadsTyped
  <2> QED BY <2>1, <2>2, <2>3 DEF TypeOK
<1>2. (Exclusion /\ Beginning /\ Controlled)'
  BY <1>0, Places DEF Exclusion, Beginning, Controlled, HasControl, BeforeCutover, Pending
<1>3. (Cutover /\ WayBack)'
  BY <1>0, Places
  DEF Exclusion, Beginning, Controlled, Cutover, WayBack, HasControl, Restored, Partial,
      BeforeCutover
<1>4. (Recovering /\ DecidedBeforeTouched)'
  BY <1>0
  DEF Exclusion, Beginning, Controlled, Recovering, DecidedBeforeTouched, HasControl, Restored,
      Pending
<1>5. (Committed /\ Chosen /\ Ended /\ OnlyCredentialRestorable)'
  BY <1>0, Places
  DEF Exclusion, Beginning, Controlled, Cutover, WayBack, Recovering, DecidedBeforeTouched,
      Committed, Chosen, Ended, OnlyCredentialRestorable, HasControl, Settled, Restored, Kept,
      Abandoned, BeforeCutover, Pending
<1> QED BY <1>1, <1>2, <1>3, <1>4, <1>5

-----------------------------------------------------------------------------
(* The invariant holds. *)

\* It does to begin with,
LEMMA InitInv == Init => IInv
<1> SUFFICES ASSUME Init PROVE IInv
  OBVIOUS
<1> USE DEF Init
<1>1. TypeOK
  <2>1. setup.active \in BOOLEAN
    BY SetupAssumption DEF Mode
  <2>2. ({units, enabled, link, connected, marker, restarting, window, heard, torn, changed,
         seen.heard} \subseteq BOOLEAN)
    BY <2>1
  <2>3. agent \in Version \cup {"stopped"}
    BY DEF Version
  <2> QED BY <2>2, <2>3, Versions, FaultAssumption DEF TypeOK
<1>2. Exclusion /\ Beginning /\ Controlled
  BY Places DEF Exclusion, Beginning, Controlled, HasControl
<1>3. Cutover /\ WayBack /\ Recovering /\ Committed
  BY Places DEF Cutover, WayBack, Recovering, Committed
<1>4. Chosen /\ Ended /\ OnlyCredentialRestorable /\ DecidedBeforeTouched
  BY DEF Chosen, Ended, Settled, OnlyCredentialRestorable, DecidedBeforeTouched
<1> QED BY <1>1, <1>2, <1>3, <1>4 DEF IInv

\* and every step keeps it.
LEMMA NextInv == IInv /\ [Next]_vars => IInv'
<1> SUFFICES ASSUME IInv, [Next]_vars PROVE IInv'
  OBVIOUS
<1>1. CASE WorkerStep
  BY <1>1, PublishInv, ExchangeInv, SaveControlInv, InstallPartInv, RecordCandidateInv,
     RestartAgentInv, ObserveInv, CommitInv, FinishInv, FailInv, UndoPartInv, UndoAgentInv,
     UndoFailsInv, SelectPreviousInv, CancelRemoteInv, RemoveInitialInv, RejoinInv,
     WorkerUnlinksInv
  DEF WorkerStep
<1>2. CASE RecoveryStart \/ RecoveryStep
  BY <1>2, RecoveryStartInv, ReadStatusInv, NoAnswerInv, AnswerInv, JudgeInv, RestorePartInv,
     RestoreAgentInv, RequireInv, ReinstallPartInv, ReinstallAgentInv, DeselectInv,
     RecoveryUnlinksInv
  DEF RecoveryStep
<1>3. CASE Connect \/ Provisional \/ Drop \/ AgentDies \/ AgentReturns \/ QueuedRestart
           \/ CloseWindow
  BY <1>3, ConnectInv, ProvisionalInv, DropInv, AgentDiesInv, AgentReturnsInv,
     QueuedRestartInv, CloseWindowInv
<1>4. CASE Kill \/ Reboot
  BY <1>4, KillInv, RebootInv
<1>5. CASE UNCHANGED vars
  <2>1. TypeOK'
    BY <1>5 DEF IInv, TypeOK, vars, hostVars, txnVars, agentVars, remoteVars, workerVars,
                recoveryVars
  <2> QED BY <1>5, <2>1, AgentStep DEF vars, remoteVars, recoveryVars
<1> QED BY <1>1, <1>2, <1>3, <1>4, <1>5 DEF Next

\* The inductive invariant of the transaction: where the two scripts can be, and what
\* the host, the transaction directory and the control plane are then.
THEOREM Inductive == Spec => []IInv
BY InitInv, NextInv, PTL DEF Spec

-----------------------------------------------------------------------------
(* What follows from it. *)

\* The state is of its types, after any number of crashes.
THEOREM Typed == Spec => []TypeOK
<1>1. IInv => TypeOK
  BY DEF IInv
<1> QED BY <1>1, Inductive, PTL

\* As long as the candidate is the only credential that works, what it takes to bring
\* it back is there.
THEOREM OnlyCredentialIsRestorable == Spec => []OnlyCredentialRestorable
<1>1. IInv => OnlyCredentialRestorable
  BY DEF IInv
<1> QED BY <1>1, Inductive, PTL

\* The recovery touches the host only after the control plane has decided for good.
THEOREM DecisionComesFirst == Spec => []DecidedBeforeTouched
<1>1. IInv => DecidedBeforeTouched
  BY DEF IInv
<1> QED BY <1>1, Inductive, PTL

\* A transaction that is over ended at one of its two ends.
LEMMA SettledAtAnEnd == IInv /\ Settled /\ ~Abandoned => Restored \/ Kept
BY DEF IInv, Ended, Settled

\* The env of the two ends.
LEMMA EnvOfTheEnds ==
  ASSUME TypeOK
  PROVE  /\ Previous["env"] = IF setup.mode = "initial" THEN "none" ELSE "previous"
         /\ \/ Candidate["env"] = "candidate"
            \/ setup.mode = "repair" /\ Candidate["env"] = "previous"
<1>1. "env" \in Part /\ setup \in Setup /\ setup.mode \in Mode
  BY SetupAssumption DEF TypeOK, Part
<1>2. Previous["env"] = IF setup.mode = "initial" THEN "none" ELSE "previous"
  BY <1>1, SetupAssumption DEF Previous, Part
<1>3. setup.mode # "repair" => "env" \in setup.differs
  BY <1>1, SetupAssumption DEF Mode
<1> QED BY <1>1, <1>2, <1>3 DEF Candidate

\* Unless the worker was killed or gave up while it restored and the candidate stays
\* committed, a host whose transaction is over holds a credential that the control plane
\* accepts, or none and none is.
THEOREM SettledHostIsAccepted == Spec => []SettledIsAccepted
<1>1. ASSUME IInv PROVE SettledIsAccepted
  <2> SUFFICES ASSUME ~Abandoned, Settled PROVE HoldsAccepted
    BY DEF SettledIsAccepted, HoldsAccepted
  <2>1. CASE Restored
    BY <1>1, <2>1, EnvOfTheEnds DEF IInv, Restored, HoldsAccepted, Accepted
  <2>2. CASE Kept
    BY <1>1, <2>2, EnvOfTheEnds DEF IInv, Kept, HoldsAccepted, Accepted
  <2> QED BY <1>1, <2>1, <2>2, SettledAtAnEnd
<1> QED BY <1>1, Inductive, PTL

\* It then holds the whole of one installation, with its units unless that is nothing.
THEOREM SettledHostIsWhole == Spec => []SettledIsWhole
<1>1. ASSUME IInv PROVE SettledIsWhole
  <2> SUFFICES ASSUME Settled, ~Abandoned
               PROVE  /\ installed \in {Previous, Candidate}
                      /\ installed["env"] # "none" => units
    BY DEF SettledIsWhole
  <2>1. CASE Restored
    BY <1>1, <2>1, EnvOfTheEnds DEF IInv, Restored, Cutover
  <2>2. CASE Kept
    BY <2>2 DEF Kept
  <2> QED BY <1>1, <2>1, <2>2, SettledAtAnEnd
<1> QED BY <1>1, Inductive, PTL

=============================================================================
