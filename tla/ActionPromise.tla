---------------------------- MODULE ActionPromise ---------------------------
(***************************************************************************)
(* What the restart helper promises about an operation id, without         *)
(* connections, files or systemd: the receipt a caller can read and whether *)
(* the restart has been carried out.  ActionHelper implements it.           *)
(***************************************************************************)
CONSTANTS Op

VARIABLES
  fate,      \* what the ledger says of each operation
  saved,     \* what it would say after a power loss
  executed   \* the operations systemd was told to carry out

vars == <<fate, saved, executed>>

Decided == {"success", "failed"}
Fate == {"absent", "unknown"} \cup Decided

TypeOK == fate \in [Op -> Fate] /\ saved \in [Op -> Fate] /\ executed \subseteq Op

Init ==
  /\ fate = [o \in Op |-> "absent"]
  /\ saved = [o \in Op |-> "absent"]
  /\ executed = {}

\* The intent is recorded first ...
Accept(o) ==
  /\ fate[o] = "absent"
  /\ o \notin executed
  /\ fate' = [fate EXCEPT ![o] = "unknown"]
  /\ UNCHANGED <<saved, executed>>

\* ... and saved, as every other receipt ...
Save ==
  /\ saved' = fate
  /\ UNCHANGED <<fate, executed>>

\* ... the operation is carried out once and only while its fate is open, now and
\* after a power loss ...
Execute(o) ==
  /\ fate[o] = "unknown"
  /\ saved[o] = "unknown"
  /\ o \notin executed
  /\ executed' = executed \cup {o}
  /\ UNCHANGED <<fate, saved>>

\* ... and its fate is decided once; success is never claimed of an operation
\* that was not carried out.
Decide(o) ==
  /\ fate[o] = "unknown"
  /\ \E d \in Decided :
       /\ d = "success" => o \in executed
       /\ fate' = [fate EXCEPT ![o] = d]
  /\ UNCHANGED <<saved, executed>>

\* Old receipts are forgotten together with what was done.
Forget ==
  /\ \E old \in SUBSET Op :
       /\ fate' = [o \in Op |-> IF o \in old THEN "absent" ELSE fate[o]]
       /\ executed' = executed \ old
  /\ UNCHANGED saved

\* A power loss undoes what was not saved, and never hides an execution.
Revert ==
  /\ \E lost \in SUBSET Op :
       fate' = [o \in Op |-> IF o \in lost THEN saved[o] ELSE fate[o]]
  /\ \A o \in executed : fate'[o] # "absent"
  /\ saved' = fate'
  /\ UNCHANGED executed

Next ==
  \/ \E o \in Op : Accept(o) \/ Execute(o) \/ Decide(o)
  \/ Save
  \/ Forget
  \/ Revert

Spec == Init /\ [][Next]_vars

=============================================================================
