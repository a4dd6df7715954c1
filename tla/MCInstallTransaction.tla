------------------------ MODULE MCInstallTransaction -------------------------
(* InstallTransaction from the situations an installer meets. *)
EXTENDS InstallTransaction

First   == [mode |-> "initial", before |-> {}, differs |-> Part, active |-> FALSE]
\* The runtime chosen for an earlier installation and its policy were left there.
Again   == [mode |-> "initial", before |-> {"runtime", "policy"},
            differs |-> Part \ {"runtime"}, active |-> FALSE]
Rekey   == [mode |-> "replace", before |-> Part, differs |-> {"env"}, active |-> TRUE]
Upgrade == [mode |-> "replace", before |-> Part,
            differs |-> {"release", "env", "policy"}, active |-> TRUE]
\* Of an old version, which had no runtime of its own.
Dormant == [mode |-> "replace", before |-> Part \ {"runtime"},
            differs |-> {"runtime", "release", "env"}, active |-> FALSE]
Repair  == [mode |-> "repair", before |-> Part, differs |-> {"env", "policy"}, active |-> TRUE]
Update  == [mode |-> "repair", before |-> Part, differs |-> {"release"}, active |-> TRUE]

EverySetup == {First, Again, Rekey, Upgrade, Dormant, Repair, Update}
OnlyUpdate == {Update}
OnlyRekey  == {Rekey}
=============================================================================
