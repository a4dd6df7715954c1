------------------------------ MODULE HostTools -------------------------------
(***************************************************************************)
(* The read tools of one host: LinuxHostAdapter of src/adapters/linux.ts and *)
(* WindowsLiveHost of src/windows/live.ts.  The adapters share no state, so a *)
(* behaviour follows one tool: list_processes while processes come and go,    *)
(* query_logs page after page, a list answered by one command, the content of *)
(* a snapshot, or the projection of a result for the model.                   *)
(***************************************************************************)
EXTENDS ProcessList, JournalPages, HostSnapshot, ModelContext

CONSTANTS
  Rows,        \* sets of rows a collector may find, each with one at a place
  SnapshotRows,   \* those a snapshot may find
  SnapshotSize,   \* sizes a snapshot may have at most
  Result,      \* results to be projected
  ListLimit    \* limits a call may set

ASSUME HostToolsAssumption ==
  /\ SnapshotSize \subseteq Nat
  /\ \A rows \in Rows \cup SnapshotRows : IsRows(rows)
  /\ \A r \in Result : IsTree(r)
  /\ ListLimit \subseteq Nat \ {0}

VARIABLES
  tool,     \* the one followed
  answer    \* None, or the answer of a call with what it was made from

toolVars == <<processVars, journalVars, tool, answer>>

Init ==
  /\ tool \in {"list_processes", "query_logs", "lists", "snapshot", "projection"}
  /\ IF tool = "list_processes" THEN ProcessInit ELSE ProcessIdle
  /\ JournalInit
  /\ answer = None

-----------------------------------------------------------------------------
Processes == tool = "list_processes" /\ ProcessNext /\ UNCHANGED <<journalVars, tool, answer>>

Journal == tool = "query_logs" /\ JournalNext /\ UNCHANGED <<processVars, tool, answer>>

Broken == {"no", "permission_denied", "unavailable"}

Answer(name, list, rows, limit, cap) ==
  answer' = [name |-> name, list |-> list, rows |-> rows, limit |-> limit, cap |-> cap]

\* The lists of one command or of two at once, none of them capped on Linux; one that
\* fails has no answer.
LinuxList ==
  /\ tool = "lists" /\ answer = None
  /\ \E rows \in Rows, limit \in ListLimit :
       \/ Answer("list_services", listServices(rows, limit), rows, limit, Cardinality(rows))
       \/ Answer("list_filesystems", listFilesystems(rows, limit), rows, limit, Cardinality(rows))
       \/ Answer("list_listeners", listListeners(rows, limit), rows, limit, Cardinality(rows))
  /\ UNCHANGED <<processVars, journalVars, tool>>

LinuxGet ==
  /\ tool = "lists" /\ answer = None
  /\ \E rows \in Rows, end \in {"ok"} \cup DOMAIN runCommand :
       /\ Cardinality(Admitted(rows)) <= 1
       /\ answer' = [name |-> "get", found |-> getService(rows, end), rows |-> rows]
  /\ UNCHANGED <<processVars, journalVars, tool>>

WindowsList ==
  /\ tool = "lists" /\ answer = None
  /\ \E rows \in Rows, limit \in ListLimit, broken \in Broken :
       \/ Answer("windows_list", windowsList(rows, broken, limit), rows, limit, NativeCap)
       \/ /\ \A r \in rows : r.admitted
          /\ Answer("windows_volumes", windowsVolumes(rows, broken, limit), rows, limit, NativeCap)
  /\ UNCHANGED <<processVars, journalVars, tool>>

WindowsGet ==
  /\ tool = "lists" /\ answer = None
  /\ \E rows \in Rows, broken \in Broken :
       /\ Cardinality(Admitted(rows)) <= 1
       /\ answer' = [name |-> "get", found |-> windowsGet(rows, broken), rows |-> rows]
  /\ UNCHANGED <<processVars, journalVars, tool>>

WindowsLogs ==
  /\ tool = "lists" /\ answer = None
  /\ \E rows \in Rows, limit \in ListLimit, broken \in Broken, bytes \in ByteLimit :
       /\ limit <= NativeCap
       /\ answer' = [name |-> "windows_logs", list |-> windowsLogs(rows, broken, limit, bytes),
                     rows |-> rows]
  /\ UNCHANGED <<processVars, journalVars, tool>>

Snapshot(content, volumes, services) ==
  answer' = [name |-> "snapshot", content |-> content, volumes |-> volumes, services |-> services]

LinuxSnapshot ==
  /\ tool = "snapshot" /\ answer = None
  /\ \E volumes, services \in SnapshotRows, thrown \in SUBSET {"volumes", "services"},
        size \in SnapshotSize :
       /\ \A r \in volumes \cup services : r.owned
       /\ Snapshot(linuxSnapshot(volumes, services, thrown, size), volumes, services)
  /\ UNCHANGED <<processVars, journalVars, tool>>

WindowsSnapshot ==
  /\ tool = "snapshot" /\ answer = None
  /\ \E volumes, services \in SnapshotRows, broken \in [{"volumes", "services"} -> Broken],
        thrown \in SUBSET {"volumes", "services"}, size \in SnapshotSize :
       Snapshot(windowsSnapshot(volumes, services, broken, thrown, size), volumes, services)
  /\ UNCHANGED <<processVars, journalVars, tool>>

Project ==
  /\ tool = "projection" /\ answer = None
  /\ \E r \in Result : answer' = [name |-> "projection", projection |-> boundedProjection(r)]
  /\ UNCHANGED <<processVars, journalVars, tool>>

Next ==
  \/ Processes \/ Journal
  \/ LinuxList \/ LinuxGet \/ WindowsList \/ WindowsGet \/ WindowsLogs
  \/ LinuxSnapshot \/ WindowsSnapshot
  \/ Project

Spec == Init /\ [][Next]_toolVars

-----------------------------------------------------------------------------
(* Properties. *)

Named(names) == answer # None /\ answer.name \in names

\* No list, of Linux or of Windows, passes for complete when it is not: its counts add
\* up, what the limit or the cap of a collector left out is told, an error is never an
\* empty list that is "ok" or a thing that does not exist, and a page of the Windows log
\* that is not truncated has every entry asked for.
ListsAreHonest ==
  /\ Named({"list_services", "list_filesystems", "list_listeners", "windows_list",
            "windows_volumes"}) =>
       /\ IsHonest(answer.list, answer.rows, answer.limit)
       /\ CapIsTold(answer.list, answer.rows, answer.cap)
  /\ Named({"get"}) /\ answer.found = "RESOURCE_NOT_FOUND" => Admitted(answer.rows) = {}
  /\ Named({"windows_logs"}) /\ ~answer.list.truncated =>
       answer.list.items = Admitted(answer.rows)

\* "Incomplete enumeration can never assert recovery": a snapshot that claims to cover
\* the volumes or the services has a finding for each that is full or has failed, and
\* accounts for every row of that section, however its sections were cut to fit.
RecoveryIsEarned ==
  Named({"snapshot"}) /\ answer.content.sent =>
    /\ IsEarned(answer.content.volumes, answer.volumes, answer.volumes)
    /\ IsEarned(answer.content.services, answer.services, Admitted(answer.services))

\* What a model is shown of a result fits the limits whatever the result is, and of
\* every place where it was cut the omissions tell, or the list of these says that it is
\* cut itself.
ProjectionIsHonest == Named({"projection"}) => IsBoundedHonestly(answer.projection)

=============================================================================
