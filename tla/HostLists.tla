------------------------------ MODULE HostLists -------------------------------
(***************************************************************************)
(* The lists that are the answer of one command: services, listeners and     *)
(* filesystems of src/adapters, and those of src/windows/live.ts, whose       *)
(* collectors may have been capped, denied or cut short.                     *)
(*                                                                         *)
(* A row is a record: its place in the order of the list, its size, whether   *)
(* the filters of the request admit it, and whether its owner is known.  A    *)
(* list is the set of its rows: their places tell its order.                 *)
(***************************************************************************)
EXTENDS Integers, FiniteSets, FiniteSetsExt

CONSTANT NativeCap   \* rows a native collector returns at most (1000)

ASSUME ListAssumption == NativeCap \in Nat \ {0}

IsRows(rows) ==
  /\ IsFiniteSet(rows)
  /\ rows \subseteq [place : Nat, size : Nat, admitted : BOOLEAN, owned : BOOLEAN]
  /\ \A r, q \in rows : r.place = q.place => r = q

Before(rows, r) == {q \in rows : q.place < r.place}
AtMost(rows, n) == {r \in rows : Cardinality(Before(rows, r)) < n}
Admitted(rows) == {r \in rows : r.admitted}
Beyond(rows, n) == Cardinality(rows) - Cardinality(AtMost(rows, n))

\* The shape of a list: what the request leaves, in order, up to its limit.
Listed(items, limit, status) ==
  [items |-> AtMost(items, limit), original |-> Cardinality(items),
   omitted |-> Beyond(items, limit), status |-> status]

Limited(rows, limit, status) == Listed(Admitted(rows), limit, status)

-----------------------------------------------------------------------------
(* Linux. *)

\* runCommand(): how a command may end, and the error each end but "ok" is.  A command
\* that printed some of its rows and then failed has failed.
runCommand ==
  [killed |-> "TOOL_TIMEOUT", aborted |-> "TOOL_TIMEOUT", missing |-> "COMMAND_UNAVAILABLE",
   denied |-> "PERMISSION_DENIED", overflow |-> "OUTPUT_TOO_LARGE", failed |-> "HOST_UNAVAILABLE"]

listServices(rows, limit) == Limited(rows, limit, "ok")

\* The pseudo filesystems are among the rows that may not be admitted.
listFilesystems(rows, limit) == Limited(rows, limit, "ok")

\* A listener with an unknown owner makes the list partial, even one beyond the limit.
listListeners(rows, limit) ==
  Limited(rows, limit, IF \E r \in Admitted(rows) : ~r.owned THEN "partial" ELSE "ok")

\* get() of a service: systemctl answers for a unit it does not have as well.
getService(rows, end) ==
  IF end # "ok" THEN runCommand[end]
  ELSE IF Admitted(rows) = {} THEN "RESOURCE_NOT_FOUND" ELSE "found"

-----------------------------------------------------------------------------
(* Windows. *)

\* The finish and the catch of the scripts, of rows no more than these; `broken` is the
\* error of a collector that could not finish, or "no".
native(rows, cap, broken) ==
  IF broken # "no" THEN [items |-> {}, truncated |-> FALSE, status |-> broken]
  ELSE LET capped == Cardinality(rows) > cap
       IN [items |-> AtMost(rows, cap), truncated |-> capped,
           status |-> IF capped THEN "partial" ELSE "ok"]

collect(result, limit) ==
  LET items == IF result.status \in {"permission_denied", "unavailable"} THEN {} ELSE result.items
      original == Cardinality(items) + (IF result.truncated THEN 1 ELSE 0)
      retained == AtMost(items, limit)
  IN [items |-> retained, original |-> original, omitted |-> original - Cardinality(retained),
      status |-> IF result.truncated /\ result.status = "ok" THEN "partial" ELSE result.status]

\* Mutant of filter: what the collector had omitted is forgotten.
filterAnew(list, limit) ==
  LET filtered == Admitted(list.items)
  IN [list EXCEPT !.items = AtMost(filtered, limit), !.original = Cardinality(filtered),
                  !.omitted = Beyond(filtered, limit)]

\* filter(), after the filters of the tool itself.
filter(list, limit) ==
  LET filtered == Admitted(list.items)
  IN [list EXCEPT !.items = AtMost(filtered, limit),
                  !.original = Cardinality(filtered) + list.omitted,
                  !.omitted = list.omitted + Beyond(filtered, limit)]

\* listProcesses(), listServices() and listListeners().
windowsList(rows, broken, limit) ==
  filter(collect(native(rows, NativeCap, broken), NativeCap), limit)

\* listFilesystems(), which has no filter.
windowsVolumes(rows, broken, limit) == collect(native(rows, NativeCap, broken), limit)

\* getProcess() and getService(): one row, of complete evidence only.
windowsGet(rows, broken) ==
  LET list == collect(native(Admitted(rows), NativeCap, broken), 1)
  IN IF list.status = "permission_denied" THEN "PERMISSION_DENIED"
     ELSE IF list.status # "ok" THEN "HOST_UNAVAILABLE"
     ELSE IF list.items = {} THEN "RESOURCE_NOT_FOUND" ELSE "found"

\* queryLogs(): the collector gives no more than the page asked for, and entries are
\* dropped from the end until their sizes fit.  That the collector stops at the same
\* number of bytes shows as the same "truncated" and is left out.
windowsLogs(rows, broken, limit, bytes) ==
  LET result == collect(native(rows, limit, broken), NativeCap)
      filtered == Admitted(result.items)
      upto(r) == MapThenSumSet(LAMBDA q : q.size, Before(filtered, r) \cup {r})
      entries == {r \in AtMost(filtered, limit) : upto(r) <= bytes}
  IN [items |-> entries, original |-> Cardinality(filtered),
      omitted |-> Cardinality(filtered) - Cardinality(entries), status |-> result.status,
      truncated |-> \/ result.omitted > 0 \/ result.status # "ok"
                    \/ Cardinality(entries) < Cardinality(filtered)]

-----------------------------------------------------------------------------
(* Properties of a list of these rows. *)

\* A list says what it leaves out: its counts add up, and if it is "ok" and omits
\* nothing it has every row the request asks for.
IsHonest(list, rows, limit) ==
  /\ Cardinality(list.items) <= limit
  /\ list.original = Cardinality(list.items) + list.omitted
  /\ list.status = "ok" /\ list.omitted = 0 => list.items = Admitted(rows)

\* When the native collector was capped, the list is partial and omits at least one.
CapIsTold(list, rows, cap) ==
  Cardinality(rows) > cap /\ list.status \in {"ok", "partial"} =>
    list.status = "partial" /\ list.omitted >= 1

=============================================================================
