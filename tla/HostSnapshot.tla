---------------------------- MODULE HostSnapshot -----------------------------
(***************************************************************************)
(* The content of a snapshot: collect() of src/core/snapshot-manager.ts and  *)
(* buildWindowsSnapshot() of src/windows/snapshot.ts, over the lists of      *)
(* HostLists.  When the control plane may take a finding that is absent for  *)
(* a recovery depends on what a snapshot claims to cover.                    *)
(*                                                                         *)
(* Of a row `admitted` now says that it is something to report, a volume     *)
(* that is full or a service that has failed, and `owned` that its values    *)
(* are known; df and systemctl know all of them.  The sections of processes  *)
(* and listeners go the way of the two modelled here, and before them.       *)
(***************************************************************************)
EXTENDS HostLists

CONSTANT Retained   \* rows a section keeps (50)

ASSUME SnapshotAssumption == Retained \in Nat \ {0}

\* safe(): a collector that throws leaves no list.
NoList == [items |-> {}, original |-> 0, omitted |-> 0, status |-> "thrown"]
safe(list, thrown) == IF thrown THEN NoList ELSE list

\* What the agent can see of a row.
Reported(r) == r.admitted /\ r.owned

\* Mutant of findings: they are made of the rows that are kept.
findingsRetained(list) == {r \in AtMost(list.items, Retained) : Reported(r)}

\* Of all rows, the ones not kept included.
findings(list) == {r \in list.items : Reported(r)}

Section(kept, list, known) ==
  [kept |-> AtMost(kept, Retained), findings |-> findings(list),
   truncation |-> list.omitted + Beyond(kept, Retained),
   complete |-> list.status = "ok" /\ list.omitted = 0 /\ known]

\* The loop that pops rows of the sections, the volumes first, while the snapshot is
\* too large; it is dropped if it still is.  A row or a finding has the size of one.
Fitted(volumes, services, size) ==
  LET required == Cardinality(volumes.findings) + Cardinality(services.findings)
      rows == Cardinality(volumes.kept) + Cardinality(services.kept)
      excess == Max({0, required + rows - size})
      ofVolumes == Min({excess, Cardinality(volumes.kept)})
      ofServices == Min({excess - ofVolumes, Cardinality(services.kept)})
      Popped(s, n) == [s EXCEPT !.kept = AtMost(@, Cardinality(@) - n), !.truncation = @ + n]
  IN [sent |-> ofVolumes + ofServices = excess,
      volumes |-> Popped(volumes, ofVolumes), services |-> Popped(services, ofServices)]

\* On Linux every volume is listed, and the failed services up to a limit.
linuxSnapshot(volumes, services, thrown, size) ==
  LET v == safe(Listed(volumes, Cardinality(volumes), "ok"), "volumes" \in thrown)
      s == safe(listServices(services, Retained), "services" \in thrown)
  IN Fitted(Section(v.items, v, TRUE), Section(s.items, s, TRUE), size)

\* On Windows volumes and services are listed up to the cap of the collectors, and what
\* has failed is looked for among the services; a value unknown is no evidence.
windowsSnapshot(volumes, services, broken, thrown, size) ==
  LET v == safe(windowsVolumes(volumes, broken["volumes"], NativeCap), "volumes" \in thrown)
      s == safe(windowsVolumes(services, broken["services"], NativeCap), "services" \in thrown)
      AllKnown(list) == \A r \in list.items : r.owned
  IN Fitted(Section(v.items, v, AllKnown(v)),
            Section(findings(s), s, AllKnown(s)), size)

-----------------------------------------------------------------------------
(* Properties of a section, made of these rows. *)

\* A section that claims to be complete has a finding for each row there is to report,
\* and accounts for each of these `listed` rows.
IsEarned(section, rows, listed) ==
  section.complete =>
    /\ Admitted(rows) \subseteq section.findings
    /\ Cardinality(section.kept) + section.truncation = Cardinality(listed)

=============================================================================
