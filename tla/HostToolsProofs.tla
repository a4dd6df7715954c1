--------------------------- MODULE HostToolsProofs ----------------------------
(***************************************************************************)
(* Proofs about HostTools: what its four properties of the read tools say    *)
(* holds of every host, whatever its processes, its journal and the rows of  *)
(* its collectors.                                                          *)
(*                                                                         *)
(* First lemmas of arithmetic, the rows that a list keeps, and the lists of  *)
(* one command; then the pages of the journal, and the processes.  The       *)
(* inductive invariant is at the end.                                       *)
(***************************************************************************)
EXTENDS HostTools, FiniteSetTheorems, WellFoundedInduction, TLAPS

-----------------------------------------------------------------------------
(* Numbers and sets. *)

\* The order of the naturals is well founded: no induction is needed, a smallest
\* counterexample will do.
LEMMA Smallest ==
  ASSUME NEW T \in SUBSET Nat, T # {}
  PROVE  \E m \in T : \A n \in T : m <= n
<1>1. PICK m \in T : \A n \in T : ~(<<n, m>> \in OpToRel(<, Nat))
  BY WFMin, NatLessThanWellFounded
<1>2. ASSUME NEW n \in T PROVE m <= n
  <2>1. m \in Nat /\ n \in Nat
    OBVIOUS
  <2>2. ~(<<n, m>> \in {s \in Nat \X Nat : s[1] < s[2]})
    BY <1>1 DEF OpToRel
  <2>3. ~(n < m)
    BY <2>1, <2>2
  <2> QED BY <2>1, <2>3
<1> QED BY <1>2

\* A bounded set of naturals has a largest.
LEMMA Largest ==
  ASSUME NEW T \in SUBSET Nat, T # {}, NEW b \in Nat, \A n \in T : n <= b
  PROVE  \E m \in T : \A n \in T : n <= m
<1> DEFINE D == {b - n : n \in T}
<1>1. D \in SUBSET Nat /\ D # {}
  <2>1. \A n \in T : n \in Nat /\ b - n \in Nat
    OBVIOUS
  <2> QED BY <2>1
<1>2. PICK d \in D : \A n \in D : d <= n
  BY <1>1, Smallest
<1>3. PICK m \in T : d = b - m
  BY <1>2
<1>4. ASSUME NEW n \in T PROVE n <= m
  <2>1. b - m <= b - n
    BY <1>2, <1>3
  <2> QED BY <2>1
<1> QED BY <1>4

\* Min, of a set of naturals.
LEMMA MinOf ==
  ASSUME NEW T \in SUBSET Nat, T # {}
  PROVE  Min(T) \in T /\ \A n \in T : Min(T) <= n
<1>1. \E m \in T : \A n \in T : m <= n
  BY Smallest
<1> QED BY <1>1 DEF Min

-----------------------------------------------------------------------------
(* The rows that a list keeps. *)

\* A part of rows is rows.
LEMMA SomeRows ==
  ASSUME NEW S, IsRows(S), NEW T \in SUBSET S
  PROVE  IsRows(T) /\ Cardinality(T) \in Nat /\ Cardinality(T) <= Cardinality(S)
<1>1. IsFiniteSet(T) /\ Cardinality(T) <= Cardinality(S)
  BY FS_Subset DEF IsRows
<1> QED BY <1>1, FS_CardinalityType DEF IsRows

\* How many rows come before one tells its place among them.
LEMMA Rank ==
  ASSUME NEW S, IsRows(S), NEW r \in S
  PROVE  /\ Cardinality(Before(S, r)) \in Nat
         /\ Cardinality(Before(S, r)) < Cardinality(S)
         /\ \A q \in S : r.place < q.place =>
              Cardinality(Before(S, r)) < Cardinality(Before(S, q))
<1> \A q \in S : q.place \in Nat
  BY DEF IsRows
<1>1. ASSUME NEW T \in SUBSET S, r \in T, Before(S, r) \subseteq T
      PROVE  Cardinality(Before(S, r)) < Cardinality(T)
  <2>1. IsFiniteSet(T) /\ Cardinality(T) \in Nat
    BY FS_Subset, FS_CardinalityType DEF IsRows
  <2>2. Before(S, r) \in SUBSET (T \ {r})
    BY <1>1 DEF Before
  <2>3. IsFiniteSet(T \ {r}) /\ Cardinality(T \ {r}) = Cardinality(T) - 1
    BY <1>1, <2>1, FS_RemoveElement
  <2>4. Cardinality(Before(S, r)) \in Nat /\ Cardinality(Before(S, r)) <= Cardinality(T \ {r})
    BY <2>2, <2>3, FS_Subset, FS_CardinalityType
  <2> QED BY <2>1, <2>3, <2>4
<1>2. Before(S, r) \in SUBSET S
  BY DEF Before
<1>3. Cardinality(Before(S, r)) < Cardinality(S)
  BY <1>1, <1>2
<1>4. ASSUME NEW q \in S, r.place < q.place
      PROVE  Cardinality(Before(S, r)) < Cardinality(Before(S, q))
  <2>1. Before(S, q) \in SUBSET S /\ r \in Before(S, q) /\ Before(S, r) \subseteq Before(S, q)
    BY <1>4 DEF Before
  <2> QED BY <1>1, <2>1
<1> QED BY <1>2, <1>3, <1>4, SomeRows

\* AtMost: it keeps as many rows as asked for, and all if there are no more.
LEMMA Keeping ==
  ASSUME NEW S, IsRows(S), NEW n \in Nat
  PROVE  /\ AtMost(S, n) \subseteq S /\ IsRows(AtMost(S, n))
         /\ Cardinality(AtMost(S, n)) \in Nat /\ Cardinality(S) \in Nat
         /\ Cardinality(AtMost(S, n)) <= n
         /\ n <= Cardinality(S) => Cardinality(AtMost(S, n)) = n
         /\ Cardinality(S) <= n => AtMost(S, n) = S
<1> DEFINE A == AtMost(S, n)
           Place(r) == Cardinality(Before(S, r))
<1>1. A \in SUBSET S /\ IsRows(A) /\ Cardinality(A) \in Nat /\ Cardinality(S) \in Nat
  <2>1. A \in SUBSET S
    BY DEF AtMost
  <2> QED BY <2>1, SomeRows
<1>2. \A r \in S : Place(r) \in Nat /\ Place(r) < Cardinality(S)
  BY Rank
<1>3. IsFiniteSet(S) /\ \A r \in S : r.place \in Nat
  BY DEF IsRows
<1>4. Cardinality(A) <= n
  <2>1. CASE A = {}
    BY <2>1, FS_EmptySet
  <2>2. CASE A # {}
    <3> DEFINE T == {Place(r) : r \in A}
    <3>1. T \in SUBSET Nat /\ T # {} /\ \A t \in T : t <= n
      BY <1>1, <1>2, <2>2 DEF AtMost
    <3>2. PICK t \in T : \A u \in T : u <= t
      BY <3>1, Largest
    <3>3. PICK r \in A : t = Place(r)
      BY <3>2
    <3>4. \A q \in A : Place(q) <= Place(r)
      BY <3>2, <3>3
    <3>5. A \in SUBSET (Before(S, r) \cup {r})
      <4>1. ASSUME NEW q \in A PROVE q \in Before(S, r) \cup {r}
        <5>1. ~(r.place < q.place)
          BY <1>1, <1>2, <3>4, Rank
        <5>2. q.place = r.place => q = r
          BY <1>1 DEF IsRows
        <5> QED BY <1>1, <1>3, <5>1, <5>2 DEF Before
      <4> QED BY <4>1
    <3>6. IsFiniteSet(Before(S, r)) /\ r \notin Before(S, r)
      <4>1. Before(S, r) \in SUBSET S
        BY DEF Before
      <4> QED BY <1>1, <1>3, <4>1, FS_Subset DEF Before
    <3>7. /\ IsFiniteSet(Before(S, r) \cup {r})
          /\ Cardinality(Before(S, r) \cup {r}) = Place(r) + 1
      BY <3>6, FS_AddElement
    <3>8. Cardinality(A) <= Place(r) + 1
      BY <3>5, <3>7, FS_Subset
    <3>9. Place(r) < n
      BY DEF AtMost
    <3> QED BY <1>1, <1>2, <3>8, <3>9
  <2> QED BY <2>1, <2>2
<1>5. Cardinality(S) <= n => A = S
  BY <1>1, <1>2 DEF AtMost
<1>6. ASSUME n <= Cardinality(S) PROVE Cardinality(A) = n
  <2>1. CASE A = S
    BY <1>1, <1>4, <1>6, <2>1
  <2>2. CASE A # S
    <3> DEFINE T == {Place(r) : r \in S \ A}
    <3>1. T \in SUBSET Nat /\ T # {}
      BY <1>1, <1>2, <2>2
    <3>2. PICK t \in T : \A u \in T : t <= u
      BY <3>1, Smallest
    <3>3. PICK r \in S \ A : t = Place(r)
      BY <3>2
    <3>4. Before(S, r) \in SUBSET A
      <4>1. ASSUME NEW q \in Before(S, r) PROVE q \in A
        <5>1. q \in S /\ q.place < r.place
          BY DEF Before
        <5>2. Place(q) < Place(r)
          BY <5>1, Rank
        <5>3. q \in S \ A => Place(r) <= Place(q)
          BY <3>2, <3>3
        <5> QED BY <1>2, <5>1, <5>2, <5>3
      <4> QED BY <4>1
    <3>5. Place(r) <= Cardinality(A)
      BY <1>1, <3>4, FS_Subset DEF IsRows
    <3>6. ~(Place(r) < n)
      BY DEF AtMost
    <3> QED BY <1>1, <1>2, <1>4, <3>5, <3>6
  <2> QED BY <2>1, <2>2
<1> QED BY <1>1, <1>4, <1>5, <1>6

-----------------------------------------------------------------------------
(* The lists of one command. *)

\* A list of rows up to a limit counts what it leaves out.
LEMMA Counted ==
  ASSUME NEW S, IsRows(S), NEW limit \in Nat
  PROVE  /\ Beyond(S, limit) \in Nat
         /\ Cardinality(S) = Cardinality(AtMost(S, limit)) + Beyond(S, limit)
         /\ Beyond(S, limit) = 0 => AtMost(S, limit) = S
<1>1. Cardinality(AtMost(S, limit)) <= Cardinality(S)
  BY Keeping, SomeRows
<1>2. Cardinality(AtMost(S, limit)) = Cardinality(S) => AtMost(S, limit) = S
  BY Keeping, FS_Subset DEF IsRows
<1>3. Cardinality(S) \in Nat /\ Cardinality(AtMost(S, limit)) \in Nat
  BY Keeping
<1>4. Beyond(S, limit) = Cardinality(S) - Cardinality(AtMost(S, limit))
  BY DEF Beyond
<1> QED BY <1>1, <1>2, <1>3, <1>4

\* The rows that a request admits are rows.
LEMMA AdmittedRows ==
  ASSUME NEW S, IsRows(S)
  PROVE  Admitted(S) \subseteq S /\ IsRows(Admitted(S))
BY SomeRows DEF Admitted

\* A list that is not capped is honest, whatever its status.
LEMMA LinuxListIsHonest ==
  ASSUME NEW rows, IsRows(rows), NEW limit \in Nat, NEW status
  PROVE  IsHonest(Limited(rows, limit, status), rows, limit)
BY AdmittedRows, Keeping, Counted DEF Limited, Listed, IsHonest

\* What a native collector gives of rows: all of them if it says "ok".
LEMMA Collector ==
  ASSUME NEW rows, IsRows(rows), NEW cap \in Nat, NEW broken \in Broken
  PROVE  LET result == native(rows, cap, broken)
         IN /\ IsRows(result.items) /\ result.truncated \in BOOLEAN
            /\ result.status \in {"ok", "partial", "permission_denied", "unavailable"}
            /\ result.status = "ok" => ~result.truncated /\ result.items = rows
            /\ result.status = "partial" <=> result.truncated
            /\ Cardinality(rows) > cap => result.status # "ok"
<1>1. CASE broken = "no"
  <2>1. /\ IsRows(AtMost(rows, cap)) /\ Cardinality(rows) \in Nat
        /\ Cardinality(rows) <= cap => AtMost(rows, cap) = rows
    BY Keeping
  <2>2. CASE Cardinality(rows) > cap
    <3>1. native(rows, cap, broken) =
            [items |-> AtMost(rows, cap), truncated |-> TRUE, status |-> "partial"]
      BY <1>1, <2>2, Zenon DEF native
    <3> QED BY <2>1, <2>2, <3>1
  <2>3. CASE ~(Cardinality(rows) > cap)
    <3>1. native(rows, cap, broken).truncated \in BOOLEAN
      BY <1>1 DEF native
    <3>2. ~native(rows, cap, broken).truncated
      BY <1>1, <2>3 DEF native
    <3>3. native(rows, cap, broken).items = AtMost(rows, cap)
      BY <1>1 DEF native
    <3>4. native(rows, cap, broken).status = "ok"
      BY <1>1, <2>3 DEF native
    <3> QED BY <2>1, <2>3, <3>1, <3>2, <3>3, <3>4
  <2> QED BY <2>2, <2>3
<1>2. CASE broken # "no"
  <2>1. IsRows({})
    BY SomeRows
  <2> QED BY <1>2, <2>1 DEF native, Broken
<1> QED BY <1>1, <1>2

\* And what the host makes of it.
LEMMA Collected ==
  ASSUME NEW rows, IsRows(rows), NEW cap \in Nat, NEW broken \in Broken, NEW limit \in Nat
  PROVE  LET list == collect(native(rows, cap, broken), limit)
         IN /\ IsRows(list.items) /\ Cardinality(list.items) <= limit /\ list.omitted \in Nat
            /\ list.original = Cardinality(list.items) + list.omitted
            /\ list.status \in {"ok", "partial", "permission_denied", "unavailable"}
            /\ list.status = "ok" =>
                 /\ list.items = AtMost(rows, limit)
                 /\ list.original = Cardinality(rows)
                 /\ list.omitted = 0 => list.items = rows
            /\ list.status = "partial" => list.omitted >= 1
            /\ Cardinality(rows) > cap => list.status # "ok"
<1> DEFINE result == native(rows, cap, broken)
           list == collect(result, limit)
           gone == IF result.truncated THEN 1 ELSE 0
<1>1. /\ IsRows(result.items) /\ result.truncated \in BOOLEAN
      /\ result.status \in {"ok", "partial", "permission_denied", "unavailable"}
      /\ result.status = "ok" => ~result.truncated /\ result.items = rows
      /\ result.status = "partial" <=> result.truncated
      /\ Cardinality(rows) > cap => result.status # "ok"
  BY Collector
<1> HIDE DEF result, list
<1>2. list.status = result.status
  BY <1>1 DEF collect, list
<1>3. PICK S : /\ S = IF result.status \in {"permission_denied", "unavailable"} THEN {}
                      ELSE result.items
               /\ IsRows(S)
  BY <1>1, SomeRows
<1>4. /\ list.items = AtMost(S, limit) /\ list.original = Cardinality(S) + gone
      /\ list.omitted = Cardinality(S) + gone - Cardinality(AtMost(S, limit))
  <2>1. list.items = AtMost(S, limit)
    BY <1>3 DEF collect, list
  <2>2. list.original = Cardinality(S) + gone
    BY <1>3 DEF collect, list
  <2>3. list.omitted = list.original - Cardinality(list.items)
    BY DEF collect, list
  <2>4. Cardinality(S) \in Nat /\ Cardinality(AtMost(S, limit)) \in Nat /\ gone \in Nat
    BY <1>3, Keeping
  <2> QED BY <2>1, <2>2, <2>3, <2>4
<1>5. /\ IsRows(list.items) /\ Cardinality(list.items) <= limit
      /\ Cardinality(list.items) \in Nat /\ Cardinality(S) \in Nat
  BY <1>3, <1>4, Keeping
<1>6. list.omitted = Beyond(S, limit) + gone /\ Beyond(S, limit) \in Nat
  BY <1>3, <1>4, <1>5, Counted DEF Beyond
<1>7. list.original = Cardinality(list.items) + list.omitted
  BY <1>3, <1>4, <1>5, <1>6
<1>8. list.status = "ok" => S = rows /\ gone = 0
  BY <1>1, <1>2, <1>3
<1>9. list.status = "ok" =>
        /\ list.items = AtMost(rows, limit)
        /\ list.original = Cardinality(rows)
        /\ list.omitted = 0 => list.items = rows
  <2>1. Beyond(S, limit) = 0 => AtMost(S, limit) = S
    BY <1>3, Counted
  <2> QED BY <1>4, <1>5, <1>6, <1>8, <2>1
<1>10. list.status = "partial" => list.omitted >= 1
  BY <1>1, <1>2, <1>6
<1>11. list.omitted \in Nat
  BY <1>6
<1> QED BY <1>1, <1>2, <1>5, <1>7, <1>9, <1>10, <1>11 DEF list, result

\* The lists that are left.
LEMMA WindowsListIsHonest ==
  ASSUME NEW rows, IsRows(rows), NEW broken \in Broken, NEW limit \in Nat
  PROVE  /\ IsHonest(windowsList(rows, broken, limit), rows, limit)
         /\ CapIsTold(windowsList(rows, broken, limit), rows, NativeCap)
<1> DEFINE list == collect(native(rows, NativeCap, broken), NativeCap)
           left == Admitted(list.items)
           final == windowsList(rows, broken, limit)
<1>0. NativeCap \in Nat
  BY ListAssumption
<1>1. /\ IsRows(list.items) /\ list.omitted \in Nat
      /\ list.status = "ok" /\ list.omitted = 0 => list.items = rows
      /\ list.status = "partial" => list.omitted >= 1
      /\ Cardinality(rows) > NativeCap => list.status # "ok"
  BY <1>0, Collected
<1>2. /\ final.items = AtMost(left, limit)
      /\ final.original = Cardinality(left) + list.omitted
      /\ final.omitted = list.omitted + Beyond(left, limit)
      /\ final.status = list.status
  BY DEF windowsList, filter, collect
<1> HIDE DEF list, final
<1>3. IsRows(left)
  BY <1>1, AdmittedRows
<1> HIDE DEF left
<1>4. /\ Cardinality(AtMost(left, limit)) <= limit
      /\ Cardinality(AtMost(left, limit)) \in Nat /\ Beyond(left, limit) \in Nat
      /\ Cardinality(left) = Cardinality(AtMost(left, limit)) + Beyond(left, limit)
      /\ Beyond(left, limit) = 0 => AtMost(left, limit) = left
  BY <1>3, Keeping, Counted
<1>5. final.original = Cardinality(final.items) + final.omitted
  BY <1>1, <1>2, <1>4
<1>6. final.omitted = 0 => list.omitted = 0 /\ Beyond(left, limit) = 0
  BY <1>1, <1>2, <1>4
<1>7. final.status = "ok" /\ final.omitted = 0 => final.items = Admitted(rows)
  BY <1>1, <1>2, <1>4, <1>6 DEF left
<1>8. final.status = "partial" => final.omitted >= 1
  BY <1>1, <1>2, <1>4
<1>9. IsHonest(final, rows, limit)
  BY <1>2, <1>4, <1>5, <1>7 DEF IsHonest
<1>10. CapIsTold(final, rows, NativeCap)
  BY <1>1, <1>2, <1>8 DEF CapIsTold
<1> QED BY <1>9, <1>10 DEF final

\* The volumes, which are not.
LEMMA WindowsVolumesAreHonest ==
  ASSUME NEW rows, IsRows(rows), NEW broken \in Broken, NEW limit \in Nat,
         \A r \in rows : r.admitted
  PROVE  /\ IsHonest(windowsVolumes(rows, broken, limit), rows, limit)
         /\ CapIsTold(windowsVolumes(rows, broken, limit), rows, NativeCap)
<1>1. NativeCap \in Nat
  BY ListAssumption
<1>2. Admitted(rows) = rows
  BY DEF Admitted
<1>3. IsHonest(windowsVolumes(rows, broken, limit), rows, limit)
  BY <1>1, <1>2, Collected DEF windowsVolumes, IsHonest
<1>4. CapIsTold(windowsVolumes(rows, broken, limit), rows, NativeCap)
  BY <1>1, Collected DEF windowsVolumes, CapIsTold
<1> QED BY <1>3, <1>4

\* A thing is said not to exist only if no row is admitted.
LEMMA NotFoundIsGone ==
  ASSUME NEW rows, IsRows(rows), NEW broken \in Broken,
         windowsGet(rows, broken) = "RESOURCE_NOT_FOUND"
  PROVE  Admitted(rows) = {}
<1> DEFINE list == collect(native(Admitted(rows), NativeCap, broken), 1)
<1>1. NativeCap \in Nat /\ IsRows(Admitted(rows))
  BY ListAssumption, AdmittedRows
<1>2. list.status = "ok" => list.items = AtMost(Admitted(rows), 1)
  BY <1>1, Collected
<1>3. list.status = "ok" /\ list.items = {}
  BY DEF windowsGet
<1>4. Cardinality(AtMost(Admitted(rows), 1)) = 0
  BY <1>2, <1>3, FS_EmptySet
<1>5. ~(1 <= Cardinality(Admitted(rows))) /\ Cardinality(Admitted(rows)) \in Nat
  BY <1>1, <1>4, Keeping
<1> QED BY <1>1, <1>5, FS_EmptySet DEF IsRows

\* A page of the log that is not truncated has all that was asked for.
LEMMA LogIsWhole ==
  ASSUME NEW rows, IsRows(rows), NEW broken \in Broken, NEW limit \in Nat, NEW bytes,
         ~windowsLogs(rows, broken, limit, bytes).truncated
  PROVE  windowsLogs(rows, broken, limit, bytes).items = Admitted(rows)
<1> DEFINE result == collect(native(rows, limit, broken), NativeCap)
           left == Admitted(result.items)
           logs == windowsLogs(rows, broken, limit, bytes)
<1>1. /\ IsRows(result.items) /\ result.omitted \in Nat
      /\ result.status = "ok" /\ result.omitted = 0 => result.items = rows
  BY ListAssumption, Collected
<1>2. /\ ~(result.omitted > 0) /\ result.status = "ok"
      /\ ~(Cardinality(logs.items) < Cardinality(left))
  BY DEF windowsLogs
<1>3. logs.items \in SUBSET left
  BY DEF windowsLogs, AtMost
<1> HIDE DEF result, logs
<1>4. result.items = rows
  BY <1>1, <1>2
<1>5. IsRows(left)
  BY <1>1, AdmittedRows
<1>6. /\ Cardinality(logs.items) <= Cardinality(left)
      /\ Cardinality(logs.items) \in Nat /\ Cardinality(left) \in Nat
      /\ Cardinality(left) = Cardinality(logs.items) => left = logs.items
  BY <1>3, <1>5, FS_Subset, SomeRows DEF IsRows
<1>7. logs.items = left
  BY <1>2, <1>6
<1> QED BY <1>4, <1>7 DEF logs

-----------------------------------------------------------------------------
(* The sections of a snapshot. *)

\* Popping rows of a section, no more than it has, counts each of them.
LEMMA Popping ==
  ASSUME NEW K, IsRows(K), NEW n \in Nat, n <= Cardinality(K)
  PROVE  Cardinality(AtMost(K, Cardinality(K) - n)) = Cardinality(K) - n
<1>1. Cardinality(K) \in Nat
  BY Keeping
<1>2. \A k \in Nat : n <= k => k - n \in Nat /\ k - n <= k
  OBVIOUS
<1> QED BY <1>1, <1>2, Keeping

IsSection(s) ==
  /\ s = [kept |-> s.kept, findings |-> s.findings, truncation |-> s.truncation,
          complete |-> s.complete]
  /\ IsRows(s.kept) /\ IsFiniteSet(s.findings) /\ s.truncation \in Nat

\* A section made of the rows of a list is earned, if the list is what it says.
LEMMA Sections ==
  ASSUME NEW K, IsRows(K), NEW list, IsRows(list.items), list.omitted \in Nat,
         NEW sure \in BOOLEAN, NEW rows, NEW listed,
         list.status = "ok" /\ list.omitted = 0 /\ sure =>
           K = listed /\ Admitted(rows) \subseteq findings(list)
  PROVE  /\ IsSection(Section(K, list, sure))
         /\ IsEarned(Section(K, list, sure), rows, listed)
<1> DEFINE s == Section(K, list, sure)
<1>1. /\ s = [kept |-> s.kept, findings |-> s.findings, truncation |-> s.truncation,
             complete |-> s.complete]
      /\ s.kept = AtMost(K, Retained) /\ s.findings = findings(list)
      /\ s.truncation = list.omitted + Beyond(K, Retained)
      /\ s.complete = (list.status = "ok" /\ list.omitted = 0 /\ sure)
  BY DEF Section
<1> HIDE DEF s
<1>2. IsRows(s.kept) /\ IsFiniteSet(s.findings)
  <2>1. findings(list) \in SUBSET list.items
    BY DEF findings
  <2> QED BY <1>1, <2>1, SnapshotAssumption, Keeping, FS_Subset DEF IsRows
<1>3. Beyond(K, Retained) \in Nat /\ Cardinality(K) = Cardinality(s.kept) + Beyond(K, Retained)
  BY <1>1, SnapshotAssumption, Counted
<1>4. s.complete => /\ list.omitted = 0 /\ K = listed
                    /\ Admitted(rows) \subseteq findings(list)
  BY <1>1, Zenon
<1>5. IsSection(s)
  BY <1>1, <1>2, <1>3 DEF IsSection
<1>6. IsEarned(s, rows, listed)
  BY <1>1, <1>3, <1>4 DEF IsEarned
<1> QED BY <1>5, <1>6 DEF s

PoppedBy(s, n) ==
  [s EXCEPT !.kept = AtMost(@, Cardinality(@) - n), !.truncation = @ + n]

\* Popping the last n rows of a section counts each of them and keeps its findings.
LEMMA Popped ==
  ASSUME NEW s, IsSection(s), NEW n \in Nat, n <= Cardinality(s.kept),
         NEW rows, NEW listed, IsEarned(s, rows, listed)
  PROVE  IsEarned(PoppedBy(s, n), rows, listed)
<1> DEFINE k == AtMost(s.kept, Cardinality(s.kept) - n)
<1>1. /\ PoppedBy(s, n).kept = k /\ PoppedBy(s, n).findings = s.findings
      /\ PoppedBy(s, n).truncation = s.truncation + n
      /\ PoppedBy(s, n).complete = s.complete
  BY DEF IsSection, PoppedBy
<1>2. Cardinality(k) + (s.truncation + n) = Cardinality(s.kept) + s.truncation
  <2>1. Cardinality(s.kept) \in Nat /\ s.truncation \in Nat
    BY Keeping DEF IsSection
  <2>2. Cardinality(k) = Cardinality(s.kept) - n
    BY Popping DEF IsSection
  <2> QED BY <2>1, <2>2
<1> QED BY <1>1, <1>2 DEF IsEarned

\* Fitted pops no more rows of a section than it has.
LEMMA FittedSections ==
  ASSUME NEW v, IsSection(v), NEW s, IsSection(s), NEW size \in Nat
  PROVE  \E m, n \in Nat :
           /\ m <= Cardinality(v.kept) /\ n <= Cardinality(s.kept)
           /\ Fitted(v, s, size).volumes = PoppedBy(v, m)
           /\ Fitted(v, s, size).services = PoppedBy(s, n)
<1> DEFINE required == Cardinality(v.findings) + Cardinality(s.findings)
           rows == Cardinality(v.kept) + Cardinality(s.kept)
           excess == Max({0, required + rows - size})
           ofVolumes == Min({excess, Cardinality(v.kept)})
           ofServices == Min({excess - ofVolumes, Cardinality(s.kept)})
<1>1. /\ Cardinality(v.kept) \in Nat /\ Cardinality(v.findings) \in Nat
      /\ Cardinality(s.kept) \in Nat /\ Cardinality(s.findings) \in Nat
  BY Keeping, FS_CardinalityType DEF IsSection
<1>2. excess \in Nat
  <2>1. required + rows - size \in Int
    BY <1>1
  <2>2. ASSUME NEW a \in Int PROVE Max({0, a}) \in Nat
    <3>1. \E m \in {0, a} : \A n \in {0, a} : m >= n
      OBVIOUS
    <3>2. Max({0, a}) \in {0, a} /\ \A n \in {0, a} : Max({0, a}) >= n
      BY <3>1 DEF Max
    <3> QED BY <3>2
  <2> QED BY <2>1, <2>2
<1> HIDE DEF excess
<1>3. ASSUME NEW a \in Nat, NEW b \in Nat
      PROVE  Min({a, b}) \in Nat /\ Min({a, b}) <= a /\ Min({a, b}) <= b
  <2>1. Min({a, b}) \in {a, b} /\ \A n \in {a, b} : Min({a, b}) <= n
    BY MinOf
  <2> QED BY <2>1
<1>4. ofVolumes \in Nat /\ ofVolumes <= excess /\ ofVolumes <= Cardinality(v.kept)
  BY <1>1, <1>2, <1>3
<1> HIDE DEF ofVolumes
<1>5. ofServices \in Nat /\ ofServices <= Cardinality(s.kept)
  <2>1. excess - ofVolumes \in Nat
    BY <1>2, <1>4
  <2> QED BY <1>1, <1>3, <2>1
<1> HIDE DEF ofServices
<1>6. /\ Fitted(v, s, size).volumes = PoppedBy(v, ofVolumes)
      /\ Fitted(v, s, size).services = PoppedBy(s, ofServices)
  BY DEF Fitted, PoppedBy, required, rows, excess, ofVolumes, ofServices
<1> QED BY <1>4, <1>5, <1>6

\* And so both of its sections are earned.
LEMMA FittedIsEarned ==
  ASSUME NEW v, IsSection(v), NEW s, IsSection(s), NEW size \in Nat,
         NEW rows1, NEW listed1, IsEarned(v, rows1, listed1),
         NEW rows2, NEW listed2, IsEarned(s, rows2, listed2)
  PROVE  /\ IsEarned(Fitted(v, s, size).volumes, rows1, listed1)
         /\ IsEarned(Fitted(v, s, size).services, rows2, listed2)
<1>1. PICK m \in Nat, n \in Nat :
        /\ m <= Cardinality(v.kept) /\ n <= Cardinality(s.kept)
        /\ Fitted(v, s, size).volumes = PoppedBy(v, m)
        /\ Fitted(v, s, size).services = PoppedBy(s, n)
  BY FittedSections
<1>2. IsEarned(Fitted(v, s, size).volumes, rows1, listed1)
  BY <1>1, Popped
<1>3. IsEarned(Fitted(v, s, size).services, rows2, listed2)
  BY <1>1, Popped
<1> QED BY <1>2, <1>3

\* What a list becomes when its collector may throw.
LEMMA SafeList ==
  ASSUME NEW list, IsRows(list.items), list.omitted \in Nat, NEW l, l \in {list, NoList}
  PROVE  /\ IsRows(l.items) /\ l.omitted \in Nat
         /\ l.status = "ok" => l = list
BY SomeRows DEF NoList

\* A snapshot of Linux.
LEMMA LinuxIsEarned ==
  ASSUME NEW volumes, IsRows(volumes), NEW services, IsRows(services),
         \A r \in volumes \cup services : r.owned,
         NEW thrown, NEW size \in Nat
  PROVE  LET content == linuxSnapshot(volumes, services, thrown, size)
         IN /\ IsEarned(content.volumes, volumes, volumes)
            /\ IsEarned(content.services, services, Admitted(services))
<1> DEFINE lv == Listed(volumes, Cardinality(volumes), "ok")
           ls == listServices(services, Retained)
           v == safe(lv, "volumes" \in thrown)
           s == safe(ls, "services" \in thrown)
<1>1. IsRows(lv.items) /\ lv.omitted \in Nat /\ lv.items = volumes
  BY Keeping, Counted DEF Listed
<1>2. /\ IsRows(Admitted(services)) /\ IsRows(ls.items) /\ ls.omitted \in Nat
      /\ ls.omitted = 0 => ls.items = Admitted(services)
  BY SnapshotAssumption, AdmittedRows, Keeping, Counted DEF listServices, Limited, Listed
<1> HIDE DEF lv, ls, v, s
<1>3. /\ IsRows(v.items) /\ v.omitted \in Nat /\ (v.status = "ok" => v = lv)
      /\ IsRows(s.items) /\ s.omitted \in Nat /\ (s.status = "ok" => s = ls)
  <2>1. v \in {lv, NoList} /\ s \in {ls, NoList}
    BY DEF v, s, safe
  <2> QED BY <1>1, <1>2, <2>1, SafeList
<1>4. v.status = "ok" => v.items = volumes /\ Admitted(volumes) \subseteq findings(v)
  BY <1>1, <1>3 DEF findings, Reported, Admitted
<1>5. s.status = "ok" /\ s.omitted = 0 =>
        s.items = Admitted(services) /\ Admitted(services) \subseteq findings(s)
  BY <1>2, <1>3 DEF findings, Reported, Admitted
<1>6. /\ IsSection(Section(v.items, v, TRUE))
      /\ IsEarned(Section(v.items, v, TRUE), volumes, volumes)
  BY <1>3, <1>4, Sections
<1>7. /\ IsSection(Section(s.items, s, TRUE))
      /\ IsEarned(Section(s.items, s, TRUE), services, Admitted(services))
  BY <1>3, <1>5, Sections
<1>8. linuxSnapshot(volumes, services, thrown, size) =
        Fitted(Section(v.items, v, TRUE), Section(s.items, s, TRUE), size)
  BY DEF linuxSnapshot, v, s, lv, ls
<1> QED BY <1>6, <1>7, <1>8, FittedIsEarned

\* And one of Windows.
LEMMA WindowsIsEarned ==
  ASSUME NEW volumes, IsRows(volumes), NEW services, IsRows(services),
         NEW broken \in [{"volumes", "services"} -> Broken], NEW thrown, NEW size \in Nat
  PROVE  LET content == windowsSnapshot(volumes, services, broken, thrown, size)
         IN /\ IsEarned(content.volumes, volumes, volumes)
            /\ IsEarned(content.services, services, Admitted(services))
<1> DEFINE lv == windowsVolumes(volumes, broken["volumes"], NativeCap)
           ls == windowsVolumes(services, broken["services"], NativeCap)
           v == safe(lv, "volumes" \in thrown)
           s == safe(ls, "services" \in thrown)
           AllKnown(list) == \A r \in list.items : r.owned
<1>1. /\ IsRows(lv.items) /\ lv.omitted \in Nat
      /\ lv.status = "ok" /\ lv.omitted = 0 => lv.items = volumes
      /\ IsRows(ls.items) /\ ls.omitted \in Nat
      /\ ls.status = "ok" /\ ls.omitted = 0 => ls.items = services
  BY ListAssumption, Collected DEF windowsVolumes
<1> HIDE DEF lv, ls, v, s
<1>2. /\ IsRows(v.items) /\ v.omitted \in Nat /\ (v.status = "ok" => v = lv)
      /\ IsRows(s.items) /\ s.omitted \in Nat /\ (s.status = "ok" => s = ls)
  <2>1. v \in {lv, NoList} /\ s \in {ls, NoList}
    BY DEF v, s, safe
  <2> QED BY <1>1, <2>1, SafeList
<1>3. IsRows(findings(s))
  BY <1>2, SomeRows DEF findings
<1>4. v.status = "ok" /\ v.omitted = 0 /\ AllKnown(v) =>
        v.items = volumes /\ Admitted(volumes) \subseteq findings(v)
  BY <1>1, <1>2 DEF findings, Reported, Admitted
<1>5. s.status = "ok" /\ s.omitted = 0 /\ AllKnown(s) => findings(s) = Admitted(services)
  BY <1>1, <1>2 DEF findings, Reported, Admitted
<1>6. AllKnown(v) \in BOOLEAN /\ AllKnown(s) \in BOOLEAN
  BY DEF AllKnown
<1> HIDE DEF AllKnown
<1>7. /\ IsSection(Section(v.items, v, AllKnown(v)))
      /\ IsEarned(Section(v.items, v, AllKnown(v)), volumes, volumes)
  BY <1>2, <1>4, <1>6, Sections
<1>8. /\ IsSection(Section(findings(s), s, AllKnown(s)))
      /\ IsEarned(Section(findings(s), s, AllKnown(s)), services, Admitted(services))
  BY <1>2, <1>3, <1>5, <1>6, Sections
<1>9. windowsSnapshot(volumes, services, broken, thrown, size) =
        Fitted(Section(v.items, v, AllKnown(v)), Section(findings(s), s, AllKnown(s)), size)
  BY DEF windowsSnapshot, v, s, lv, ls, AllKnown
<1> QED BY <1>7, <1>8, <1>9, FittedIsEarned

-----------------------------------------------------------------------------
(* The pages of the journal. *)

\* The entries a query may return.
Older(i, from) == {e \in Matching(i) : from = None \/ e < from}

JournalTypeOK ==
  /\ journal \in Seq([unit : Unit, size : Nat]) /\ oldest \in Nat \ {0}
  /\ top \in Nat /\ top <= Len(journal)
  /\ pages \in Seq(SUBSET (1..top))
  /\ input \in Input \cup {None}

\* A reader that has asked for nothing has read nothing, and the cursor it goes on with
\* is the oldest entry it has read.
CursorInv ==
  /\ input = None => pages = <<>> /\ page = None /\ cursor = None
  /\ cursor # None => cursor \in Seen /\ \A d \in Seen : cursor <= d

\* Youngest keeps a part of S from its top: whatever is younger than a member is one,
\* and the members are all of S when there are less than n.
LEMMA YoungestOf ==
  ASSUME NEW b \in Nat, NEW S \in SUBSET (1..b), NEW n \in Nat
  PROVE  /\ Youngest(S, n) \subseteq S
         /\ \A d \in Youngest(S, n), e \in S : d <= e => e \in Youngest(S, n)
         /\ Cardinality(Youngest(S, n)) < n => Youngest(S, n) = S
<1> DEFINE Y == Youngest(S, n)
           Above(e) == {d \in S : d > e}
<1>0. S \in SUBSET Nat /\ \A e \in S : e \in Nat /\ e <= b
  OBVIOUS
<1>1. IsFiniteSet(S)
  <2>1. IsFiniteSet(1..b)
    BY FS_Interval
  <2> QED BY <2>1, FS_Subset
<1>2. \A e \in S : Above(e) \in SUBSET S /\ IsFiniteSet(Above(e)) /\ Cardinality(Above(e)) \in Nat
  BY <1>1, FS_Subset, FS_CardinalityType
<1>3. ASSUME NEW d \in Y, NEW e \in S, d <= e PROVE e \in Y
  <2>1. d \in S /\ Cardinality(Above(d)) < n
    BY DEF Youngest
  <2>2. Above(e) \in SUBSET Above(d)
    <3>1. \A x \in S : x > e => x > d
      BY <1>0, <1>3, <2>1
    <3> QED BY <3>1
  <2>3. Cardinality(Above(e)) <= Cardinality(Above(d))
    BY <1>2, <2>2, <2>1, FS_Subset
  <2>4. Cardinality(Above(e)) < n
    BY <1>2, <2>1, <2>3
  <2> QED BY <2>4 DEF Youngest
<1>4. ASSUME Cardinality(Y) < n, Y # S PROVE FALSE
  <2>1. Y \in SUBSET S /\ S \ Y \in SUBSET Nat /\ S \ Y # {} /\ \A e \in S \ Y : e <= b
    BY <1>0, <1>4 DEF Youngest
  <2>2. PICK e \in S \ Y : \A d \in S \ Y : d <= e
    BY <2>1, Largest
  <2>3. Above(e) \in SUBSET Y
    <3>1. \A x \in S : x > e => x \in Y
      BY <1>0, <2>2
    <3> QED BY <3>1
  <2>4. IsFiniteSet(Y) /\ Cardinality(Y) \in Nat /\ Cardinality(Above(e)) <= Cardinality(Y)
    BY <1>1, <2>1, <2>3, FS_Subset, FS_CardinalityType
  <2>5. Cardinality(Above(e)) < n
    BY <1>2, <1>4, <2>2, <2>4
  <2> QED BY <2>2, <2>5 DEF Youngest
<1> QED BY <1>3, <1>4 DEF Youngest

\* What a query gives of the entries older than its cursor: a part of them from the
\* top, without the malformed; all of them if it says that it is whole; and its cursor
\* is the oldest it gave.
LEMMA QueryGives ==
  ASSUME JournalTypeOK, NEW i \in Input, NEW from \in Nat \cup {None}
  PROVE  LET lines == journalArgs(i, from)
             result == parseJournalOutput(i, lines)
         IN /\ result.entries \subseteq Older(i, from)
            /\ \A d \in result.entries, e \in Older(i, from) :
                 d <= e /\ Valid(e) => e \in result.entries
            /\ result.invalid \in Nat
            /\ ~(Cardinality(result.entries) < Cardinality(result.parsed)) /\ result.invalid = 0
                 => result.entries = Older(i, from)
            /\ nextCursor(result) # None =>
                 /\ nextCursor(result) \in result.entries
                 /\ \A d \in result.entries : nextCursor(result) <= d
<1> DEFINE older == Older(i, from)
           lines == journalArgs(i, from)
           parsed == {e \in lines : Valid(e)}
           Upto(e) == {d \in parsed : d >= e}
           Small(S) == Cardinality(S) <= i.limit
                        /\ MapThenSumSet(LAMBDA d : journal[d].size, S) <= i.bytes
           entries == {e \in parsed : \A d \in Upto(e) : Small(Upto(d))}
           result == parseJournalOutput(i, lines)
<1>1. i.limit \in Nat
  BY JournalAssumption DEF Input
<1>2. Len(journal) \in Nat /\ older \in SUBSET (1..Len(journal))
  BY DEF JournalTypeOK, Older, Matching
<1>3. lines = Youngest(older, i.limit + 1)
  BY DEF journalArgs, Older
<1> HIDE DEF lines, older
<1>4. /\ lines \in SUBSET older
      /\ \A d \in lines, e \in older : d <= e => e \in lines
      /\ Cardinality(lines) < i.limit + 1 => lines = older
  <2>1. i.limit + 1 \in Nat
    BY <1>1
  <2> QED BY <1>2, <1>3, <2>1, YoungestOf
<1>5. /\ result.entries = entries /\ result.parsed = parsed
      /\ result.invalid = Cardinality(lines \ parsed)
  BY DEF parseJournalOutput
<1>6. IsFiniteSet(lines) /\ lines \in SUBSET Nat
  <2>1. IsFiniteSet(1..Len(journal)) /\ 1..Len(journal) \subseteq Nat
    BY <1>2, FS_Interval
  <2>2. lines \in SUBSET (1..Len(journal))
    BY <1>2, <1>4
  <2> QED BY <2>1, <2>2, FS_Subset
<1>7. entries \in SUBSET parsed /\ parsed \in SUBSET lines
  OBVIOUS
<1>8. ASSUME NEW d \in entries, NEW e \in older, d <= e, Valid(e) PROVE e \in entries
  <2>1. e \in parsed
    BY <1>4, <1>7, <1>8
  <2>2. Upto(e) \subseteq Upto(d)
    <3>1. d \in Nat /\ e \in Nat /\ \A x \in parsed : x \in Nat
      BY <1>6, <1>7, <2>1
    <3>2. \A x \in parsed : x >= e => x >= d
      BY <1>8, <3>1
    <3> QED BY <3>2
  <2>3. \A x \in Upto(d) : Small(Upto(x))
    OBVIOUS
  <2> HIDE DEF Small, Upto
  <2> QED BY <2>1, <2>2, <2>3
<1>9. Cardinality(lines \ parsed) \in Nat
  BY <1>6, FS_Subset, FS_CardinalityType
<1>10. ASSUME ~(Cardinality(entries) < Cardinality(parsed)), Cardinality(lines \ parsed) = 0
       PROVE  entries = older
  <2>1. parsed = lines
    <3>1. IsFiniteSet(lines \ parsed)
      BY <1>6, FS_Subset
    <3> QED BY <1>7, <1>10, <3>1, FS_EmptySet
  <2>2. entries = lines
    <3>1. IsFiniteSet(entries) /\ Cardinality(entries) \in Nat /\ Cardinality(lines) \in Nat
      BY <1>6, <1>7, FS_Subset, FS_CardinalityType
    <3>2. Cardinality(entries) <= Cardinality(lines)
      BY <1>6, <1>7, FS_Subset
    <3>3. Cardinality(entries) = Cardinality(lines)
      BY <1>10, <2>1, <3>1, <3>2
    <3> QED BY <1>6, <1>7, <3>3, FS_Subset
  <2>3. Cardinality(lines) <= i.limit
    <3>1. CASE lines = {}
      BY <1>1, <3>1, FS_EmptySet
    <3>2. CASE lines # {}
      <4>1. PICK m \in lines : \A n \in lines : m <= n
        BY <1>6, <3>2, Smallest
      <4>2. m \in entries /\ Upto(m) = lines /\ m \in Upto(m)
        BY <1>6, <2>1, <2>2, <4>1
      <4>3. Small(Upto(m))
        BY <4>2
      <4> QED BY <4>2, <4>3
    <3> QED BY <3>1, <3>2
  <2>4. Cardinality(lines) < i.limit + 1
    BY <1>1, <1>6, <2>3, FS_CardinalityType
  <2> QED BY <1>4, <2>2, <2>4
<1>11. nextCursor(result) # None =>
         nextCursor(result) \in entries /\ \A d \in entries : nextCursor(result) <= d
  <2>1. nextCursor(result) = IF entries = {} THEN None ELSE Min(entries)
    BY <1>5 DEF nextCursor, OldestOrNone
  <2>2. entries \in SUBSET Nat
    BY <1>6, <1>7
  <2> HIDE DEF entries
  <2> QED BY <2>1, <2>2, MinOf
<1> HIDE DEF entries, parsed, result
<1>12. entries \subseteq older
  BY <1>4, <1>7
<1> QED BY <1>5, <1>8, <1>9, <1>10, <1>11, <1>12 DEF lines, older, result

JournalInv == JournalTypeOK /\ CursorInv /\ PagesTile

\* The reader begins with an empty journal and no page.
LEMMA JournalInitInv == JournalInit => JournalInv
<1> SUFFICES ASSUME JournalInit PROVE JournalInv
  OBVIOUS
<1>1. Seen = {} /\ pages = <<>>
  BY DEF JournalInit, Seen
<1>2. JournalTypeOK
  BY DEF JournalInit, JournalTypeOK
<1>3. CursorInv
  BY <1>1 DEF JournalInit, CursorInv
<1>4. PagesTile
  BY <1>1 DEF JournalInit, PagesTile
<1> QED BY <1>2, <1>3, <1>4 DEF JournalInv

\* What a page adds to what has been read.
LEMMA SeenAfter ==
  ASSUME NEW T, pages \in Seq(SUBSET T), NEW E, pages' = Append(pages, E)
  PROVE  /\ Seen' = Seen \cup E
         /\ DOMAIN pages' = 1..(Len(pages) + 1) /\ pages'[Len(pages) + 1] = E
         /\ \A n \in DOMAIN pages : pages'[n] = pages[n] /\ pages[n] \subseteq Seen
<1>1. /\ DOMAIN pages' = 1..(Len(pages) + 1) /\ pages'[Len(pages) + 1] = E
      /\ DOMAIN pages = 1..Len(pages) /\ Len(pages) \in Nat
      /\ \A n \in DOMAIN pages : pages'[n] = pages[n]
  OBVIOUS
<1>2. 1..(Len(pages) + 1) = (1..Len(pages)) \cup {Len(pages) + 1}
  BY <1>1
<1> QED BY <1>1, <1>2 DEF Seen

\* A page, the first or another, keeps the invariant: the entries it gives are next to
\* those that have been read.
LEMMA PageInv ==
  ASSUME JournalInv, NEW i \in Input, NEW from \in Nat \cup {None}, Query(i, from),
         input' = i, journal' = journal, oldest' = oldest,
         \/ from = None /\ pages = <<>> /\ top' = Len(journal)
         \/ from # None /\ from = cursor /\ input = i /\ top' = top
  PROVE  JournalInv'
<1> DEFINE result == parseJournalOutput(i, journalArgs(i, from))
           entries == result.entries
           older == Older(i, from)
<1>1. /\ entries \subseteq older
      /\ \A d \in entries, e \in older : d <= e /\ Valid(e) => e \in entries
      /\ result.invalid \in Nat
      /\ ~(Cardinality(entries) < Cardinality(result.parsed)) /\ result.invalid = 0
           => entries = older
      /\ nextCursor(result) # None =>
           nextCursor(result) \in entries /\ \A d \in entries : nextCursor(result) <= d
  BY QueryGives DEF JournalInv
<1>2. /\ page' = [truncated |-> Cardinality(entries) < Cardinality(result.parsed),
                  status |-> IF result.invalid > 0 THEN "partial" ELSE "ok"]
      /\ pages' = Append(pages, entries) /\ cursor' = nextCursor(result)
  BY DEF Query
<1> HIDE DEF result
<1>3. /\ top' \in Nat /\ top' <= Len(journal) /\ Len(journal) \in Nat /\ oldest \in Nat
      /\ 0 < oldest /\ pages \in Seq(SUBSET (1..top))
  BY DEF JournalInv, JournalTypeOK
<1>4. older = {e \in oldest..Len(journal) :
                 journal[e].unit \in scope(i) /\ (from = None \/ e < from)}
  BY DEF Older, Matching
<1>5. /\ pages \in Seq(SUBSET (1..top'))
      /\ Seen' = Seen \cup entries
      /\ DOMAIN pages' = 1..(Len(pages) + 1) /\ pages'[Len(pages) + 1] = entries
      /\ \A n \in DOMAIN pages : pages'[n] = pages[n] /\ pages[n] \subseteq Seen
      /\ Len(pages) \in Nat /\ DOMAIN pages = 1..Len(pages)
  <2>1. pages \in Seq(SUBSET (1..top'))
    BY <1>3
  <2>2. Len(pages) \in Nat /\ DOMAIN pages = 1..Len(pages)
    BY <1>3
  <2>3. pages' = Append(pages, entries)
    BY <1>2
  <2> HIDE DEF entries
  <2> QED BY <2>1, <2>2, <2>3, SeenAfter
<1>6. Seen \subseteq 1..top' /\ Seen \subseteq Nat
  BY <1>5 DEF Seen
<1>7. \A d \in Seen, e \in older : from # None /\ from \in Nat /\ from <= d /\ e < d
  <2> SUFFICES ASSUME NEW d \in Seen, NEW e \in older
               PROVE  from # None /\ from \in Nat /\ from <= d /\ e < d
    OBVIOUS
  <2>1. from # None /\ from = cursor
    BY DEF Seen
  <2>2. from <= d /\ e < from /\ e \in Nat /\ d \in Nat
    BY <1>3, <1>4, <1>6, <2>1 DEF JournalInv, CursorInv
  <2> QED BY <2>1, <2>2
<1>8. older \subseteq 1..top' /\ older \subseteq Nat
  <2> SUFFICES ASSUME NEW e \in older PROVE e \in 1..top' /\ e \in Nat
    OBVIOUS
  <2>1. e \in Nat /\ 1 <= e /\ e <= Len(journal)
    BY <1>3, <1>4
  <2>2. CASE from = None
    BY <1>3, <2>1, <2>2
  <2>3. CASE from # None
    <3>1. from \in Seen /\ e < from
      BY <1>4, <2>3 DEF JournalInv, CursorInv
    <3> QED BY <1>3, <1>6, <2>1, <3>1
  <2> QED BY <2>2, <2>3
<1>9. JournalTypeOK'
  <2>1. pages' \in Seq(SUBSET (1..top'))
    BY <1>1, <1>2, <1>5, <1>8
  <2> QED BY <1>3, <2>1 DEF JournalInv, JournalTypeOK
<1>10. CursorInv'
  <2>1. input' # None
    BY NoInput
  <2>2. ASSUME cursor' # None PROVE cursor' \in Seen' /\ \A d \in Seen' : cursor' <= d
    <3>1. cursor' \in entries /\ \A d \in entries : cursor' <= d
      BY <1>1, <1>2, <2>2
    <3>2. ASSUME NEW d \in Seen PROVE cursor' <= d
      <4>1. cursor' < d /\ cursor' \in Nat /\ d \in Nat
        BY <1>1, <1>6, <1>7, <1>8, <3>1
      <4> QED BY <4>1
    <3> QED BY <1>5, <3>1, <3>2
  <2> QED BY <2>1, <2>2 DEF CursorInv
\* Every entry from here on up is older than the cursor or has been read.
<1>11. ASSUME NEW e \in oldest..top', Valid(e), journal[e].unit \in scope(i)
       PROVE  e \in older \/ e \in Seen
  <2>1. e \in Nat /\ e \in oldest..Len(journal)
    BY <1>3
  <2>2. CASE from = None
    BY <1>4, <1>11, <2>1, <2>2
  <2>3. CASE from # None
    <3>1. from \in Seen /\ from \in Nat /\ input = i /\ top' = top
      BY <1>6, <2>3 DEF JournalInv, CursorInv
    <3>2. CASE e < from
      BY <1>4, <1>11, <2>1, <3>2
    <3>3. CASE ~(e < from)
      <4>1. e \in from..top
        BY <1>3, <2>1, <3>1, <3>3
      <4> QED BY <1>11, <3>1, <4>1 DEF JournalInv, PagesTile, HasAll
    <3> QED BY <3>2, <3>3
  <2> QED BY <2>2, <2>3
<1>12. \A S : HasAll(S)' <=> \A e \in S : Valid(e) /\ journal[e].unit \in scope(i) => e \in Seen'
  BY DEF HasAll, Valid
<1>13. PagesTile'
  <2>1. ASSUME NEW m \in DOMAIN pages', NEW n \in DOMAIN pages', m < n,
               NEW d \in pages'[m], NEW e \in pages'[n]
        PROVE  d > e
    <3>1. m \in DOMAIN pages
      BY <1>5, <2>1
    <3>2. CASE n \in DOMAIN pages
      BY <1>5, <2>1, <3>1, <3>2 DEF JournalInv, PagesTile
    <3>3. CASE n = Len(pages) + 1
      <4>1. d \in Seen /\ e \in older
        BY <1>1, <1>5, <3>1, <3>3
      <4> QED BY <1>6, <1>7, <1>8, <4>1
    <3> QED BY <1>5, <3>2, <3>3
  <2>2. ASSUME NEW d \in Seen', NEW e \in d..top', Valid(e), journal[e].unit \in scope(i)
        PROVE  e \in Seen'
    <3>1. CASE d \in Seen
      <4>1. from # None /\ input = i /\ top' = top
        BY <3>1 DEF Seen
      <4> QED BY <1>5, <2>2, <3>1, <4>1 DEF JournalInv, PagesTile, HasAll
    <3>2. CASE d \in entries
      <4>1. d \in Nat /\ oldest <= d /\ d <= e /\ e \in oldest..top'
        BY <1>1, <1>3, <1>4, <3>2
      <4>2. e \in older \/ e \in Seen
        BY <1>11, <2>2, <4>1
      <4> QED BY <1>1, <1>5, <2>2, <3>2, <4>1, <4>2
    <3> QED BY <1>5, <3>1, <3>2
  <2>3. ASSUME ~page'.truncated, page'.status = "ok",
               NEW e \in oldest..top', Valid(e), journal[e].unit \in scope(i)
        PROVE  e \in Seen'
    <3>1. entries = older
      <4>1. /\ page'.truncated = (Cardinality(entries) < Cardinality(result.parsed))
            /\ page'.status = IF result.invalid > 0 THEN "partial" ELSE "ok"
        BY <1>2
      <4>2. ~(Cardinality(entries) < Cardinality(result.parsed))
        BY <2>3, <4>1, Zenon
      <4>3. result.invalid = 0
        BY <1>1, <2>3, <4>1
      <4> QED BY <1>1, <4>2, <4>3
    <3> QED BY <1>5, <1>11, <2>3, <3>1
  <2>4. \A d \in Seen' : HasAll(d..top)'
    BY <1>12, <2>2 DEF HasAll, Valid
  <2>5. page' # None /\ ~page'.truncated /\ page'.status = "ok" => HasAll(oldest..top)'
    BY <1>12, <2>3 DEF HasAll, Valid
  <2> QED BY <2>1, <2>4, <2>5 DEF PagesTile
<1> QED BY <1>9, <1>10, <1>13 DEF JournalInv

\* Every step of the journal and of its reader keeps the invariant.
LEMMA JournalNextInv == JournalInv /\ JournalNext => JournalInv'
<1> SUFFICES ASSUME JournalInv, JournalNext PROVE JournalInv'
  OBVIOUS
<1>0. /\ Len(journal) \in Nat /\ oldest \in Nat /\ 0 < oldest /\ top \in Nat
      /\ top <= Len(journal) /\ pages \in Seq(SUBSET (1..top))
  BY DEF JournalInv, JournalTypeOK
<1>1. Seen \subseteq 1..top
  BY <1>0 DEF Seen
<1>2. CASE Logged
  <2> USE <1>2 DEF Logged
  <2>1. PICK e \in Entry : journal' = Append(journal, e)
    OBVIOUS
  <2>2. e \in [unit : Unit, size : Nat]
    BY JournalAssumption
  <2>3. /\ journal' \in Seq([unit : Unit, size : Nat]) /\ Len(journal') = Len(journal) + 1
        /\ \A n \in 1..top : journal'[n] = journal[n]
    BY <1>0, <2>1, <2>2 DEF JournalInv, JournalTypeOK
  <2>4. JournalTypeOK'
    BY <1>0, <2>3 DEF JournalInv, JournalTypeOK
  <2>5. CursorInv'
    BY DEF JournalInv, CursorInv, Seen
  <2>6. Seen' = Seen /\ scope(input)' = scope(input)
    BY DEF Seen, scope
  <2>7. \A S \in SUBSET (1..top) : HasAll(S) => HasAll(S)'
    BY <2>3, <2>6 DEF HasAll, Valid
  <2>8. \A d \in Seen : d..top \in SUBSET (1..top)
    BY <1>0, <1>1
  <2>9. oldest..top \in SUBSET (1..top)
    BY <1>0
  <2>10. PagesTile'
    BY <2>6, <2>7, <2>8, <2>9 DEF JournalInv, PagesTile
  <2> QED BY <2>4, <2>5, <2>10 DEF JournalInv
<1>3. CASE Vacuum
  <2> USE <1>3 DEF Vacuum
  <2>1. JournalTypeOK' /\ CursorInv'
    BY DEF JournalInv, JournalTypeOK, CursorInv, Seen
  <2>2. (oldest + 1)..top \subseteq oldest..top
    BY <1>0
  <2>3. PagesTile'
    BY <2>2 DEF JournalInv, PagesTile, HasAll, Seen, Valid
  <2> QED BY <2>1, <2>3 DEF JournalInv
<1>4. CASE FirstPage
  <2>1. PICK i \in Input : input' = i /\ top' = Len(journal) /\ Query(i, None)
    BY <1>4 DEF FirstPage
  <2>2. journal' = journal /\ oldest' = oldest /\ pages = <<>>
    BY <1>4 DEF FirstPage, JournalInv, CursorInv
  <2> QED BY <2>1, <2>2, PageInv
<1>5. CASE NextPage
  <2>1. /\ cursor # None /\ input # None /\ Query(input, cursor)
        /\ journal' = journal /\ oldest' = oldest /\ input' = input /\ top' = top
    BY <1>5 DEF NextPage
  <2>2. cursor \in Seen /\ input \in Input
    BY <2>1 DEF JournalInv, JournalTypeOK, CursorInv
  <2>3. cursor \in Nat
    BY <1>0, <1>1, <2>2
  <2> QED BY <2>1, <2>2, <2>3, PageInv
<1> QED BY <1>2, <1>3, <1>4, <1>5 DEF JournalNext

\* And so does whatever does not touch it.
LEMMA JournalIdleInv == JournalInv /\ UNCHANGED journalVars => JournalInv'
BY DEF JournalInv, JournalTypeOK, CursorInv, PagesTile, HasAll, Seen, Valid, journalVars

-----------------------------------------------------------------------------
(* The projection of a result. *)

\* A finite set has a part of every size up to its own.
LEMMA PartOf ==
  ASSUME NEW S, IsFiniteSet(S), NEW n \in Nat, n <= Cardinality(S)
  PROVE  \E T \in SUBSET S : Cardinality(T) = n
<1>1. Cardinality(S) \in Nat /\ ExistsBijection(1..Cardinality(S), S)
  BY FS_CardinalityType
<1>2. PICK f \in Bijection(1..Cardinality(S), S) : TRUE
  BY <1>1 DEF ExistsBijection
<1> DEFINE T == {f[k] : k \in 1..n}
           g == [k \in 1..n |-> f[k]]
<1>3. \A k \in 1..n : k \in 1..Cardinality(S)
  BY <1>1
<1>4. T \in SUBSET S
  BY <1>2, <1>3 DEF Bijection, Injection
<1>5. g \in Bijection(1..n, T)
  BY <1>2, <1>3 DEF Bijection, Injection, Surjection, IsInjective
<1>6. IsFiniteSet(1..n) /\ Cardinality(1..n) = n
  BY FS_Interval
<1>7. Cardinality(T) = n
  BY <1>5, <1>6, FS_Bijection DEF ExistsBijection
<1> QED BY <1>4, <1>7

\* byteLength: a finite number of nodes has a size.
LEMMA SizeOf ==
  ASSUME NEW t, IsFiniteSet(DOMAIN t), \A p \in DOMAIN t : t[p].length \in Nat
  PROVE  byteLength(t) \in Nat
<1> DEFINE f == [p \in DOMAIN t |-> {p} \X (0..t[p].length)]
           S == {{p} \X (0..t[p].length) : p \in DOMAIN t}
<1>1. f \in Surjection(DOMAIN t, S)
  BY DEF Surjection
<1>2. IsFiniteSet(S)
  BY <1>1, FS_Surjection
<1>3. ASSUME NEW p \in DOMAIN t PROVE IsFiniteSet({p} \X (0..t[p].length))
  <2>1. IsFiniteSet({p}) /\ IsFiniteSet(0..t[p].length)
    <3>1. t[p].length \in Int /\ 0 \in Int
      OBVIOUS
    <3>2. IsFiniteSet(0..t[p].length)
      BY <3>1, FS_Interval
    <3> QED BY <3>2, FS_Singleton
  <2> QED BY <2>1, FS_Product
<1>4. \A T \in S : IsFiniteSet(T)
  BY <1>3
<1>5. IsFiniteSet(UNION S)
  BY <1>2, <1>4, FS_UNION
<1> QED BY <1>5, FS_CardinalityType DEF byteLength

\* An object with a single item that has no items itself.
LEMMA OneItem ==
  ASSUME NEW r, DOMAIN r = {<<>>}
  PROVE  LET t == Branch("object", <<r>>)
         IN DOMAIN t = {<<>>, <<1>>} /\ t[<<>>] = Node("object", 0) /\ t[<<1>>] = r[<<>>]
<1> DEFINE items == <<r>>
           t == Branch("object", <<r>>)
<1>1. UNION {{<<n>> \o q : q \in DOMAIN items[n]} : n \in DOMAIN items} = {<<1>>}
  <2>1. DOMAIN items = {1} /\ items[1] = r
    OBVIOUS
  <2>2. <<1>> \o <<>> = <<1>>
    OBVIOUS
  <2>3. {<<1>> \o q : q \in DOMAIN items[1]} = {<<1>>}
    <3>1. {<<1>> \o q : q \in {<<>>}} = {<<1>> \o <<>>}
      OBVIOUS
    <3> QED BY <2>1, <2>2, <3>1
  <2> DEFINE Under(n) == {<<n>> \o q : q \in DOMAIN items[n]}
  <2>4. Under(1) = {<<1>>}
    BY <2>3
  <2> HIDE DEF Under
  <2>5. {Under(n) : n \in DOMAIN items} = {{<<1>>}}
    BY <2>1, <2>4
  <2> USE DEF Under
  <2> QED BY <2>5
<1>2. t = [p \in {<<>>, <<1>>} |-> IF p = <<>> THEN Node("object", 0)
                                   ELSE items[Head(p)][Tail(p)]]
  BY <1>1 DEF Branch
<1>3. Head(<<1>>) = 1 /\ Tail(<<1>>) = <<>> /\ <<1>> # <<>> /\ items[1] = r
  OBVIOUS
<1> QED BY <1>2, <1>3

\* { truncated: true } takes two units.
LEMMA TruncatedFits == Fits(Truncated) /\ byteLength(Truncated) \in Nat
<1>1. DOMAIN Leaf(Node("scalar", 0)) = {<<>>} /\ Leaf(Node("scalar", 0))[<<>>].length = 0
  BY DEF Leaf, Node
<1>2. /\ DOMAIN Truncated = {<<>>, <<1>>}
      /\ Truncated[<<>>].length = 0 /\ Truncated[<<1>>].length = 0
  BY <1>1, OneItem DEF Truncated, Node
<1> DEFINE one == << <<>>, 0 >>
           two == << <<1>>, 0 >>
<1>3. UNION {{p} \X (0..Truncated[p].length) : p \in DOMAIN Truncated} = {one} \cup {two}
  BY <1>2
<1>4. one # two
  OBVIOUS
<1> HIDE DEF one, two
<1>5. IsFiniteSet({one}) /\ Cardinality({one}) = 1
  BY FS_Singleton
<1>6. Cardinality({one} \cup {two}) = 2
  <2>1. two \notin {one}
    BY <1>4
  <2>2. Cardinality({one} \cup {two}) = Cardinality({one}) + 1
    BY <1>5, <2>1, FS_AddElement
  <2> QED BY <1>5, <2>2
<1>7. byteLength(Truncated) = 2
  BY <1>3, <1>6 DEF byteLength
<1> QED BY <1>7, ModelContextAssumption DEF Fits

\* Every node of a tree is on a way that starts at the root.
LEMMA OnTheWay ==
  ASSUME NEW t, IsTree(t), NEW p \in DOMAIN t
  PROVE  /\ p \in Seq(Nat \ {0}) /\ Up(p, 0) = <<>> /\ Up(p, Len(p)) = p
         /\ \A m \in 0..Len(p) : Up(p, m) \in DOMAIN t /\ Len(Up(p, m)) = m
         /\ \A m \in 1..Len(p) : Up(p, m) # <<>> /\ Parent(Up(p, m)) = Up(p, m - 1)
<1>1. p \in Seq(Nat \ {0}) /\ Len(p) \in Nat
  BY DEF IsTree
<1>2. Up(p, 0) = <<>> /\ Up(p, Len(p)) = p
  BY <1>1 DEF Up
<1>3. \A m \in 0..Len(p) : Len(Up(p, m)) = m
  BY <1>1 DEF Up
<1>4. \A m \in 1..Len(p) : Up(p, m) # <<>> /\ Parent(Up(p, m)) = Up(p, m - 1)
  BY <1>1 DEF Up, Parent
<1>5. ASSUME NEW m \in 0..Len(p), Up(p, m) \notin DOMAIN t PROVE FALSE
  <2> DEFINE T == {n \in 0..Len(p) : Up(p, n) \notin DOMAIN t}
  <2>1. T \in SUBSET Nat /\ T # {} /\ \A n \in T : n <= Len(p)
    BY <1>1, <1>5
  <2>2. PICK n \in T : \A k \in T : k <= n
    BY <1>1, <2>1, Largest
  <2>3. n # Len(p)
    BY <1>2, <2>2
  <2>4. n + 1 \in 1..Len(p) /\ Up(p, n + 1) \in DOMAIN t
    BY <1>1, <2>2, <2>3
  <2>5. Parent(Up(p, n + 1)) = Up(p, n) /\ Up(p, n + 1) # <<>>
    BY <1>4, <2>2, <2>4
  <2>6. Up(p, n) \in DOMAIN t
    BY <2>4, <2>5 DEF IsTree
  <2> QED BY <2>2, <2>6
<1> QED BY <1>1, <1>2, <1>3, <1>4, <1>5

\* A tree of one node that is no array and no object becomes the only item of one.
LEMMA SourceIsTree ==
  ASSUME NEW r, IsTree(r), ~Inner(r[<<>>])
  PROVE  IsTree(Branch("object", <<r>>))
<1> DEFINE t == Branch("object", <<r>>)
<1>1. DOMAIN r = {<<>>}
  <2>1. ASSUME NEW p \in DOMAIN r, p # <<>> PROVE FALSE
    <3>1. p \in Seq(Nat \ {0}) /\ 1 \in 1..Len(p) /\ 1 \in 0..Len(p)
      BY <2>1 DEF IsTree
    <3>2. Up(p, 1) \in DOMAIN r /\ Up(p, 1) # <<>> /\ Parent(Up(p, 1)) = <<>>
      <4>1. Parent(Up(p, 1)) = Up(p, 1 - 1)
        BY <3>1, OnTheWay
      <4>2. 1 - 1 = 0
        OBVIOUS
      <4> QED BY <3>1, <4>1, <4>2, OnTheWay
    <3> QED BY <3>2 DEF IsTree
  <2> QED BY <2>1 DEF IsTree
<1>2. DOMAIN t = {<<>>, <<1>>} /\ t[<<>>] = Node("object", 0) /\ t[<<1>>] = r[<<>>]
  BY <1>1, OneItem
<1>3. IsFiniteSet({<<>>, <<1>>})
  <2>1. {<<>>, <<1>>} = {<<>>} \cup {<<1>>}
    OBVIOUS
  <2>2. IsFiniteSet({<<>>})
    BY FS_Singleton
  <2> QED BY <2>1, <2>2, FS_AddElement
<1>4. Parent(<<1>>) = <<>>
  BY DEF Parent, Up
<1>5. Inner(Node("object", 0)) /\ Node("object", 0) \in
        [kind : {"scalar", "string", "array", "object"}, length : Nat]
  BY DEF Inner, Node
<1>6. r[<<>>] \in [kind : {"scalar", "string", "array", "object"}, length : Nat]
  BY DEF IsTree
<1>7. <<>> \in Seq(Nat \ {0}) /\ <<1>> \in Seq(Nat \ {0})
  OBVIOUS
<1> HIDE DEF t
<1>8. IsTree(t)
  BY <1>2, <1>3, <1>4, <1>5, <1>6, <1>7 DEF IsTree
<1> QED BY <1>8 DEF t

\* compactValue: it keeps a part of the nodes, the root among them; and of every node
\* that is not returned as it is, an omission on the way to it tells.
LEMMA Compacting ==
  ASSUME NEW t, IsTree(t), NEW limits \in [string : Nat, array : Nat, keys : Nat]
  PROVE  LET c == compactValue(t, limits)
         IN /\ DOMAIN c \subseteq DOMAIN t /\ IsFiniteSet(DOMAIN c)
            /\ \A p \in DOMAIN c : c[p].length \in Nat
            /\ Omitted(t, limits) \subseteq {p \in DOMAIN t : Len(p) <= MaxDepth}
            /\ \A q \in DOMAIN t :
                 \/ q \in DOMAIN c /\ c[q] = t[q]
                 \/ \E m \in 0..Len(q) : Up(q, m) \in Omitted(t, limits)
<1> DEFINE c == compactValue(t, limits)
<1>1. /\ DOMAIN c = Reached(t, limits) /\ Reached(t, limits) \in SUBSET DOMAIN t
      /\ \A p \in Reached(t, limits) : c[p] = Shortened(t[p], Len(p), limits)
  BY DEF compactValue, Reached
<1>2. IsFiniteSet(DOMAIN c)
  BY <1>1, FS_Subset DEF IsTree
<1>3. ASSUME NEW p \in DOMAIN c PROVE c[p].length \in Nat
  <2>1. t[p].length \in Nat
    BY <1>1 DEF IsTree
  <2>2. limits.string \in Nat
    OBVIOUS
  <2> QED BY <1>1, <2>1, <2>2 DEF Shortened, String, Node
<1>4. Omitted(t, limits) = {p \in Reached(t, limits) : c[p] # t[p] \/ Cut(t, p, limits)}
  BY DEF Omitted
<1>5. ASSUME NEW q \in DOMAIN t, q \notin Reached(t, limits)
      PROVE  \E m \in 0..Len(q) : Up(q, m) \in Omitted(t, limits)
  <2> DEFINE T == {m \in 0..Len(q) : Up(q, m) \notin Reached(t, limits)}
  <2>0. Len(q) \in Nat /\ q \in Seq(Nat \ {0})
    BY OnTheWay
  <2>1. T \in SUBSET Nat /\ T # {}
    <3>1. Len(q) \in T
      BY <1>5, <2>0, OnTheWay
    <3> QED BY <2>0, <3>1
  <2>2. PICK m \in T : \A n \in T : m <= n
    BY <2>1, Smallest
  <2>3. m # 0
    <3>1. <<>> \in Reached(t, limits)
      BY ModelContextAssumption DEF Reached, IsTree
    <3> QED BY <2>2, <3>1, OnTheWay
  <2> DEFINE x == Up(q, m)
             w == Up(q, m - 1)
  <2>4. m \in 1..Len(q) /\ m - 1 \in 0..Len(q) /\ m \in 0..Len(q) /\ ~(m <= m - 1)
    BY <2>0, <2>2, <2>3
  <2>5. /\ x \in DOMAIN t /\ Len(x) = m /\ x # <<>> /\ Parent(x) = w
        /\ w \in DOMAIN t /\ Len(w) = m - 1
    BY <2>4, OnTheWay
  <2>6. w \in Reached(t, limits) /\ x \notin Reached(t, limits)
    BY <2>2, <2>4
  <2>7. Inner(t[w])
    BY <2>5 DEF IsTree
  <2>8. \A k \in 1..(m - 1) : x[k] = w[k] /\ Up(x, k - 1) = Up(w, k - 1)
    BY <2>0, <2>4 DEF Up
  <2>9. Up(x, m - 1) = w
    BY <2>0, <2>4 DEF Up
  <2>10. m \in Nat /\ MaxDepth \in Nat /\ DOMAIN x = 1..m /\ DOMAIN w = 1..(m - 1)
    BY <2>0, <2>4, ModelContextAssumption DEF Up
  <2> HIDE DEF x, w
  <2>11. m - 1 <= MaxDepth /\ \A k \in 1..(m - 1) : w[k] <= ItemLimit(t[Up(w, k - 1)], limits)
    BY <2>5, <2>6, <2>10 DEF Reached
  <2>12. \/ m > MaxDepth
         \/ x[m] > ItemLimit(t[w], limits)
    <3>1. CASE ~(m <= MaxDepth)
      BY <2>10, <3>1
    <3>2. CASE m <= MaxDepth
      <4>1. PICK k \in 1..m : ~(x[k] <= ItemLimit(t[Up(x, k - 1)], limits))
        BY <2>5, <2>6, <2>10, <3>2 DEF Reached
      <4>2. k \notin 1..(m - 1)
        BY <2>8, <2>11, <4>1
      <4>3. k = m
        BY <2>10, <4>1, <4>2
      <4>4. x[m] \in Nat
        <5>1. x \in Seq(Nat \ {0})
          BY <2>5 DEF IsTree
        <5> QED BY <2>4, <2>5, <5>1
      <4>5. ItemLimit(t[w], limits) \in Nat
        BY DEF ItemLimit
      <4> QED BY <2>9, <4>1, <4>3, <4>4, <4>5
    <3> QED BY <3>1, <3>2
  <2>13. w \in Omitted(t, limits)
    <3>1. CASE m > MaxDepth
      <4>1. Len(w) >= MaxDepth
        BY <2>5, <2>10, <3>1
      <4>2. t[w].kind # "string"
        BY <2>7 DEF Inner
      <4>3. c[w] = String(1)
        BY <1>1, <2>6, <2>7, <4>1, <4>2 DEF Shortened
      <4>4. c[w] # t[w]
        BY <4>2, <4>3 DEF String, Node
      <4> QED BY <1>4, <2>6, <4>4
    <3>2. CASE x[m] > ItemLimit(t[w], limits)
      <4>1. Cut(t, w, limits)
        BY <2>5, <3>2 DEF Cut
      <4> QED BY <1>4, <2>6, <4>1
    <3> QED BY <2>12, <3>1, <3>2
  <2> QED BY <2>4, <2>13 DEF w
<1>6. ASSUME NEW q \in DOMAIN t
      PROVE  \/ q \in DOMAIN c /\ c[q] = t[q]
             \/ \E m \in 0..Len(q) : Up(q, m) \in Omitted(t, limits)
  <2>1. CASE q \notin Reached(t, limits)
    BY <1>5, <2>1
  <2>2. CASE q \in Reached(t, limits) /\ c[q] # t[q]
    <3>1. q \in Omitted(t, limits)
      BY <1>4, <2>2
    <3>2. Len(q) \in 0..Len(q) /\ Up(q, Len(q)) = q
      BY OnTheWay
    <3> QED BY <3>1, <3>2
  <2>3. CASE q \in Reached(t, limits) /\ c[q] = t[q]
    BY <1>1, <2>3
  <2> QED BY <2>1, <2>2, <2>3
<1>7. Omitted(t, limits) \subseteq {p \in DOMAIN t : Len(p) <= MaxDepth}
  BY <1>1, <1>4 DEF Reached
<1> HIDE DEF c
<1> QED BY <1>1, <1>2, <1>3, <1>6, <1>7 DEF c

\* A result after n compactions: it has a size; all that was pushed for it is a part of
\* the paths of the result, and tells what is not shown as it is.
LEMMA CompactedOf ==
  ASSUME NEW t, IsTree(t), NEW n \in 0..Len(Compactions)
  PROVE  /\ byteLength(Compacted(t, n)) \in Nat
         /\ n # 0 => Omitted(t, Compactions[n]) \subseteq {p \in DOMAIN t : Len(p) <= MaxDepth}
         /\ \A q \in DOMAIN t :
              \/ q \in DOMAIN Compacted(t, n) /\ Compacted(t, n)[q] = t[q]
              \/ n # 0 /\ \E m \in 0..Len(q) : Up(q, m) \in Omitted(t, Compactions[n])
<1>1. CASE n = 0
  <2>1. Compacted(t, n) = t
    BY <1>1 DEF Compacted
  <2>2. byteLength(t) \in Nat
    <3>1. IsFiniteSet(DOMAIN t) /\ \A p \in DOMAIN t : t[p].length \in Nat
      BY DEF IsTree
    <3> QED BY <3>1, SizeOf
  <2> QED BY <1>1, <2>1, <2>2
<1>2. CASE n # 0
  <2> DEFINE limits == Compactions[n]
             c == compactValue(t, limits)
  <2>1. Compactions[n] \in [string : Nat, array : Nat, keys : Nat]
    <3> DEFINE L == [string : Nat, array : Nat, keys : Nat]
    <3>1. Compactions \in Seq(L)
      BY ModelContextAssumption
    <3> HIDE DEF L
    <3>2. \A k \in 1..Len(Compactions) : Compactions[k] \in L
      BY <3>1
    <3>3. n \in 1..Len(Compactions)
      BY <1>2, <3>1
    <3>4. Compactions[n] \in L
      BY <3>2, <3>3
    <3> QED BY <3>4 DEF L
  <2> HIDE DEF limits
  <2>2. limits \in [string : Nat, array : Nat, keys : Nat]
    BY <2>1 DEF limits
  <2>3. Compacted(t, n) = c
    BY <1>2 DEF Compacted, limits
  <2>4. /\ IsFiniteSet(DOMAIN c) /\ \A p \in DOMAIN c : c[p].length \in Nat
        /\ Omitted(t, limits) \subseteq {p \in DOMAIN t : Len(p) <= MaxDepth}
        /\ \A q \in DOMAIN t :
             \/ q \in DOMAIN c /\ c[q] = t[q]
             \/ \E m \in 0..Len(q) : Up(q, m) \in Omitted(t, limits)
    BY <2>2, Compacting
  <2> HIDE DEF c
  <2>5. byteLength(c) \in Nat
    BY <2>4, SizeOf
  <2> QED BY <1>2, <2>3, <2>4, <2>5 DEF limits
<1> QED BY <1>1, <1>2

\* A list of so many omissions, of places no deeper than the limit, has its room.
LEMMA OmissionsFit ==
  ASSUME NEW O, IsFiniteSet(O), NEW n \in Nat, Cardinality(O) <= n, MaxDepth \in Nat,
         \A o \in O : Len(o[2]) \in Nat /\ Len(o[2]) <= MaxDepth
  PROVE  /\ omissionsLength(O) \in Nat
         /\ omissionsLength(O) <= n * (1 + MaxDepth)
<1> DEFINE U == UNION {{o} \X (0..Len(o[2])) : o \in O}
<1>1. U \in SUBSET (O \X (0..MaxDepth))
  OBVIOUS
<1>2. IsFiniteSet(0..MaxDepth) /\ Cardinality(0..MaxDepth) = 1 + MaxDepth
  BY FS_Interval
<1>3. IsFiniteSet(O \X (0..MaxDepth)) /\ Cardinality(O \X (0..MaxDepth)) = Cardinality(O) * (1 + MaxDepth)
  BY <1>2, FS_Product
<1> HIDE DEF U
<1>4. Cardinality(U) \in Nat /\ Cardinality(U) <= Cardinality(O) * (1 + MaxDepth)
  BY <1>1, <1>3, FS_Subset, FS_CardinalityType
<1>5. Cardinality(O) \in Nat
  BY FS_CardinalityType
<1>6. Cardinality(O) * (1 + MaxDepth) <= n * (1 + MaxDepth)
  BY <1>5
<1>7. Cardinality(O) * (1 + MaxDepth) \in Nat /\ n * (1 + MaxDepth) \in Nat
  BY <1>5
<1>8. omissionsLength(O) = Cardinality(U)
  BY DEF omissionsLength, U
<1> QED BY <1>4, <1>6, <1>7, <1>8

\* boundedProjection, of any result: the data fit, the omissions are not too many for
\* the context, and they tell of all that is not shown as it is unless they are cut.
LEMMA ProjectionOf ==
  ASSUME NEW r, IsTree(r)
  PROVE  IsBoundedHonestly(boundedProjection(r))
<1> DEFINE last == Len(Compactions)
           source == IF Inner(r[<<>>]) THEN r ELSE Branch("object", <<r>>)
           tried == {last} \cup {n \in 0..last : Fits(Compacted(source, n))}
           made == Min(tried)
           fits == Fits(Compacted(source, made))
           pushed == UNION {{n} \X Omitted(source, Compactions[n]) : n \in 1..made}
           all == pushed \cup (IF fits THEN {} ELSE {<<last + 1, <<>>>>})
           tooMany == Cardinality(all) > MaxOmissions
           some == CHOOSE x \in SUBSET all : Cardinality(x) = MaxOmissions - 1
           p == boundedProjection(r)
<1>1. /\ p.source = source
      /\ p.data = IF fits THEN Compacted(source, made) ELSE Truncated
      /\ p.omissions = IF ~tooMany THEN all ELSE some
      /\ p.metadataLimit = tooMany
  <2>1. p = [source |-> source,
             data |-> IF fits THEN Compacted(source, made) ELSE Truncated,
             omissions |-> IF ~tooMany THEN all ELSE some,
             metadataLimit |-> tooMany]
    BY DEF boundedProjection
  <2> HIDE DEF p, tooMany, source, fits, made, all, some
  <2>2. p.metadataLimit = tooMany
    BY <2>1, Zenon
  <2> QED BY <2>1, <2>2
<1>2. IsTree(source)
  BY SourceIsTree
<1>3. last \in Nat /\ MaxOmissions \in Nat \ {0} /\ TargetSize \in Nat /\ ContextSize \in Nat
      /\ MaxDepth \in Nat /\ TargetSize + MaxOmissions * (1 + MaxDepth) <= ContextSize
  BY ModelContextAssumption
<1> HIDE DEF last, source
<1>4. made \in 0..last
  <2>1. tried \in SUBSET Nat /\ tried # {} /\ tried \in SUBSET (0..last)
    BY <1>3
  <2> HIDE DEF tried
  <2> QED BY <2>1, MinOf
<1> HIDE DEF made
<1>5. ASSUME NEW n \in 0..last PROVE
        /\ byteLength(Compacted(source, n)) \in Nat
        /\ n # 0 => Omitted(source, Compactions[n])
                      \subseteq {x \in DOMAIN source : Len(x) <= MaxDepth}
        /\ \A q \in DOMAIN source :
             \/ q \in DOMAIN Compacted(source, n) /\ Compacted(source, n)[q] = source[q]
             \/ n # 0 /\ \E m \in 0..Len(q) : Up(q, m) \in Omitted(source, Compactions[n])
  BY <1>2, CompactedOf DEF last
<1>6. p.data = (IF fits THEN Compacted(source, made) ELSE Truncated)
  BY <1>1
<1>7. Fits(p.data) /\ byteLength(p.data) \in Nat
  BY <1>4, <1>5, <1>6, TruncatedFits
<1>8. IsFiniteSet(all) /\ Cardinality(all) \in Nat
  <2>1. all \in SUBSET ((0..(last + 1)) \X (DOMAIN source \cup {<<>>}))
    <3>1. \A n \in 1..made : n \in 0..last /\ n # 0 /\ n \in 0..(last + 1)
      BY <1>3, <1>4
    <3>2. last + 1 \in 0..(last + 1)
      BY <1>3
    <3>3. \A n \in 1..made : {n} \X Omitted(source, Compactions[n]) \subseteq
             (0..(last + 1)) \X (DOMAIN source \cup {<<>>})
      BY <1>5, <3>1
    <3>4. pushed \subseteq (0..(last + 1)) \X (DOMAIN source \cup {<<>>})
      BY <3>3
    <3>5. <<last + 1, <<>>>> \in (0..(last + 1)) \X (DOMAIN source \cup {<<>>})
      BY <3>2
    <3> HIDE DEF pushed
    <3> QED BY <3>4, <3>5
  <2>2. IsFiniteSet(0..(last + 1))
    <3>1. 0 \in Int /\ last + 1 \in Int
      BY <1>3
    <3> QED BY <3>1, FS_Interval
  <2>3. IsFiniteSet(DOMAIN source \cup {<<>>})
    BY <1>2, FS_AddElement DEF IsTree
  <2>4. IsFiniteSet((0..(last + 1)) \X (DOMAIN source \cup {<<>>}))
    BY <2>2, <2>3, FS_Product
  <2> HIDE DEF all
  <2> QED BY <2>1, <2>4, FS_Subset, FS_CardinalityType
<1>9. ASSUME fits, ~tooMany, NEW q \in DOMAIN source
      PROVE  \/ q \in DOMAIN p.data /\ p.data[q] = source[q]
             \/ \E o \in all, m \in 0..Len(q) : o[2] = Up(q, m)
  <2>1. p.data = Compacted(source, made)
    BY <1>6, <1>9
  <2>2. CASE q \in DOMAIN Compacted(source, made) /\ Compacted(source, made)[q] = source[q]
    BY <2>1, <2>2
  <2>3. CASE made # 0 /\ \E m \in 0..Len(q) : Up(q, m) \in Omitted(source, Compactions[made])
    <3>1. PICK m \in 0..Len(q) : Up(q, m) \in Omitted(source, Compactions[made])
      BY <2>3
    <3>2. made \in 1..made
      BY <1>3, <1>4, <2>3
    <3>3. <<made, Up(q, m)>> \in all
      BY <3>1, <3>2
    <3>4. <<made, Up(q, m)>>[2] = Up(q, m)
      OBVIOUS
    <3> HIDE DEF all
    <3> QED BY <3>1, <3>3, <3>4
  <2> HIDE DEF all
  <2> QED BY <1>4, <1>5, <2>2, <2>3
<1>10. ASSUME ~fits, NEW q \in DOMAIN source
       PROVE  \E o \in all, m \in 0..Len(q) : o[2] = Up(q, m)
  <2>1. <<last + 1, <<>>>> \in all
    BY <1>10
  <2>2. 0 \in 0..Len(q) /\ Up(q, 0) = <<>>
    <3>1. Len(q) \in Nat
      BY <1>2 DEF IsTree
    <3> QED BY <1>2, <3>1, OnTheWay
  <2>3. <<last + 1, <<>>>>[2] = <<>>
    OBVIOUS
  <2> HIDE DEF all
  <2> QED BY <2>1, <2>2, <2>3
<1>11. \A o \in all : Len(o[2]) \in Nat /\ Len(o[2]) <= MaxDepth
  <2>1. \A x \in DOMAIN source : Len(x) \in Nat
    BY <1>2 DEF IsTree
  <2>2. ASSUME NEW n \in 1..made, NEW o \in {n} \X Omitted(source, Compactions[n])
        PROVE  Len(o[2]) \in Nat /\ Len(o[2]) <= MaxDepth
    <3>1. n \in 0..last /\ n # 0
      BY <1>3, <1>4
    <3> QED BY <1>5, <2>1, <2>2, <3>1
  <2>3. Len(<<last + 1, <<>>>>[2]) = 0
    OBVIOUS
  <2> QED BY <1>3, <2>2, <2>3
<1>12. tooMany => some \in SUBSET all /\ Cardinality(some) = MaxOmissions - 1
  <2> HIDE DEF all
  <2>1. MaxOmissions - 1 \in Nat /\ (tooMany => MaxOmissions - 1 <= Cardinality(all))
    BY <1>3, <1>8
  <2> QED BY <1>8, <2>1, PartOf
<1> HIDE DEF all, fits, some, p
<1>13. validateModelContext(p)
  <2>1. CASE tooMany
    <3>1. /\ Cardinality(p.omissions) = MaxOmissions - 1 /\ p.metadataLimit = TRUE
          /\ p.omissions \in SUBSET all
      BY <1>1, <1>12, <2>1
    <3>2. byteLength(p.data) <= TargetSize
      BY <1>7 DEF Fits
    <3>3. /\ omissionsLength(p.omissions) \in Nat
          /\ omissionsLength(p.omissions) <= (MaxOmissions - 1) * (1 + MaxDepth)
      <4>1. IsFiniteSet(p.omissions)
        BY <1>8, <3>1, FS_Subset
      <4>2. \A o \in p.omissions : Len(o[2]) \in Nat /\ Len(o[2]) <= MaxDepth
        BY <1>11, <3>1
      <4>3. MaxOmissions - 1 \in Nat /\ Cardinality(p.omissions) <= MaxOmissions - 1
        BY <1>3, <3>1
      <4> QED BY <1>3, <4>1, <4>2, <4>3, OmissionsFit
    <3>4. (MaxOmissions - 1) * (1 + MaxDepth) + (1 + MaxDepth) = MaxOmissions * (1 + MaxDepth)
      BY <1>3
    <3>5. /\ MaxOmissions * (1 + MaxDepth) \in Nat /\ (MaxOmissions - 1) * (1 + MaxDepth) \in Nat
      BY <1>3
    <3>6. byteLength(p.data) + omissionsLength(p.omissions) + 1 <= ContextSize
      BY <1>3, <1>7, <3>2, <3>3, <3>4, <3>5
    <3> QED BY <3>1, <3>6 DEF validateModelContext
  <2>2. CASE ~tooMany
    <3>1. p.omissions = all
      BY <1>1, <2>2
    <3>4. ~p.metadataLimit
      BY <1>1, <2>2
    <3>2. byteLength(p.data) <= TargetSize /\ Cardinality(all) <= MaxOmissions
      BY <1>3, <1>7, <1>8, <2>2 DEF Fits
    <3>3. /\ omissionsLength(all) \in Nat
          /\ omissionsLength(all) <= MaxOmissions * (1 + MaxDepth)
      BY <1>3, <1>8, <1>11, <3>2, OmissionsFit
    <3>5. MaxOmissions * (1 + MaxDepth) \in Nat
      BY <1>3
    <3>6. byteLength(p.data) + omissionsLength(all) + 0 <= ContextSize
      BY <1>3, <1>7, <3>2, <3>3, <3>5
    <3> QED BY <3>1, <3>4, <3>6 DEF validateModelContext
  <2> QED BY <2>1, <2>2
<1>14. \/ p.metadataLimit
       \/ \A q \in DOMAIN p.source :
            \/ q \in DOMAIN p.data /\ p.data[q] = p.source[q]
            \/ \E o \in p.omissions, m \in 0..Len(q) : o[2] = Up(q, m)
  <2>1. CASE tooMany
    BY <1>1, <2>1
  <2>2. CASE ~tooMany
    <3>1. p.omissions = all /\ p.source = source
      BY <1>1, <2>2
    <3> QED BY <1>9, <1>10, <2>2, <3>1
  <2> QED BY <2>1, <2>2
<1>15. IsBoundedHonestly(p)
  BY <1>7, <1>13, <1>14 DEF IsBoundedHonestly
<1> QED BY <1>15 DEF p


-----------------------------------------------------------------------------
(* The processes. *)

ReadPids == {r.pid : r \in found}

ProcessTypeOK ==
  /\ alive \subseteq Pid /\ passwd \subseteq User /\ request \in Request
  /\ stage \in {"idle", "batches", "done", "failed", "one", "found", "missing"}
  /\ found \subseteq [pid : Pid, user : User \cup {"uid"}] /\ IsFiniteSet(found)
  /\ failures \in Nat /\ candidates \subseteq Pid /\ batch \subseteq Pid

\* While nothing has failed, a process that has been there all the while is still to be
\* read or has been; it was given the user of the accounts as they were first read; and
\* one that was missing has not been there all the while.
NothingIsLost ==
  /\ steady \subseteq alive
  /\ stage = "batches" /\ failures = 0 => steady \subseteq candidates \cup batch \cup ReadPids
  /\ stage = "done" /\ failures = 0 => steady \subseteq ReadPids
  /\ \A r \in found :
       passwd # {} /\ r.user = IF Owner[r.pid] \in passwd THEN Owner[r.pid] ELSE "uid"
  /\ stage = "missing" /\ present = Files => batch \cap steady = {}

ProcessInv == ProcessTypeOK /\ NothingIsLost

\* A call begins with nothing read, whatever runs on the host.
LEMMA ProcessHostInv ==
  ASSUME NEW running \in SUBSET Pid, NEW files, NEW accounts \in SUBSET User,
         NEW i \in Request, Host(running, files, accounts, i)
  PROVE  ProcessInv
<1>1. ProcessTypeOK
  BY FS_EmptySet DEF Host, ProcessTypeOK
<1>2. NothingIsLost
  BY DEF Host, NothingIsLost
<1> QED BY <1>1, <1>2 DEF ProcessInv

\* One process read.
LEMMA ReadInv == ASSUME ProcessInv, NEW p \in Pid, Read(p) PROVE ProcessInv'
<1> USE DEF Read
<1>1. CASE Unread(p)
  <2>1. ProcessTypeOK'
    BY <1>1 DEF Unread, ProcessInv, ProcessTypeOK
  <2>2. failures' # 0
    BY <1>1 DEF Unread, ProcessInv, ProcessTypeOK
  <2>3. NothingIsLost'
    BY <1>1, <2>2 DEF Unread, ProcessInv, NothingIsLost
  <2> QED BY <2>1, <2>3 DEF ProcessInv
<1>2. CASE /\ p \in alive /\ found' = found \cup {[pid |-> p, user |-> user(p)]}
           /\ passwd' = known /\ failures' = failures
  <2>1. Owner[p] \in User /\ known \subseteq User /\ known # {} /\ (passwd # {} => known = passwd)
    BY ProcessAssumption DEF known, ProcessInv, ProcessTypeOK
  <2>2. user(p) = (IF Owner[p] \in known THEN Owner[p] ELSE "uid")
    BY DEF user
  <2>3. [pid |-> p, user |-> user(p)] \in [pid : Pid, user : User \cup {"uid"}]
    BY <2>1, <2>2
  <2>4. IsFiniteSet(found')
    BY <1>2, FS_AddElement DEF ProcessInv, ProcessTypeOK
  <2>5. ProcessTypeOK'
    BY <1>2, <2>1, <2>3, <2>4 DEF ProcessInv, ProcessTypeOK
  <2>6. ReadPids' = ReadPids \cup {p}
    <3> DEFINE r == [pid |-> p, user |-> user(p)]
    <3>1. r.pid = p /\ found' = found \cup {r}
      BY <1>2
    <3> HIDE DEF r
    <3> QED BY <3>1 DEF ReadPids
  <2>7. \A r \in found' :
          passwd' # {} /\ r.user = IF Owner[r.pid] \in passwd' THEN Owner[r.pid] ELSE "uid"
    BY <1>2, <2>1, <2>2 DEF ProcessInv, NothingIsLost
  <2>8. NothingIsLost'
    BY <1>2, <2>6, <2>7 DEF ProcessInv, NothingIsLost
  <2> QED BY <2>5, <2>8 DEF ProcessInv
<1> QED BY <1>1, <1>2

\* Every step of a call, and of the host about it, keeps the invariant.
LEMMA ProcessNextInv == ProcessInv /\ ProcessNext => ProcessInv'
<1> SUFFICES ASSUME ProcessInv, ProcessNext PROVE ProcessInv'
  OBVIOUS
<1> USE DEF ProcessInv, ProcessTypeOK, NothingIsLost, ReadPids
<1>1. CASE ProcessExits
  BY <1>1 DEF ProcessExits
<1>2. CASE ProcessStarts
  BY <1>2 DEF ProcessStarts
<1>3. CASE ListAborted
  BY <1>3 DEF ListAborted
<1>4. CASE ListPids
  BY <1>4 DEF ListPids
<1>5. CASE NextBatch
  BY <1>5 DEF NextBatch, Lowest
<1>6. CASE ListDone
  BY <1>6 DEF ListDone
<1>7. CASE \E p \in Pid : Read(p)
  BY <1>7, ReadInv
<1>8. CASE GetProcess
  BY <1>8 DEF GetProcess
<1>9. CASE GetDone
  BY <1>9 DEF GetDone, Files, Readable
<1> QED BY <1>1, <1>2, <1>3, <1>4, <1>5, <1>6, <1>7, <1>8, <1>9 DEF ProcessNext

\* The other tools leave list_processes alone.
LEMMA ProcessIdleInv == ProcessInv /\ UNCHANGED processVars => ProcessInv'
BY DEF ProcessInv, ProcessTypeOK, NothingIsLost, ReadPids, processVars

\* A list that omits nothing has all that was read and that the request asks for.
LEMMA ListOmitsNothing ==
  ASSUME ProcessInv, processes.omitted = 0
  PROVE  processes.items = {r.pid : r \in filtered}
<1>1. IsFiniteSet(filtered) /\ Cardinality(filtered) \in Nat
  <2>1. filtered \in SUBSET found
    BY DEF filtered
  <2> QED BY <2>1, FS_Subset, FS_CardinalityType DEF ProcessInv, ProcessTypeOK
<1>2. request.limit \in Nat
  BY ProcessAssumption DEF ProcessInv, ProcessTypeOK, Request
<1>3. Cardinality(filtered) <= request.limit
  BY <1>1, <1>2 DEF processes
<1>4. ASSUME NEW r \in filtered PROVE Cardinality(before(r)) < request.limit
  <2>1. r.pid \in Nat
    BY ProcessAssumption DEF filtered, ProcessInv, ProcessTypeOK
  <2>2. before(r) \in SUBSET (filtered \ {r})
    BY <2>1 DEF before
  <2>3. IsFiniteSet(filtered \ {r}) /\ Cardinality(filtered \ {r}) = Cardinality(filtered) - 1
    BY <1>1, <1>4, FS_RemoveElement
  <2>4. Cardinality(before(r)) \in Nat /\ Cardinality(before(r)) <= Cardinality(filtered \ {r})
    BY <2>2, <2>3, FS_Subset, FS_CardinalityType
  <2> QED BY <1>1, <1>2, <1>3, <2>3, <2>4
<1> QED BY <1>4 DEF processes

\* What the invariant says of a call that is over.
LEMMA ProcessesOfInv == ProcessInv => ProcessesAreListed
<1> SUFFICES ASSUME ProcessInv PROVE ProcessesAreListed
  OBVIOUS
<1>1. ASSUME stage = "done", processes.status = "ok", processes.omitted = 0,
             NEW p \in steady,
             request.user = "any" \/ (request.user = Owner[p] /\ request.user \in passwd)
      PROVE  p \in processes.items
  <2>1. failures = 0
    BY <1>1 DEF processes, ProcessInv, ProcessTypeOK
  <2>2. PICK r \in found : r.pid = p
    BY <1>1, <2>1 DEF ProcessInv, NothingIsLost, ReadPids
  <2>3. request.user \in {"any", r.user}
    BY <1>1, <2>2 DEF ProcessInv, NothingIsLost
  <2>4. r \in filtered
    BY <2>3 DEF filtered
  <2> QED BY <1>1, <2>2, <2>4, ListOmitsNothing
<1>2. stage = "missing" /\ present = Files => batch \cap steady = {}
  BY DEF ProcessInv, NothingIsLost
<1> QED BY <1>1, <1>2 DEF ProcessesAreListed

-----------------------------------------------------------------------------
(* The tools. *)

\* What an answer says of the rows or of the result it was made of.
AnswerInv == ListsAreHonest /\ RecoveryIsEarned /\ ProjectionIsHonest

IInv == ProcessInv /\ JournalInv /\ AnswerInv

\* Each tool begins with no answer.
LEMMA InitInv == Init => IInv
<1> SUFFICES ASSUME Init PROVE IInv
  OBVIOUS
<1>1. ProcessInv
  <2>1. CASE tool = "list_processes"
    BY <2>1, ProcessHostInv DEF Init, ProcessInit
  <2>2. CASE tool # "list_processes"
    <3>1. \E i : i \in Request
      <4>1. PICK n \in ProcessLimit : TRUE
        BY ProcessAssumption
      <4>2. [user |-> "any", order |-> "asc", limit |-> n] \in Request
        BY <4>1 DEF Request
      <4> QED BY <4>2
    <3>2. (CHOOSE i \in Request : TRUE) \in Request
      BY <3>1
    <3>3. Host({}, {}, {}, CHOOSE i \in Request : TRUE)
      BY <2>2 DEF Init, ProcessIdle
    <3> QED BY <3>2, <3>3, ProcessHostInv
  <2> QED BY <2>1, <2>2
<1>2. JournalInv
  BY JournalInitInv DEF Init
<1>3. AnswerInv
  BY DEF Init, AnswerInv, ListsAreHonest, RecoveryIsEarned, ProjectionIsHonest,
      Named
<1> QED BY <1>1, <1>2, <1>3 DEF IInv

\* Each list and each projection is honest, and each snapshot earns what it claims, when
\* it is made.
LEMMA AnswerIsHonest ==
  ASSUME Next PROVE UNCHANGED answer \/ AnswerInv'
<1> USE DEF AnswerInv, ListsAreHonest, RecoveryIsEarned, ProjectionIsHonest,
      Named
<1>0. /\ \A rows \in Rows \cup SnapshotRows : IsRows(rows)
      /\ \A limit \in ListLimit : limit \in Nat
      /\ \A size \in SnapshotSize : size \in Nat
  BY HostToolsAssumption
<1>1. CASE LinuxList
  <2>1. PICK rows \in Rows, limit \in ListLimit :
          \/ Answer("list_services", listServices(rows, limit), rows, limit, Cardinality(rows))
          \/ Answer("list_filesystems", listFilesystems(rows, limit), rows, limit,
                    Cardinality(rows))
          \/ Answer("list_listeners", listListeners(rows, limit), rows, limit, Cardinality(rows))
    BY <1>1 DEF LinuxList
  <2>2. IsRows(rows) /\ limit \in Nat /\ Cardinality(rows) \in Nat
    BY <1>0, Keeping
  <2>3. /\ IsHonest(listServices(rows, limit), rows, limit)
        /\ IsHonest(listFilesystems(rows, limit), rows, limit)
        /\ IsHonest(listListeners(rows, limit), rows, limit)
    BY <2>2, LinuxListIsHonest DEF listServices, listFilesystems, listListeners
  <2>4. \A list : CapIsTold(list, rows, Cardinality(rows))
    BY <2>2 DEF CapIsTold
  <2> QED BY <2>1, <2>3, <2>4 DEF Answer
<1>2. CASE LinuxGet
  BY <1>2 DEF LinuxGet, getService, runCommand
<1>3. CASE WindowsList
  <2>1. PICK rows \in Rows, limit \in ListLimit, broken \in Broken :
          \/ Answer("windows_list", windowsList(rows, broken, limit), rows, limit, NativeCap)
          \/ /\ \A r \in rows : r.admitted
             /\ Answer("windows_volumes", windowsVolumes(rows, broken, limit), rows, limit,
                       NativeCap)
    BY <1>3 DEF WindowsList
  <2>2. IsRows(rows) /\ limit \in Nat
    BY <1>0
  <2> QED BY <2>1, <2>2, WindowsListIsHonest, WindowsVolumesAreHonest DEF Answer
<1>4. CASE WindowsGet
  <2>1. PICK rows \in Rows, broken \in Broken :
          answer' = [name |-> "get", found |-> windowsGet(rows, broken), rows |-> rows]
    BY <1>4 DEF WindowsGet
  <2> QED BY <1>0, <2>1, NotFoundIsGone
<1>5. CASE WindowsLogs
  <2>1. PICK rows \in Rows, limit \in ListLimit, broken \in Broken, bytes \in ByteLimit :
          answer' = [name |-> "windows_logs", list |-> windowsLogs(rows, broken, limit, bytes),
                     rows |-> rows]
    BY <1>5 DEF WindowsLogs
  <2> QED BY <1>0, <2>1, LogIsWhole
<1>6. CASE LinuxSnapshot
  <2>1. PICK volumes \in SnapshotRows, services \in SnapshotRows,
             thrown \in SUBSET {"volumes", "services"}, size \in SnapshotSize :
          /\ \A r \in volumes \cup services : r.owned
          /\ Snapshot(linuxSnapshot(volumes, services, thrown, size), volumes, services)
    BY <1>6 DEF LinuxSnapshot
  <2> QED BY <1>0, <2>1, LinuxIsEarned DEF Snapshot
<1>7. CASE WindowsSnapshot
  <2>1. PICK volumes \in SnapshotRows, services \in SnapshotRows,
             broken \in [{"volumes", "services"} -> Broken],
             thrown \in SUBSET {"volumes", "services"}, size \in SnapshotSize :
          Snapshot(windowsSnapshot(volumes, services, broken, thrown, size), volumes, services)
    BY <1>7 DEF WindowsSnapshot
  <2> QED BY <1>0, <2>1, WindowsIsEarned DEF Snapshot
<1>9. CASE Project
  <2>1. PICK r \in Result : answer' = [name |-> "projection", projection |-> boundedProjection(r)]
    BY <1>9 DEF Project
  <2>2. IsBoundedHonestly(boundedProjection(r))
    BY HostToolsAssumption, ProjectionOf
  <2> HIDE DEF boundedProjection
  <2>3. answer'.name = "projection" /\ answer'.projection = boundedProjection(r)
    BY <2>1
  <2> QED BY <2>2, <2>3
<1>8. CASE Processes \/ Journal
  BY <1>8 DEF Processes, Journal
<1> QED BY <1>1, <1>2, <1>3, <1>4, <1>5, <1>6, <1>7, <1>8, <1>9 DEF Next

\* No step of the tool that is followed, or of the host, leaves the invariant.
LEMMA NextInv == IInv /\ [Next]_toolVars => IInv'
<1> SUFFICES ASSUME IInv, [Next]_toolVars PROVE IInv'
  OBVIOUS
<1>1. \/ ProcessNext /\ UNCHANGED journalVars
      \/ JournalNext /\ UNCHANGED processVars
      \/ UNCHANGED <<processVars, journalVars>>
  BY DEF Next, Processes, Journal, LinuxList, LinuxGet, WindowsList, WindowsGet, WindowsLogs,
         LinuxSnapshot, WindowsSnapshot, Project, toolVars
<1>2. ProcessInv' /\ JournalInv'
  BY <1>1, ProcessNextInv, ProcessIdleInv, JournalNextInv, JournalIdleInv DEF IInv
<1>3. AnswerInv'
  <2>1. CASE UNCHANGED answer
    BY <2>1 DEF IInv, AnswerInv, ListsAreHonest, RecoveryIsEarned, ProjectionIsHonest,
      Named
  <2>2. CASE ~UNCHANGED answer
    BY <2>2, AnswerIsHonest DEF toolVars
  <2> QED BY <2>1, <2>2
<1> QED BY <1>2, <1>3 DEF IInv

\* The invariant holds of every host.
THEOREM Inductive == Spec => []IInv
BY InitInv, NextInv, PTL DEF Spec

-----------------------------------------------------------------------------
(* What the runs check. *)

\* list_processes and get_process, with processes that start and exit at any time: a
\* list that says "ok" and omits nothing has every process that was there throughout,
\* and one said not to exist was gone.
THEOREM ProcessesListed == Spec => []ProcessesAreListed
<1>1. IInv => ProcessesAreListed
  BY ProcessesOfInv DEF IInv
<1> QED BY <1>1, Inductive, PTL

\* query_logs, page after page, while the journal grows and is vacuumed: the pages tile
\* what the journal holds.
THEOREM PagesTiled == Spec => []PagesTile
<1>1. IInv => PagesTile
  BY DEF IInv, JournalInv
<1> QED BY <1>1, Inductive, PTL

\* The lists of one command, of either host, however the command ends: none passes for
\* complete when it is not.
THEOREM ListsHonest == Spec => []ListsAreHonest
<1>1. IInv => ListsAreHonest
  BY DEF IInv, AnswerInv
<1> QED BY <1>1, Inductive, PTL

\* The snapshots of either host, however their sections were cut: a recovery may be
\* inferred only from a section that reports every row it was made of.
THEOREM RecoveryEarned == Spec => []RecoveryIsEarned
<1>1. IInv => RecoveryIsEarned
  BY DEF IInv, AnswerInv
<1> QED BY <1>1, Inductive, PTL
\* The projection of a result for a model, whatever the result and wherever it was cut:
\* it fits, and its omissions tell of all that is not shown as it is.
THEOREM ProjectionHonest == Spec => []ProjectionIsHonest
<1>1. IInv => ProjectionIsHonest
  BY DEF IInv, AnswerInv
<1> QED BY <1>1, Inductive, PTL

=============================================================================
