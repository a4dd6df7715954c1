----------------------------- MODULE JournalPages -----------------------------
(***************************************************************************)
(* A reader that follows the cursors of query_logs: JournalAdapter of       *)
(* src/adapters/journal.ts, page after page, while the journal grows at its *)
(* young end and is vacuumed at its old one.                                *)
(*                                                                         *)
(* journalctl is external: with --reverse it gives the entries of the units *)
(* named, the youngest first, from the one before the cursor, at most as    *)
(* many as --lines says.                                                    *)
(***************************************************************************)
EXTENDS Integers, Sequences, FiniteSets, FiniteSetsExt

CONSTANTS
  Unit, AllowedUnits,
  Entry,           \* an entry: its unit and its size, 0 for a record that is malformed
  PageLimit,       \* entries a page may have at most
  ByteLimit,       \* sizes a page may have at most
  None,
  MaxEntry         \* bound: entries ever written

ASSUME JournalAssumption ==
  /\ AllowedUnits \subseteq Unit /\ Entry \subseteq [unit : Unit, size : Nat]
  /\ PageLimit \subseteq Nat \ {0} /\ ByteLimit \subseteq Nat \ {0}
  /\ MaxEntry \in Nat

\* A query: of one unit, or of all that are allowed.
Input == [unit : Unit \cup {None}, limit : PageLimit, bytes : ByteLimit]

ASSUME NoInput == None \notin Input

VARIABLES
  journal,  \* the entries ever written; the cursor of one is its index
  oldest,   \* the first that has not been vacuumed
  input,    \* of the reader's query, None before it
  pages,    \* the entries of each page it has read
  top,      \* the youngest entry when it began
  page,     \* what the last page says of itself
  cursor    \* the one to go on with

journalVars == <<journal, oldest, input, pages, top, page, cursor>>

JournalInit ==
  /\ journal = <<>> /\ oldest = 1
  /\ input = None /\ pages = <<>> /\ top = 0 /\ page = None /\ cursor = None

Logged ==
  /\ Len(journal) < MaxEntry
  /\ \E e \in Entry : journal' = Append(journal, e)
  /\ UNCHANGED <<oldest, input, pages, top, page, cursor>>

Vacuum ==
  /\ oldest <= Len(journal) /\ oldest' = oldest + 1
  /\ UNCHANGED <<journal, input, pages, top, page, cursor>>

-----------------------------------------------------------------------------
(* One query. *)

\* The units named to journalctl.
scope(i) == IF i.unit = None THEN AllowedUnits ELSE {i.unit}

Valid(e) == journal[e].size > 0
Matching(i) == {e \in oldest..Len(journal) : journal[e].unit \in scope(i)}

Youngest(S, n) == {e \in S : Cardinality({d \in S : d > e}) < n}

\* The records journalctl gives for the arguments: one more than the limit.
journalArgs(i, from) ==
  Youngest({e \in Matching(i) : from = None \/ e < from}, i.limit + 1)

\* parseJournalOutput(): the entries before the first that would exceed a limit.
parseJournalOutput(i, lines) ==
  LET parsed == {e \in lines : Valid(e)}
      Upto(e) == {d \in parsed : d >= e}
      Fits(S) == Cardinality(S) <= i.limit
                   /\ MapThenSumSet(LAMBDA d : journal[d].size, S) <= i.bytes
  IN [entries |-> {e \in parsed : \A d \in Upto(e) : Fits(Upto(d))}, parsed |-> parsed,
      invalid |-> Cardinality(lines \ parsed)]

OldestOrNone(S) == IF S = {} THEN None ELSE Min(S)

\* Mutant of nextCursor: the reader goes on after all that was parsed.
nextCursorParsed(result) == OldestOrNone(result.parsed)

nextCursor(result) == OldestOrNone(result.entries)

\* query()
Query(i, from) ==
  LET result == parseJournalOutput(i, journalArgs(i, from))
  IN /\ page' = [truncated |-> Cardinality(result.entries) < Cardinality(result.parsed),
                 status |-> IF result.invalid > 0 THEN "partial" ELSE "ok"]
     /\ pages' = Append(pages, result.entries)
     /\ cursor' = nextCursor(result)

\* The first page; a unit that is not allowed is refused, and without allowed units
\* every query is.
FirstPage ==
  /\ input = None
  /\ \E i \in Input :
       /\ AllowedUnits # {} /\ i.unit \in AllowedUnits \cup {None}
       /\ input' = i /\ top' = Len(journal)
       /\ Query(i, None)
  /\ UNCHANGED <<journal, oldest>>

\* Another page, while there is a cursor to follow; one that fails is asked for again.
NextPage ==
  /\ input # None /\ page.truncated /\ cursor # None
  /\ Query(input, cursor)
  /\ UNCHANGED <<journal, oldest, input, top>>

JournalNext == Logged \/ Vacuum \/ FirstPage \/ NextPage

-----------------------------------------------------------------------------
(* Properties. *)

Seen == UNION {pages[n] : n \in DOMAIN pages}

\* A reader that has read the pages passes over none of these entries.
HasAll(entries) ==
  \A e \in entries : Valid(e) /\ journal[e].unit \in scope(input) => e \in Seen

\* The pages of a reader tile the journal: following the cursors it reads the entries
\* from the youngest on, each once, and passes over none but malformed records; and
\* after a page that is neither truncated nor partial, which it takes for the last, it
\* has all that has not been vacuumed.
PagesTile ==
  /\ \A m, n \in DOMAIN pages : m < n => \A d \in pages[m], e \in pages[n] : d > e
  /\ \A d \in Seen : HasAll(d..top)
  /\ page # None /\ ~page.truncated /\ page.status = "ok" => HasAll(oldest..top)

=============================================================================
