----------------------- MODULE WindowsSnapshotManager -----------------------
(***************************************************************************)
(* Telemetry on Windows: WindowsSnapshotManager of src/windows/snapshot.ts.  *)
(* A collection has one await, which stop() aborts; what follows it, gzip   *)
(* included, runs in the same step.                                         *)
(***************************************************************************)
EXTENDS Integers, FiniteSets

CONSTANTS
  None,
  MaxStart    \* bound: sessions

ASSUME BoundAssumption == MaxStart \in Nat
ASSUME NoneAssumption == None \notin Nat

VARIABLES
  active, generation, inFlight,
  pending,     \* the generation whose first collection waits, or None
  interval,    \* the generation of the interval timer, or None
  collecting,  \* the generation of the collection in flight
  aborted,     \* the signal handed to its collectors has fired
  starts,
  started,     \* generations for which a collection has started
  sent         \* the snapshots handed to the transport

vars == <<active, generation, inFlight, pending, interval, collecting, aborted, starts,
          started, sent>>

Init ==
  /\ active = FALSE /\ generation = 0 /\ inFlight = FALSE
  /\ pending = None /\ interval = None /\ collecting = 0 /\ aborted = FALSE
  /\ starts = 0 /\ started = {} /\ sent = {}

\* collect() up to its await; the collectors get the signal of the session in force.
Begin(g) ==
  /\ inFlight' = TRUE /\ collecting' = g /\ aborted' = FALSE
  /\ started' = started \cup {g}

\* start(): stop(), then the first collection, which waits for one in flight.
Start ==
  /\ starts < MaxStart
  /\ starts' = starts + 1
  /\ active' = TRUE /\ generation' = generation + 1 /\ interval' = generation'
  /\ \/ /\ inFlight
        /\ pending' = generation' /\ aborted' = TRUE
        /\ UNCHANGED <<inFlight, collecting, started>>
     \/ ~inFlight /\ pending' = None /\ Begin(generation')
  /\ UNCHANGED sent

\* stop(); of an idle manager it only skips a generation.
Stop ==
  /\ active
  /\ active' = FALSE /\ generation' = generation + 1
  /\ pending' = None /\ interval' = None
  /\ aborted' = inFlight
  /\ UNCHANGED <<inFlight, collecting, starts, started, sent>>

Interval ==
  /\ active /\ interval = generation
  /\ ~inFlight
  /\ Begin(generation)
  /\ UNCHANGED <<active, generation, pending, interval, starts, sent>>

\* The finally block.
Finally ==
  /\ pending' = None
  /\ \/ active /\ pending # None /\ Begin(pending)
     \/ /\ ~(active /\ pending # None)
        /\ inFlight' = FALSE /\ aborted' = FALSE
        /\ UNCHANGED <<collecting, started>>

\* Mutants of Collected: the generation is not compared after the await; the
\* waiting collection is forgotten.
CollectedAnyway ==
  /\ inFlight
  /\ \/ UNCHANGED sent
     \/ /\ active
        /\ sent' = sent \cup {[collected |-> collecting, delivered |-> generation]}
  /\ Finally
  /\ UNCHANGED <<active, generation, interval, starts>>

CollectedAlone ==
  /\ inFlight
  /\ inFlight' = FALSE /\ aborted' = FALSE /\ pending' = None
  /\ UNCHANGED <<active, generation, interval, collecting, starts, started, sent>>

\* The snapshot has been built: it is sent if its session is still in force, fits
\* and finds room in the transport.
Collected ==
  /\ inFlight
  /\ \/ UNCHANGED sent
     \/ /\ collecting = generation /\ active
        /\ sent' = sent \cup {[collected |-> collecting, delivered |-> generation]}
  /\ Finally
  /\ UNCHANGED <<active, generation, interval, starts>>

Next == Start \/ Stop \/ Interval \/ Collected

Spec == Init /\ [][Next]_vars
FairSpec == Spec /\ WF_vars(Collected)

-----------------------------------------------------------------------------
(* Properties. *)

TypeOK ==
  /\ {active, inFlight, aborted} \subseteq BOOLEAN
  /\ generation \in Nat /\ collecting \in 0..generation
  /\ pending \in 1..generation \cup {None} /\ interval \in 1..generation \cup {None}
  /\ starts \in Nat
  /\ started \subseteq 1..generation
  /\ sent \subseteq [collected : 1..generation, delivered : 1..generation]

\* The collection that waits belongs to the session in force and will be served by
\* the one in flight; and a collection of an ended session has been aborted.
WaitingIsCurrent ==
  /\ pending # None => active /\ inFlight /\ pending = generation
  /\ inFlight /\ collecting # generation => aborted

\* "Disconnect ... stops telemetry": what a session delivers was collected in it.
SentInItsSession == \A s \in sent : s.collected = s.delivered

\* Every session gets its first snapshot collected, however long the collection of
\* the session before takes to notice its abort.
EverySessionSampled ==
  \A g \in 1..(2 * MaxStart) :
    (active /\ generation = g) ~> (g \in started \/ generation # g \/ ~active)

=============================================================================
