--------------------------- MODULE SnapshotManager ---------------------------
(***************************************************************************)
(* Telemetry on Linux: src/core/snapshot-manager.ts.  One collection runs at *)
(* a time, through the awaits of the host sample, the inventory and gzip,   *)
(* while the session that started it may end and another may begin.         *)
(***************************************************************************)
EXTENDS Integers, FiniteSets

CONSTANTS
  Size,        \* sizes a notification may have, before and after compression
  Budget,      \* values of maxBytes a session may set
  MaxStart,    \* bound: sessions
  MaxTrigger   \* bound: calls of trigger()

ASSUME SizeAssumption == Size \subseteq Nat /\ Budget \subseteq Nat
ASSUME BoundAssumption == MaxStart \in Nat /\ MaxTrigger \in Nat

VARIABLES
  active, generation, inFlight, pending, maxBytes,
  interval,    \* the generation of the interval timer, 0 when it is cleared
  stage,       \* the await collect() stands at
  collecting,  \* the generation collect() was called with
  bytes,       \* size of the notification being compressed
  starts, triggers,
  started,     \* generations for which a collection has started
  sent         \* the snapshots handed to the transport

managerVars == <<active, generation, inFlight, pending, maxBytes, interval>>
collectVars == <<stage, collecting, bytes>>
vars == <<managerVars, collectVars, starts, triggers, started, sent>>

Stage == {"none", "host", "inventory", "gzip"}

Init ==
  /\ active = FALSE /\ generation = 0 /\ inFlight = FALSE /\ pending = FALSE
  /\ maxBytes \in Budget /\ interval = 0
  /\ stage = "none" /\ collecting = 0 /\ bytes = 0
  /\ starts = 0 /\ triggers = 0 /\ started = {} /\ sent = {}

\* collect() up to its first await, for the generation in force.
Begin(g) ==
  /\ inFlight' = TRUE /\ stage' = "host" /\ collecting' = g
  /\ started' = started \cup {g}
  /\ UNCHANGED bytes

\* start(): stop(), then a generation of its own and a first collection, which
\* waits if one is in flight.
Start ==
  /\ starts < MaxStart
  /\ starts' = starts + 1
  /\ active' = TRUE /\ generation' = generation + 2 /\ interval' = generation'
  /\ maxBytes' \in Budget
  /\ pending' = inFlight
  /\ \/ inFlight /\ UNCHANGED <<inFlight, collectVars, started>>
     \/ ~inFlight /\ Begin(generation')
  /\ UNCHANGED <<triggers, sent>>

\* Mutant of Stop: the request of the session that ends is kept.
StopKeepsPending ==
  /\ active
  /\ active' = FALSE /\ generation' = generation + 1 /\ interval' = 0
  /\ UNCHANGED <<pending, inFlight, maxBytes, collectVars, starts, triggers, started, sent>>

\* stop(); of an idle manager it only skips a generation.
Stop ==
  /\ active
  /\ active' = FALSE /\ generation' = generation + 1 /\ pending' = FALSE /\ interval' = 0
  /\ UNCHANGED <<inFlight, maxBytes, collectVars, starts, triggers, started, sent>>

Trigger ==
  /\ active /\ triggers < MaxTrigger
  /\ triggers' = triggers + 1
  /\ \/ inFlight /\ pending' = TRUE /\ UNCHANGED <<inFlight, collectVars, started>>
     \/ ~inFlight /\ Begin(generation) /\ UNCHANGED pending
  /\ UNCHANGED <<active, generation, maxBytes, interval, starts, sent>>

\* The interval fires; it never waits for a collection in flight.
Interval ==
  /\ interval # 0
  /\ active /\ interval = generation
  /\ ~inFlight
  /\ Begin(generation)
  /\ UNCHANGED <<active, generation, pending, maxBytes, interval, starts, triggers, sent>>

-----------------------------------------------------------------------------
(* The collection in flight. *)

Revoked == ~active \/ collecting # generation

\* Mutant of Finally: a request that came meanwhile is dropped.
FinallyDrops ==
  /\ inFlight' = FALSE /\ stage' = "none" /\ pending' = FALSE
  /\ UNCHANGED <<collecting, bytes, started>>

\* The finally block: a request that came meanwhile is served at once.
Finally ==
  \/ pending /\ active /\ pending' = FALSE /\ Begin(generation)
  \/ /\ ~(pending /\ active)
     /\ inFlight' = FALSE /\ stage' = "none"
     /\ UNCHANGED <<pending, collecting, bytes, started>>

\* The host has been sampled, or could not be.
HostSampled ==
  /\ stage = "host"
  /\ \/ Revoked /\ Finally
     \/ ~Revoked /\ stage' = "inventory" /\ UNCHANGED <<inFlight, pending, collecting, bytes, started>>
  /\ UNCHANGED <<active, generation, maxBytes, interval, starts, triggers, sent>>

\* The inventory is there: the snapshot is trimmed and compressed, unless its
\* required sections alone exceed the budget.
Compress ==
  /\ stage = "inventory"
  /\ \/ Revoked /\ Finally
     \/ ~Revoked /\ Finally
     \/ /\ ~Revoked
        /\ bytes' \in {n \in Size : n <= maxBytes}
        /\ stage' = "gzip"
        /\ UNCHANGED <<inFlight, pending, collecting, started>>
  /\ UNCHANGED <<active, generation, maxBytes, interval, starts, triggers, sent>>

\* gzip is done: the snapshot is sent through whatever session is ready now.
Send ==
  /\ stage = "gzip"
  /\ \/ UNCHANGED sent                                     \* over budget, or not sent
     \/ /\ active /\ \E z \in Size : z <= maxBytes
        /\ sent' = sent \cup {[collected |-> collecting, delivered |-> generation]}
  /\ Finally
  /\ UNCHANGED <<active, generation, maxBytes, interval, starts, triggers>>

Collect == HostSampled \/ Compress \/ Send

Next == Start \/ Stop \/ Trigger \/ Interval \/ Collect

\* Collectors have timeouts and gzip settles.
Spec == Init /\ [][Next]_vars
FairSpec == Spec /\ WF_vars(Collect)

-----------------------------------------------------------------------------
(* Properties. *)

TypeOK ==
  /\ {active, inFlight, pending} \subseteq BOOLEAN
  /\ generation \in Nat /\ interval \in 0..generation /\ collecting \in 0..generation
  /\ maxBytes \in Budget /\ bytes \in Size \cup {0}
  /\ stage \in Stage /\ (inFlight <=> stage # "none")
  /\ starts \in Nat /\ triggers \in Nat
  /\ started \subseteq 1..generation
  /\ sent \subseteq [collected : 1..generation, delivered : 1..generation]

\* A request for a snapshot is kept only while a collection is in flight that will
\* serve it, and the interval timer runs only for the session that started it: neither
\* outlives its session, whatever collection was in flight when that ended.
NothingOutlivesSession ==
  /\ pending => inFlight /\ active
  /\ interval = IF active THEN generation ELSE 0

\* "Disconnect ... stops telemetry": what a session delivers was collected in it.
SentInItsSession == \A s \in sent : s.collected = s.delivered

\* Every session gets its first snapshot collected, also when it begins while a
\* collection of the session before is still in flight.
EverySessionSampled ==
  \A g \in 1..(3 * MaxStart) :
    (active /\ generation = g) ~> (g \in started \/ generation # g)

=============================================================================
