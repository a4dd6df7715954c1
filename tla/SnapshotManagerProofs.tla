------------------------- MODULE SnapshotManagerProofs -------------------------
(***************************************************************************)
(* Of Linux telemetry, for any number of sessions and triggers: no request   *)
(* and no timer outlives its session.                                       *)
(***************************************************************************)
EXTENDS SnapshotManager, TLAPS

\* An active manager has a generation, and so has a collection in flight.
Numbered ==
  /\ active => generation \in Nat \ {0}
  /\ inFlight => collecting \in Nat \ {0}

IInv == TypeOK /\ NothingOutlivesSession /\ Numbered

\* The manager begins idle.
LEMMA InitInv == Init => IInv
<1> SUFFICES ASSUME Init PROVE IInv
  OBVIOUS
<1> USE DEF Init, Stage
<1>1. TypeOK
  <2>1. {active, inFlight, pending} \subseteq BOOLEAN
    OBVIOUS
  <2>2. generation \in Nat /\ interval \in 0..generation /\ collecting \in 0..generation
    OBVIOUS
  <2>3. maxBytes \in Budget /\ bytes \in Size \cup {0}
    OBVIOUS
  <2>4. stage \in Stage /\ (inFlight <=> stage # "none")
    OBVIOUS
  <2>5. starts \in Nat /\ triggers \in Nat /\ started \subseteq 1..generation
    OBVIOUS
  <2>6. sent \subseteq [collected : 1..generation, delivered : 1..generation]
    OBVIOUS
  <2> QED BY <2>1, <2>2, <2>3, <2>4, <2>5, <2>6 DEF TypeOK
<1>2. NothingOutlivesSession /\ Numbered
  BY DEF NothingOutlivesSession, Numbered
<1> QED BY <1>1, <1>2 DEF IInv

\* A session begins; its first collection waits for one in flight.
LEMMA StartInv == ASSUME IInv, Start PROVE IInv'
<1> USE DEF IInv, Start, Begin, managerVars, collectVars, Stage
<1>1. TypeOK'
  <2>1. ({active, inFlight, pending} \subseteq BOOLEAN)'
    BY DEF TypeOK, Numbered
  <2>2. (generation \in Nat /\ interval \in 0..generation /\ collecting \in 0..generation)'
    BY DEF TypeOK, Numbered
  <2>3. (maxBytes \in Budget /\ bytes \in Size \cup {0})'
    BY DEF TypeOK, Numbered
  <2>4. (stage \in Stage /\ (inFlight <=> stage # "none"))'
    BY DEF TypeOK, Numbered
  <2>5. (starts \in Nat /\ triggers \in Nat /\ started \subseteq 1..generation)'
    <3>1. starts' \in Nat /\ triggers' \in Nat /\ started \subseteq 1..generation'
      BY DEF TypeOK
    <3>2. generation' \in 1..generation'
      BY DEF TypeOK, Numbered
    <3> QED BY <3>1, <3>2
  <2>6. (sent \subseteq [collected : 1..generation, delivered : 1..generation])'
    BY DEF TypeOK, Numbered
  <2> QED BY <2>1, <2>2, <2>3, <2>4, <2>5, <2>6 DEF TypeOK
<1>2. NothingOutlivesSession'
  BY DEF TypeOK, NothingOutlivesSession
<1>3. Numbered'
  BY DEF TypeOK, Numbered
<1> QED BY <1>1, <1>2, <1>3

\* A session ends: its timer and what it asked for are dropped.
LEMMA StopInv == ASSUME IInv, Stop PROVE IInv'
<1> USE DEF IInv, Stop, managerVars, collectVars, Stage
<1>1. TypeOK'
  <2>1. ({active, inFlight, pending} \subseteq BOOLEAN)'
    BY DEF TypeOK, Numbered
  <2>2. (generation \in Nat /\ interval \in 0..generation /\ collecting \in 0..generation)'
    BY DEF TypeOK, Numbered
  <2>3. (maxBytes \in Budget /\ bytes \in Size \cup {0})'
    BY DEF TypeOK, Numbered
  <2>4. (stage \in Stage /\ (inFlight <=> stage # "none"))'
    BY DEF TypeOK, Numbered
  <2>5. (starts \in Nat /\ triggers \in Nat /\ started \subseteq 1..generation)'
    BY DEF TypeOK, Numbered
  <2>6. (sent \subseteq [collected : 1..generation, delivered : 1..generation])'
    BY DEF TypeOK, Numbered
  <2> QED BY <2>1, <2>2, <2>3, <2>4, <2>5, <2>6 DEF TypeOK
<1>2. NothingOutlivesSession'
  BY DEF TypeOK, NothingOutlivesSession
<1>3. Numbered'
  BY DEF TypeOK, Numbered
<1> QED BY <1>1, <1>2, <1>3

\* A snapshot is asked for by hand.
LEMMA TriggerInv == ASSUME IInv, Trigger PROVE IInv'
<1> USE DEF IInv, Trigger, Begin, managerVars, collectVars, Stage
<1>1. TypeOK'
  <2>1. ({active, inFlight, pending} \subseteq BOOLEAN)'
    BY DEF TypeOK, Numbered
  <2>2. (generation \in Nat /\ interval \in 0..generation /\ collecting \in 0..generation)'
    BY DEF TypeOK, Numbered
  <2>3. (maxBytes \in Budget /\ bytes \in Size \cup {0})'
    BY DEF TypeOK, Numbered
  <2>4. (stage \in Stage /\ (inFlight <=> stage # "none"))'
    BY DEF TypeOK, Numbered
  <2>5. (starts \in Nat /\ triggers \in Nat /\ started \subseteq 1..generation)'
    <3>1. starts' \in Nat /\ triggers' \in Nat
      BY DEF TypeOK
    <3>2. generation \in 1..generation
      BY DEF TypeOK, Numbered
    <3>3. started' \subseteq 1..generation
      BY <3>2 DEF TypeOK
    <3> QED BY <3>1, <3>3
  <2>6. (sent \subseteq [collected : 1..generation, delivered : 1..generation])'
    BY DEF TypeOK, Numbered
  <2> QED BY <2>1, <2>2, <2>3, <2>4, <2>5, <2>6 DEF TypeOK
<1>2. NothingOutlivesSession'
  BY DEF TypeOK, NothingOutlivesSession
<1>3. Numbered'
  BY DEF TypeOK, Numbered
<1> QED BY <1>1, <1>2, <1>3

\* The interval fires.
LEMMA IntervalInv == ASSUME IInv, Interval PROVE IInv'
<1> USE DEF IInv, Interval, Begin, managerVars, collectVars, Stage
<1>1. TypeOK'
  <2>1. ({active, inFlight, pending} \subseteq BOOLEAN)'
    BY DEF TypeOK, Numbered
  <2>2. (generation \in Nat /\ interval \in 0..generation /\ collecting \in 0..generation)'
    BY DEF TypeOK, Numbered
  <2>3. (maxBytes \in Budget /\ bytes \in Size \cup {0})'
    BY DEF TypeOK, Numbered
  <2>4. (stage \in Stage /\ (inFlight <=> stage # "none"))'
    BY DEF TypeOK, Numbered
  <2>5. (starts \in Nat /\ triggers \in Nat /\ started \subseteq 1..generation)'
    <3>1. starts' \in Nat /\ triggers' \in Nat /\ started \subseteq 1..generation'
      BY DEF TypeOK
    <3>2. generation' \in 1..generation'
      BY DEF TypeOK, Numbered
    <3> QED BY <3>1, <3>2
  <2>6. (sent \subseteq [collected : 1..generation, delivered : 1..generation])'
    BY DEF TypeOK, Numbered
  <2> QED BY <2>1, <2>2, <2>3, <2>4, <2>5, <2>6 DEF TypeOK
<1>2. NothingOutlivesSession'
  BY DEF TypeOK, NothingOutlivesSession
<1>3. Numbered'
  BY DEF TypeOK, Numbered
<1> QED BY <1>1, <1>2, <1>3

\* The end of a collection: the next one begins if it was asked for in this session.
LEMMA FinallyEffect ==
  ASSUME IInv, Finally
  PROVE  /\ {inFlight', pending'} \subseteq BOOLEAN
         /\ stage' \in Stage /\ (inFlight' <=> stage' # "none")
         /\ collecting' \in 0..generation /\ bytes' = bytes
         /\ started' \subseteq 1..generation
         /\ pending' => inFlight' /\ active
         /\ inFlight' => collecting' \in Nat \ {0}
<1> USE DEF IInv, TypeOK, NothingOutlivesSession, Numbered, Stage
<1>1. CASE pending /\ active /\ pending' = FALSE /\ Begin(generation)
  <2>1. generation \in 1..generation /\ generation \in Nat \ {0}
    BY <1>1
  <2> QED BY <1>1, <2>1 DEF Begin
<1>2. CASE ~(pending /\ active) /\ inFlight' = FALSE /\ stage' = "none"
           /\ UNCHANGED <<pending, collecting, bytes, started>>
  BY <1>2
<1> QED BY <1>1, <1>2 DEF Finally

\* The host has been sampled.
LEMMA HostSampledInv == ASSUME IInv, HostSampled PROVE IInv'
<1> USE DEF IInv, TypeOK, NothingOutlivesSession, Numbered, HostSampled, Stage
<1>1. CASE Finally
  BY <1>1, FinallyEffect
<1>2. CASE stage' = "inventory" /\ UNCHANGED <<inFlight, pending, collecting, bytes, started>>
  BY <1>2
<1> QED BY <1>1, <1>2

\* The snapshot has been trimmed.
LEMMA CompressInv == ASSUME IInv, Compress PROVE IInv'
<1> USE DEF IInv, TypeOK, NothingOutlivesSession, Numbered, Compress, Stage
<1>1. CASE Finally
  BY <1>1, FinallyEffect
<1>2. CASE /\ bytes' \in {n \in Size : n <= maxBytes} /\ stage' = "gzip"
           /\ UNCHANGED <<inFlight, pending, collecting, started>>
  BY <1>2
<1> QED BY <1>1, <1>2

\* The snapshot has been compressed.
LEMMA SendInv == ASSUME IInv, Send PROVE IInv'
<1> USE DEF IInv, Send
<1>1. Finally
  OBVIOUS
<1>2. (sent \subseteq [collected : 1..generation, delivered : 1..generation])'
  BY DEF TypeOK, Numbered
<1>3. NothingOutlivesSession' /\ Numbered'
  BY <1>1, FinallyEffect DEF TypeOK, NothingOutlivesSession, Numbered
<1>4. TypeOK'
  BY <1>1, <1>2, FinallyEffect DEF TypeOK
<1> QED BY <1>3, <1>4

\* Every step keeps the invariant.
LEMMA NextInv == ASSUME IInv, [Next]_vars PROVE IInv'
<1>1. CASE Start BY <1>1, StartInv
<1>2. CASE Stop BY <1>2, StopInv
<1>3. CASE Trigger BY <1>3, TriggerInv
<1>4. CASE Interval BY <1>4, IntervalInv
<1>5. CASE HostSampled BY <1>5, HostSampledInv
<1>6. CASE Compress BY <1>6, CompressInv
<1>7. CASE Send BY <1>7, SendInv
<1>8. CASE UNCHANGED vars
  BY <1>8 DEF vars, managerVars, collectVars, IInv, TypeOK, NothingOutlivesSession, Numbered
<1> QED BY <1>1, <1>2, <1>3, <1>4, <1>5, <1>6, <1>7, <1>8 DEF Next, Collect

\* The invariant holds of every behaviour of the manager.
THEOREM Inductive == Spec => []IInv
BY InitInv, NextInv, PTL DEF Spec

\* Generations, sizes and stages keep their types; a collection is in flight exactly
\* while it stands at an await.
THEOREM TypeCorrect == Spec => []TypeOK
<1>1. IInv => TypeOK
  BY DEF IInv
<1> QED BY <1>1, Inductive, PTL

\* No request for a snapshot and no interval timer of an ended session is left, in
\* whatever order sessions, triggers and the awaits of a collection come.
THEOREM SessionOwnsItsTimers == Spec => []NothingOutlivesSession
<1>1. IInv => NothingOutlivesSession
  BY DEF IInv
<1> QED BY <1>1, Inductive, PTL

=============================================================================
