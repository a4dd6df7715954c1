-------------------------- MODULE ToolExecutorProofs --------------------------
(***************************************************************************)
(* Of the executor, for any calls, any limits and any number of sessions:    *)
(* slots, queues and budget stay exact, calls of a gate start in the order   *)
(* they came, the end of a session revokes its work, and what is said of a   *)
(* write is true.                                                           *)
(***************************************************************************)
EXTENDS ToolExecutor, FiniteSetTheorems, SequenceTheorems, TLAPS

-----------------------------------------------------------------------------
(* Sequences. *)

\* What is left of a queue when its head is taken.
LEMMA TailFacts ==
  ASSUME NEW S, NEW q \in Seq(S), q # <<>>
  PROVE  /\ Tail(q) \in Seq(S) /\ Len(Tail(q)) = Len(q) - 1 /\ Len(q) \in Nat \ {0}
         /\ Head(q) = q[1] /\ q[1] \in S
         /\ \A i \in 1..(Len(q) - 1) : Tail(q)[i] = q[i + 1]
OBVIOUS

\* A queue with one more call at its end.
LEMMA AppendFacts ==
  ASSUME NEW S, NEW q \in Seq(S), NEW e \in S
  PROVE  /\ Append(q, e) \in Seq(S) /\ Len(Append(q, e)) = Len(q) + 1
         /\ \A i \in 1..Len(q) : Append(q, e)[i] = q[i]
         /\ Append(q, e)[Len(q) + 1] = e
OBVIOUS

\* A queue without the call at one of its places.
LEMMA RemoveAtFacts ==
  ASSUME NEW S, NEW q \in Seq(S), NEW i \in 1..Len(q)
  PROVE  /\ RemoveAt(q, i) \in Seq(S) /\ Len(RemoveAt(q, i)) = Len(q) - 1
         /\ \A j \in 1..(Len(q) - 1) : RemoveAt(q, i)[j] = IF j < i THEN q[j] ELSE q[j + 1]
<1> DEFINE a == SubSeq(q, 1, i - 1)
           b == SubSeq(q, i + 1, Len(q))
<1>1. a \in Seq(S) /\ Len(a) = i - 1 /\ \A j \in 1..(i - 1) : a[j] = q[j]
  OBVIOUS
<1>2. b \in Seq(S) /\ Len(b) = Len(q) - i /\ \A j \in 1..(Len(q) - i) : b[j] = q[i + j]
  OBVIOUS
<1> HIDE DEF a, b
<1>3. a \o b \in Seq(S) /\ Len(a \o b) = Len(q) - 1
  <2>1. a \o b \in Seq(S)
    BY <1>1, <1>2
  <2>2. Len(a \o b) = Len(a) + Len(b)
    BY <1>1, <1>2, ConcatProperties
  <2>3. Len(q) \in Nat /\ i \in Nat
    OBVIOUS
  <2>4. (i - 1) + (Len(q) - i) = Len(q) - 1
    BY <2>3
  <2> QED BY <1>1, <1>2, <2>1, <2>2, <2>4
<1>4. ASSUME NEW j \in 1..(Len(q) - 1)
      PROVE  (a \o b)[j] = IF j < i THEN q[j] ELSE q[j + 1]
  <2>1. CASE j < i
    <3>1. j \in 1..Len(a) /\ a[j] = q[j]
      BY <1>1, <2>1
    <3>2. (a \o b)[j] = a[j]
      BY <1>1, <1>2, <3>1
    <3> QED BY <2>1, <3>1, <3>2
  <2>2. CASE ~(j < i)
    <3>1. j - Len(a) \in 1..Len(b) /\ b[j - Len(a)] = q[j + 1]
      <4>1. j - Len(a) \in 1..(Len(q) - i) /\ i + (j - Len(a)) = j + 1
        BY <1>1, <2>2
      <4> QED BY <1>2, <4>1
    <3>2. (a \o b)[j] = b[j - Len(a)]
      BY <1>1, <1>2, <2>2
    <3> QED BY <2>2, <3>1, <3>2
  <2> QED BY <2>1, <2>2
<1> QED BY <1>3, <1>4 DEF RemoveAt, a, b

\* The sum of the queues' lengths is zero only when both are empty.
LEMMA SumFacts ==
  ASSUME NEW a \in Nat, NEW b \in Nat, NEW q, q = a + b, a # 0 \/ b # 0
  PROVE  q # 0
OBVIOUS

\* It is taken back as a whole.
LEMMA SumTaken ==
  ASSUME NEW a \in Nat, NEW b \in Nat, NEW q, NEW q2, q = a + b, q2 = q - a - b
  PROVE  q2 = 0
OBVIOUS

\* It moves with either.
LEMMA SumMoves ==
  ASSUME NEW a \in Nat, NEW b \in Nat, NEW a2, NEW b2, NEW q, NEW q2, q = a + b,
         \/ q2 = q + 1 /\ ((a2 = a + 1 /\ b2 = b) \/ (a2 = a /\ b2 = b + 1))
         \/ q2 = q - 1 /\ ((a2 = a - 1 /\ b2 = b) \/ (a2 = a /\ b2 = b - 1))
  PROVE  q2 = a2 + b2
OBVIOUS

-----------------------------------------------------------------------------
(* The invariant. *)

Holders(k) == {c \in Call : CapabilityOf(c) = k /\ pc[c] \in Holding}

\* Slots are counted, and only as many given as there are.
Slots ==
  \A k \in Capability :
    /\ IsFiniteSet(Holders(k)) /\ active[k] = Cardinality(Holders(k))
    /\ active[k] <= Concurrency(k)

\* A call waits exactly where it is queued, once.
Queues ==
  /\ queued = Len(queue["read"]) + Len(queue["write"])
  /\ \A k \in Capability :
       /\ \A i \in DOMAIN queue[k] : CapabilityOf(queue[k][i]) = k /\ pc[queue[k][i]] = "queued"
       /\ \A i, j \in DOMAIN queue[k] : queue[k][i] = queue[k][j] => i = j
  /\ \A c \in Call : pc[c] = "queued" =>
       \E i \in DOMAIN queue[CapabilityOf(c)] : queue[CapabilityOf(c)][i] = c

\* What holds of each call: who waits or works unaware is of the session in force, who
\* is late has been aborted; before a call runs it has no answer and nothing of it has
\* reached the helper; and what is said of a write is true.
CallInv(c) ==
  /\ ~Current(c) => pc[c] # "queued" /\ (pc[c] \in {"running", "late"} => c \in aborted)
  /\ pc[c] = "late" => c \in aborted
  /\ reply[c] # None => pc[c] \in {"late", "answered"}
  /\ c \in WriteCall =>
       /\ pc[c] \in {"idle", "queued", "granted"} => host[c] = "none"
       /\ /\ reply[c] # None /\ reply[c].code # "OK"
          /\ reply[c].retryable \/ reply[c].outcome \in {"none", "not_started"}
          => host[c] \in {"none", "refused"}

IInv ==
  /\ TypeOK /\ Slots /\ Queues /\ NoIdleSlot
  /\ \A c \in Call : CallInv(c)

\* The gates are the two of the tools' capabilities.
LEMMA Capabilities ==
  /\ "read" \in Capability /\ "write" \in Capability
  /\ \A c : CapabilityOf(c) \in Capability
  /\ \A k : Concurrency(k) \in Nat \ {0}
BY LimitAssumption DEF Capability, CapabilityOf, Concurrency

\* The executor begins with free slots and empty queues.
LEMMA InitInv == Init => IInv
<1> SUFFICES ASSUME Init PROVE IInv
  OBVIOUS
<1> USE LimitAssumption DEF Init
<1>1. TypeOK
  <2>1. generation \in Nat /\ policy \in [generation : 1..generation, writeEnabled : BOOLEAN] \cup {None}
    OBVIOUS
  <2>2. active \in [Capability -> Nat] /\ queue \in [Capability -> Seq(Call)] /\ queued \in 0..QueueLimit
    OBVIOUS
  <2>3. pc \in [Call -> Stage] /\ session \in [Call -> 0..generation] /\ aborted \subseteq Call
    BY DEF Stage, Waiting
  <2>4. /\ reply \in [Call -> Response \cup {None}]
        /\ host \in [WriteCall -> {"none", "sent", "refused", "restarted"}]
    OBVIOUS
  <2> QED BY <2>1, <2>2, <2>3, <2>4 DEF TypeOK
<1>2. Slots
  <2>1. ASSUME NEW k \in Capability PROVE Holders(k) = {}
    BY DEF Holders, Holding
  <2>2. IsFiniteSet({}) /\ Cardinality({}) = 0
    BY FS_EmptySet
  <2>3. ASSUME NEW k \in Capability
        PROVE  /\ IsFiniteSet(Holders(k)) /\ active[k] = Cardinality(Holders(k))
               /\ active[k] <= Concurrency(k)
    <3>1. active[k] = 0 /\ Holders(k) = {}
      BY <2>1
    <3>2. 0 <= Concurrency(k)
      BY Capabilities
    <3> QED BY <2>2, <3>1, <3>2
  <2> QED BY <2>3 DEF Slots
<1>3. Queues
  BY DEF Queues, Capability
<1>4. NoIdleSlot /\ \A c \in Call : CallInv(c)
  BY DEF NoIdleSlot, CallInv, Call
<1> QED BY <1>1, <1>2, <1>3, <1>4 DEF IInv

-----------------------------------------------------------------------------
(* The gates. *)

\* Where no call takes, leaves or waits for a slot, the gates are as they were.
LEMMA GatesKept ==
  ASSUME IInv, UNCHANGED gateVars,
         \A c \in Call : (pc'[c] \in Holding <=> pc[c] \in Holding) /\ (pc'[c] = "queued" <=> pc[c] = "queued")
  PROVE  Slots' /\ Queues' /\ NoIdleSlot'
<1> USE DEF IInv, gateVars
<1>1. ASSUME NEW k \in Capability PROVE Holders(k)' = Holders(k)
  BY DEF Holders
<1>2. Slots'
  BY <1>1 DEF Slots
<1>3. Queues'
  <2>1. ASSUME NEW k \in Capability, NEW i \in DOMAIN queue[k] PROVE queue[k][i] \in Call
    BY DEF TypeOK
  <2> QED BY <2>1 DEF Queues
<1>4. NoIdleSlot'
  BY DEF NoIdleSlot
<1> QED BY <1>2, <1>3, <1>4

\* A call that holds a slot gives it to the head of the queue, or frees it.
LEMMA ReleaseGates ==
  ASSUME IInv, NEW c \in Call, pc[c] \in Holding, Release(c)
  PROVE  /\ Slots' /\ Queues' /\ NoIdleSlot'
         /\ active' \in [Capability -> Nat] /\ queue' \in [Capability -> Seq(Call)]
         /\ queued' \in 0..QueueLimit /\ pc' \in [Call -> Stage] /\ pc'[c] = "answered"
         /\ \A d \in Call : d # c => pc'[d] = pc[d] \/ (pc[d] = "queued" /\ pc'[d] = "granted")
<1> DEFINE k == CapabilityOf(c)
<1> USE LimitAssumption DEF IInv, Holding
<1>0. k \in Capability /\ pc[c] # "queued" /\ c \in Holders(k)
  BY Capabilities DEF Holders
<1>1. CASE queue[k] # <<>>
  <2> DEFINE h == Head(queue[k])
  <2>1. /\ pc' = [pc EXCEPT ![c] = "answered", ![h] = "granted"]
        /\ queue' = [queue EXCEPT ![k] = Tail(queue[k])] /\ queued' = queued - 1 /\ active' = active
    BY <1>1 DEF Release
  <2>2. /\ Tail(queue[k]) \in Seq(Call) /\ Len(Tail(queue[k])) = Len(queue[k]) - 1
        /\ Len(queue[k]) \in Nat \ {0} /\ h = queue[k][1] /\ h \in Call
        /\ \A i \in 1..(Len(queue[k]) - 1) : Tail(queue[k])[i] = queue[k][i + 1]
    BY <1>0, <1>1, TailFacts DEF TypeOK
  <2>3. pc[h] = "queued" /\ CapabilityOf(h) = k /\ h # c
    BY <1>0, <2>2 DEF Queues
  <2>4. /\ pc' \in [Call -> Stage] /\ pc'[c] = "answered" /\ pc'[h] = "granted"
        /\ \A d \in Call : d # c /\ d # h => pc'[d] = pc[d]
    BY <2>1, <2>2, <2>3 DEF TypeOK, Stage, Waiting
  <2>5. queue' \in [Capability -> Seq(Call)] /\ queued' \in 0..QueueLimit
    <3>1. Len(queue["read"]) \in Nat /\ Len(queue["write"]) \in Nat
      BY Capabilities DEF TypeOK
    <3>2. queued # 0
      <4>1. queued = Len(queue["read"]) + Len(queue["write"])
        BY DEF Queues
      <4>2. Len(queue["read"]) # 0 \/ Len(queue["write"]) # 0
        <5>1. k = "read" \/ k = "write"
          BY <1>0 DEF Capability
        <5>2. Len(queue[k]) # 0
          BY <2>2
        <5> QED BY <5>1, <5>2
      <4> DEFINE a == Len(queue["read"])
                 b == Len(queue["write"])
      <4>3. a \in Nat /\ b \in Nat /\ queued = a + b /\ (a # 0 \/ b # 0)
        BY <3>1, <4>1, <4>2
      <4> HIDE DEF a, b
      <4> QED BY <4>3, SumFacts
    <3> QED BY <1>0, <2>1, <2>2, <3>2 DEF TypeOK
  <2>6. ASSUME NEW l \in Capability, l # k PROVE Holders(l)' = Holders(l)
    BY <2>3, <2>4, <2>6 DEF Holders
  <2>7. Holders(k)' = (Holders(k) \ {c}) \cup {h} /\ h \notin Holders(k)
    BY <2>2, <2>3, <2>4 DEF Holders
  <2>8. IsFiniteSet(Holders(k)') /\ Cardinality(Holders(k)') = Cardinality(Holders(k))
    <3>1. IsFiniteSet(Holders(k)) /\ Cardinality(Holders(k)) \in Nat
      BY <1>0 DEF Slots, TypeOK
    <3> DEFINE H == Holders(k)
               G == Holders(k) \ {c}
    <3>2. IsFiniteSet(G) /\ Cardinality(G) = Cardinality(H) - 1
      BY <1>0, <3>1, FS_RemoveElement
    <3>3. IsFiniteSet(G \cup {h}) /\ Cardinality(G \cup {h}) = Cardinality(G) + 1
      <4>1. h \notin G
        BY <2>7
      <4> HIDE DEF G, h
      <4> QED BY <3>2, <4>1, FS_AddElement
    <3> QED BY <2>7, <3>1, <3>2, <3>3
  <2>9. Slots'
    <3>1. ASSUME NEW l \in Capability
          PROVE  /\ IsFiniteSet(Holders(l)') /\ active'[l] = Cardinality(Holders(l)')
                 /\ active'[l] <= Concurrency(l)
      BY <2>1, <2>6, <2>8, <3>1 DEF Slots
    <3> QED BY <3>1 DEF Slots, Concurrency
  <2>10. Queues'
    <3>1. queued' = Len(queue'["read"]) + Len(queue'["write"])
      <4>1. Len(queue["read"]) \in Nat /\ Len(queue["write"]) \in Nat
        BY Capabilities DEF TypeOK
      <4>2. queued = Len(queue["read"]) + Len(queue["write"]) /\ queued' = queued - 1 /\ k \in Capability
        BY <1>0, <2>1 DEF Queues
      <4>3. \A l \in Capability : queue'[l] = IF l = k THEN Tail(queue[k]) ELSE queue[l]
        BY <2>1 DEF TypeOK
      <4>4. CASE k = "read"
        <5> DEFINE a == Len(queue["read"])
                   b == Len(queue["write"])
                   a2 == Len(queue'["read"])
                   b2 == Len(queue'["write"])
        <5>1. Len(queue'["read"]) = Len(queue["read"]) - 1 /\ queue'["write"] = queue["write"]
          BY <2>2, <4>3, <4>4, Capabilities
        <5>2. a \in Nat /\ b \in Nat /\ queued = a + b /\ queued' = queued - 1 /\ a2 = a - 1 /\ b2 = b
          BY <4>1, <4>2, <5>1
        <5> HIDE DEF a, b, a2, b2
        <5>3. queued' = a2 + b2
          BY <5>2, SumMoves
        <5> QED BY <5>3 DEF a2, b2
      <4>5. CASE k = "write"
        <5> DEFINE a == Len(queue["read"])
                   b == Len(queue["write"])
                   a2 == Len(queue'["read"])
                   b2 == Len(queue'["write"])
        <5>1. Len(queue'["write"]) = Len(queue["write"]) - 1 /\ queue'["read"] = queue["read"]
          BY <2>2, <4>3, <4>5, Capabilities
        <5>2. a \in Nat /\ b \in Nat /\ queued = a + b /\ queued' = queued - 1 /\ a2 = a /\ b2 = b - 1
          BY <4>1, <4>2, <5>1
        <5> HIDE DEF a, b, a2, b2
        <5>3. queued' = a2 + b2
          BY <5>2, SumMoves
        <5> QED BY <5>3 DEF a2, b2
      <4> QED BY <4>2, <4>4, <4>5 DEF Capability
    <3>2. ASSUME NEW l \in Capability, l # k
          PROVE  /\ queue'[l] = queue[l]
                 /\ \A i \in DOMAIN queue[l] : queue[l][i] \in Call /\ queue[l][i] # c /\ queue[l][i] # h
      BY <1>0, <2>1, <2>3, <3>2 DEF Queues, TypeOK
    <3>3. /\ DOMAIN queue'[k] = 1..(Len(queue[k]) - 1)
          /\ \A i \in 1..(Len(queue[k]) - 1) : queue'[k][i] = queue[k][i + 1]
      BY <1>0, <2>1, <2>2 DEF TypeOK
    <3>4. DOMAIN queue[k] = 1..Len(queue[k]) /\ \A i \in DOMAIN queue[k] : queue[k][i] \in Call
      BY <1>0 DEF TypeOK
    <3>5. ASSUME NEW i \in DOMAIN queue'[k]
          PROVE  /\ i + 1 \in DOMAIN queue[k] /\ queue'[k][i] = queue[k][i + 1]
                 /\ queue[k][i + 1] # h /\ queue[k][i + 1] # c
      <4>1. i + 1 \in 1..Len(queue[k]) /\ i + 1 # 1 /\ 1 \in 1..Len(queue[k])
        BY <2>2, <3>3
      <4>2. queue[k][i + 1] # queue[k][1] /\ pc[queue[k][i + 1]] = "queued"
        BY <1>0, <3>4, <4>1 DEF Queues
      <4> QED BY <1>0, <2>2, <3>3, <3>4, <4>1, <4>2
    <3>6. ASSUME NEW l \in Capability
          PROVE  /\ \A i \in DOMAIN queue'[l] : CapabilityOf(queue'[l][i]) = l /\ pc'[queue'[l][i]] = "queued"
                 /\ \A i, j \in DOMAIN queue'[l] : queue'[l][i] = queue'[l][j] => i = j
      <4>1. CASE l # k
        BY <2>4, <3>2, <4>1 DEF Queues
      <4>2. CASE l = k
        <5>1. ASSUME NEW i \in DOMAIN queue'[k]
              PROVE  CapabilityOf(queue'[k][i]) = k /\ pc'[queue'[k][i]] = "queued"
          BY <1>0, <2>4, <3>4, <3>5 DEF Queues
        <5>2. ASSUME NEW i \in DOMAIN queue'[k], NEW j \in DOMAIN queue'[k], queue'[k][i] = queue'[k][j]
              PROVE  i = j
          <6>1. i + 1 = j + 1
            BY <1>0, <3>5, <5>2 DEF Queues
          <6> QED BY <2>2, <3>3, <6>1
        <5> QED BY <4>2, <5>1, <5>2
      <4> QED BY <4>1, <4>2
    <3>7. ASSUME NEW d \in Call, pc'[d] = "queued"
          PROVE  \E i \in DOMAIN queue'[CapabilityOf(d)] : queue'[CapabilityOf(d)][i] = d
      <4>1. d # c /\ d # h /\ pc[d] = "queued"
        BY <2>4, <3>7
      <4>2. PICK i \in DOMAIN queue[CapabilityOf(d)] : queue[CapabilityOf(d)][i] = d
        BY <4>1 DEF Queues
      <4>3. CASE CapabilityOf(d) # k
        BY <3>2, <4>2, <4>3, Capabilities
      <4>4. CASE CapabilityOf(d) = k
        <5>1. i \in 1..Len(queue[k]) /\ i # 1 /\ queue[k][i] = d
          BY <2>2, <3>4, <4>1, <4>2, <4>4
        <5>2. i - 1 \in 1..(Len(queue[k]) - 1) /\ (i - 1) + 1 = i
          BY <2>2, <5>1
        <5> QED BY <3>3, <4>4, <5>1, <5>2
      <4> QED BY <4>3, <4>4
    <3> QED BY <3>1, <3>6, <3>7 DEF Queues
  <2>11. NoIdleSlot'
    BY <1>0, <1>1, <2>1 DEF NoIdleSlot, TypeOK, Concurrency
  <2> QED BY <2>1, <2>3, <2>4, <2>5, <2>9, <2>10, <2>11 DEF TypeOK
<1>2. CASE queue[k] = <<>>
  <2>1. /\ pc' = [pc EXCEPT ![c] = "answered"] /\ active' = [active EXCEPT ![k] = active[k] - 1]
        /\ UNCHANGED <<queue, queued>>
    BY <1>2 DEF Release
  <2>2. pc' \in [Call -> Stage] /\ pc'[c] = "answered" /\ \A d \in Call : d # c => pc'[d] = pc[d]
    BY <2>1 DEF TypeOK, Stage
  <2>3. ASSUME NEW l \in Capability, l # k PROVE Holders(l)' = Holders(l)
    BY <2>2, <2>3 DEF Holders
  <2>4. Holders(k)' = Holders(k) \ {c}
    BY <2>2 DEF Holders
  <2>5. /\ IsFiniteSet(Holders(k)') /\ Cardinality(Holders(k)') = Cardinality(Holders(k)) - 1
        /\ Cardinality(Holders(k)') \in Nat
    <3>1. IsFiniteSet(Holders(k))
      BY <1>0 DEF Slots
    <3> QED BY <1>0, <2>4, <3>1, FS_RemoveElement, FS_CardinalityType
  <2>6. active' \in [Capability -> Nat] /\ active'[k] = Cardinality(Holders(k)')
    BY <1>0, <2>1, <2>5 DEF Slots, TypeOK
  <2>7. Slots'
    <3>1. active'[k] <= Concurrency(k)
      BY <1>0, <2>1, Capabilities DEF Slots, TypeOK
    <3>2. ASSUME NEW l \in Capability, l # k
          PROVE  /\ IsFiniteSet(Holders(l)') /\ active'[l] = Cardinality(Holders(l)')
                 /\ active'[l] <= Concurrency(l)
      BY <2>1, <2>3, <3>2 DEF Slots, TypeOK
    <3>3. ASSUME NEW l \in Capability
          PROVE  /\ IsFiniteSet(Holders(l)') /\ active'[l] = Cardinality(Holders(l)')
                 /\ active'[l] <= Concurrency(l)
      BY <2>5, <2>6, <3>1, <3>2
    <3> QED BY <3>3 DEF Slots, Concurrency
  <2>8. Queues'
    <3>1. ASSUME NEW l \in Capability, NEW i \in DOMAIN queue[l]
          PROVE  queue[l][i] \in Call /\ pc'[queue[l][i]] = "queued"
      BY <1>0, <2>2 DEF Queues, TypeOK
    <3>2. \A d \in Call : pc'[d] = "queued" => pc[d] = "queued"
      BY <2>2
    <3> QED BY <2>1, <3>1, <3>2 DEF Queues
  <2>9. NoIdleSlot'
    BY <1>0, <1>2, <2>1 DEF NoIdleSlot, TypeOK, Concurrency
  <2> QED BY <2>1, <2>2, <2>6, <2>7, <2>8, <2>9 DEF TypeOK
<1> QED BY <1>1, <1>2

-----------------------------------------------------------------------------
(* The calls. *)

\* A call whose state, answer and session a step leaves alone, but for the grant of a
\* slot it waited for, keeps what holds of it.
LEMMA CallKept ==
  ASSUME NEW d \in Call, CallInv(d), policy' = policy, session'[d] = session[d],
         reply'[d] = reply[d], aborted \subseteq aborted', d \in WriteCall => host'[d] = host[d],
         pc'[d] = pc[d] \/ (pc[d] = "queued" /\ pc'[d] = "granted")
  PROVE  CallInv(d)'
<1>1. Current(d)' <=> Current(d)
  BY DEF Current
<1> QED BY <1>1 DEF CallInv

\* The answers of execute() are well formed.
LEMMA ReplyFacts ==
  ASSUME TypeOK, NEW c \in Call, NEW code \in Code, NEW outcome \in Outcome, Reply(c, code, outcome)
  PROVE  /\ reply' \in [Call -> Response \cup {None}]
         /\ reply'[c].code = code /\ reply'[c].outcome = outcome
         /\ reply'[c].retryable = Retryable(c, code, outcome)
         /\ \A d \in Call : d # c => reply'[d] = reply[d]
<1> DEFINE r == [code |-> code, outcome |-> outcome, retryable |-> Retryable(c, code, outcome)]
<1>1. Retryable(c, code, outcome) \in BOOLEAN
  BY DEF Retryable
<1>2. r \in Response
  BY <1>1 DEF Response
<1>3. reply' = [reply EXCEPT ![c] = r] /\ reply \in [Call -> Response \cup {None}]
  BY DEF Reply, TypeOK
<1> QED BY <1>2, <1>3

\* And those of its catch block, which makes a silent write ambiguous.
LEMMA FailFacts ==
  ASSUME TypeOK, NEW c \in Call, NEW code \in Code, NEW outcome \in Outcome, Fail(c, code, outcome)
  PROVE  /\ reply' \in [Call -> Response \cup {None}]
         /\ \A d \in Call : d # c => reply'[d] = reply[d]
         /\ c \in WriteCall =>
              /\ reply'[c].outcome = "not_started" <=> outcome = "not_started"
              /\ reply'[c].outcome # "none"
              /\ reply'[c].retryable => code \in RETRYABLE /\ outcome = "not_started"
<1> DEFINE o == IF c \in WriteCall /\ outcome = "none" THEN "unknown" ELSE outcome
<1>1. o \in Outcome /\ Reply(c, code, o)
  BY DEF Outcome, Fail
<1>2. c \in WriteCall => c \notin ReadCall
  BY CallAssumption
<1>3. Retryable(c, code, o) => code \in RETRYABLE /\ (c \in ReadCall \/ o = "not_started")
  BY DEF Retryable
<1> HIDE DEF o
<1>4. /\ reply' \in [Call -> Response \cup {None}]
      /\ reply'[c].outcome = o /\ reply'[c].retryable = Retryable(c, code, o)
      /\ \A d \in Call : d # c => reply'[d] = reply[d]
  BY <1>1, ReplyFacts
<1>5. c \in WriteCall => o # "none" /\ (o = "not_started" <=> outcome = "not_started")
  BY DEF o
<1> QED BY <1>2, <1>3, <1>4, <1>5

\* A call is taken in, queued or turned away.
LEMMA ExecuteKeeps == ASSUME IInv, NEW c \in Call, Execute(c) PROVE IInv'
<1> DEFINE k == CapabilityOf(c)
<1> USE LimitAssumption
<1>0. /\ pc[c] = "idle" /\ k \in Capability /\ UNCHANGED <<generation, policy, aborted, host>>
      /\ c \notin Holders(k)
  BY Capabilities DEF Execute, Holders, Holding
<1>1. ASSUME NEW code \in Code, pc' = [pc EXCEPT ![c] = "answered"], Reply(c, code, "none"),
             UNCHANGED <<gateVars, session>>
      PROVE  IInv'
  <2>1. /\ reply' \in [Call -> Response \cup {None}] /\ \A d \in Call : d # c => reply'[d] = reply[d]
    BY <1>1, ReplyFacts DEF IInv, Outcome
  <2>2. pc' \in [Call -> Stage] /\ pc'[c] = "answered" /\ \A d \in Call : d # c => pc'[d] = pc[d]
    BY <1>1 DEF IInv, TypeOK, Stage
  <2>3. Slots' /\ Queues' /\ NoIdleSlot'
    BY <1>0, <1>1, <2>2, GatesKept DEF Holding
  <2>4. TypeOK'
    BY <1>0, <1>1, <2>1, <2>2 DEF IInv, TypeOK, gateVars
  <2>5. CallInv(c)'
    BY <1>0, <2>2 DEF IInv, CallInv
  <2>6. ASSUME NEW d \in Call, d # c PROVE CallInv(d)'
    BY <1>0, <1>1, <2>1, <2>2, <2>6, CallKept DEF IInv
  <2> QED BY <2>3, <2>4, <2>5, <2>6 DEF IInv
<1>2. ASSUME policy # None, session' = [session EXCEPT ![c] = policy.generation], reply' = reply,
             NEW s \in {"granted", "queued"}, pc' = [pc EXCEPT ![c] = s]
      PROVE  /\ session' \in [Call -> 0..generation'] /\ reply' \in [Call -> Response \cup {None}]
             /\ pc' \in [Call -> Stage] /\ pc'[c] = s /\ \A d \in Call : d # c => pc'[d] = pc[d]
             /\ \A d \in Call : CallInv(d)'
             /\ policy' \in [generation : 1..generation', writeEnabled : BOOLEAN] \cup {None}
             /\ generation' \in Nat /\ aborted' \subseteq Call
             /\ host' \in [WriteCall -> {"none", "sent", "refused", "restarted"}]
  <2>1. policy.generation \in 0..generation
    BY <1>2 DEF IInv, TypeOK
  <2>2. /\ session' \in [Call -> 0..generation'] /\ session'[c] = policy.generation
        /\ \A d \in Call : d # c => session'[d] = session[d]
    BY <1>0, <1>2, <2>1 DEF IInv, TypeOK
  <2>3. pc' \in [Call -> Stage] /\ pc'[c] = s /\ \A d \in Call : d # c => pc'[d] = pc[d]
    BY <1>2 DEF IInv, TypeOK, Stage, Waiting
  <2>4. CallInv(c)'
    BY <1>0, <1>2, <2>2, <2>3 DEF IInv, CallInv, Current
  <2>5. ASSUME NEW d \in Call, d # c PROVE CallInv(d)'
    BY <1>0, <1>2, <2>2, <2>3, <2>5, CallKept DEF IInv
  <2>6. \A d \in Call : CallInv(d)'
    BY <2>4, <2>5
  <2> QED BY <1>0, <1>2, <2>2, <2>3, <2>6 DEF IInv, TypeOK
<1>3. ASSUME active[k] < Concurrency(k), active' = [active EXCEPT ![k] = active[k] + 1],
             policy # None, session' = [session EXCEPT ![c] = policy.generation], reply' = reply,
             pc' = [pc EXCEPT ![c] = "granted"], UNCHANGED <<queue, queued>>
      PROVE  IInv'
  <2>1. pc'[c] = "granted" /\ \A d \in Call : d # c => pc'[d] = pc[d]
    BY <1>2, <1>3
  <2>2. active[k] \in Nat /\ Concurrency(k) \in Nat /\ active' \in [Capability -> Nat]
    BY <1>0, <1>3, Capabilities DEF IInv, TypeOK
  <2>3. queue[k] = <<>>
    BY <1>0, <1>3, <2>2 DEF IInv, NoIdleSlot
  <2>4. ASSUME NEW l \in Capability, l # k PROVE Holders(l)' = Holders(l)
    BY <2>1, <2>4 DEF Holders
  <2>5. Holders(k)' = Holders(k) \cup {c}
    BY <2>1 DEF Holders, Holding
  <2>6. IsFiniteSet(Holders(k)') /\ Cardinality(Holders(k)') = active[k] + 1
    <3>1. IsFiniteSet(Holders(k)) /\ active[k] = Cardinality(Holders(k))
      BY <1>0 DEF IInv, Slots
    <3> QED BY <1>0, <2>5, <3>1, FS_AddElement
  <2>7. Slots'
    <3>1. ASSUME NEW l \in Capability
          PROVE  /\ IsFiniteSet(Holders(l)') /\ active'[l] = Cardinality(Holders(l)')
                 /\ active'[l] <= Concurrency(l)
      <4>1. CASE l = k
        BY <1>0, <1>3, <2>2, <2>6, <4>1 DEF IInv, TypeOK
      <4>2. CASE l # k
        BY <1>0, <1>3, <2>4, <4>2 DEF IInv, TypeOK, Slots
      <4> QED BY <4>1, <4>2
    <3> QED BY <3>1 DEF Slots, Concurrency
  <2>8. Queues'
    <3>1. ASSUME NEW l \in Capability, NEW i \in DOMAIN queue[l]
          PROVE  queue[l][i] \in Call /\ pc'[queue[l][i]] = "queued"
      <4>1. queue[l][i] \in Call /\ pc[queue[l][i]] = "queued"
        BY DEF IInv, Queues, TypeOK
      <4> QED BY <1>0, <2>1, <4>1
    <3>2. \A d \in Call : pc'[d] = "queued" => pc[d] = "queued"
      BY <2>1
    <3> QED BY <1>3, <3>1, <3>2 DEF IInv, Queues
  <2>9. NoIdleSlot'
    <3>1. ASSUME NEW l \in Capability, queue[l] # <<>> PROVE active'[l] = Concurrency(l)
      BY <1>3, <2>3, <3>1 DEF IInv, TypeOK, NoIdleSlot
    <3> QED BY <1>3, <3>1 DEF NoIdleSlot, Concurrency
  <2> QED BY <1>2, <1>3, <2>2, <2>7, <2>8, <2>9 DEF IInv, TypeOK
<1>4. ASSUME active[k] >= Concurrency(k), queued < QueueLimit, queued' = queued + 1,
             queue' = [queue EXCEPT ![k] = Append(queue[k], c)],
             policy # None, session' = [session EXCEPT ![c] = policy.generation], reply' = reply,
             pc' = [pc EXCEPT ![c] = "queued"], active' = active
      PROVE  IInv'
  <2>1. pc'[c] = "queued" /\ \A d \in Call : d # c => pc'[d] = pc[d]
    BY <1>2, <1>4
  <2>2. /\ Append(queue[k], c) \in Seq(Call) /\ Len(Append(queue[k], c)) = Len(queue[k]) + 1
        /\ \A i \in 1..Len(queue[k]) : Append(queue[k], c)[i] = queue[k][i]
        /\ Append(queue[k], c)[Len(queue[k]) + 1] = c /\ Len(queue[k]) \in Nat
    BY <1>0, AppendFacts DEF IInv, TypeOK
  <2>3. /\ queue' \in [Capability -> Seq(Call)] /\ queue'[k] = Append(queue[k], c)
        /\ \A l \in Capability : l # k => queue'[l] = queue[l]
    BY <1>0, <1>4, <2>2 DEF IInv, TypeOK
  <2>4. queued' \in 0..QueueLimit
    BY <1>4 DEF IInv, TypeOK
  <2>5. Slots'
    <3>1. ASSUME NEW l \in Capability PROVE Holders(l)' = Holders(l)
      BY <1>0, <2>1 DEF Holders, Holding
    <3> QED BY <1>4, <3>1 DEF IInv, Slots, Concurrency
  <2>6. queued' = Len(queue'["read"]) + Len(queue'["write"])
    <3>1. Len(queue["read"]) \in Nat /\ Len(queue["write"]) \in Nat
      BY Capabilities DEF IInv, TypeOK
    <3>2. queued = Len(queue["read"]) + Len(queue["write"]) /\ queued' = queued + 1
      BY <1>4 DEF IInv, Queues
    <3>3. CASE k = "read"
      <4> DEFINE a == Len(queue["read"])
                 b == Len(queue["write"])
                 a2 == Len(queue'["read"])
                 b2 == Len(queue'["write"])
      <4>1. Len(queue'["read"]) = Len(queue["read"]) + 1 /\ queue'["write"] = queue["write"]
        BY <2>2, <2>3, <3>3, Capabilities
      <4>2. a \in Nat /\ b \in Nat /\ queued = a + b /\ queued' = queued + 1 /\ a2 = a + 1 /\ b2 = b
        BY <3>1, <3>2, <4>1
      <4> HIDE DEF a, b, a2, b2
      <4>3. queued' = a2 + b2
        BY <4>2, SumMoves
      <4> QED BY <4>3 DEF a2, b2
    <3>4. CASE k = "write"
      <4> DEFINE a == Len(queue["read"])
                 b == Len(queue["write"])
                 a2 == Len(queue'["read"])
                 b2 == Len(queue'["write"])
      <4>1. Len(queue'["write"]) = Len(queue["write"]) + 1 /\ queue'["read"] = queue["read"]
        BY <2>2, <2>3, <3>4, Capabilities
      <4>2. a \in Nat /\ b \in Nat /\ queued = a + b /\ queued' = queued + 1 /\ a2 = a /\ b2 = b + 1
        BY <3>1, <3>2, <4>1
      <4> HIDE DEF a, b, a2, b2
      <4>3. queued' = a2 + b2
        BY <4>2, SumMoves
      <4> QED BY <4>3 DEF a2, b2
    <3> QED BY <1>0, <3>3, <3>4 DEF Capability
  <2>7. ASSUME NEW l \in Capability, NEW i \in DOMAIN queue[l]
        PROVE  /\ queue[l][i] \in Call /\ CapabilityOf(queue[l][i]) = l
               /\ queue[l][i] # c /\ pc[queue[l][i]] = "queued" /\ pc'[queue[l][i]] = "queued"
    <3>1. queue[l][i] \in Call /\ pc[queue[l][i]] = "queued" /\ CapabilityOf(queue[l][i]) = l
      BY <2>7 DEF IInv, Queues, TypeOK
    <3> QED BY <1>0, <2>1, <3>1
  <2>8. DOMAIN queue[k] = 1..Len(queue[k]) /\ DOMAIN queue'[k] = 1..(Len(queue[k]) + 1)
    BY <1>0, <2>2, <2>3 DEF IInv, TypeOK
  <2>9. ASSUME NEW l \in Capability
        PROVE  /\ \A i \in DOMAIN queue'[l] : CapabilityOf(queue'[l][i]) = l /\ pc'[queue'[l][i]] = "queued"
               /\ \A i, j \in DOMAIN queue'[l] : queue'[l][i] = queue'[l][j] => i = j
    <3>1. CASE l # k
      BY <2>3, <2>7, <3>1 DEF IInv, Queues
    <3>2. CASE l = k
      <4>1. ASSUME NEW i \in DOMAIN queue'[k]
            PROVE  \/ i \in DOMAIN queue[k] /\ queue'[k][i] = queue[k][i] /\ queue'[k][i] # c
                   \/ i = Len(queue[k]) + 1 /\ queue'[k][i] = c
        BY <1>0, <2>2, <2>3, <2>7, <2>8, <4>1
      <4>2. \A i \in DOMAIN queue'[k] : CapabilityOf(queue'[k][i]) = k /\ pc'[queue'[k][i]] = "queued"
        BY <1>0, <2>1, <2>7, <4>1
      <4>3. \A i, j \in DOMAIN queue'[k] : queue'[k][i] = queue'[k][j] => i = j
        BY <1>0, <4>1 DEF IInv, Queues
      <4> QED BY <3>2, <4>2, <4>3
    <3> QED BY <3>1, <3>2
  <2>10. ASSUME NEW d \in Call, pc'[d] = "queued"
         PROVE  \E i \in DOMAIN queue'[CapabilityOf(d)] : queue'[CapabilityOf(d)][i] = d
    <3>1. CASE d = c
      BY <2>2, <2>3, <2>8, <3>1
    <3>2. CASE d # c
      <4>1. PICK i \in DOMAIN queue[CapabilityOf(d)] : queue[CapabilityOf(d)][i] = d
        BY <2>1, <2>10, <3>2 DEF IInv, Queues
      <4>2. CASE CapabilityOf(d) # k
        BY <2>3, <4>1, <4>2, Capabilities
      <4>3. CASE CapabilityOf(d) = k
        BY <2>2, <2>3, <2>8, <4>1, <4>3
      <4> QED BY <4>2, <4>3
    <3> QED BY <3>1, <3>2
  <2>11. Queues'
    BY <2>6, <2>9, <2>10 DEF Queues
  <2>12. NoIdleSlot'
    <3>1. active[k] = Concurrency(k)
      BY <1>0, <1>4, Capabilities DEF IInv, Slots, TypeOK
    <3>2. ASSUME NEW l \in Capability, queue'[l] # <<>> PROVE active'[l] = Concurrency(l)
      BY <1>4, <2>3, <3>1, <3>2 DEF IInv, NoIdleSlot
    <3> QED BY <3>2 DEF NoIdleSlot, Concurrency
  <2> QED BY <1>2, <1>4, <2>3, <2>4, <2>5, <2>11, <2>12 DEF IInv, TypeOK
<1>5. {"TOOL_NOT_ALLOWED", "WRITE_DISABLED", "INVALID_ARGUMENTS", "TOOL_BUSY"} \subseteq Code
  BY DEF Code
<1>6. \/ \E code \in {"TOOL_NOT_ALLOWED", "WRITE_DISABLED", "INVALID_ARGUMENTS", "TOOL_BUSY"} :
           pc' = [pc EXCEPT ![c] = "answered"] /\ Reply(c, code, "none") /\ UNCHANGED <<gateVars, session>>
      \/ /\ policy # None /\ session' = [session EXCEPT ![c] = policy.generation] /\ reply' = reply
         /\ \/ /\ active[k] < Concurrency(k) /\ active' = [active EXCEPT ![k] = active[k] + 1]
               /\ pc' = [pc EXCEPT ![c] = "granted"] /\ UNCHANGED <<queue, queued>>
            \/ /\ active[k] >= Concurrency(k) /\ queued < QueueLimit /\ queued' = queued + 1
               /\ queue' = [queue EXCEPT ![k] = Append(queue[k], c)]
               /\ pc' = [pc EXCEPT ![c] = "queued"] /\ active' = active
  BY DEF Execute
<1> QED BY <1>1, <1>3, <1>4, <1>5, <1>6

\* A queued call whose timer fires leaves its place.
LEMMA QueueTimeoutKeeps == ASSUME IInv, NEW c \in Call, QueueTimeout(c) PROVE IInv'
<1> DEFINE k == CapabilityOf(c)
           q == queue[k]
<1> USE LimitAssumption
<1>0. /\ pc[c] = "queued" /\ k \in Capability /\ queued' = queued - 1
      /\ pc' = [pc EXCEPT ![c] = "answered"] /\ Reply(c, "TOOL_TIMEOUT", "not_started")
      /\ UNCHANGED <<generation, policy, active, session, aborted, host>>
  BY Capabilities DEF QueueTimeout
<1>1. PICK p \in DOMAIN q : q[p] = c /\ queue' = [queue EXCEPT ![k] = RemoveAt(q, p)]
  BY DEF QueueTimeout, Withdraw
<1>2. q \in Seq(Call) /\ p \in 1..Len(q) /\ DOMAIN q = 1..Len(q) /\ Len(q) \in Nat \ {0} /\ p \in Nat
  BY <1>0, <1>1 DEF IInv, TypeOK
<1>3. /\ queue' \in [Capability -> Seq(Call)] /\ \A l \in Capability : l # k => queue'[l] = queue[l]
      /\ Len(queue'[k]) = Len(q) - 1 /\ DOMAIN queue'[k] = 1..(Len(q) - 1)
      /\ \A j \in 1..(Len(q) - 1) : queue'[k][j] = IF j < p THEN q[j] ELSE q[j + 1]
  <2>1. /\ RemoveAt(q, p) \in Seq(Call) /\ Len(RemoveAt(q, p)) = Len(q) - 1
        /\ \A j \in 1..(Len(q) - 1) : RemoveAt(q, p)[j] = IF j < p THEN q[j] ELSE q[j + 1]
    BY <1>2, RemoveAtFacts
  <2>2. DOMAIN RemoveAt(q, p) = 1..(Len(q) - 1)
    BY <2>1
  <2>3. /\ queue'[k] = RemoveAt(q, p) /\ queue' \in [Capability -> Seq(Call)]
        /\ \A l \in Capability : l # k => queue'[l] = queue[l]
    BY <1>0, <1>1, <2>1 DEF IInv, TypeOK
  <2> QED BY <2>1, <2>2, <2>3
<1>4. pc' \in [Call -> Stage] /\ pc'[c] = "answered" /\ \A d \in Call : d # c => pc'[d] = pc[d]
  BY <1>0 DEF IInv, TypeOK, Stage
<1>5. /\ reply' \in [Call -> Response \cup {None}] /\ \A d \in Call : d # c => reply'[d] = reply[d]
  BY <1>0, ReplyFacts DEF IInv, Code, Outcome
<1>6. Slots'
  <2>1. ASSUME NEW l \in Capability PROVE Holders(l)' = Holders(l)
    BY <1>0, <1>4 DEF Holders, Holding
  <2> QED BY <1>0, <2>1 DEF IInv, Slots, Concurrency
<1>7. queued' = Len(queue'["read"]) + Len(queue'["write"]) /\ queued # 0
  <2>1. Len(queue["read"]) \in Nat /\ Len(queue["write"]) \in Nat
    BY Capabilities DEF IInv, TypeOK
  <2>2. queued = Len(queue["read"]) + Len(queue["write"]) /\ queued' = queued - 1
    BY <1>0 DEF IInv, Queues
  <2>3. queued # 0
    <3> DEFINE a == Len(queue["read"])
               b == Len(queue["write"])
    <3>1. a # 0 \/ b # 0
      BY <1>0, <1>2 DEF Capability
    <3>2. a \in Nat /\ b \in Nat /\ queued = a + b
      BY <2>1, <2>2
    <3> HIDE DEF a, b
    <3> QED BY <3>1, <3>2, SumFacts
  <2>4. CASE k = "read"
    <3> DEFINE a == Len(queue["read"])
               b == Len(queue["write"])
               a2 == Len(queue'["read"])
               b2 == Len(queue'["write"])
    <3>1. Len(queue'["read"]) = Len(queue["read"]) - 1 /\ queue'["write"] = queue["write"]
      BY <1>3, <2>4, Capabilities
    <3>2. a \in Nat /\ b \in Nat /\ queued = a + b /\ queued' = queued - 1 /\ a2 = a - 1 /\ b2 = b
      BY <2>1, <2>2, <2>3, <3>1
    <3> HIDE DEF a, b, a2, b2
    <3>3. queued' = a2 + b2
      BY <3>2, SumMoves
    <3> QED BY <2>3, <3>3 DEF a2, b2
  <2>5. CASE k = "write"
    <3> DEFINE a == Len(queue["read"])
               b == Len(queue["write"])
               a2 == Len(queue'["read"])
               b2 == Len(queue'["write"])
    <3>1. Len(queue'["write"]) = Len(queue["write"]) - 1 /\ queue'["read"] = queue["read"]
      BY <1>3, <2>5, Capabilities
    <3>2. a \in Nat /\ b \in Nat /\ queued = a + b /\ queued' = queued - 1 /\ a2 = a /\ b2 = b - 1
      BY <2>1, <2>2, <2>3, <3>1
    <3> HIDE DEF a, b, a2, b2
    <3>3. queued' = a2 + b2
      BY <3>2, SumMoves
    <3> QED BY <2>3, <3>3 DEF a2, b2
  <2> QED BY <1>0, <2>4, <2>5 DEF Capability
<1>8. ASSUME NEW l \in Capability, NEW i \in DOMAIN queue[l]
      PROVE  /\ queue[l][i] \in Call /\ CapabilityOf(queue[l][i]) = l /\ pc[queue[l][i]] = "queued"
             /\ \A j \in DOMAIN queue[l] : queue[l][i] = queue[l][j] => i = j
  BY <1>8 DEF IInv, Queues, TypeOK
<1>9. ASSUME NEW j \in DOMAIN queue'[k]
      PROVE  \E i \in DOMAIN q : /\ i = (IF j < p THEN j ELSE j + 1) /\ queue'[k][j] = q[i]
                                 /\ i # p /\ q[i] # c
  <2> DEFINE i == IF j < p THEN j ELSE j + 1
  <2>1. j \in Nat /\ j \in 1..(Len(q) - 1) /\ i \in 1..Len(q) /\ i # p
    BY <1>2, <1>3
  <2>2. queue'[k][j] = q[i]
    BY <1>3, <2>1
  <2>3. q[i] # c
    BY <1>0, <1>1, <1>2, <1>8, <2>1
  <2> QED BY <1>2, <2>1, <2>2, <2>3
<1>10. ASSUME NEW l \in Capability
       PROVE  /\ \A i \in DOMAIN queue'[l] : CapabilityOf(queue'[l][i]) = l /\ pc'[queue'[l][i]] = "queued"
              /\ \A i, j \in DOMAIN queue'[l] : queue'[l][i] = queue'[l][j] => i = j
  <2>1. CASE l # k
    <3>1. queue'[l] = queue[l]
      BY <1>3, <2>1
    <3>2. ASSUME NEW i \in DOMAIN queue[l] PROVE pc'[queue[l][i]] = "queued"
      BY <1>0, <1>4, <1>8, <2>1, <3>2
    <3> QED BY <1>8, <3>1, <3>2
  <2>2. CASE l = k
    <3>1. ASSUME NEW j \in DOMAIN queue'[k]
          PROVE  CapabilityOf(queue'[k][j]) = k /\ pc'[queue'[k][j]] = "queued"
      BY <1>0, <1>4, <1>8, <1>9, <3>1
    <3>2. ASSUME NEW i \in DOMAIN queue'[k], NEW j \in DOMAIN queue'[k], queue'[k][i] = queue'[k][j]
          PROVE  i = j
      <4>1. i \in Nat /\ j \in Nat
        BY <1>2, <1>3
      <4>2. (IF i < p THEN i ELSE i + 1) = (IF j < p THEN j ELSE j + 1)
        BY <1>0, <1>8, <1>9, <3>2
      <4> QED BY <1>2, <4>1, <4>2
    <3> QED BY <2>2, <3>1, <3>2
  <2> QED BY <2>1, <2>2
<1>11. ASSUME NEW d \in Call, pc'[d] = "queued"
       PROVE  \E i \in DOMAIN queue'[CapabilityOf(d)] : queue'[CapabilityOf(d)][i] = d
  <2>1. d # c /\ pc[d] = "queued"
    BY <1>4, <1>11
  <2>2. PICK i \in DOMAIN queue[CapabilityOf(d)] : queue[CapabilityOf(d)][i] = d
    BY <2>1 DEF IInv, Queues
  <2>3. CASE CapabilityOf(d) # k
    BY <1>3, <2>2, <2>3, Capabilities
  <2>4. CASE CapabilityOf(d) = k
    <3>1. i \in 1..Len(q) /\ i # p /\ q[i] = d
      BY <1>1, <1>2, <2>1, <2>2, <2>4
    <3> DEFINE j == IF i < p THEN i ELSE i - 1
    <3>2. j \in 1..(Len(q) - 1) /\ i = (IF j < p THEN j ELSE j + 1)
      BY <1>2, <3>1
    <3>3. j \in DOMAIN queue'[k] /\ queue'[k][j] = d
      BY <1>3, <3>1, <3>2
    <3> QED BY <2>4, <3>3
  <2> QED BY <2>3, <2>4
<1>12. Queues'
  BY <1>7, <1>10, <1>11 DEF Queues
<1>13. NoIdleSlot'
  <2>1. q # <<>>
    BY <1>2
  <2>2. ASSUME NEW l \in Capability, queue'[l] # <<>> PROVE active'[l] = Concurrency(l)
    BY <1>0, <1>3, <2>1, <2>2 DEF IInv, NoIdleSlot
  <2> QED BY <2>2 DEF NoIdleSlot, Concurrency
<1>14. TypeOK'
  <2>1. queued' \in 0..QueueLimit
    BY <1>0, <1>7 DEF IInv, TypeOK
  <2> QED BY <1>0, <1>3, <1>4, <1>5, <2>1 DEF IInv, TypeOK
<1>15. CallInv(c)'
  BY <1>0, <1>4 DEF IInv, CallInv
<1>16. ASSUME NEW d \in Call, d # c PROVE CallInv(d)'
  BY <1>0, <1>4, <1>5, <1>16, CallKept DEF IInv
<1> QED BY <1>6, <1>12, <1>13, <1>14, <1>15, <1>16 DEF IInv

\* A call that ends as its slot is released keeps what holds of every call.
LEMMA ReleaseKeeps ==
  ASSUME IInv, NEW c \in Call, pc[c] \in Holding, Release(c),
         UNCHANGED <<generation, policy, session, aborted, host>>,
         reply' \in [Call -> Response \cup {None}], \A d \in Call : d # c => reply'[d] = reply[d],
         c \in WriteCall /\ reply'[c] # None /\ reply'[c].code # "OK"
           /\ (reply'[c].retryable \/ reply'[c].outcome \in {"none", "not_started"})
           => host[c] \in {"none", "refused"}
  PROVE  IInv'
<1>1. /\ Slots' /\ Queues' /\ NoIdleSlot'
      /\ active' \in [Capability -> Nat] /\ queue' \in [Capability -> Seq(Call)]
      /\ queued' \in 0..QueueLimit /\ pc' \in [Call -> Stage] /\ pc'[c] = "answered"
      /\ \A d \in Call : d # c => pc'[d] = pc[d] \/ (pc[d] = "queued" /\ pc'[d] = "granted")
  BY ReleaseGates
<1>2. TypeOK'
  BY <1>1 DEF IInv, TypeOK
<1>3. CallInv(c)'
  BY <1>1 DEF CallInv
<1>4. ASSUME NEW d \in Call, d # c PROVE CallInv(d)'
  BY <1>1, <1>4, CallKept DEF IInv
<1> QED BY <1>1, <1>2, <1>3, <1>4 DEF IInv

\* A call that has got its slot starts its handler or gives the slot back.
LEMMA ResumeKeeps == ASSUME IInv, NEW c \in Call, Resume(c) PROVE IInv'
<1>1. pc[c] = "granted" /\ UNCHANGED <<generation, policy, session, aborted, host>>
  BY DEF Resume
<1>2. CASE Current(c) /\ pc' = [pc EXCEPT ![c] = "running"] /\ UNCHANGED <<gateVars, reply>>
  <2>1. pc' \in [Call -> Stage] /\ pc'[c] = "running" /\ \A d \in Call : d # c => pc'[d] = pc[d]
    BY <1>2 DEF IInv, TypeOK, Stage, Waiting
  <2>2. Slots' /\ Queues' /\ NoIdleSlot'
    BY <1>1, <1>2, <2>1, GatesKept DEF Holding
  <2>3. TypeOK'
    BY <1>1, <1>2, <2>1 DEF IInv, TypeOK, gateVars
  <2>4. CallInv(c)'
    BY <1>1, <1>2, <2>1 DEF IInv, CallInv, Current
  <2>5. ASSUME NEW d \in Call, d # c PROVE CallInv(d)'
    BY <1>1, <1>2, <2>1, <2>5, CallKept DEF IInv
  <2> QED BY <2>2, <2>3, <2>4, <2>5 DEF IInv
<1>3. CASE Fail(c, "TOOL_NOT_ALLOWED", "none") /\ Release(c)
  <2>1. /\ reply' \in [Call -> Response \cup {None}] /\ \A d \in Call : d # c => reply'[d] = reply[d]
    BY <1>3, FailFacts DEF IInv, Code, Outcome
  <2>2. c \in WriteCall => host[c] = "none"
    BY <1>1 DEF IInv, CallInv
  <2> QED BY <1>1, <1>3, <2>1, <2>2, ReleaseKeeps DEF Holding
<1> QED BY <1>2, <1>3 DEF Resume

\* A call that is answered by its deadline keeps its slot.
LEMMA TimeoutKeeps == ASSUME IInv, NEW c \in Call, Timeout(c) PROVE IInv'
<1> DEFINE o == IF c \in WriteCall THEN "unknown" ELSE "none"
<1>1. /\ pc[c] = "running" /\ aborted' = aborted \cup {c} /\ pc' = [pc EXCEPT ![c] = "late"]
      /\ Fail(c, "TOOL_TIMEOUT", o) /\ UNCHANGED <<generation, policy, gateVars, session, host>>
  BY DEF Timeout
<1>2. o \in Outcome /\ "TOOL_TIMEOUT" \in Code /\ (c \in WriteCall => o = "unknown")
  BY DEF Outcome, Code
<1> HIDE DEF o
<1>3. /\ reply' \in [Call -> Response \cup {None}] /\ \A d \in Call : d # c => reply'[d] = reply[d]
      /\ c \in WriteCall => /\ reply'[c].outcome \notin {"none", "not_started"}
                            /\ ~reply'[c].retryable
  BY <1>1, <1>2, FailFacts DEF IInv
<1>4. pc' \in [Call -> Stage] /\ pc'[c] = "late" /\ \A d \in Call : d # c => pc'[d] = pc[d]
  BY <1>1 DEF IInv, TypeOK, Stage
<1>5. Slots' /\ Queues' /\ NoIdleSlot'
  BY <1>1, <1>4, GatesKept DEF Holding
<1>6. TypeOK'
  BY <1>1, <1>3, <1>4 DEF IInv, TypeOK, gateVars
<1>7. CallInv(c)'
  BY <1>1, <1>3, <1>4 DEF CallInv
<1>8. ASSUME NEW d \in Call, d # c PROVE CallInv(d)'
  BY <1>1, <1>3, <1>4, <1>8, CallKept DEF IInv
<1> QED BY <1>5, <1>6, <1>7, <1>8 DEF IInv

\* What a write may say when its handler rejects is true.
LEMMA WriteFailsFacts ==
  ASSUME IInv, NEW c \in WriteCall, WriteFails(c)
  PROVE  /\ reply' \in [Call -> Response \cup {None}] /\ \A d \in Call : d # c => reply'[d] = reply[d]
         /\ reply'[c].retryable \/ reply'[c].outcome \in {"none", "not_started"}
              => host[c] \in {"none", "refused"}
<1>0. c \in Call
  BY DEF Call
<1>1. ASSUME NEW code \in Code, NEW outcome \in Outcome, Fail(c, code, outcome),
             outcome = "not_started" => host[c] \in {"none", "refused"}
      PROVE  /\ reply' \in [Call -> Response \cup {None}] /\ \A d \in Call : d # c => reply'[d] = reply[d]
             /\ reply'[c].retryable \/ reply'[c].outcome \in {"none", "not_started"}
                  => host[c] \in {"none", "refused"}
  BY <1>0, <1>1, FailFacts DEF IInv
<1>2. Unanswered(c) \in Outcome /\ (Unanswered(c) = "not_started" => host[c] \in {"none", "refused"})
  BY DEF Unanswered, Outcome
<1>3. CASE Fail(c, "TOOL_TIMEOUT", Unanswered(c))
  BY <1>1, <1>2, <1>3 DEF Code
<1>4. CASE Fail(c, "HOST_UNAVAILABLE", Unanswered(c))
  BY <1>1, <1>2, <1>4 DEF Code
<1>5. CASE host[c] = "refused" /\ \E code \in {"TOOL_BUSY", "PRECONDITION_FAILED"} : Fail(c, code, "not_started")
  BY <1>1, <1>5 DEF Code, Outcome
<1>6. CASE \E outcome \in {"failed", "unknown"} : Fail(c, "HOST_UNAVAILABLE", outcome)
  BY <1>1, <1>6 DEF Code, Outcome
<1> QED BY <1>3, <1>4, <1>5, <1>6 DEF WriteFails

\* And what a result becomes when its session has ended or it is too large.
LEMMA SucceedFacts ==
  ASSUME IInv, NEW c \in Call, Succeed(c)
  PROVE  /\ reply' \in [Call -> Response \cup {None}] /\ \A d \in Call : d # c => reply'[d] = reply[d]
         /\ c \in WriteCall /\ reply'[c].code # "OK" =>
              ~reply'[c].retryable /\ reply'[c].outcome \notin {"none", "not_started"}
<1> DEFINE o == IF c \in WriteCall THEN "unknown" ELSE "none"
<1>1. o \in Outcome /\ (c \in WriteCall => o = "unknown")
  BY DEF Outcome
<1> HIDE DEF o
<1>2. CASE Fail(c, "TOOL_NOT_ALLOWED", "none")
  BY <1>2, FailFacts DEF IInv, Code, Outcome
<1>3. CASE Reply(c, "OK", "none")
  BY <1>3, ReplyFacts DEF IInv, Code, Outcome
<1>4. CASE Fail(c, "OUTPUT_TOO_LARGE", o)
  BY <1>1, <1>4, FailFacts DEF IInv, Code
<1> QED BY <1>2, <1>3, <1>4 DEF Succeed, o

\* The handler of a call settles, in time or late.
LEMMA SettleKeeps == ASSUME IInv, NEW c \in Call, Settle(c) PROVE IInv'
<1>1. Release(c) /\ pc[c] \in Holding /\ UNCHANGED <<generation, policy, session, aborted, host>>
  BY DEF Settle, Holding
<1>2. CASE pc[c] = "late" /\ UNCHANGED reply
  <2>1. reply' \in [Call -> Response \cup {None}]
    BY <1>2 DEF IInv, TypeOK
  <2>2. c \in WriteCall /\ reply'[c] # None /\ reply'[c].code # "OK"
          /\ (reply'[c].retryable \/ reply'[c].outcome \in {"none", "not_started"})
          => host[c] \in {"none", "refused"}
    BY <1>2 DEF IInv, CallInv
  <2> QED BY <1>1, <1>2, <2>1, <2>2, ReleaseKeeps
<1>3. CASE c \in WriteCall /\ WriteFails(c)
  BY <1>1, <1>3, WriteFailsFacts, ReleaseKeeps
<1>4. CASE Succeed(c)
  BY <1>1, <1>4, SucceedFacts, ReleaseKeeps
<1>5. CASE c \in ReadCall /\ ReadFails(c)
  <2>1. c \notin WriteCall
    BY <1>5, CallAssumption
  <2>2. PICK code \in Code : Fail(c, code, "none")
    BY <1>5 DEF ReadFails, Code
  <2>3. /\ reply' \in [Call -> Response \cup {None}] /\ \A d \in Call : d # c => reply'[d] = reply[d]
    BY <2>2, FailFacts DEF IInv, Outcome
  <2> QED BY <1>1, <2>1, <2>3, ReleaseKeeps
<1> QED BY <1>2, <1>3, <1>4, <1>5 DEF Settle

\* The client reaches the helper, which refuses or carries out.
LEMMA HostKeeps == ASSUME IInv, NEW c \in WriteCall, Connect(c) \/ Helper(c) PROVE IInv'
<1>0. c \in Call /\ UNCHANGED <<generation, policy, gateVars, pc, session, aborted, reply>>
  BY DEF Call, Connect, Helper
<1>1. /\ host' \in [WriteCall -> {"none", "sent", "refused", "restarted"}]
      /\ \A d \in WriteCall : d # c => host'[d] = host[d]
      /\ \/ pc[c] = "running"
         \/ host[c] = "sent"
  BY DEF Connect, Helper, IInv, TypeOK
<1>2. Slots' /\ Queues' /\ NoIdleSlot'
  BY <1>0, GatesKept
<1>3. TypeOK'
  BY <1>0, <1>1 DEF IInv, TypeOK, gateVars
<1>4. CallInv(c)'
  <2>1. CallInv(c) /\ (Current(c)' <=> Current(c))
    BY <1>0 DEF IInv, Current
  <2> QED BY <1>0, <1>1, <2>1 DEF CallInv
<1>5. ASSUME NEW d \in Call, d # c PROVE CallInv(d)'
  BY <1>0, <1>1, <1>5, CallKept DEF IInv
<1> QED BY <1>2, <1>3, <1>4, <1>5 DEF IInv

\* The end of a session empties the queues and aborts what runs.
LEMMA SessionKeeps == ASSUME IInv, SetSessionPolicy \/ ClearSessionPolicy PROVE IInv'
<1> USE LimitAssumption
<1>1. /\ generation' \in Nat /\ generation <= generation' /\ UNCHANGED <<active, session, host>>
      /\ policy' \in [generation : 1..generation', writeEnabled : BOOLEAN] \cup {None}
  BY DEF SetSessionPolicy, ClearSessionPolicy, IInv, TypeOK
<1>2. session' \in [Call -> 0..generation']
  BY <1>1 DEF IInv, TypeOK
<1>3. CASE CancelQueued
  <2> DEFINE dropped == UNION {ToSet(queue[k]) : k \in Capability}
             r == [code |-> "TOOL_NOT_ALLOWED", outcome |-> "none", retryable |-> FALSE]
  <2>1. /\ queue' = [k \in Capability |-> <<>>]
        /\ queued' = queued - Len(queue["read"]) - Len(queue["write"])
        /\ pc' = [c \in Call |-> IF c \in dropped THEN "answered" ELSE pc[c]]
        /\ reply' = [c \in Call |-> IF c \in dropped THEN r ELSE reply[c]]
        /\ aborted' = aborted \cup {c \in Call : pc[c] = "running"}
    BY <1>3 DEF CancelQueued
  <2>2. ASSUME NEW c \in Call PROVE c \in dropped <=> pc[c] = "queued"
    <3>1. c \in dropped => pc[c] = "queued"
      <4> SUFFICES ASSUME c \in dropped PROVE pc[c] = "queued"
        OBVIOUS
      <4>1. PICK k \in Capability : c \in ToSet(queue[k])
        OBVIOUS
      <4>2. PICK i \in DOMAIN queue[k] : queue[k][i] = c
        BY <4>1 DEF ToSet
      <4> QED BY <4>2 DEF IInv, Queues
    <3>2. pc[c] = "queued" => c \in dropped
      <4> SUFFICES ASSUME pc[c] = "queued" PROVE c \in dropped
        OBVIOUS
      <4>1. PICK i \in DOMAIN queue[CapabilityOf(c)] : queue[CapabilityOf(c)][i] = c
        BY DEF IInv, Queues
      <4>2. c \in ToSet(queue[CapabilityOf(c)])
        BY <4>1 DEF ToSet
      <4> QED BY <4>2, Capabilities
    <3> QED BY <3>1, <3>2
  <2> HIDE DEF dropped
  <2>3. r \in Response
    BY DEF Response, Code, Outcome
  <2>4. pc' \in [Call -> Stage] /\ \A c \in Call : pc'[c] = IF pc[c] = "queued" THEN "answered" ELSE pc[c]
    BY <2>1, <2>2 DEF IInv, TypeOK, Stage
  <2>5. /\ reply' \in [Call -> Response \cup {None}]
        /\ \A c \in Call : reply'[c] = IF pc[c] = "queued" THEN r ELSE reply[c]
    BY <2>1, <2>2, <2>3 DEF IInv, TypeOK
  <2>6. queued' = 0 /\ \A k \in Capability : queue'[k] = <<>>
    <3> DEFINE a == Len(queue["read"])
               b == Len(queue["write"])
    <3>1. a \in Nat /\ b \in Nat
      BY Capabilities DEF IInv, TypeOK
    <3>2. queued = a + b /\ queued' = queued - a - b
      BY <2>1 DEF IInv, Queues
    <3>3. \A k \in Capability : queue'[k] = <<>>
      BY <2>1
    <3> HIDE DEF a, b
    <3>4. queued' = 0
      BY <3>1, <3>2, SumTaken
    <3> QED BY <3>3, <3>4
  <2>7. TypeOK'
    <3>1. queue' \in [Capability -> Seq(Call)] /\ queued' \in 0..QueueLimit
      BY <2>1, <2>6
    <3> QED BY <1>1, <1>2, <2>1, <2>4, <2>5, <3>1 DEF IInv, TypeOK
  <2>8. Slots'
    <3>1. ASSUME NEW k \in Capability PROVE Holders(k)' = Holders(k)
      BY <2>4 DEF Holders, Holding
    <3> QED BY <1>1, <3>1 DEF IInv, Slots, Concurrency
  <2>9. Queues'
    <3>1. \A c \in Call : pc'[c] # "queued"
      BY <2>4
    <3>2. queued' = 0 /\ Len(queue'["read"]) = 0 /\ Len(queue'["write"]) = 0
      BY <2>6, Capabilities
    <3>3. ASSUME NEW k \in Capability PROVE DOMAIN queue'[k] = {}
      BY <2>6
    <3>4. queued' = Len(queue'["read"]) + Len(queue'["write"])
      BY <3>2
    <3> QED BY <3>1, <3>3, <3>4 DEF Queues
  <2>10. NoIdleSlot'
    BY <2>6 DEF NoIdleSlot
  <2>11. ASSUME NEW c \in Call PROVE CallInv(c)'
    <3>1. CallInv(c)
      BY DEF IInv
    <3>2. CASE pc[c] = "queued"
      BY <1>1, <2>4, <2>5, <3>1, <3>2 DEF CallInv
    <3>3. CASE pc[c] # "queued"
      <4>1. pc'[c] = pc[c] /\ reply'[c] = reply[c] /\ (pc[c] = "running" => c \in aborted') /\ aborted \subseteq aborted'
        BY <2>1, <2>4, <2>5, <3>3
      <4> QED BY <1>1, <3>1, <3>3, <4>1 DEF CallInv
    <3> QED BY <3>2, <3>3
  <2> QED BY <2>7, <2>8, <2>9, <2>10, <2>11 DEF IInv
<1>4. CASE policy = None /\ UNCHANGED <<queue, queued, pc, reply, aborted>>
  <2>1. Slots' /\ Queues' /\ NoIdleSlot'
    BY <1>1, <1>4, GatesKept DEF gateVars
  <2>2. TypeOK'
    BY <1>1, <1>2, <1>4 DEF IInv, TypeOK
  <2>3. ASSUME NEW c \in Call PROVE CallInv(c)'
    BY <1>1, <1>4 DEF IInv, CallInv, Current
  <2> QED BY <2>1, <2>2, <2>3 DEF IInv
<1> QED BY <1>3, <1>4 DEF SetSessionPolicy, ClearSessionPolicy

\* The invariant is inductive.
LEMMA NextInv == IInv /\ [Next]_vars => IInv'
<1> SUFFICES ASSUME IInv, [Next]_vars PROVE IInv'
  OBVIOUS
<1>1. CASE SetSessionPolicy \/ ClearSessionPolicy
  BY <1>1, SessionKeeps
<1>2. ASSUME NEW c \in Call, Execute(c) PROVE IInv'
  BY <1>2, ExecuteKeeps
<1>3. ASSUME NEW c \in Call, QueueTimeout(c) PROVE IInv'
  BY <1>3, QueueTimeoutKeeps
<1>4. ASSUME NEW c \in Call, Resume(c) PROVE IInv'
  BY <1>4, ResumeKeeps
<1>5. ASSUME NEW c \in Call, Timeout(c) PROVE IInv'
  BY <1>5, TimeoutKeeps
<1>6. ASSUME NEW c \in Call, Settle(c) PROVE IInv'
  BY <1>6, SettleKeeps
<1>7. ASSUME NEW c \in WriteCall, Connect(c) \/ Helper(c) PROVE IInv'
  BY <1>7, HostKeeps
<1>8. CASE UNCHANGED vars
  <2>1. Slots' /\ Queues' /\ NoIdleSlot'
    BY <1>8, GatesKept DEF vars
  <2>2. TypeOK'
    BY <1>8 DEF IInv, TypeOK, vars, gateVars
  <2>3. ASSUME NEW c \in Call PROVE CallInv(c)'
    BY <1>8, CallKept DEF IInv, vars
  <2> QED BY <2>1, <2>2, <2>3 DEF IInv
<1> QED BY <1>1, <1>2, <1>3, <1>4, <1>5, <1>6, <1>7, <1>8 DEF Next

-----------------------------------------------------------------------------
(* The theorems. *)

\* Every reachable state satisfies the invariant.
THEOREM Inductive == Spec => []IInv
<1> QED BY InitInv, NextInv, PTL DEF Spec

\* The executor's fields, queues and answers keep their types.
THEOREM TypeCorrect == Spec => []TypeOK
<1>1. IInv => TypeOK
  BY DEF IInv
<1> QED BY <1>1, Inductive, PTL

\* No slot is lost or given twice, no place of the queue leaks and nobody waits beside
\* a free slot, on any way out of execute() (executor.ts), for any limits.
THEOREM LimitsStayExact == Spec => []LimitsAreExact
<1>1. IInv => LimitsAreExact
  <2> SUFFICES ASSUME IInv PROVE LimitsAreExact
    OBVIOUS
  <2>1. SlotsMatchCalls
    BY DEF IInv, Slots, Holders, SlotsMatchCalls
  <2>2. BudgetMatchesQueues
    <3>1. ASSUME NEW k \in Capability
          PROVE  ToSet(queue[k]) = {c \in Call : CapabilityOf(c) = k /\ pc[c] = "queued"}
      <4>1. ASSUME NEW c \in ToSet(queue[k]) PROVE c \in Call /\ CapabilityOf(c) = k /\ pc[c] = "queued"
        <5>1. PICK i \in DOMAIN queue[k] : queue[k][i] = c
          BY DEF ToSet
        <5> QED BY <5>1 DEF IInv, TypeOK, Queues
      <4>2. ASSUME NEW c \in Call, CapabilityOf(c) = k, pc[c] = "queued" PROVE c \in ToSet(queue[k])
        BY <4>2 DEF IInv, Queues, ToSet
      <4> QED BY <4>1, <4>2
    <3> QED BY <3>1 DEF IInv, Queues, BudgetMatchesQueues
  <2> QED BY <2>1, <2>2 DEF IInv, LimitsAreExact
<1> QED BY <1>1, Inductive, PTL

\* Whoever is queued, or works unaware of the end of its session, is of the session in
\* force: cancelQueued() and the second look at the generation miss nobody (executor.ts).
THEOREM EndRevokes == Spec => []SessionEndRevokes
<1>1. IInv => SessionEndRevokes
  BY DEF IInv, CallInv, SessionEndRevokes
<1> QED BY <1>1, Inductive, PTL

\* A write that is said not to have started, or may be retried, never reaches systemd,
\* however late the helper acts on it (client.ts, executor.ts, router.ts).
THEOREM WritesAreHonest == Spec => []WriteErrorsAreHonest
<1>1. IInv => WriteErrorsAreHonest
  BY DEF IInv, CallInv, WriteErrorsAreHonest, Call
<1> QED BY <1>1, Inductive, PTL

\* Calls of one gate start in the order they came: release() takes the head of the queue,
\* and a newcomer finds a free slot only when nobody waits (executor.ts).
THEOREM FirstComeIsFirstServed == Spec => FirstComeFirstServed
<1> DEFINE Overtakes(c, d) ==
      /\ CapabilityOf(c) = CapabilityOf(d) /\ c # d
      /\ pc[c] = "queued" /\ Ahead(c, d) /\ pc'[d] = "granted" /\ pc'[c] = "queued"
<1>1. ASSUME IInv, [Next]_vars, NEW c \in Call, NEW d \in Call, Overtakes(c, d) PROVE FALSE
  <2> DEFINE k == CapabilityOf(c)
             q == queue[k]
  <2>1. /\ CapabilityOf(d) = k /\ c # d /\ pc[c] = "queued" /\ pc'[d] = "granted" /\ pc'[c] = "queued"
        /\ k \in Capability /\ pc \in [Call -> Stage]
        /\ pc[d] = "idle" \/ \E i, j \in DOMAIN q : i < j /\ q[i] = c /\ q[j] = d
    BY <1>1, Capabilities DEF Ahead, IInv, TypeOK
  <2>2. q \in Seq(Call) /\ DOMAIN q = 1..Len(q) /\ Len(q) \in Nat
    BY <1>1, <2>1 DEF IInv, TypeOK
  <2>3. q # <<>>
    BY <1>1, <2>1, <2>2 DEF IInv, Queues
  <2>4. ASSUME NEW e \in Call, Release(e) PROVE FALSE
    <3>1. pc'[d] # "granted" \/ pc[d] = "granted" \/ (CapabilityOf(e) = k /\ d = Head(q))
      <4>1. CASE queue[CapabilityOf(e)] # <<>>
        <5>1. pc' = [pc EXCEPT ![e] = "answered", ![Head(queue[CapabilityOf(e)])] = "granted"]
          BY <2>4, <4>1 DEF Release
        <5>2. CASE d = Head(queue[CapabilityOf(e)])
          <6>1. CapabilityOf(e) \in Capability
            BY Capabilities
          <6>2. CapabilityOf(d) = CapabilityOf(e)
            <7>1. /\ queue[CapabilityOf(e)] \in Seq(Call) /\ 1 \in DOMAIN queue[CapabilityOf(e)]
                  /\ d = queue[CapabilityOf(e)][1]
              BY <1>1, <4>1, <5>2, <6>1, TailFacts DEF IInv, TypeOK
            <7> QED BY <1>1, <6>1, <7>1 DEF IInv, Queues
          <6> QED BY <2>1, <5>2, <6>2
        <5>3. CASE d # Head(queue[CapabilityOf(e)])
          BY <2>1, <5>1, <5>3
        <5> QED BY <5>2, <5>3
      <4>2. CASE queue[CapabilityOf(e)] = <<>>
        <5>1. pc' = [pc EXCEPT ![e] = "answered"]
          BY <2>4, <4>2 DEF Release
        <5> QED BY <2>1, <5>1
      <4> QED BY <4>1, <4>2
    <3>2. CASE pc[d] = "granted"
      BY <1>1, <2>1, <3>2 DEF IInv, Queues
    <3>3. CASE d = Head(q)
      <4>1. Len(q) \in Nat \ {0} /\ d = q[1] /\ 1 \in DOMAIN q
        BY <2>2, <2>3, <3>3, TailFacts
      <4>2. pc[d] = "queued"
        BY <1>1, <2>1, <4>1 DEF IInv, Queues
      <4>3. PICK i \in DOMAIN q, j \in DOMAIN q : i < j /\ q[i] = c /\ q[j] = d
        BY <2>1, <4>2
      <4>4. j = 1
        BY <1>1, <2>1, <4>1, <4>3 DEF IInv, Queues
      <4> QED BY <2>2, <4>3, <4>4
    <3> QED BY <2>1, <3>1, <3>2, <3>3
  <2>5. pc[d] # "granted"
    BY <1>1, <2>1 DEF IInv, Queues
  <2>6. CASE SetSessionPolicy \/ ClearSessionPolicy
    <3>1. pc' = pc \/ CancelQueued
      BY <2>6 DEF SetSessionPolicy, ClearSessionPolicy
    <3>2. CASE CancelQueued
      BY <2>1, <2>5, <3>2 DEF CancelQueued
    <3> QED BY <2>1, <2>5, <3>1, <3>2
  <2>7. ASSUME NEW e \in Call, Execute(e) PROVE FALSE
    <3>1. CASE pc' = [pc EXCEPT ![e] = "answered"] \/ pc' = [pc EXCEPT ![e] = "queued"]
      BY <2>1, <2>5, <3>1
    <3>2. CASE active[CapabilityOf(e)] < Concurrency(CapabilityOf(e)) /\ pc' = [pc EXCEPT ![e] = "granted"]
      <4>1. e = d
        BY <2>1, <2>5, <3>2
      <4>2. active[k] < Concurrency(k) /\ active[k] = Concurrency(k) /\ Concurrency(k) \in Nat
        BY <1>1, <2>1, <2>3, <3>2, <4>1, Capabilities DEF IInv, NoIdleSlot
      <4> QED BY <4>2
    <3> QED BY <2>7, <3>1, <3>2 DEF Execute
  <2>8. ASSUME NEW e \in Call, QueueTimeout(e) \/ Timeout(e) PROVE FALSE
    <3>1. pc' = [pc EXCEPT ![e] = "answered"] \/ pc' = [pc EXCEPT ![e] = "late"]
      BY <2>8 DEF QueueTimeout, Timeout
    <3> QED BY <2>1, <2>5, <3>1
  <2>9. ASSUME NEW e \in Call, Resume(e) \/ Settle(e) PROVE FALSE
    <3>1. Release(e) \/ pc' = [pc EXCEPT ![e] = "running"]
      BY <2>9 DEF Resume, Settle
    <3> QED BY <2>1, <2>4, <2>5, <3>1
  <2>10. ASSUME pc' = pc PROVE FALSE
    BY <2>1, <2>5, <2>10
  <2>11. (\E e \in WriteCall : Connect(e) \/ Helper(e)) => pc' = pc
    BY DEF Connect, Helper
  <2>12. UNCHANGED vars => pc' = pc
    BY DEF vars
  <2> QED BY <1>1, <2>6, <2>7, <2>8, <2>9, <2>10, <2>11, <2>12 DEF Next
<1>2. IInv /\ [Next]_vars =>
        [\A c, d \in Call :
           /\ CapabilityOf(c) = CapabilityOf(d) /\ c # d
           /\ pc[c] = "queued" /\ Ahead(c, d)
           /\ pc'[d] = "granted"
           => pc'[c] # "queued"]_vars
  BY <1>1
<1> QED BY <1>2, Inductive, PTL DEF Spec, FirstComeFirstServed

=============================================================================
