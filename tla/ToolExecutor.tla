---------------------------- MODULE ToolExecutor ----------------------------
(***************************************************************************)
(* Tool calls of the agent: the bounded executor of src/tools/executor.ts   *)
(* behind the router of src/mcp/router.ts, with the client of               *)
(* src/actions/client.ts that the write tool uses to reach the helper.      *)
(*                                                                         *)
(* The agent is one event loop.  A step is what runs between two awaits of  *)
(* a call, a timer that fires, or a change of session.  A slot handed to a  *)
(* waiting call resolves a promise, so that call resumes in a later step.   *)
(***************************************************************************)
EXTENDS Integers, Sequences, FiniteSets, SequencesExt

CONSTANTS
  ReadCall, WriteCall,                \* tools/call requests, by the tool's capability
  ReadConcurrency, WriteConcurrency,  \* 4 and 1 in the code
  QueueLimit,                         \* 16 in the code, shared by both gates
  None,                               \* no value
  MaxGeneration                       \* bound: sessions

ASSUME CallAssumption == ReadCall \cap WriteCall = {}
ASSUME LimitAssumption ==
  /\ ReadConcurrency \in Nat \ {0} /\ WriteConcurrency \in Nat \ {0}
  /\ QueueLimit \in Nat /\ MaxGeneration \in Nat
ASSUME NoneAssumption == None \notin [generation : Nat, writeEnabled : BOOLEAN]

Call == ReadCall \cup WriteCall
Capability == {"read", "write"}
CapabilityOf(c) == IF c \in WriteCall THEN "write" ELSE "read"
Concurrency(k)  == IF k = "write" THEN WriteConcurrency ELSE ReadConcurrency

VARIABLES
  generation,  \* the newest session generation
  policy,      \* McpRouter.policy, whose generation is the executor's active one
  active,      \* Gate.active of each capability
  queue,       \* Gate.queue of each capability
  queued,      \* QueueBudget.queued
  pc,          \* where execute() stands for each call
  session,     \* the generation each call was made in
  aborted,     \* calls whose AbortSignal has fired
  reply,       \* the result of each call
  host         \* what has become of each restart request at the helper

gateVars == <<active, queue, queued>>
vars == <<generation, policy, gateVars, pc, session, aborted, reply, host>>

Waiting  == {"queued", "granted", "running"}
Stage    == {"idle", "late", "answered"} \cup Waiting
Holding  == {"granted", "running", "late"}   \* stages that occupy a slot
Outcome  == {"none", "not_started", "failed", "unknown"}
Code     == {"OK", "TOOL_NOT_ALLOWED", "WRITE_DISABLED", "INVALID_ARGUMENTS", "TOOL_BUSY",
             "TOOL_TIMEOUT", "OUTPUT_TOO_LARGE", "PRECONDITION_FAILED", "HOST_UNAVAILABLE"}
Response == [code : Code, outcome : Outcome, retryable : BOOLEAN]

Init ==
  /\ generation = 0 /\ policy = None
  /\ active = [k \in Capability |-> 0]
  /\ queue = [k \in Capability |-> <<>>]
  /\ queued = 0
  /\ pc = [c \in Call |-> "idle"]
  /\ session = [c \in Call |-> 0]
  /\ aborted = {}
  /\ reply = [c \in Call |-> None]
  /\ host = [c \in WriteCall |-> "none"]

Current(c) == policy # None /\ policy.generation = session[c]

-----------------------------------------------------------------------------
(* Answers. *)

RETRYABLE == {"TOOL_BUSY", "HOST_UNAVAILABLE"}

\* The router's judgement of an error.
Retryable(c, code, outcome) ==
  /\ code \in RETRYABLE
  /\ c \in ReadCall \/ outcome = "not_started"

Reply(c, code, outcome) ==
  reply' = [reply EXCEPT ![c] =
    [code |-> code, outcome |-> outcome, retryable |-> Retryable(c, code, outcome)]]

\* Mutant of Fail: the catch block adds no outcome.
FailPlain(c, code, outcome) == Reply(c, code, outcome)

\* The catch block of execute(): a write that says nothing of its outcome is
\* ambiguous.
Fail(c, code, outcome) ==
  Reply(c, code, IF c \in WriteCall /\ outcome = "none" THEN "unknown" ELSE outcome)

-----------------------------------------------------------------------------
(* The gates. *)

\* Mutant of Release: the slot goes to the call that came last.
ReleaseToLast(c) ==
  LET k == CapabilityOf(c) IN
  \/ /\ queue[k] # <<>>
     /\ pc' = [pc EXCEPT ![c] = "answered", ![Last(queue[k])] = "granted"]
     /\ queue' = [queue EXCEPT ![k] = Front(@)]
     /\ queued' = queued - 1
     /\ UNCHANGED active
  \/ /\ queue[k] = <<>>
     /\ pc' = [pc EXCEPT ![c] = "answered"]
     /\ active' = [active EXCEPT ![k] = @ - 1]
     /\ UNCHANGED <<queue, queued>>

\* Gate.release(): call c gives its slot to the head of the queue, or frees it.
Release(c) ==
  LET k == CapabilityOf(c) IN
  \/ /\ queue[k] # <<>>
     /\ pc' = [pc EXCEPT ![c] = "answered", ![Head(queue[k])] = "granted"]
     /\ queue' = [queue EXCEPT ![k] = Tail(@)]
     /\ queued' = queued - 1
     /\ UNCHANGED active
  \/ /\ queue[k] = <<>>
     /\ pc' = [pc EXCEPT ![c] = "answered"]
     /\ active' = [active EXCEPT ![k] = @ - 1]
     /\ UNCHANGED <<queue, queued>>

\* cancelQueued(): every queued call is rejected, every running one is aborted.
CancelQueued ==
  LET dropped == UNION {ToSet(queue[k]) : k \in Capability} IN
  /\ queue' = [k \in Capability |-> <<>>]
  /\ queued' = queued - Len(queue["read"]) - Len(queue["write"])
  /\ pc' = [c \in Call |-> IF c \in dropped THEN "answered" ELSE pc[c]]
  /\ reply' = [c \in Call |-> IF c \in dropped
       THEN [code |-> "TOOL_NOT_ALLOWED", outcome |-> "none", retryable |-> FALSE]
       ELSE reply[c]]
  /\ aborted' = aborted \cup {c \in Call : pc[c] = "running"}

\* setSessionPolicy(): a new generation becomes the active one.
SetSessionPolicy ==
  /\ generation < MaxGeneration
  /\ generation' = generation + 1
  /\ \E w \in BOOLEAN :
       policy' = [generation |-> generation', writeEnabled |-> w]
  /\ \/ policy # None /\ CancelQueued
     \/ policy = None /\ UNCHANGED <<queue, queued, pc, reply, aborted>>
  /\ UNCHANGED <<active, session, host>>

ClearSessionPolicy ==
  /\ policy' = None
  /\ CancelQueued
  /\ UNCHANGED <<generation, active, session, host>>

-----------------------------------------------------------------------------
(* One call: handleRequest() of the router and execute(). *)

\* Up to acquire(): refused, granted a free slot, queued, or turned away.
Execute(c) ==
  /\ pc[c] = "idle"
  /\ LET k == CapabilityOf(c)
         refuse(code) == /\ pc' = [pc EXCEPT ![c] = "answered"]
                         /\ Reply(c, code, "none")
                         /\ UNCHANGED <<gateVars, session>>
         enter == session' = [session EXCEPT ![c] = policy.generation] IN
     \/ refuse("TOOL_NOT_ALLOWED")                  \* no session, or not in its policy
     \/ policy # None /\ k = "write" /\ ~policy.writeEnabled /\ refuse("WRITE_DISABLED")
     \/ policy # None /\ refuse("INVALID_ARGUMENTS")
     \/ /\ policy # None /\ (k = "write" => policy.writeEnabled)
        /\ \/ /\ active[k] < Concurrency(k)
              /\ active' = [active EXCEPT ![k] = @ + 1]
              /\ pc' = [pc EXCEPT ![c] = "granted"]
              /\ enter
              /\ UNCHANGED <<queue, queued, reply>>
           \/ /\ active[k] >= Concurrency(k) /\ queued < QueueLimit
              /\ queued' = queued + 1
              /\ queue' = [queue EXCEPT ![k] = Append(@, c)]
              /\ pc' = [pc EXCEPT ![c] = "queued"]
              /\ enter
              /\ UNCHANGED <<active, reply>>
           \/ active[k] >= Concurrency(k) /\ queued >= QueueLimit /\ refuse("TOOL_BUSY")
  /\ UNCHANGED <<generation, policy, aborted, host>>

\* A queued call gives up its place, which it looks for.
Withdraw(c) ==
  \E i \in DOMAIN queue[CapabilityOf(c)] :
    /\ queue[CapabilityOf(c)][i] = c
    /\ queue' = [queue EXCEPT ![CapabilityOf(c)] = RemoveAt(@, i)]

\* Mutant of QueueTimeout: the budget is not given back.
QueueTimeoutLeaks(c) ==
  /\ pc[c] = "queued"
  /\ Withdraw(c)
  /\ pc' = [pc EXCEPT ![c] = "answered"]
  /\ Reply(c, "TOOL_TIMEOUT", "not_started")
  /\ UNCHANGED <<generation, policy, active, queued, session, aborted, host>>

\* The timer of a queued call fires.
QueueTimeout(c) ==
  /\ pc[c] = "queued"
  /\ Withdraw(c)
  /\ queued' = queued - 1
  /\ pc' = [pc EXCEPT ![c] = "answered"]
  /\ Reply(c, "TOOL_TIMEOUT", "not_started")
  /\ UNCHANGED <<generation, policy, active, session, aborted, host>>

\* Mutant of Resume: the session is not checked again.
ResumeUnchecked(c) ==
  /\ pc[c] = "granted"
  /\ pc' = [pc EXCEPT ![c] = "running"]
  /\ UNCHANGED <<generation, policy, gateVars, session, aborted, reply, host>>

\* acquire() returns: the handler starts, unless the session has ended meanwhile.
Resume(c) ==
  /\ pc[c] = "granted"
  /\ \/ /\ Current(c)
        /\ pc' = [pc EXCEPT ![c] = "running"]
        /\ UNCHANGED <<gateVars, reply>>
     \/ /\ ~Current(c)
        /\ Fail(c, "TOOL_NOT_ALLOWED", "none")
        /\ Release(c)
  /\ UNCHANGED <<generation, policy, session, aborted, host>>

\* Mutant of Timeout: the call is aborted but still waits for its handler.
TimeoutAborts(c) ==
  /\ pc[c] = "running"
  /\ aborted' = aborted \cup {c}
  /\ UNCHANGED <<generation, policy, gateVars, pc, session, reply, host>>

\* The deadline passes while the handler runs: the call is answered and aborted,
\* and keeps its slot until the handler settles.
Timeout(c) ==
  /\ pc[c] = "running"
  /\ aborted' = aborted \cup {c}
  /\ pc' = [pc EXCEPT ![c] = "late"]
  /\ Fail(c, "TOOL_TIMEOUT", IF c \in WriteCall THEN "unknown" ELSE "none")
  /\ UNCHANGED <<generation, policy, gateVars, session, host>>

-----------------------------------------------------------------------------
(* The handlers. *)

\* The client connects to the helper and writes the request, unless the abort
\* has destroyed its socket.
Connect(c) ==
  /\ pc[c] = "running" /\ c \notin aborted
  /\ host[c] = "none"
  /\ host' = [host EXCEPT ![c] = "sent"]
  /\ UNCHANGED <<generation, policy, gateVars, pc, session, aborted, reply>>

\* The helper refuses the request or carries it out, whether or not anyone still
\* waits for it.
Helper(c) ==
  /\ host[c] = "sent"
  /\ host' = [host EXCEPT ![c] = "refused"] \/ host' = [host EXCEPT ![c] = "restarted"]
  /\ UNCHANGED <<generation, policy, gateVars, pc, session, aborted, reply>>

\* outcome() of the client when it gives up.
Unanswered(c) == IF host[c] = "none" THEN "not_started" ELSE "unknown"

\* How the handler of a write may reject.
WriteFails(c) ==
  \/ c \in aborted /\ Fail(c, "TOOL_TIMEOUT", Unanswered(c))
  \/ Fail(c, "HOST_UNAVAILABLE", Unanswered(c))
  \/ /\ host[c] = "refused"
     /\ \E code \in {"TOOL_BUSY", "PRECONDITION_FAILED"} : Fail(c, code, "not_started")
  \/ /\ host[c] \in {"sent", "restarted"}
     /\ \E outcome \in {"failed", "unknown"} : Fail(c, "HOST_UNAVAILABLE", outcome)

\* A read answers with its result or with the error of its adapter.
ReadFails(c) ==
  \E code \in {"TOOL_TIMEOUT", "HOST_UNAVAILABLE"} : Fail(c, code, "none")

\* The handler settles in time: its result is checked against the session and
\* the output limit.
Succeed(c) ==
  \/ ~Current(c) /\ Fail(c, "TOOL_NOT_ALLOWED", "none")
  \/ Current(c) /\ Reply(c, "OK", "none")
  \/ Current(c) /\ Fail(c, "OUTPUT_TOO_LARGE", IF c \in WriteCall THEN "unknown" ELSE "none")

Settle(c) ==
  /\ \/ /\ pc[c] = "running"
        /\ \/ c \in WriteCall /\ (WriteFails(c) \/ (host[c] = "restarted" /\ Succeed(c)))
           \/ c \in ReadCall /\ (ReadFails(c) \/ Succeed(c))
     \/ pc[c] = "late" /\ UNCHANGED reply
  /\ Release(c)
  /\ UNCHANGED <<generation, policy, session, aborted, host>>

Next ==
  \/ SetSessionPolicy \/ ClearSessionPolicy
  \/ \E c \in Call :
       Execute(c) \/ QueueTimeout(c) \/ Resume(c) \/ Timeout(c) \/ Settle(c)
  \/ \E c \in WriteCall : Connect(c) \/ Helper(c)

\* Timers fire and resolved promises continue; nothing is assumed of handlers.
Fairness ==
  \A c \in Call : WF_vars(QueueTimeout(c)) /\ WF_vars(Resume(c)) /\ WF_vars(Timeout(c))

Spec == Init /\ [][Next]_vars
FairSpec == Spec /\ Fairness

-----------------------------------------------------------------------------
(* Properties. *)

TypeOK ==
  /\ generation \in Nat
  /\ policy \in [generation : 1..generation, writeEnabled : BOOLEAN] \cup {None}
  /\ active \in [Capability -> Nat]
  /\ queue \in [Capability -> Seq(Call)]
  /\ queued \in 0..QueueLimit
  /\ pc \in [Call -> Stage]
  /\ session \in [Call -> 0..generation]
  /\ aborted \subseteq Call
  /\ reply \in [Call -> Response \cup {None}]
  /\ host \in [WriteCall -> {"none", "sent", "refused", "restarted"}]

\* No slot is lost or given twice on any way out of execute().
SlotsMatchCalls ==
  \A k \in Capability :
    /\ active[k] <= Concurrency(k)
    /\ active[k] = Cardinality({c \in Call : CapabilityOf(c) = k /\ pc[c] \in Holding})

\* The budget of the queues is given back once, by grant, timeout or cancellation.
BudgetMatchesQueues ==
  /\ queued = Len(queue["read"]) + Len(queue["write"])
  /\ \A k \in Capability :
       /\ \A i, j \in DOMAIN queue[k] : queue[k][i] = queue[k][j] => i = j
       /\ ToSet(queue[k]) = {c \in Call : CapabilityOf(c) = k /\ pc[c] = "queued"}

\* No wake-up is lost: calls wait only while every slot of their gate is taken.
NoIdleSlot ==
  \A k \in Capability : queue[k] # <<>> => active[k] = Concurrency(k)

\* What runs on the host at once is bounded, handlers that outlive their timeout
\* included, and the limits are exact: slots, queues and their shared budget agree
\* with where the calls are, whichever timers, releases and cancellations met.
LimitsAreExact == SlotsMatchCalls /\ BudgetMatchesQueues /\ NoIdleSlot

\* Calls of one gate start in the order they came: none overtakes a call that
\* waits, neither a later waiter nor a newcomer that finds a slot just freed.
Ahead(c, d) ==
  LET q == queue[CapabilityOf(c)] IN
  \/ pc[d] = "idle"
  \/ \E i, j \in DOMAIN q : i < j /\ q[i] = c /\ q[j] = d

FirstComeFirstServed ==
  [][\A c, d \in Call :
       /\ CapabilityOf(c) = CapabilityOf(d) /\ c # d
       /\ pc[c] = "queued" /\ Ahead(c, d)
       /\ pc'[d] = "granted"
       => pc'[c] # "queued"]_vars

\* "A connection-generation change revokes queued work": nobody waits for a session
\* that has ended, and no handler works on for it unaware, also when it ended between
\* the grant of a slot and its use.
SessionEndRevokes ==
  \A c \in Call : ~Current(c) =>
    /\ pc[c] # "queued"
    /\ pc[c] \in {"running", "late"} => c \in aborted

\* "Ambiguous writes return outcome unknown and are never retryable": a write answered
\* with an error that claims less than that, or that asks to be retried, has not
\* reached systemd and never will, however late its request is carried out.
WriteErrorsAreHonest ==
  \A c \in WriteCall :
    /\ reply[c] # None /\ reply[c].code # "OK"
    /\ reply[c].retryable \/ reply[c].outcome \in {"none", "not_started"}
    => host[c] \in {"none", "refused"}

\* Every call is answered, by a timer if its handler hangs or its turn never
\* comes, also when the session ends under it.
EveryCallAnswered ==
  \A c \in Call : (pc[c] \in Waiting) ~> (pc[c] \in {"late", "answered"})

=============================================================================
