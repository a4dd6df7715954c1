---------------------------- MODULE ActionHelper ----------------------------
(***************************************************************************)
(* The privileged restart helper: src/actions/helper.ts with the durable   *)
(* ledger of src/actions/ledger.ts, between the agent that connects to it  *)
(* and the systemd manager it commands.                                    *)
(*                                                                         *)
(* Every connection carries one request.  The helper is a Node process, so *)
(* what runs between two awaits is one step and every await is a point     *)
(* where other connections, systemd, a crash of the helper or of the host  *)
(* come in between.                                                        *)
(***************************************************************************)
EXTENDS Integers, FiniteSets

CONSTANTS
  Conn,              \* connections accepted on actions.sock, one request each
  Op,                \* operation ids
  Unit,              \* systemd service units
  Body,              \* the requests the agent may send
  None,              \* no value
  Unstated,          \* expected_invocation_id omitted
  Keep,              \* records prune() retains (1000 in the code)
  SyncsDirectories,  \* does the ledger's file system fsync directories?
  MaxCrashes,        \* bound: crashes of the helper and of the host
  MaxInvocation      \* bound: service starts nobody asked the helper for

ActiveState == {"active", "inactive"}

ASSUME BodyAssumption ==
  Body \subseteq [op : Op, unit : Unit, active : ActiveState, inv : Nat \cup {Unstated}]
ASSUME NoneAssumption ==
  None \notin Body \cup Nat \cup {"done", "failed", "timeout", "success", "unknown"}
ASSUME KeepAssumption == Keep \in Nat \ {0}
ASSUME SyncsAssumption == SyncsDirectories \in BOOLEAN
ASSUME BoundAssumption == MaxCrashes \in Nat /\ MaxInvocation \in Nat

VARIABLES
  \* The helper process.
  up,          \* the process has started and initialised the ledger
  busy,        \* ActionHelper.busy
  pc,          \* where the handler of each connection stands
  body,        \* the request of each connection
  attempt,     \* the locals of handleRequest's try block: before.invocation_id,
               \* jobResult and the receipt's outcome
  reply,       \* the answer written to the connection
  \* The ledger directory.
  ledger,      \* the records readers see
  durable,     \* the records that survive a power loss
  mtime,       \* when each record was last written, in writes
  writes,      \* the number of records written so far
  \* The host.
  svc,         \* what `systemctl show` reports of each unit
  job,         \* the restart job of each unit
  inflight,    \* the operations whose restart job is pending on each unit
  crashes,
  \* History.
  started,     \* connections that queued a job, their record not yet pruned
  applied      \* operations whose restart job has started the unit anew, until
               \* no receipt on disk says so

requestVars == <<body, attempt>>
ledgerVars  == <<ledger, durable, mtime, writes>>
hostVars    == <<svc, job, inflight>>
history     == <<started, applied>>
vars == <<up, busy, pc, requestVars, reply, ledgerVars, hostVars, crashes, history>>

Outcome  == {"success", "failed", "unknown"}
Absent   == [outcome |-> "absent", body |-> None]
NoAttempt == [before |-> None, jobResult |-> None, outcome |-> None]
Attempt  == [before : Nat \cup {None}, jobResult : {"done", "failed", "timeout", None},
             outcome : Outcome \cup {None}]
Record   == [outcome : Outcome, body : Body]
Response == [code : {"OK", "INVALID_ARGUMENTS", "INTERNAL_ERROR", "PERMISSION_DENIED",
                     "PRECONDITION_FAILED", "TOOL_BUSY", "HOST_UNAVAILABLE"},
             outcome : Outcome \cup {"not_started"}]

\* The stages between `this.busy = true` and the finally block.
Exclusive == {"inspect", "record", "recorded", "restart", "waiting",
              "after", "settle", "settled", "prune"}
Handling  == {"policy", "lookup"} \cup Exclusive
Stage     == {"closed", "answered", "dropped"} \cup Handling

JobPending == {"queued", "starting"}
Job        == {"none", "done", "failed"} \cup JobPending

Init ==
  /\ up = FALSE /\ busy = FALSE /\ crashes = 0
  /\ pc = [c \in Conn |-> "closed"]
  /\ body = [c \in Conn |-> None]
  /\ attempt = [c \in Conn |-> NoAttempt]
  /\ reply = [c \in Conn |-> None]
  /\ ledger = [o \in Op |-> Absent]
  /\ durable = [o \in Op |-> Absent]
  /\ mtime = [o \in Op |-> 0]
  /\ writes = 0
  /\ svc = [u \in Unit |-> [active |-> "active", inv |-> 0]]
  /\ job = [u \in Unit |-> "none"]
  /\ inflight = [u \in Unit |-> {}]
  /\ started = {}
  /\ applied = {}

-----------------------------------------------------------------------------
(* The ledger. *)

Retained == {o \in Op : ledger[o] # Absent}

\* prune(): what is older than seven days or beyond the newest Keep records
\* goes.  The records that age out are the oldest ones, so for some number k
\* of records, at most Keep, the k newest survive.  The directory is not synced.
Pruned(k) ==
  {o \in Retained : Cardinality({p \in Retained : mtime[p] > mtime[o]}) >= k}

Prune(gone) ==
  /\ ledger' = [o \in Op |-> IF o \in gone THEN Absent ELSE ledger[o]]
  /\ started' = {c \in started : body[c].op \notin gone}
  /\ UNCHANGED <<durable, mtime, writes, applied>>

\* put(), up to its rename: the temporary file has been written and fsynced.
Rename(b, outcome) ==
  /\ ledger' = [ledger EXCEPT ![b.op] = [outcome |-> outcome, body |-> b]]
  /\ mtime' = [mtime EXCEPT ![b.op] = writes + 1]
  /\ writes' = writes + 1
  /\ UNCHANGED durable

\* put(), after its rename: the directory is fsynced where that is supported,
\* with every rename and unlink in it.  What no receipt on disk claims any more
\* leaves the history.
SyncDirectory ==
  /\ durable' = IF SyncsDirectories THEN ledger ELSE durable
  /\ applied' = {o \in applied : "success" \in {ledger[o].outcome, durable'[o].outcome}}
  /\ UNCHANGED <<ledger, mtime, writes, started>>

-----------------------------------------------------------------------------
(* One connection: connection() and handleRequest(). *)

Goto(c, from, to) ==
  /\ pc[c] = from
  /\ pc' = [pc EXCEPT ![c] = to]

Answer(c, from, code, outcome) ==
  /\ Goto(c, from, "answered")
  /\ reply' = [reply EXCEPT ![c] = [code |-> code, outcome |-> outcome]]

\* Leaving the try block: the finally block runs before the reply is written.
Leave(c, from, code, outcome) ==
  /\ Answer(c, from, code, outcome)
  /\ busy' = FALSE
  /\ attempt' = [attempt EXCEPT ![c] = NoAttempt]

\* A request line arrives; one that fails validation is answered at once.
Arrive(c) ==
  /\ up
  /\ \/ /\ Goto(c, "closed", "policy")
        /\ \E b \in Body : body' = [body EXCEPT ![c] = b]
        /\ UNCHANGED reply
     \/ /\ Answer(c, "closed", "INVALID_ARGUMENTS", "not_started")
        /\ UNCHANGED body
  /\ UNCHANGED <<up, busy, attempt, ledgerVars, hostVars, crashes, history>>

\* loadPolicy() settles: the unit is listed, is not, or the policy is invalid.
CheckPolicy(c) ==
  /\ \/ Goto(c, "policy", "lookup") /\ UNCHANGED reply
     \/ Answer(c, "policy", "PERMISSION_DENIED", "not_started")
     \/ Answer(c, "policy", "INTERNAL_ERROR", "not_started")
  /\ UNCHANGED <<up, busy, requestVars, ledgerVars, hostVars, crashes, history>>

\* ledger.get() settles, and the code up to the next await runs: a prior record
\* answers the request, a busy helper refuses it, or the helper becomes busy.
Lookup(c) ==
  /\ pc[c] = "lookup"
  /\ LET prior == ledger[body[c].op] IN
     \/ /\ prior # Absent
        /\ prior.body # body[c]
        /\ Answer(c, "lookup", "PRECONDITION_FAILED", "not_started")
        /\ UNCHANGED busy
     \/ /\ prior # Absent
        /\ prior.body = body[c]
        /\ Answer(c, "lookup", "OK", prior.outcome)
        /\ UNCHANGED busy
     \/ /\ prior = Absent
        /\ busy
        /\ Answer(c, "lookup", "TOOL_BUSY", "not_started")
        /\ UNCHANGED busy
     \/ /\ prior = Absent
        /\ ~busy
        /\ Goto(c, "lookup", "inspect")
        /\ busy' = TRUE
        /\ UNCHANGED reply
     \/ /\ Answer(c, "lookup", "INTERNAL_ERROR", "not_started")   \* the read failed
        /\ UNCHANGED busy
  /\ UNCHANGED <<up, requestVars, ledgerVars, hostVars, crashes, history>>

\* The caller's expectations, compared with what systemd reports now.
Matches(s, b) ==
  /\ s.active = b.active
  /\ b.inv # Unstated => s.inv = b.inv

\* systemd.get() settles before anything has been recorded.
Inspect(c) ==
  /\ pc[c] = "inspect"
  /\ LET s == svc[body[c].unit] IN
     \/ /\ Matches(s, body[c])
        /\ Goto(c, "inspect", "record")
        /\ attempt' = [attempt EXCEPT ![c].before = s.inv]
        /\ UNCHANGED <<busy, reply>>
     \/ /\ ~Matches(s, body[c])
        /\ Leave(c, "inspect", "PRECONDITION_FAILED", "not_started")
     \/ Leave(c, "inspect", "INTERNAL_ERROR", "not_started")      \* systemctl failed
  /\ UNCHANGED <<up, body, ledgerVars, hostVars, crashes, history>>

\* Mutant of RecordIntent: the in-progress record is not written.
RecordNothing(c) ==
  /\ Goto(c, "record", "recorded")
  /\ UNCHANGED <<up, busy, body, attempt, reply, ledgerVars, hostVars, crashes, history>>

\* ledger.put(inProgress) renames its file into place, or fails before that.
RecordIntent(c) ==
  /\ \/ /\ Goto(c, "record", "recorded")
        /\ Rename(body[c], "unknown")
        /\ UNCHANGED <<busy, attempt, reply>>
     \/ /\ Leave(c, "record", "INTERNAL_ERROR", "not_started")
        /\ UNCHANGED ledgerVars
  /\ UNCHANGED <<up, body, hostVars, crashes, history>>

\* put() returns and mutationMayHaveStarted is set, or put() fails after its
\* rename because the directory cannot be opened or closed.
IntentReturns(c) ==
  /\ \/ /\ Goto(c, "recorded", "restart")
        /\ SyncDirectory
        /\ UNCHANGED <<busy, attempt, reply>>
     \/ /\ Leave(c, "recorded", "INTERNAL_ERROR", "not_started")
        /\ UNCHANGED <<ledgerVars, history>>
  /\ UNCHANGED <<up, body, hostVars, crashes>>

\* Mutant of Restart: a failing command leaves jobResult at 'done'.
RestartSwallowed(c) ==
  /\ LET o == body[c].op
         u == body[c].unit IN
     \/ /\ Goto(c, "restart", "waiting")
        /\ job' = [job EXCEPT ![u] = "queued"]
        /\ inflight' = [inflight EXCEPT ![u] = @ \cup {o}]
        /\ started' = started \cup {c}
        /\ UNCHANGED attempt
     \/ /\ Goto(c, "restart", "after")
        /\ attempt' = [attempt EXCEPT ![c].jobResult = "done"]
        /\ UNCHANGED <<job, inflight, started>>
  /\ UNCHANGED <<up, busy, body, reply, ledgerVars, svc, crashes, applied>>

\* `systemctl restart` reaches systemd, which queues a job or merges the request
\* into the pending one, or it fails before that.
Restart(c) ==
  /\ LET o == body[c].op
         u == body[c].unit IN
     \/ /\ Goto(c, "restart", "waiting")
        /\ job' = [job EXCEPT ![u] = "queued"]
        /\ inflight' = [inflight EXCEPT ![u] = @ \cup {o}]
        /\ started' = started \cup {c}
        /\ UNCHANGED attempt
     \/ /\ Goto(c, "restart", "after")
        /\ attempt' = [attempt EXCEPT ![c].jobResult = "failed"]
        /\ UNCHANGED <<job, inflight, started>>
  /\ UNCHANGED <<up, busy, body, reply, ledgerVars, svc, crashes, applied>>

\* Mutant of CommandEnds: it has no timeout.
CommandUntimed(c) ==
  /\ Goto(c, "waiting", "after")
  /\ job[body[c].unit] \in {"done", "failed"}
  /\ attempt' = [attempt EXCEPT ![c].jobResult = job[body[c].unit]]
  /\ UNCHANGED <<up, busy, body, reply, ledgerVars, hostVars, crashes, history>>

\* The systemctl command ends: with its job, at the 30 s timeout, or because it
\* lost systemd or was killed while the job goes on.
CommandEnds(c) ==
  /\ Goto(c, "waiting", "after")
  /\ \/ /\ job[body[c].unit] \in {"done", "failed"}
        /\ attempt' = [attempt EXCEPT ![c].jobResult = job[body[c].unit]]
     \/ attempt' = [attempt EXCEPT ![c].jobResult = "timeout"]
     \/ attempt' = [attempt EXCEPT ![c].jobResult = "failed"]
  /\ UNCHANGED <<up, busy, body, reply, ledgerVars, hostVars, crashes, history>>

Restarted(s, inv) == s.active = "active" /\ s.inv # inv

\* The second systemd.get() settles and the receipt's outcome is computed.
Observe(c) ==
  /\ Goto(c, "after", "settle")
  /\ LET s == svc[body[c].unit]
         judge(outcome) == attempt' = [attempt EXCEPT ![c].outcome = outcome] IN
     \/ judge("unknown")                                          \* systemctl failed
     \/ /\ attempt[c].jobResult = "timeout"
        /\ judge("unknown")
     \/ /\ attempt[c].jobResult = "done"
        /\ Restarted(s, attempt[c].before)
        /\ judge("success")
     \/ /\ \/ attempt[c].jobResult = "failed"
           \/ attempt[c].jobResult = "done" /\ ~Restarted(s, attempt[c].before)
        /\ judge("failed")
  /\ UNCHANGED <<up, busy, body, reply, ledgerVars, hostVars, crashes, history>>

\* Mutants of Settle: the final record is skipped, claims success, or an error
\* in writing it is reported as not_started.
SettleSkipped(c) ==
  /\ Goto(c, "settle", "settled")
  /\ UNCHANGED <<up, busy, body, attempt, reply, ledgerVars, hostVars, crashes, history>>

SettleOptimistic(c) ==
  /\ Goto(c, "settle", "settled")
  /\ Rename(body[c], "success")
  /\ UNCHANGED <<up, busy, body, attempt, reply, hostVars, crashes, history>>

SettleRefused(c) ==
  /\ Leave(c, "settle", "HOST_UNAVAILABLE", "not_started")
  /\ UNCHANGED <<up, body, ledgerVars, hostVars, crashes, history>>

\* ledger.put(receipt), up to its rename; any error from here on leaves the
\* caller with an unknown outcome.
Settle(c) ==
  /\ \/ /\ Goto(c, "settle", "settled")
        /\ Rename(body[c], attempt[c].outcome)
        /\ UNCHANGED <<busy, attempt, reply>>
     \/ /\ Leave(c, "settle", "HOST_UNAVAILABLE", "unknown")
        /\ UNCHANGED ledgerVars
  /\ UNCHANGED <<up, body, hostVars, crashes, history>>

SettleReturns(c) ==
  /\ \/ /\ Goto(c, "settled", "prune")
        /\ SyncDirectory
        /\ UNCHANGED <<busy, attempt, reply>>
     \/ /\ Leave(c, "settled", "HOST_UNAVAILABLE", "unknown")
        /\ UNCHANGED <<ledgerVars, history>>
  /\ UNCHANGED <<up, body, hostVars, crashes>>

\* prune() runs and the receipt is returned, or it fails part of the way.  The
\* record just written is the newest one and survives.
Finish(c) ==
  /\ \E k \in 1..Keep :
       \/ /\ Leave(c, "prune", "OK", attempt[c].outcome)
          /\ Prune(Pruned(k))
       \/ /\ Leave(c, "prune", "HOST_UNAVAILABLE", "unknown")
          /\ \E gone \in SUBSET Pruned(k) : Prune(gone)
  /\ UNCHANGED <<up, body, hostVars, crashes>>

Handle(c) ==
  \/ CheckPolicy(c) \/ Lookup(c) \/ Inspect(c)
  \/ RecordIntent(c) \/ IntentReturns(c)
  \/ Restart(c) \/ CommandEnds(c) \/ Observe(c)
  \/ Settle(c) \/ SettleReturns(c) \/ Finish(c)

-----------------------------------------------------------------------------
(* The process and its host. *)

\* Socket activation starts the helper; initialize() prunes the ledger, or fails
\* part of the way and the process exits.
Start ==
  /\ ~up
  /\ \E k \in 0..Keep :
       \/ up' = TRUE /\ Prune(Pruned(k))
       \/ up' = FALSE /\ \E gone \in SUBSET Pruned(k) : Prune(gone)
  /\ UNCHANGED <<busy, pc, requestVars, reply, hostVars, crashes>>

\* Connections without an answer are cut.
Drop ==
  /\ up' = FALSE
  /\ busy' = FALSE
  /\ pc' = [c \in Conn |-> IF pc[c] \in Handling THEN "dropped" ELSE pc[c]]
  /\ attempt' = [c \in Conn |-> NoAttempt]
  /\ UNCHANGED <<body, reply, history>>

\* The helper dies.  A job it queued lives on in systemd.
HelperCrash ==
  /\ up
  /\ crashes < MaxCrashes
  /\ crashes' = crashes + 1
  /\ Drop
  /\ UNCHANGED <<ledgerVars, hostVars>>

\* Power is lost and the host boots again: what was not synced, a rename or the
\* unlinking of an old record, may be undone, pending jobs are gone, every unit starts anew.
HostCrash ==
  /\ crashes < MaxCrashes
  /\ crashes' = crashes + 1
  /\ Drop
  /\ \E undone \in SUBSET Op :
       ledger' = [o \in Op |-> IF o \in undone THEN durable[o] ELSE ledger[o]]
  /\ durable' = ledger'
  /\ svc' = [u \in Unit |-> [active |-> "active", inv |-> svc[u].inv + 1]]
  /\ job' = [u \in Unit |-> "none"]
  /\ inflight' = [u \in Unit |-> {}]
  /\ UNCHANGED <<mtime, writes>>

\* A restart job stops its unit, then starts it or fails to.
JobStops(u) ==
  /\ job[u] = "queued"
  /\ job' = [job EXCEPT ![u] = "starting"]
  /\ svc' = [svc EXCEPT ![u].active = "inactive"]
  /\ UNCHANGED <<inflight, applied>>

JobStarts(u) ==
  /\ job[u] = "starting"
  /\ job' = [job EXCEPT ![u] = "done"]
  /\ svc' = [svc EXCEPT ![u] = [active |-> "active", inv |-> @.inv + 1]]
  /\ inflight' = [inflight EXCEPT ![u] = {}]
  /\ applied' = applied \cup inflight[u]

JobFails(u) ==
  /\ job[u] \in JobPending
  /\ job' = [job EXCEPT ![u] = "failed"]
  /\ svc' = [svc EXCEPT ![u].active = "inactive"]
  /\ inflight' = [inflight EXCEPT ![u] = {}]
  /\ UNCHANGED applied

\* The service exits, or something else starts it, with no job pending.
ServiceChanges(u) ==
  /\ job[u] \notin JobPending
  /\ \/ svc[u].active = "active" /\ svc' = [svc EXCEPT ![u].active = "inactive"]
     \/ /\ svc[u].inv < MaxInvocation
        /\ svc' = [svc EXCEPT ![u] = [active |-> "active", inv |-> @.inv + 1]]
  /\ UNCHANGED <<job, inflight, applied>>

Systemd(u) ==
  /\ JobStops(u) \/ JobStarts(u) \/ JobFails(u) \/ ServiceChanges(u)
  /\ UNCHANGED <<up, busy, pc, requestVars, reply, ledgerVars, crashes, started>>

Next ==
  \/ Start
  \/ \E c \in Conn : Arrive(c) \/ Handle(c)
  \/ HelperCrash
  \/ HostCrash
  \/ \E u \in Unit : Systemd(u)

\* Every await of the handler settles: file operations complete, and the
\* systemctl calls carry timeouts of 8 and 30 seconds.
Fairness == \A c \in Conn : WF_vars(Handle(c))

Spec == Init /\ [][Next]_vars
FairSpec == Spec /\ Fairness

-----------------------------------------------------------------------------
(* Properties. *)

TypeOK ==
  /\ up \in BOOLEAN /\ busy \in BOOLEAN /\ crashes \in Nat
  /\ pc \in [Conn -> Stage]
  /\ body \in [Conn -> Body \cup {None}]
  /\ \A c \in Conn : pc[c] \in Handling => body[c] \in Body
  /\ attempt \in [Conn -> Attempt]
  /\ reply \in [Conn -> Response \cup {None}]
  /\ ledger \in [Op -> Record \cup {Absent}]
  /\ durable \in [Op -> Record \cup {Absent}]
  /\ mtime \in [Op -> Nat] /\ writes \in Nat
  /\ svc \in [Unit -> [active : ActiveState, inv : Nat]]
  /\ job \in [Unit -> Job]
  /\ inflight \in [Unit -> SUBSET Op]
  /\ started \subseteq Conn /\ applied \subseteq Op

\* Restarts are serialised and the flag that serialises them is never leaked:
\* the helper is busy exactly while one connection is between the moment it
\* set the flag and its finally block, whatever fails on the way.
BusyIsHeldByOne ==
  /\ busy => \E c \in Conn : pc[c] \in Exclusive
  /\ \A c \in Conn : pc[c] \in Exclusive => busy
  /\ \A c, d \in Conn : pc[c] \in Exclusive /\ pc[d] \in Exclusive => c = d

\* "the same operation ID returns the stored receipt": as long as its record is
\* retained, at most one connection ever has systemd restart a unit for an
\* operation, across retries, concurrent duplicates and crashes.
AtMostOnce ==
  \A c, d \in started : body[c].op = body[d].op => c = d

\* The in-progress record is on disk before systemd is told to restart: no power
\* loss makes the helper forget an operation it may have carried out.
WriteAhead ==
  SyncsDirectories => \A c \in started : durable[body[c].op] # Absent

\* An outcome reported to the caller that had the restart carried out survives a
\* power loss: it is the outcome every later retry will read.
AnswerSurvives ==
  SyncsDirectories =>
    \A c \in started :
      reply[c] # None /\ reply[c].code = "OK"
        => durable[body[c].op].outcome = reply[c].outcome

\* A receipt says "success" only of an operation whose own restart job has
\* started the unit anew, never because something else restarted it meanwhile.
SuccessIsReal ==
  \A o \in Op : ledger[o].outcome = "success" => o \in applied

\* A caller told not_started may try again: its request has restarted nothing.
\* The repetition of a request that was handed to systemd before is told so only
\* when it is refused before its receipt is looked at, or that cannot be read.
NotStartedIsTrue ==
  /\ [](\A c \in started : reply[c] # None => reply[c].outcome # "not_started")
  /\ [][\A c \in started, d \in Conn :
          body[d] = body[c] /\ reply'[d] # reply[d] /\ reply'[d].outcome = "not_started"
            => reply'[d].code \in {"PERMISSION_DENIED", "INTERNAL_ERROR"}]_vars

\* Every request the helper took up is answered unless the helper dies, so no
\* client waits for a helper that is alive and no failure keeps it busy.
EveryRequestAnswered ==
  \A c \in Conn : (pc[c] \in Handling) ~> (pc[c] \in {"answered", "dropped"})

\* What a caller may rely on, whatever happens inside: see ActionPromise.
Promise == INSTANCE ActionPromise WITH
  fate     <- [o \in Op |-> ledger[o].outcome],
  saved    <- [o \in Op |-> durable[o].outcome],
  executed <- {body[c].op : c \in started}
KeepsPromise == Promise!Spec

-----------------------------------------------------------------------------
(* The inductive strengthening behind these properties, for file systems      *)
(* that sync directories.                                                   *)

Commanded == {"waiting", "after", "settle", "settled", "prune"}
Recorded  == {"recorded", "restart"} \cup Commanded

\* A dead helper handles nothing, only answered connections have a reply, and one
\* that has not spoken has no request.
DeadIsIdle == ~up => \A c \in Conn : pc[c] \notin Handling
Unanswered ==
  /\ \A c \in Conn : pc[c] # "answered" => reply[c] = None
  /\ \A c \in Conn : pc[c] = "closed" => body[c] = None

\* What a connection that queued a job looks like from then on.
StartedOK(c) ==
  /\ pc[c] \in Commanded \cup {"answered", "dropped"}
  /\ body[c] \in Body
  /\ durable[body[c].op] # Absent /\ durable[body[c].op].body = body[c]
  /\ ledger[body[c].op] # Absent /\ ledger[body[c].op].body = body[c]
StartedInv == \A c \in started : StartedOK(c)

\* The record of the connection that is busy: absent until it writes it, then
\* there, open until it settles it, and its own.
RecordOK(c) ==
  /\ pc[c] \in {"inspect", "record"} => ledger[body[c].op] = Absent
  /\ pc[c] \in Recorded => ledger[body[c].op] # Absent /\ ledger[body[c].op].body = body[c]
  /\ pc[c] \in Recorded \ {"recorded", "settled"} => durable[body[c].op] = ledger[body[c].op]
  /\ pc[c] \in Recorded \ {"settled", "prune"} => ledger[body[c].op].outcome = "unknown"
  /\ pc[c] \in {"settle", "settled", "prune"} => attempt[c].outcome \in Outcome
  /\ pc[c] \in {"settled", "prune"} => ledger[body[c].op].outcome = attempt[c].outcome
RecordInv == \A c \in Conn : RecordOK(c)

OwnRecord ==
  \A c \in Conn, d \in started :
    pc[c] \in Recorded /\ body[d].op = body[c].op => d = c

\* What a connection that queued a job has been told.
ToldOK(c) ==
  reply[c] # None =>
    /\ reply[c].outcome # "not_started"
    /\ reply[c].code = "OK" =>
         /\ durable[body[c].op] = ledger[body[c].op]
         /\ ledger[body[c].op].outcome = reply[c].outcome
ToldInv == \A c \in started : ToldOK(c)

\* How success is established: the job was this connection's, and it is over.
JobOK(c) ==
  /\ pc[c] = "waiting" =>
       /\ c \in started
       /\ job[body[c].unit] # "none"
       /\ job[body[c].unit] \in JobPending => body[c].op \in inflight[body[c].unit]
       /\ job[body[c].unit] = "done" => body[c].op \in applied
  /\ pc[c] = "after" => attempt[c].jobResult # None
  /\ pc[c] = "after" /\ attempt[c].jobResult = "done" => c \in started /\ body[c].op \in applied
  /\ pc[c] = "settle" /\ attempt[c].outcome = "success"
       => c \in started /\ body[c].op \in applied
JobInv == \A c \in Conn : JobOK(c)

AppliedOK(o) ==
  ledger[o].outcome = "success" \/ durable[o].outcome = "success" => o \in applied
AppliedInv == \A o \in Op : AppliedOK(o)

IInv ==
  /\ TypeOK /\ BusyIsHeldByOne /\ AtMostOnce
  /\ DeadIsIdle /\ Unanswered
  /\ StartedInv /\ RecordInv /\ OwnRecord /\ ToldInv
  /\ JobInv /\ AppliedInv

=============================================================================
