----------------------------- MODULE ProcessList -----------------------------
(***************************************************************************)
(* One call of list_processes or of get_process on Linux: ProcfsAdapter of  *)
(* src/adapters/procfs.ts.  The directory is read once; the processes it    *)
(* named are then read in batches, each batch at once, while processes exit *)
(* and are born and the signal of the call may fire.                        *)
(***************************************************************************)
EXTENDS Integers, FiniteSets

CONSTANTS
  Pid,
  User,          \* those of the accounts, by now
  Owner,         \* whose process each pid is
  Concurrency,   \* PROC_READ_CONCURRENCY
  ProcessLimit   \* limits a call may set

ASSUME ProcessAssumption ==
  /\ Pid \subseteq Nat /\ Owner \in [Pid -> User]
  /\ Concurrency \in Nat \ {0}
  /\ ProcessLimit \subseteq Nat \ {0} /\ ProcessLimit # {}

VARIABLES
  alive,      \* the processes there are
  present,    \* of the files every read needs, those there are
  passwd,     \* this.passwd: the users of the accounts as first read, {} before that
  request,    \* the input of the call
  stage,      \* "idle", "batches", "done", or "failed"; of get(): "one", and what it says
  candidates, \* the pids not yet read
  batch,      \* of these, the ones being read
  found,      \* the records read, each with the user it was given
  failures,
  aborted,    \* the signal has fired
  steady      \* processes that have been there since the directory was read

processVars == <<alive, present, passwd, request, stage, candidates, batch, found, failures,
                 aborted, steady>>

\* /proc/uptime and /proc/meminfo; /etc/passwd.
Files == {"context", "accounts"}

Request == [user : User \cup {"any"}, order : {"asc", "desc"}, limit : ProcessLimit]

Host(running, files, accounts, input) ==
  /\ alive = running /\ present = files /\ passwd = accounts /\ request = input
  /\ stage = "idle" /\ candidates = {} /\ batch = {} /\ found = {}
  /\ failures = 0 /\ aborted = FALSE /\ steady = {}

\* A call, at whatever time of the agent's life.
ProcessInit ==
  \E running \in SUBSET Pid, files \in SUBSET Files, accounts \in SUBSET User,
     input \in Request : Host(running, files, accounts, input)

\* A host on which nothing is asked of it.
ProcessIdle == Host({}, {}, {}, CHOOSE input \in Request : TRUE)

-----------------------------------------------------------------------------
(* The host. *)

ProcessExits ==
  \E p \in alive : alive' = alive \ {p} /\ steady' = steady \ {p}
  /\ UNCHANGED <<present, passwd, request, stage, candidates, batch, found, failures, aborted>>

ProcessStarts ==
  /\ \E p \in Pid \ alive : alive' = alive \cup {p}
  /\ UNCHANGED <<present, passwd, request, stage, candidates, batch, found, failures,
                 aborted, steady>>

ListAborted ==
  /\ stage \in {"batches", "one"} /\ ~aborted /\ aborted' = TRUE
  /\ UNCHANGED <<alive, present, passwd, request, stage, candidates, batch, found, failures,
                 steady>>

-----------------------------------------------------------------------------
(* list() *)

\* The directory and the context are read.
ListPids ==
  /\ stage = "idle"
  /\ stage' = IF "context" \in present THEN "batches" ELSE "failed"
  /\ candidates' = alive /\ steady' = alive
  /\ UNCHANGED <<alive, present, passwd, request, batch, found, failures, aborted>>

\* The directory is in the order of the pids.
Lowest(n) == {p \in candidates : Cardinality({q \in candidates : q < p}) < n}

\* A batch is begun, unless the call has been aborted.
NextBatch ==
  /\ stage = "batches" /\ batch = {} /\ candidates # {}
  /\ \/ aborted /\ stage' = "failed" /\ UNCHANGED <<batch, candidates>>
     \/ /\ ~aborted
        /\ batch' = Lowest(Concurrency)
        /\ candidates' = candidates \ Lowest(Concurrency)
        /\ UNCHANGED stage
  /\ UNCHANGED <<alive, present, passwd, request, found, failures, aborted, steady>>

\* user(): the accounts are read once in the life of the agent, and whoever they did
\* not name then stays a number.
Readable == passwd # {} \/ "accounts" \in present
known == IF passwd = {} THEN User ELSE passwd
user(p) == IF Owner[p] \in known THEN Owner[p] ELSE "uid"

\* Mutant of Unread: the failure is not counted.
UnreadSilently(p) == UNCHANGED <<passwd, found, failures>>

Unread(p) == failures' = failures + 1 /\ UNCHANGED <<passwd, found>>

\* read(), of one of the batch: the process may have gone, or its files fail; and an
\* abort fails every read that has not ended.
Read(p) ==
  /\ stage = "batches" /\ p \in batch /\ batch' = batch \ {p}
  /\ \/ Unread(p)
     \/ /\ p \in alive /\ ~aborted /\ Readable
        /\ found' = found \cup {[pid |-> p, user |-> user(p)]} /\ passwd' = known
        /\ UNCHANGED failures
  /\ UNCHANGED <<alive, present, request, stage, candidates, aborted, steady>>

ListDone ==
  /\ stage = "batches" /\ batch = {} /\ candidates = {}
  /\ stage' = "done"
  /\ UNCHANGED <<alive, present, passwd, request, candidates, batch, found, failures, aborted,
                 steady>>

\* What list() returns.
filtered == {r \in found : request.user \in {"any", r.user}}

\* The records before this one, as they are sorted.
before(r) == {s \in filtered : IF request.order = "asc" THEN s.pid < r.pid ELSE s.pid > r.pid}

processes ==
  [items    |-> {r.pid : r \in {s \in filtered : Cardinality(before(s)) < request.limit}},
   original |-> Cardinality(filtered),
   omitted  |-> IF Cardinality(filtered) > request.limit
                THEN Cardinality(filtered) - request.limit ELSE 0,
   status   |-> IF failures > 0 THEN "partial" ELSE "ok"]

-----------------------------------------------------------------------------
(* get() *)

GetProcess ==
  /\ stage = "idle" /\ stage' = "one"
  /\ \E p \in Pid : batch' = {p}
  /\ steady' = alive
  /\ UNCHANGED <<alive, present, passwd, request, candidates, found, failures, aborted>>

\* A file that is not there, whichever it is, is a process that does not exist, and
\* every other error is an error.
GetDone ==
  /\ stage = "one"
  /\ LET complete == "context" \in present /\ Readable IN
     \/ stage' = "failed"
     \/ ~aborted /\ complete /\ batch \subseteq alive /\ stage' = "found"
     \/ ~aborted /\ (complete => batch \cap alive = {}) /\ stage' = "missing"
  /\ UNCHANGED <<alive, present, passwd, request, candidates, batch, found, failures, aborted,
                 steady>>

ProcessNext ==
  \/ ProcessExits \/ ProcessStarts \/ ListAborted
  \/ ListPids \/ NextBatch \/ ListDone \/ \E p \in Pid : Read(p)
  \/ GetProcess \/ GetDone

-----------------------------------------------------------------------------
(* Properties. *)

\* A list that says "ok" and omits nothing has every process that was there all the
\* while and that the request asks for, whatever else started and exited; if it asks
\* for a user, one the accounts named when they were first read.  And a process said
\* not to exist was gone at some time of the call, on a host that has the other files.
ProcessesAreListed ==
  /\ stage = "done" /\ processes.status = "ok" /\ processes.omitted = 0 =>
       \A p \in steady :
         request.user = "any" \/ (request.user = Owner[p] /\ request.user \in passwd)
           => p \in processes.items
  /\ stage = "missing" /\ present = Files => batch \cap steady = {}

=============================================================================
