# Verification of AcornOps AgentV

TLA+ models of the AgentV host agent (`src/`), TLC configurations that check them on
small instances, and theorems proved with TLAPS for every value of the constants.

AgentV runs on a machine, keeps one WebSocket to a control plane, answers tool calls
(reads of the host, and one write: the restart of an allowed systemd service), and sends
snapshots. A root helper behind a Unix socket carries out the restarts. Installers
replace the release and the credential while the agent runs. On Windows the agent runs
under a native service host, which talks to it over a pipe, and is read-only.

## Inventory

| Part | Source (under `src/`) | State | Operations |
|---|---|---|---|
| Restart helper | `src/actions/helper.ts` | `busy`, one continuation per connection | capabilities, restart |
| Action ledger | `src/actions/ledger.ts` | one file per operation id, on a disk that may lose unsynced entries | `get`, `put`, `prune` |
| Helper client | `src/actions/client.ts` | one socket per call | capabilities, restart, abort, timeout |
| Tool executor | `src/tools/executor.ts` | two gates (slots, queue), a shared queue budget, the active generation | `execute`, `cancelQueued` |
| MCP router | `src/mcp/router.ts` | policy of the session | `tools/list`, `tools/call` |
| Lifecycle | `src/core/lifecycle.ts` | ready, handshake id, generation, timers, policy | open, message, close, stop |
| WebSocket transport | `src/transport/websocket-client.ts` | current socket, reconnect timer, heartbeat | connect, send, force reconnect, close |
| Snapshot manager | `src/core/snapshot-manager.ts` | interval, collecting flag, pending request, generation | start, stop, trigger, collect |
| Windows snapshot manager | `src/windows/snapshot.ts` | interval, running collection with its abort, waiting generation | start, stop, collect |
| Agent process | `src/index.ts`, `src/systemd-notify.ts`, the unit | watchdog interval and its flag, the *authenticated* marker under `/run` | start, signals, notify |
| Windows service entry | `src/windows-service-entry.ts`, `src/windows-runtime.ts`, `src/windows-readiness.ts` | `started`, `stopRequested`, the handle, three deadlines, the receipt | START, STOP, end of input |
| Windows collector runner | `src/windows/runner.ts` | children, `stopping` | `run`, `stop` |
| Configuration | `src/config.ts` | none | `loadConfig` |
| Linux host adapters | `src/adapters/*` | the accounts as first read | list, get, logs |
| Windows host | `src/windows/live.ts`, `scripts.ts` | none | list, get, logs |
| Model context | `src/tools/model-context.ts` | none | `boundedProjection` |
| Linux installation | `packaging/systemd/install-worker.sh`, `acornops-agentv-install-recover` | transaction directory, `active` link, installed release/credential/policy | install, roll back, recover at boot |
| Windows service host and installer | `packaging/windows/*` | journal of the installation | install, recover |
| Registry, redaction, schemas | `src/tools/*`, `src/redaction.ts` | none | validate and transform values |
| Doctor, logging, metrics | `src/doctor.ts`, `src/logger.ts`, `src/observability.ts` | counters | report |

How they interact: the transport calls the lifecycle back (`open`, `message`, `close`);
the lifecycle asks the helper for its capabilities, sends the handshake, gives the router
its policy and generation, starts and stops the snapshot manager, and writes the marker
(on Windows the receipt). The router hands calls to the executor, whose handlers read the
host through adapters or reach the helper through the client; what they return is projected
by the model context. The helper talks to systemd with `systemctl` and to its ledger on disk.
The installer replaces files and units, watches the marker and the control plane, and leaves
a transaction that the recovery unit settles at boot. The Windows host sends START with the
protected file and STOP; the entry starts the runtime, which probes the host through the
collector runner before it connects.

What is hard: everything in the agent is one thread of awaits, so the hazards are what
happens across an await (a session replaced, a slot granted, a helper request in flight, a
STOP while the runtime starts); the helper, the agent's unit and the installers must survive
a crash or a power cut between any two steps; timeouts give up on work that goes on; and every
reader of the host works on something that changes, under caps applied one after another, and
must not call the result complete when it is not. `PROJECT.json` lists each hazard at its line
with the properties that watch it.

What makes each part correct:

* helper and ledger: a restart runs at most once per operation while its record is kept,
  is recorded durably before it starts, and its answer is never contradicted by a later one;
* executor: no more running work than slots, no lost slot, no lost queue place, calls in
  order, an answer for each, an honest outcome for a write;
* lifecycle and transport: always one way forward (a socket or a timer), nothing of one
  connection acts in another, tools only in a ready session;
* snapshots: no request lost, one interval, what is collected in a session stays in it, and
  what is not there is taken for a recovery only when everything was seen;
* process and service: the marker and the receipt tell the installer the truth, the watchdog
  is fed, a stop leaves nothing, a start settles;
* read tools: a list, a page, a projection says what it leaves out;
* installer: the machine is never left with a credential the control plane refuses.

## Modules

| Module | Models | State and actions against the code |
|---|---|---|
| `ActionHelper` | restart helper, ledger, systemd and crashes | One connection per request; `pc` names the await its handler is at. `CheckPolicy` … `Finish` are the stretches between awaits of `handleRequest`; `Leave` is its `finally`. `ledger` is what readers see, `durable` what a power loss leaves; `Rename` and `SyncDirectory` are the two effects of `put`; `Prune` unlinks, which a power loss undoes until a directory is synced. `Systemd` is the unit and its restart job. |
| `ActionPromise` | what a caller may rely on, per operation | abstract: the fate of a receipt now and after a power loss, and whether the operation was carried out |
| `ToolExecutor` | router, executor, helper client | `active`, `queue`, `queued` are the fields of the gates and the budget; `pc` is where `execute()` stands: queued, granted (its promise resolved), running, late (timed out, handler still running). `Release` and `CancelQueued` are the gate's own methods, `Withdraw` the splice of its timer. `Connect`, `Unanswered`, `WriteFails` are the client. |
| `Session` | lifecycle and transport | One variable per field of the two classes, plus the state of every WebSocket ever made, since an old one still emits events. Continuations of `open()` and the provisional timer are sets of generations. |
| `SnapshotManager` | Linux snapshots | `stage` is the await a collection is at: host, gzip. |
| `WindowsSnapshotManager` | Windows snapshots | One await, aborted by `stop()`. |
| `LinuxAgent` | the process under its unit | Extends `SnapshotManager`. `unit` and `goal` are systemd's view, `phase` the process before and after `notifyReady()`; `sendWatchdog` and `WatchdogSettled` are the interval and the end of its promise; `authenticated` and `disconnected` write and remove the marker, which may fail. |
| `CollectorRunner` | the PowerShell children | `run` is cut at its checks: `Trusted` (file checks done), registration of the child, its limits, timer, signal, close; `stop()` kills and waits. |
| `Config` | `loadConfig` and the Windows file | An environment is a function; `parseWindowsServiceConfig` and `ServiceEnvironment` are what the entry does before `loadConfig`. |
| `WindowsAgent` | the service entry | Composes `WindowsSnapshotManager`, `CollectorRunner` and `Config` with the entry (`boot`, `shutdown`, `done` are where its promises stand), the sessions of its runtime, and the receipt. |
| `ProcessList` | `list_processes`, `get_process` on Linux | directory, then batches of reads, while processes come and go; `present` are the files beside those of the processes (`/proc/uptime` and `/proc/meminfo`, `/etc/passwd`) |
| `JournalPages` | `query_logs` page after page | the journal grows at one end and is vacuumed at the other; cursors as the adapter makes them |
| `HostLists` | the other lists, on either host | pure: cap of the collector, filter, limit, counts, status. A list is the set of its rows, whose places are its order; a slice keeps the rows with fewer than so many before them. |
| `HostSnapshot` | content of a snapshot | pure, over `HostLists`: sections, findings, completeness, what is popped to fit |
| `ModelContext` | projections | pure: compaction, omissions, limits. A result is a tree: a function from the paths of it to what is there, so that the recursion of `compactValue` becomes a condition on paths. |
| `HostTools` | the read tools together | Composes the five before; the tools share no state, so a behaviour follows one of them. |
| `InstallTransaction` | install worker, rollback, recovery | `worker` and `recovery` are program counters; `installed`, `files`, `link` the host; `remote`, `window`, `heard` the control plane's transaction; `agent`, `connected`, `marker` the agent under systemd. |

`ActionHelperProofs`, `ToolExecutorProofs`, `SessionProofs`, `SnapshotManagerProofs`,
`LinuxAgentProofs`, `WindowsAgentProofs`, `InstallTransactionProofs` and `HostToolsProofs` hold
the theorems. `WindowsAgentProofs` proves those of `CollectorRunner` and of
`WindowsSnapshotManager` first and carries them over to the process that composes them;
`LinuxAgentProofs` does the same with the proofs of its manager, and `HostToolsProofs` has the
lemmas about each of the pure modules it composes.

`MC*` modules give constants their values. Every definition's source lines are in
`PROJECT.json` under `map`. Definitions headed *Mutant* are deliberately wrong variants of
the definition that follows; each breaks one property, which shows the property can fail.

## Runs

| Run | Bounds | What it shows |
|---|---|---|
| `helper_retry` | 3 connections, 2 operations on 1 unit, 1 retained record, 1 crash | restarts are serialised, run once, recorded before they start, answered truthfully |
| `helper_promise` | 2 connections, an operation id reused with other arguments, 1 crash, 1 service start by somebody else | the helper implements `ActionPromise`; every request is answered |
| `executor_mixed` | 2 reads, 2 writes, one slot each, one queue place, 2 sessions | slots and budget are exact, queued work is revoked, write errors are honest |
| `executor_order` | 3 writes, one slot, two queue places, 2 sessions | first come first served; every call is answered |
| `session` | 2 WebSockets, 1 request, 1 crash | a way forward always, nothing leaks between connections, progress |
| `session_hang` | 2 WebSockets | a never-answered upgrade holds the agent (finding) |
| `linux_agent` | 3 processes, 2 sessions, 1 failing file operation | the marker of an active unit is true, the watchdog is fed, no request and no timer crosses sessions, every session is sampled |
| `snapshots_stale` | 2 sessions | a snapshot crosses sessions during gzip (finding) |
| `windows_agent` | 1 launch, 2 sessions, 1 failing file operation, one collector per snapshot beside the probe and a tool | the entry settles, a clean stop leaves nothing, receipts are true, collectors are killed, snapshots stay in their session, the configuration is confined |
| `install` | 7 kinds of installation, 3 faults | what is settled is accepted and whole; all is settled but for named gaps |
| `install_upgrade` | an upgrade, 1 fault | the recovery never ends (finding) |
| `host_tools` | 3 pids of 2 users read two at a time, 4 journal entries, rows in 3 places under a cap of 2, sections that keep 1 row, results to depth 3 | no list, page, snapshot or projection passes for complete when it is not |

Why the bounds are enough. *Helper*: two connections make a duplicate, the third lets another
operation or a retry come in between; one retained record makes pruning bite on the second
operation; one crash reaches every point, and a retry after it is one more request.
*Executor*: with one slot and one queue place the first call runs, the second waits, the third
is refused, in each gate; two sessions give a change under every stage. *Session*: events of
an old socket meet a new one with two. The theorems lift all of these bounds. *Linux agent*:
the second process meets what a crashed first one left, the third meets what the second made
of it; a collection can span the end of its session and the start of the next. *Windows
agent*: the process serves one launch and what an earlier one left is in the initial state;
with two sessions a collection waits for an aborted one; three collectors make each kind of
caller meet `stop()`. `MarkerTellsTheTruth` and the theorems of `WindowsAgentProofs` lift
these bounds for the safety properties. *Host tools*: limits below, at and above the number of
rows, a cap below it, entries that are malformed, fit and exceed a page, more than one batch
of reads, omissions beyond the list's limit, results deeper than the limit, results that no
compaction makes small enough, with few omissions and with too many, a context with no more
room than is assumed: each comparison of the code is met on both sides. `HostToolsProofs`
lifts these bounds. *Installation*: kills, reboots, agent deaths and lost connections count as
faults; with three, a rollback and then its recovery can be cut and the agent die; four were
tried with the same result. The theorems lift the bound on faults and the choice of setups.
Refusals, lost replies, failing commands and retries are not bounded. The seven setups are two
first installations (on an empty host, and on one where the runtime and the policy of an
earlier one are left), three replacements of the credential (alone, with a new release and
policy, and with a new release on a stopped agent of a version that had no runtime of its own)
and two repairs. A setup says which parts were there `before` and in which of them the
candidate differs.

Runs say `CHECK_DEADLOCK FALSE` where the system may stop: all requests answered and no
crash left, an agent told to stop, the last session, a settled installation, a call answered.

## Fairness

* helper: each handler's next step. Its file operations complete and `systemctl` runs under
  timeouts of 8 and 30 seconds (`src/adapters/systemd.ts`). systemd itself is not fair.
* executor: timers fire and resolved promises continue; handlers may hang.
* session: timers fire, the helper client gives up after 2 s, a peer that has not vanished
  answers the upgrade, and its socket emits its close. No message is promised.
* Linux agent: the watchdog interval fires, `systemd-notify` runs under a timeout of 5 s, and
  the awaits of a collection end (commands have timeouts, gzip is local). Nothing is assumed
  of systemd, of signals or of the connection.
* Windows agent: the deadlines of the entry fire, the awaits of a start settle (the file is
  local, the probe is a collector under its own timer), a child that has been killed closes,
  and collector timers fire. The host promises neither START nor STOP.
* installation: the two scripts go on, since all their waits are loops with a count or curl
  timeouts; the recovery is started again while it fails (`Restart=on-failure`, every 30 s);
  systemd restarts the agent. A status read and a rollback that are tried again and again
  succeed once, and so does a handshake with an accepted credential (strong fairness).

## What is proved

All theorems hold for any values of the constants that meet the named assumptions; the
bounds on generations, processes and faults are constants too, so they lift to any number.

*Helper.* `ActionHelperProofs` proves, for any number of connections, operations, units,
retained records and crashes, that `SyncsDirectories /\ Spec` implies `TypeOK`,
`BusyIsHeldByOne`, `AtMostOnce`, `WriteAhead`, `AnswerSurvives`, `SuccessIsReal`,
`NotStartedIsTrue` and `KeepsPromise`. `SyncsDirectories` says that the file system carries out
an fsync of a directory; `ledger.ts` ignores the error of one that does not, and a power loss
may then take the record of a restart with it.
`NotStartedIsTrue` has two halves: a request that was told *not_started* restarted nothing; and
the repetition of one that was handed to systemd is told so only where the policy no longer
allows it or the receipt cannot be read (see *Seen while modelling*). While the receipt can be
read, it is the receipt that answers.

None of these is inductive. `IInv` adds: an operation being handled, or commanded before,
has a record with the same arguments (`StartedInv`, `RecordInv`, `OwnRecord`); what
the disk holds of the operation a handler is at is what the directory holds, but while it
writes (`RecordInv`); a job belongs to
operations whose handler commanded it (`JobInv`); a handler that heard success saw its own
job start the unit (`ToldInv`, `AppliedInv`); a dead helper handles nothing (`DeadIsIdle`); a
connection being handled has no answer yet (`Unanswered`). There is one lemma per action,
with a step per conjunct of `IInv`; `NextInv` collects them. The refinement follows from
`IInv` action by action: recording an intent is `Accept`, commanding systemd is `Execute`, the
second record is `Decide`, syncing the directory is `Save`, pruning is `Forget`, power loss is
`Revert`, all else stutters.

*Executor.* `ToolExecutorProofs` proves `TypeOK`, `LimitsAreExact`, `FirstComeFirstServed`,
`SessionEndRevokes` and `WriteErrorsAreHonest`. The invariant states the limits as `Slots`
(the calls that hold a slot are finitely many, as many as counted) and `Queues` (a call waits
exactly where it is queued, once), and adds in `CallInv` that a late call has been aborted, and
that before a call runs it has no answer and nothing of it has reached the helper. Facts about
tails, removals and sums of lengths are lemmas. That nobody is overtaken follows from the
invariant: a newcomer gets a slot only where none waits, and a release grants the head.
Assumed: reads and writes are disjoint, limits are positive.

*Session.* `SessionProofs` proves `TypeOK`, `SocketOrTimer`, `NothingOutlivesConnection`,
`ReadyIsCurrent`, `OneOffer` and `ResponsesStayHome`, for any number of sockets, requests and
crashes. They are inductive together once it is added what a continuation of `open()` that is
still awaited has not done yet, and what was offered once the helper is known (`Asked`), that a
pending request of the generation in force came on the present socket (`Pending`), and that a
running agent has a generation above zero (`Numbered`).

*Snapshots and the Linux agent.* For the manager of Windows `TypeOK`, `WaitingIsCurrent` and
`SentInItsSession` are proved (in `WindowsAgentProofs`), for that of Linux `TypeOK` and
`NothingOutlivesSession` (in `SnapshotManagerProofs`); both become inductive once an active
manager and a collection in flight are known to have a generation above zero (`Numbered`). On
Linux `SentInItsSession` is refuted. `LinuxAgentProofs` carries `NothingOutlivesSession`
through restarts of the process and proves `ActiveMarkerIsTrue` by an invariant that ties the
marker to link, phase and unit.

*Windows agent.* The runner alone has `NoOrphan` and `StoppedIsQuiet`: every child that lives
when `stop()` begins is known to it, since nothing is registered after. Then the invariants of
the manager and of the runner are shown to survive the actions of the entry, and beside them
`EntryInv` says what a runtime that is up implies (`Booted`), that an entry that has given up
does not take it back (`GivenUpForGood`), whose receipt may be on disk (`Marked`), and what
has been taken down when a stop is over (`TakenDown`). From these follow `NothingLeftRunning`,
`ReceiptIsCurrent`, `NoRunawayRuntime`, and again `NoOrphan` and `SentInItsSession`;
`RunsConfined` follows from what `Config` does with any file and any inherited environment.
Assumed: the calls are those of the probe, the tool and the snapshot (`CallAssumption`), and
"no value" is none of the receipts (`ReceiptAssumption`).

*Installation.* `InstallTransactionProofs` proves `TypeOK`, `OnlyCredentialRestorable`,
`DecidedBeforeTouched`, `SettledIsAccepted` and `SettledIsWhole`, for any set of installations
and any number of faults. The properties speak of the end and of single steps; the invariant
has to say where the transaction stands at each place. `Exclusion` keeps worker and recovery
apart and ties them to the `active` link; `Beginning` and `Controlled` say what the control plane
can have done by then and what the host has heard of it; `Cutover` gives, for each step of the
worker, exactly the parts of the candidate that are in place (`Done`), `WayBack` what is true of
a rollback, `Recovering` of each place of the recovery; `Committed` and `Chosen` say that after
a commit only the candidate is left, but for a recorded rollback; and `Ended` that the
transaction is given up at one of its two ends, `Restored` or `Kept`. Where a host must be whole,
`Abandoned` is excused: the worker died or gave up while it undid (`torn`), and the candidate
stays committed (see below). A rollback that is cut where the registration is cancelled is not:
the recovery finishes it. There is one
lemma per step of the two scripts; assumed is what a setup is (`SetupAssumption`) and that faults
are counted (`FaultAssumption`).

*Read tools.* `HostToolsProofs` proves `ProcessesAreListed`, `PagesTile`, `ListsAreHonest`,
`RecoveryIsEarned` and `ProjectionIsHonest`, for any processes and users, any journal, any rows,
caps and limits, and any result.

* *Processes*: on a host that has the other files, a process said to be missing is not there;
  while nothing has failed, whoever has been there throughout is still to be read,
  is being read or has been (`NothingIsLost`), with the user of the accounts as first read.
* *Pages*: the cursor is the oldest entry read (`CursorInv`). `QueryGives` says what one query
  gives of the entries older than it: a part from the top that skips malformed records only,
  and all of them when it says neither "truncated" nor "partial". That pages follow each other
  without a gap is then an argument about intervals.
* *Lists*: a slice keeps as many rows as asked for, all if there are no more (`Keeping`, from
  `Rank`); `Collector` and `Collected` carry that through the cap of the script and the
  agent's own limit, and the three statements about lists add it up.
* *Snapshots*: a section that loses a row to the size limit is no longer sent as complete
  (`Popped`), and a list that fails never is (`SafeList`); so a section sent as complete has
  lost nothing (`FittedIsEarned`). This is about the flag by which the control plane may infer
  a recovery, of each section of its own; the counts a popped list shows are not part of it.
* *Projections*: of a node that is not shown as it is, take the first place on the way from the
  root that was not reached: the node before it was cut or lies at the limit of depth, and an
  omission says so (`Compacting`). The size is at most the target, since `{ truncated: true }`
  is within it, and the omissions that are listed are no more than fit (`PartOf`, `OmissionsFit`):
  at most sixteen after the cut, none with a path deeper than the limit. Assumed is that the
  context has room for so many of that depth (`ModelContextAssumption`); the run has no more
  room than that, so one omission too many would break it.

No theorem uses induction over data, which the provers cannot instantiate: where one would,
the proof takes the smallest counterexample among the naturals, of which there is one since
they are well founded (`Smallest`, `Largest`). For the same reason these modules are written
without recursion: lists as sets with ranks, trees as functions on paths.

`BusyIsHeldByOne`, `WriteAhead`, `WaitingIsCurrent`, `StoppedIsQuiet` and the `TypeOK`s are
proved and not listed by a run, since the theorems say more.

Every safety property that a passing run checks is proved. Only model-checked are the
properties of progress (`EveryRequestAnswered`, `EveryCallAnswered`, `NeverStuck`,
`DeadPeerNoticed`, `EverySessionSampled`, `WatchdogGoesOn`, `EntrySettles`,
`SettlesElsewhere`): liveness under fairness and ENABLED are outside the prover's reach. The
three findings are counterexamples of TLC.

## What the models leave out

* **Helper.** The request hash is taken as injective; timestamps and messages are dropped; the
  `capabilities` request changes nothing and is not an action. The busy flag is tested in the
  same step as the ledger read returns, as in the code. After a crash of the host every unit
  is started again, and a power loss keeps any part of the unlinks of `prune()` that no later
  sync of the directory covers. Services may change between the precondition and the restart:
  the code accepts that window. A `systemctl` that is killed while its job goes on is recorded
  as *failed*, and the restart may still happen afterwards: `SuccessIsReal` is about success
  only.
* **Executor.** Validation, redaction and sizes are one choice of result; `tools/list` reads.
  The helper is abstracted to refusing or restarting, which `ActionHelper` details.
* **Session.** Linux; backoff delays are abstracted to a timer; responses of the handshake may
  come unasked and twice; a pong is not matched with its ping, as in the code; writing the
  marker may fail, removing it does not (in `LinuxAgent` both may).
* **Snapshots.** In the managers contents are a size against a budget, and sending may fail;
  `HostSnapshot` has the contents. `trigger()` of the Linux manager is called only by tests, so
  `linux_agent` allows none.
* **Linux and Windows agent.** A session is made and lost without the detail of `Session`. The
  mock mode of the Windows runtime, which the service never selects, is left out, and so are
  diagnostics. The host side of the pipe sends any order of commands and may close it.
* **Configuration.** Formats of names, paths and URLs are what their check says of them.
* **Read tools.** The parsing of columns and the PowerShell bodies are abstracted to the rows
  they give. A row has a place in the order, a size, and whether the request admits it and its
  values are known. Rows are told apart by their place, so no two of one list share one. The
  sections of a snapshot for processes and listeners go the way of the two
  modelled ones.
* **Projections.** A result is its paths and nodes; the keys of an object are in their order,
  sizes are counted in units (a character, a node), an omission takes one unit and one for each
  step of its path, a key of any length being a unit (the code bounds the depth of a path and not
  the length of its keys, so `validateModelContext` may still refuse a result with very long
  ones), and which of too many omissions stay is left open: the code keeps the first, and nothing is
  claimed of such a list but that it says it is cut. The reason of an omission is abstracted to
  the compaction that pushed it.
* **Installation.** A file operation that has returned survives a crash; a request takes
  effect before its sender gives up, or never; local file operations succeed unless the script
  tests them; the helper's socket and policy are one part; `install.sh`'s placeholder env
  counts as none; the three files that record the candidate (`install-worker.sh:436-440`) are
  written in one step: a rollback looks at the first only, and a candidate is brought back
  only after a commit, which comes later. `Wrong` parts are restored in the order of the
  script; that errexit is off inside `if restore_previous`, so that an `install` or `mv` may
  fail unnoticed (`install-worker.sh:190`), is outside what is assumed of file operations. A
  replaced credential is accepted in its grace time for a rollback only. `SettlesElsewhere`
  excuses four situations, each a definition: `Repeating` (the recovery takes a restored
  release for a change again and again), `Stranded` (the candidate is committed, partly
  undone, and the choice not recorded), `Orphaned` (a first installation without its recovery
  unit) and `Unrestarted` (the recovery was killed between the restored env and the queued
  restart). `SettledIsAccepted` and `SettledIsWhole` excuse `Abandoned`, a committed candidate
  whose worker was killed or gave up while it undid: the choice of the previous installation
  is written after it has been restored (`install-worker.sh:192`), so the recovery may keep a
  host that is half the previous one, or its refused credential, although
  `docs/OPERATIONS.md:102` says it "retains a committed candidate".

Seen while modelling, and modelled as the code has it:

* `filter()` of `src/windows/live.ts` adds what the capped collector omitted to the rows that
  pass, so `original_count` may exceed the truth, although
  `docs/contracts/windows-read-runtime.md:51` calls the counts "conservative lower bounds".
* A journal entry larger than the byte limit gives an empty page without a cursor
  (`src/adapters/journal.ts:26`), which ends the reading.
* The repetition of a request whose receipt cannot be read, or which the policy no longer allows,
  is answered *not_started* (`src/actions/helper.ts:99`, `:119`, `:120`), also when the first
  request has restarted the unit. The answer is true of the repetition and not of the operation.
* `get_process` takes any file that is not there for a process that does not exist: also
  `/proc/uptime`, `/proc/meminfo` and `/etc/passwd` (`src/adapters/procfs.ts:66`).
* The accounts are read once in the life of the agent (`src/adapters/procfs.ts:119`); a process
  of a later account is missed when that user is asked for.
* Omissions of the first compaction stay when the second replaces it
  (`src/tools/model-context.ts:60`).
* When the receipt cannot be removed, `lifecycle.stop()` throws before it closes the transport
  (`src/windows-runtime.ts:37`); the entry then reports a stop that failed.

**Not modelled.** The Windows service host and installer (a second transaction, in PowerShell
and C#); the Linux bootstrap (download, verification, placement: sequential, and guarded by the
worker where a crash matters); doctor, logging and metrics (nothing acts on them); host facts,
redaction and schemas (values without a state); build and smoke scripts.

## Plan

1. Done: `ActionHelper` with `ActionPromise`; `ToolExecutor`; `Session`; the snapshot managers;
   `InstallTransaction`; `LinuxAgent`; `WindowsAgent` with `CollectorRunner` and `Config`;
   `HostTools` with the read tools, the content of snapshots and projections; proofs of every
   safety property that these runs check.
2. Left: the Windows installer with its journal and recovery, beside `InstallTransaction`.
3. Left: `Session` composed with `ToolExecutor` and `ActionPromise`, a write from the control
   plane to systemd across reconnects.
4. Left: an action property for the installation, that a choice once recorded is never taken
   back, and leaner leaves in the older proofs, which cite more than they need.
