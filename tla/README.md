# A verification of minicc

minicc is a coding agent with a command line, a web host and detached worker
processes, written in Python. This directory holds TLA+ models of the parts of
it where processes, threads and files interact, the TLC configurations that
check them, and TLAPS proofs of what matters most. All paths below are relative
to the repository; Python sources live in `minicc/`.

## The system

| part | state it keeps | operations | what is hard | what makes it correct |
|---|---|---|---|---|
| process execution (`task_manager.py`, `task_worker.py`, `task_store.py`, `task_execution.py`) | task rows and lease rows in SQLite, request and cancel files, the host's in-memory records, one worker process per task | reserve, spawn, monitor, cancel, adopt, resume, shut down | two processes write one row; either may die at any step; leases run out | a settled verdict never changes; a cancelled task never turns green; one worker per task; dead workers are noticed |
| scheduler and batches (`task_manager.py`) | session slots and queues, children of a batch, futures | submit, submit_batch, hand-off, cancel, release | threads meet under several locks; failure while half of a batch exists | one run per session; a slot is never lost; children follow their parent |
| snapshot persistence (`task_persistence.py`, `_write_task_snapshot`) | pending map, drain thread, serial numbers | enqueue, flush, drain, close | writes of one record overtake one another; writes fail | the newest snapshot ends up in the store or is reported lost |
| event log and streams (`agent/protocol.py`, `webserver.py`, `web/src`) | bounded logs, sequence numbers, subscribers | publish, read, resynchronise | slow readers of a bounded window | no silent gap |
| sessions and approvals (`web.py`) | lock table with eviction, approval groups | chat, approve, time out, cancel | eviction between hand-out and acquire; decision against time-out | mutual exclusion per session; one decision per prompt |
| shared files (`sidecar_lock.py`, `atomic_file.py`, `workspaces.py`, `tools/memory.py`, `session.py`) | files of all processes, one byte of a sidecar each | read, extend, replace | read-modify-write by several processes that wait, give up or die | a memory reported as stored stays; the catalog loses no folder |
| agent loop and completion gate (`agent/loop.py`, `agent/completion.py`, `agent/verifier.py`) | rounds, budgets, recovery state, evidence | tool rounds, recovery, finish | many exits, cancellation everywhere | a run finishes only with evidence newer than its last edit |
| plan graph and sub-agents (`agent/graph.py`, `agent/subagent.py`) | node states, semaphores | waves, retries, time-outs | failures among parallel nodes | dependants of a failed node never run |
| providers (`llm/`) | retry counters, committed text, usage | request, stream, downgrade | a stream breaks after visible output | no text duplicated or lost; bounded retries |
| MCP client (`mcp.py`) | clients, request counter, response queue, dead flags, redirects | discover, request, read loop, close | concurrent callers of one queue; servers that die while they are discovered | each caller gets its own answer or an error; a tool leads to its own server; headers stay with their origin |
| tools (`tools/`) | background jobs, pipes, backups, read digests, memory and todo files | run, poll, kill, read, edit | reader threads, stale reads | output and exit status are not lost; what an edit replaces was seen and is in the backups |
| permissions and hooks (`web.py`, `permissions.py`, `allowlist.py`, `hooks.py`) | modes, grants, cached rules, session allowlist, hook file | gate, authorize, remember, clear, fire | the file and the list change while a prompt waits; hooks fail and hang | nothing runs that a rule forbids or that nobody granted; a strict hook stops the call |
| models and money (`agent/router.py`, `route_wiring.py`, `web.py`) | routes, fallbacks, recoveries, one budget | serve a stage, recover, repair, judge | several recoveries change the model of one run | a stage is served by a model it names, below the ceiling; accounts add up |
| index and review (`agent/retrieval.py`, `changes.py`) | records by signature, cached counts | refresh, search, summarise | people edit while the tree is read | no stale record or count for a quiet workspace, no record of a denied path |
| HTTP server, configuration, CLI, benchmarks, front end, IDE client | little or none | I/O and text | - | not modelled |

The web host owns every in-memory record. With `MINICC_TASK_EXECUTOR=process`
a thread of the host launches a worker and then only mirrors the rows the
worker commits; host and worker share nothing but the SQLite store and two
files. `PROJECT.json` lists every part with its status, and every hazard at its
line.

## Modules

| module | models | composed by |
|---|---|---|
| `WorkerExecution` | one task between host, store and worker process | `MCWorkerExecution` |
| `WorkerExecution_proofs` | its theorems | - |
| `TaskScheduler` | session slots, queues and batches | `MCTaskScheduler` |
| `TaskScheduler_proofs` | its theorems | - |
| `DurableRecords` | what task persistence promises | refined by `SnapshotWriter` |
| `SnapshotWriter` | how it is done: table, drain thread, serials | `MCService` |
| `EventStream` | worker row, mirror, event log, stream handler, page | `MCService` |
| `TaskRun` | a task around its calls of the agent | `MCService` |
| `AgentLoop` | one call of `run_agent` | `MCAgent` |
| `SessionLocks` | the lock table of the web service | `MCAgent` |
| `Approvals` | its prompts | `MCAgent` |
| `SubAgents` | nested runs and their spend | `MCAgent` |
| `PlanGraph` | a plan's waves | `MCAgent` |
| `BackgroundShells`, `McpClient`, `ProviderChat` | what the agent talks to | `MCAgent` |
| `Conversation` | the messages of a session, in memory and on disk | `MCAgent` |
| `WorkspaceRollback` | a file, its snapshot, its journal and the restore | `MCAgent` |
| `Service_proofs` | the theorems of `SnapshotWriter`, `EventStream`, `TaskRun` and the composition `MCService` | - |
| `Chat_proofs` | the theorems of `BackgroundShells`, `ForegroundCommand`, `EvidenceIndex`, `ChangeSummary`, `ProviderChat`, `AnthropicChat` and `McpServers` | - |
| `MCAgent_proofs` | the theorems of the composition `MCAgent` | - |
| `Agent_proofs` | the theorems of `AgentLoop`, `SubAgents`, `McpClient`, `PlanGraph` and `RunModels` | - |
| `Files_proofs` | the theorems of `WorkspaceRollback`, `GuardedEdits`, `SharedFiles` and `Conversation` | - |
| `Gates_proofs` | the theorems of `PermissionGate`, `HookRunner`, `Verification`, `EvidenceGate`, `SessionLocks` and `Approvals` | - |
| `GuardedEdits` | the editor's digests and backups of one file | `MCAgent` |
| `Verification` | the verifier's identity of a workspace, its memo and its passes | `MCAgent` |
| `EvidenceGate` | the completion review as a function of the trail | `MCAgent` |
| `PermissionGate`, `HookRunner` | rules, modes, grants and allowlist; hooks and their verdicts | `MCAgent` |
| `RunModels` | routing of stages, fallbacks, the budget | `MCAgent` |
| `ForegroundCommand` | a command, its pipes, its readers, deadline and kill | `MCAgent` |
| `EvidenceIndex`, `ChangeSummary` | what the model and the user are told of a workspace | `MCAgent` |
| `AnthropicChat` | one request of the second provider | `MCAgent` |
| `McpServers` | the manager of all servers, and the HTTP transport | `MCAgent` |
| `SharedFiles` | the memory and the catalog of folders, under the sidecar | `MCAgent` |

`MCService` and `MCAgent` each hold several modules at once. Those modules share
no state in the code: they meet through a call and its result, or through a
record that one of them only writes. A product of them would show nothing that
the parts do not, and would be far out of reach, so a variable `part` chooses
one of them in the initial state and the others rest. The modules are extended
there, with names that do not clash: TLC checks on an instance the very formulas
the proofs are about. Where two modules do influence each other the influence is in the
module: `TaskRun` assumes of a call of the agent what `AgentLoop` shows
(`AnswerIsVerified`), and `Conversation` lets rewinds come in at any time, as
`SessionLocks` does not cover them.

## Plan

1. `WorkerExecution` with its proofs, `TaskScheduler`: done, who may write the
   verdict of a task, and who may run.
2. `SnapshotWriter` with `DurableRecords`, `EventStream`, `TaskRun`,
   `SessionLocks`, `Approvals`, `McpClient`, `AgentLoop`, `PlanGraph`,
   `SubAgents`, `ProviderChat`, `BackgroundShells`, `Conversation`,
   `WorkspaceRollback`, then `Verification`, `EvidenceGate`, `GuardedEdits`,
   `PermissionGate`, `RunModels`, `HookRunner`, `ForegroundCommand`,
   `EvidenceIndex`, `ChangeSummary`, `AnthropicChat`, `McpServers`,
   `SharedFiles`: done, model-checked.
3. Proofs of `SnapshotWriter` (with the safety half of its refinement),
   `SessionLocks`, `Approvals`, `SubAgents`, `TaskRun` and
   `WorkspaceRollback`: done.
4. Proofs of `TaskScheduler` (all its safety properties) and of `OneWatchedWorker`
   of `WorkerExecution`: done.
5. Proofs of `PermissionGate`, `HookRunner`, `Verification`, `AgentLoop`,
   `McpClient`, `SharedFiles` and `GuardedEdits`: done.
6. Proofs of `EventStream` (`PageIsFaithful`) and of `MCService` as a whole:
   done.
7. Proofs of `EvidenceGate`, `PlanGraph` and `RunModels`: done.
8. Proofs of `BackgroundShells`, `ForegroundCommand`, `EvidenceIndex`,
   `ChangeSummary` and `ProviderChat` (`OutputIsTold`, `ToldIsCurrent`), of
   `CutBack`, and of what these and the others promise in `MCAgent`: done.
9. Proofs of `Conversation` (`HistoryIsWhole`): done.
10. Proofs of `AnthropicChat` and `McpServers`, and so of `TalkIsWhole` and of
   the `PartsInv` of `MCAgent` as a whole: done.

## WorkerExecution

One module models both processes. A task is launched at most once, since a
retry gets a fresh id, so the random lease owner of its worker is `"launch"`
and the one used by auto-resume is `"recovery"`.

| state | code |
|---|---|
| `row` | row of table `tasks`: status, whether it names a worker and lease owner (`owned`), `checkpoint.resumed_task_id` (`resumed`), the task it is a copy of (`source`) |
| `lease` | row of `task_leases`; `live` is `expires > now` |
| `beat` | `heartbeat_at_epoch` of the last row is recent, used only without a lease row |
| `request`, `flag` | `.minicc/worker/<id>.request.json`, `.minicc/cancel/<id>.flag` |
| `host`, `starts`, `todo` | the main thread: `__init__`, `_auto_resume_interrupted`, `shutdown` |
| `rec`, `cancelled`, `detached`, `adopted` | `TaskRecord.status`, `cancel_event`, `_detached_tasks`, a monitor without process handle |
| `pc`, `seen`, `outcome` | the host's thread for the task, the row it read last, how its monitor ended |
| `wpc`, `wstat`, `wcancel` | the worker: where it is, its verdict, its `cancel_event` |

Every step that touches the store, a file or a flag another thread reads is an
action of its own. The monitor reads the row in `MonRead` and the lease or the
exit status in `MonCheck`, so a worker may commit in between, as it may in the
code; `Cleanup` and `Settle` each test `_closing` again. `HostStart` reads all
rows at once and `Load` judges them later against current leases. Either
process dies at any step (`HostCrash`, `WDies`); a crashed host keeps nothing
but the store, the files and its workers.

What is abstracted: the content of prompts, streams and results; session slots
(each task has its own session here); pruning; the snapshot serials, so that a
persist is one atomic write; the clock, of which only "the lease has run out"
and "the heartbeat is old" are kept. The claim and the request file of a
reservation are one step, since no worker exists yet. The branch for a refused
claim in `_run_in_worker_process` cannot be reached by one host and is left
out. Terminating a worker because its cancel flag cannot be written is covered
by `WDies`. A child that survives `terminate` is not modelled. The last
retirement of pending handles in `shutdown` is the same step as the thread's
own.

### Runs

| run | instance | properties | shows |
|---|---|---|---|
| `settle` | one task, three host incarnations, cancel and shutdown | `TypeOK`, `SettledVerdict`, `CancelWins`, `WriteFence`, `DeadWorkerSettles`, `CancelStopsWorker`, `ShutdownCompletes` | settled verdicts are final, cancellation wins, dead workers, cancelled workers and shutdown come to an end |
| `resume` | one submitted task and the id of its copy, two incarnations, auto-resume, cancel | `OneWatchedWorker` (`ResumedIsFenced` and `NoOrphanWorker`) | the worker of a re-queued task can no longer write; no live worker runs unobserved, but for one that was cancelled too early |
| `shutdown` | one task | `ShutdownLeavesVerdicts` | violated, see below |
| `verdict` | one task, two incarnations | `CommittedVerdictKept` | violated, see below |

Bounds: tasks interact only through the host's main thread and through
auto-resume, so one task shows every interleaving of one launch, and two ids
show a copy beside its original. Two incarnations suffice for adoption and
recovery; the third lets an adopted task be orphaned and adopted once more.
Deadlock is not checked because a host that has used up its incarnations stays
down. The two ids of `resume` are interchangeable (`Copies`), and its property is
an invariant, so the run takes them as one by symmetry: 2.8 million states.

Fairness: threads of a running host and of a live worker take their steps, and
a lease nobody renews runs out. The model's answer is not fair unless the
worker was told to stop, processes need not die, and hosts need not be started
again. A host thread is a pool thread that polls every 0.2 s with no wait on
another task, which is what `WF` on `Thread` says. The grace period of an abort
ends by itself (`AbortEnd`), as the code waits with a bound and then
terminates.

### Divergences the runs show

* `shutdown`: `_finalize_aborted_snapshot` finds the lease owner in the task's
  row, where it stands only after the worker's first flush. A worker
  terminated earlier leaves its row `running` after a clean shutdown, which is
  what the docstring says the function prevents.
* `verdict`: a worker that commits and releases its lease between the start-up
  query and the lease check has its `completed` overwritten by `interrupted`.

### Proofs

`WorkerExecution_proofs` proves, for any set of tasks and any bounds:

* `TypeCorrect`: `Spec => []TypeOK`.
* `FenceInvariant`: `TypeOK` and `WriteFence` are inductive.
* `SettledVerdictHolds` and `CancelWinsHolds` from it.
* `WatchInvariant`: `WatchFence` is inductive together with them.
* `OneWatchedWorkerHolds` from it.

All but the first assume `PromptStart = TRUE`: a spawned worker claims its lease
before the reservation's 45 s have passed. Without it a reservation could be
taken over while the worker is starting; the code has no other fence there.

`SettledVerdict` alone is not inductive: a settled row could be overwritten by
a worker that still holds its lease. `WriteFence` says that this never happens.
Its core is `Fenced`, stated with `MayWrite(t)` (the worker has, or will be
granted, the lease and the request it needs): when a thread reaches `settle` or
`settled` its worker may not write any more. To carry that through the steps
one needs where the thread is relative to `_detached_tasks` (`Ownership`), that
a reservation stands until its worker claims it (`Launching`), that an id not
used yet left no trace (`Untouched`), what the monitor can have ended with
(`Outcomes`), that a cancellation stays visible (`CancelKept`), and that the
start-up loop meets each row before any thread exists for it (`Loading`). The
proof has one lemma per action, and frame lemmas for the tasks an action does
not touch.

`OneWatchedWorker` needs what is known of a row while a worker may still change
it. A terminal row under such a worker is the trace of a cancellation
(`Watched`), and nothing else: a settled task is out of its worker's reach by
`Fenced`, and an interrupted one is marked only when its lease is free. Between
Popen and claim there is no lease to look at, so `Starting` keeps the request
file, the record and the row together there; and that a task which has a copy is
out of reach for good (`Copied`, `OutOfReach`) holds because nothing leads a task
back to its launch (`PassedOwn`) and only auto-resume makes copies
(`SourceStep`). One lemma per conjunct covers the steps of the task itself, one
all steps of others (`OthersSame`).

The exception in `NoOrphanWorker` came from this proof. Without it `Watched`
could not be shown for a thread between Popen and `_detached_tasks.add` (lines
2453-2492), where the host still writes the row: a cancellation is stored there,
the host dies, and the next one loads a terminal row, adopts nothing and leaves
the worker running for a task that is over for every user. The run `resume`
did not show it as long as nobody could cancel in it; with a cancel TLC finds
it at once when the exception is taken out. The proof shows that this is the
only way.

Only model-checked: the liveness properties and the two violations.

## TaskScheduler

One host in its threads: HTTP threads in submit, submit_batch and cancel, the
executor's threads, and a start and a watch thread per batch. A section under
`TaskManager.lock` is one step. `request_cancel` takes only the record's lock,
so a cancel is three kinds of step: the status and the token (`Cancel`), the
same for each child in turn (`CancelChild`), and the section that takes the task
out of its queue or gives a batch's slot up (`CancelDrops`).

| state | code |
|---|---|
| `kind`, `session`, `parent`, `kids` | `task_kind` with `orchestration_mode`, the session key, `parent_id`, `child_task_ids` |
| `status`, `token` | `TaskRecord.status`, `cancel_event`, whose parent is the token of `parent` |
| `row`, `known` | the status in the store, the keys of `TaskManager.tasks` |
| `queue`, `active`, `pool` | `_session_queues`, `_session_active`, futures waiting for a thread |
| `pc` | the thread of a task: `submitted`, `running`, `ending` in the executor; `starting`, `watching`, `stopping`, `merging`, `ended` for a batch |
| `toAdd`, `fresh`, `building`, `pending` | how far submit_batch is, `_batch_children_pending` |
| `kidsLeft`, `stopLeft`, `dropping` | calls of cancel in progress, by users, from a parent, by the watcher |

What is abstracted: one incarnation without shutdown (`WorkerExecution` has
both); the age limit of prune and the limit of 100 records in memory; failures
of the store and of `executor.submit`; token usage; contents of answers. The
watcher's poll is the step it leads to. Children have a session of their own
each, as their random session ids give them. The branch of
`_schedule_session_locked` for a queued task whose parent is cancelled is left
out: children are queued when their slot is free and start at once. Two
concurrent calls of cancel from the same kind of caller for one child count as
one call, because a second pass over an emptied queue changes nothing.

### Runs

| run | instance | properties | shows |
|---|---|---|---|
| `slots` | four tasks of one session and their children, one cancel, history of one record | `SchedulerInv` (the inductive invariant, with `TypeOK`), `SlotExclusion`, `NoDeadSlot`, `SubmittedOnce`, `DurableVerdict`, `FinalIsFinal`, `EverythingEnds` (`QueuedTaskEnds` and `BatchEnds`) | slots are exclusive and never lost, verdicts are final and stored, every task and watcher ends |
| `prune` | a batch and another task | `RetainedWithBatch` | violated, see below |
| `orphans` | a batch of one child, one cancel | `CancelReachesChildren` | violated, see below |

Bounds: four ids make a batch of two children with a task behind it, two
batches, or a slot, a full queue and two rejected tasks. `Room` keeps an id for
every child still to come. Sessions share only the executor, and each child is
a session of its own, so one user session is enough. One thread suffices
because ownership of a slot is a statement about each task, wherever it is
between queue and end; the same run with two threads (671 896 states) finds no
error either. A history of one record makes pruning meet running batches;
larger limits need more tasks for the same effect. Deadlock is not checked
because a scheduler without work rests.

Fairness: some step of the system happens whenever one can. Nothing in it runs
for ever once ids and cancels are used up, so this weak assumption suffices; it
says that chats and merges end, which time-outs and the round budget give.
Users are never obliged to do anything.

### Divergences the runs show

* `prune`: retention follows `child_task_ids` only from terminal rows. A child
  that ends early in a long batch can be deleted before the batch ends, and the
  watcher, which takes a missing child for an interrupted one (`SeenStatus`),
  then fails the batch. `EverythingEnds` holds because of that reading.
* `orphans`: a cancel during submit_batch sees only the children linked so far;
  those created later stay queued for ever.

Slots of batches: a cancelled batch gives its slot up at once, also when its
own run (an automatic batch after the hand-off) still executes. `SlotExclusion`
therefore excepts batches that have a verdict; cancelled tasks keep their slot until
their chat has ended. When a parent does not fit into its queue its children
stay queued; no document promises otherwise.

### Proofs

`TaskScheduler_proofs` proves, for any number of tasks, sessions, threads,
places in a queue, children and records of history:

* `SchedulerInvariant`: `Spec => []SchedulerInv`.
* `OneTaskPerSession`, `SlotsAreLive`, `SubmittedAtMostOnce` and
  `VerdictIsDurable` from it: the four invariants of the run.
* `TerminalIsFinal`: `Spec => FinalIsFinal`.

The assumptions are those of the module: the limits are natural numbers of the
code's kind, and a session that users share is not one of the ids that children
have as theirs.

The four invariants need each other, and these besides:

* `QueueWaits`: who is in a queue was never started and is in it once; else a
  dispatch could start a task a second time.
* `SlotOwned`: a slot is held by a task of its session, and a batch about to
  start is known as long as it has its slot; else its early return would leave
  the slot behind.
* `BuildWaits`, `KidsWait`: a batch under construction and the children of a batch
  that has not started are at rest, and a child has one parent. So the start of
  a batch finds children it may queue, each in a slot of its own.
* `VerdictsHeld`: a row is terminal only with the verdict in memory, a thread that
  leaves has given one, and so has a cancel that waits for the lock. This
  is what makes it safe that `request_cancel` works without `TaskManager.lock`.
* `Numbered`, `OwnSessions` and the types.

The proof takes a step apart by what it changes and not by action: `FrameStep`
says what no step does to tasks, verdicts and rows; `SlotsStep` how slots, queues,
pool and threads move, which are four kinds of movement (leave, drop, queue,
start of a batch) with a lemma each; `LinksStep` how ids and children are given
out. The conjuncts of the invariant follow from these three alone.

`Only` and `InOrder` keep the order of a queue or a list of ids. That an
ascending enumeration exists for every set of ids is an induction over its
maximum, which the library's theorems cannot express here (they take the
property as an operator); `CanBeOrdered` therefore takes the least maximum for
which there is none (`Least`), by the well-foundedness of strict inclusion of
finite sets.

The proof made one property stronger: `DurableVerdict` once let the row
of a task with a cancel under way differ from its status. It now says that they
agree whatever is under way.

Only model-checked: `EverythingEnds` and the two violations.

## The service around a task: run `service`

| part | instance | properties |
|---|---|---|
| `SnapshotWriter` | one record of three versions, two callers, drain thread and close, one failing upsert | `NothingPassedOver` (`CleanCheckpoint` and `NothingForgotten`), `RowsMoveForward`, `KeepsPromise` |
| `EventStream` | three pieces of output, windows of two, one lost connection, one restart, one reconnect before polling | `PageIsFaithful` (`NoSplice` and `CursorIsReceipt`), `VerdictComes` (`PageLearnsVerdict`) |
| `TaskRun` | two changes of the workspace, every limit at one | `CompletionIsVerified`, `VerdictComes` (`TaskEnds`) |

`PartsInv` is the inductive invariant of each part's proof: `WriterInv`,
`StreamInv` and `TaskInv`, each of which begins with the types.

### SnapshotWriter and DurableRecords

A save is popped, hashed, read, compared and stored; each is a step, since only
`lock`, the record's lock and `_snapshot_write_lock` are held in turn. `pending`
is `_pending` by key, `batch` the local list of the drain thread and of
`close()`, `serial`, `mark` and `committed` the serials of
`_write_task_snapshot`, `checkpoint` the revision the stored digest belongs to.
`close()` joins the drain thread for six seconds, so it may take its list while
the thread still works.

`DurableRecords` says what all this is for: the row of a record only moves to
later versions, and what a caller asked to be saved lands. `KeepsPromise` is the
refinement, with `version`, `due` and `row` mapped to themselves and `excused`
to the records that belong to a worker, that `close()` reports as lost, or that
were put back after `close()` had taken its list. The last kind is a gap of the
code: nobody tries such a record again and nobody reports it. `due` is history:
the version at the time of `enqueue` or `flush`. `RowsMoveForward` is the half
of the promise that needs no fairness: `DurableRecords` without its liveness.

One record is enough: records share only the write lock, and the list of the
drain thread is gone through one by one. Two callers and two threads make three
saves overlap.

### EventStream

Output is numbered by position, so a text is a sequence of numbers and splicing
shows as a step that is not one. The worker's row, the mirror's `last_offset`,
the record, the log with its sequence numbers, the cursor of the handler and the
page's cursor and data are the variables. A restart of the host builds the
record from the row and starts the log at the row's `event_cursor`, as
`from_snapshot` does; the page then meets a log that may be behind its cursor.
A pass of the mirror publishes several events one after the other under the
record's lock, and a reader waits for that; they are one `Publish` of a sequence
here. Its new items are those of the row's window that the record does not have
(`NewItems`), in the order of the row.
`CursorIsReceipt` is claimed of one incarnation for that reason: after a restart
equal cursors may mean different events, and only the verdict is sure to arrive
(`PageLearnsVerdict`). Pages that reconnect, heartbeats and the deadline of a
stream are `Break` and `Reconnect`.

### TaskRun

`_chat_locked` from its first call of `run_agent` to its verdict. One call is
one step whose outcome, trail of evidence and edit are free as far as
`AgentLoop` allows. `listed`, `red`, `verdict`, `skipped` are what
`_enforce_completion_evidence` derives from the events; `wroteAt` and `passedAt`
are history. The user may edit the workspace at any time; the verifier notices
when that happens while it runs, and nothing in the code promises more, so
`CompletionIsVerified` speaks of the task's own writes.

Fairness: `WF` on `ServiceSystem` says that the threads of writer, stream and
task go on as long as they can. Nothing obliges callers to change records, hosts
to crash or connections to break, and the faults are bounded, since an endless
series of failed upserts or connections promises nothing. The code has no wait
without a bound in these parts: the drain thread polls, a stream has a deadline,
a call of the agent and a verification have budgets and time-outs.

## The agent and what it talks to: run `agent`

Where two modules speak of one promise the run has one property with a clause
for each, named in brackets.

| part | instance | property |
|---|---|---|
| `SessionLocks` | three requests of two sessions, a table of one | `IdleIsEvictable`, `CutBack` |
| `Approvals` | three calls with the same preview | `AnswerIsKept` (`AnswerIsFollowed`, `PermitIsFresh`) |
| `WorkspaceRollback` | one file, two editors, four contents | `UserWorkKept` |
| `SubAgents` | two runs, nested or side by side, two slots, two units of spend | `SpendFolded` |
| `PermissionGate` | five kinds of calls, three rule files, one edit of the rules, two calls that ask | `PermittedIsGranted` |
| `HookRunner` | up to two of five kinds of entries, three events, a common deadline of two units | `PartsInv` (`VetoHolds`) |
| `AgentLoop` | two edits, three kinds of rounds, every limit at one | `AnswerIsVerified`, `NoBlindEdit` |
| `PlanGraph` | every graph of three nodes, one retry, waves of two | `OnlyOnCompleted` |
| `Verification` | two files, one of them changed by the task, at most one a link, secret or large, one of them edited, two calls | `PassIsCurrent` |
| `EvidenceGate` | two checks, a trail of three, a packet of two | `CertifiedIsProven` |
| `RunModels` | four deployments, five requests, two recoveries, one repair, one continuation | `ServedAndCounted` (`ServedByItsStage`, `AccountsAgree`) |
| `BackgroundShells` | two commands of three pieces, one of them louder than its ring of two, one at a time, polls show one piece | `OutputIsTold` (`NewOutputOnce`) |
| `ForegroundCommand` | two pipes of two bytes, a cap of one | `OutputIsTold` (`ResultIsTold`) |
| `McpClient` | two chats, three requests | `AnswerIsOwn` |
| `McpServers` | a local and a remote server, three tools, two redirects, two passes | `PartsInv` (`ServersInHand`) |
| `ProviderChat` | texts of up to three letters over two, two efforts, one retry | `OutputIsTold` (`AnswerIsWhole`) |
| `AnthropicChat` | histories of up to four messages, two pieces of text, three tool blocks, two ids, one retry | `TalkIsWhole` (`RequestAnswered`) |
| `Conversation` | up to six messages, two call ids | `TalkIsWhole` (`NeverRefused`, `CutsAreWhole`) |
| `GuardedEdits` | one file, four contents, room for one backup | `PartsInv` (`ReplacedIsKept`) |
| `SharedFiles` | two processes, three additions, a catalog of two | `EntriesKept` |
| `EvidenceIndex` | one path, two contents, records of age two, two ticks | `ToldIsCurrent` (`IndexIsCurrent`) |
| `ChangeSummary` | one tracked and one ignored file, three commits, one shown, one move of HEAD, failures before it | `ToldIsCurrent` (`SummaryIsCurrent`) |

The run has 1.2 million distinct states. Only safety is claimed here, so no fairness is assumed. Deadlock is not checked
because every part comes to an end. `PartsInv` is the inductive invariant of each
part (`LocksInv`, `AsksInv` and so on), which has its types, and for `HookRunner`,
`McpServers` and `GuardedEdits` also the property named in the table. The first four parts were also checked on larger instances
without errors: four requests (76 756 states, the instance of the run
`exclusion` as well), two previews (461 984 states),
three runs with one unit of spend (3.8 million states).

* `SessionLocks`: A request is handed the lock of its session from a bounded
  table, waits for it in slices, marks the key as used, runs and releases. The
  two marks belong to the key, as in the code, and a request keeps the lock
  object it was handed. An entry goes only when it is not locked, not in flight
  and was held before, so a mark that is left behind would keep its entry for
  ever. `IdleIsEvictable` says that no mark is; `CutBack` that the next hand-out
  then brings the table back to its bound, unless every entry that is left has a
  request in progress.
* `Approvals`: A call opens a prompt or joins the open one of an identical call.
  Answer, deadline, cancellation and shutdown meet under `_approval_guard`.
  `AnswerIsFollowed` is what the user relies on when the page says "resolved";
  `PermitIsFresh` that nobody passes on the answer to an earlier prompt.
* `WorkspaceRollback`: Contents are numbered and a digest is the content. The
  user may edit at any time, also between a comparison and the write it permits;
  `UserWorkKept` excepts exactly that window (`excuse`) and snapshots without a
  journal, which `RestoreSparesEdits` does not except.
* `SubAgents`: The payload and the budget of a fold belong to the thread of the
  run, which matters as soon as a child runs sub-agents or two run side by side.
  `slots` may start below its maximum because other sessions share it. A child
  whose thread outlived the wait for it (`late`) is excepted, as its spend is
  not known when the parent folds.
* `AgentLoop` has every guard of the loop in its order: duplicate, recovery,
  permission, breaker and memo before a call; the writing phase before the
  reading phase; merge, stagnation and probe after; and for a text answer the
  non-terminal, recovery, soft-limit and verification guards. The workspace is
  one file that counts its versions. `version` is compared with `memo` as the
  code compares file identities. The cycle detector may fire at any time; how
  it recognises longer cycles is data. `Nudges` bounds how often a behaviour
  asks the model again, in the instance and not in the module.
* `PlanGraph`: a graph has no cycle when its nodes can be given depths
  (`Deeper`), which is what the queue of `DAGPlan.validate` computes. `Held` looks once per wave, as the code does; see the
  divergence below.
* `BackgroundShells`: output is numbered, a descendant may keep the pipe open
  after the shell has exited, and a kill is two sections with the reader and
  polls in between. A poll takes all that is behind the cursor and shows both
  ends of it (`BothEnds`, which is `split_output`): the middle of a long one is
  never returned by a later poll that asks for what is new, only by one from the
  start, whose answer is cut in the same way. `hidden` is what was left out of
  an answer that says `truncated`. `NewOutputOnce` therefore promises no more
  than that nothing comes twice and that what was not returned was left out of
  such an answer or dropped by the ring. Of the latter an answer tells only in
  `dropped_bytes` of its data. What is shown is counted in positions of the
  output; decoding, and output that is only white space, are left out.
* `McpClient`: one server, one queue. An answer that somebody else takes is
  dropped, and its owner fails at its deadline; `AnswerIsOwn` says it never gets
  a foreign one, late answers included.
* `ProviderChat`: a text is a sequence of letters, so that overlaps occur by
  accident as they do in real text. Gateways send increments or snapshots, the
  latter recognised after `Streak` fragments. What was shown for a request is
  the answer or nothing, except where snapshots were taken for increments at
  first and the text was replaced once they were recognised (`rebased`). The
  model starts `shown` anew when the protocol falls back; that the code then
  shows text twice is listed as a hazard.
* `Conversation`: `Waiting` is what `tool_round_walk` yields at a position. Call
  ids return in later rounds, which is where cuts go wrong.
* `PermissionGate`: the rules are looked up through a cache that is keyed by the
  stamp of their file. The veto of the loop looks up to three times: whether the
  file can be read (`Veto`, `policy_evaluation_error`), for a rule on the call
  (`MatchRules`, where `match_permission_rule` drops the error), and for a call
  that reads every path for a rule on any (`MatchPaths`). The gate looks twice
  again (`Authorize`, `Decide`). The user may rewrite the file between any two
  looks. A call that is denied at every moment can so get by: its rule stands
  at the first look, which asks for errors only, and at the second the file
  cannot be read and counts as empty; or, for a call that reads every path, a
  rule on paths becomes one on the call itself between the second and third.
  `torn` marks such a turn and the property excepts it, and nothing else; the
  docstring of `tool_denied_by_rule` (`audit.py:179`) promises more. A file
  whose `stat` fails loads like one that is not there (`RuleFiles` are the files
  as they are loaded). Three faces (web, terminal, a node of a plan) ask the same
  policy, and only some of them ask the user. A deny rule that is added while a
  prompt waits does not stop the call that is then approved; the property
  excepts it. The lock of `add_session_rule` is one per process, so the terminal
  may clear the list between read and write of the web service (`raced`).
* `HookRunner`: the calls of a run are asked one after the other. A strict hook
  that refuses, fails or hangs stops the call, unless the common deadline of the
  event is used up before it starts: later hooks then pass, and a hook file that
  does not parse disables every hook without stopping anything. Both are what
  the code does, and `VetoHolds` says so.
* `Verification`: files are hashed one after the other while the workspace
  lives; the memo answers for files the task did not change. In the walk
  secrets, links and large files count by their signature; a file that cannot
  be read, or changes under the hash, counts as nothing. Both forbid remembering
  the pass, as does a walk that ends early (`StopWalk`, the return at
  `verification_plan.py:200`). A file in a directory that cannot be listed
  counts as nothing and forbids nothing. Of the changed files, which follow, a
  link or a large one counts by its signature and an unreadable one by its name
  (`Identity`, `EndScan`), and neither may be remembered. `PassIsCurrent` speaks
  of what is `Vouched` for: read, or counted by a signature that no edit
  escaped. Of a pass that may be remembered, and so of every one that is
  replayed, that is every changed file. The model does not tell why a part is
  missing: a part that was stopped, lost or not listed is 0. Simplified: the
  changed files are read in one step, no file becomes a link or large on the
  way, `.minicc/verification.json` (read beside the changed files, but not after
  an early end) is left out, and contents do not return, so an edit that is
  taken back between the scans, which the code cannot see, is not among the
  behaviours.
* `EvidenceGate`: whether a citation matches an event is a comparison of text
  and becomes the choice of an event that exists or of none.
* `RunModels`: the budget in money is that of planning; the limit of the repair
  stage is never applied, and a turn of a fallback model is priced at the model
  of its route. When the judge trips the budget its own usage is left out of the
  account. Fallback models are not checked for credentials before they are
  tried, and are given as the places of the lists that name them
  (`Offers`) in their order. `tripped` and `strayed` mark these for `AccountsAgree` and
  `ServedByItsStage`.
* `ForegroundCommand`: output of a pipe whose reader has to be left behind may
  be partial without saying so, and a group whose leader has exited is not
  killed. Read errors of pipes are left out.
* `AnthropicChat`: the history is kept only until it is converted. A stream that
  ends without `message_stop` counts as complete, as in the code.
* `McpServers`: the JSON body of a remote answer is taken without looking at
  its id, and session ids are left out. A tool whose name is too long, or the
  same as another's when folded, gets a name that ends in a hash, taken here as
  the full name itself. A name may lead elsewhere in a later discovery. A
  client that is given up although it is from an earlier discovery is not
  closed and its process lives on; `ServersInHand` excepts these (`dropped`).
* `GuardedEdits`: an edit of the user between comparison and write of one call
  is the window no digest closes, and is excepted (`raced`).
* `SharedFiles`: the byte is taken before the file is read and given back after
  the swap. Whoever does not get it refuses to write a memory and writes the
  catalog all the same; a catalog that cannot be read counts as empty. Both
  cost folders, which the comments of the code accept, and `EntriesKept`
  excepts them (`loose`). Lines of the memory are the user's to delete; that a
  neighbour who has read before writes such a line back is not excluded.
* `EvidenceIndex`: the walk is one step, then files are read one by one. It
  passes over what is in a directory that cannot be listed, without a word
  (`iterdir` at `retrieval.py:646`, `os.walk` at 652 has no `onerror`), so a
  complete census is complete for the directories that could be listed
  (`listed`, `openAll`) and not for the workspace. A change
  that leaves the signature of a file as it was is found when the record is
  too old; the property bounds it by that age. Files of guidance come before the
  budget (`Guidance`, none in the instance).
* `ChangeSummary`: every save gives a file a signature of its own. Every call of
  git may fail or time out, and so may the audit trail, a `stat` and the reading
  of a file. A failing status is an empty list, a failing `rev-parse` looks like
  a repository without commits, a failing `stat` or audit trail leaves its part
  out: nothing says so, and a quiet workspace is told wrongly. The property
  excepts that request (`troubled`) and shows that the next one is right again.
  Counts are kept, though: those that lack one because numstat or a read failed,
  and those taken across a move of HEAD or of a file that was gone when signed
  and back when counted, are served as long as their fingerprint fits; the
  property excepts them (`spoilt`). The index of git is left out, so what
  `numstat --cached` gives in place of a failed numstat is nothing here. In the
  instance a request goes wrong only before HEAD moves, and not where counts
  did (`OneWrong`).

### Divergences the runs show

* `plan`: `FailuresSkipChildren` is the docstring of `execute_dag`. In a chain of
  three nodes whose first fails, the second is skipped and the third is neither
  skipped nor ready; the plan stops with "DAG 调度停滞", which escapes the
  planning step and fails the task.
* `exclusion`: the docstring of `_session_lock` says that evicting an entry that
  is handed out and not yet taken would end the mutual exclusion of a session.
  It happens, because the mark "in flight" is one per key. With one request of
  a session running, a second is handed the same lock and waits. The first one
  had taken the mark off when it acquired the lock (`MarkUsed`); when it
  releases, the entry is unlocked, used and not in flight. A hand-out to another
  session may evict it before the second request takes it, and a third request
  of the session is then given a new lock and runs beside the second. A waiter
  that gives up (`GiveBack`) has the same effect.
* `restore`: `RestoreSparesEdits` is the docstring of `restore`. A task that ends
  after `capture` and before its journal is made (it waits for its session lock
  in between) leaves a manifest without `touched`; the roll-back then compares
  nothing and overwrites what the user wrote since.

## Proofs of the service's and the agent's parts

Each proof has one lemma for the initial states, one per action or per group of
actions, and a theorem that joins them. All of them hold for every value of the
constants under the assumptions the modules name: the bounds are natural
numbers, sets that are counted are finite, and names that stand for "nobody" are
not in the sets they are told apart from. TLC evaluates these assumptions in
every run.

* `Service_proofs`, the snapshot writer. `NothingForgotten` is not inductive: it does not say
  that the thread that holds a record read the version that was asked for.
  `WriterInv` adds who carries a due version (`Carried`: the table, a list of
  the drain thread or of `close()`, or a thread whose copy is new enough), that
  serials order the copies (`InOrder`: a higher serial has seen at least what a
  lower one has, which is why the serial is drawn before the read), that one
  thread stores at a time, and that `close()` has no list before it has stopped
  the drain thread. `RowsOnlyMoveForward` maps each step to a step of
  `DurableRecords` or to a stutter.
* `Gates_proofs`, the locks. `IdleIsEvictable` is the end of a chain: each lock
  belongs to one key (`OneKey`), is held only by a request that will release it
  (`HeldByActive`), a key is in flight only while a request will take the mark
  off (`InFlightIsActive`), and an entry is marked as used or a request that
  holds its very lock is on its way to do so (`UsedOrComing`). The last one
  has to speak of the lock object and not of the key, because an entry may be
  evicted and made again while an old holder still runs.
  `CutBack` counts: of the n oldest entries of a table there are at least n
  (`OldestAreMany`), so what `Victims` picks is everything that can go, or
  enough. That needs no induction over the table. If some n were wrong there
  would be a least such n, and one more entry than for its predecessor is the
  oldest of those left.
* `Gates_proofs`, the prompts. The answer is what is left in the prompt
  (`AnswerStands`), nobody takes a verdict before that (`NobodyEarly`), and
  those who wait when it comes are those it is for (`AudienceWaits`).
* `Files_proofs`, the roll-back. Whenever somebody may write over the file, or
  will be let to, what the user saved last is in the preimage
  (`PreimageHasWork`), which needs that the manifest agrees with itself
  (`ManifestAgrees`) and that one editor at a time is past its comparison
  (`OneAtWork`).
* `Files_proofs`, the editor. Past its comparison a call expects the file as it is,
  and once it has copied, the file is in the backups (`CopyComesFirst`); that the
  newest copy survives the pruning is a lemma (`PrunedKeeps`).
* `Files_proofs`, the shared files. Only the holder of the byte reads and writes,
  but for a loose catalog (`ByteIsHeld`), so what it is about to put in place has
  all that the file has (`SwapIsSafe`): the memory at least as much, since the user
  may strike lines out meanwhile, the catalog exactly the same. How a folder is put
  in front of others does not matter for that, and is not expanded: it filters a
  sequence, about which nothing can be proved here without induction. For the same
  reason the proof takes the types of the memory only.
* `Agent_proofs`, the agent loop. A text answer leaves through guards that test
  what the loop believes (`verify`, `inspected`), while the property speaks of the
  file. `EditIsGuarded` ties the two: as long as the run is not over, an edit of its
  own leaves `verify` set or has been proven since. It excepts a round in which an
  edit has just run, since a check beside it must not count before the merge;
  between rounds there are no calls (`RoundIsOpen`), so nothing slips through there.
  `LookIsOfFile` does the same for looks: what is remembered is never newer than the
  file, and what was read or inspected is the file as it is. `LookComesFirst` is the
  case of recovery: who has not looked is recovering, and then no edit of the round
  was let through, which is all `NoBlindEdit` needs.
* `Agent_proofs`, the MCP client. An id belongs to one chat, none is above the
  counter, and answers on the way are to ids that were sent (`IdsAreOwn`), so a
  late answer is never that of a later request. `OneStart` and `NobodyServed`: a
  process is started once, by the chat that holds the lock, and nobody is past
  discovery before there is a client, so no failure of another chat can mark the
  server dead while it is being started.
* `Agent_proofs`, the sub-agents. A run that folds has its child's budget in its own thread
  and nothing else (`OwnBudget`), and what it has reported stays true
  (`Settled`). `SlotsKept`: slots and runs in progress together never exceed
  the limit.
* `Service_proofs`, the event stream. `RecordIsWindow`: the text of the record is
  the window of the output that ends at `last_offset`, and so is that of the page
  at its own length; that appending the part of a later window to an earlier one
  gives the later one, or skipping to it does, is `GrowWindow`. `LogIsConsecutive`:
  the log is the numbered end of what was published, its texts are such windows
  and none is ahead of the record. These two give `NoSplice`, and hold across
  restarts. For the receipt, `PageIsBehind` says of the host's first life that the
  last event of each kind in the log says what the record says (`LogIsCurrent`),
  and that what a page without a gap does not show is carried by an event after
  its cursor (`RestIsAhead`). A pass of the mirror keeps it because whatever falls
  out of the log before the page's cursor is not ahead of it, and whatever the pass
  changes is said by an event it publishes (`MirrorFact`, `PublishFact`); an event
  that is delivered keeps it because a later one of its kind says more. With the
  newest cursor nothing is ahead, so the page shows the record. The sequences need
  no induction: `Newest` is a `SubSeq`, and the window of an interval is given by
  its ends.
* `Service_proofs`, the service. The three parts keep their invariants side by
  side (`ServiceInvariant`).
* `Service_proofs`, the turns. A task that wrote comes to its review only over a
  verification that started after its last write, or that found nothing to run
  (`ReviewIsVerified`); which turns lead there does not matter.
* `Gates_proofs`, the permission gate. Whoever looks the rules up gets those of
  the file, because an edition never returns and the cache is of an earlier one
  or right (`CacheIsRight`). Behind the veto no deny rule has stood all the time
  (`VetoIsPast`), unless the rules turned over between its looks: each look leaves
  what only a later one can refuse, a rule on the call to the second and a rule on
  any path to the third. What the policy passed or asks about is within the mode and
  the grants (`WithinGrants`); the list holds nothing the user did not say,
  unless a clearing was overwritten (`ListIsSaid`), so what it passes was
  granted (`SessionIsGranted`). The proof needs that every call is read-only,
  writing or executing: one of another risk would pass in plan mode.
  `GateAssumption` says so, and the registry refuses to register a tool of any
  other risk (`tools/registry.py:403`).
* `Gates_proofs`, the hooks. Every hook the runner is past let the call pass as
  long as nobody refused (`AllPassed`); those ahead are not heard; time comes
  off the deadline until nothing is left (`TimeIsTaken`); and the file is taken
  over entry by entry before the first event, or not at all (`FileIsTaken`).
* `Gates_proofs`, the completion gate. `CertifiedIsProven` is about what happened
  (which checks last failed, what came after the last write), the reviewer's rules
  about events of a trail, picked by their places. `TrailIsTold` says that the two
  agree: the newest run of a check is its last outcome, and an observation behind
  every write is the best evidence there is. A certificate is then what the rules
  let through.
* `Agent_proofs`, the plan. A node of a wave has all its dependencies among the
  completed, and so had every node that was tried (`PlanInv`). `OnlyOnCompleted`
  is about all a node needs, however far back: the completed nodes are closed
  under dependencies (`CompletedIsClosed`), so they contain the least closed set.
  That a graph with depths has no cycle (`ValidHasNoCycle`) uses the set of nodes
  less deep than a node: it is closed, and does not have the node.
* `Agent_proofs`, the run. While a task is at work both providers are open and the
  model is one its stage names; every token of the budget is counted or kept for
  the end (`unfolded`), but for the judge that trips the budget; and the two
  accounts of costs part only when a fallback serves (`RunInv`). The step that
  needs most is the repair, which keeps the model of planning when both stages
  are routed to the same: then their fallbacks are the same too (`SameRoute`).
  That a turn of fallbacks is taken from a list of models is `FallbacksFact`.
* `Chat_proofs`, the shells. A ring is a window of the output: its i-th piece is
  piece `dropped + i` (`Window`), also after a chunk is appended and the front is
  dropped (`WindowGrows`, `WindowMoves`). What a poll takes is then exactly what
  lies behind its cursor (`WindowTells`), and what was returned before lies in front
  of it (`ShellsInv`), so nothing comes twice. It returns both ends of that and,
  if it left anything out, said so (`EndsTell`).
* `Chat_proofs`, the commands. `CommandInv` follows one byte count per pipe: what is
  kept is what was read, or the cap and the pipe is marked (`overflow`); a pipe nobody
  reads any more was read to the end and has no writer, which is what `whole` needs
  when the reader is joined; and a code says how the process ended.
* `Chat_proofs`, the index. A record has a body no later than its signature unless
  the file was edited under the same one, and was read no earlier than its age is
  counted from (`RecordInv`); so a record that is reused is current, or blunt and
  young. `WalkInv` says of the records of an unfinished walk what `IndexIsCurrent`
  says of the finished one, and that no file behind the walk lacks one that was
  listed.
* `Chat_proofs`, the list of changes. A signature stands for one text, since
  every save has its own. `CachedInv`: the cached counts are those of the text
  that was signed, or that text is gone for ever, and then no later fingerprint
  equals theirs (`CacheIsDue`). While nobody works on and nothing fails, the list
  and the signatures of a request are those of the workspace, so counting gives
  what is there (`CountIsDue`); a failure stays in the request it struck, or marks
  the counts it leaves behind.
* `Chat_proofs`, the provider. Whatever is put together of the text of the model is
  a beginning of it (`Said`): of two beginnings one is a beginning of the other
  (`BeginningsCompare`), so what `Suffix` finds new in a retry is what follows
  (`SuffixOfText`), and what is kept never goes back behind what an attempt has
  received (`ChatInv`). A gateway that sends snapshots is known as one only after a
  streak; the property speaks of it from then on, and of increments unless they
  were taken for snapshots (`rebased`), where the code itself gives up the promise.
* `Chat_proofs`, the Anthropic provider. The turns of a history are followed message
  by message (`Conversion`): what was said so far is in the turns or among the
  results that wait, in its order (`AllHeld`, `InLine`), each round is followed by its
  results or still waits for them (`RoundsFit`), and only beside results one role
  speaks twice (`RolesAlternate`). What waits is what `Accepted` says is owed, so at
  the end nothing is (`AcceptedFits`). Of one more names than are taken one is free
  (`FreeNumber`, by counting), so calls get ids that differ (`IdsDiffer`). Attempts
  are counted per channel (`WireCount`).
* `Chat_proofs`, the manager of MCP servers. A name that a tool gets is not taken
  (`FreeNameFact`), so those of a list differ step by step (`SpecsUnfold`). A
  discovery has tools of the servers behind it only (`SpecsBehind`), which is why
  giving up the server it is at leaves none of its tools; only a discovery has
  started servers of its own (`FreshOwn`), so a pass that only collects context
  closes none; and a process has a client, or one that was given up
  (`ProcessesHeld`).
* `MCAgent_proofs`, the chat. `MCAgent` moves each part only by the part's own actions
  and starts it in one of its initial states (`ChatRunsShells` and its like), so the
  theorems about the parts hold of the composition that the run checks
  (`OutputsAreTold`, `ToldIsAlwaysCurrent`, `TalkIsAlwaysWhole`, `ChatIsSafe`), and all
  inductive invariants hold side by side (`PartsAreInvariant`).
* `Files_proofs`, the histories. What is held or stored can be mended: a result
  answers a call that waits for it, and only the assistant calls (`Mendable`). What
  a run works on is `Clean`: each round is answered before the next message, but for
  the last. A cut keeps both (`KeepFacts`), the boundary of a compaction lies before
  the call of each result that is kept (`BoundaryFact`), results close a round
  (`ResultsClose`), and the repair turns what can be mended into what is clean. The
  lists are flattened from pieces; `FlattenSteps` leads from one piece to the next,
  and `Climb` goes that way: a set of places with 0 and with the next of each has them
  all, since the places that lack would have a least one (well-foundedness of the
  naturals, which needs no operator as a parameter).
* `Gates_proofs`, the verifier. Contents only grow, so it is enough to know in
  which order they were read. The memo is right about files no edit escaped
  (`StampTells`, `MemoIsRight`); a scan has them as this call read them
  (`ScanIsTrue`) and nothing of what it has not come to (`NotYetRead`); the
  commands ran between the scans (`RunIsBetween`), so when the second agrees
  with the first they ran on what was read; and a remembered pass was earned on
  what its identity says (`PassesAreTrue`). A scan fit to be remembered has read
  every changed file (`FitIsRead`), which is why a replayed pass needs no stamp
  to vouch for those. `NotYetRead` is what the first
  attempt lacked: a file that changes while it is hashed leaves its place as it
  is, which has to be empty.

Working on the proofs corrected the models in one respect. Several
definitions had `CASE` expressions with guards that overlap
(`WorkspaceRollback.AsExpected` and `MissingTrusted`, `TaskRun.Route`, and
three in modules without proofs). TLC takes the first guard that holds, but the
value of such an expression is not determined, and no step could be proved that
depends on it. They say now in which order the code tests them.

Definitions that were recursive or folds say now what the recursion computes, or
are recursive functions (`Conversion` and `IdsAfter` of `AnthropicChat`,
`McpServers.SpecsAfter`): `PlanGraph.Deeper` and `Needs`, `RunModels.Fallbacks`, `Waiting`, `KeepThrough`,
`Boundary`, `Repaired` and `Those` of `Conversation`. TLC found the old and the new
ones equal on every graph of up to four nodes, on 26000 deployments and on every
history of up to five messages. Where a proof needs that a set of places has a first
or a last one (`FirstExists`, `OutcomeIsLast`), it takes a minimal set of those
before each, as `CanBeOrdered` does.

Only model-checked: the liveness properties, thus the other half of
`KeepsPromise`, and the violations. Every other property of a passing run is a
theorem, those of `WorkerExecution` but `TypeOK` under `PromptStart`.

## Bounds

Every bound is a constant of a module, marked "bound" where it is declared; the
others are the code's own limits, made small. Small limits make the interesting
cases happen: a window of two is left behind by three pieces of output, a table
of one evicts with the second session, a limit of one is reached by two
failures. Two of a kind show overlap; three show a third party that comes
between (calls at one prompt, requests for one lock).

## Not modelled

* Text: prompts, wording, parsing and classification of commands, ranking,
  summaries, patterns of rules, redaction, diffs. They are functions without
  state, and a property of them would be a property of strings.
* Message ids, lineage and views of `session.py`: a save reads the file before it
  takes the sidecar for the swap, so between processes there is no promise
  beyond the last writer (`Conversation` has rewinds at any time).
* HTTP routing and the editor RPC: calls with a time-out and no state that
  another thread shares. Worktrees are git commands one after the other, the
  impact of a change a function of the tree.
* A restart of the scheduler with several tasks: `WorkerExecution` has restarts
  for one task, `TaskScheduler` has several tasks without one.
* Text shown twice by the fall-back of a broken Responses stream
  (`openai_provider.py:742`) is listed as a hazard and not stated as a property.
* Command line, configuration, benchmarks, front-end rendering and the
  editor extension: `PROJECT.json` gives the reason for each.

The modelled lines are control; most of the source, in particular of `web.py`,
`loop.py` and `config.py`, is wording, events for display, parsing and wiring,
which no definition stands for.

What is proved is listed under `WorkerExecution`, `TaskScheduler` and above;
liveness stays with TLC everywhere.
