--------------------------- MODULE WorkerExecution ---------------------------
(***************************************************************************)
(* Process execution of tasks (MINICC_TASK_EXECUTOR=process): the web host *)
(* (task_manager.py) reserves a lease in the SQLite store (task_store.py), *)
(* spawns a worker process (task_worker.py) and mirrors the rows the       *)
(* worker commits until it can settle the task.  Host and worker are       *)
(* separate processes that share only the task row, the lease row and two  *)
(* files: the request the worker consumes and the cancel flag it polls.    *)
(* Either of them may die at any step; a new host incarnation adopts what  *)
(* still holds a live lease and marks the rest interrupted.                *)
(*                                                                         *)
(* A task is launched at most once (a retry gets a fresh task id), so      *)
(* "launch" names the random lease owner handed to its worker and          *)
(* "recovery" the owner auto-resume uses.                                  *)
(***************************************************************************)
EXTENDS Naturals, FiniteSets

CONSTANTS
    Tasks,       \* task identifiers
    NoTask,      \* the source of a task that is not a resumed copy
    MaxStarts,   \* bound: incarnations of the host
    MaxSubmits,  \* bound: tasks submitted by the user
    Requests,    \* bound: what the user asks for, of "cancel" and "shutdown"
    AutoResume,  \* MINICC_AUTO_RESUME_ON_START
    PromptStart  \* a spawned worker claims its lease within the 45 s TTL

ASSUME NoTaskAssumption == NoTask \notin Tasks
ASSUME BoundsAssumption == MaxStarts \in Nat /\ MaxSubmits \in Nat
ASSUME RequestsAssumption == Requests \subseteq {"cancel", "shutdown"}
ASSUME SwitchAssumption == AutoResume \in BOOLEAN /\ PromptStart \in BOOLEAN

VARIABLES
    row,       \* the durable task row
    lease,     \* the durable lease row
    beat,      \* heartbeat_at_epoch of the worker's last row is under 45 s old
    request,   \* the request file exists
    flag,      \* the cancel flag file exists
    host,      \* what the host's main thread is doing
    starts,    \* host incarnations so far
    todo,      \* tasks the main thread has still to visit (start, shutdown)
    rec,       \* status of the host's in-memory TaskRecord
    cancelled, \* TaskRecord.cancel_event
    detached,  \* TaskManager._detached_tasks: the worker owns the row
    adopted,   \* the monitor has no process handle (_reconnect_worker)
    pc,        \* where the host's thread for the task is
    seen,      \* the row that thread read last
    outcome,   \* what the monitor loop ended with
    wpc,       \* where the worker process is
    wstat,     \* the verdict the worker wants to commit
    wcancel    \* the worker's cancel_event

storeVars  == <<row, lease, beat>>
fileVars   == <<request, flag>>
mainVars   == <<host, starts, todo>>
threadVars == <<rec, cancelled, detached, adopted, pc, seen, outcome>>
workerVars == <<wpc, wstat, wcancel>>
vars       == <<storeVars, fileVars, mainVars, threadVars, workerVars>>

Active   == {"queued", "running"}
Terminal == {"completed", "failed", "cancelled", "interrupted"}
Statuses == {"none"} \cup Active \cup Terminal

Rows   == [status: Statuses, owned: BOOLEAN, resumed: BOOLEAN,
           source: Tasks \cup {NoTask}]
Leases == [owner: {"none", "launch", "recovery"}, live: BOOLEAN]

NoRow   == [status |-> "none", owned |-> FALSE, resumed |-> FALSE,
            source |-> NoTask]
NoLease == [owner |-> "none", live |-> FALSE]

\* Host threads that have nothing left to do for their task.
Idle == {"none", "loaded", "settled", "left"}
Pcs  == Idle \cup {"admitted", "launch", "reserved", "spawned", "monitor",
                   "check", "retire", "aborting", "finalize", "cleanup",
                   "settle", "mark", "recover", "link"}
Serving == {"loading", "resuming", "up", "closing"}
WPcs    == {"none", "spawned", "claimed", "ready", "running", "ended",
            "flushed", "released", "exited"}
Alive(t) == wpc[t] \notin {"none", "exited"}

-----------------------------------------------------------------------------
(* The store *)

\* claim_lease: a different live owner cannot be replaced.
CanClaim(t, owner) == ~lease[t].live \/ lease[t].owner = owner

\* heartbeat_lease and the fenced upsert: the owner still holds a live lease.
Holds(t, owner) == lease[t].live /\ lease[t].owner = owner

\* Mutant of Granted: the takeover of an expired lease renews it without
\* recording the new owner.
RenewedOnly(t, owner) ==
    [lease EXCEPT ![t] = [owner |-> IF @.owner = "none" THEN owner ELSE @.owner,
                          live |-> TRUE]]

\* A successful claim.
Granted(t, owner) == [lease EXCEPT ![t] = [owner |-> owner, live |-> TRUE]]

\* release_lease deletes the lease row of that owner only.
Released(t, owner) ==
    IF lease[t].owner = owner THEN [lease EXCEPT ![t] = NoLease] ELSE lease

\* has_live_worker, for a snapshot r of task t read earlier.
HasLiveWorker(t, r) ==
    IF lease[t].owner # "none" THEN lease[t].live ELSE r.owned /\ beat[t]

\* The task table after an upsert of t's row.
Written(t, status, owned) ==
    [row EXCEPT ![t].status = status, ![t].owned = owned]

\* An unfenced upsert of the host's record.
HostWrites(t, status, owned) == row' = Written(t, status, owned)

\* Mutant of WorkerWrites: the worker's upsert is not fenced by its lease.
UnfencedWorkerWrites(t, status) ==
    /\ row' = Written(t, status, TRUE)
    /\ beat' = [beat EXCEPT ![t] = TRUE]

\* A fenced upsert by the worker.
WorkerWrites(t, status) ==
    /\ Holds(t, "launch")
    /\ row' = Written(t, status, TRUE)
    /\ beat' = [beat EXCEPT ![t] = TRUE]

\* _persist_task is a no-op for a detached task: its worker owns the row.
Persist(t, status) ==
    IF t \in detached THEN row' = row ELSE HostWrites(t, status, FALSE)

-----------------------------------------------------------------------------
Init ==
    /\ row = [t \in Tasks |-> NoRow]
    /\ lease = [t \in Tasks |-> NoLease]
    /\ beat = [t \in Tasks |-> FALSE]
    /\ request = [t \in Tasks |-> FALSE]
    /\ flag = [t \in Tasks |-> FALSE]
    /\ host = "down"
    /\ starts = 0
    /\ todo = {}
    /\ rec = [t \in Tasks |-> "none"]
    /\ cancelled = [t \in Tasks |-> FALSE]
    /\ detached = {}
    /\ adopted = [t \in Tasks |-> FALSE]
    /\ pc = [t \in Tasks |-> "none"]
    /\ seen = [t \in Tasks |-> NoRow]
    /\ outcome = [t \in Tasks |-> "none"]
    /\ wpc = [t \in Tasks |-> "none"]
    /\ wstat = [t \in Tasks |-> "none"]
    /\ wcancel = [t \in Tasks |-> FALSE]

-----------------------------------------------------------------------------
(* Submission and the launching thread *)

\* The task table after the first row of t.
Inserted(t, status, source) ==
    [row EXCEPT ![t] = [NoRow EXCEPT !.status = status, !.source = source]]

Admit(t, source) ==
    /\ row[t].status = "none"
    /\ row' = Inserted(t, "queued", source)
    /\ rec' = [rec EXCEPT ![t] = "queued"]

UserTasks == {t \in Tasks : row[t].status # "none" /\ row[t].source = NoTask}

\* submit: the row is durable before the task reaches the executor.
Submit(t) ==
    /\ host = "up"
    /\ Cardinality(UserTasks) < MaxSubmits
    /\ Admit(t, NoTask)
    /\ pc' = [pc EXCEPT ![t] = "admitted"]
    /\ UNCHANGED <<lease, beat, fileVars, mainVars, cancelled, detached,
                   adopted, seen, outcome, workerVars>>

\* submit while shutting down: _queue_task_locked cancels the new record.
SubmitWhileClosing(t) ==
    /\ host = "closing"
    /\ Cardinality(UserTasks) < MaxSubmits
    /\ row[t].status = "none"
    /\ row' = Inserted(t, "cancelled", NoTask)
    /\ rec' = [rec EXCEPT ![t] = "cancelled"]
    /\ cancelled' = [cancelled EXCEPT ![t] = TRUE]
    /\ pc' = [pc EXCEPT ![t] = "settled"]
    /\ UNCHANGED <<lease, beat, fileVars, mainVars, detached, adopted, seen,
                   outcome, workerVars>>

\* _run up to the first forced persist.
RunStart(t) ==
    /\ pc[t] = "admitted"
    /\ IF cancelled[t]
         THEN /\ pc' = [pc EXCEPT ![t] = "settled"]
              /\ Persist(t, "cancelled")
              /\ UNCHANGED rec
         ELSE /\ pc' = [pc EXCEPT ![t] = "launch"]
              /\ rec' = [rec EXCEPT ![t] = "running"]
              /\ Persist(t, "running")
    /\ UNCHANGED <<lease, beat, fileVars, mainVars, cancelled, detached,
                   adopted, seen, outcome, workerVars>>

\* _run_in_worker_process: claim the lease and write the request file.
Reserve(t) ==
    /\ pc[t] = "launch"
    /\ CanClaim(t, "launch")
    /\ lease' = Granted(t, "launch")
    /\ request' = [request EXCEPT ![t] = TRUE]
    /\ pc' = [pc EXCEPT ![t] = "reserved"]
    /\ UNCHANGED <<row, beat, flag, mainVars, rec, cancelled, detached,
                   adopted, seen, outcome, workerVars>>

\* Popen raised: the reservation is undone and the exception fails the task.
SpawnFails(t) ==
    /\ pc[t] = "reserved"
    /\ lease' = Released(t, "launch")
    /\ request' = [request EXCEPT ![t] = FALSE]
    /\ outcome' = [outcome EXCEPT ![t] = "failed"]
    /\ pc' = [pc EXCEPT ![t] = "settle"]
    /\ UNCHANGED <<row, beat, flag, mainVars, rec, cancelled, detached,
                   adopted, seen, workerVars>>

Spawn(t) ==
    /\ pc[t] = "reserved"
    /\ pc' = [pc EXCEPT ![t] = "spawned"]
    /\ wpc' = [wpc EXCEPT ![t] = "spawned"]
    /\ UNCHANGED <<storeVars, fileVars, mainVars, rec, cancelled, detached,
                   adopted, seen, outcome, wstat, wcancel>>

\* Only now does the host stop writing the row itself.
Register(t) ==
    /\ pc[t] = "spawned"
    /\ detached' = detached \cup {t}
    /\ pc' = [pc EXCEPT ![t] = "monitor"]
    /\ UNCHANGED <<storeVars, fileVars, mainVars, rec, cancelled, adopted,
                   seen, outcome, workerVars>>

-----------------------------------------------------------------------------
(* The monitor loop, for a launched worker and for an adopted one *)

\* Leaving the loop: a launched worker's handle is retired first.
MonitorEnds(t, verdict) ==
    /\ outcome' = [outcome EXCEPT ![t] = verdict]
    /\ pc' = [pc EXCEPT ![t] = IF adopted[t] THEN "settle" ELSE "retire"]

\* Mutant of MonDetach: only the loop of a launched worker looks at _closing.
LaunchedDetach(t) ==
    /\ pc[t] = "monitor"
    /\ host = "closing"
    /\ ~adopted[t]
    /\ MonitorEnds(t, "detached")
    /\ UNCHANGED <<storeVars, fileVars, mainVars, rec, cancelled, detached,
                   adopted, seen, workerVars>>

\* The top of the loop while the host is closing: WorkerDetached.
MonDetach(t) ==
    /\ pc[t] = "monitor"
    /\ host = "closing"
    /\ IF adopted[t]
         THEN /\ pc' = [pc EXCEPT ![t] = "left"]
              /\ UNCHANGED outcome
         ELSE MonitorEnds(t, "detached")
    /\ UNCHANGED <<storeVars, fileVars, mainVars, rec, cancelled, detached,
                   adopted, seen, workerVars>>

\* Mutant of MonRead: the loop never writes the cancel flag.
ReadOnly(t) ==
    /\ pc[t] = "monitor"
    /\ host # "closing"
    /\ seen' = [seen EXCEPT ![t] = row[t]]
    /\ IF row[t].status \in Terminal
         THEN MonitorEnds(t, row[t].status)
         ELSE /\ pc' = [pc EXCEPT ![t] = "check"]
              /\ UNCHANGED outcome
    /\ UNCHANGED <<storeVars, fileVars, mainVars, rec, cancelled, detached,
                   adopted, workerVars>>

\* Deliver a requested cancellation, then read the row.
MonRead(t) ==
    /\ pc[t] = "monitor"
    /\ host # "closing"
    /\ flag' = [flag EXCEPT ![t] = @ \/ cancelled[t]]
    /\ seen' = [seen EXCEPT ![t] = row[t]]
    /\ IF row[t].status \in Terminal
         THEN MonitorEnds(t, row[t].status)
         ELSE /\ pc' = [pc EXCEPT ![t] = "check"]
              /\ UNCHANGED outcome
    /\ UNCHANGED <<storeVars, request, mainVars, rec, cancelled, detached,
                   adopted, workerVars>>

\* Mutant of MonCheck: the lease is not consulted, only the exit status.
ExitOnlyCheck(t) ==
    /\ pc[t] = "check"
    /\ IF ~adopted[t] /\ wpc[t] = "exited"
         THEN MonitorEnds(t, IF row[t].status \in Terminal
                               THEN row[t].status ELSE "failed")
         ELSE /\ pc' = [pc EXCEPT ![t] = "monitor"]
              /\ UNCHANGED outcome
    /\ UNCHANGED <<storeVars, fileVars, mainVars, rec, cancelled, detached,
                   adopted, seen, workerVars>>

\* The rest of the iteration.  The row in hand may be older than the lease
\* and the exit status it is judged by.
MonCheck(t) ==
    /\ pc[t] = "check"
    /\ IF ~adopted[t] /\ wpc[t] = "exited"
         THEN MonitorEnds(t, IF row[t].status \in Terminal
                               THEN row[t].status ELSE "failed")
       ELSE IF ~HasLiveWorker(t, seen[t])
         THEN MonitorEnds(t, IF adopted[t] THEN "interrupted" ELSE "failed")
       ELSE /\ pc' = [pc EXCEPT ![t] = "monitor"]
            /\ UNCHANGED outcome
    /\ UNCHANGED <<storeVars, fileVars, mainVars, rec, cancelled, detached,
                   adopted, seen, workerVars>>

\* _retire_worker_process: a closing host aborts the worker it launched, a
\* running host only gives the handle to a reaper.
Retire(t) ==
    /\ pc[t] = "retire"
    /\ IF host # "closing"
         THEN /\ pc' = [pc EXCEPT ![t] = "cleanup"]
              /\ UNCHANGED flag
       ELSE IF Alive(t)
         THEN /\ pc' = [pc EXCEPT ![t] = "aborting"]
              /\ flag' = [flag EXCEPT ![t] = TRUE]
       ELSE /\ pc' = [pc EXCEPT ![t] = "finalize"]
            /\ UNCHANGED flag
    /\ UNCHANGED <<storeVars, request, mainVars, rec, cancelled, detached,
                   adopted, seen, outcome, workerVars>>

\* _finalize_aborted_snapshot: commit "cancelled" for a worker that could
\* not, under the lease owner its own row names.
FinalizeAborted(t) ==
    /\ row' = IF row[t].owned /\ row[t].status \in Active
                   /\ Holds(t, "launch")
                THEN Written(t, "cancelled", TRUE) ELSE row
    /\ lease' = IF row[t].owned
                     /\ (row[t].status \in Terminal \/ Holds(t, "launch"))
                  THEN Released(t, "launch") ELSE lease

\* Mutant of Verdict: the worker's result wins over a cancellation.
ResultWins(t) == outcome[t]

\* The thread's verdict on the way out: a user's cancellation wins.
Verdict(t) == IF cancelled[t] THEN "cancelled" ELSE outcome[t]

\* Mutant of LeaveClosing: WorkerDetached is finished like a verdict.
FinishDetached(t) ==
    /\ rec' = [rec EXCEPT ![t] = Verdict(t)]
    /\ pc' = [pc EXCEPT ![t] = "left"]

\* What the record becomes when a closing host gives the worker up.
LeaveClosing(t) ==
    /\ rec' = [rec EXCEPT ![t] = IF outcome[t] = "detached" THEN @
                                 ELSE Verdict(t)]
    /\ pc' = [pc EXCEPT ![t] = "left"]

\* The grace period of _abort_worker_process ends when the worker exits, or
\* it is terminated; then the row is finalized and the flag removed.
AbortEnd(t) ==
    /\ pc[t] = "aborting"
    /\ wpc' = [wpc EXCEPT ![t] = "exited"]
    /\ FinalizeAborted(t)
    /\ flag' = [flag EXCEPT ![t] = FALSE]
    /\ LeaveClosing(t)
    /\ UNCHANGED <<beat, request, mainVars, cancelled, detached, adopted,
                   seen, outcome, wstat, wcancel>>

\* The same for a worker that had already exited: no flag was written.
Finalize(t) ==
    /\ pc[t] = "finalize"
    /\ FinalizeAborted(t)
    /\ LeaveClosing(t)
    /\ UNCHANGED <<beat, fileVars, mainVars, cancelled, detached, adopted,
                   seen, outcome, workerVars>>

\* Mutant of Cleanup: the lease is left to expire by itself.
CleanupKeepsLease(t) ==
    /\ pc[t] = "cleanup"
    /\ pc' = [pc EXCEPT ![t] = "settle"]
    /\ IF host = "closing"
         THEN UNCHANGED <<request, flag, detached>>
         ELSE /\ request' = [request EXCEPT ![t] = FALSE]
              /\ flag' = [flag EXCEPT ![t] = FALSE]
              /\ detached' = detached \ {t}
    /\ UNCHANGED <<storeVars, mainVars, rec, cancelled, adopted, seen,
                   outcome, workerVars>>

\* The finally block of _run_in_worker_process, which tests _closing again.
Cleanup(t) ==
    /\ pc[t] = "cleanup"
    /\ pc' = [pc EXCEPT ![t] = "settle"]
    /\ IF host = "closing"
         THEN UNCHANGED <<lease, request, flag, detached>>
         ELSE /\ lease' = Released(t, "launch")
              /\ request' = [request EXCEPT ![t] = FALSE]
              /\ flag' = [flag EXCEPT ![t] = FALSE]
              /\ detached' = detached \ {t}
    /\ UNCHANGED <<row, beat, mainVars, rec, cancelled, adopted, seen,
                   outcome, workerVars>>

\* The end of _run and of _reconnect_worker: finish the record, persist it
\* unless the row still belongs to the worker.
Settle(t) ==
    /\ pc[t] = "settle"
    /\ detached' = IF adopted[t] /\ host # "closing" THEN detached \ {t}
                   ELSE detached
    /\ rec' = [rec EXCEPT ![t] = Verdict(t)]
    /\ IF t \in detached'
         THEN /\ pc' = [pc EXCEPT ![t] = "left"]
              /\ UNCHANGED row
         ELSE /\ pc' = [pc EXCEPT ![t] = "settled"]
              /\ HostWrites(t, Verdict(t), wpc[t] # "none")
    /\ UNCHANGED <<lease, beat, fileVars, mainVars, cancelled, adopted, seen,
                   outcome, workerVars>>

\* cancel: observable at once in the record, durable unless detached.
Cancel(t) ==
    /\ "cancel" \in Requests
    /\ host = "up"
    /\ rec[t] \in Active
    /\ rec' = [rec EXCEPT ![t] = "cancelled"]
    /\ cancelled' = [cancelled EXCEPT ![t] = TRUE]
    /\ Persist(t, "cancelled")
    /\ UNCHANGED <<lease, beat, fileVars, mainVars, detached, adopted, pc,
                   seen, outcome, workerVars>>

-----------------------------------------------------------------------------
(* Start, recovery, shutdown and crash of the host *)

\* TaskManager.__init__ reads every row in one query.
HostStart ==
    /\ host = "down"
    /\ starts < MaxStarts
    /\ starts' = starts + 1
    /\ host' = "loading"
    /\ seen' = row
    /\ todo' = {t \in Tasks : row[t].status # "none"}
    /\ UNCHANGED <<storeVars, fileVars, rec, cancelled, detached, adopted,
                   pc, outcome, workerVars>>

MainBusy == \E t \in Tasks : pc[t] \in {"mark", "recover", "link"}

\* One row: adopt a live worker, or restore the record.
Load(t) ==
    /\ host = "loading"
    /\ t \in todo
    /\ ~MainBusy
    /\ todo' = todo \ {t}
    /\ IF seen[t].status \in Active /\ HasLiveWorker(t, seen[t])
         THEN /\ rec' = [rec EXCEPT ![t] = "running"]
              /\ detached' = detached \cup {t}
              /\ adopted' = [adopted EXCEPT ![t] = TRUE]
              /\ pc' = [pc EXCEPT ![t] = "monitor"]
       ELSE IF seen[t].status \in Active
         THEN /\ rec' = [rec EXCEPT ![t] = "interrupted"]
              /\ pc' = [pc EXCEPT ![t] = "mark"]
              /\ UNCHANGED <<detached, adopted>>
       ELSE /\ rec' = [rec EXCEPT ![t] = seen[t].status]
            /\ pc' = [pc EXCEPT ![t] = "loaded"]
            /\ UNCHANGED <<detached, adopted>>
    /\ UNCHANGED <<storeVars, fileVars, host, starts, cancelled, seen,
                   outcome, workerVars>>

\* Persist the record from_snapshot repaired.
MarkInterrupted(t) ==
    /\ pc[t] = "mark"
    /\ HostWrites(t, "interrupted", seen[t].owned)
    /\ pc' = [pc EXCEPT ![t] = "loaded"]
    /\ UNCHANGED <<lease, beat, fileVars, mainVars, rec, cancelled, detached,
                   adopted, seen, outcome, workerVars>>

LoadDone ==
    /\ host = "loading"
    /\ todo = {}
    /\ ~MainBusy
    /\ host' = IF AutoResume THEN "resuming" ELSE "up"
    /\ todo' = IF AutoResume THEN {t \in Tasks : rec[t] # "none"} ELSE {}
    /\ UNCHANGED <<storeVars, fileVars, starts, threadVars, workerVars>>

Resumable(t) ==
    /\ rec[t] = "interrupted"
    /\ ~row[t].resumed
    /\ ~HasLiveWorker(t, row[t])

ResumeSkip(t) ==
    /\ host = "resuming"
    /\ t \in todo
    /\ ~MainBusy
    /\ ~Resumable(t)
    /\ todo' = todo \ {t}
    /\ UNCHANGED <<storeVars, fileVars, host, starts, threadVars, workerVars>>

\* The recovery lease keeps the old worker and other recoverers out.
ResumeClaim(t) ==
    /\ host = "resuming"
    /\ t \in todo
    /\ ~MainBusy
    /\ Resumable(t)
    /\ CanClaim(t, "recovery")
    /\ lease' = Granted(t, "recovery")
    /\ todo' = todo \ {t}
    /\ pc' = [pc EXCEPT ![t] = "recover"]
    /\ UNCHANGED <<row, beat, fileVars, host, starts, rec, cancelled,
                   detached, adopted, seen, outcome, workerVars>>

\* resume submits a copy under a fresh id n.
ResumeSubmit(t, n) ==
    /\ pc[t] = "recover"
    /\ Admit(n, t)
    /\ pc' = [pc EXCEPT ![t] = "link", ![n] = "admitted"]
    /\ UNCHANGED <<lease, beat, fileVars, mainVars, cancelled, detached,
                   adopted, seen, outcome, workerVars>>

ResumeFails(t) ==
    /\ pc[t] = "recover"
    /\ lease' = Released(t, "recovery")
    /\ pc' = [pc EXCEPT ![t] = "loaded"]
    /\ UNCHANGED <<row, beat, fileVars, mainVars, rec, cancelled, detached,
                   adopted, seen, outcome, workerVars>>

\* The task table once checkpoint["resumed_task_id"] is durable.
Linked(t) == [row EXCEPT ![t].status = "interrupted", ![t].resumed = TRUE]

\* auto-resume records the copy and releases the recovery lease.
ResumeLink(t) ==
    /\ pc[t] = "link"
    /\ row' = Linked(t)
    /\ lease' = Released(t, "recovery")
    /\ pc' = [pc EXCEPT ![t] = "loaded"]
    /\ UNCHANGED <<beat, fileVars, mainVars, rec, cancelled, detached,
                   adopted, seen, outcome, workerVars>>

ResumeDone ==
    /\ host = "resuming"
    /\ todo = {}
    /\ ~MainBusy
    /\ host' = "up"
    /\ UNCHANGED <<storeVars, fileVars, starts, todo, threadVars, workerVars>>

BeginShutdown ==
    /\ "shutdown" \in Requests
    /\ host = "up"
    /\ host' = "closing"
    /\ todo' = {t \in Tasks : rec[t] # "none"}
    /\ UNCHANGED <<storeVars, fileVars, starts, threadVars, workerVars>>

\* One task of shutdown's first loop; future.cancel() drops what no thread
\* has picked up.
ShutdownVisit(t) ==
    /\ host = "closing"
    /\ t \in todo
    /\ todo' = todo \ {t}
    /\ IF t \notin detached /\ rec[t] \in Active
         THEN /\ rec' = [rec EXCEPT ![t] = "cancelled"]
              /\ cancelled' = [cancelled EXCEPT ![t] = TRUE]
              /\ Persist(t, "cancelled")
         ELSE UNCHANGED <<rec, cancelled, row>>
    /\ pc' = [pc EXCEPT ![t] = IF @ = "admitted" THEN "settled" ELSE @]
    /\ UNCHANGED <<lease, beat, fileVars, host, starts, detached, adopted,
                   seen, outcome, workerVars>>

\* The process is gone, and with it every record and thread.
HostGone ==
    /\ host' = "down"
    /\ todo' = {}
    /\ rec' = [t \in Tasks |-> "none"]
    /\ cancelled' = [t \in Tasks |-> FALSE]
    /\ detached' = {}
    /\ adopted' = [t \in Tasks |-> FALSE]
    /\ pc' = [t \in Tasks |-> "none"]
    /\ seen' = [t \in Tasks |-> NoRow]
    /\ outcome' = [t \in Tasks |-> "none"]
    /\ UNCHANGED <<storeVars, fileVars, starts, workerVars>>

\* The interpreter exits once the executor's threads have returned.
ShutdownEnd ==
    /\ host = "closing"
    /\ todo = {}
    /\ \A t \in Tasks : pc[t] \in Idle
    /\ HostGone

HostCrash ==
    /\ host \in Serving
    /\ HostGone

-----------------------------------------------------------------------------
(* The worker process *)

WorkerGoes(t, to) == wpc' = [wpc EXCEPT ![t] = to]

\* run_worker: claim the reservation, or exit with status 2.
WClaim(t) ==
    /\ wpc[t] = "spawned"
    /\ IF CanClaim(t, "launch")
         THEN /\ lease' = Granted(t, "launch")
              /\ WorkerGoes(t, "claimed")
         ELSE /\ WorkerGoes(t, "exited")
              /\ UNCHANGED lease
    /\ UNCHANGED <<row, beat, fileVars, mainVars, threadVars, wstat, wcancel>>

\* Consume the request file.
WReadRequest(t) ==
    /\ wpc[t] = "claimed"
    /\ request[t]
    /\ request' = [request EXCEPT ![t] = FALSE]
    /\ WorkerGoes(t, "ready")
    /\ UNCHANGED <<storeVars, flag, mainVars, threadVars, wstat, wcancel>>

\* A missing request or a startup error leaves only the lease to release.
WStartFails(t) ==
    /\ wpc[t] \in {"claimed", "ready"}
    /\ lease' = Released(t, "launch")
    /\ WorkerGoes(t, "released")
    /\ UNCHANGED <<row, beat, fileVars, mainVars, threadVars, wstat, wcancel>>

\* The first fenced row; the cancel watch and the heartbeat start after it.
WFirstFlush(t) ==
    /\ wpc[t] = "ready"
    /\ WorkerWrites(t, "running")
    /\ WorkerGoes(t, "running")
    /\ UNCHANGED <<lease, fileVars, mainVars, threadVars, wstat, wcancel>>

\* A refused first row raises AgentCancelled before any work is done.
WFirstFlushRefused(t) ==
    /\ wpc[t] = "ready"
    /\ ~Holds(t, "launch")
    /\ wcancel' = [wcancel EXCEPT ![t] = TRUE]
    /\ wstat' = [wstat EXCEPT ![t] = "cancelled"]
    /\ WorkerGoes(t, "ended")
    /\ UNCHANGED <<storeVars, fileVars, mainVars, threadVars>>

\* A heartbeat marks the state dirty and the flusher commits it.
WFlush(t) ==
    /\ wpc[t] = "running"
    /\ WorkerWrites(t, "running")
    /\ UNCHANGED <<lease, fileVars, mainVars, threadVars, workerVars>>

\* A heartbeat or a flush that finds the lease lost cancels the run.
WLosesLease(t) ==
    /\ wpc[t] = "running"
    /\ ~Holds(t, "launch")
    /\ wcancel' = [wcancel EXCEPT ![t] = TRUE]
    /\ UNCHANGED <<storeVars, fileVars, mainVars, threadVars, wpc, wstat>>

WSeesCancel(t) ==
    /\ wpc[t] = "running"
    /\ flag[t]
    /\ wcancel' = [wcancel EXCEPT ![t] = TRUE]
    /\ UNCHANGED <<storeVars, fileVars, mainVars, threadVars, wpc, wstat>>

\* The agent loop returns or raises; it may have finished before it noticed
\* the cancellation.
WChatEnds(t) ==
    /\ wpc[t] = "running"
    /\ \E s \in {"completed", "failed", "cancelled"} :
         /\ s = "cancelled" => wcancel[t]
         /\ wstat' = [wstat EXCEPT ![t] = s]
    /\ WorkerGoes(t, "ended")
    /\ UNCHANGED <<storeVars, fileVars, mainVars, threadVars, wcancel>>

\* _final_flush commits the verdict...
WFinalFlush(t) ==
    /\ wpc[t] = "ended"
    /\ WorkerWrites(t, wstat[t])
    /\ WorkerGoes(t, "flushed")
    /\ UNCHANGED <<lease, fileVars, mainVars, threadVars, wstat, wcancel>>

\* ...or loses it: the write is fenced off, or fails and is only logged.
WFinalFlushLost(t) ==
    /\ wpc[t] = "ended"
    /\ WorkerGoes(t, "flushed")
    /\ UNCHANGED <<storeVars, fileVars, mainVars, threadVars, wstat, wcancel>>

\* run_worker's finally.
WRelease(t) ==
    /\ wpc[t] = "flushed"
    /\ lease' = Released(t, "launch")
    /\ WorkerGoes(t, "released")
    /\ UNCHANGED <<row, beat, fileVars, mainVars, threadVars, wstat, wcancel>>

WExit(t) ==
    /\ wpc[t] = "released"
    /\ WorkerGoes(t, "exited")
    /\ UNCHANGED <<storeVars, fileVars, mainVars, threadVars, wstat, wcancel>>

\* The process is killed or crashes at any point.
WDies(t) ==
    /\ Alive(t)
    /\ WorkerGoes(t, "exited")
    /\ UNCHANGED <<storeVars, fileVars, mainVars, threadVars, wstat, wcancel>>

-----------------------------------------------------------------------------
(* Time *)

Expired(t) == [lease EXCEPT ![t].live = FALSE]

\* 45 s without a renewal.  Under PromptStart a reservation outlives the
\* start-up of the worker it was made for.
LeaseExpires(t) ==
    /\ lease[t].live
    /\ PromptStart => pc[t] # "reserved" /\ wpc[t] # "spawned"
    /\ lease' = Expired(t)
    /\ UNCHANGED <<row, beat, fileVars, mainVars, threadVars, workerVars>>

\* The heartbeat in the row is consulted only when there is no lease row.
BeatAges(t) ==
    /\ lease[t].owner = "none"
    /\ beat[t]
    /\ beat' = [beat EXCEPT ![t] = FALSE]
    /\ UNCHANGED <<row, lease, fileVars, mainVars, threadVars, workerVars>>

-----------------------------------------------------------------------------
Thread(t) ==
    \/ RunStart(t) \/ Reserve(t) \/ SpawnFails(t) \/ Spawn(t) \/ Register(t)
    \/ MonDetach(t) \/ MonRead(t) \/ MonCheck(t)
    \/ Retire(t) \/ AbortEnd(t) \/ Finalize(t) \/ Cleanup(t) \/ Settle(t)

Boot ==
    \/ LoadDone \/ ResumeDone
    \/ \E t \in Tasks :
         \/ Load(t) \/ MarkInterrupted(t) \/ ResumeSkip(t) \/ ResumeClaim(t)
         \/ ResumeFails(t) \/ ResumeLink(t)
         \/ \E n \in Tasks : ResumeSubmit(t, n)

Shutdown == ShutdownEnd \/ \E t \in Tasks : ShutdownVisit(t)

User ==
    \/ BeginShutdown
    \/ \E t \in Tasks : Submit(t) \/ SubmitWhileClosing(t) \/ Cancel(t)

Worker(t) ==
    \/ WClaim(t) \/ WReadRequest(t) \/ WStartFails(t)
    \/ WFirstFlush(t) \/ WFirstFlushRefused(t)
    \/ WFlush(t) \/ WLosesLease(t) \/ WSeesCancel(t) \/ WChatEnds(t)
    \/ WFinalFlush(t) \/ WFinalFlushLost(t) \/ WRelease(t) \/ WExit(t)

Time(t) == LeaseExpires(t) \/ BeatAges(t)

Next ==
    \/ HostStart \/ HostCrash \/ Boot \/ Shutdown \/ User
    \/ \E t \in Tasks : Thread(t) \/ Worker(t) \/ WDies(t) \/ Time(t)

Spec == Init /\ [][Next]_vars

\* Threads of a running host and of a live worker make progress; time passes
\* for what nobody renews.  Nothing obliges a user to act, a process to die,
\* a host to be started again, or the model to finish its answer unless the
\* worker has been told to stop.
Fairness ==
    /\ WF_vars(Boot)
    /\ WF_vars(Shutdown)
    /\ \A t \in Tasks :
         /\ WF_vars(Thread(t))
         /\ WF_vars(WClaim(t) \/ WReadRequest(t) \/ WStartFails(t))
         /\ WF_vars(WFirstFlush(t) \/ WFirstFlushRefused(t))
         /\ WF_vars(WLosesLease(t) /\ ~wcancel[t])
         /\ WF_vars(WSeesCancel(t) /\ ~wcancel[t])
         /\ WF_vars(WChatEnds(t) /\ wcancel[t])
         /\ WF_vars(WFinalFlush(t) \/ WFinalFlushLost(t))
         /\ WF_vars(WRelease(t) \/ WExit(t))
         /\ WF_vars(LeaseExpires(t) /\ ~Alive(t))
         /\ WF_vars(BeatAges(t))

FairSpec == Spec /\ Fairness

-----------------------------------------------------------------------------
(* Properties *)

TypeOK ==
    /\ row \in [Tasks -> Rows]
    /\ lease \in [Tasks -> Leases]
    /\ beat \in [Tasks -> BOOLEAN]
    /\ request \in [Tasks -> BOOLEAN]
    /\ flag \in [Tasks -> BOOLEAN]
    /\ host \in Serving \cup {"down"}
    /\ starts \in 0..MaxStarts
    /\ todo \subseteq Tasks
    /\ rec \in [Tasks -> Statuses]
    /\ cancelled \in [Tasks -> BOOLEAN]
    /\ detached \subseteq Tasks
    /\ adopted \in [Tasks -> BOOLEAN]
    /\ pc \in [Tasks -> Pcs]
    /\ seen \in [Tasks -> Rows]
    /\ outcome \in [Tasks -> {"none", "detached"} \cup Terminal]
    /\ wpc \in [Tasks -> WPcs]
    /\ wstat \in [Tasks -> {"none"} \cup Terminal]
    /\ wcancel \in [Tasks -> BOOLEAN]

\* Once a host thread has settled a task, what users were told and what the
\* store holds agree and stay terminal, whatever the worker still does.
SettledVerdict ==
    \A t \in Tasks : pc[t] = "settled" =>
        /\ rec[t] \in Terminal
        /\ row[t].status = rec[t]

\* A cancelled task never turns green: the settled verdict is "cancelled".
CancelWins ==
    \A t \in Tasks : cancelled[t] =>
        /\ rec[t] = "cancelled"
        /\ pc[t] = "settled" => row[t].status = "cancelled"

\* A task that was re-queued under a new id cannot be written by the worker
\* that ran it first: auto-resume never has two workers drive one task.
ResumedIsFenced ==
    \A t, n \in Tasks : row[n].source = t =>
        /\ ~Holds(t, "launch")
        /\ wpc[t] # "spawned"

\* shutdown leaves no task this host launched in an active state.
ShutdownLeavesVerdicts ==
    [][ShutdownEnd => \A t \in Tasks :
         pc[t] \in {"settled", "left"} /\ ~adopted[t]
            => row'[t].status \in Terminal]_vars

\* A verdict the worker committed is the one the host settles.
CommittedVerdictKept ==
    [][\A t \in Tasks : row[t].status = "completed" /\ ~cancelled'[t]
                            => row'[t].status = "completed"]_vars

\* A task whose worker is gone is settled by a host that keeps serving, even
\* when the worker's last row was lost and the lease must run out first.
DeadWorkerSettles ==
    \A t \in Tasks :
        (host = "up" /\ pc[t] \notin Idle /\ wpc[t] = "exited")
            ~> (row[t].status \in Terminal \/ host # "up")

\* A cancelled task's worker stops although the flag it polls may be removed
\* before it looked: the lease it needs is then gone too.
CancelStopsWorker ==
    \A t \in Tasks :
        (cancelled[t] /\ Alive(t)) ~> (~Alive(t) \/ host # "up")

\* shutdown always comes to an end.
ShutdownCompletes == host = "closing" ~> host = "down"

\* No worker runs a task under a live lease that a serving host believes to
\* be over, but for a task whose cancellation was stored before its host gave
\* the row away: when that host dies first, the next one finds a verdict and
\* adopts nothing.
NoOrphanWorker ==
    \A t \in Tasks : host = "up" /\ wpc[t] = "running" /\ Holds(t, "launch")
                        => pc[t] \notin Idle \/ rec[t] = "cancelled"

\* One worker drives a task: the one auto-resume left behind cannot write any
\* more, and a host that serves watches the one that runs.
OneWatchedWorker == ResumedIsFenced /\ NoOrphanWorker

-----------------------------------------------------------------------------
(* The inductive invariant behind SettledVerdict and CancelWins *)

\* The worker can still change the row: it has, or will be granted, the lease,
\* and it has, or will find, its request.
MayWrite(t) ==
    \/ wpc[t] = "spawned" /\ request[t]
    \/ wpc[t] = "claimed" /\ request[t] /\ Holds(t, "launch")
    \/ wpc[t] \in {"ready", "running", "ended"} /\ Holds(t, "launch")

\* An unused identifier has left no trace anywhere.
Untouched(t) ==
    row[t].status = "none" =>
        /\ wpc[t] = "none" /\ rec[t] = "none" /\ pc[t] = "none"
        /\ ~cancelled[t] /\ ~adopted[t] /\ t \notin detached \cup todo

\* Who owns the row, and whether the thread launched its worker.
Ownership(t) ==
    /\ pc[t] \in {"admitted", "launch", "reserved", "spawned"} =>
          t \notin detached
    /\ pc[t] \in {"monitor", "check", "retire", "cleanup"} => t \in detached
    /\ pc[t] \in {"admitted", "launch", "reserved", "spawned", "retire",
                  "cleanup"} => ~adopted[t]

\* Before Popen there is no worker; a reservation stands until one claims it.
Launching(t) ==
    /\ pc[t] \in {"admitted", "launch", "reserved"} => wpc[t] = "none"
    /\ pc[t] = "admitted" =>
          row[t].status = rec[t] /\ (cancelled[t] \/ rec[t] = "queued")
    /\ pc[t] = "reserved" => Holds(t, "launch")
    /\ wpc[t] = "spawned" /\ request[t] => Holds(t, "launch")
    /\ wpc[t] = "ended" => wstat[t] # "none"

\* Cancellation is visible in the record and belongs to one incarnation.
CancelKept(t) ==
    /\ cancelled[t] => rec[t] = "cancelled"
    /\ host \in {"down", "loading", "resuming"} => ~cancelled[t]

\* What the monitor ended with is a verdict, or it left a closing host.
Outcomes(t) ==
    /\ pc[t] \in {"cleanup", "settle"} => outcome[t] \in Terminal
    /\ pc[t] = "retire" /\ outcome[t] \notin Terminal => host = "closing"
    /\ pc[t] = "finalize" => ~Alive(t)

\* The start-up loop sees each row once, before any thread exists for it.
Loading(t) ==
    /\ host = "down" => pc[t] = "none"
    /\ host = "loading" /\ t \in todo => pc[t] = "none"
    /\ host = "loading" /\ t \in todo /\ seen[t].status \in Active
         /\ row[t].status \in Terminal => ~MayWrite(t)

\* Nothing is settled while a worker may still write.
Fenced(t) ==
    /\ adopted[t] /\ pc[t] \in {"monitor", "check"}
         /\ row[t].status \in Terminal => ~MayWrite(t)
    /\ pc[t] = "settle" /\ (adopted[t] \/ t \notin detached) => ~MayWrite(t)
    /\ pc[t] = "settled" =>
          /\ ~MayWrite(t)
          /\ rec[t] \in Terminal
          /\ row[t].status = rec[t]

\* The conjunction is inductive when workers start promptly.
WriteFence ==
    \A t \in Tasks :
        /\ Untouched(t) /\ Ownership(t) /\ Launching(t) /\ CancelKept(t)
        /\ Outcomes(t) /\ Loading(t) /\ Fenced(t)
-----------------------------------------------------------------------------
(* The inductive invariant behind OneWatchedWorker, on top of WriteFence *)

\* Between Popen and the claim a worker has its request and its reservation,
\* or its host has settled the task without waiting for it.
Starting(t) ==
    /\ pc[t] = "reserved" => request[t]
    /\ pc[t] \in {"admitted", "launch", "reserved"} =>
          {rec[t], row[t].status} \subseteq Active \cup {"cancelled"}
    /\ wpc[t] = "spawned" =>
          /\ "interrupted" \notin {rec[t], row[t].status}
          /\ request[t] \/ row[t].status \in Terminal
          /\ adopted[t] => request[t]
          /\ pc[t] \notin {"mark", "recover", "link"}
          /\ pc[t] \in {"retire", "cleanup", "settle"} => outcome[t] # "interrupted"
          /\ pc[t] \in {"retire", "cleanup"} =>
                row[t].status \in Terminal \/ host = "closing"
          /\ host = "loading" /\ t \in todo =>
                /\ seen[t].status # "interrupted"
                /\ seen[t].status \in Active => request[t]

\* A task that has a copy, or gets one, is out of its first worker's reach and
\* is not launched again.
OutOfReach(t) ==
    /\ ~Holds(t, "launch") /\ wpc[t] # "spawned"
    /\ row[t].status # "none" /\ pc[t] \notin {"admitted", "launch", "reserved"}

Copied(t) ==
    pc[t] \in {"recover", "link"} \/ (\E n \in Tasks : row[n].source = t)
        => OutOfReach(t)

\* A row is terminal under a worker that may still write only when a user
\* cancelled the task before its host gave the row away.
Watched(t) ==
    /\ row[t].status \in Terminal /\ MayWrite(t) => row[t].status = "cancelled"
    /\ host = "loading" /\ t \in todo /\ seen[t].status \notin Active
         /\ MayWrite(t) => seen[t].status = "cancelled"
    /\ pc[t] = "mark" => ~MayWrite(t)
    /\ pc[t] = "loaded" /\ MayWrite(t) => rec[t] = "cancelled"
    /\ pc[t] \in {"aborting", "finalize", "left"} => host = "closing"
    /\ pc[t] = "settle" /\ t \in detached /\ ~adopted[t] => host = "closing"
    /\ host \in {"resuming", "up", "closing"} \/ (host = "loading" /\ t \notin todo) =>
          row[t].status = "none" \/ pc[t] # "none"

\* Inductive together with WriteFence.
WatchFence == \A t \in Tasks : Starting(t) /\ Copied(t) /\ Watched(t)
=============================================================================
