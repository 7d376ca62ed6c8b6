---------------------------- MODULE SnapshotWriter ----------------------------
(***************************************************************************)
(* TaskSnapshotWriter of task_persistence.py with the write callback of    *)
(* task_manager.py: callers mark records dirty or save them at once, a     *)
(* drain thread saves the dirty ones now and then, and close() saves what  *)
(* is left.  A save pops the record from the pending table, hashes its     *)
(* checkpoint files, reads the record under its lock with a serial number, *)
(* and stores it under the write lock; between these steps the record may  *)
(* change and other threads may save it too.  The store may fail.          *)
(*                                                                         *)
(* Every change of a record is one with file evidence, so that the version *)
(* is also checkpoint_revision.  A record handed to a worker process stays *)
(* there: WorkerExecution has the way back.                                *)
(***************************************************************************)
EXTENDS Naturals, FiniteSets

CONSTANTS
    Records,
    Callers,      \* executor, HTTP and shutdown threads
    MaxVersion,   \* bound: versions of a record
    MaxFaults     \* bound: upserts that fail

Threads == Callers \cup {"drain", "close"}
Versions == 0..MaxVersion

ASSUME RecordsAssumption == Records # {}
ASSUME CallersAssumption == Callers \cap {"drain", "close"} = {}
ASSUME BoundsAssumption  == MaxVersion \in Nat /\ MaxFaults \in Nat

VARIABLES
    version,      \* the record in memory, with checkpoint_revision
    dirty,        \* checkpoint_dirty
    checkpoint,   \* the revision the checkpoint was computed for
    pending,      \* the keys of _pending
    serial,       \* _snapshot_serials
    committed,    \* _snapshot_committed
    row,          \* the version in the store
    detached,     \* _detached_tasks
    stop,         \* _stop
    pc,           \* where each thread is
    job,          \* the record it works on
    seen,         \* the revision it hashes, then the version it read
    mark,         \* the serial it drew
    batch,        \* the list of the drain thread, of close()
    attempt,      \* failures of close() with its record
    lost,         \* what close() will return
    due,          \* history: the version a caller asked to be saved
    late,         \* history: put back after close() had taken the list
    faults        \* failed upserts so far

memory == <<version, dirty, checkpoint, serial>>
table  == <<pending, late>>
disk   == <<row, committed, faults>>
thread == <<pc, job, seen, mark>>
drains == <<batch, attempt, lost>>
vars   == <<memory, table, disk, detached, stop, thread, drains, due>>

Places == {"idle", "asked", "popped", "hashing", "ready", "entering",
           "storing", "joining", "gone"}

TypeOK ==
    /\ version \in [Records -> Versions] /\ due \in [Records -> Versions]
    /\ row \in [Records -> Versions] /\ checkpoint \in [Records -> Versions]
    /\ dirty \in [Records -> BOOLEAN]
    /\ serial \in [Records -> Nat] /\ committed \in [Records -> Nat]
    /\ pending \subseteq Records /\ detached \subseteq Records
    /\ lost \subseteq Records /\ late \subseteq Records
    /\ stop \in BOOLEAN /\ faults \in 0..MaxFaults /\ attempt \in 0..1
    /\ pc \in [Threads -> Places]
    /\ job \in [Threads -> Records]
    /\ seen \in [Threads -> Versions] /\ mark \in [Threads -> Nat]
    /\ batch \in [{"drain", "close"} -> SUBSET Records]

SomeRecord == CHOOSE r \in Records : TRUE

Init ==
    /\ version = [r \in Records |-> 0] /\ due = version /\ row = version
    /\ dirty = [r \in Records |-> FALSE] /\ checkpoint = version
    /\ serial = version /\ committed = version
    /\ pending = {} /\ detached = {} /\ lost = {} /\ late = {}
    /\ stop = FALSE /\ faults = 0 /\ attempt = 0
    /\ pc = [p \in Threads |-> "idle"]
    /\ job = [p \in Threads |-> SomeRecord]
    /\ seen = [p \in Threads |-> 0] /\ mark = seen
    /\ batch = [p \in {"drain", "close"} |-> {}]

Goto(p, place) == pc' = [pc EXCEPT ![p] = place]

(* close() has the list of what is still dirty. *)
Taken == stop /\ pc["close"] # "joining"

(* A caller changes a record and will ask for it to be saved. *)
Change(c, r) ==
    /\ pc[c] = "idle" /\ version[r] < MaxVersion
    /\ version' = [version EXCEPT ![r] = @ + 1]
    /\ dirty' = [dirty EXCEPT ![r] = TRUE]
    /\ job' = [job EXCEPT ![c] = r]
    /\ Goto(c, "asked")
    /\ UNCHANGED <<checkpoint, serial, table, disk, detached, stop, seen, mark,
                   drains, due>>

(* A stopped writer takes no more than what failed. *)
Enqueue(c) ==
    /\ pc[c] = "asked" /\ Goto(c, "idle")
    /\ IF stop \/ job[c] \in detached
       THEN UNCHANGED <<pending, due>>
       ELSE /\ pending' = pending \cup {job[c]}
            /\ due' = [due EXCEPT ![job[c]] = version[job[c]]]
    /\ UNCHANGED <<memory, late, disk, detached, stop, job, seen, mark, drains>>

(* The entry goes before the write, and comes back if the write fails. *)
Pop(r) == pending' = pending \ {r}

FlushNow(c) ==
    /\ pc[c] = "asked" /\ job[c] \notin detached
    /\ Pop(job[c]) /\ Goto(c, "popped")
    /\ due' = [due EXCEPT ![job[c]] = version[job[c]]]
    /\ UNCHANGED <<memory, late, disk, detached, stop, job, seen, mark, drains>>

FlushDetached(c) ==
    /\ pc[c] = "asked" /\ job[c] \in detached /\ Goto(c, "idle")
    /\ UNCHANGED <<memory, table, disk, detached, stop, job, seen, mark, drains,
                   due>>

(* Where a thread goes when its save of one record is over. *)
Resume(p) ==
    /\ Goto(p, "idle")
    /\ attempt' = IF p = "close" THEN 0 ELSE attempt

Prepare(p) ==
    /\ pc[p] = "popped"
    /\ \/ job[p] \in detached /\ Resume(p) /\ UNCHANGED seen
       \/ /\ job[p] \notin detached /\ dirty[job[p]]
          /\ seen' = [seen EXCEPT ![p] = version[job[p]]]
          /\ Goto(p, "hashing") /\ UNCHANGED attempt
       \/ /\ job[p] \notin detached /\ ~dirty[job[p]]
          /\ Goto(p, "ready") /\ UNCHANGED <<seen, attempt>>
    /\ UNCHANGED <<memory, table, disk, detached, stop, job, mark, batch, lost,
                   due>>

(* New evidence may have arrived while the files were hashed. *)
Unchanged(p) == seen[p] = version[job[p]]

Digest(p) ==
    /\ pc[p] = "hashing" /\ Goto(p, "ready")
    /\ IF Unchanged(p)
       THEN /\ checkpoint' = [checkpoint EXCEPT ![job[p]] = seen[p]]
            /\ dirty' = [dirty EXCEPT ![job[p]] = FALSE]
       ELSE UNCHANGED <<checkpoint, dirty>>
    /\ UNCHANGED <<version, serial, table, disk, detached, stop, job, seen, mark,
                   drains, due>>

Read(p) ==
    /\ pc[p] = "ready" /\ Goto(p, "entering")
    /\ seen' = [seen EXCEPT ![p] = version[job[p]]]
    /\ serial' = [serial EXCEPT ![job[p]] = @ + 1]
    /\ mark' = [mark EXCEPT ![p] = serial'[job[p]]]
    /\ UNCHANGED <<version, dirty, checkpoint, table, disk, detached, stop, job,
                   drains, due>>

(* Mutant of Stale: the serials are not compared.                          *)
NeverStale(p) == mark[p] = 0

Stale(p) == mark[p] <= committed[job[p]]

(* _snapshot_write_lock is held from here to the end of the upsert. *)
Enter(p) ==
    /\ pc[p] = "entering"
    /\ \A q \in Threads : pc[q] # "storing"
    /\ IF job[p] \in detached \/ Stale(p)
       THEN Resume(p)
       ELSE Goto(p, "storing") /\ UNCHANGED attempt
    /\ UNCHANGED <<memory, table, disk, detached, stop, job, seen, mark, batch,
                   lost, due>>

Stored(p) ==
    /\ pc[p] = "storing" /\ Resume(p)
    /\ row' = [row EXCEPT ![job[p]] = seen[p]]
    /\ committed' = [committed EXCEPT ![job[p]] = mark[p]]
    /\ UNCHANGED <<memory, table, faults, detached, stop, job, seen, mark,
                   batch, lost, due>>

(* Mutant of PutBack: a failed write is not tried again.                   *)
LetGo(r) == UNCHANGED table

(* flush puts the record back, and so does the drain loop once more. *)
PutBack(r) ==
    /\ pending' = pending \cup {r}
    /\ late' = IF Taken THEN late \cup {r} ELSE late

(* close() tries each record twice and then reports it. *)
GiveUp(p) ==
    IF p = "close"
    THEN IF attempt = 0
         THEN /\ attempt' = 1 /\ batch' = [batch EXCEPT !["close"] = @ \cup {job[p]}]
              /\ UNCHANGED lost
         ELSE lost' = lost \cup {job[p]} /\ attempt' = 0 /\ UNCHANGED batch
    ELSE UNCHANGED drains

StoreFails(p) ==
    /\ pc[p] = "storing" /\ faults < MaxFaults
    /\ faults' = faults + 1
    /\ Goto(p, "idle") /\ PutBack(job[p]) /\ GiveUp(p)
    /\ UNCHANGED <<memory, row, committed, detached, stop, job, seen, mark, due>>

DrainTake ==
    /\ pc["drain"] = "idle" /\ batch["drain"] = {} /\ ~stop /\ pending # {}
    /\ batch' = [batch EXCEPT !["drain"] = pending]
    /\ pending' = {}
    /\ UNCHANGED <<memory, late, disk, detached, stop, thread, attempt, lost, due>>

DrainExit ==
    /\ pc["drain"] = "idle" /\ batch["drain"] = {} /\ stop
    /\ Goto("drain", "gone")
    /\ UNCHANGED <<memory, table, disk, detached, stop, job, seen, mark, drains, due>>

(* The next record of a list; close() retries a failed one at once. *)
FlushNext(p) ==
    /\ pc[p] = "idle"
    /\ \E r \in batch[p] :
         /\ attempt = 1 /\ p = "close" => r = job[p]
         /\ batch' = [batch EXCEPT ![p] = @ \ {r}]
         /\ job' = [job EXCEPT ![p] = r] /\ Pop(r)
    /\ Goto(p, "popped")
    /\ UNCHANGED <<memory, late, disk, detached, stop, seen, mark, attempt, lost, due>>

CloseStop ==
    /\ ~stop /\ stop' = TRUE /\ Goto("close", "joining")
    /\ UNCHANGED <<memory, table, disk, detached, job, seen, mark, drains, due>>

(* The join waits six seconds for the drain thread and no longer. *)
CloseTake ==
    /\ pc["close"] = "joining" /\ Goto("close", "idle")
    /\ batch' = [batch EXCEPT !["close"] = pending]
    /\ pending' = {}
    /\ UNCHANGED <<memory, late, disk, detached, stop, job, seen, mark, attempt, lost, due>>

HandOver(r) ==
    /\ r \notin detached /\ detached' = detached \cup {r}
    /\ UNCHANGED <<memory, table, disk, stop, thread, drains, due>>

Saving(p) ==
    \/ Prepare(p) \/ Digest(p) \/ Read(p) \/ Enter(p)
    \/ Stored(p) \/ StoreFails(p)

System ==
    \/ \E p \in Threads : Saving(p)
    \/ \E c \in Callers : Enqueue(c) \/ FlushNow(c) \/ FlushDetached(c)
    \/ DrainTake \/ DrainExit \/ CloseTake
    \/ \E p \in {"drain", "close"} : FlushNext(p)

Next ==
    \/ System
    \/ \E c \in Callers, r \in Records : Change(c, r)
    \/ CloseStop
    \/ \E r \in Records : HandOver(r)

Spec == Init /\ [][Next]_vars

(* The drain thread polls, close() works through its list, and a save has  *)
(* no wait without a bound.                                                *)
FairSpec == Spec /\ WF_vars(System)

-----------------------------------------------------------------------------
(* A thread that will still try to store the record. *)
Held(r) ==
    \/ \E p \in Threads : job[p] = r
           /\ pc[p] \in {"popped", "hashing", "ready", "entering", "storing"}
    \/ r \in batch["drain"] \cup batch["close"]

(* A version somebody asked to be saved is never forgotten: until it is in *)
(* the store its record is in the table, in a list, or in the hands of a   *)
(* thread, whatever fails and however saves of one record overlap          *)
(* (TaskSnapshotWriter.flush and close).                                   *)
NothingForgotten ==
    \A r \in Records :
        row[r] < due[r] => r \in pending \cup detached \/ Held(r)

(* A checkpoint that counts as clean was computed for the evidence the     *)
(* record has now, although evidence arrives while the files are hashed    *)
(* and threads hash at the same time (_update_checkpoint).                 *)
CleanCheckpoint == \A r \in Records : dirty[r] \/ checkpoint[r] = version[r]

(* Neither evidence nor a version somebody asked to be saved is passed     *)
(* over.                                                                   *)
NothingPassedOver == NothingForgotten /\ CleanCheckpoint

(* What makes that inductive.  A save that has read its record carries the *)
(* promise only if it read the version asked for; ...                      *)
Busy(p) == pc[p] \in {"entering", "storing"}

Carries(p, r) ==
    /\ job[p] = r
    /\ \/ pc[p] \in {"popped", "hashing", "ready"}
       \/ Busy(p) /\ due[r] <= seen[p]

Carried(r) ==
    \/ r \in pending \cup detached \cup batch["drain"] \cup batch["close"]
    \/ \E p \in Threads : Carries(p, r)

(* ... the row is the version read under the serial that was committed, so *)
(* saves with older serials have nothing newer, and with newer ones        *)
(* nothing older, than the row and than one another; ...                   *)
InOrder ==
    /\ \A r \in Records : /\ row[r] <= version[r] /\ due[r] <= version[r]
                           /\ committed[r] <= serial[r]
    /\ \A p \in Threads : Busy(p) =>
         /\ seen[p] <= version[job[p]] /\ mark[p] <= serial[job[p]]
         /\ mark[p] # committed[job[p]]
         /\ mark[p] < committed[job[p]] => seen[p] <= row[job[p]]
         /\ mark[p] > committed[job[p]] => row[job[p]] <= seen[p]
    /\ \A p, q \in Threads : p # q /\ Busy(p) /\ Busy(q) /\ job[p] = job[q] =>
         /\ mark[p] # mark[q]
         /\ mark[p] < mark[q] => seen[p] <= seen[q]

(* ... one thread at a time stores, and what it read is no older than the  *)
(* row; and close() has no list before it has stopped the drain thread.    *)
OneStores ==
    /\ \A p, q \in Threads : pc[p] = "storing" /\ pc[q] = "storing" => p = q
    /\ \A p \in Threads : pc[p] = "storing" => mark[p] > committed[job[p]]

CloseWaits ==
    /\ ~stop => pc["close"] = "idle"
    /\ ~stop \/ pc["close"] = "joining" => batch["close"] = {}

(* The inductive invariant: serials order the saves of a record, and the   *)
(* version that was asked for is always with somebody who will store it.   *)
WriterInv ==
    /\ TypeOK /\ InOrder /\ OneStores /\ CloseWaits /\ CleanCheckpoint
    /\ \A r \in Records : row[r] < due[r] => Carried(r)

(* The promise of task persistence: rows move forward only, and what was   *)
(* asked for gets stored.  Excused are records of worker processes, those  *)
(* close() reports, and those a thread puts back after close() has taken   *)
(* its list, which nobody tries again.                                     *)
Durable == INSTANCE DurableRecords WITH excused <- detached \cup lost \cup late

KeepsPromise == Durable!Spec

(* The half of it that no fairness is needed for: a row never goes back to *)
(* an earlier version of its record, nor to one the record never had, and  *)
(* an excuse is never taken back (_write_task_snapshot).                   *)
RowsMoveForward == Durable!Safely
=============================================================================
