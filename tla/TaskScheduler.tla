---------------------------- MODULE TaskScheduler ----------------------------
(***************************************************************************)
(* The in-process scheduler of task_manager.py: one execution slot and one *)
(* bounded queue per session, a pool of executor threads, and batches,     *)
(* whose parent waits for children that run in sessions of their own.  HTTP*)
(* threads submit and cancel; start, watch and run threads follow.  Every  *)
(* section under TaskManager.lock is one step; what happens outside it, the*)
(* status change of request_cancel above all, falls between such sections. *)
(*                                                                         *)
(* Tasks are numbered in the order of their creation.                      *)
(***************************************************************************)
EXTENDS Naturals, Sequences, FiniteSets, SequencesExt

CONSTANTS
    N,            \* bound: tasks ever created
    Sessions,     \* the sessions users submit to
    MaxKids,      \* bound: children of one batch
    MaxCancels,   \* bound: cancellations users ask for
    Kinds,        \* bound: what users submit, of "task", "manual" and "auto"
    Workers,      \* threads of the executor
    QueueLimit,   \* task_queue_limit
    KeepTerminal  \* task_history_limit

Ids == 1..N

ASSUME BoundsAssumption ==
    N \in Nat /\ MaxKids \in Nat \ {0} /\ MaxCancels \in Nat
ASSUME KindsAssumption == Kinds \subseteq {"task", "manual", "auto"}
ASSUME LimitsAssumption ==
    Workers \in Nat \ {0} /\ QueueLimit \in Nat \ {0}
    /\ KeepTerminal \in Nat \ {0}
ASSUME SessionsAssumption == Sessions \cap Nat = {}

VARIABLES
    kind,       \* task_kind and orchestration_mode
    session,    \* the session key of the task
    status,     \* TaskRecord.status
    token,      \* the task's own cancellation token
    parent,     \* parent_id, 0 if none
    kids,       \* child_task_ids
    row,        \* the status in the store
    known,      \* the keys of TaskManager.tasks
    queue,      \* _session_queues
    active,     \* _session_active, 0 if free
    pending,    \* the keys of _batch_children_pending
    pool,       \* futures no executor thread has picked up
    pc,         \* where the thread of the task is
    toAdd,      \* children submit_batch has still to create
    fresh,      \* its child that is not linked yet, 0 if none
    building,   \* batches whose submit_batch has not returned
    kidsLeft,   \* children a cancel() of the parent has still to visit
    stopLeft,   \* children the parent's watcher has still to cancel
    dropping,   \* cancel() calls past request_cancel, with their caller
    cancels     \* cancellations so far

taskVars   == <<kind, session, parent, kids>>
stateVars  == <<status, token, row, known>>
slotVars   == <<queue, active, pool, pc>>
buildVars  == <<pending, toAdd, fresh, building>>
cancelVars == <<kidsLeft, stopLeft, dropping, cancels>>
vars       == <<taskVars, stateVars, slotVars, buildVars, cancelVars>>

Terminal     == {"completed", "failed", "cancelled", "interrupted"}
Unsuccessful == {"failed", "interrupted"}
Active       == {"queued", "running"}
Batches      == {"manual", "auto"}
Keys         == Sessions \cup Ids
Callers      == {"user", "parent", "watcher"}

\* Threads that run for a task: of the executor, and of a batch.
RunPcs   == {"running", "ending"}
BatchPcs == {"starting", "watching", "stopping", "merging", "ended"}
Pcs      == {"none", "submitted", "done"} \cup RunPcs \cup BatchPcs

Created   == {t \in Ids : kind[t] # "none"}
NextId    == Cardinality(Created) + 1
Cancelled(t) == token[t] \/ (parent[t] # 0 /\ token[parent[t]])

Init ==
    /\ kind = [t \in Ids |-> "none"]
    /\ session = [t \in Ids |-> t]
    /\ status = [t \in Ids |-> "none"]
    /\ token = [t \in Ids |-> FALSE]
    /\ parent = [t \in Ids |-> 0]
    /\ kids = [t \in Ids |-> {}]
    /\ row = [t \in Ids |-> "none"]
    /\ known = {}
    /\ queue = [s \in Keys |-> <<>>]
    /\ active = [s \in Keys |-> 0]
    /\ pending = {}
    /\ pool = <<>>
    /\ pc = [t \in Ids |-> "none"]
    /\ toAdd = [t \in Ids |-> 0]
    /\ fresh = [t \in Ids |-> 0]
    /\ building = {}
    /\ kidsLeft = [t \in Ids |-> {}]
    /\ stopLeft = [t \in Ids |-> {}]
    /\ dropping = {}
    /\ cancels = 0

-----------------------------------------------------------------------------
(* Slots and queues *)

\* The numbers in ns in ascending order: tasks in the order of their creation.
InOrder(ns) ==
    CHOOSE f \in [1..Cardinality(ns) -> ns] :
        \A i, j \in DOMAIN f : i < j => f[i] < f[j]

\* The entries of queue q that are in ts, in their order.
Only(q, ts) ==
    LET order == InOrder({i \in DOMAIN q : q[i] \in ts})
    IN [i \in DOMAIN order |-> q[order[i]]]

\* The queue of s without the entries _queue_task_locked discards.
LiveQueue(s) ==
    Only(queue[s], {u \in known' : status[u] \notin Terminal /\ u # active[s]})

Startable(t) == t \in known' /\ status'[t] \notin Terminal

\* _schedule_session_locked with queue q and slots act: a free slot goes to
\* the first entry that can still run.
Dispatch(s, q, act, p) ==
    IF act[s] # 0 \/ ~\E t \in Range(q) : Startable(t)
      THEN /\ queue' = [queue EXCEPT ![s] = IF act[s] # 0 THEN q ELSE <<>>]
           /\ active' = act
           /\ pool' = pool
           /\ pc' = p
      ELSE LET k == SelectInSeq(q, Startable)
               t == q[k]
               batch == kind'[t] \in Batches /\ t \in pending'
           IN /\ queue' = [queue EXCEPT ![s] = SubSeq(q, k + 1, Len(q))]
              /\ active' = [act EXCEPT ![s] = t]
              /\ pool' = IF batch THEN pool ELSE Append(pool, t)
              /\ pc' = [p EXCEPT ![t] = IF batch THEN "starting"
                                                 ELSE "submitted"]

\* _queue_task_locked for t in session s; st and rows are the statuses and the
\* table so far.
QueueTask(t, s, st, rows) ==
    LET q == LiveQueue(s)
        full == Len(q) >= QueueLimit
    IN /\ status' = [st EXCEPT ![t] = IF full /\ @ \notin Terminal THEN "failed"
                                                               ELSE @]
       /\ row' = [rows EXCEPT ![t] = status'[t]]
       /\ IF full
            THEN /\ queue' = [queue EXCEPT ![s] = q]
                 /\ UNCHANGED <<active, pool, pc>>
            ELSE Dispatch(s, Append(q, t), active, pc)

\* Mutant of ReleaseSlot: frees the slot and schedules nobody.
FreeOnly(t, p) ==
    LET s == session[t]
    IN /\ active' = IF active[s] = t THEN [active EXCEPT ![s] = 0] ELSE active
       /\ pc' = p
       /\ UNCHANGED <<queue, pool>>

\* _release_session_slot: the slot of t, if t holds it, goes to the next.
ReleaseSlot(t, p) ==
    LET s == session[t]
    IN Dispatch(s, queue[s],
                IF active[s] = t THEN [active EXCEPT ![s] = 0] ELSE active, p)

-----------------------------------------------------------------------------
(* submit and submit_batch *)

\* The task table without the rows TaskStore.prune deletes: of the terminal
\* ones, the newest and the children of those are retained.
Pruned ==
    LET terminal == {t \in Ids : row[t] \in Terminal}
        newest == {t \in terminal :
                     Cardinality({u \in terminal : u > t}) < KeepTerminal}
    IN terminal \ (newest \cup UNION {kids[t] : t \in newest})

Kept == [t \in Ids |-> IF t \in Pruned THEN "none" ELSE row[t]]

\* Bound: there are ids for k more tasks beside the children still to come.
Room(k) == Cardinality(Created) + FoldFunction(+, k, toAdd) <= N

\* The new record t of a task of kind k in session s.
Create(t, k, s) ==
    /\ t = NextId
    /\ kind' = [kind EXCEPT ![t] = k]
    /\ session' = [session EXCEPT ![t] = s]

Submit(t, s) ==
    /\ "task" \in Kinds
    /\ Room(1)
    /\ Create(t, "task", s)
    /\ known' = (known \ Pruned) \cup {t}
    /\ UNCHANGED <<token, parent, kids, buildVars, cancelVars>>
    /\ QueueTask(t, s, [status EXCEPT ![t] = "queued"], Kept)

\* submit_batch: the parent exists before any of its k children.
BatchOpen(t, s, mode, k) ==
    /\ mode \in Kinds \cap Batches
    /\ Room(1 + k)
    /\ Create(t, mode, s)
    /\ known' = known \cup {t}
    /\ status' = [status EXCEPT ![t] = "queued"]
    /\ row' = [row EXCEPT ![t] = "queued"]
    /\ toAdd' = [toAdd EXCEPT ![t] = k]
    /\ building' = building \cup {t}
    /\ UNCHANGED <<token, parent, kids, slotVars, pending, fresh, cancelVars>>

\* Mutant of BatchChild: one child too many.
ExtraChild(p, c) ==
    /\ p \in building
    /\ fresh[p] = 0
    /\ Create(c, "child", c)
    /\ known' = (known \ Pruned) \cup {c}
    /\ status' = [status EXCEPT ![c] = "queued"]
    /\ row' = [Kept EXCEPT ![c] = "queued"]
    /\ toAdd' = [toAdd EXCEPT ![p] = @ - 1]
    /\ fresh' = [fresh EXCEPT ![p] = c]
    /\ UNCHANGED <<token, parent, kids, slotVars, pending, building,
                   cancelVars>>

\* A child is submitted with its scheduling deferred...
BatchChild(p, c) ==
    /\ p \in building
    /\ toAdd[p] > 0
    /\ fresh[p] = 0
    /\ Create(c, "child", c)
    /\ known' = (known \ Pruned) \cup {c}
    /\ status' = [status EXCEPT ![c] = "queued"]
    /\ row' = [Kept EXCEPT ![c] = "queued"]
    /\ toAdd' = [toAdd EXCEPT ![p] = @ - 1]
    /\ fresh' = [fresh EXCEPT ![p] = c]
    /\ UNCHANGED <<token, parent, kids, slotVars, pending, building,
                   cancelVars>>

\* ...and linked to its parent, whose token becomes the parent of its own.
BatchLink(p) ==
    LET c == fresh[p]
    IN /\ p \in building
       /\ c # 0
       /\ IF c \in known
            THEN /\ parent' = [parent EXCEPT ![c] = p]
                 /\ token' = [token EXCEPT ![c] = FALSE]
            ELSE UNCHANGED <<parent, token>>
       /\ kids' = [kids EXCEPT ![p] = @ \cup {c}]
       /\ row' = [t \in Ids |-> IF t = p \/ (t = c /\ c \in known)
                                 THEN status[t] ELSE row[t]]
       /\ fresh' = [fresh EXCEPT ![p] = 0]
       /\ UNCHANGED <<kind, session, status, known, slotVars, pending, toAdd,
                      building, cancelVars>>

\* All children are linked: queue the parent.
BatchQueue(p) ==
    /\ p \in building
    /\ toAdd[p] = 0
    /\ fresh[p] = 0
    /\ building' = building \ {p}
    /\ pending' = pending \cup {p}
    /\ UNCHANGED <<taskVars, token, known, toAdd, fresh, cancelVars>>
    /\ QueueTask(p, session[p], status, row)

-----------------------------------------------------------------------------
(* The executor *)

BusyWorkers == Cardinality({t \in Ids : pc[t] \in RunPcs})

\* The effect of request_cancel on the tasks in set ts.
RequestCancel(ts) ==
    LET hit == {t \in ts : status[t] \in Active}
    IN /\ status' = [t \in Ids |-> IF t \in hit THEN "cancelled" ELSE status[t]]
       /\ token' = [t \in Ids |-> token[t] \/ t \in hit]

\* _run up to its first persist.
RunStart(t) ==
    /\ pool # <<>>
    /\ t = Head(pool)
    /\ BusyWorkers < Workers
    /\ pool' = Tail(pool)
    /\ IF Cancelled(t) \/ status[t] \in Terminal
         THEN /\ RequestCancel({t})
              /\ pc' = [pc EXCEPT ![t] = "ending"]
         ELSE /\ status' = [status EXCEPT ![t] = "running"]
              /\ pc' = [pc EXCEPT ![t] = "running"]
              /\ UNCHANGED token
    /\ row' = [row EXCEPT ![t] = status'[t]]
    /\ UNCHANGED <<taskVars, known, queue, active, buildVars, cancelVars>>

\* Mutant of Finish: a late result replaces the verdict.
LateVerdict(t, verdict) ==
    status' = [status EXCEPT ![t] = verdict]

\* A verdict for t, unless one is there already; a cancellation wins.
Finish(t, verdict) ==
    status' = [status EXCEPT ![t] = IF @ \in Terminal THEN @
                                    ELSE IF Cancelled(t) THEN "cancelled"
                                    ELSE verdict]

\* The chat returns or raises.
RunEnds(t) ==
    /\ pc[t] = "running"
    /\ \E verdict \in {"completed", "failed"} : Finish(t, verdict)
    /\ pc' = [pc EXCEPT ![t] = "ending"]
    /\ UNCHANGED <<taskVars, token, row, known, queue, active, pool, buildVars,
                   cancelVars>>

\* Mutant of Leave: no last persist.
LeaveUnsaved(t) ==
    /\ UNCHANGED <<taskVars, status, token, row, known, buildVars, cancelVars>>
    /\ ReleaseSlot(t, [pc EXCEPT ![t] = "done"])

\* The last persist, and the slot is free whatever happened before.
Leave(t) ==
    /\ row' = [row EXCEPT ![t] = status[t]]
    /\ UNCHANGED <<taskVars, status, token, known, buildVars, cancelVars>>
    /\ ReleaseSlot(t, [pc EXCEPT ![t] = "done"])

RunLeaves(t) ==
    /\ pc[t] = "ending"
    /\ Leave(t)

-----------------------------------------------------------------------------
(* Batches *)

First(ts) == CHOOSE t \in ts : \A u \in ts : t <= u

\* Mutant of StartGivesUp: returns without the release.
KeepSlot(p) ==
    /\ pc[p] = "starting"
    /\ p \notin known \/ status[p] \in Terminal
    /\ pending' = pending \ {p}
    /\ pc' = [pc EXCEPT ![p] = "done"]
    /\ row' = [row EXCEPT ![p] = IF p \in known THEN status[p] ELSE @]
    /\ UNCHANGED <<taskVars, status, token, known, toAdd, fresh, building,
                   cancelVars, queue, active, pool>>

\* _start_batch finds the parent gone or over.
StartGivesUp(p) ==
    /\ pc[p] = "starting"
    /\ p \notin known \/ status[p] \in Terminal
    /\ pending' = pending \ {p}
    /\ UNCHANGED <<taskVars, status, token, known, toAdd, fresh, building,
                   cancelVars>>
    /\ IF p \in known
         THEN /\ row' = [row EXCEPT ![p] = status[p]]
              /\ ReleaseSlot(p, [pc EXCEPT ![p] = "done"])
         ELSE /\ pc' = [pc EXCEPT ![p] = "done"]
              /\ UNCHANGED <<row, queue, active, pool>>

\* _start_batch.  The sessions of its children are theirs alone, so each child
\* gets its slot and its future at once.
StartBatch(p) ==
    LET ready == {c \in kids[p] \cap known : status[c] \notin Terminal}
    IN /\ pc[p] = "starting"
       /\ p \in known
       /\ status[p] \notin Terminal
       /\ pending' = pending \ {p}
       /\ status' = [status EXCEPT ![p] = "running"]
       /\ row' = [row EXCEPT ![p] = "running"]
       /\ active' = [s \in Keys |-> IF s \in ready THEN s ELSE active[s]]
       /\ pool' = pool \o InOrder(ready)
       /\ pc' = [t \in Ids |-> IF t = p THEN "watching"
                               ELSE IF t \in ready THEN "submitted"
                               ELSE pc[t]]
       /\ UNCHANGED <<taskVars, token, known, queue, toAdd, fresh, building,
                      cancelVars>>

\* What the watcher sees of a child: one that prune forgot was interrupted.
SeenStatus(c) == IF c \in known THEN status[c] ELSE "interrupted"

AllEnded(p) == \A c \in kids[p] : SeenStatus(c) \in Terminal

\* The watcher's loop ends in a cancellation,
WatchStops(p) ==
    /\ pc[p] = "watching"
    /\ Cancelled(p)
    /\ pc' = [pc EXCEPT ![p] = "stopping"]
    /\ stopLeft' = [stopLeft EXCEPT ![p] = kids[p]]
    /\ row' = [row EXCEPT ![p] = status[p]]
    /\ UNCHANGED <<taskVars, status, token, known, queue, active, pool,
                   buildVars, kidsLeft, dropping, cancels>>

\* Mutant of WatchHandsOff: goes on watching.
HandOffAgain(p) ==
    /\ pc[p] = "watching"
    /\ kind[p] = "auto"
    /\ AllEnded(p)
    /\ ~Cancelled(p)
    /\ Len(pool) < N
    /\ pool' = Append(pool, p)
    /\ row' = [row EXCEPT ![p] = status[p]]
    /\ UNCHANGED <<taskVars, status, token, known, queue, active, pc, buildVars,
                   cancelVars>>

\* in the hand-off of an automatic batch to its own run,
WatchHandsOff(p) ==
    /\ pc[p] = "watching"
    /\ kind[p] = "auto"
    /\ AllEnded(p)
    /\ ~Cancelled(p)
    /\ pool' = Append(pool, p)
    /\ pc' = [pc EXCEPT ![p] = "submitted"]
    /\ row' = [row EXCEPT ![p] = status[p]]
    /\ UNCHANGED <<taskVars, status, token, known, queue, active, buildVars,
                   cancelVars>>

\* in failure, because a child did not succeed,
WatchFails(p) ==
    /\ pc[p] = "watching"
    /\ kind[p] = "manual"
    /\ AllEnded(p)
    /\ ~Cancelled(p)
    /\ \E c \in kids[p] : SeenStatus(c) \in Unsuccessful
    /\ Finish(p, "failed")
    /\ pc' = [pc EXCEPT ![p] = "ended"]
    /\ row' = [row EXCEPT ![p] = status[p]]
    /\ UNCHANGED <<taskVars, token, known, queue, active, pool, buildVars,
                   cancelVars>>

\* or in the merge of all answers.
WatchMerges(p) ==
    /\ pc[p] = "watching"
    /\ kind[p] = "manual"
    /\ AllEnded(p)
    /\ ~Cancelled(p)
    /\ \A c \in kids[p] : SeenStatus(c) \notin Unsuccessful
    /\ pc' = [pc EXCEPT ![p] = "merging"]
    /\ row' = [row EXCEPT ![p] = status[p]]
    /\ UNCHANGED <<taskVars, status, token, known, queue, active, pool,
                   buildVars, cancelVars>>

\* Whether a call of cancel(c) for a child of p has not returned.
Within(who, p) == \E c \in kids[p] : <<who, c>> \in dropping

\* The watcher cancels its children in turn; an unknown one is skipped.
WatchCancels(p) ==
    LET c == First(stopLeft[p])
    IN /\ pc[p] = "stopping"
       /\ stopLeft[p] # {}
       /\ ~Within("watcher", p)
       /\ stopLeft' = [stopLeft EXCEPT ![p] = @ \ {c}]
       /\ RequestCancel({c} \cap known)
       /\ dropping' = dropping \cup {<<"watcher", u>> : u \in {c} \cap known}
       /\ UNCHANGED <<taskVars, row, known, slotVars, buildVars, kidsLeft,
                      cancels>>

WatchStopped(p) ==
    /\ pc[p] = "stopping"
    /\ stopLeft[p] = {}
    /\ ~Within("watcher", p)
    /\ Finish(p, "cancelled")
    /\ pc' = [pc EXCEPT ![p] = "ended"]
    /\ UNCHANGED <<taskVars, token, row, known, queue, active, pool, buildVars,
                   cancelVars>>

MergeEnds(p) ==
    /\ pc[p] = "merging"
    /\ \E verdict \in {"completed", "failed"} : Finish(p, verdict)
    /\ pc' = [pc EXCEPT ![p] = "ended"]
    /\ UNCHANGED <<taskVars, token, row, known, queue, active, pool, buildVars,
                   cancelVars>>

WatchLeaves(p) ==
    /\ pc[p] = "ended"
    /\ Leave(p)

-----------------------------------------------------------------------------
(* cancel *)

Cancel(t) ==
    /\ cancels < MaxCancels
    /\ t \in known
    /\ <<"user", t>> \notin dropping
    /\ cancels' = cancels + 1
    /\ RequestCancel({t})
    /\ kidsLeft' = [kidsLeft EXCEPT ![t] = kids[t]]
    /\ dropping' = dropping \cup {<<"user", t>>}
    /\ UNCHANGED <<taskVars, row, known, slotVars, buildVars, stopLeft>>

\* The children in turn, which have none of their own.
CancelChild(t) ==
    LET c == First(kidsLeft[t])
    IN /\ kidsLeft[t] # {}
       /\ ~Within("parent", t)
       /\ kidsLeft' = [kidsLeft EXCEPT ![t] = @ \ {c}]
       /\ RequestCancel({c} \cap known)
       /\ dropping' = dropping \cup {<<"parent", u>> : u \in {c} \cap known}
       /\ UNCHANGED <<taskVars, row, known, slotVars, buildVars, stopLeft,
                      cancels>>

\* Mutant of CancelDrops: a run gives its slot up as a batch does.
DropRun(who, t) ==
    LET s == session[t]
    IN /\ <<who, t>> \in dropping
       /\ who = "user" => kidsLeft[t] = {} /\ ~Within("parent", t)
       /\ dropping' = dropping \ {<<who, t>>}
       /\ row' = [row EXCEPT ![t] = status[t]]
       /\ UNCHANGED <<taskVars, status, token, known, buildVars, kidsLeft,
                      stopLeft, cancels>>
       /\ IF active[s] # t
            THEN Dispatch(s, Only(queue[s], Ids \ {t}), active, pc)
          ELSE ReleaseSlot(t, pc)

\* The section under the lock: a queued task leaves its queue, a batch gives
\* its slot up, and a run keeps its slot until it ends.
CancelDrops(who, t) ==
    LET s == session[t]
    IN /\ <<who, t>> \in dropping
       /\ who = "user" => kidsLeft[t] = {} /\ ~Within("parent", t)
       /\ dropping' = dropping \ {<<who, t>>}
       /\ row' = [row EXCEPT ![t] = status[t]]
       /\ UNCHANGED <<taskVars, status, token, known, buildVars, kidsLeft,
                      stopLeft, cancels>>
       /\ IF active[s] # t
            THEN Dispatch(s, Only(queue[s], Ids \ {t}), active, pc)
          ELSE IF kind[t] \in Batches
            THEN ReleaseSlot(t, pc)
          ELSE UNCHANGED slotVars

-----------------------------------------------------------------------------
User ==
    \E t \in Ids :
        \/ Cancel(t)
        \/ \E s \in Sessions :
             \/ Submit(t, s)
             \/ \E mode \in Batches, k \in 1..MaxKids : BatchOpen(t, s, mode, k)

Builder(p) == BatchLink(p) \/ BatchQueue(p) \/ \E c \in Ids : BatchChild(p, c)

Runner(t) == RunEnds(t) \/ RunLeaves(t)

Batch(p) ==
    \/ StartGivesUp(p) \/ StartBatch(p)
    \/ WatchStops(p) \/ WatchHandsOff(p) \/ WatchFails(p) \/ WatchMerges(p)
    \/ WatchCancels(p) \/ WatchStopped(p) \/ MergeEnds(p) \/ WatchLeaves(p)

Canceller(who, t) == CancelDrops(who, t) \/ (who = "user" /\ CancelChild(t))

System ==
    \E t \in Ids : \/ Builder(t) \/ RunStart(t) \/ Runner(t) \/ Batch(t)
                    \/ \E who \in Callers : Canceller(who, t)

Next == User \/ System

Spec == Init /\ [][Next]_vars

\* Some thread goes on whenever one can, and a chat ends: providers and tools
\* have time-outs and a run has a budget of rounds.  Users need not do anything.
Fairness == WF_vars(System)

FairSpec == Spec /\ Fairness

-----------------------------------------------------------------------------
(* Properties *)

TypeOK ==
    /\ kind \in [Ids -> {"none", "task", "child"} \cup Batches]
    /\ session \in [Ids -> Keys]
    /\ status \in [Ids -> {"none"} \cup Active \cup Terminal]
    /\ token \in [Ids -> BOOLEAN]
    /\ parent \in [Ids -> 0..N]
    /\ kids \in [Ids -> SUBSET Ids]
    /\ row \in [Ids -> {"none"} \cup Active \cup Terminal]
    /\ known \subseteq Created
    /\ queue \in [Keys -> Seq(Ids)]
    /\ active \in [Keys -> 0..N]
    /\ pending \subseteq Ids
    /\ pool \in Seq(Ids)
    /\ pc \in [Ids -> Pcs]
    /\ toAdd \in [Ids -> 0..MaxKids]
    /\ fresh \in [Ids -> 0..N]
    /\ building \subseteq Ids
    /\ kidsLeft \in [Ids -> SUBSET Ids]
    /\ stopLeft \in [Ids -> SUBSET Ids]
    /\ dropping \subseteq Callers \X Ids
    /\ cancels \in 0..MaxCancels

Executing(t) == pc[t] \notin {"none", "done"}

\* A session works on one task at a time: a task some thread has started and
\* that has no verdict yet owns its session's slot, from the queue through
\* watcher, hand-off and run.  A cancelled chat keeps it until the chat ends;
\* only a batch gives it up at once.
SlotExclusion ==
    \A t \in Ids :
        Executing(t) /\ (status[t] \notin Terminal \/ kind[t] \notin Batches)
            => active[session[t]] = t

\* A slot is held only by a task some thread will release it for.
NoDeadSlot ==
    \A s \in Keys : active[s] # 0 => Executing(active[s])

\* The executor never gets a task twice, not even a batch that is cancelled
\* while its watcher hands it off.
SubmittedOnce ==
    /\ \A i, j \in 1..Len(pool) : pool[i] = pool[j] => i = j
    /\ \A t \in Ids : t \in Range(pool) <=> pc[t] = "submitted"

\* Once no thread is left for a task its verdict is final and the store has it,
\* whatever cancel() is still under way, unless history has dropped the task.
DurableVerdict ==
    \A t \in known : pc[t] = "done" =>
        /\ status[t] \in Terminal
        /\ row[t] = status[t]

\* Ids are given out in order, and a task has a status from then on.
Numbered ==
    /\ \E m \in 0..N : Created = 1..m
    /\ \A t \in Ids : kind[t] = "none" <=> status[t] = "none"
    /\ \A t \in Ids \ Created : pc[t] = "none" /\ row[t] = "none"

\* A child has a session of its own.
OwnSessions ==
    \A t \in Ids : IF kind[t] \in {"none", "child"} THEN session[t] = t
                                                  ELSE session[t] \in Sessions

\* Who waits in a queue was never started, and waits once.
QueueWaits ==
    \A s \in Keys :
        /\ \A i, j \in DOMAIN queue[s] : queue[s][i] = queue[s][j] => i = j
        /\ \A t \in Range(queue[s]) :
             /\ session[t] = s /\ pc[t] = "none"
             /\ kind[t] \in {"task"} \cup Batches /\ t \notin building

\* A batch that submit_batch still builds is not queued, so it did not start,
\* and only such a batch has a child still to be linked.
BuildWaits ==
    /\ \A p \in building : kind[p] \in Batches /\ pc[p] = "none"
    /\ \A p \in Ids : fresh[p] # 0 =>
         p \in building /\ kind[fresh[p]] = "child" /\ pc[fresh[p]] = "none"

\* A child has one parent, and does not start before it.
KidsWait ==
    /\ \A p, q \in Ids :
         /\ p # q => kids[p] \cap kids[q] = {}
         /\ p # q /\ fresh[p] # 0 => fresh[p] # fresh[q]
         /\ fresh[p] \notin kids[q]
    /\ \A p \in Ids : \A c \in kids[p] :
         kind[c] = "child" /\ (pc[p] \in {"none", "starting"} => pc[c] = "none")

\* A session's slot is held by a task of that session, and a batch that is
\* about to start under it is still known, because no row of it is terminal.
SlotOwned ==
    /\ \A s \in Keys : active[s] # 0 => session[active[s]] = s
    /\ \A p \in Ids : pc[p] = "starting" =>
         /\ kind[p] \in Batches
         /\ active[session[p]] = p => p \in known /\ row[p] \notin Terminal

\* A terminal row is the verdict itself, a thread that leaves has given one, and
\* so has request_cancel before cancel() takes the lock.
VerdictsHeld ==
    /\ \A t \in Ids : row[t] \in Terminal => status[t] = row[t]
    /\ \A t \in Ids : pc[t] \in {"ending", "ended"} => status[t] \in Terminal
    /\ \A d \in dropping : status[d[2]] \in Terminal

\* What every step of the scheduler keeps.
SchedulerInv ==
    /\ TypeOK /\ Numbered /\ OwnSessions
    /\ QueueWaits /\ BuildWaits /\ KidsWait /\ SlotOwned /\ VerdictsHeld
    /\ SlotExclusion /\ NoDeadSlot /\ SubmittedOnce /\ DurableVerdict

\* A terminal state is immutable and a finished task is never run again.
FinalIsFinal ==
    [][\A t \in Ids : /\ status[t] \in Terminal => status'[t] = status[t]
                      /\ pc[t] = "done" => pc'[t] = "done"]_vars

\* A task or batch a user submitted does not stay in its queue for ever,
\* whatever is cancelled, fails or finishes around it.
QueuedTaskEnds ==
    []<>(\A t \in Ids : kind[t] \in {"task"} \cup Batches
                            => status[t] \in Terminal)

\* A watcher comes to an end, though a child may have been pruned from the
\* history before it saw the child end.
BatchEnds == []<>(\A t \in Ids : pc[t] \notin BatchPcs)

\* What was submitted ends, and so do those who watch it.
EverythingEnds == QueuedTaskEnds /\ BatchEnds

\* While the store retains a batch, it retains the records of its children.
RetainedWithBatch ==
    [][\A p \in Ids : row'[p] # "none" =>
         \A c \in kids[p] : row[c] # "none" => row'[c] # "none"]_vars

\* The children of a cancelled batch end as well.
CancelReachesChildren ==
    \A c \in Ids : (parent[c] # 0 /\ status[parent[c]] = "cancelled")
                       ~> status[c] \in Terminal
=============================================================================
