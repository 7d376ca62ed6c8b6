------------------------------- MODULE SubAgents -------------------------------
(***************************************************************************)
(* The task tool (agent/subagent.py): runs of sub-agents that share one    *)
(* runner and a few slots.  A run starts its child in a thread of its own, *)
(* watches it until it ends, its time is up or the parent is cancelled,    *)
(* tells it to stop, waits a while for the thread, and reports what the    *)
(* child spent to the parent's budget.  A child may run sub-agents too.    *)
(***************************************************************************)
EXTENDS Naturals, FiniteSets

CONSTANTS
    MaxRuns,       \* bound: calls of the task tool
    Slots,         \* MAX_CONCURRENT_SUBAGENTS
    MaxSpend       \* bound: units one child spends

ASSUME BoundsAssumption == {MaxRuns, Slots, MaxSpend} \subseteq Nat

Runs == 1..MaxRuns
Nothing == 0
Failed == {"budget", "cancelled", "failed", "timeout"}

VARIABLES
    caller,        \* the run whose child makes this one, or nothing
    slots,         \* _SUBAGENT_SLOTS
    at,            \* where each run is
    child,         \* its thread
    told,          \* child_cancel
    cancelled,     \* the cancel event of the parent, which nested runs get
    spent,         \* what the child's budget counted
    budget,        \* _active_child_budget, by thread: the run it belongs to
    payload,       \* _child_usage_payload, by thread
    folded,        \* reported to the parent
    late           \* history: the thread outlived its run

subVars == <<caller, slots, at, child, told, cancelled, spent, budget, payload, folded,
             late>>

SubTypeOK ==
    /\ slots \in 0..Slots
    /\ \A r \in Runs : caller[r] \in 0..r - 1
    /\ at \in [Runs -> {"new", "ready", "watching", "stopping", "folding", "done"}]
    /\ child \in [Runs -> {"none", "live", "ok"} \cup Failed]
    /\ told \subseteq Runs /\ late \subseteq Runs /\ cancelled \in BOOLEAN
    /\ {spent, payload, folded} \subseteq [Runs -> 0..MaxSpend]
    /\ budget \in [Runs -> Runs \cup {Nothing}]

SubInit ==
    /\ caller \in {f \in [Runs -> 0..MaxRuns] : \A r \in Runs : f[r] < r}
    /\ slots \in 0..Slots          \* other sessions hold the rest
    /\ cancelled = FALSE /\ told = {} /\ late = {}
    /\ at = [r \in Runs |-> "new"] /\ child = [r \in Runs |-> "none"]
    /\ spent = [r \in Runs |-> 0] /\ payload = spent /\ folded = spent
    /\ budget = [r \in Runs |-> Nothing]

Go(r, place) == at' = [at EXCEPT ![r] = place]

(* Mutant of OfThread: the runner keeps the state for all its runs.        *)
OfRunner(state, r, value) == [x \in Runs |-> value]

(* The state of a fold belongs to the thread of the run. *)
OfThread(state, r, value) == [state EXCEPT ![r] = value]

(* The caller of a nested run is a live child. *)
Called(r) == caller[r] # Nothing => child[caller[r]] = "live"

-----------------------------------------------------------------------------
(* run: a slot within a second, or the call is refused. *)
Enter(r) ==
    /\ at[r] = "new" /\ Called(r) /\ slots > 0
    /\ slots' = slots - 1 /\ Go(r, "ready")
    /\ payload' = OfThread(payload, r, 0)
    /\ budget' = OfThread(budget, r, Nothing)
    /\ UNCHANGED <<caller, child, told, cancelled, spent, folded, late>>

Refuse(r) ==
    /\ at[r] = "new" /\ Called(r) /\ slots = 0 /\ Go(r, "done")
    /\ UNCHANGED <<caller, slots, child, told, cancelled, spent, budget,
                  payload, folded, late>>

StartChild(r) ==
    /\ at[r] = "ready" /\ Go(r, "watching")
    /\ budget' = OfThread(budget, r, r)
    /\ child' = [child EXCEPT ![r] = "live"]
    /\ UNCHANGED <<caller, slots, told, cancelled, spent, payload, folded,
                  late>>

Spend(r) ==
    /\ child[r] = "live" /\ spent[r] < MaxSpend
    /\ spent' = [spent EXCEPT ![r] = @ + 1]
    /\ UNCHANGED <<caller, slots, at, child, told, cancelled, budget,
                  payload, folded, late>>

(* The child's loop ends; it is cancelled only when it was told to, or the *)
(* parent was cancelled.  A nested run is over before its caller.          *)
ChildEnds(r, outcome) ==
    /\ child[r] = "live" /\ (outcome = "cancelled" => r \in told \/ cancelled)
    /\ \A s \in Runs : caller[s] = r => at[s] \in {"new", "done"}
    /\ child' = [child EXCEPT ![r] = outcome]
    /\ UNCHANGED <<caller, slots, at, told, cancelled, spent, budget,
                  payload, folded, late>>

CancelParent ==
    /\ ~cancelled /\ cancelled' = TRUE
    /\ UNCHANGED <<caller, slots, at, child, told, spent, budget, payload,
                  folded, late>>

(* The watch takes the result.  A TimeoutError the child raised looks like *)
(* one of the poll: the watch goes on until the time is up.                *)
TakeResult(r) ==
    /\ at[r] = "watching" /\ ~cancelled /\ child[r] = "ok"
    /\ payload' = OfThread(payload, r, spent[r]) /\ Go(r, "folding")
    /\ UNCHANGED <<caller, slots, child, told, cancelled, spent, budget,
                  folded, late>>

TakeFailure(r) ==
    /\ at[r] = "watching" /\ ~cancelled /\ child[r] \in Failed \ {"timeout"}
    /\ told' = IF child[r] = "failed" THEN told ELSE told \cup {r}
    /\ Go(r, "folding")
    /\ UNCHANGED <<caller, slots, child, cancelled, spent, budget, payload,
                  folded, late>>

(* The parent was cancelled, or the time is up. *)
Stop(r) ==
    /\ at[r] = "watching" /\ Go(r, "stopping")
    /\ told' = told \cup {r}
    /\ UNCHANGED <<caller, slots, child, cancelled, spent, budget, payload,
                  folded, late>>

(* thread.join(15): the thread has ended, or it has not. *)
Join(r) ==
    /\ at[r] = "stopping" /\ Go(r, "folding")
    /\ late' = IF child[r] = "live" THEN late \cup {r} ELSE late
    /\ UNCHANGED <<caller, slots, child, told, cancelled, spent, budget,
                  payload, folded>>

(* _flush_child_usage: what the result says, else what the budget counted. *)
Usage(r) ==
    IF payload[r] > 0 THEN payload[r]
    ELSE IF budget[r] \in Runs THEN spent[budget[r]] ELSE 0

Fold(r) ==
    /\ at[r] = "folding" /\ Go(r, "done") /\ slots' = slots + 1
    /\ folded' = [folded EXCEPT ![r] = Usage(r)]
    /\ UNCHANGED <<caller, child, told, cancelled, spent, budget, payload,
                  late>>

SubNext ==
    \/ CancelParent
    \/ \E r \in Runs :
          \/ Enter(r) \/ Refuse(r) \/ StartChild(r) \/ Spend(r) \/ TakeResult(r)
          \/ TakeFailure(r) \/ Stop(r) \/ Join(r) \/ Fold(r)
          \/ \E outcome \in {"ok"} \cup Failed : ChildEnds(r, outcome)

SubSpec == SubInit /\ [][SubNext]_subVars

-----------------------------------------------------------------------------
(* However a run ends, the parent's budget learns what its child spent:    *)
(* all of it, and nothing a sibling or a grandchild running at the same    *)
(* time spent, unless the child's thread outlived the wait for it          *)
(* (_flush_child_usage).                                                   *)
SpendFolded ==
    \A r \in Runs : at[r] = "done" /\ r \notin late => folded[r] = spent[r]

(* What makes that inductive.  A run that waits for its slot has no child  *)
(* and has spent nothing,                                                  *)
NotStarted ==
    \A r \in Runs : at[r] \in {"new", "ready"} =>
        /\ child[r] = "none" /\ spent[r] = 0 /\ payload[r] = 0 /\ folded[r] = 0
        /\ r \notin late

(* while it has one, its thread leads to the budget of its own child and   *)
(* carries nothing, or all that an ended child spent,                      *)
OwnBudget ==
    \A r \in Runs : at[r] \in {"watching", "stopping", "folding"} =>
        /\ budget[r] = r
        /\ payload[r] \in {0, spent[r]}
        /\ at[r] # "folding" => payload[r] = 0 /\ r \notin late
        /\ r \in late => payload[r] = 0
        /\ at[r] = "folding" /\ r \notin late => child[r] # "live"

(* and what it reported stays true, because nobody spends after it.        *)
Settled ==
    \A r \in Runs : at[r] = "done" /\ r \notin late =>
        child[r] # "live" /\ folded[r] = spent[r]

(* Every slot that is taken belongs to a run that gives it back.           *)
Busy == {r \in Runs : at[r] \notin {"new", "done"}}
SlotsKept == slots + Cardinality(Busy) <= Slots

(* The inductive invariant: each child spends on the budget that its own   *)
(* parent will fold, and every slot has its run (_flush_child_usage).      *)
SubInv == SubTypeOK /\ NotStarted /\ OwnBudget /\ Settled /\ SlotsKept
=============================================================================
