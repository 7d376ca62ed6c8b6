------------------------------- MODULE PlanGraph -------------------------------
(***************************************************************************)
(* execute_dag of agent/graph.py: validate a plan, then run its nodes in   *)
(* waves, each wave's nodes side by side with retries, and skip what       *)
(* depends on a failed node.  The plan is any graph over Nodes, and any    *)
(* node may be one the read-only executor does not take.                   *)
(***************************************************************************)
EXTENDS Naturals, Sequences, FiniteSets

CONSTANTS
    PlanSize,      \* bound: nodes of a plan, in its order 1..PlanSize
    MaxRetries,    \* the largest max_retries
    MaxDepth,      \* max_depth of DAGPlan.validate
    Concurrency    \* max_concurrency

ASSUME PlanAssumption == PlanSize \in Nat \ {0} /\ MaxRetries \in Nat

Nodes == 1..PlanSize

VARIABLES
    depends,       \* depends_on of each node
    nodeRetries,   \* max_retries of each node
    writing,       \* nodes whose kind or tools are not read-only
    stage,         \* where execute_dag is
    pending, completed, failed, skipped,
    wave,          \* the nodes of the current wave
    attempts,      \* result.attempts
    back           \* what the nodes of the wave returned so far

graph    == <<depends, nodeRetries, writing>>
nodeEnds == <<completed, failed, skipped>>
planVars == <<graph, stage, pending, nodeEnds, wave, attempts, back>>

Stages == {"new", "waves", "running", "rejected", "stalled", "done"}

PlanTypeOK ==
    /\ depends \in [Nodes -> SUBSET Nodes]
    /\ nodeRetries \in [Nodes -> 0..MaxRetries] /\ writing \subseteq Nodes
    /\ stage \in Stages
    /\ {pending, completed, failed, skipped, wave} \subseteq SUBSET Nodes
    /\ attempts \in [Nodes -> 0..MaxRetries + 1]
    /\ back \in [Nodes -> {"none", "completed", "failed"}]

PlanInit ==
    /\ depends \in [Nodes -> SUBSET Nodes]
    /\ nodeRetries \in [Nodes -> {0, MaxRetries}]
    /\ writing \in {{}, {PlanSize}}
    /\ stage = "new" /\ pending = {} /\ wave = {}
    /\ completed = {} /\ failed = {} /\ skipped = {}
    /\ attempts = [n \in Nodes |-> 0] /\ back = [n \in Nodes |-> "none"]

(* The depths that the loop over indegree gives: a node lies deeper than   *)
(* all it depends on, and none deeper than is allowed.                     *)
Deeper(depth) ==
    \A n \in Nodes : depth[n] <= MaxDepth /\ \A m \in depends[n] : depth[m] < depth[n]
Valid == \E depth \in [Nodes -> 1..PlanSize] : Deeper(depth)

Validate ==
    /\ stage = "new"
    /\ IF Valid /\ writing = {}
       THEN stage' = "waves" /\ pending' = Nodes
       ELSE stage' = "rejected" /\ UNCHANGED pending
    /\ UNCHANGED <<graph, nodeEnds, wave, attempts, back>>

(* Skipping looks once at what is pending, not at what it skips itself.    *)
Held == {n \in pending : depends[n] \cap (failed \cup skipped) # {}}
(* Mutant of Ready: a dependency that is gone counts as completed.         *)
NoneLeft(left) == {n \in left : depends[n] \cap left = {}}

Ready(left) == {n \in left : depends[n] \subseteq completed}
First(some) == {n \in some : Cardinality({m \in some : m < n}) < Concurrency}

BeginWave ==
    LET left == pending \ Held
    IN /\ stage = "waves" /\ pending # {}
       /\ skipped' = skipped \cup Held /\ pending' = left
       /\ wave' = First(Ready(left))
       /\ stage' = IF wave' # {} THEN "running"
                   ELSE IF left # {} THEN "stalled" ELSE "done"
       /\ back' = [n \in Nodes |-> "none"]
       /\ UNCHANGED <<graph, completed, failed, attempts>>

(* A node is tried again until it returns or has used up its retries.      *)
Attempt(n) ==
    /\ stage = "running" /\ n \in wave /\ back[n] = "none"
    /\ attempts' = [attempts EXCEPT ![n] = @ + 1]
    /\ \/ back' = [back EXCEPT ![n] = "completed"]
       \/ back' = [back EXCEPT ![n] = IF attempts[n] < nodeRetries[n] THEN "none" ELSE "failed"]
    /\ UNCHANGED <<graph, stage, pending, nodeEnds, wave>>

Returned(how) == {n \in wave : back[n] = how}

EndWave ==
    /\ stage = "running" /\ Returned("none") = {}
    /\ completed' = completed \cup Returned("completed")
    /\ failed' = failed \cup Returned("failed")
    /\ pending' = pending \ wave /\ wave' = {}
    /\ stage' = IF pending' = {} THEN "done" ELSE "waves"
    /\ UNCHANGED <<graph, skipped, attempts, back>>

PlanStep == Validate \/ BeginWave \/ EndWave \/ \E n \in Nodes : Attempt(n)
PlanSpec == PlanInit /\ [][PlanStep]_planVars

-----------------------------------------------------------------------------
(* Everything a node needs, directly or through other nodes: what is in    *)
(* every set that has what it depends on and what those need.              *)
Closed(some) == \A m \in some : depends[m] \subseteq some
Needs(n) == {m \in Nodes : \A some \in SUBSET Nodes :
                             depends[n] \subseteq some /\ Closed(some) => m \in some}

(* No plan with a cycle runs, and a node is only ever tried when all it    *)
(* needs, directly or not, has completed: nothing runs on the output of a  *)
(* failed or skipped node, in whatever order the nodes of a wave return.   *)
OnlyOnCompleted ==
    /\ stage \notin {"new", "rejected"} => \A n \in Nodes : n \notin Needs(n)
    /\ \A n \in Nodes : attempts[n] > 0 => Needs(n) \subseteq completed

(* "failed dependencies skip children" (docstring of execute_dag): when    *)
(* nodes fail, exactly those that need one of them are skipped, and the    *)
(* plan comes to its end.                                                  *)
FailuresSkipChildren ==
    /\ stage # "stalled"
    /\ stage = "done" => skipped = {n \in Nodes : Needs(n) \cap failed # {}}

(* Only a graph without a cycle gets beyond its validation; a node of a    *)
(* wave waits for nothing, nor did one that was tried; and a node is tried *)
(* in one wave, no more often than it may be.                              *)
PlanInv ==
    /\ PlanTypeOK
    /\ stage \notin {"new", "rejected"} => Valid
    /\ stage = "new" => \A n \in Nodes : attempts[n] = 0
    /\ stage # "running" => wave = {}
    /\ wave \subseteq pending
    /\ \A n \in wave \cup completed : depends[n] \subseteq completed
    /\ \A n \in Nodes : attempts[n] > 0 => depends[n] \subseteq completed
    /\ \A n \in pending \ wave : attempts[n] = 0
    /\ \A n \in wave : back[n] = "none" => attempts[n] <= nodeRetries[n]
=============================================================================
