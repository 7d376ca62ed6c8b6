-------------------------------- MODULE TaskRun --------------------------------
(***************************************************************************)
(* A task of the web service around run_agent: run the agent, recover from *)
(* a failing gateway or a stuck agent, verify the workspace once anything  *)
(* was written, repair what fails, and ask a reviewer whether the task is  *)
(* complete; the reviewer's "complete" is held against the evidence.       *)
(*                                                                         *)
(* One call of run_agent is one step: what it may report is limited to     *)
(* what module AgentLoop shows of it.  The workspace is counted in         *)
(* versions.  Budgets may run out wherever a retry is charged.             *)
(***************************************************************************)
EXTENDS Naturals

CONSTANTS
    MaxChanges,    \* bound: changes of the workspace
    MaxRecoveries, \* max_provider_recoveries, max_agent_recoveries
    MaxRepairs,    \* max_repairs
    MaxContinues   \* max_completion_continues

ASSUME LimitsAssumption ==
    {MaxChanges, MaxRecoveries, MaxRepairs, MaxContinues} \subseteq Nat

Good  == {"answered", "inspected", "softstop"}
Hard  == {"provider", "protocol", "budget", "empty", "nonterminal", "blocked"}
Ends  == Good \cup Hard \cup {"transient", "stuck", "guard", "cancelled"}
Evidence == {"none", "read", "check"}

VARIABLES
    phase,         \* "run", "verify", "checking", "review" or "done"
    status,        \* runtime_status
    cancelled,     \* cancel_event
    workspace,     \* version of it
    wrote,         \* some event is a successful write
    listed,        \* best evidence listed after the last write
    red,           \* the last outcome of some check of the agent is bad
    verdict,       \* latest verification that was not skipped
    skipped,       \* the latest verification was skipped
    snap,          \* version the running verification started from
    unsettled,     \* error of the run that verification may clear
    again,         \* provider_recoveries, agent_recoveries
    repairs,       \* repair_attempts
    continues,     \* completion_continues
    unknowns,      \* completion_review_failures
    active,        \* tool or verification since the last review
    wroteAt,       \* history: version after the last write of the task
    passedAt       \* history: newest version a verification passed on

evidence == <<wrote, listed, red>>
verified == <<verdict, skipped, snap>>
counters == <<again, repairs, continues, unknowns>>
history  == <<wroteAt, passedAt>>
taskVars == <<phase, status, cancelled, workspace, evidence, verified, unsettled,
              counters, active, history>>

TaskTypeOK ==
    /\ phase \in {"run", "verify", "checking", "review", "done"}
    /\ status \in {"running", "completed", "failed", "cancelled"}
    /\ {cancelled, wrote, red, skipped, active} \subseteq BOOLEAN
    /\ {workspace, snap, wroteAt, passedAt} \subseteq 0..MaxChanges
    /\ listed \in Evidence /\ verdict \in {"none", "passed", "failed"}
    /\ unsettled \in {"none", "guard", "stuck"}
    /\ again \in [{"provider", "agent"} -> 0..MaxRecoveries]
    /\ repairs \in 0..MaxRepairs /\ continues \in 0..MaxContinues
    /\ unknowns \in 0..1

TaskInit ==
    /\ phase = "run" /\ status = "running" /\ cancelled = FALSE /\ workspace = 0
    /\ wrote = FALSE /\ listed = "none" /\ red = FALSE
    /\ verdict = "none" /\ skipped = FALSE /\ snap = 0 /\ unsettled = "none"
    /\ again = [who \in {"provider", "agent"} |-> 0]
    /\ repairs = 0 /\ continues = 0 /\ unknowns = 0 /\ active = FALSE
    /\ wroteAt = 0 /\ passedAt = 0

Finish(how) == phase' = "done" /\ status' = how
GoOn(next) == phase' = next /\ UNCHANGED status

(* Recover from a failure of the gateway or of the agent itself, if the    *)
(* budget still lets it.                                                   *)
Recover(who) ==
    \/ /\ again[who] < MaxRecoveries /\ GoOn("run")
       /\ again' = [again EXCEPT ![who] = @ + 1]
    \/ Finish("failed") /\ UNCHANGED again

(* What happens after a run that ended in "how". *)
Route(how) ==
    \/ how = "cancelled" /\ Finish("cancelled") /\ UNCHANGED again
    \/ how = "transient" /\ Recover("provider")
    \/ how = "stuck" /\ again["agent"] < MaxRecoveries /\ Recover("agent")
    \/ /\ how \in Good \cup {"guard"} \/ (how = "stuck" /\ again["agent"] = MaxRecoveries)
       /\ UNCHANGED again
       /\ IF wrote' THEN GoOn("verify")
          ELSE IF how \in Good THEN GoOn("review") ELSE Finish("failed")
    \/ how \in Hard /\ Finish("failed") /\ UNCHANGED again

(* One call of run_agent.  It answers after an edit only with a check or   *)
(* an inspection behind it, and reports no answer once it is cancelled.    *)
RunAgent ==
    /\ phase = "run"
    /\ \E how \in Ends, edit \in BOOLEAN, trail \in Evidence, bad \in BOOLEAN :
         /\ cancelled => how \notin Good /\ ~edit
         /\ how = "cancelled" => cancelled
         /\ edit => workspace < MaxChanges
         /\ edit /\ how = "answered" => trail = "check"
         /\ edit /\ how = "inspected" => trail # "none"
         /\ how \in {"guard", "inspected"} => wrote \/ edit
         /\ red' = bad /\ (trail = "none" /\ ~edit => bad = red)
         /\ wrote' = (wrote \/ edit)
         /\ workspace' = IF edit THEN workspace + 1 ELSE workspace
         /\ wroteAt' = IF edit THEN workspace + 1 ELSE wroteAt
         /\ listed' = IF edit \/ trail = "check" \/ listed = "none" THEN trail ELSE listed
         /\ active' = (active \/ edit \/ trail # "none")
         /\ unsettled' = IF how \in {"guard", "stuck"} THEN how ELSE "none"
         /\ Route(how)
    /\ UNCHANGED <<cancelled, verified, repairs, continues, unknowns, passedAt>>

(* Verifier.run up to its commands; the plan may hold nothing to run.      *)
Verify ==
    /\ phase = "verify" /\ snap' = workspace
    /\ \/ cancelled /\ Finish("cancelled") /\ UNCHANGED <<skipped, active, unsettled>>
       \/ GoOn("checking") /\ skipped' = FALSE /\ UNCHANGED <<active, unsettled>>
       \/ /\ GoOn("review") /\ skipped' = TRUE
          /\ active' = TRUE /\ unsettled' = "none"
    /\ UNCHANGED <<cancelled, workspace, evidence, verdict, counters, history>>

(* A pass counts for the workspace it started from, so it is a failure     *)
(* when the workspace has moved; a time-out or a refusal is no verdict.    *)
VerifyPasses ==
    /\ phase = "checking" /\ ~cancelled /\ workspace = snap
    /\ verdict' = "passed" /\ passedAt' = snap /\ unsettled' = "none"
    /\ red' \in {red, FALSE} /\ listed' = "check"
    /\ active' = TRUE /\ GoOn("review")
    /\ UNCHANGED <<cancelled, workspace, wrote, skipped, snap, counters, wroteAt>>

VerifyFails ==
    /\ phase = "checking" /\ ~cancelled /\ verdict' = "failed" /\ active' = TRUE
    /\ \/ repairs < MaxRepairs /\ repairs' = repairs + 1 /\ GoOn("run")
       \/ Finish("failed") /\ UNCHANGED repairs
    /\ UNCHANGED <<cancelled, workspace, evidence, skipped, snap, unsettled, again,
                   continues, unknowns, history>>

VerifyStops ==
    /\ phase = "checking" /\ Finish(IF cancelled THEN "cancelled" ELSE "failed")
    /\ UNCHANGED <<cancelled, workspace, evidence, verified, unsettled, counters,
                   active, history>>

Observed == listed = "check" \/ (skipped /\ listed = "read")

(* Mutant of Enforced: a write nobody looked at passes.                    *)
WritesPass == IF verdict = "failed" \/ red THEN "continue" ELSE "complete"

(* _enforce_completion_evidence: no verdict of the reviewer overrides a    *)
(* failed check or a write nobody looked at.                               *)
Enforced ==
    IF verdict = "failed" \/ red \/ (wrote /\ ~Observed) THEN "continue" ELSE "complete"

(* The reviewer's answer; without one the agent is asked once to check     *)
(* itself.  A demand repeated word for word ends the task when nothing has *)
(* happened since, and so does the limit of demands.                       *)
Review ==
    /\ phase = "review"
    /\ \E says \in {"complete", "continue", "blocked", "unknown"}, same \in BOOLEAN :
         LET decision == IF says = "complete" THEN Enforced ELSE says
         IN \/ cancelled /\ Finish("cancelled") /\ UNCHANGED <<continues, unknowns, active>>
            \/ /\ ~cancelled /\ decision = "complete" /\ Finish("completed")
               /\ UNCHANGED <<continues, unknowns, active>>
            \/ /\ ~cancelled /\ decision = "continue" /\ active' = FALSE
               /\ IF continues < MaxContinues /\ ~(same /\ ~active)
                  THEN GoOn("run") /\ continues' = continues + 1
                  ELSE Finish("failed") /\ UNCHANGED continues
               /\ UNCHANGED unknowns
            \/ /\ ~cancelled /\ decision = "unknown" /\ UNCHANGED <<continues, active>>
               /\ IF unknowns = 0 THEN GoOn("run") /\ unknowns' = 1
                  ELSE Finish("failed") /\ UNCHANGED unknowns
            \/ /\ ~cancelled /\ decision = "blocked" /\ Finish("failed")
               /\ UNCHANGED <<continues, unknowns, active>>
    /\ UNCHANGED <<cancelled, workspace, evidence, verified, unsettled, again, repairs,
                   history>>

CancelTask ==
    /\ phase # "done" /\ ~cancelled /\ cancelled' = TRUE
    /\ UNCHANGED <<phase, status, workspace, evidence, verified, unsettled, counters,
                   active, history>>

(* The user works in the same workspace. *)
UserEdits ==
    /\ phase # "done" /\ workspace < MaxChanges /\ workspace' = workspace + 1
    /\ UNCHANGED <<phase, status, cancelled, evidence, verified, unsettled, counters,
                   active, history>>

TaskStep ==
    RunAgent \/ Verify \/ VerifyPasses \/ VerifyFails \/ VerifyStops \/ Review

TaskNext == TaskStep \/ CancelTask \/ UserEdits

TaskSpec == TaskInit /\ [][TaskNext]_taskVars

(* The service's thread goes on with its task. *)
FairTaskSpec == TaskSpec /\ WF_taskVars(TaskStep)

-----------------------------------------------------------------------------
(* A task that wrote is completed only when the verifier passed on the     *)
(* workspace as its last write left it or later, or the verifier found     *)
(* nothing to run and evidence is listed after that write, however many    *)
(* recoveries, repairs and reviews lie in between.                         *)
CompletionIsVerified ==
    status = "completed" /\ wrote =>
        \/ passedAt >= wroteAt
        \/ skipped /\ listed # "none"

(* Every task ends: no mix of gateway failures, stuck agents, failing      *)
(* checks and unsatisfied reviewers keeps it going for ever.               *)
TaskEnds == <>(phase = "done")

(* What makes the former inductive: a task that wrote comes to its review  *)
(* only over a verification that started after its last write, or found    *)
(* nothing to run; and who is completed has passed the review.             *)
ReviewIsVerified ==
    /\ wroteAt <= workspace /\ snap <= workspace
    /\ phase = "review" /\ wrote => skipped \/ passedAt >= wroteAt
    /\ phase # "done" => status = "running"

(* The inductive invariant: the turns of a task reach the review and the   *)
(* verdict only over a verification of the last write (_chat_locked).      *)
TaskInv == TaskTypeOK /\ ReviewIsVerified /\ CompletionIsVerified
=============================================================================
