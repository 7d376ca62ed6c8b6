------------------------------- MODULE RunModels -------------------------------
(***************************************************************************)
(* Which model serves a task and what it costs.  The stages of a task are  *)
(* routed to models; the provider of the run is built for planning, built  *)
(* again after a failure of the gateway, then on one of the fallback       *)
(* models, and built for repair once the verifier has failed; the judge    *)
(* has a provider of its own.  Every face of the run reports its tokens to *)
(* one budget, whose ceiling in money is that of planning.  A request      *)
(* takes one token and costs the price of its model.                       *)
(***************************************************************************)
EXTENDS Naturals, Sequences, FiniteSets, SequencesExt

CONSTANTS
    Configs,       \* deployments: enabled, tierOf, tiers, failover, spare, limit
    DefaultModel,  \* config.model
    Registered,    \* the models with a card
    Keyed,         \* those among them whose credential is set
    Price,         \* of a request, by model
    MaxTurns,   \* bound: requests of the agent loop in a task
    MaxRecoveries, \* task_recovery_retries
    MaxRepairs,    \* max_repair_attempts, or the turn cap of repair
    MaxContinues   \* max_completion_continues, or the turn cap of review

RunStages   == {"planning", "inspect", "repair", "review"}
RunOutcomes == {"none", "refused", "completed", "error", "cancelled", "raised"}

VARIABLES
    config,
    runStage,      \* current_stage
    serving,    \* model of the run's provider
    providers,       \* providers not closed: "run", "review"
    cursor,     \* fallback_cursor
    recoveries, repairs, continues, requests,
    runStep,       \* "begin", "plan", "dag", "turn", "answer", "verify", "judge",
                \* "close" or "end"
    charged,    \* budget.cost_usd
    tokens,     \* budget.tokens
    counted,    \* tokens_used of the result so far
    unfolded,   \* usage of the planner, its nodes and the sub-agents, added last
    runOutcome,
    paid,       \* history: cost at the prices of the models that served
    strayed,    \* history: a fallback has served
    tripped     \* history: the judge passed the ceiling
runVars == <<config, runStage, serving, providers, cursor, recoveries, repairs, continues,
             requests, runStep, charged, tokens, counted, unfolded, runOutcome, paid, strayed,
             tripped>>

Models == DOMAIN Price

(* A deployment names tiers that exist and models that have a price.       *)
ASSUME ConfigAssumption ==
    /\ Price \in [Models -> Nat] /\ DefaultModel \in Models
    /\ {MaxTurns, MaxRecoveries, MaxRepairs, MaxContinues} \subseteq Nat
    /\ \A c \in Configs :
         /\ c.tiers \in [DOMAIN c.tiers -> Seq(Models)]
         /\ c.tierOf \in [RunStages -> DOMAIN c.tiers]
         /\ c.failover \in Seq(DOMAIN c.tiers) /\ c.spare \in Seq(Models)

RunTypeOK ==
    /\ config \in Configs /\ runStage \in {"planning", "repair"} /\ serving \in Models
    /\ providers \subseteq {"run", "review"} /\ runOutcome \in RunOutcomes
    /\ runStep \in {"begin", "plan", "dag", "turn", "answer", "verify", "judge", "close",
                    "end"}
    /\ cursor \in 0..MaxRecoveries /\ recoveries \in 0..MaxRecoveries
    /\ repairs \in 0..MaxRepairs /\ continues \in 0..MaxContinues + 1
    /\ requests \in 0..MaxTurns
    /\ {charged, paid, tokens, counted, unfolded} \subseteq Nat
    /\ {strayed, tripped} \subseteq BOOLEAN

RunInit ==
    /\ config \in Configs /\ runStage = "planning" /\ serving = DefaultModel
    /\ providers = {} /\ cursor = 0 /\ recoveries = 0 /\ repairs = 0 /\ continues = 0
    /\ requests = 0 /\ runStep = "begin" /\ charged = 0 /\ tokens = 0 /\ counted = 0
    /\ unfolded = 0 /\ runOutcome = "none" /\ paid = 0 /\ strayed = FALSE /\ tripped = FALSE

-----------------------------------------------------------------------------
(* StageRouter: the first model of the stage's tier that is known; without *)
(* routing the model of the deployment.                                    *)
FirstKnown(tier) ==
    LET usable == {i \in DOMAIN tier : tier[i] \in Registered \cup {DefaultModel}}
    IN IF usable = {} THEN DefaultModel
       ELSE tier[CHOOSE i \in usable : \A j \in usable : i <= j]
Routed(s) ==
    IF config.enabled THEN FirstKnown(config.tiers[config.tierOf[s]]) ELSE DefaultModel

(* What the failover tiers and the deployment offer, list after list.      *)
Lists == Append([i \in DOMAIN config.failover |-> config.tiers[config.failover[i]]],
                config.spare)
Offers   == UNION {{i} \X DOMAIN Lists[i] : i \in DOMAIN Lists}
Named(p) == Lists[p[1]][p[2]]
Before(p, q) == p[1] < q[1] \/ (p[1] = q[1] /\ p[2] < q[2])

(* _get_fallback_models: each once, without the model of the route and the *)
(* deployment's own, in that order.                                        *)
Offered(s) ==
    {p \in Offers : /\ Named(p) \notin {Routed(s), DefaultModel}
                    /\ \A q \in Offers : Before(q, p) => Named(q) # Named(p)}
InOrder(some) ==
    LET rank(p) == Cardinality({q \in some : Before(q, p)}) + 1
    IN [k \in 1..Cardinality(some) |-> CHOOSE p \in some : rank(p) = k]
Fallbacks(s) ==
    LET order == InOrder(Offered(s))
    IN IF config.enabled THEN [k \in DOMAIN order |-> Named(order[k])] ELSE config.spare

(* _route_provider_spec: a routed model with a card needs its credential.  *)
Buildable(m) == config.enabled /\ m \in Registered => m \in Keyed

(* Budget.check; without routing there is no ceiling.                      *)
Exceeded(cost) == config.enabled /\ cost > config.limit

(* _stage_cost_estimator: the price of the model the stage is routed to.   *)
Priced(s) == Price[Routed(s)]

Ends(how) == runOutcome' = how /\ runStep' = "close"
Proceed(next) == runStep' = next /\ UNCHANGED runOutcome

-----------------------------------------------------------------------------
(* Nothing is built before every routed model can be.                      *)
Begin ==
    /\ runStep = "begin"
    /\ IF \E s \in RunStages : ~Buildable(Routed(s))
       THEN runStep' = "end" /\ runOutcome' = "refused" /\ UNCHANGED <<providers, serving>>
       ELSE /\ providers' = {"run", "review"} /\ serving' = Routed("planning")
            /\ Proceed("plan") \/ Proceed("turn")
    /\ UNCHANGED <<config, runStage, cursor, recoveries, repairs, continues, requests,
                   charged, tokens, counted, unfolded, paid, strayed, tripped>>

(* prepare_planner: passing the ceiling is reported and stops nothing yet. *)
PreparePlanner ==
    /\ runStep = "plan"
    /\ \/ /\ tokens' = tokens + 1 /\ unfolded' = unfolded + 1
          /\ charged' = charged + Priced("planning") /\ paid' = paid + Price[serving]
          /\ Proceed("dag") \/ Proceed("turn")
       \/ Proceed("turn") /\ UNCHANGED <<tokens, unfolded, charged, paid>>
       \/ Ends("raised") /\ UNCHANGED <<tokens, unfolded, charged, paid>>
    /\ UNCHANGED <<config, runStage, serving, providers, cursor, recoveries, repairs, continues,
                   requests, counted, strayed, tripped>>

(* execute_dynamic_plan folds the tokens of its nodes, which have providers *)
(* and budgets of their own; a plan it cannot finish ends the task.        *)
ExecuteDag ==
    /\ runStep = "dag"
    /\ \/ tokens' = tokens + 1 /\ unfolded' = unfolded + 1 /\ Proceed("turn")
       \/ Ends("raised") /\ UNCHANGED <<tokens, unfolded>>
    /\ UNCHANGED <<config, runStage, serving, providers, cursor, recoveries, repairs, continues,
                   requests, charged, counted, paid, strayed, tripped>>

(* record_turn, and the request of a turn leaves. *)
RecordTurn ==
    /\ runStep = "turn"
    /\ IF Exceeded(charged) THEN Ends("error") /\ UNCHANGED requests
       ELSE requests < MaxTurns /\ requests' = requests + 1 /\ Proceed("answer")
    /\ UNCHANGED <<config, runStage, serving, providers, cursor, recoveries, repairs, continues,
                   charged, tokens, counted, unfolded, paid, strayed, tripped>>

(* Its answer is counted, then charged; its tools may run a sub-agent.     *)
Answered ==
    /\ runStep = "answer"
    /\ \E sub \in {0, 1} :
         /\ charged' = charged + Priced(runStage) /\ paid' = paid + Price[serving]
         /\ counted' = counted + 1
         /\ IF Exceeded(charged') THEN Ends("error") /\ sub = 0
            ELSE Proceed("turn") \/ (sub = 0 /\ Proceed("verify"))
         /\ tokens' = tokens + 1 + sub /\ unfolded' = unfolded + sub
    /\ strayed' = (strayed \/ serving # Routed(runStage))
    /\ UNCHANGED <<config, runStage, serving, providers, cursor, recoveries, repairs, continues,
                   requests, tripped>>

(* It fails for good, or the task is cancelled. *)
Fail ==
    /\ runStep = "answer"
    /\ Ends("error") \/ Ends("cancelled")
    /\ UNCHANGED <<config, runStage, serving, providers, cursor, recoveries, repairs, continues,
                   requests, charged, tokens, counted, unfolded, paid, strayed, tripped>>

(* Mutant of RecoveryStage: a recovery falls back to planning.             *)
PlanningAgain == "planning"

(* A recovery stays in the stage of the run.                               *)
RecoveryStage == runStage

(* recreate_provider_after_failure: the first time on the model of the     *)
(* stage, then along its fallbacks, the last of which stays.               *)
Recover ==
    LET spares == Fallbacks(RecoveryStage)
        model == IF spares # <<>> /\ cursor > 0
                 THEN spares[IF cursor < Len(spares) THEN cursor ELSE Len(spares)]
                 ELSE Routed(RecoveryStage)
    IN /\ runStep = "answer"
       /\ IF recoveries = MaxRecoveries \/ Exceeded(charged)
          THEN Ends("error") /\ UNCHANGED <<recoveries, cursor, serving, providers>>
          ELSE /\ recoveries' = recoveries + 1 /\ cursor' = cursor + 1
               /\ IF Buildable(model)
                  THEN serving' = model /\ UNCHANGED providers /\ Proceed("turn")
                  ELSE providers' = providers \ {"run"} /\ UNCHANGED serving /\ Ends("raised")
       /\ UNCHANGED <<config, runStage, repairs, continues, requests, charged, tokens,
                      counted, unfolded, paid, strayed, tripped>>

(* Nothing to verify, or it passes. *)
Verified ==
    /\ runStep = "verify" /\ Proceed("judge")
    /\ UNCHANGED <<config, runStage, serving, providers, cursor, recoveries, repairs, continues,
                   requests, charged, tokens, counted, unfolded, paid, strayed, tripped>>

(* A failed verification moves the run to repair for good, to another      *)
(* provider if that has another model.                                     *)
Repair ==
    /\ runStep = "verify"
    /\ IF repairs = MaxRepairs
       THEN Ends("error") /\ UNCHANGED <<repairs, runStage, serving>>
       ELSE /\ repairs' = repairs + 1 /\ runStage' = "repair" /\ Proceed("turn")
            /\ serving' = IF Routed("repair") # Routed("planning") THEN Routed("repair")
                                                                   ELSE serving
    /\ UNCHANGED <<config, providers, cursor, recoveries, continues, requests, charged, tokens,
                   counted, unfolded, paid, strayed, tripped>>

(* The judge's usage, if it has any, is charged at the price of review;    *)
(* passing the ceiling ends the task before it is counted.                 *)
RecordReview ==
    /\ runStep = "judge"
    /\ \E used \in {0, 1} :
         /\ tokens' = tokens + used
         /\ charged' = charged + used * Priced("review")
         /\ paid' = paid + used * Price[Routed("review")]
         /\ IF used = 1 /\ Exceeded(charged')
            THEN Ends("error") /\ tripped' = TRUE /\ UNCHANGED <<counted, continues>>
            ELSE /\ counted' = counted + used /\ UNCHANGED tripped
                 /\ \/ Ends("completed") /\ UNCHANGED continues
                    \/ Ends("error") /\ UNCHANGED continues
                    \/ /\ continues' = continues + 1
                       /\ IF continues = MaxContinues THEN Ends("error") ELSE Proceed("turn")
    /\ UNCHANGED <<config, runStage, serving, providers, cursor, recoveries, repairs, requests,
                   unfolded, strayed>>

(* The usage of the other faces joins the result, and the providers close; *)
(* a task that raised reports nothing.                                     *)
Close ==
    /\ runStep = "close" /\ runStep' = "end" /\ providers' = {}
    /\ counted' = IF runOutcome = "raised" THEN 0 ELSE counted + unfolded
    /\ UNCHANGED <<config, runStage, serving, cursor, recoveries, repairs, continues,
                   requests, charged, tokens, unfolded, runOutcome, paid, strayed, tripped>>

RunNext ==
    \/ Begin \/ PreparePlanner \/ ExecuteDag \/ RecordTurn \/ Answered \/ Fail \/ Recover
    \/ Verified \/ Repair \/ RecordReview \/ Close

RunSpec == RunInit /\ [][RunNext]_runVars

-----------------------------------------------------------------------------
(* A request of the loop is of a model that the stage of the run names,    *)
(* through an open provider, and only while the ceiling is not passed.     *)
ServedByItsStage ==
    runStep = "answer" =>
        /\ serving \in {Routed(runStage)} \cup ToSet(Fallbacks(runStage))
        /\ "run" \in providers /\ ~Exceeded(charged)

(* In the end all providers are closed, the result reports the tokens of   *)
(* the budget, but for a judge that passed the ceiling, and as long as no  *)
(* fallback served the budget was charged what the models cost.            *)
AccountsAgree ==
    runStep = "end" =>
        /\ providers = {}
        /\ runOutcome \notin {"refused", "raised"}
               => tokens = counted + (IF tripped THEN 1 ELSE 0)
        /\ ~strayed => charged = paid

(* A stage is served by a model that it names, within the ceiling, and     *)
(* tokens and costs add up.                                                *)
ServedAndCounted == ServedByItsStage /\ AccountsAgree

(* While a task is at work its providers are open and its model is one     *)
(* that its stage names; every token is counted, or kept for the end, and  *)
(* the two prices part only when a fallback serves.                        *)
AtWork == {"plan", "dag", "turn", "answer", "verify", "judge"}
RunInv ==
    /\ RunTypeOK /\ cursor = recoveries
    /\ runStep \notin {"close", "end"} => continues <= MaxContinues
    /\ runStep = "begin" =>
         /\ providers = {} /\ runOutcome = "none"
         /\ tokens = 0 /\ counted = 0 /\ unfolded = 0
    /\ runStep \in {"begin", "plan", "dag"} => runStage = "planning"
    /\ runStep \in {"plan", "dag"} => serving = Routed("planning")
    /\ runStep \in AtWork => /\ providers = {"run", "review"} /\ runOutcome = "none"
                            /\ serving \in {Routed(runStage)} \cup ToSet(Fallbacks(runStage))
    /\ runStep = "close" => runOutcome \notin {"none", "refused"}
    /\ tripped => runStep \in {"close", "end"}
    /\ runStep # "end" => tokens = counted + unfolded + (IF tripped THEN 1 ELSE 0)
    /\ ~strayed => charged = paid
    /\ ServedAndCounted
=============================================================================
