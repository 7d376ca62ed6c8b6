------------------------------- MODULE Approvals -------------------------------
(***************************************************************************)
(* Interactive approvals of web.py.  A tool call that needs one opens a    *)
(* prompt, or joins the open prompt of an identical call of its session,   *)
(* and waits until the prompt is resolved, its own deadline has passed or  *)
(* its task is cancelled.  The call that opened the prompt ends it when it *)
(* gives up; one that joined only leaves.  The user's answer, the shutdown *)
(* of the service and the calls that give up meet under _approval_guard.   *)
(*                                                                         *)
(* A call asks once and gives its name to the prompt it opens.  "always"   *)
(* puts a rule into the session's allowlist, which later calls match.      *)
(***************************************************************************)
EXTENDS Naturals, FiniteSets

CONSTANTS
    Calls,         \* tool calls waiting in request_approval
    Previews,      \* merge keys: session, tool and preview
    Nobody         \* no call

ASSUME NobodyAssumption == Nobody \notin Calls

Permits == {"allow", "always"}
Decisions == Permits \cup {"deny"}

VARIABLES
    byKey,         \* _approval_by_key
    open,          \* the ids of _approval_groups
    resolved,      \* group.resolved
    decision,      \* group.decision
    waiters,       \* group.waiters
    rules,         \* allowlist of the session
    cancelledCalls,  \* cancel events that are set
    callPc,        \* where each call is
    preview,       \* its key
    prompt,        \* the group it waits for
    verdict,       \* what should_allow made of it
    answered,      \* history: what the user was told was applied
    audience       \* history: who waited when the user answered

groups  == <<byKey, open, resolved, decision, waiters>>
history == <<answered, audience>>
asksVars == <<groups, rules, cancelledCalls, callPc, preview, prompt, verdict, history>>

CallPlaces == {"new", "waiting", "leaving", "remember", "done"}

AsksTypeOK ==
    /\ byKey \in [Previews -> Calls \cup {Nobody}]
    /\ open \subseteq Calls /\ resolved \subseteq Calls
    /\ decision \in [Calls -> Decisions]
    /\ waiters \in [Calls -> SUBSET Calls]
    /\ rules \subseteq Previews /\ cancelledCalls \subseteq Calls
    /\ callPc \in [Calls -> CallPlaces] /\ preview \in [Calls -> Previews]
    /\ prompt \in [Calls -> Calls \cup {Nobody}]
    /\ verdict \in [Calls -> Decisions \cup {"none", "rule"}]
    /\ answered \in [Calls -> Decisions \cup {"none"}]
    /\ audience \in [Calls -> SUBSET Calls]

AsksInit ==
    /\ byKey = [k \in Previews |-> Nobody]
    /\ open = {} /\ resolved = {} /\ rules = {} /\ cancelledCalls = {}
    /\ decision = [c \in Calls |-> "deny"]
    /\ waiters = [c \in Calls |-> {}] /\ audience = waiters
    /\ callPc = [c \in Calls |-> "new"]
    /\ preview \in [Calls -> Previews]
    /\ prompt = [c \in Calls |-> Nobody]
    /\ verdict = [c \in Calls |-> "none"] /\ answered = verdict

Goto(c, place) == callPc' = [callPc EXCEPT ![c] = place]
Owner(c) == prompt[c] = c

(* A rule of the allowlist lets the call pass without a prompt. *)
PassByRule(c) ==
    /\ callPc[c] = "new" /\ preview[c] \in rules
    /\ verdict' = [verdict EXCEPT ![c] = "rule"] /\ Goto(c, "done")
    /\ UNCHANGED <<groups, rules, cancelledCalls, preview, prompt, history>>

(* The prompt an identical call may join. *)
Joinable(k) == {g \in open : byKey[k] = g /\ g \notin resolved}

Ask(c) ==
    LET k == preview[c]
        g == IF Joinable(k) # {} THEN CHOOSE j \in Joinable(k) : TRUE ELSE c
    IN /\ callPc[c] = "new" /\ k \notin rules /\ Goto(c, "waiting")
       /\ prompt' = [prompt EXCEPT ![c] = g]
       /\ waiters' = [waiters EXCEPT ![g] = @ \cup {c}]
       /\ byKey' = [byKey EXCEPT ![k] = g] /\ open' = open \cup {g}
       /\ UNCHANGED <<resolved, decision, rules, cancelledCalls, preview, verdict,
                      history>>

CancelTask(c) ==
    /\ callPc[c] \in {"new", "waiting"} /\ c \notin cancelledCalls
    /\ cancelledCalls' = cancelledCalls \cup {c}
    /\ UNCHANGED <<groups, rules, callPc, preview, prompt, verdict, history>>

(* The wait ends: resolved, cancelled or past its deadline. *)
Wake(c) ==
    /\ callPc[c] = "waiting" /\ Goto(c, "leaving")
    /\ UNCHANGED <<groups, rules, cancelledCalls, preview, prompt, verdict, history>>

(* A prompt leaves both tables. *)
Unlist(g) ==
    /\ open' = open \ {g}
    /\ byKey' = [k \in Previews |-> IF byKey[k] = g THEN Nobody ELSE byKey[k]]

Take(c, d) ==
    /\ verdict' = [verdict EXCEPT ![c] = d]
    /\ Goto(c, IF d = "always" THEN "remember" ELSE "done")

(* An answer that came after the wait had ended still counts. *)
TakeDecision(c) ==
    /\ callPc[c] = "leaving" /\ prompt[c] \in resolved
    /\ Take(c, decision[prompt[c]])
    /\ UNCHANGED <<groups, rules, cancelledCalls, preview, prompt, history>>

(* Mutant of EndPrompt: the deadline of the opener overrides an answer.    *)
DeadlineWins(c) ==
    /\ callPc[c] = "leaving" /\ Owner(c)
    /\ resolved' = resolved \cup {c} /\ decision' = [decision EXCEPT ![c] = "deny"]
    /\ Unlist(c) /\ Take(c, "deny")
    /\ UNCHANGED <<waiters, rules, cancelledCalls, preview, prompt, history>>

EndPrompt(c) ==
    /\ callPc[c] = "leaving" /\ c \notin resolved /\ Owner(c)
    /\ resolved' = resolved \cup {c} /\ decision' = [decision EXCEPT ![c] = "deny"]
    /\ Unlist(c) /\ Take(c, "deny")
    /\ UNCHANGED <<waiters, rules, cancelledCalls, preview, prompt, history>>

Detach(c) ==
    /\ callPc[c] = "leaving" /\ prompt[c] \notin resolved /\ ~Owner(c)
    /\ waiters' = [waiters EXCEPT ![prompt[c]] = @ \ {c}]
    /\ Take(c, "deny")
    /\ UNCHANGED <<byKey, open, resolved, decision, rules, cancelledCalls, preview,
                   prompt, history>>

(* add_session_rule, after the prompt is over. *)
Remember(c) ==
    /\ callPc[c] = "remember" /\ Goto(c, "done")
    /\ rules' = rules \cup {preview[c]}
    /\ UNCHANGED <<groups, cancelledCalls, preview, prompt, verdict, history>>

(* resolve_approval says "resolved"; an unknown id changes nothing. *)
Resolve(g, d) ==
    /\ g \in open /\ g \notin resolved
    /\ resolved' = resolved \cup {g} /\ decision' = [decision EXCEPT ![g] = d]
    /\ Unlist(g)
    /\ answered' = [answered EXCEPT ![g] = d]
    /\ audience' = [audience EXCEPT ![g] = waiters[g]]
    /\ UNCHANGED <<waiters, rules, cancelledCalls, callPc, preview, prompt, verdict>>

(* _deny_all_approvals, the first step of shutdown. *)
DenyAll ==
    /\ open # {}
    /\ resolved' = resolved \cup open
    /\ decision' = [g \in Calls |->
                       IF g \in open \ resolved THEN "deny" ELSE decision[g]]
    /\ open' = {} /\ byKey' = [k \in Previews |-> Nobody]
    /\ UNCHANGED <<waiters, rules, cancelledCalls, callPc, preview, prompt, verdict,
                   history>>

(* Every wait is bounded by the deadline. *)
Progress == \E c \in Calls :
    Wake(c) \/ TakeDecision(c) \/ EndPrompt(c) \/ Detach(c) \/ Remember(c)

AsksNext ==
    \/ Progress
    \/ \E c \in Calls : PassByRule(c) \/ Ask(c) \/ CancelTask(c)
    \/ \E g \in Calls, d \in Decisions : Resolve(g, d)
    \/ DenyAll

AsksSpec == AsksInit /\ [][AsksNext]_asksVars
Finished(c) == callPc[c] \in {"remember", "done"}

-----------------------------------------------------------------------------
(* When the user is told that the answer was applied, every call that was  *)
(* waiting at that prompt ends with this answer, also one whose deadline   *)
(* or cancellation had already ended its wait, and also one that joined    *)
(* (resolve_approval against the end of request_approval).                 *)
AnswerIsFollowed ==
    \A g \in Calls : answered[g] # "none" =>
        \A c \in audience[g] : Finished(c) => verdict[c] = answered[g]

(* A call passes a prompt only on an answer the user gave after the call   *)
(* had joined it: never on the answer to an earlier prompt with the same   *)
(* preview, and never because somebody gave up.                            *)
PermitIsFresh ==
    \A c \in Calls : verdict[c] \in Permits =>
        answered[prompt[c]] = verdict[c] /\ c \in audience[prompt[c]]

(* An answer reaches the calls it was given to, all of them and no other.  *)
AnswerIsKept == AnswerIsFollowed /\ PermitIsFresh

(* What makes that inductive.  A call waits for the prompt it joined, and  *)
(* that prompt was opened by its own call,                                 *)
InPrompt ==
    /\ \A c \in Calls : callPc[c] = "new" => prompt[c] = Nobody /\ verdict[c] = "none"
    /\ \A c \in Calls : callPc[c] \in {"waiting", "leaving"} =>
          prompt[c] \in Calls /\ c \in waiters[prompt[c]]
    /\ \A g \in Calls : \A c \in waiters[g] : prompt[c] = g
    /\ \A g \in open \cup resolved : prompt[g] = g

(* nobody leaves a prompt with a verdict before it is resolved,            *)
NobodyEarly ==
    \A g \in Calls \ resolved : \A c \in waiters[g] : ~Finished(c)

(* the first resolution of a prompt is the last, and only an answer of the *)
(* user permits,                                                           *)
AnswerStands ==
    /\ open \cap resolved = {}
    /\ \A g \in Calls : answered[g] # "none" =>
          g \in resolved /\ decision[g] = answered[g]
    /\ \A g \in Calls : decision[g] \in Permits => answered[g] = decision[g]

(* and all who wait when it comes are its audience.                        *)
AudienceWaits ==
    \A g \in Calls :
        /\ \A c \in audience[g] : prompt[c] = g
        /\ answered[g] # "none" => \A c \in Calls :
              callPc[c] \in {"waiting", "leaving"} /\ prompt[c] = g => c \in audience[g]

(* The inductive invariant: a prompt, its waiters and the answer agree     *)
(* until the last waiter has left (request_approval, resolve_approval).    *)
AsksInv ==
    AsksTypeOK /\ InPrompt /\ NobodyEarly /\ AnswerStands /\ AudienceWaits /\ AnswerIsKept
=============================================================================
