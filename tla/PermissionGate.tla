---------------------------- MODULE PermissionGate ----------------------------
(***************************************************************************)
(* May a tool call run?  The agent loop asks the deny rules of the         *)
(* workspace; a call that changes something or uses the network then goes  *)
(* to the gate of its face: the web service, the terminal, or a node of a  *)
(* plan.  The gate asks the shared policy, which knows the permission mode *)
(* and the grants of the task, the same rules again and the allowlist of   *)
(* the session, and may ask the user, who may answer "always".  Each of    *)
(* these questions looks the file up anew for each of its parts.  The user *)
(* edits the rules, and clears the allowlist from another process, at any  *)
(* time.  A name stands for whatever its pattern matches.                  *)
(***************************************************************************)
EXTENDS Naturals

CONSTANTS
    Targets,   \* the calls: tool, risk, network, safe, wide, path and command
    RuleFiles, \* permissions.json as it is loaded: broken, deny and allow sides
    Unset,     \* no path, no command
    MaxTimes,  \* bound: edits of permissions.json
    MaxAsked   \* bound: calls

Empty == [tools |-> {}, paths |-> {}, commands |-> {}]

\* The registry refuses a tool of any other risk; of a file that cannot be
\* read no rule is known.
ASSUME GateAssumption ==
    /\ Targets # {} /\ {MaxTimes, MaxAsked} \subseteq Nat
    /\ \A t \in Targets : t.risk \in {"readonly", "write", "exec"}
    /\ \A r \in RuleFiles : r.broken => r.deny = Empty /\ r.allow = Empty

Modes == {"default", "plan", "acceptEdits", "yolo"}
Faces == {"web", "cli", "node"}
Steps == {"idle", "veto", "match", "paths", "gate", "authorize", "decide",
          "asked", "remember", "writing", "hook"}

VARIABLES
    mode, changes, network, face, \* permission_mode, allow_changes, allow_network
    policy, edition, \* permissions.json; its inode and ctime, and its mtime
    policyCache, \* _cache of permissions.py
    allowlist,   \* rules of the session in the allowlist file
    gateStep,    \* the step of the decision
    call,        \* the call being decided
    covered,     \* the allow side covers it
    base,        \* allowlist as add_session_rule has read it, with the new rule
    by,          \* who let it pass
    permit,      \* "none", "ran" or "refused"
    asked,       \* calls so far
    vetoed,      \* history: the deny side refused it at every moment
    torn,        \* history: between two looks of the veto the rules changed their
                 \* mind about the call's own target
    policyEdited,\* history: the rules were edited meanwhile
    granted,     \* history: an "always" covered it when it was decided
    said,        \* history: what the user said "always" to and did not clear
    clearRaced   \* history: a rule was added while the user cleared the list
grants == <<mode, changes, network, face>>
policyVars == <<policy, edition, policyCache>>
caseVars   == <<grants, allowlist, call, covered, base, asked, vetoed, torn,
                policyEdited, granted, said, clearRaced>>
permitVars == <<policyVars, gateStep, by, permit, caseVars>>

Side == [tools : SUBSET {t.tool : t \in Targets},
         paths : SUBSET ({t.path : t \in Targets} \ {Unset}),
         commands : SUBSET ({t.command : t \in Targets} \ {Unset})]

PermitTypeOK ==
    /\ mode \in Modes /\ face \in Faces /\ {changes, network} \subseteq BOOLEAN
    /\ policy \in RuleFiles /\ edition \in (0..MaxTimes) \X (0..MaxTimes)
    /\ policyCache \in [edition : (0..MaxTimes) \X (0..MaxTimes), rules : RuleFiles]
    /\ {allowlist, base, said} \subseteq Side
    /\ gateStep \in Steps
    /\ call \in Targets /\ by \in {"none", "policy", "rule", "session", "user"}
    /\ {covered, vetoed, torn, policyEdited, granted, clearRaced} \subseteq BOOLEAN
    /\ permit \in {"none", "ran", "refused"} /\ asked \in 0..MaxAsked

PermitInit ==
    /\ mode \in Modes /\ face \in Faces
    /\ changes \in BOOLEAN /\ network \in BOOLEAN
    /\ mode = "plan" \/ face = "node" => ~changes
    /\ mode = "yolo" /\ face = "web" => changes
    /\ mode = "yolo" /\ face # "cli" => network
    /\ policy \in RuleFiles /\ edition = <<0, 0>>
    /\ policyCache = [edition |-> edition, rules |-> policy]
    /\ allowlist = Empty /\ base = Empty /\ said = Empty
    /\ gateStep = "idle" /\ call = (CHOOSE c \in Targets : TRUE) /\ covered = FALSE
    /\ by = "none" /\ permit = "none" /\ asked = 0
    /\ vetoed = FALSE /\ torn = FALSE /\ policyEdited = FALSE /\ granted = FALSE
    /\ clearRaced = FALSE

-----------------------------------------------------------------------------
(* Mutant of Look: an equal-length rewrite within the clock goes unseen.   *)
CoarseLook ==
    IF policyCache.edition[2] = edition[2] THEN policyCache.rules ELSE policy

(* load_permission_rules, from the cache while the file is the same.       *)
Look == IF policyCache.edition = edition THEN policyCache.rules ELSE policy

Looked ==
    /\ policyCache' = [edition |-> edition, rules |-> Look]
    /\ UNCHANGED <<policy, edition>>

(* tool_rule_matches, the commands of bash, path_rule_matches. *)
Covers(side, c) ==
    \/ c.tool \in side.tools \/ c.path \in side.paths
    \/ c.tool = "bash" /\ c.command \in side.commands

(* path_rule_denies_call: an unreadable policy denies; so does a rule on   *)
(* any path what reads all of them.                                        *)
Vetoed(r, c) == r.broken \/ Covers(r.deny, c) \/ (c.wide /\ r.deny.paths # {})

NeedsGate(c) == c.risk \in {"write", "exec"} \/ c.network

(* authorize_tool behind the rules: its reasons to refuse, and the         *)
(* allowlist that lifts some of them, but not in plan mode.                *)
Reasons(c) ==
    IF mode = "yolo" THEN {}
    ELSE IF c.risk \notin {"readonly", "write", "exec"} THEN {"unknown"}
    ELSE IF mode = "plan" /\ c.risk # "readonly" THEN {"plan"}
    ELSE IF c.network /\ ~network THEN {"network"}
    ELSE IF c.risk = "write" /\ mode # "acceptEdits" /\ ~changes THEN {"write"}
    ELSE IF c.risk = "exec" /\ ~changes
    THEN IF c.network THEN {"network"} ELSE IF c.safe THEN {} ELSE {"exec"}
    ELSE {}
Lifted(reasons, c) == /\ mode # "plan" /\ Covers(allowlist, c)
                      /\ reasons \subseteq {"network", "write", "exec"}

(* The web service asks about missing grants; the terminal about whatever  *)
(* remains of a risky call, also what a rule denies; a node does not ask.  *)
Asks(reasons, c) ==
    \/ face = "web" /\ reasons \cap {"write", "exec"} # {}
    \/ /\ face = "cli" /\ reasons \cap {"plan", "unknown", "network"} = {}
       /\ c.risk \in {"write", "exec"}

TurnDown == gateStep' = "idle" /\ permit' = "refused" /\ UNCHANGED by
Pass(who) == gateStep' = "hook" /\ by' = who /\ UNCHANGED permit
GoOn(next) == gateStep' = next /\ UNCHANGED <<by, permit>>

-----------------------------------------------------------------------------
Propose(c) ==
    /\ gateStep = "idle" /\ asked < MaxAsked
    /\ gateStep' = "veto" /\ call' = c /\ asked' = asked + 1
    /\ by' = "none" /\ permit' = "none" /\ covered' = FALSE
    /\ vetoed' = Vetoed(policy, c) /\ torn' = FALSE /\ policyEdited' = FALSE
    /\ granted' = FALSE
    /\ UNCHANGED <<grants, policyVars, allowlist, base, said, clearRaced>>

(* The agent loop: a veto is not a question for the user.  First it looks  *)
(* whether the rules can be read at all.                                   *)
Veto ==
    /\ gateStep = "veto" /\ Looked
    /\ IF Look.broken THEN TurnDown ELSE GoOn("match")
    /\ UNCHANGED caseVars

ToGate == IF NeedsGate(call) THEN GoOn("gate") ELSE Pass("policy")

(* Then for a rule on the call's own target; here a file that has become   *)
(* unreadable has no rules.                                                *)
MatchRules ==
    /\ gateStep = "match" /\ Looked
    /\ \/ Covers(Look.deny, call) /\ TurnDown
       \/ ~Covers(Look.deny, call) /\ call.wide /\ GoOn("paths")
       \/ ~Covers(Look.deny, call) /\ ~call.wide /\ ToGate
    /\ UNCHANGED caseVars

(* Then, for what reads every path, for a rule on any.                     *)
MatchPaths ==
    /\ gateStep = "paths" /\ Looked
    /\ IF Look.broken \/ Look.deny.paths # {} THEN TurnDown ELSE ToGate
    /\ UNCHANGED caseVars

(* The web service looks up the allow side first. *)
AskGate ==
    /\ gateStep = "gate" /\ GoOn("authorize")
    /\ IF face = "web"
       THEN Looked /\ covered' = (~Covers(Look.deny, call) /\ Covers(Look.allow, call))
       ELSE UNCHANGED <<policyVars, covered>>
    /\ UNCHANGED <<grants, allowlist, call, base, asked, vetoed, torn,
                   policyEdited, granted, said, clearRaced>>

(* What follows from the reasons to refuse.                                *)
Settle(reasons) ==
    /\ \/ reasons = {} /\ Pass("policy")
       \/ reasons # {} /\ Lifted(reasons, call) /\ Pass("session")
       \/ /\ reasons # {} /\ ~Lifted(reasons, call) /\ Asks(reasons, call)
          /\ IF covered THEN Pass("rule") ELSE GoOn("asked")
       \/ reasons # {} /\ ~Lifted(reasons, call) /\ ~Asks(reasons, call) /\ TurnDown
    /\ granted' = (clearRaced \/ Covers(said, call))

(* The gate looks whether the rules can be read, and again for a rule.     *)
Authorize ==
    /\ gateStep = "authorize" /\ Looked
    /\ IF Look.broken THEN Settle({"denied"}) ELSE GoOn("decide") /\ UNCHANGED granted
    /\ UNCHANGED <<grants, allowlist, call, covered, base, asked, vetoed, torn,
                   policyEdited, said, clearRaced>>

Decide ==
    /\ gateStep = "decide" /\ Looked
    /\ Settle(IF Covers(Look.deny, call) THEN {"denied"} ELSE Reasons(call))
    /\ UNCHANGED <<grants, allowlist, call, covered, base, asked, vetoed, torn,
                   policyEdited, said, clearRaced>>

(* The user answers, or nobody does in time. *)
Answer ==
    /\ gateStep = "asked"
    /\ TurnDown \/ Pass("user") \/ GoOn("remember")
    /\ UNCHANGED <<policyVars, caseVars>>

(* "always" is about this command and this path; about the tool where the  *)
(* call has neither, or when the terminal's user says so.                  *)
Remembered(c, wider) ==
    IF wider \/ (c.path = Unset /\ (c.tool # "bash" \/ c.command = Unset))
    THEN [tools |-> {c.tool}, paths |-> {}, commands |-> {}]
    ELSE [tools |-> {}, paths |-> {c.path} \ {Unset},
          commands |-> IF c.tool = "bash" THEN {c.command} \ {Unset} ELSE {}]
Joined(a, b) == [axis \in DOMAIN a |-> a[axis] \cup b[axis]]

(* add_session_rule reads the file and writes it; its lock is of one       *)
(* process only.                                                           *)
ReadList ==
    /\ gateStep = "remember"
    /\ \E wider \in IF face = "cli" THEN BOOLEAN ELSE {FALSE} :
         /\ base' = Joined(allowlist, Remembered(call, wider))
         /\ said' = Joined(said, Remembered(call, wider))
    /\ GoOn("writing")
    /\ UNCHANGED <<grants, policyVars, allowlist, call, covered, asked, vetoed,
                   torn, policyEdited, granted, clearRaced>>

(* Whether or not it could be remembered, the call passes. *)
WriteList ==
    /\ gateStep = "writing" /\ allowlist' \in {base, allowlist} /\ Pass("user")
    /\ UNCHANGED <<grants, policyVars, call, covered, base, asked, vetoed,
                   torn, policyEdited, granted, said, clearRaced>>

(* A PreToolUse hook may still refuse. *)
AskHooks ==
    /\ gateStep = "hook" /\ gateStep' = "idle" /\ permit' \in {"ran", "refused"}
    /\ UNCHANGED <<grants, policyVars, allowlist, call, covered, base, by,
                   asked, vetoed, torn, policyEdited, granted, said, clearRaced>>

EditRules(content) ==
    /\ content # policy /\ edition[1] < MaxTimes /\ policy' = content
    /\ edition' \in {<<edition[1] + 1, edition[2]>>,
                    <<edition[1] + 1, edition[1] + 1>>}
    /\ vetoed' = (vetoed /\ Vetoed(content, call)) /\ policyEdited' = TRUE
    /\ torn' = (torn \/ (/\ gateStep \in {"match", "paths"}
                        /\ Covers(content.deny, call) # Covers(policy.deny, call)))
    /\ UNCHANGED <<grants, policyCache, allowlist, gateStep, call, covered,
                   base, by, permit, asked, granted, said, clearRaced>>

(* replace_session_rules from the panel of the web service. *)
ClearList ==
    /\ allowlist # Empty /\ allowlist' = Empty /\ said' = Empty
    /\ clearRaced' = (clearRaced \/ gateStep = "writing")
    /\ UNCHANGED <<grants, policyVars, gateStep, call, covered, base, by,
                   permit, asked, vetoed, torn, policyEdited, granted>>

PermitNext ==
    \/ Veto \/ MatchRules \/ MatchPaths \/ AskGate \/ Authorize \/ Decide
    \/ Answer \/ ReadList \/ WriteList \/ AskHooks \/ ClearList
    \/ \E c \in Targets : Propose(c)
    \/ \E content \in RuleFiles : EditRules(content)

PermitSpec == PermitInit /\ [][PermitNext]_permitVars

-----------------------------------------------------------------------------
(* A deny rule that stood while a call was decided has stopped it, however *)
(* the cached rules, the prompt and the allowlist came into it: unless     *)
(* somebody turned the rules over between two looks of that one question,  *)
(* so that neither look saw what stood.  And as long as nobody edited the  *)
(* rules meanwhile: in plan mode nothing changes anything, the network is  *)
(* used on a grant of the task or an "always" of the user, and the         *)
(* allowlist lets nothing pass that no "always" covers.                    *)
PermittedIsGranted ==
    permit = "ran" =>
        /\ ~vetoed \/ torn
        /\ ~policyEdited /\ mode = "plan" => call.risk = "readonly"
        /\ ~policyEdited /\ call.network => network \/ mode = "yolo" \/ by = "session"
        /\ by = "session" => granted

-----------------------------------------------------------------------------
(* Steps behind the policy of the shared gate, and those of the veto.      *)
Decided == {"asked", "remember", "writing", "hook"}
InVeto  == {"veto", "match", "paths"}

(* The cache is of an earlier edition, or right.                           *)
CacheIsRight ==
    /\ policyCache.edition[1] <= edition[1]
    /\ policyCache.edition = edition => policyCache.rules = policy

(* Inside the veto each look has left what only the next one can refuse;   *)
(* behind it no rule stood all the time, and unless somebody edited the    *)
(* rules none stands.                                                      *)
VetoIsPast ==
    /\ gateStep \in InVeto /\ vetoed => Vetoed(policy, call)
    /\ gateStep = "match" /\ vetoed /\ ~torn => call.wide \/ Covers(policy.deny, call)
    /\ gateStep = "paths" /\ vetoed /\ ~torn => call.wide /\ ~Covers(policy.deny, call)
    /\ gateStep \in {"match", "paths"} /\ ~policyEdited => ~policy.broken
    /\ gateStep = "paths" /\ ~policyEdited => ~Covers(policy.deny, call)
    /\ gateStep = "paths" => call.wide
    /\ gateStep \notin {"idle"} \cup InVeto \/ permit = "ran" => ~vetoed \/ torn
    /\ gateStep \in {"gate", "authorize", "decide"} /\ ~policyEdited => ~Vetoed(policy, call)

(* What the policy let through, or asks the user about, is within the mode *)
(* and the grants of the task.                                             *)
WithinGrants ==
    (gateStep \in Decided \/ permit = "ran") /\ ~policyEdited =>
        /\ mode = "plan" => call.risk = "readonly"
        /\ call.network => network \/ mode = "yolo" \/ by = "session"

(* The allowlist, and what is about to be written to it, come from the     *)
(* user, unless a clearing was overwritten.                                *)
ListIsSaid ==
    ~clearRaced => \A axis \in DOMAIN Empty :
        /\ allowlist[axis] \subseteq said[axis]
        /\ gateStep = "writing" => base[axis] \subseteq said[axis]

(* Only the allowlist passes a call in its name.                           *)
SessionIsGranted ==
    /\ by = "session" => granted
    /\ gateStep \notin {"idle", "hook"} => by = "none"

PermitInv ==
    /\ PermitTypeOK /\ CacheIsRight /\ VetoIsPast /\ WithinGrants /\ ListIsSaid
    /\ SessionIsGranted
=============================================================================
