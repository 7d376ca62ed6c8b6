------------------------------- MODULE MCAgent -------------------------------
(***************************************************************************)
(* Instances for TLC of the parts of a chat: the locks, the approvals and  *)
(* the permissions of the web service, the agent's loop, the plan, the     *)
(* background shells, the MCP client, the provider, the conversation, the  *)
(* rollback of the workspace, the sub-agents, the verifier, the review of  *)
(* the evidence, the editor, the choice of models, the hooks, a command,   *)
(* the index, the list of changes, the second provider, the manager of the *)
(* MCP servers and the files all processes share.  They meet only through  *)
(* calls and results, so every behaviour exercises one part, chosen at the *)
(* start among Parts, and the others stay as they are.                     *)
(*                                                                         *)
(* The parts that theorems are about are extended, so that TLC checks the  *)
(* very definitions the proofs are about.                                  *)
(***************************************************************************)
EXTENDS Sequences, SessionLocks, Approvals, WorkspaceRollback, SubAgents,
        PermissionGate, HookRunner, Verification, AgentLoop, McpClient, GuardedEdits,
        SharedFiles, EvidenceGate, PlanGraph, RunModels, BackgroundShells,
        ForegroundCommand, EvidenceIndex, ChangeSummary, ProviderChat,
        Conversation, AnthropicChat, McpServers

CONSTANTS
    Parts,
    MaxNudges

(* The rounds of the loop: calls alone, beside each other, and doubled.    *)
Rounds == {<<"read", "check">>, <<"edit", "check">>,
           <<"search", "search">>}

(* The calls a policy tells apart, and three of its contents.              *)
NoDetail == "-"
Target(name, risk, online, wide, path, command) ==
    [tool |-> name, risk |-> risk, network |-> online, safe |-> FALSE,
     wide |-> wide, path |-> path, command |-> command]
CallTargets ==
    {Target("read", "readonly", FALSE, FALSE, "p", NoDetail),
     Target("grep", "readonly", FALSE, TRUE, NoDetail, NoDetail),
     Target("edit", "write", FALSE, FALSE, "p", NoDetail),
     Target("edit", "write", FALSE, FALSE, "q", NoDetail),
     Target("bash", "exec", TRUE, FALSE, NoDetail, "c")}
NoRule == [tools |-> {}, paths |-> {}, commands |-> {}]
Policies ==
    LET none == [broken |-> FALSE, deny |-> NoRule, allow |-> NoRule]
    IN {none, [none EXCEPT !.broken = TRUE],
        [none EXCEPT !.deny.paths = {"p"}, !.allow.tools = {"edit", "bash"}]}

(* Deployments without and with routing; the tiers name a model that is    *)
(* unknown (x) and one without a credential (d, e).                        *)
Deployments ==
    LET off == [enabled |-> FALSE,
                tierOf |-> [s \in {"planning", "inspect", "repair", "review"} |->
                                IF s = "repair" THEN "deep" ELSE "fast"],
                tiers |-> [t \in {"fast", "deep"} |->
                               IF t = "fast" THEN <<"x", "b">> ELSE <<"c", "b", "d">>],
                failover |-> <<"deep", "fast">>, spare |-> <<"d", "a">>, limit |-> 5]
        on == [off EXCEPT !.enabled = TRUE]
    IN {[off EXCEPT !.spare = <<"b", "c">>], on,
        [on EXCEPT !.tierOf["review"] = "deep", !.failover = <<>>, !.limit = 3],
        [on EXCEPT !.tiers["deep"] = <<"e">>]}
Prices == [m \in {"a", "b", "c", "d", "e", "x"} |-> IF m \in {"c", "e"} THEN 2 ELSE 1]

(* Hooks of one tool, of two, for a prompt; one that is strict, one whose  *)
(* environment is refused, one that is malformed.                          *)
HookEntry(for, names, strict, limit, env, wellFormed) ==
    [event |-> for, tools |-> names, strict |-> strict, limit |-> limit, env |-> env,
     wellFormed |-> wellFormed]
HookEntries ==
    {HookEntry("PreToolUse", {"a"}, TRUE, 1, TRUE, TRUE),
     HookEntry("PreToolUse", {"a", "b"}, FALSE, 2, TRUE, TRUE),
     HookEntry("PreToolUse", {"a"}, TRUE, 1, FALSE, TRUE),
     HookEntry("UserPromptSubmit", {}, FALSE, 1, TRUE, TRUE),
     HookEntry("PostToolUse", {"b"}, FALSE, 1, TRUE, FALSE)}

(* HEAD: no commit, the file, the file changed. *)
Revisions == <<[f \in {2} |-> 0], [f \in {2} |-> 1], [f \in {2} |-> 2]>>

(* Two servers: one name is the same in full, two are when folded, and two *)
(* when cut.                                                               *)
FullNames == [p \in {1, 2} \X {"t", "u", "l"} |->
                  CASE p[2] = "t" -> "x"
                    [] p[2] = "u" -> IF p[1] = 1 THEN "v" ELSE "w"
                    [] OTHER -> IF p[1] = 1 THEN "y" ELSE "z"]
Names       == {"v", "w", "x", "y", "z"}
FoldedNames == [n \in Names |-> IF n = "w" THEN "v" ELSE n]
CutNames    == [n \in Names |-> IF n \in {"y", "z"} THEN "-" ELSE n]

(* Ids as a gateway gives them: a, and what another may call its copy.     *)
ToolIds == {[name |-> "a", dups |-> <<>>], [name |-> "a", dups |-> <<2>>]}
NoToolId == [name |-> "", dups |-> <<>>]

VARIABLE part
vars == <<part, locksVars, asksVars, rollVars, subVars, loopVars, planVars, shellVars,
          mcpVars, chatVars, talkVars, verificationVars, gateVars, editVars, permitVars,
          runVars, hookVars, commandVars, indexVars, summaryVars, anthropicVars, serverVars,
          filesVars>>

-----------------------------------------------------------------------------
(* Where a part starts in many ways it is pinned to one while it rests.    *)
Rests(p) == part # p
Wire == [protocol |-> "responses", native |-> TRUE, effort |-> 0, channel |-> "paid"]

Init ==
    /\ part \in Parts
    /\ Rests("locks") => key = [r \in Requests |-> CHOOSE s \in Sessions : TRUE]
    /\ Rests("asks") => preview = [c \in Calls |-> CHOOSE v \in Previews : TRUE]
    /\ Rests("roll") => file = Absent
    /\ Rests("sub") => caller = [r \in Runs |-> Nothing] /\ slots = Slots
    /\ Rests("plan") => /\ depends = [n \in 1..PlanSize |-> {}]
                        /\ nodeRetries = [n \in 1..PlanSize |-> 0] /\ writing = {}
    /\ Rests("model") => /\ text = [n \in 1..1 |-> CHOOSE l \in Letters : TRUE]
                         /\ dialect = "incremental" /\ plan = TRUE /\ auto = TRUE
                         /\ wire = Wire
    /\ unread \in {few \in SUBSET Files : Cardinality(few) <= IF Rests("check") THEN 0 ELSE 1}
    /\ Rests("gate") => talk = TRUE /\ mayWrite = TRUE
    /\ Rests("edit") => onDisk = 1
    /\ Rests("permit") => /\ mode = "default" /\ face = "web"
                          /\ changes = FALSE /\ network = FALSE
                          /\ policy = CHOOSE r \in Policies : r.broken
    /\ Rests("run") => config = CHOOSE c \in Configs : ~c.enabled
    /\ Rests("hook") => source = "absent"
    /\ Rests("index") => there = {} /\ barred = {}
    /\ Rests("panel") => head = 1
    /\ Rests("claude") => /\ wireHistory = <<[role |-> "user", calls |-> 0]>>
                          /\ streaming = TRUE /\ hasPlan = TRUE
    /\ Rests("tools") => accepted = {}
    /\ Rests("share") => sharing = "memory" /\ supported = TRUE
    /\ LocksInit /\ AsksInit /\ RollInit /\ SubInit
    /\ LoopInit /\ PlanInit /\ ShellsInit
    /\ McpInit /\ ChatInit /\ TalkInit
    /\ VerificationInit /\ GateInit /\ EditInit
    /\ PermitInit /\ RunInit /\ HookInit /\ CommandInit
    /\ IndexInit /\ SummaryInit /\ AnthropicInit /\ ServersInit
    /\ FilesInit

(* A chat begins, and after one that was cancelled the next. *)
Chat ==
    /\ loopPc = "idle" \/ (loopPc = "ended" /\ ending = "cancelled")
    /\ Start(FALSE)

(* How often the guards of the loop have asked the model again. *)
Nudges == protocol + nonterm + refusals + retries + replans
              + (IF soft THEN 1 ELSE 0)

(* One shell writes more than its ring holds; people edit one of the       *)
(* inputs of a verification; a request of the panel goes wrong before HEAD *)
(* moves, and where the counts did not.                                    *)
OneLoud   == Cardinality({s \in Shells : shell[s].wrote > Ring}) <= 1
OneEdited == Cardinality({f \in Files : content[f] > 1}) <= 1
OneWrong  == troubled => ~spoilt /\ moves = 0

Next ==
    /\ UNCHANGED part
    /\ \/ part = "locks" /\ LocksNext
       \/ part # "locks" /\ UNCHANGED locksVars
    /\ \/ part = "asks" /\ AsksNext
       \/ part # "asks" /\ UNCHANGED asksVars
    /\ \/ part = "roll" /\ RollNext
       \/ part # "roll" /\ UNCHANGED rollVars
    /\ \/ part = "sub" /\ SubNext
       \/ part # "sub" /\ UNCHANGED subVars
    /\ \/ part = "loop" /\ (Chat \/ LoopNext) /\ Nudges' <= MaxNudges
       \/ part # "loop" /\ UNCHANGED loopVars
    /\ \/ part = "plan" /\ PlanStep
       \/ part # "plan" /\ UNCHANGED planVars
    /\ \/ part = "bash" /\ ShellsNext /\ OneLoud'
       \/ part # "bash" /\ UNCHANGED shellVars
    /\ \/ part = "mcp" /\ McpNext
       \/ part # "mcp" /\ UNCHANGED mcpVars
    /\ \/ part = "model" /\ ChatNext
       \/ part # "model" /\ UNCHANGED chatVars
    /\ \/ part = "talk" /\ TalkNext
       \/ part # "talk" /\ UNCHANGED talkVars
    /\ \/ part = "check" /\ VerificationNext /\ OneEdited'
       \/ part # "check" /\ UNCHANGED verificationVars
    /\ \/ part = "gate" /\ GateNext
       \/ part # "gate" /\ UNCHANGED gateVars
    /\ \/ part = "edit" /\ EditNext
       \/ part # "edit" /\ UNCHANGED editVars
    /\ \/ part = "permit" /\ PermitNext
       \/ part # "permit" /\ UNCHANGED permitVars
    /\ \/ part = "run" /\ RunNext
       \/ part # "run" /\ UNCHANGED runVars
    /\ \/ part = "hook" /\ HookNext
       \/ part # "hook" /\ UNCHANGED hookVars
    /\ \/ part = "cmd" /\ CommandNext
       \/ part # "cmd" /\ UNCHANGED commandVars
    /\ \/ part = "index" /\ IndexNext
       \/ part # "index" /\ UNCHANGED indexVars
    /\ \/ part = "panel" /\ SummaryNext /\ OneWrong'
       \/ part # "panel" /\ UNCHANGED summaryVars
    /\ \/ part = "claude" /\ AnthropicNext
       \/ part # "claude" /\ UNCHANGED anthropicVars
    /\ \/ part = "tools" /\ ServersNext
       \/ part # "tools" /\ UNCHANGED serverVars
    /\ \/ part = "share" /\ FilesNext
       \/ part # "share" /\ UNCHANGED filesVars

Spec == Init /\ [][Next]_vars

-----------------------------------------------------------------------------
(* Every part is well typed, and the inductive invariants of the proofs    *)
(* hold where their part is at work.                                       *)
PartsInv ==
    /\ part \in Parts
    /\ part = "locks" => LocksInv
    /\ part = "asks" => AsksInv
    /\ part = "roll" => RollInv
    /\ part = "sub" => SubInv
    /\ part = "permit" => PermitInv
    /\ part = "loop" => LoopInv
    /\ part = "plan" => PlanInv
    /\ part = "bash" => ShellsInv
    /\ part = "mcp" => McpInv
    /\ part = "model" => ChatInv
    /\ part = "talk" => TalkInv
    /\ part = "check" => VerificationInv
    /\ part = "gate" => GateInv
    /\ part = "edit" => EditInv
    /\ part = "run" => RunInv
    /\ part = "hook" => HookInv
    /\ part = "cmd" => CommandInv
    /\ part = "index" => IndexInv
    /\ part = "panel" => SummaryInv
    /\ part = "claude" => WireInv
    /\ part = "tools" => ServersInv
    /\ part = "share" => FilesTypeOK /\ FilesInv

(* Polls of a shell return no byte twice and own up to what they leave out *)
(* of what its ring holds, the result of a command has all that it wrote   *)
(* or says that it was cut, and retries of a model neither duplicate, drop *)
(* nor splice its text.                                                    *)
OutputIsTold ==
    /\ NewOutputOnce
    /\ ResultIsTold
    /\ AnswerIsWhole

(* What the second provider makes of a history is a conversation, and its  *)
(* answer is shown once; the validator never has to stop a request, and    *)
(* every cut of a complete history is complete.                            *)
TalkIsWhole ==
    /\ RequestAnswered
    /\ HistoryIsWhole

(* The records are not older than the refresh, and no denied path has one; *)
(* what is told of a quiet workspace is how it is, unless git, a stat or a *)
(* read failed.                                                            *)
ToldIsCurrent ==
    /\ IndexIsCurrent
    /\ SummaryIsCurrent
=============================================================================
