------------------------------ MODULE HookRunner ------------------------------
(***************************************************************************)
(* The user's hooks around the tools of a run.  The file is read once, when *)
(* the run is set up; the commands of one event then run one after the     *)
(* other within a common deadline, and one of them may refuse.  Time is    *)
(* counted in units of the shortest limit.                                 *)
(***************************************************************************)
EXTENDS Naturals, Sequences

CONSTANTS
    Hooks,     \* entries of a file: event, tools, strict, limit, env, wellFormed
    ToolNames,
    NoTool,    \* events of a prompt or of the end of a run
    Budget,    \* MAX_HOOK_TOTAL_SECONDS
    Grace,     \* bound: time a kill takes
    MaxHooks,  \* bound: entries of a file
    MaxEvents  \* bound: events of a run

ASSUME HooksAssumption ==
    /\ {Budget, Grace, MaxHooks, MaxEvents} \subseteq Nat
    /\ \A h \in Hooks : h.limit \in Nat

Events    == {"UserPromptSubmit", "PreToolUse", "PostToolUse", "Stop"}
ToolEvents == {"PreToolUse", "PostToolUse"}
Sources   == {"off", "absent", "unreadable", "misshapen", "object"}
Outcomes  == {"env", "spawn", "timeout", "pipe", "zero", "deny", "nonzero"}

VARIABLES
    source,      \* MINICC_HOOKS and what .minicc/hooks.json is
    entries,     \* its entries
    hooks,       \* HookRunner.specs
    loadError,   \* HookRunner.load_error
    hookStep,    \* "parse", "idle", "event", "decided" or "raised"
    hookAt,      \* entry or spec the loop is at
    event, tool,
    left,        \* of the deadline
    hookRuling,  \* HookOutcome.decision
    effect,      \* what the loop did: "none", "blocked", "ran", "refused"
    events,      \* events so far
    heard,       \* history: outcome per spec of this event, "unheard" before
    hookTime     \* history: time of this event
hookVars == <<source, entries, hooks, loadError, hookStep, hookAt, event, tool,
              left, hookRuling, effect, events, heard, hookTime>>

HookTypeOK ==
    /\ source \in Sources /\ {entries, hooks} \subseteq Seq(Hooks)
    /\ Len(entries) <= MaxHooks /\ Len(hooks) <= MaxHooks /\ loadError \in BOOLEAN
    /\ hookStep \in {"parse", "idle", "event", "decided", "raised"}
    /\ hookAt \in 1..(MaxHooks + 1) /\ event \in Events /\ tool \in ToolNames \cup {NoTool}
    /\ left \in 0..Budget /\ hookRuling \in {"allow", "deny"} /\ hookTime \in Nat
    /\ effect \in {"none", "blocked", "ran", "refused"} /\ events \in 0..MaxEvents
    /\ heard \in [1..MaxHooks -> Outcomes \cup {"unheard"}]

Unheard == [i \in 1..MaxHooks |-> "unheard"]

HookInit ==
    /\ source \in Sources
    /\ entries \in IF source = "object" THEN UNION {[1..n -> Hooks] : n \in 0..MaxHooks}
                                        ELSE {<<>>}
    /\ hooks = <<>> /\ hookStep = "parse" /\ hookAt = 1 /\ loadError = FALSE
    /\ event = "UserPromptSubmit" /\ tool = NoTool /\ left = Budget /\ hookRuling = "allow"
    /\ effect = "none" /\ events = 0 /\ heard = Unheard /\ hookTime = 0

-----------------------------------------------------------------------------
(* A file that cannot be read is demoted to no hooks; one that is not an   *)
(* object raises.                                                          *)
Load ==
    /\ hookStep = "parse" /\ source # "object"
    /\ hookStep' = IF source = "misshapen" THEN "raised" ELSE "idle"
    /\ loadError' = (source = "unreadable")
    /\ UNCHANGED <<source, entries, hooks, hookAt, event, tool, left,
                   hookRuling, effect, events, heard, hookTime>>

(* One entry that is malformed disables them all.                          *)
Rejected == <<>>

Parse ==
    /\ hookStep = "parse" /\ source = "object"
    /\ \/ /\ hookAt > Len(entries) /\ hookStep' = "idle"
          /\ UNCHANGED <<hooks, loadError, hookAt>>
       \/ /\ hookAt <= Len(entries) /\ entries[hookAt].wellFormed
          /\ hooks' = Append(hooks, entries[hookAt]) /\ hookAt' = hookAt + 1
          /\ UNCHANGED <<hookStep, loadError>>
       \/ /\ hookAt <= Len(entries) /\ ~entries[hookAt].wellFormed
          /\ hooks' = Rejected /\ loadError' = TRUE /\ hookStep' = "idle" /\ UNCHANGED hookAt
    /\ UNCHANGED <<source, entries, event, tool, left, hookRuling, effect,
                   events, heard, hookTime>>

(* A call that was refused or not made has nothing to report.              *)
Reported(t) == event = "PreToolUse" /\ effect = "ran" /\ tool = t

(* The loop asks the hooks of an event, if there are any at all; calls that *)
(* run side by side are asked for one after the other.                     *)
Fire(e, t) ==
    /\ hookStep = "idle" /\ hooks # <<>> /\ events < MaxEvents
    /\ effect # "blocked" /\ event # "Stop" /\ (t = NoTool <=> e \notin ToolEvents)
    /\ e = "UserPromptSubmit" <=> events = 0
    /\ e = "PostToolUse" => Reported(t)
    /\ events' = events + 1 /\ event' = e /\ tool' = t /\ hookStep' = "event" /\ hookAt' = 1
    /\ left' = Budget /\ hookRuling' = "allow" /\ effect' = "none" /\ heard' = Unheard
    /\ hookTime' = 0
    /\ UNCHANGED <<source, entries, hooks, loadError>>

Matches(h) == h.event = event /\ (event \in ToolEvents => tool \in h.tools)

Skip ==
    /\ hookStep = "event" /\ hookAt <= Len(hooks) /\ ~Matches(hooks[hookAt])
    /\ hookAt' = hookAt + 1
    /\ UNCHANGED <<source, entries, hooks, loadError, hookStep, event, tool,
                   left, hookRuling, effect, events, heard, hookTime>>

(* A refusal, or a failure of a strict hook, refuses; nothing takes it back. *)
Verdict(h, o) ==
    IF o = "deny" \/ (o # "zero" /\ h.strict) THEN "deny" ELSE hookRuling

(* A hook gets its own limit or what is left of the deadline; when it is   *)
(* over time, it and its children are killed, which takes a while too.     *)
Allowed(h) == IF h.limit < left THEN h.limit ELSE left

Minus(a, b) == IF b < a THEN a - b ELSE 0

RunHook ==
    /\ hookStep = "event" /\ hookAt <= Len(hooks) /\ Matches(hooks[hookAt]) /\ left > 0
    /\ LET h == hooks[hookAt] IN
       \E o \in IF h.env THEN Outcomes \ {"env"} ELSE {"env"} :
       \E t \in CASE o \in {"env", "spawn"} -> {0}
                  [] o = "timeout" -> Allowed(h)..(Allowed(h) + Grace)
                  [] OTHER -> 0..Allowed(h) :
         /\ hookRuling' = Verdict(h, o) /\ heard' = [heard EXCEPT ![hookAt] = o]
         /\ left' = Minus(left, t) /\ hookTime' = hookTime + t
    /\ hookAt' = hookAt + 1
    /\ UNCHANGED <<source, entries, hooks, loadError, hookStep, event, tool,
                   effect, events>>

(* Past the deadline the rest is not run, and does not refuse. *)
OutOfTime ==
    /\ hookStep = "event" /\ hookAt <= Len(hooks) /\ Matches(hooks[hookAt]) /\ left = 0
    /\ hookStep' = "decided"
    /\ UNCHANGED <<source, entries, hooks, loadError, hookAt, event, tool,
                   left, hookRuling, effect, events, heard, hookTime>>

LastHook ==
    /\ hookStep = "event" /\ hookAt > Len(hooks) /\ hookStep' = "decided"
    /\ UNCHANGED <<source, entries, hooks, loadError, hookAt, event, tool,
                   left, hookRuling, effect, events, heard, hookTime>>

(* A prompt that is refused ends the run before its first turn.            *)
Blocked == event = "UserPromptSubmit" /\ hookRuling = "deny"

(* A call that is refused does not run; after the fact nothing can be.     *)
Obey ==
    /\ hookStep = "decided" /\ hookStep' = "idle"
    /\ effect' = CASE Blocked -> "blocked"
                   [] event = "PreToolUse" -> IF hookRuling = "deny" THEN "refused" ELSE "ran"
                   [] OTHER -> "none"
    /\ UNCHANGED <<source, entries, hooks, loadError, hookAt, event, tool,
                   left, hookRuling, events, heard, hookTime>>

HookNext ==
    \/ Load \/ Parse \/ Skip \/ RunHook \/ OutOfTime \/ LastHook \/ Obey
    \/ \E e \in Events, t \in ToolNames \cup {NoTool} : Fire(e, t)

HookSpec == HookInit /\ [][HookNext]_hookVars

-----------------------------------------------------------------------------
(* The hooks in force are the whole file or none of it.  A call runs only  *)
(* if every hook of the file for it was heard and none refused, or failed  *)
(* being strict, but for those the deadline came before.  And an event     *)
(* takes no longer than its deadline and one kill.                         *)
VetoHolds ==
    /\ hookStep # "parse" => hooks \in {<<>>, entries}
    /\ effect = "ran" =>
         \A i \in DOMAIN hooks : Matches(hooks[i]) =>
            \/ heard[i] = "zero"
            \/ ~hooks[i].strict /\ heard[i] \notin {"deny", "unheard"}
            \/ heard[i] = "unheard" /\ left = 0
    /\ hookTime <= Budget + Grace

-----------------------------------------------------------------------------
(* The file is taken over entry by entry, before the first event.          *)
FileIsTaken ==
    /\ hookStep = "parse" =>
         /\ Len(hooks) = hookAt - 1 /\ hookAt <= Len(entries) + 1
         /\ \A i \in DOMAIN hooks : hooks[i] = entries[i]
    /\ source # "object" => hooks = <<>>
    /\ hookStep # "idle" => effect = "none"

(* Hook i let the call pass.                                               *)
Passed(i) ==
    Matches(hooks[i]) => \/ heard[i] = "zero"
                         \/ ~hooks[i].strict /\ heard[i] \notin {"deny", "unheard"}

(* As long as nobody refused, all hooks the loop has left behind let the   *)
(* call pass; those ahead are not heard.                                   *)
AllPassed ==
    /\ hookStep = "event" =>
         /\ hookRuling = "allow" =>
              \A i \in DOMAIN hooks : i < hookAt => Passed(i)
         /\ \A i \in hookAt..MaxHooks : heard[i] = "unheard"
    /\ hookStep = "decided" /\ hookRuling = "allow" =>
         \A i \in DOMAIN hooks : Passed(i) \/ (heard[i] = "unheard" /\ left = 0)

(* Time is taken from the deadline until nothing is left of it.            *)
TimeIsTaken == left > 0 => hookTime + left = Budget

HookInv == HookTypeOK /\ FileIsTaken /\ AllPassed /\ TimeIsTaken /\ VetoHolds
=============================================================================
