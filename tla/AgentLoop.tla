------------------------------- MODULE AgentLoop -------------------------------
(***************************************************************************)
(* run_agent of agent/loop.py: ask the model, gate the calls of its round, *)
(* run the writing ones and then the reading ones, merge the results, and  *)
(* ask again, until a text answer passes every guard or the run is ended.  *)
(*                                                                         *)
(* The workspace is one file, counted in versions, which nobody else       *)
(* changes.  A call is of one of four kinds: "read" looks at the file,     *)
(* "search" goes to the network, "edit" changes the file, "check" runs a   *)
(* checker; two calls of one kind in a round are the same call.  Budgets   *)
(* may run out wherever the code charges them.  Whether the last rounds    *)
(* repeat a longer cycle is left open.  Compaction is in Conversation.     *)
(***************************************************************************)
EXTENDS Naturals, Sequences, FiniteSets

CONSTANTS
    Batches,       \* the rounds of calls the model may ask for
    MaxEdits,      \* bound: successful edits
    RepeatLimit,   \* STAGNATION_REPEAT_LIMIT
    ReplanLimit,   \* STAGNATION_REPLAN_LIMIT
    RetryLimit,    \* VERIFICATION_RETRY_LIMIT
    ProtocolLimit, \* PROTOCOL_REPAIR_LIMIT
    SearchLimit    \* SEARCH_FAILURE_LIMIT

ASSUME LoopAssumption ==
    /\ Batches \subseteq Seq({"read", "search", "edit", "check"})
    /\ {MaxEdits, RepeatLimit, ReplanLimit, RetryLimit, ProtocolLimit, SearchLimit}
           \subseteq Nat

Kinds == {"read", "search", "edit", "check"}
Reading(kind) == kind \in {"read", "search"}
CallStatuses == {"todo", "go", "ok", "error", "denied", "deferred", "duplicate",
             "cached", "cancelled", "open"}
Endings == {"none", "answered", "inspected", "softstop", "cancelled", "provider", "transient",
             "stagnation", "recovery", "guard", "protocol", "budget", "empty",
             "nonterminal", "blocked"}
Versions == 0..MaxEdits
NoMemo == MaxEdits + 1
NoRound == [calls |-> <<>>, target |-> 0]

VARIABLES
    version,          \* version of the workspace
    cancel,        \* cancel_event
    loopPc,            \* where the run is
    ending,       \* how it ended
    soft, wrap,    \* soft limit hit, soft_wrap_issued
    batch, result, \* the calls of the round and what became of them
    unanswered,    \* the last round in messages lacks results
    recovery,      \* recovery_inspection_required
    refusals,      \* recovery_refusals
    verify,        \* verification_required
    retries,       \* verification_retries
    inspected,     \* post_write_inspection
    memo,          \* tool_result_cache for the read: the target it is for
    failures,      \* search_failures
    last, same,    \* last_round_signature, repeated_rounds
    dull,          \* unproductive_rounds
    replans,       \* stagnation_replans
    protocol,      \* protocol_repairs
    nonterm,       \* nonterminal_repairs
    own,           \* history: this run has edited the file
    proven,        \* history: a checker has passed since the last edit
    seen,          \* history: a read has looked since the last edit
    looked         \* history: evidence since the last call for recovery

limits   == <<soft, wrap>>
round    == <<batch, result>>
guards   == <<recovery, refusals, verify, retries, inspected>>
caches   == <<memo, failures>>
progress == <<last, same, dull, replans>>
mends    == <<protocol, nonterm>>
loopHistory  == <<own, proven, seen, looked>>
loopVars == <<version, cancel, loopPc, ending, limits, round, unanswered, guards,
              caches, progress, mends, loopHistory>>

Places == {"idle", "start", "top", "asking", "gating", "running", "merging",
           "probing", "ended"}

LoopTypeOK ==
    /\ version \in Versions /\ cancel \in BOOLEAN
    /\ loopPc \in Places /\ ending \in Endings
    /\ soft \in BOOLEAN /\ wrap \in BOOLEAN
    /\ batch \in Batches \cup {<<>>}
    /\ result \in [DOMAIN batch -> CallStatuses]
    /\ unanswered \in BOOLEAN
    /\ recovery \in BOOLEAN /\ verify \in BOOLEAN /\ inspected \in BOOLEAN
    /\ refusals \in 0..ReplanLimit /\ retries \in 0..RetryLimit
    /\ memo \in Versions \cup {NoMemo} /\ failures \in 0..SearchLimit
    /\ same \in 0..RepeatLimit /\ dull \in 0..RepeatLimit
    /\ replans \in 0..ReplanLimit /\ nonterm \in 0..ReplanLimit
    /\ protocol \in 0..ProtocolLimit
    /\ own \in BOOLEAN /\ looked \in BOOLEAN
    /\ proven \in BOOLEAN /\ seen \in BOOLEAN

LoopInit ==
    /\ version = 0 /\ cancel = FALSE
    /\ loopPc = "idle" /\ ending = "none" /\ soft = FALSE /\ wrap = FALSE
    /\ batch = <<>> /\ result = <<>> /\ unanswered = FALSE
    /\ recovery = FALSE /\ refusals = 0 /\ verify = FALSE /\ retries = 0
    /\ inspected = FALSE /\ memo = NoMemo /\ failures = 0
    /\ last = NoRound /\ same = 0 /\ dull = 0 /\ replans = 0
    /\ protocol = 0 /\ nonterm = 0
    /\ own = FALSE /\ proven = FALSE /\ seen = FALSE /\ looked = TRUE

Holds(i, status) == result[i] = status
Has(kind, statuses) ==
    \E i \in DOMAIN batch : batch[i] = kind /\ result[i] \in statuses

End(how) == loopPc' = "ended" /\ ending' = how

(* A call of run_agent, one at a time, for a task that is not cancelled.  Rounds that were *)
(* interrupted get "unknown" results, and then nothing is edited before a  *)
(* look at the workspace.                                                  *)
Start(require) ==
    /\ loopPc \in {"idle", "ended"}
    /\ loopPc' = "start" /\ ending' = "none" /\ cancel' = FALSE
    /\ unanswered' = FALSE /\ recovery' = (require \/ unanswered)
    /\ looked' = ~recovery'
    /\ wrap' = FALSE /\ batch' = <<>> /\ result' = <<>>
    /\ refusals' = 0 /\ verify' = FALSE /\ retries' = 0 /\ inspected' = FALSE
    /\ memo' = NoMemo /\ failures' = 0
    /\ last' = NoRound /\ same' = 0 /\ dull' = 0 /\ replans' = 0
    /\ protocol' = 0 /\ nonterm' = 0 /\ own' = FALSE
    /\ UNCHANGED <<version, soft, proven, seen>>

(* The UserPromptSubmit hook may refuse the whole run. *)
Submit ==
    /\ loopPc = "start"
    /\ \/ loopPc' = "top" /\ UNCHANGED ending
       \/ End("blocked")
    /\ UNCHANGED <<version, cancel, limits, round, unanswered, guards, caches,
                   progress, mends, loopHistory>>

Exhausted ==
    /\ loopPc \in {"top", "asking", "probing"} /\ End("budget")
    /\ UNCHANGED <<version, cancel, limits, round, unanswered, guards, caches,
                   progress, mends, loopHistory>>

Turn ==
    /\ loopPc = "top"
    /\ IF soft /\ wrap THEN End("softstop") /\ UNCHANGED wrap
       ELSE /\ wrap' = soft
            /\ IF cancel THEN End("cancelled")
               ELSE loopPc' = "asking" /\ UNCHANGED ending
    /\ UNCHANGED <<version, cancel, soft, round, unanswered, guards, caches,
                   progress, mends, loopHistory>>

(* chat_with_cancellation first rejects a history with open calls, which   *)
(* counts as a failure of the provider; a cancellation ends the request    *)
(* or is seen as soon as it has returned.                                  *)
ChatFails ==
    /\ loopPc = "asking"
    /\ IF unanswered THEN End("provider")
       ELSE \/ cancel /\ End("cancelled")
            \/ End("provider")
            \/ End("transient")
    /\ UNCHANGED <<version, cancel, limits, round, unanswered, guards, caches,
                   progress, mends, loopHistory>>

EnvelopeError ==
    /\ loopPc = "asking" /\ ~unanswered
    /\ IF protocol < ProtocolLimit
       THEN protocol' = protocol + 1 /\ loopPc' = "top" /\ UNCHANGED ending
       ELSE End("protocol") /\ UNCHANGED protocol
    /\ UNCHANGED <<version, cancel, limits, round, unanswered, guards, caches,
                   progress, nonterm, loopHistory>>

(* A response was received; its tokens may reach the soft limit. *)
Received == protocol' = 0 /\ soft' \in {soft, TRUE}

ToolRound(b) ==
    /\ loopPc = "asking" /\ ~unanswered /\ ~cancel
    /\ Received
    /\ batch' = b /\ result' = [i \in DOMAIN b |-> "todo"]
    /\ unanswered' = TRUE /\ loopPc' = "gating"
    /\ UNCHANGED <<version, cancel, ending, wrap, guards, caches,
                   progress, nonterm, loopHistory>>

Next1(status) == CHOOSE i \in DOMAIN batch :
    Holds(i, status) /\ \A j \in DOMAIN batch : Holds(j, status) => i <= j

(* Mutant of Refused: an edit is deferred only in a round of nothing but edits. *)
DeferRounds(i) ==
    IF \E j \in 1..(i-1) : batch[j] = batch[i] THEN "duplicate"
    ELSE IF recovery /\ \A j \in DOMAIN batch : batch[j] = "edit" THEN "deferred"
    ELSE "no"

(* What the gate makes of call i before anybody is asked. *)
Refused(i) ==
    IF \E j \in 1..(i-1) : batch[j] = batch[i] THEN "duplicate"
    ELSE IF recovery /\ batch[i] = "edit" THEN "deferred"
    ELSE "no"

(* What it makes of one that rules, user and hook let through. *)
Admitted(i) ==
    CASE batch[i] = "search" /\ failures = SearchLimit  -> "open"
      [] batch[i] = "read" /\ memo = version -> "cached"
      [] OTHER                                          -> "go"

GateCall ==
    /\ loopPc = "gating"
    /\ LET i == Next1("todo")
           verdicts == IF Refused(i) # "no" THEN {Refused(i)}
                       ELSE {"denied", Admitted(i)}
       IN IF cancel THEN End("cancelled") /\ UNCHANGED result
          ELSE /\ \E v \in verdicts : result' = [result EXCEPT ![i] = v]
               /\ loopPc' = IF i = Len(batch) THEN "running" ELSE "gating"
               /\ UNCHANGED ending
    /\ UNCHANGED <<version, cancel, limits, batch, unanswered, guards, caches,
                   progress, mends, loopHistory>>

Writes == {i \in DOMAIN batch : Holds(i, "go") /\ ~Reading(batch[i])}
Reads  == {i \in DOMAIN batch : Holds(i, "go") /\ Reading(batch[i])}

(* registry.execute refuses a call once the task is cancelled; the write   *)
(* phase comes first, its path groups and serial group run side by side.   *)
Execute(i) ==
    /\ loopPc = "running" /\ i \in (IF Writes # {} THEN Writes ELSE Reads)
    /\ \E status \in (IF cancel THEN {"cancelled"} ELSE {"ok", "error"}) :
         LET ok(kind) == status = "ok" /\ batch[i] = kind
         IN /\ ok("edit") => version < MaxEdits
            /\ result' = [result EXCEPT ![i] = status]
            /\ version' = IF ok("edit") THEN version + 1 ELSE version
            /\ own' = (own \/ ok("edit"))
            /\ proven' = (~ok("edit") /\ (proven \/ ok("check")))
            /\ seen' = (~ok("edit") /\ (seen \/ ok("read")))
            /\ looked' = (looked \/ ok("read") \/ ok("search"))
    /\ UNCHANGED <<cancel, loopPc, ending, limits, batch, unanswered, guards,
                   caches, progress, mends>>

Executed ==
    /\ loopPc = "running" /\ Writes = {} /\ Reads = {}
    /\ IF cancel THEN End("cancelled")
       ELSE loopPc' = "merging" /\ UNCHANGED ending
    /\ UNCHANGED <<version, cancel, limits, round, unanswered, guards, caches,
                   progress, mends, loopHistory>>

Unproductive == \A i \in DOMAIN batch : ~Holds(i, "ok")

(* Failures of network tools since their last success; a refused or a      *)
(* repeated call is a failure too.                                         *)
Failures ==
    LET searches(statuses) == {i \in DOMAIN batch :
            batch[i] = "search" /\ result[i] \in statuses}
        good  == searches({"ok"})
        since == {i \in searches({"error", "open", "duplicate"}) :
                    \A j \in good : j < i}
        total == Cardinality(since) + IF good = {} THEN failures ELSE 0
    IN IF total > SearchLimit THEN SearchLimit ELSE total

(* A memo remembers the file as it is now, not as it was read. *)
Memoised ==
    IF Has("edit", {"ok"}) THEN NoMemo
    ELSE IF Has("read", {"ok"}) THEN version
    ELSE memo

FreshLook == Has("read", {"ok"}) \/ Has("search", {"ok"})

(* Mutant of Guarded: a check in the round of an edit proves the edit.     *)
ProvenBeside ==
    LET wrote  == Has("edit", {"ok"})
        tested == Has("check", {"ok"})
    IN /\ inspected' = (~wrote /\ (inspected \/ (verify /\ Has("read", {"ok", "cached"}))))
       /\ verify' = ((wrote \/ verify) /\ ~tested)
       /\ retries' = IF wrote \/ tested THEN 0 ELSE retries
       /\ recovery' = (recovery /\ ~FreshLook)
       /\ refusals' = IF recovery /\ FreshLook THEN 0 ELSE refusals

(* Recovery is over with the first new result of a reading tool, and the   *)
(* need for verification with the first check of a round without edits.    *)
Guarded ==
    LET wrote  == Has("edit", {"ok"})
        tested == verify /\ Has("check", {"ok"})
    IN /\ inspected' = (~wrote /\ (inspected \/ (verify /\ Has("read", {"ok", "cached"}))))
       /\ verify' = (wrote \/ (verify /\ ~tested))
       /\ retries' = IF wrote \/ tested THEN 0 ELSE retries
       /\ recovery' = (recovery /\ ~FreshLook)
       /\ refusals' = IF recovery /\ FreshLook THEN 0 ELSE refusals

(* The plan of the round and the identity of the file it names.            *)
Signature ==
    [calls |-> batch, target |->
        IF \E i \in DOMAIN batch : batch[i] \in {"read", "edit"} THEN version ELSE 0]

Merge ==
    LET rounds == IF last = Signature THEN same + 1 ELSE 0
        idle   == IF Unproductive THEN dull + 1 ELSE 0
        stuck(cycle) == cycle \/ rounds >= RepeatLimit \/ idle >= RepeatLimit
    IN /\ loopPc = "merging" /\ unanswered' = FALSE
       /\ memo' = Memoised /\ failures' = Failures /\ last' = Signature
       /\ Guarded /\ batch' = <<>> /\ result' = <<>>
       /\ \E cycle \in BOOLEAN :
            \/ /\ ~stuck(cycle) /\ same' = rounds /\ dull' = idle /\ loopPc' = "top"
               /\ UNCHANGED <<ending, replans>>
            \/ /\ stuck(cycle) /\ replans < ReplanLimit
               /\ replans' = replans + 1 /\ same' = 0 /\ dull' = 0
               /\ loopPc' = "probing" /\ UNCHANGED ending
            \/ /\ stuck(cycle) /\ replans = ReplanLimit /\ End("stagnation")
               /\ UNCHANGED <<same, dull, replans>>
       /\ UNCHANGED <<version, cancel, limits, mends, loopHistory>>

(* The recovery probe reads the workspace for the model and ends with a    *)
(* call for evidence; its results are not memoised and lift no guard.  A   *)
(* cancelled probe is left to the top of the loop.                         *)
Probe ==
    /\ loopPc = "probing"
    /\ recovery' = TRUE /\ looked' = FALSE /\ loopPc' = "top"
    /\ UNCHANGED <<version, cancel, ending, limits, round, unanswered, refusals,
                   verify, retries, inspected, caches, progress, mends, own,
                   proven, seen>>

(* A text answer and the guards it has to pass, in their order.  Where the *)
(* verification plan has no runnable check an inspection since the last    *)
(* edit is enough.                                                         *)
TextAnswer(terminal, empty, runnable) ==
    /\ loopPc = "asking" /\ ~unanswered /\ ~cancel
    /\ Received
    /\ IF ~terminal
       THEN /\ IF nonterm < ReplanLimit
               THEN nonterm' = nonterm + 1 /\ loopPc' = "top" /\ UNCHANGED ending
               ELSE End("nonterminal") /\ UNCHANGED nonterm
            /\ UNCHANGED <<refusals, verify, retries>>
       ELSE IF recovery
       THEN /\ IF refusals < ReplanLimit
               THEN refusals' = refusals + 1 /\ loopPc' = "top" /\ UNCHANGED ending
               ELSE End("recovery") /\ UNCHANGED refusals
            /\ UNCHANGED <<nonterm, verify, retries>>
       ELSE IF soft'
       THEN /\ IF wrap THEN End(IF empty THEN "empty" ELSE "softstop")
               ELSE loopPc' = "top" /\ UNCHANGED ending
            /\ UNCHANGED <<nonterm, refusals, verify, retries>>
       ELSE IF verify /\ (runnable \/ ~inspected)
       THEN /\ IF retries < RetryLimit
               THEN retries' = retries + 1 /\ loopPc' = "top" /\ UNCHANGED ending
               ELSE End("guard") /\ UNCHANGED retries
            /\ UNCHANGED <<nonterm, refusals, verify>>
       ELSE /\ verify' = FALSE
            /\ End(CASE empty -> "empty"
                     [] verify /\ ~empty -> "inspected"
                     [] OTHER -> "answered")
            /\ UNCHANGED <<nonterm, refusals, retries>>
    /\ UNCHANGED <<version, cancel, wrap, round, unanswered, recovery, inspected,
                   caches, progress, loopHistory>>

Cancel ==
    /\ ~cancel /\ loopPc \notin {"idle", "ended"} /\ cancel' = TRUE
    /\ UNCHANGED <<version, loopPc, ending, limits, round,
                   unanswered, guards, caches, progress, mends, loopHistory>>

LoopStep ==
    \/ Submit \/ Turn \/ GateCall \/ Executed \/ Merge \/ Probe
    \/ Exhausted \/ ChatFails \/ EnvelopeError
    \/ \E b \in Batches : ToolRound(b)
    \/ \E i \in DOMAIN batch : Execute(i)
    \/ \E terminal, empty, runnable \in BOOLEAN : TextAnswer(terminal, empty, runnable)

LoopNext == LoopStep \/ Cancel

LoopSpec ==
    LoopInit /\ [][LoopNext \/ \E require \in BOOLEAN : Start(require)]_loopVars

-----------------------------------------------------------------------------
(* A run answers after an edit only when a checker has passed since its    *)
(* last edit, or, where nothing can be checked, a read has looked since: a *)
(* check that ran beside the edit does not count (verification_required,   *)
(* verification_satisfied_by_inspection).                                  *)
AnswerIsVerified ==
    own => /\ ending = "answered" => proven
           /\ ending = "inspected" => proven \/ seen

(* While the run recovers, from an interrupted round or from going in      *)
(* circles, it edits nothing before a reading tool has brought something   *)
(* new; a replay from the memo does not count (CODE_RECOVERY_GUARD).       *)
NoBlindEdit == [][version' > version => looked]_loopVars

-----------------------------------------------------------------------------
(* A run ends once, and between its rounds there are no calls.             *)
RoundIsOpen ==
    /\ loopPc # "ended" => ending = "none"
    /\ loopPc \in {"idle", "start", "top", "asking", "probing"} => batch = <<>>
    /\ loopPc = "gating" => \A i \in DOMAIN batch : ~Holds(i, "ok")

(* A run that has not looked recovers, and then no edit was let through.   *)
LookComesFirst ==
    /\ ~looked => recovery
    /\ \A i \in DOMAIN batch :
         /\ Reading(batch[i]) /\ Holds(i, "ok") => looked
         /\ batch[i] = "edit" /\ Holds(i, "go") => ~recovery

(* An edit needs verification, at the latest when its round is merged; a   *)
(* check that ran in a round without one has proven it.                    *)
EditIsGuarded ==
    ~Has("edit", {"ok"}) =>
        /\ own /\ loopPc # "ended" => verify \/ proven
        /\ Has("check", {"ok"}) => proven

(* What was read, remembered or inspected is the file as it is.            *)
LookIsOfFile ==
    /\ memo # NoMemo => memo <= version
    /\ memo = version => seen
    /\ ~Has("edit", {"ok"}) =>
         (inspected \/ Has("read", {"ok", "cached"}) => seen)

LoopInv ==
    /\ LoopTypeOK /\ RoundIsOpen /\ LookComesFirst /\ EditIsGuarded /\ LookIsOfFile
    /\ AnswerIsVerified
=============================================================================
