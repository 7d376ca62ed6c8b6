----------------------------- MODULE Agent_proofs -----------------------------
(* Proofs about AgentLoop, for any rounds, limits and number of edits, about *)
(* SubAgents, for any tree of runs and any number of slots, about McpClient, *)
(* for any number of chats and of requests, about PlanGraph, for any set of  *)
(* graphs, and about RunModels, for any deployments, tiers and limits.       *)
EXTENDS AgentLoop, SubAgents, McpClient, PlanGraph, RunModels, FiniteSetTheorems,
        FunctionTheorems, SequenceTheorems, TLAPS

-----------------------------------------------------------------------------
(* A run of the agent *)

\* A round is a sequence of calls of the four kinds.
LEMMA RoundFact ==
    ASSUME LoopTypeOK
    PROVE  /\ batch \in Seq(Kinds) /\ DOMAIN batch = 1..Len(batch)
           /\ \A i \in DOMAIN batch : batch[i] \in Kinds /\ result[i] \in CallStatuses
BY LoopAssumption, SMTT(20) DEF LoopTypeOK, Kinds

\* Where a run starts.
LEMMA NothingFact ==
    /\ <<>> \in [DOMAIN <<>> -> CallStatuses]
    /\ 0 \in Versions /\ 0 \in 0..ReplanLimit /\ 0 \in 0..RetryLimit
    /\ 0 \in 0..SearchLimit /\ 0 \in 0..RepeatLimit /\ 0 \in 0..ProtocolLimit
<1>1. <<>> \in [DOMAIN <<>> -> CallStatuses]
  OBVIOUS
<1>. QED
  BY <1>1, LoopAssumption DEF Versions

\* The invariant holds before the first run.
LEMMA LoopStart == LoopInit => LoopInv
<1>. SUFFICES ASSUME LoopInit PROVE LoopInv
  OBVIOUS
<1>1. LoopTypeOK
  BY NothingFact DEF LoopInit, LoopTypeOK, Places, Endings
<1>2. ~Has("edit", {"ok"}) /\ ~Has("check", {"ok"}) /\ ~Has("read", {"ok", "cached"})
  BY DEF LoopInit, Has
<1>3. RoundIsOpen /\ LookComesFirst /\ AnswerIsVerified
  BY DEF LoopInit, RoundIsOpen, LookComesFirst, AnswerIsVerified
<1>4. EditIsGuarded /\ LookIsOfFile
  BY <1>2, LoopAssumption DEF LoopInit, EditIsGuarded, LookIsOfFile, NoMemo
<1>. QED
  BY <1>1, <1>3, <1>4 DEF LoopInv

-----------------------------------------------------------------------------
\* What a step keeps that leaves the file, the round and the guards alone.
HandsOff == UNCHANGED <<version, batch, result, recovery, verify, inspected, memo,
                         own, proven, seen, looked>>

\* A step that leaves the file, the round and what is known of them alone keeps
\* what the invariant says of them.
LEMMA UntouchedKeeps ==
    ASSUME LoopInv, HandsOff, LoopTypeOK', RoundIsOpen', AnswerIsVerified',
           loopPc = "ended" => loopPc' = "ended"
    PROVE  LoopInv'
<1>1. LookComesFirst'
  BY DEF LoopInv, HandsOff, LookComesFirst, Holds
<1>2. EditIsGuarded' /\ LookIsOfFile'
  BY DEF LoopInv, HandsOff, EditIsGuarded, LookIsOfFile, Has
<1>. QED
  BY <1>1, <1>2 DEF LoopInv

\* The steps that only go on or end the run, and not with an answer.
LEMMA GoingOnKeeps ==
    ASSUME LoopInv,
           \/ Submit \/ Exhausted \/ Turn \/ ChatFails \/ EnvelopeError \/ Executed \/ Cancel
    PROVE  LoopInv'
<1>. USE DEF limits, round, guards, caches, progress, mends, loopHistory
<1>0. LoopTypeOK /\ RoundIsOpen /\ AnswerIsVerified
  BY DEF LoopInv
<1>1. HandsOff
  BY DEF HandsOff, Submit, Exhausted, Turn, ChatFails, EnvelopeError, Executed, Cancel
<1>2. /\ loopPc' = "ended" \/ (UNCHANGED ending /\ loopPc' \in {"top", "asking", "merging"})
         \/ UNCHANGED <<loopPc, ending>>
      /\ loopPc = "ended" => loopPc' = "ended"
      /\ loopPc' = "merging" => loopPc \in {"running", "merging"}
      /\ loopPc' \in {"top", "asking"} =>
            loopPc \in {"start", "top", "asking"} \/ loopPc = loopPc'
      /\ ending' \in {ending, "blocked", "budget", "softstop", "cancelled", "provider",
                      "transient", "protocol"}
  BY DEF Submit, Exhausted, Turn, ChatFails, EnvelopeError, Executed, Cancel, End
<1>3. LoopTypeOK'
  <2>1. /\ loopPc' \in Places /\ ending' \in Endings
    BY <1>0, <1>2 DEF LoopTypeOK, Places, Endings
  <2>2. wrap' \in BOOLEAN /\ cancel' \in BOOLEAN
    BY <1>0
       DEF LoopTypeOK, Submit, Exhausted, Turn, ChatFails, EnvelopeError, Executed, Cancel
  <2>4. protocol' \in 0..ProtocolLimit
    <3>1. protocol \in 0..ProtocolLimit /\ ProtocolLimit \in Nat
      BY <1>0, LoopAssumption DEF LoopTypeOK
    <3>2. UNCHANGED protocol \/ (protocol < ProtocolLimit /\ protocol' = protocol + 1)
      BY DEF Submit, Exhausted, Turn, ChatFails, EnvelopeError, Executed, Cancel
    <3>. QED
      BY <3>1, <3>2
  <2>3. UNCHANGED <<soft, unanswered, refusals, retries, failures, same, dull, replans, nonterm>>
    BY DEF Submit, Exhausted, Turn, ChatFails, EnvelopeError, Executed, Cancel
  <2>. QED
    BY <2>1, <2>2, <2>3, <2>4, <1>0, <1>1 DEF LoopTypeOK, HandsOff
<1>4. RoundIsOpen'
  BY <1>0, <1>1, <1>2 DEF RoundIsOpen, HandsOff, Holds
<1>5. AnswerIsVerified'
  BY <1>0, <1>1, <1>2 DEF RoundIsOpen, AnswerIsVerified, HandsOff
<1>. QED
  BY <1>1, <1>2, <1>3, <1>4, <1>5, UntouchedKeeps

\* A new run has no calls, no memo and no edits of its own.
LEMMA StartKeepsLoop ==
    ASSUME LoopInv, NEW require \in BOOLEAN, Start(require)
    PROVE  LoopInv'
<1>1. LoopTypeOK'
  BY NothingFact DEF LoopInv, Start, LoopTypeOK, Places, Endings
<1>2. batch' = <<>> /\ ~Has("edit", {"ok"})' /\ ~Has("check", {"ok"})'
      /\ ~Has("read", {"ok", "cached"})'
  BY DEF Start, Has
<1>3. RoundIsOpen' /\ LookComesFirst' /\ AnswerIsVerified'
  BY <1>2 DEF LoopInv, LoopTypeOK, Start, RoundIsOpen, LookComesFirst, AnswerIsVerified
<1>4. EditIsGuarded' /\ LookIsOfFile'
  BY <1>2, LoopAssumption, SMTT(20)
     DEF LoopInv, LoopTypeOK, Versions, Start, EditIsGuarded, LookIsOfFile, NoMemo
<1>. QED
  BY <1>1, <1>3, <1>4 DEF LoopInv

\* A round begins with nothing done.
LEMMA ToolRoundKeeps ==
    ASSUME LoopInv, NEW b \in Batches, ToolRound(b)
    PROVE  LoopInv'
<1>. USE DEF guards, caches, progress, loopHistory
<1>0. /\ LoopTypeOK /\ RoundIsOpen /\ LookComesFirst /\ EditIsGuarded /\ LookIsOfFile
      /\ AnswerIsVerified
  BY DEF LoopInv
<1>1. /\ loopPc = "asking" /\ loopPc' = "gating" /\ batch' = b
      /\ result' = [i \in DOMAIN b |-> "todo"] /\ protocol' = 0 /\ unanswered' = TRUE
      /\ soft' \in BOOLEAN
      /\ UNCHANGED <<version, cancel, ending, wrap, recovery, refusals, verify, retries,
                     inspected, memo, failures, last, same, dull, replans, nonterm, own,
                     proven, seen, looked>>
  BY <1>0 DEF ToolRound, Received, LoopTypeOK
<1>2. LoopTypeOK'
  BY <1>0, <1>1, LoopAssumption DEF LoopTypeOK, Places, CallStatuses
<1>3. batch = <<>> /\ ~Has("edit", {"ok"}) /\ ending = "none"
  BY <1>0, <1>1 DEF RoundIsOpen, Has
<1>4. ~Has("edit", {"ok"})' /\ ~Has("check", {"ok"})' /\ ~Has("read", {"ok", "cached"})'
  BY <1>1 DEF Has
<1>5. RoundIsOpen' /\ LookComesFirst' /\ AnswerIsVerified'
  BY <1>0, <1>1, <1>3 DEF RoundIsOpen, LookComesFirst, AnswerIsVerified, Holds
<1>6. EditIsGuarded' /\ LookIsOfFile'
  BY <1>0, <1>1, <1>3, <1>4 DEF EditIsGuarded, LookIsOfFile
<1>. QED
  BY <1>2, <1>5, <1>6 DEF LoopInv

\* A call comes through the gate for good reasons: an edit while the run does
\* not recover, a replay of the file as it is.
LEMMA GateFact ==
    ASSUME LoopInv, GateCall
    PROVE  \E i : \E v \in CallStatuses \ {"ok"} :
              /\ result' = [result EXCEPT ![i] = v] \/ UNCHANGED result
              /\ i \in DOMAIN batch /\ v = "go" /\ batch[i] = "edit" => ~recovery
              /\ i \in DOMAIN batch /\ v = "cached" => batch[i] = "read" /\ memo = version
<1> DEFINE i == Next1("todo")
<1>0. PICK verdict \in CallStatuses \ {"ok"} :
        /\ result' = [result EXCEPT ![i] = verdict] \/ UNCHANGED result
        /\ verdict \in {"denied", "duplicate", "deferred"}
           \/ (Refused(i) = "no" /\ verdict = Admitted(i))
  <2>1. CASE cancel
    BY <2>1 DEF GateCall, CallStatuses
  <2>2. CASE ~cancel
    <3>1. PICK v \in (IF Refused(i) # "no" THEN {Refused(i)} ELSE {"denied", Admitted(i)}) :
             result' = [result EXCEPT ![i] = v]
      BY <2>2 DEF GateCall
    <3>2. Refused(i) \in {"duplicate", "deferred", "no"}
      BY DEF Refused
    <3>3. Admitted(i) \in {"open", "cached", "go"}
      BY DEF Admitted
    <3>. QED
      BY <3>1, <3>2, <3>3 DEF CallStatuses
  <2>. QED
    BY <2>1, <2>2
<1>1. Refused(i) = "no" => ~(recovery /\ batch[i] = "edit")
  BY DEF Refused
<1>2. Admitted(i) = "cached" => batch[i] = "read" /\ memo = version
  BY DEF Admitted
<1>. QED
  BY <1>0, <1>1, <1>2

\* The gate lets a call in, or not, and none of the round has run yet.
LEMMA GateKeeps ==
    ASSUME LoopInv, GateCall
    PROVE  LoopInv'
<1>. USE DEF limits, guards, caches, progress, mends, loopHistory
<1>0. /\ LoopTypeOK /\ RoundIsOpen /\ LookComesFirst /\ EditIsGuarded /\ LookIsOfFile
      /\ AnswerIsVerified
  BY DEF LoopInv
<1>1. /\ loopPc = "gating"
      /\ \/ loopPc' \in {"gating", "running"} /\ UNCHANGED ending
         \/ loopPc' = "ended" /\ ending' = "cancelled" /\ UNCHANGED result
      /\ UNCHANGED <<version, cancel, soft, wrap, batch, unanswered, recovery, refusals,
                     verify, retries, inspected, memo, failures, last, same, dull, replans,
                     protocol, nonterm, own, proven, seen, looked>>
  BY DEF GateCall, End
<1>2. PICK i : \E v \in CallStatuses \ {"ok"} :
        /\ result' = [result EXCEPT ![i] = v] \/ UNCHANGED result
        /\ i \in DOMAIN batch /\ v = "go" /\ batch[i] = "edit" => ~recovery
        /\ i \in DOMAIN batch /\ v = "cached" => batch[i] = "read" /\ memo = version
  BY GateFact
<1>a. PICK v \in CallStatuses \ {"ok"} :
        /\ result' = [result EXCEPT ![i] = v] \/ UNCHANGED result
        /\ i \in DOMAIN batch /\ v = "go" /\ batch[i] = "edit" => ~recovery
        /\ i \in DOMAIN batch /\ v = "cached" => batch[i] = "read" /\ memo = version
  BY <1>2
<1>3. /\ result \in [DOMAIN batch -> CallStatuses] /\ result' \in [DOMAIN batch -> CallStatuses]
      /\ \A j \in DOMAIN batch : result'[j] = result[j] \/ (j = i /\ result'[j] = v)
      /\ \A j \in DOMAIN batch : result'[j] # "ok"
  <2>1. result \in [DOMAIN batch -> CallStatuses] /\ \A j \in DOMAIN batch : result[j] # "ok"
    BY <1>0, <1>1 DEF LoopTypeOK, RoundIsOpen, Holds
  <2>. QED
    BY <2>1, <1>a
<1>4. LoopTypeOK'
  BY <1>0, <1>1, <1>3 DEF LoopTypeOK, Places, Endings
<1>5. RoundIsOpen'
  BY <1>0, <1>1, <1>3 DEF RoundIsOpen, Holds
<1>6. LookComesFirst'
  BY <1>0, <1>1, <1>a, <1>3 DEF LookComesFirst, Holds
<1>7. AnswerIsVerified'
  BY <1>0, <1>1 DEF RoundIsOpen, AnswerIsVerified
<1>8. ~Has("edit", {"ok"}) /\ ~Has("check", {"ok"})'
  BY <1>0, <1>1, <1>3 DEF Has, LoopTypeOK, RoundIsOpen, Holds
<1>9. EditIsGuarded'
  BY <1>0, <1>1, <1>8 DEF EditIsGuarded
<1>10. Has("read", {"ok", "cached"})' => Has("read", {"ok", "cached"}) \/ memo = version
  BY <1>1, <1>a, <1>3 DEF Has
<1>11. LookIsOfFile'
  BY <1>0, <1>1, <1>8, <1>10 DEF LookIsOfFile
<1>. QED
  BY <1>4, <1>5, <1>6, <1>7, <1>9, <1>11 DEF LoopInv

\* What the run of one call does.
LEMMA ExecuteFact ==
    ASSUME LoopTypeOK, NEW i \in DOMAIN batch, Execute(i)
    PROVE  \E status \in {"cancelled", "ok", "error"} :
             /\ result[i] = "go"
             /\ result' \in [DOMAIN batch -> CallStatuses] /\ result'[i] = status
             /\ \A j \in DOMAIN batch : j # i => result'[j] = result[j]
             /\ LET ok(kind) == status = "ok" /\ batch[i] = kind
                IN /\ ok("edit") => version < MaxEdits /\ version' = version + 1
                   /\ ~ok("edit") => version' = version
                   /\ own' = (own \/ ok("edit"))
                   /\ proven' = (~ok("edit") /\ (proven \/ ok("check")))
                   /\ seen' = (~ok("edit") /\ (seen \/ ok("read")))
                   /\ looked' = (looked \/ ok("read") \/ ok("search"))
<1>1. result[i] = "go"
  BY DEF Execute, Writes, Reads, Holds
<1>2. result \in [DOMAIN batch -> CallStatuses]
  BY DEF LoopTypeOK
<1>3. PICK status \in (IF cancel THEN {"cancelled"} ELSE {"ok", "error"}) :
         LET ok(kind) == status = "ok" /\ batch[i] = kind
         IN /\ ok("edit") => version < MaxEdits
            /\ result' = [result EXCEPT ![i] = status]
            /\ version' = IF ok("edit") THEN version + 1 ELSE version
            /\ own' = (own \/ ok("edit"))
            /\ proven' = (~ok("edit") /\ (proven \/ ok("check")))
            /\ seen' = (~ok("edit") /\ (seen \/ ok("read")))
            /\ looked' = (looked \/ ok("read") \/ ok("search"))
  BY DEF Execute
<1>4. status \in {"cancelled", "ok", "error"} /\ status \in CallStatuses
  BY DEF CallStatuses
<1>. QED
  BY <1>1, <1>2, <1>3, <1>4

\* A call runs: after an edit nothing is proven and nothing seen of the file.
LEMMA ExecuteKeeps ==
    ASSUME LoopInv, NEW i \in DOMAIN batch, Execute(i)
    PROVE  LoopInv'
<1>. USE DEF limits, guards, caches, progress, mends
<1>0. /\ LoopTypeOK /\ RoundIsOpen /\ LookComesFirst /\ EditIsGuarded /\ LookIsOfFile
      /\ AnswerIsVerified
  BY DEF LoopInv
<1>1. /\ loopPc = "running"
      /\ UNCHANGED <<cancel, loopPc, ending, soft, wrap, batch, unanswered, recovery,
                     refusals, verify, retries, inspected, memo, failures, last, same, dull,
                     replans, protocol, nonterm>>
  BY DEF Execute
<1>2. PICK status \in {"cancelled", "ok", "error"} :
        /\ result[i] = "go"
        /\ result' \in [DOMAIN batch -> CallStatuses] /\ result'[i] = status
        /\ \A j \in DOMAIN batch : j # i => result'[j] = result[j]
        /\ LET ok(kind) == status = "ok" /\ batch[i] = kind
           IN /\ ok("edit") => version < MaxEdits /\ version' = version + 1
              /\ ~ok("edit") => version' = version
              /\ own' = (own \/ ok("edit"))
              /\ proven' = (~ok("edit") /\ (proven \/ ok("check")))
              /\ seen' = (~ok("edit") /\ (seen \/ ok("read")))
              /\ looked' = (looked \/ ok("read") \/ ok("search"))
  BY <1>0, ExecuteFact
<1>3. version \in Versions /\ MaxEdits \in Nat /\ own \in BOOLEAN /\ proven \in BOOLEAN
      /\ seen \in BOOLEAN /\ looked \in BOOLEAN /\ memo \in Versions \cup {NoMemo}
  BY <1>0, LoopAssumption DEF LoopTypeOK
<1>4. version' \in Versions
  BY <1>2, <1>3 DEF Versions
<1>5. LoopTypeOK'
  BY <1>0, <1>1, <1>2, <1>3, <1>4 DEF LoopTypeOK
<1>6. RoundIsOpen' /\ AnswerIsVerified'
  BY <1>0, <1>1 DEF RoundIsOpen, AnswerIsVerified
<1>7. LookComesFirst'
  BY <1>0, <1>1, <1>2 DEF LookComesFirst, Holds, Reading
<1>8. /\ Has("edit", {"ok"}) => Has("edit", {"ok"})'
      /\ status = "ok" /\ batch[i] = "edit" => Has("edit", {"ok"})'
  BY <1>1, <1>2 DEF Has
<1>9. /\ Has("check", {"ok"})' => Has("check", {"ok"}) \/ (status = "ok" /\ batch[i] = "check")
      /\ Has("read", {"ok", "cached"})' =>
            Has("read", {"ok", "cached"}) \/ (status = "ok" /\ batch[i] = "read")
  BY <1>1, <1>2 DEF Has
<1>10. EditIsGuarded'
  BY <1>0, <1>1, <1>2, <1>8, <1>9 DEF EditIsGuarded
<1>11. memo' # NoMemo => memo' <= version' /\ (memo' = version' => version' = version)
  BY <1>0, <1>1, <1>2, <1>3 DEF LookIsOfFile, Versions
<1>12. memo' = version' => memo' # NoMemo
  BY <1>1, <1>3, <1>4 DEF NoMemo, Versions
<1>13. version' = version => seen' \/ ~seen
  <2>1. CASE status = "ok" /\ batch[i] = "edit"
    BY <2>1, <1>2, <1>3 DEF Versions
  <2>2. CASE ~(status = "ok" /\ batch[i] = "edit")
    BY <2>2, <1>2
  <2>. QED
    BY <2>1, <2>2
<1>14. LookIsOfFile'
  <2>1. memo' = version' => seen'
    BY <1>0, <1>1, <1>11, <1>12, <1>13 DEF LookIsOfFile
  <2>2. ~Has("edit", {"ok"})' /\ (inspected' \/ Has("read", {"ok", "cached"})') => seen'
    BY <1>0, <1>1, <1>2, <1>8, <1>9 DEF LookIsOfFile
  <2>. QED
    BY <2>1, <2>2, <1>11 DEF LookIsOfFile
<1>. QED
  BY <1>5, <1>6, <1>7, <1>10, <1>14 DEF LoopInv

\* The counters of a merged round stay within their limits.
LEMMA MergeTypes ==
    ASSUME LoopInv, Merge
    PROVE  /\ LoopTypeOK'
           /\ \/ loopPc' \in {"top", "probing"} /\ UNCHANGED ending
              \/ loopPc' = "ended" /\ ending' = "stagnation"
<1>. USE DEF limits, mends, loopHistory
<1>0. LoopTypeOK
  BY DEF LoopInv
<1>1. /\ batch' = <<>> /\ result' = <<>> /\ unanswered' = FALSE
      /\ memo' = Memoised /\ failures' = Failures /\ Guarded
      /\ UNCHANGED <<version, cancel, soft, wrap, protocol, nonterm, own, proven, seen,
                     looked>>
  BY DEF Merge
<1>2. memo' \in Versions \cup {NoMemo}
  BY <1>0, <1>1 DEF Memoised, LoopTypeOK
<1>3. failures' \in 0..SearchLimit
  <2> DEFINE good  == {i \in DOMAIN batch : batch[i] = "search" /\ result[i] \in {"ok"}}
             since == {i \in {j \in DOMAIN batch : batch[j] = "search"
                                  /\ result[j] \in {"error", "open", "duplicate"}} :
                           \A j \in good : j < i}
             total == Cardinality(since) + IF good = {} THEN failures ELSE 0
  <2>1. IsFiniteSet(DOMAIN batch)
    BY <1>0, RoundFact, FS_Interval
  <2>2. Cardinality(since) \in Nat
    <3>1. since \subseteq DOMAIN batch
      OBVIOUS
    <3>2. IsFiniteSet(since)
      BY <2>1, <3>1, FS_Subset
    <3>. QED
      BY <3>2, FS_CardinalityType
  <2>3. total \in Nat /\ SearchLimit \in Nat
    <3>. HIDE DEF since, good
    <3>. QED
      BY <2>2, <1>0, LoopAssumption, SMTT(20) DEF LoopTypeOK
  <2>4. failures' = IF total > SearchLimit THEN SearchLimit ELSE total
    BY <1>1 DEF Failures
  <2>. HIDE DEF total
  <2>. QED
    BY <2>3, <2>4
<1>4. /\ recovery' \in BOOLEAN /\ verify' \in BOOLEAN /\ inspected' \in BOOLEAN
      /\ refusals' \in 0..ReplanLimit /\ retries' \in 0..RetryLimit
  BY <1>0, <1>1, NothingFact DEF Guarded, LoopTypeOK
<1>5. /\ same' \in 0..RepeatLimit /\ dull' \in 0..RepeatLimit /\ replans' \in 0..ReplanLimit
      /\ \/ loopPc' \in {"top", "probing"} /\ UNCHANGED ending
         \/ loopPc' = "ended" /\ ending' = "stagnation"
  <2> DEFINE rounds == IF last = Signature THEN same + 1 ELSE 0
             idle   == IF Unproductive THEN dull + 1 ELSE 0
             stuck(cycle) == cycle \/ rounds >= RepeatLimit \/ idle >= RepeatLimit
  <2>1. PICK cycle \in BOOLEAN :
          \/ /\ ~stuck(cycle) /\ same' = rounds /\ dull' = idle /\ loopPc' = "top"
             /\ UNCHANGED <<ending, replans>>
          \/ /\ stuck(cycle) /\ replans < ReplanLimit
             /\ replans' = replans + 1 /\ same' = 0 /\ dull' = 0
             /\ loopPc' = "probing" /\ UNCHANGED ending
          \/ /\ stuck(cycle) /\ replans = ReplanLimit /\ End("stagnation")
             /\ UNCHANGED <<same, dull, replans>>
    BY DEF Merge
  <2>2. /\ rounds \in Nat /\ idle \in Nat /\ RepeatLimit \in Nat /\ ReplanLimit \in Nat
        /\ same \in 0..RepeatLimit /\ dull \in 0..RepeatLimit /\ replans \in 0..ReplanLimit
    BY <1>0, LoopAssumption, SMTT(20) DEF LoopTypeOK
  <2>. HIDE DEF rounds, idle
  <2>. QED
    BY <2>1, <2>2, NothingFact DEF End
<1>6. result' \in [DOMAIN batch' -> CallStatuses] /\ batch' \in Batches \cup {<<>>}
  BY <1>1, NothingFact
<1>7. loopPc' \in Places /\ ending' \in Endings
  BY <1>0, <1>5 DEF LoopTypeOK, Places, Endings
<1>8. /\ version' \in Versions /\ cancel' \in BOOLEAN /\ soft' \in BOOLEAN
      /\ wrap' \in BOOLEAN /\ unanswered' \in BOOLEAN /\ protocol' \in 0..ProtocolLimit
      /\ nonterm' \in 0..ReplanLimit /\ own' \in BOOLEAN /\ proven' \in BOOLEAN
      /\ seen' \in BOOLEAN /\ looked' \in BOOLEAN
  BY <1>0, <1>1 DEF LoopTypeOK
<1>. QED
  BY <1>2, <1>3, <1>4, <1>5, <1>6, <1>7, <1>8 DEF LoopTypeOK

\* The round is merged: what is not yet proven after its edits has to be
\* verified, and what lifts a guard has come from a look at the file.
LEMMA MergeKeeps ==
    ASSUME LoopInv, Merge
    PROVE  LoopInv'
<1>. USE DEF limits, mends, loopHistory
<1>0. /\ LoopTypeOK /\ RoundIsOpen /\ LookComesFirst /\ EditIsGuarded /\ LookIsOfFile
      /\ AnswerIsVerified
  BY DEF LoopInv
<1>1. /\ loopPc = "merging" /\ batch' = <<>> /\ memo' = Memoised /\ Guarded
      /\ UNCHANGED <<version, own, proven, seen, looked>>
  BY DEF Merge
<1>2. /\ LoopTypeOK'
      /\ \/ loopPc' \in {"top", "probing"} /\ UNCHANGED ending
         \/ loopPc' = "ended" /\ ending' = "stagnation"
  BY MergeTypes
<1>3. RoundIsOpen' /\ AnswerIsVerified'
  BY <1>0, <1>1, <1>2 DEF RoundIsOpen, AnswerIsVerified
<1>4. ~Has("edit", {"ok"})' /\ ~Has("check", {"ok"})' /\ ~Has("read", {"ok", "cached"})'
  BY <1>1 DEF Has
<1>5. LookComesFirst'
  <2>1. FreshLook => looked
    BY <1>0 DEF FreshLook, Has, LookComesFirst, Holds, Reading
  <2>2. looked' = looked /\ (recovery' <=> recovery /\ ~FreshLook)
    BY <1>1 DEF Guarded
  <2>3. ~looked' => recovery'
    BY <2>1, <2>2, <1>0 DEF LookComesFirst
  <2>4. \A i \in DOMAIN batch' : FALSE
    BY <1>1
  <2>. QED
    BY <2>3, <2>4 DEF LookComesFirst
<1>6. EditIsGuarded'
  BY <1>0, <1>1, <1>4 DEF EditIsGuarded, Guarded
<1>7. Has("read", {"ok"}) => Has("read", {"ok", "cached"})
  BY DEF Has
<1>8. LookIsOfFile'
  <2>1. /\ memo' # NoMemo => memo' <= version
        /\ memo' = version => seen
    <3>1. version \in Nat /\ version # NoMemo
      <4>1. version \in 0..MaxEdits
        BY <1>0 DEF LoopTypeOK, Versions
      <4>2. MaxEdits \in Nat
        BY LoopAssumption
      <4>. QED
        BY <4>1, <4>2 DEF NoMemo
    <3>2. CASE Has("edit", {"ok"})
      <4>1. memo' = NoMemo /\ version' = version
        BY <3>2, <1>1 DEF Memoised
      <4>. QED
        BY <3>1, <4>1
    <3>3. CASE ~Has("edit", {"ok"}) /\ Has("read", {"ok"})
      <4>1. memo' = version /\ version' = version /\ seen' = seen
        BY <3>3, <1>1 DEF Memoised
      <4>2. seen
        BY <3>3, <1>0, <1>7 DEF LookIsOfFile
      <4>. QED
        BY <3>1, <4>1, <4>2
    <3>4. CASE ~Has("edit", {"ok"}) /\ ~Has("read", {"ok"})
      <4>1. memo' = memo /\ version' = version /\ seen' = seen
        BY <3>4, <1>1 DEF Memoised
      <4>. QED
        BY <4>1, <1>0 DEF LookIsOfFile
    <3>. QED
      BY <3>2, <3>3, <3>4
  <2>2. inspected' => seen
    BY <1>0, <1>1 DEF Guarded, LookIsOfFile
  <2>. QED
    BY <2>1, <2>2, <1>1, <1>4 DEF LookIsOfFile
<1>. QED
  BY <1>2, <1>3, <1>5, <1>6, <1>8 DEF LoopInv

\* The probe makes the run recover, whatever it shows.
LEMMA ProbeKeeps ==
    ASSUME LoopInv, Probe
    PROVE  LoopInv'
<1>. USE DEF limits, round, caches, progress, mends
<1>0. /\ LoopTypeOK /\ RoundIsOpen /\ EditIsGuarded /\ LookIsOfFile /\ AnswerIsVerified
  BY DEF LoopInv
<1>1. /\ loopPc = "probing" /\ loopPc' = "top" /\ recovery' = TRUE /\ looked' = FALSE
      /\ UNCHANGED <<version, cancel, ending, soft, wrap, batch, result, unanswered, refusals,
                     verify, retries, inspected, memo, failures, last, same, dull, replans,
                     protocol, nonterm, own, proven, seen>>
  BY <1>0, SMTT(20) DEF Probe
<1>2. LoopTypeOK'
  <2>1. loopPc' \in Places /\ recovery' \in BOOLEAN /\ looked' \in BOOLEAN
    BY <1>1 DEF Places
  <2>2. batch' \in Batches \cup {<<>>} /\ result' \in [DOMAIN batch' -> CallStatuses]
    BY <1>0, <1>1 DEF LoopTypeOK
  <2>3. /\ version' \in Versions /\ cancel' \in BOOLEAN /\ ending' \in Endings
        /\ soft' \in BOOLEAN /\ wrap' \in BOOLEAN /\ unanswered' \in BOOLEAN
        /\ verify' \in BOOLEAN /\ inspected' \in BOOLEAN
        /\ refusals' \in 0..ReplanLimit /\ retries' \in 0..RetryLimit
        /\ memo' \in Versions \cup {NoMemo} /\ failures' \in 0..SearchLimit
        /\ same' \in 0..RepeatLimit /\ dull' \in 0..RepeatLimit
        /\ replans' \in 0..ReplanLimit /\ nonterm' \in 0..ReplanLimit
        /\ protocol' \in 0..ProtocolLimit
        /\ own' \in BOOLEAN /\ proven' \in BOOLEAN /\ seen' \in BOOLEAN
    BY <1>0, <1>1 DEF LoopTypeOK
  <2>. QED
    BY <2>1, <2>2, <2>3 DEF LoopTypeOK
<1>5. batch = <<>>
  BY <1>0, <1>1 DEF RoundIsOpen
<1>3. RoundIsOpen' /\ LookComesFirst' /\ AnswerIsVerified'
  BY <1>0, <1>1, <1>5, SMTT(60) DEF RoundIsOpen, LookComesFirst, AnswerIsVerified
<1>4. EditIsGuarded' /\ LookIsOfFile'
  BY <1>0, <1>1, <1>5 DEF EditIsGuarded, LookIsOfFile, Has
<1>. QED
  BY <1>2, <1>3, <1>4 DEF LoopInv

\* A text answer ends the run as answered only without a need to verify, and
\* as inspected only after an inspection.
LEMMA TextAnswerFact ==
    ASSUME LoopTypeOK, NEW terminal \in BOOLEAN, NEW empty \in BOOLEAN, NEW runnable \in BOOLEAN,
           TextAnswer(terminal, empty, runnable)
    PROVE  /\ loopPc = "asking"
           /\ \/ loopPc' = "top" /\ UNCHANGED <<ending, verify>>
              \/ loopPc' = "ended" /\ ending' \in Endings \ {"answered", "inspected"}
              \/ loopPc' = "ended" /\ ending' = "answered" /\ ~verify
              \/ loopPc' = "ended" /\ ending' = "inspected" /\ inspected
           /\ verify' \in BOOLEAN /\ refusals' \in 0..ReplanLimit /\ nonterm' \in 0..ReplanLimit
           /\ retries' \in 0..RetryLimit /\ soft' \in BOOLEAN /\ protocol' = 0
           /\ UNCHANGED <<version, cancel, wrap, batch, result, unanswered, recovery,
                          inspected, memo, failures, last, same, dull, replans, own, proven,
                          seen, looked>>
<1>. USE DEF round, caches, progress, loopHistory
<1>1. /\ loopPc = "asking" /\ Received
      /\ UNCHANGED <<version, cancel, wrap, batch, result, unanswered, recovery,
                     inspected, memo, failures, last, same, dull, replans, own, proven,
                     seen, looked>>
  BY DEF TextAnswer
<1>2. /\ verify \in BOOLEAN /\ refusals \in 0..ReplanLimit /\ nonterm \in 0..ReplanLimit
      /\ retries \in 0..RetryLimit /\ soft \in BOOLEAN
      /\ ReplanLimit \in Nat /\ RetryLimit \in Nat
  BY LoopAssumption DEF LoopTypeOK
<1>3. soft' \in BOOLEAN /\ protocol' = 0
  BY <1>1, <1>2 DEF Received
<1>4. /\ refusals < ReplanLimit => refusals + 1 \in 0..ReplanLimit
      /\ nonterm < ReplanLimit => nonterm + 1 \in 0..ReplanLimit
      /\ retries < RetryLimit => retries + 1 \in 0..RetryLimit
  BY <1>2
<1>5. CASE ~terminal
  BY <1>1, <1>2, <1>3, <1>4, <1>5 DEF TextAnswer, End, Endings
<1>6. CASE terminal /\ recovery
  BY <1>1, <1>2, <1>3, <1>4, <1>6 DEF TextAnswer, End, Endings
<1>7. CASE terminal /\ ~recovery /\ soft'
  BY <1>1, <1>2, <1>3, <1>7 DEF TextAnswer, End, Endings
<1>8. CASE terminal /\ ~recovery /\ ~soft' /\ verify /\ (runnable \/ ~inspected)
  BY <1>1, <1>2, <1>3, <1>4, <1>8 DEF TextAnswer, End, Endings
<1>9. CASE terminal /\ ~recovery /\ ~soft' /\ ~(verify /\ (runnable \/ ~inspected))
  <2>1. /\ verify' = FALSE /\ loopPc' = "ended"
        /\ ending' = CASE empty -> "empty"
                       [] verify /\ ~empty -> "inspected"
                       [] OTHER -> "answered"
        /\ UNCHANGED <<nonterm, refusals, retries>>
    BY <1>9 DEF TextAnswer, End
  <2>2. CASE empty
    BY <2>1, <2>2, <1>1, <1>2, <1>3 DEF Endings
  <2>3. CASE ~empty /\ verify
    BY <2>1, <2>3, <1>1, <1>2, <1>3, <1>9
  <2>4. CASE ~empty /\ ~verify
    BY <2>1, <2>4, <1>1, <1>2, <1>3
  <2>. QED
    BY <2>2, <2>3, <2>4
<1>. QED
  BY <1>5, <1>6, <1>7, <1>8, <1>9

\* A text answer keeps the invariant: it ends the run only over a proof, or it
\* sends the model back to work.
LEMMA TextAnswerKeeps ==
    ASSUME LoopInv, NEW terminal \in BOOLEAN, NEW empty \in BOOLEAN, NEW runnable \in BOOLEAN,
           TextAnswer(terminal, empty, runnable)
    PROVE  LoopInv'
<1>0. /\ LoopTypeOK /\ RoundIsOpen /\ LookComesFirst /\ EditIsGuarded /\ LookIsOfFile
      /\ AnswerIsVerified
  BY DEF LoopInv
<1>1. /\ loopPc = "asking"
      /\ \/ loopPc' = "top" /\ UNCHANGED <<ending, verify>>
         \/ loopPc' = "ended" /\ ending' \in Endings \ {"answered", "inspected"}
         \/ loopPc' = "ended" /\ ending' = "answered" /\ ~verify
         \/ loopPc' = "ended" /\ ending' = "inspected" /\ inspected
      /\ verify' \in BOOLEAN /\ refusals' \in 0..ReplanLimit /\ nonterm' \in 0..ReplanLimit
      /\ retries' \in 0..RetryLimit /\ soft' \in BOOLEAN /\ protocol' = 0
      /\ UNCHANGED <<version, cancel, wrap, batch, result, unanswered, recovery,
                     inspected, memo, failures, last, same, dull, replans, own, proven,
                     seen, looked>>
  BY <1>0, TextAnswerFact
<1>2. batch = <<>> /\ ~Has("edit", {"ok"}) /\ ending = "none"
  BY <1>0, <1>1 DEF RoundIsOpen, Has
<1>3. LoopTypeOK'
  BY <1>0, <1>1, NothingFact DEF LoopTypeOK, Places, Endings
<1>4. RoundIsOpen' /\ LookComesFirst'
  BY <1>0, <1>1, <1>2 DEF RoundIsOpen, LookComesFirst
<1>5. EditIsGuarded' /\ LookIsOfFile'
  BY <1>0, <1>1, <1>2 DEF EditIsGuarded, LookIsOfFile, Has
<1>6. AnswerIsVerified'
  BY <1>0, <1>1, <1>2 DEF AnswerIsVerified, EditIsGuarded, LookIsOfFile
<1>. QED
  BY <1>3, <1>4, <1>5, <1>6 DEF LoopInv

-----------------------------------------------------------------------------
\* A step of a run, or a new run.
LoopRuns == LoopNext \/ \E require \in BOOLEAN : Start(require)

\* So every step keeps the invariant.
LEMMA LoopStepKeeps == LoopInv /\ [LoopRuns]_loopVars => LoopInv'
<1>. SUFFICES ASSUME LoopInv, [LoopRuns]_loopVars PROVE LoopInv'
  OBVIOUS
<1>1. CASE UNCHANGED loopVars
  BY <1>1 DEF loopVars, limits, round, guards, caches, progress, mends, loopHistory,
              LoopInv, LoopTypeOK, RoundIsOpen, LookComesFirst, EditIsGuarded,
              LookIsOfFile, AnswerIsVerified, Has, Holds
<1>2. CASE \/ Submit \/ Exhausted \/ Turn \/ ChatFails \/ EnvelopeError \/ Executed
           \/ Cancel
  BY <1>2, GoingOnKeeps
<1>3. ASSUME NEW require \in BOOLEAN, Start(require) PROVE LoopInv'
  BY <1>3, StartKeepsLoop
<1>4. ASSUME NEW b \in Batches, ToolRound(b) PROVE LoopInv'
  BY <1>4, ToolRoundKeeps
<1>5. CASE GateCall
  BY <1>5, GateKeeps
<1>6. ASSUME NEW i \in DOMAIN batch, Execute(i) PROVE LoopInv'
  BY <1>6, ExecuteKeeps
<1>7. CASE Merge
  BY <1>7, MergeKeeps
<1>8. CASE Probe
  BY <1>8, ProbeKeeps
<1>9. ASSUME NEW terminal \in BOOLEAN, NEW empty \in BOOLEAN, NEW runnable \in BOOLEAN,
             TextAnswer(terminal, empty, runnable)
      PROVE  LoopInv'
  BY <1>9, TextAnswerKeeps
<1>. QED
  BY <1>1, <1>2, <1>3, <1>4, <1>5, <1>6, <1>7, <1>8, <1>9 DEF LoopRuns, LoopNext, LoopStep

\* The inductive invariant of a run of the agent: what is not proven or not
\* looked at is guarded, through rounds, replays, probes and new runs.
THEOREM LoopInvariant == LoopSpec => []LoopInv
<1>. QED
  BY LoopStart, LoopStepKeeps, PTL DEF LoopSpec, LoopRuns

\* A run that edited answers only when a checker has passed since its last
\* edit, or a read has looked where nothing can be checked.
THEOREM AnswersAreVerified == LoopSpec => []AnswerIsVerified
<1>1. LoopInv => AnswerIsVerified
  BY DEF LoopInv
<1>. QED
  BY <1>1, LoopInvariant, PTL

\* A recovering run edits nothing before a reading tool has brought something
\* new: the action property, from the same invariant.
THEOREM NoEditIsBlind == LoopSpec => NoBlindEdit
<1>1. ASSUME LoopInv, [LoopRuns]_loopVars
      PROVE  [version' > version => looked]_loopVars
  <2>1. SUFFICES ASSUME LoopRuns, version' > version PROVE looked
    BY <1>1
  <2>2. version \in Nat /\ LookComesFirst /\ LoopTypeOK
    BY <1>1, LoopAssumption DEF LoopInv, LoopTypeOK, Versions
  <2>3. PICK i \in DOMAIN batch : Execute(i)
    BY <2>1, <2>2 DEF LoopRuns, LoopNext, LoopStep, Submit, Turn, GateCall, Executed, Merge,
                      Probe, Exhausted, ChatFails, EnvelopeError, ToolRound, TextAnswer,
                      Cancel, Start
  <2>4. result[i] = "go" /\ batch[i] = "edit"
    BY <2>1, <2>2, <2>3, ExecuteFact
  <2>. QED
    BY <2>2, <2>4 DEF LookComesFirst, Holds
<1>. QED
  BY <1>1, LoopInvariant, PTL DEF LoopSpec, LoopRuns, NoBlindEdit

-----------------------------------------------------------------------------
(* Runs below runs *)

\* The bounds are numbers, and nobody is not a run.
LEMMA Numbers ==
    MaxRuns \in Nat /\ Slots \in Nat /\ MaxSpend \in Nat /\ Nothing \notin Runs
BY BoundsAssumption DEF Runs, Nothing

\* The runs that hold a slot can be counted.
LEMMA BusyFinite == IsFiniteSet(Busy) /\ Cardinality(Busy) \in Nat
<1>1. IsFiniteSet(Runs)
  BY Numbers, FS_Interval DEF Runs
<1>2. Busy \subseteq Runs
  BY DEF Busy
<1>. QED
  BY <1>1, <1>2, FS_Subset, FS_CardinalityType

\* The invariant holds before the first call.
LEMMA SubStart == SubInit => SubInv
<1>. SUFFICES ASSUME SubInit PROVE SubInv
  OBVIOUS
<1>1. SubTypeOK
  <2>1. \A r \in Runs : caller[r] \in 0..r - 1
    BY Numbers DEF SubInit, Runs
  <2>2. {spent, payload, folded} \subseteq [Runs -> 0..MaxSpend]
    BY Numbers DEF SubInit
  <2>3. cancelled \in BOOLEAN
    BY DEF SubInit
  <2>. QED
    BY <2>1, <2>2, <2>3 DEF SubInit, SubTypeOK
<1>2. NotStarted /\ OwnBudget /\ Settled
  BY DEF SubInit, NotStarted, OwnBudget, Settled
<1>3. SlotsKept
  <2>1. Busy = {}
    BY DEF SubInit, Busy
  <2>. QED
    BY <2>1, FS_EmptySet, Numbers DEF SubInit, SlotsKept
<1>. QED
  BY <1>1, <1>2, <1>3 DEF SubInv

-----------------------------------------------------------------------------
\* A step of one run and its child, or the parent's cancellation.
RunStep(r) ==
    \/ Enter(r) \/ Refuse(r) \/ StartChild(r) \/ Spend(r) \/ TakeResult(r)
    \/ TakeFailure(r) \/ Stop(r) \/ Join(r) \/ Fold(r)
    \/ \E outcome \in {"ok"} \cup Failed : ChildEnds(r, outcome)

\* A step is the cancellation of the parent or a step of one run.
LEMMA NextIsMove == SubNext => CancelParent \/ \E r \in Runs : RunStep(r)
BY DEF SubNext, RunStep

\* What a run reports is what its child spent, or nothing at all.
LEMMA UsageType ==
    ASSUME SubTypeOK, NEW r \in Runs
    PROVE  Usage(r) \in 0..MaxSpend
BY Numbers DEF SubTypeOK, Usage

\* A slot is taken and given back one at a time.
LEMMA StepSlots ==
    ASSUME SubTypeOK, SlotsKept, NEW r \in Runs, RunStep(r)
    PROVE  SlotsKept' /\ slots' \in 0..Slots
<1>1. CASE Enter(r)
  <2>1. Busy' = Busy \cup {r} /\ r \notin Busy
    BY <1>1 DEF Enter, Go, Busy, SubTypeOK
  <2>2. Cardinality(Busy') = Cardinality(Busy) + 1
    BY <2>1, BusyFinite, FS_AddElement
  <2>3. slots \in Nat /\ slots > 0 /\ slots' = slots - 1
    BY <1>1 DEF Enter, SubTypeOK
  <2>. QED
    BY <2>2, <2>3, BusyFinite, Numbers DEF SlotsKept, SubTypeOK
<1>2. CASE Fold(r)
  <2>1. Busy' = Busy \ {r} /\ r \in Busy
    BY <1>2 DEF Fold, Go, Busy, SubTypeOK
  <2>2. Cardinality(Busy') = Cardinality(Busy) - 1 /\ Cardinality(Busy') \in Nat
    BY <2>1, BusyFinite, FS_RemoveElement, FS_CardinalityType
  <2>3. slots \in Nat /\ slots' = slots + 1
    BY <1>2 DEF Fold, SubTypeOK
  <2>. QED
    BY <2>2, <2>3, BusyFinite, Numbers DEF SlotsKept
<1>3. CASE ~Enter(r) /\ ~Fold(r)
  <2>1. slots' = slots
    BY <1>3 DEF RunStep, Refuse, StartChild, Spend, TakeResult, TakeFailure, Stop, Join,
                ChildEnds
  <2>2. Busy' = Busy
    BY <1>3 DEF RunStep, Refuse, StartChild, Spend, TakeResult, TakeFailure, Stop, Join,
                ChildEnds, Go, Busy, SubTypeOK
  <2>. QED
    BY <2>1, <2>2 DEF SlotsKept, SubTypeOK
<1>. QED
  BY <1>1, <1>2, <1>3

\* Types.
LEMMA MoveTypes ==
    ASSUME SubTypeOK, SlotsKept, NEW r \in Runs, RunStep(r)
    PROVE  SubTypeOK'
<1> DEFINE At == {"new", "ready", "watching", "stopping", "folding", "done"}
           Child == {"none", "live", "ok"} \cup Failed
<1>1. slots' \in 0..Slots
  BY StepSlots
<1>2. caller' = caller /\ cancelled' = cancelled
  BY DEF RunStep, Enter, Refuse, StartChild, Spend, TakeResult, TakeFailure, Stop, Join,
         Fold, ChildEnds
<1>3. at' \in [Runs -> At]
  BY DEF RunStep, Enter, Refuse, StartChild, Spend, TakeResult, TakeFailure, Stop, Join,
         Fold, ChildEnds, Go, SubTypeOK
<1>4. child' \in [Runs -> Child]
  BY DEF RunStep, Enter, Refuse, StartChild, Spend, TakeResult, TakeFailure, Stop, Join,
         Fold, ChildEnds, SubTypeOK
<1>5. told' \subseteq Runs /\ late' \subseteq Runs
  BY DEF RunStep, Enter, Refuse, StartChild, Spend, TakeResult, TakeFailure, Stop, Join,
         Fold, ChildEnds, SubTypeOK
<1>6. spent' \in [Runs -> 0..MaxSpend]
  <2>1. CASE Spend(r)
    <3>1. spent[r] + 1 \in 0..MaxSpend
      BY <2>1, Numbers DEF Spend, SubTypeOK
    <3>. QED
      BY <2>1, <3>1 DEF Spend, SubTypeOK
  <2>2. CASE ~Spend(r)
    BY <2>2 DEF RunStep, Enter, Refuse, StartChild, TakeResult, TakeFailure, Stop, Join,
                Fold, ChildEnds, SubTypeOK
  <2>. QED
    BY <2>1, <2>2
<1>7. payload' \in [Runs -> 0..MaxSpend]
  BY Numbers DEF RunStep, Enter, Refuse, StartChild, Spend, TakeResult, TakeFailure, Stop,
         Join, Fold, ChildEnds, OfThread, SubTypeOK
<1>8. folded' \in [Runs -> 0..MaxSpend]
  BY UsageType DEF RunStep, Enter, Refuse, StartChild, Spend, TakeResult, TakeFailure,
         Stop, Join, Fold, ChildEnds, SubTypeOK
<1>9. budget' \in [Runs -> Runs \cup {Nothing}]
  BY DEF RunStep, Enter, Refuse, StartChild, Spend, TakeResult, TakeFailure, Stop, Join,
         Fold, ChildEnds, OfThread, SubTypeOK
<1>. QED
  BY <1>1, <1>2, <1>3, <1>4, <1>5, <1>6, <1>7, <1>8, <1>9 DEF SubTypeOK

\* A step of a run leaves the other runs as they are: their state belongs to
\* threads of their own.
LEMMA StepIsOwn ==
    ASSUME SubTypeOK, NEW r \in Runs, RunStep(r), NEW q \in Runs, q # r
    PROVE  /\ at'[q] = at[q] /\ child'[q] = child[q] /\ spent'[q] = spent[q]
           /\ budget'[q] = budget[q] /\ payload'[q] = payload[q]
           /\ folded'[q] = folded[q] /\ (q \in late' <=> q \in late)
BY DEF RunStep, Enter, Refuse, StartChild, Spend, TakeResult, TakeFailure, Stop, Join,
       Fold, ChildEnds, Go, OfThread, SubTypeOK

\* The run that takes the step.
OfRun(r) ==
    /\ at[r] \in {"new", "ready"} =>
          /\ child[r] = "none" /\ spent[r] = 0 /\ payload[r] = 0 /\ folded[r] = 0
          /\ r \notin late
    /\ at[r] \in {"watching", "stopping", "folding"} =>
          /\ budget[r] = r
          /\ payload[r] \in {0, spent[r]}
          /\ at[r] # "folding" => payload[r] = 0 /\ r \notin late
          /\ r \in late => payload[r] = 0
          /\ at[r] = "folding" /\ r \notin late => child[r] # "live"
    /\ at[r] = "done" /\ r \notin late => child[r] # "live" /\ folded[r] = spent[r]

\* The invariant of the runs can be said of each of them.
LEMMA PerRun == NotStarted /\ OwnBudget /\ Settled <=> \A r \in Runs : OfRun(r)
BY DEF NotStarted, OwnBudget, Settled, OfRun

\* A step of a run keeps what is said of that run.
LEMMA StepOwn ==
    ASSUME SubTypeOK, NEW r \in Runs, RunStep(r), OfRun(r)
    PROVE  OfRun(r)'
<1>1. CASE Enter(r)
  BY <1>1 DEF Enter, Go, OfThread, OfRun, SubTypeOK
<1>2. CASE Refuse(r)
  BY <1>2 DEF Refuse, Go, OfRun, SubTypeOK
<1>3. CASE StartChild(r)
  BY <1>3 DEF StartChild, Go, OfThread, OfRun, SubTypeOK
<1>4. CASE Spend(r)
  <2>1. /\ child[r] = "live" /\ spent'[r] = spent[r] + 1
        /\ UNCHANGED <<at, child, late, budget, payload, folded>>
    BY <1>4 DEF Spend, SubTypeOK
  <2>2. at[r] \notin {"new", "ready"}
    BY <2>1 DEF OfRun
  <2>3. at[r] \in {"watching", "stopping", "folding"} => payload[r] = 0
    BY <2>1 DEF OfRun
  <2>. QED
    BY <2>1, <2>2, <2>3 DEF OfRun
<1>5. CASE TakeResult(r)
  BY <1>5 DEF TakeResult, Go, OfThread, OfRun, SubTypeOK
<1>6. CASE TakeFailure(r)
  BY <1>6 DEF TakeFailure, Go, Failed, OfRun, SubTypeOK
<1>7. CASE Stop(r)
  BY <1>7 DEF Stop, Go, OfRun, SubTypeOK
<1>8. CASE Join(r)
  BY <1>8 DEF Join, Go, OfRun, SubTypeOK
<1>9. CASE Fold(r)
  <2>1. /\ at[r] = "folding" /\ at'[r] = "done" /\ folded'[r] = Usage(r)
        /\ UNCHANGED <<child, spent, late>>
    BY <1>9 DEF Fold, Go, SubTypeOK
  <2>2. Usage(r) = spent[r]
    <3>1. budget[r] = r /\ payload[r] \in {0, spent[r]}
      BY <2>1 DEF OfRun
    <3>2. spent[r] \in Nat
      BY Numbers DEF SubTypeOK
    <3>. QED
      BY <3>1, <3>2 DEF Usage
  <2>. QED
    BY <2>1, <2>2 DEF OfRun
<1>10. CASE \E outcome \in {"ok"} \cup Failed : ChildEnds(r, outcome)
  BY <1>10 DEF ChildEnds, Failed, OfRun, SubTypeOK
<1>. QED
  BY <1>1, <1>2, <1>3, <1>4, <1>5, <1>6, <1>7, <1>8, <1>9, <1>10 DEF RunStep

\* Every step keeps the invariant.
LEMMA SubStep == SubInv /\ [SubNext]_subVars => SubInv'
<1>. SUFFICES ASSUME SubInv, [SubNext]_subVars PROVE SubInv'
  OBVIOUS
<1>1. CASE CancelParent
  BY <1>1 DEF CancelParent, SubInv, SubTypeOK, NotStarted, OwnBudget, Settled, SlotsKept,
              Busy
<1>2. CASE \E r \in Runs : RunStep(r)
  <2>1. PICK r \in Runs : RunStep(r)
    BY <1>2
  <2>2. SubTypeOK' /\ SlotsKept'
    BY <2>1, MoveTypes, StepSlots DEF SubInv
  <2>3. \A q \in Runs : OfRun(q)
    BY PerRun DEF SubInv
  <2>4. ASSUME NEW q \in Runs PROVE OfRun(q)'
    <3>1. CASE q = r
      BY <2>1, <2>3, <3>1, StepOwn DEF SubInv
    <3>2. CASE q # r
      BY <2>1, <2>3, <3>2, StepIsOwn DEF SubInv, OfRun
    <3>. QED
      BY <3>1, <3>2
  <2>5. NotStarted' /\ OwnBudget' /\ Settled'
    BY <2>4 DEF NotStarted, OwnBudget, Settled, OfRun
  <2>. QED
    BY <2>2, <2>5 DEF SubInv
<1>3. CASE UNCHANGED subVars
  BY <1>3 DEF subVars, SubInv, SubTypeOK, NotStarted, OwnBudget, Settled, SlotsKept, Busy
<1>. QED
  BY <1>1, <1>2, <1>3, NextIsMove

\* The state a run folds belongs to its own thread, and every slot taken is
\* held by a run that gives it back.
THEOREM SubInvariant == SubSpec => []SubInv
<1>. QED
  BY SubStart, SubStep, PTL DEF SubSpec

\* However a run ends, the parent's budget learns what its child spent, for
\* any number of runs, nested or side by side.
THEOREM SpendIsFolded == SubSpec => []SpendFolded
<1>1. SubInv => SpendFolded
  BY DEF SubInv, Settled, SpendFolded
<1>. QED
  BY SubInvariant, <1>1, PTL

-----------------------------------------------------------------------------
(* The client of a server *)

\* What a chat's record is made of.
LEMMA ChatFact ==
    ASSUME McpTypeOK, NEW c \in Chats
    PROVE  chat[c] \in [pc : ChatPlaces, existed : BOOLEAN, started : BOOLEAN,
                        serving : BOOLEAN, id : 0..MaxRequests, got : 0..MaxRequests]
BY DEF McpTypeOK

\* An element of a sequence over a set is in the set.
LEMMA MemberFact ==
    ASSUME NEW S, NEW s \in Seq(S)
    PROVE  \A i \in DOMAIN s : s[i] \in S
OBVIOUS

\* The invariant holds before the first chat.
LEMMA McpStart == McpInit => McpInv
<1>. SUFFICES ASSUME McpInit PROVE McpInv
  OBVIOUS
<1>1. McpTypeOK
  <2>1. 0 \in 0..MaxRequests /\ 0 \in Nat
    BY RequestBound
  <2>2. <<>> \in Seq(1..MaxRequests)
    OBVIOUS
  <2>3. chat \in [Chats -> [pc : ChatPlaces, existed : BOOLEAN, started : BOOLEAN,
                           serving : BOOLEAN, id : 0..MaxRequests, got : 0..MaxRequests]]
    BY <2>1 DEF McpInit, NoCall, ChatPlaces
  <2>. QED
    BY <2>1, <2>2, <2>3 DEF McpInit, McpTypeOK
<1>2. IdsAreOwn /\ OneStart /\ NobodyServed /\ AnswerIsOwn
  BY DEF McpInit, IdsAreOwn, OneStart, NobodyServed, AnswerIsOwn, NoCall
<1>. QED
  BY <1>1, <1>2 DEF McpInv

\* A step of one chat that leaves its request and the pipe's ids alone keeps
\* every id its own.
LEMMA SameIds ==
    ASSUME McpInv, NEW c \in Chats, NEW r \in [pc : ChatPlaces, existed : BOOLEAN,
               started : BOOLEAN, serving : BOOLEAN, id : 0..MaxRequests, got : 0..MaxRequests],
           chat' = [chat EXCEPT ![c] = r],
           \/ r.id = chat[c].id /\ r.got = chat[c].got
           \/ r.id = 0 /\ r.got = 0,
           r.pc = "waiting" => chat[c].pc = "waiting" /\ r.id = chat[c].id,
           UNCHANGED <<counter, received, answers>>
    PROVE  /\ IdsAreOwn' /\ AnswerIsOwn'
           /\ chat' \in [Chats -> [pc : ChatPlaces, existed : BOOLEAN, started : BOOLEAN,
                           serving : BOOLEAN, id : 0..MaxRequests, got : 0..MaxRequests]]
<1>1. \A d \in Chats : chat'[d] = IF d = c THEN r ELSE chat[d]
  BY DEF McpInv, McpTypeOK
<1>2. chat' \in [Chats -> [pc : ChatPlaces, existed : BOOLEAN, started : BOOLEAN,
                           serving : BOOLEAN, id : 0..MaxRequests, got : 0..MaxRequests]]
  BY DEF McpInv, McpTypeOK
<1>3. IdsAreOwn'
  <2>1. counter \in 0..MaxRequests
    BY DEF McpInv, McpTypeOK
  <2>2. ASSUME NEW d \in Chats
        PROVE  /\ chat'[d].id <= counter
               /\ chat'[d].pc = "waiting" => chat'[d].id # 0
    BY <1>1, <2>1, ChatFact DEF McpInv, IdsAreOwn
  <2>3. ASSUME NEW d \in Chats, NEW e \in Chats, chat'[d].id # 0, chat'[d].id = chat'[e].id
        PROVE  d = e
    BY <1>1, <2>3 DEF McpInv, IdsAreOwn
  <2>. QED
    BY <2>2, <2>3 DEF McpInv, IdsAreOwn
<1>4. AnswerIsOwn'
  BY <1>1 DEF McpInv, AnswerIsOwn
<1>. QED
  BY <1>2, <1>3, <1>4

\* Every step keeps the invariant.
LEMMA McpKeeps == McpInv /\ [McpNext]_mcpVars => McpInv'
<1>. SUFFICES ASSUME McpInv, [McpNext]_mcpVars PROVE McpInv'
  OBVIOUS
<1>. USE DEF McpInv
<1>. DEFINE Recs == [pc : ChatPlaces, existed : BOOLEAN, started : BOOLEAN,
                     serving : BOOLEAN, id : 0..MaxRequests, got : 0..MaxRequests]
<1>0. /\ \A d \in Chats : chat[d] \in Recs
      /\ DOMAIN chat = Chats
  BY DEF McpTypeOK
<1>1. ASSUME NEW c \in Chats, Discover(c) PROVE McpInv'
  <2>. DEFINE r == [NoCall EXCEPT !.pc = "client", !.existed = cached # "none"]
  <2>1. /\ r \in Recs /\ r.id = 0 /\ r.got = 0 /\ r.pc = "client" /\ ~r.serving
    <3>1. 0 \in 0..MaxRequests
      BY RequestBound
    <3>2. NoCall \in Recs
      BY <3>1 DEF NoCall, ChatPlaces
    <3>3. r \in Recs
      BY <3>2 DEF ChatPlaces
    <3>. QED
      BY <3>3 DEF NoCall
  <2>2. chat' = [chat EXCEPT ![c] = r]
    BY <1>1 DEF Discover
  <2>. HIDE DEF r
  <2>3. IdsAreOwn' /\ AnswerIsOwn' /\ chat' \in [Chats -> Recs]
    BY <1>1, <2>1, <2>2, SameIds DEF Discover, pipe
  <2>4. McpTypeOK'
    BY <1>1, <2>3 DEF Discover, pipe, McpTypeOK
  <2>5. OneStart'
    BY <1>0, <1>1, <2>1, <2>2, SMTT(40) DEF Discover, pipe, OneStart
  <2>6. NobodyServed'
    <3>1. \A e \in Chats : chat'[e] = IF e = c THEN r ELSE chat[e]
      BY <1>0, <2>2
    <3>2. cached' = cached
      BY <1>1 DEF Discover
    <3>. QED
      BY <2>1, <3>1, <3>2 DEF NobodyServed
  <2>. QED
    BY <2>3, <2>4, <2>5, <2>6
<1>2. ASSUME NEW c \in Chats, GetClient(c) PROVE McpInv'
  <2>. DEFINE r == IF cached = "dead" THEN [chat[c] EXCEPT !.pc = "failed"]
                   ELSE [chat[c] EXCEPT !.started = ~chat[c].existed,
                            !.pc = IF dead \/ server = "gone" THEN "failed" ELSE "sending"]
  <2>1. /\ r \in Recs /\ r.id = chat[c].id /\ r.got = chat[c].got
        /\ r.pc \in {"failed", "sending"}
    BY <1>0 DEF ChatPlaces
  <2>2. chat' = [chat EXCEPT ![c] = r]
    BY <1>0, <1>2 DEF GetClient, ChatGoes
  <2>. HIDE DEF r
  <2>3. IdsAreOwn' /\ AnswerIsOwn' /\ chat' \in [Chats -> Recs]
    BY <1>2, <2>1, <2>2, SameIds DEF GetClient, pipe
  <2>4. McpTypeOK'
    BY <1>2, <2>3 DEF GetClient, pipe, McpTypeOK
  <2>5. OneStart' /\ NobodyServed'
    BY <1>0, <1>2, <2>1, <2>2 DEF GetClient, pipe, OneStart, NobodyServed
  <2>. QED
    BY <2>3, <2>4, <2>5
<1>3. ASSUME NEW c \in Chats, NEW p \in ChatPlaces \ {"waiting"}, ChatGoes(c, p),
             UNCHANGED <<counter, received, answers>>
      PROVE  /\ IdsAreOwn' /\ AnswerIsOwn' /\ chat' \in [Chats -> Recs]
             /\ \A d \in Chats : /\ chat'[d].pc = IF d = c THEN p ELSE chat[d].pc
                                 /\ chat'[d].serving = chat[d].serving
  <2>. DEFINE r == [chat[c] EXCEPT !.pc = p]
  <2>1. /\ r \in Recs /\ r.id = chat[c].id /\ r.got = chat[c].got
        /\ r.pc = p /\ r.serving = chat[c].serving
    BY <1>0
  <2>2. chat' = [chat EXCEPT ![c] = r]
    BY <1>0, <1>3 DEF ChatGoes
  <2>. HIDE DEF r
  <2>3. IdsAreOwn' /\ AnswerIsOwn' /\ chat' \in [Chats -> Recs]
    BY <1>3, <2>1, <2>2, SameIds
  <2>. QED
    BY <1>0, <2>1, <2>2, <2>3
<1>4. ASSUME NEW c \in Chats, StartServer(c) PROVE McpInv'
  <2>1. /\ IdsAreOwn' /\ AnswerIsOwn' /\ chat' \in [Chats -> Recs]
        /\ \A d \in Chats : /\ chat'[d].pc = IF d = c THEN "starting" ELSE chat[d].pc
                            /\ chat'[d].serving = chat[d].serving
    BY <1>3, <1>4 DEF StartServer, pipe, ChatPlaces
  <2>2. McpTypeOK'
    BY <1>4, <2>1 DEF StartServer, pipe, McpTypeOK
  <2>3. OneStart' /\ NobodyServed'
    BY <1>4, <2>1 DEF StartServer, pipe, OneStart, NobodyServed, McpTypeOK
  <2>. QED
    BY <2>1, <2>2, <2>3
<1>5. ASSUME NEW c \in Chats, Started(c) PROVE McpInv'
  <2>. DEFINE r == [chat[c] EXCEPT !.started = TRUE, !.pc = "sending"]
  <2>1. /\ r \in Recs /\ r.id = chat[c].id /\ r.got = chat[c].got /\ r.pc = "sending"
    BY <1>0 DEF ChatPlaces
  <2>2. chat' = [chat EXCEPT ![c] = r]
    BY <1>0, <1>5 DEF Started
  <2>. HIDE DEF r
  <2>3. IdsAreOwn' /\ AnswerIsOwn' /\ chat' \in [Chats -> Recs]
    BY <1>5, <2>1, <2>2, SameIds DEF Started, pipe
  <2>4. McpTypeOK'
    BY <1>5, <2>3 DEF Started, pipe, McpTypeOK
  <2>5. OneStart' /\ NobodyServed'
    BY <1>0, <1>5, <2>1, <2>2 DEF Started, pipe, OneStart, NobodyServed
  <2>. QED
    BY <2>3, <2>4, <2>5
<1>6. ASSUME NEW c \in Chats, StartFails(c) PROVE McpInv'
  <2>1. /\ IdsAreOwn' /\ AnswerIsOwn' /\ chat' \in [Chats -> Recs]
        /\ \A d \in Chats : /\ chat'[d].pc = IF d = c THEN "failed" ELSE chat[d].pc
                            /\ chat'[d].serving = chat[d].serving
    BY <1>3, <1>6 DEF StartFails, ChatPlaces
  <2>2. McpTypeOK'
    BY <1>6, <2>1 DEF StartFails, McpTypeOK
  <2>3. OneStart' /\ NobodyServed'
    BY <1>6, <2>1 DEF StartFails, OneStart, NobodyServed
  <2>. QED
    BY <2>1, <2>2, <2>3
<1>7. ASSUME NEW c \in Chats, CallTool(c) PROVE McpInv'
  <2>1. /\ IdsAreOwn' /\ AnswerIsOwn' /\ chat' \in [Chats -> Recs]
        /\ \A d \in Chats : /\ chat'[d].pc = IF d = c THEN "sending" ELSE chat[d].pc
                            /\ chat'[d].serving = chat[d].serving
    BY <1>3, <1>7 DEF CallTool, pipe, ChatPlaces
  <2>2. McpTypeOK'
    BY <1>7, <2>1 DEF CallTool, pipe, McpTypeOK
  <2>3. OneStart' /\ NobodyServed'
    BY <1>7, <2>1 DEF CallTool, pipe, OneStart, NobodyServed
  <2>. QED
    BY <2>1, <2>2, <2>3
<1>8. ASSUME NEW c \in Chats, SendRequest(c) PROVE McpInv'
  <2>. DEFINE r == [chat[c] EXCEPT !.pc = "waiting", !.id = counter + 1, !.got = 0]
  <2>1. /\ counter + 1 \in 1..MaxRequests /\ counter \in Nat /\ counter' = counter + 1
    BY <1>8, RequestBound DEF SendRequest, McpTypeOK
  <2>2. /\ r \in Recs /\ r.id = counter + 1 /\ r.got = 0 /\ r.pc = "waiting"
        /\ r.serving = chat[c].serving
    <3>1. counter + 1 \in 0..MaxRequests /\ 0 \in 0..MaxRequests
      BY <2>1, RequestBound
    <3>. QED
      BY <1>0, <3>1 DEF ChatPlaces
  <2>3. chat' = [chat EXCEPT ![c] = r]
    BY <1>0, <1>8, <2>1 DEF SendRequest
  <2>. HIDE DEF r
  <2>4. \A d \in Chats : chat'[d] = IF d = c THEN r ELSE chat[d]
    BY <1>0, <2>3
  <2>5. chat' \in [Chats -> Recs]
    BY <2>2, <2>3 DEF McpTypeOK
  <2>6. McpTypeOK'
    BY <1>8, <2>1, <2>5 DEF SendRequest, McpTypeOK
  <2>7. \A d \in Chats : chat[d].id \in Nat /\ chat[d].id <= counter
    BY <1>0, RequestBound DEF IdsAreOwn
  <2>8. IdsAreOwn'
    <3>1. received' \subseteq 1..counter'
      BY <1>8, <2>1 DEF SendRequest, IdsAreOwn
    <3>2. \A i \in DOMAIN answers' : answers'[i] <= counter'
      <4>1. \A i \in DOMAIN answers : answers[i] \in Nat
        BY RequestBound DEF McpTypeOK
      <4>. QED
        BY <1>8, <2>1, <4>1 DEF SendRequest, IdsAreOwn
    <3>3. ASSUME NEW d \in Chats
          PROVE  /\ chat'[d].id <= counter'
                 /\ chat'[d].pc = "waiting" => chat'[d].id # 0
      BY <2>1, <2>2, <2>4, <2>7 DEF IdsAreOwn
    <3>4. ASSUME NEW d \in Chats, NEW e \in Chats, chat'[d].id # 0, chat'[d].id = chat'[e].id
          PROVE  d = e
      BY <2>1, <2>2, <2>4, <2>7, <3>4 DEF IdsAreOwn
    <3>. QED
      BY <3>1, <3>2, <3>3, <3>4 DEF IdsAreOwn
  <2>9. AnswerIsOwn'
    BY <2>2, <2>4 DEF AnswerIsOwn
  <2>10. OneStart' /\ NobodyServed'
    <3>1. /\ chat[c].pc = "sending"
          /\ UNCHANGED <<cached, locked, server, starts>>
      BY <1>8 DEF SendRequest
    <3>2. cached # "none"
      BY <3>1 DEF NobodyServed
    <3>3. \A d \in Chats : chat'[d].pc = "starting" <=> chat[d].pc = "starting"
      BY <2>2, <2>4, <3>1
    <3>. QED
      BY <3>1, <3>2, <3>3 DEF OneStart, NobodyServed
  <2>. QED
    BY <2>6, <2>8, <2>9, <2>10
<1>9. ASSUME NEW c \in Chats, SendFails(c) PROVE McpInv'
  <2>1. /\ IdsAreOwn' /\ AnswerIsOwn' /\ chat' \in [Chats -> Recs]
        /\ \A d \in Chats : /\ chat'[d].pc = IF d = c THEN "failed" ELSE chat[d].pc
                            /\ chat'[d].serving = chat[d].serving
    BY <1>3, <1>9 DEF SendFails, ChatPlaces
  <2>2. McpTypeOK'
    BY <1>9, <2>1 DEF SendFails, McpTypeOK
  <2>3. OneStart' /\ NobodyServed'
    BY <1>9, <2>1 DEF SendFails, OneStart, NobodyServed
  <2>. QED
    BY <2>1, <2>2, <2>3
<1>10. ASSUME answers # <<>>, answers' = Tail(answers)
       PROVE  /\ answers' \in Seq(1..MaxRequests) /\ Head(answers) \in 1..MaxRequests
              /\ (\A i \in DOMAIN answers : answers[i] <= counter)
                     => \A i \in DOMAIN answers' : answers'[i] <= counter
  <2>1. answers \in Seq(1..MaxRequests)
    BY DEF McpTypeOK
  <2>. QED
    <3>1. /\ Len(answers) \in Nat /\ Len(answers) # 0 /\ DOMAIN answers = 1..Len(answers)
          /\ Len(answers') = Len(answers) - 1 /\ answers' \in Seq(1..MaxRequests)
          /\ Head(answers) = answers[1]
      BY <1>10, <2>1
    <3>2. DOMAIN answers' = 1..Len(answers')
      BY <3>1
    <3>3. ASSUME NEW i \in DOMAIN answers'
          PROVE  i + 1 \in DOMAIN answers /\ answers'[i] = answers[i + 1]
      BY <1>10, <2>1, <3>1, <3>2, <3>3
    <3>4. answers[1] \in 1..MaxRequests
      <4>1. 1 \in DOMAIN answers
        BY <3>1
      <4>2. \A i \in DOMAIN answers : answers[i] \in 1..MaxRequests
        BY <2>1, MemberFact
      <4>. QED
        BY <4>1, <4>2
    <3>. QED
      BY <3>1, <3>3, <3>4
<1>11. ASSUME NEW c \in Chats, TakeAnswer(c) PROVE McpInv'
  <2>1. /\ answers' \in Seq(1..MaxRequests) /\ Head(answers) \in 1..MaxRequests
        /\ \A i \in DOMAIN answers' : answers'[i] <= counter
    BY <1>10, <1>11 DEF TakeAnswer, IdsAreOwn
  <2>. DEFINE taken == [chat[c] EXCEPT !.pc = "idle", !.serving = TRUE, !.got = Head(answers)]
              error == [chat[c] EXCEPT !.pc = "failed"]
  <2>2. \E r \in Recs :
           /\ chat' \in [Chats -> Recs]
           /\ \A d \in Chats : chat'[d] = IF d = c THEN r ELSE chat[d]
           /\ r.id = chat[c].id /\ r.got \in {chat[c].got, chat[c].id}
           /\ r.pc \in {"idle", "failed", "waiting"}
    <3>1. CASE Head(answers) = chat[c].id /\ chat' = [chat EXCEPT ![c] = taken]
      <4>1. taken \in Recs
        <5>1. Head(answers) \in 0..MaxRequests
          BY <2>1, RequestBound
        <5>. QED
          BY <1>0, <5>1 DEF ChatPlaces
      <4>2. taken.id = chat[c].id /\ taken.got = Head(answers) /\ taken.pc = "idle"
        BY <1>0
      <4>. HIDE DEF taken
      <4>. QED
        BY <1>0, <3>1, <4>1, <4>2 DEF McpTypeOK
    <3>2. CASE chat' = [chat EXCEPT ![c] = error]
      <4>1. /\ error \in Recs /\ error.id = chat[c].id /\ error.got = chat[c].got
            /\ error.pc = "failed"
        BY <1>0 DEF ChatPlaces
      <4>. HIDE DEF error
      <4>. QED
        BY <1>0, <3>2, <4>1 DEF McpTypeOK
    <3>3. CASE chat' = chat
      <4>1. chat[c] \in Recs /\ chat[c].pc = "waiting"
        BY <1>0, <1>11 DEF TakeAnswer
      <4>. QED
        BY <3>3, <4>1 DEF McpTypeOK
    <3>. QED
      <4>1. \/ Head(answers) = chat[c].id /\ chat' = [chat EXCEPT ![c] = taken]
            \/ chat' = [chat EXCEPT ![c] = error]
            \/ chat' = chat
        BY <1>0, <1>11 DEF TakeAnswer, ChatGoes
      <4>. QED
        BY <3>1, <3>2, <3>3, <4>1
  <2>3. PICK r \in Recs :
           /\ chat' \in [Chats -> Recs]
           /\ \A d \in Chats : chat'[d] = IF d = c THEN r ELSE chat[d]
           /\ r.id = chat[c].id /\ r.got \in {chat[c].got, chat[c].id}
           /\ r.pc \in {"idle", "failed", "waiting"}
    BY <2>2
  <2>4. \A d \in Chats : chat'[d] = IF d = c THEN r ELSE chat[d]
    BY <2>3
  <2>5. chat' \in [Chats -> Recs]
    BY <2>3
  <2>6. McpTypeOK'
    BY <1>11, <2>1, <2>5 DEF TakeAnswer, McpTypeOK
  <2>7. chat[c].pc = "waiting" /\ chat[c].id # 0
    BY <1>11 DEF TakeAnswer, IdsAreOwn
  <2>8. IdsAreOwn'
    <3>1. \A d \in Chats : chat'[d].id = chat[d].id
      BY <2>3, <2>4
    <3>2. \A d \in Chats : chat'[d].pc = "waiting" => chat[d].pc = "waiting"
      BY <2>4, <2>7
    <3>. QED
      BY <1>11, <2>1, <3>1, <3>2 DEF TakeAnswer, IdsAreOwn
  <2>9. AnswerIsOwn'
    <3>1. \A d \in Chats : /\ chat'[d].id = chat[d].id
                           /\ chat'[d].got \in {0, chat[d].id}
      BY <2>3, <2>4 DEF AnswerIsOwn
    <3>. QED
      BY <3>1 DEF AnswerIsOwn, IdsAreOwn
  <2>10. OneStart' /\ NobodyServed'
    BY <1>11, <2>3, <2>4, <2>7 DEF TakeAnswer, OneStart, NobodyServed
  <2>. QED
    BY <2>6, <2>8, <2>9, <2>10
<1>12. ASSUME NEW c \in Chats, WaitFails(c) PROVE McpInv'
  <2>1. /\ IdsAreOwn' /\ AnswerIsOwn' /\ chat' \in [Chats -> Recs]
        /\ \A d \in Chats : /\ chat'[d].pc = IF d = c THEN "failed" ELSE chat[d].pc
                            /\ chat'[d].serving = chat[d].serving
    BY <1>3, <1>12 DEF WaitFails, ChatPlaces
  <2>2. McpTypeOK'
    BY <1>12, <2>1 DEF WaitFails, McpTypeOK
  <2>3. OneStart' /\ NobodyServed'
    BY <1>12, <2>1 DEF WaitFails, OneStart, NobodyServed
  <2>. QED
    BY <2>1, <2>2, <2>3
<1>13. ASSUME NEW c \in Chats, GivesUp(c) PROVE McpInv'
  <2>1. /\ IdsAreOwn' /\ AnswerIsOwn' /\ chat' \in [Chats -> Recs]
        /\ \A d \in Chats : /\ chat'[d].pc = IF d = c THEN "idle" ELSE chat[d].pc
                            /\ chat'[d].serving = chat[d].serving
    BY <1>3, <1>13 DEF GivesUp, ChatPlaces
  <2>2. McpTypeOK'
    BY <1>13, <2>1 DEF GivesUp, McpTypeOK
  <2>3. cached # "none" /\ cached' # "none" /\ locked' = locked /\ starts' = starts
    BY <1>13 DEF GivesUp, NobodyServed
  <2>4. server' = server \/ server' = "gone"
    BY <1>13 DEF GivesUp
  <2>5. chat[c].pc = "failed"
    BY <1>13 DEF GivesUp
  <2>6. OneStart' /\ NobodyServed'
    BY <2>1, <2>3, <2>4, <2>5 DEF OneStart, NobodyServed
  <2>. QED
    BY <2>1, <2>2, <2>6
<1>14. ASSUME NEW i \in 1..MaxRequests, ServerAnswers(i) PROVE McpInv'
  <2>1. answers \in Seq(1..MaxRequests) /\ answers' = Append(answers, i) /\ i <= counter
    BY <1>14 DEF ServerAnswers, McpTypeOK, IdsAreOwn
  <2>2. answers' \in Seq(1..MaxRequests)
    BY <2>1
  <2>3. \A k \in DOMAIN answers' : answers'[k] <= counter
    BY <2>1 DEF IdsAreOwn
  <2>4. McpTypeOK'
    BY <1>14, <2>2 DEF ServerAnswers, McpTypeOK
  <2>5. IdsAreOwn'
    BY <1>14, <2>3 DEF ServerAnswers, IdsAreOwn
  <2>6. OneStart' /\ NobodyServed' /\ AnswerIsOwn'
    BY <1>14 DEF ServerAnswers, OneStart, NobodyServed, AnswerIsOwn
  <2>. QED
    BY <2>4, <2>5, <2>6
<1>15. ASSUME ServerDies \/ ReaderEnds PROVE McpInv'
  <2>1. McpTypeOK'
    BY <1>15 DEF ServerDies, ReaderEnds, pipe, McpTypeOK
  <2>2. UNCHANGED <<cached, counter, received, answers, chat>>
    BY <1>15 DEF ServerDies, ReaderEnds, pipe
  <2>4. IdsAreOwn'
    BY <2>2 DEF IdsAreOwn
  <2>5. AnswerIsOwn' /\ NobodyServed'
    BY <2>2 DEF AnswerIsOwn, NobodyServed
  <2>3. OneStart'
    BY <1>15 DEF ServerDies, ReaderEnds, pipe, OneStart
  <2>. QED
    BY <2>1, <2>3, <2>4, <2>5
<1>16. CASE UNCHANGED mcpVars
  BY <1>16 DEF mcpVars, McpTypeOK, IdsAreOwn, OneStart, NobodyServed, AnswerIsOwn
<1>. QED
  BY <1>1, <1>2, <1>4, <1>5, <1>6, <1>7, <1>8, <1>9, <1>11, <1>12, <1>13, <1>14, <1>15, <1>16
  DEF McpNext, McpStep

\* The client of a server keeps its invariant: a request's id belongs to one
\* chat, and no more than one process is started, by the chat that holds the lock.
THEOREM ClientInvariant == McpSpec => []McpInv
BY McpStart, McpKeeps, PTL DEF McpSpec

\* Whatever the server answers, in whatever order and however late, a chat only
\* gets the answer to its own request (mcp.py's shared answer queue).
THEOREM AnswersAreOwn == McpSpec => []AnswerIsOwn
<1>1. McpInv => AnswerIsOwn
  BY DEF McpInv
<1>. QED
  BY <1>1, ClientInvariant, PTL

-----------------------------------------------------------------------------
(* The plan *)

\* The invariant holds before the plan is looked at.
LEMMA PlanStart == PlanInit => PlanInv
<1>. SUFFICES ASSUME PlanInit PROVE PlanInv
  OBVIOUS
<1>1. /\ PlanSize \in Nodes /\ {0, MaxRetries} \subseteq 0..MaxRetries
      /\ 0 \in 0..MaxRetries + 1
  BY PlanAssumption DEF Nodes
<1>2. writing \subseteq Nodes /\ nodeRetries \in [Nodes -> 0..MaxRetries]
  BY <1>1 DEF PlanInit
<1>3. PlanTypeOK
  BY <1>1, <1>2 DEF PlanInit, PlanTypeOK, Stages
<1>. QED
  BY <1>3 DEF PlanInit, PlanInv

\* Where an order of depths exists nothing needs itself: what lies deeper than
\* nothing but what a node lies deeper than has all that the node needs.
LEMMA ValidHasNoCycle ==
    ASSUME PlanTypeOK, Valid, NEW n \in Nodes
    PROVE  n \notin Needs(n)
<1>1. PICK depth \in [Nodes -> 1..PlanSize] : Deeper(depth)
  BY DEF Valid
<1>. DEFINE below == {m \in Nodes : depth[m] < depth[n]}
<1>2. \A m \in Nodes : depth[m] \in Nat /\ depends[m] \subseteq Nodes
  BY <1>1, PlanAssumption DEF PlanTypeOK
<1>3. \A m \in Nodes : \A k \in depends[m] : depth[k] < depth[m]
  BY <1>1 DEF Deeper
<1>4. depends[n] \subseteq below
  BY <1>2, <1>3
<1>5. Closed(below)
  <2>. SUFFICES ASSUME NEW m \in below, NEW k \in depends[m] PROVE k \in below
    BY DEF Closed
  <2>1. depth[k] < depth[m] /\ depth[m] < depth[n] /\ k \in Nodes /\ m \in Nodes
    BY <1>2, <1>3
  <2>. QED
    BY <1>2, <2>1
<1>6. n \notin below
  BY <1>2
<1>. HIDE DEF below
<1>7. below \in SUBSET Nodes
  BY DEF below
<1>. QED
  BY <1>4, <1>5, <1>6, <1>7 DEF Needs

\* All that a node needs has completed when what it depends on has.
LEMMA CompletedIsClosed ==
    ASSUME PlanInv, NEW n \in Nodes, depends[n] \subseteq completed
    PROVE  Needs(n) \subseteq completed
<1>1. Closed(completed) /\ completed \in SUBSET Nodes
  BY DEF PlanInv, PlanTypeOK, Closed
<1>. QED
  BY <1>1 DEF Needs

LEMMA PlanKeeps == PlanInv /\ [PlanStep]_planVars => PlanInv'
<1>. SUFFICES ASSUME PlanInv, [PlanStep]_planVars PROVE PlanInv'
  OBVIOUS
<1>. USE PlanAssumption DEF graph, nodeEnds
<1>1. CASE Validate
  <2>1. /\ stage = "new" /\ stage' \in {"waves", "rejected"} /\ wave = {}
        /\ stage' = "waves" => Valid
        /\ pending' \in {pending, Nodes}
        /\ depends' = depends /\ nodeRetries' = nodeRetries /\ writing' = writing
        /\ completed' = completed /\ failed' = failed /\ skipped' = skipped
        /\ wave' = wave /\ attempts' = attempts /\ back' = back
    BY <1>1 DEF Validate, PlanInv
  <2>2. PlanTypeOK'
    BY <2>1 DEF PlanInv, PlanTypeOK, Stages
  <2>3. stage' # "rejected" => Valid'
    BY <2>1 DEF Valid, Deeper
  <2>. QED
    BY <2>1, <2>2, <2>3 DEF PlanInv, PlanTypeOK
<1>2. CASE BeginWave
  <2>. DEFINE left == pending \ Held
  <2>1. /\ stage = "waves" /\ wave = {}
        /\ skipped' = skipped \cup Held /\ pending' = left
        /\ wave' = First(Ready(left))
        /\ stage' \in {"running", "stalled", "done"} /\ (wave' # {} => stage' = "running")
        /\ back' = [n \in Nodes |-> "none"]
        /\ depends' = depends /\ nodeRetries' = nodeRetries /\ writing' = writing
        /\ completed' = completed /\ failed' = failed /\ attempts' = attempts
    BY <1>2 DEF BeginWave, PlanInv
  <2>2. Held \subseteq pending /\ wave' \subseteq left
        /\ \A n \in wave' : depends[n] \subseteq completed
    BY <2>1 DEF Held, First, Ready
  <2>3. PlanTypeOK'
    <3>1. {pending', completed', failed', skipped', wave'} \subseteq SUBSET Nodes
      BY <2>1, <2>2 DEF PlanInv, PlanTypeOK
    <3>. QED
      BY <2>1, <3>1 DEF PlanInv, PlanTypeOK, Stages
  <2>4. Valid'
    BY <2>1 DEF PlanInv, Valid, Deeper
  <2>5. \A n \in wave' : attempts[n] = 0 /\ 0 <= nodeRetries[n]
    <3>1. wave' \subseteq pending \ wave /\ pending \subseteq Nodes
      BY <2>1, <2>2 DEF PlanInv, PlanTypeOK
    <3>2. \A n \in Nodes : 0 <= nodeRetries[n]
      BY DEF PlanInv, PlanTypeOK
    <3>. QED
      BY <3>1, <3>2 DEF PlanInv
  <2>6. pending' \ wave' \subseteq pending \ wave
    BY <2>1
  <2>. QED
    BY <2>1, <2>2, <2>3, <2>4, <2>5, <2>6 DEF PlanInv
<1>3. ASSUME NEW n \in Nodes, Attempt(n) PROVE PlanInv'
  <2>1. /\ stage = "running" /\ n \in wave /\ back[n] = "none"
        /\ attempts' = [attempts EXCEPT ![n] = @ + 1]
        /\ \/ back' = [back EXCEPT ![n] = "completed"]
           \/ back' = [back EXCEPT ![n] = IF attempts[n] < nodeRetries[n] THEN "none" ELSE "failed"]
        /\ depends' = depends /\ nodeRetries' = nodeRetries /\ writing' = writing
        /\ stage' = stage /\ pending' = pending /\ wave' = wave
        /\ completed' = completed /\ failed' = failed /\ skipped' = skipped
    BY <1>3 DEF Attempt
  <2>2. /\ attempts \in [Nodes -> 0..MaxRetries + 1] /\ back \in [Nodes -> {"none", "completed", "failed"}]
        /\ nodeRetries[n] \in 0..MaxRetries /\ attempts[n] <= nodeRetries[n]
        /\ wave \subseteq Nodes /\ pending \subseteq Nodes
    BY <2>1 DEF PlanInv, PlanTypeOK
  <2>3. attempts[n] + 1 \in 0..MaxRetries + 1
    BY <2>2
  <2>4. PlanTypeOK'
    BY <2>1, <2>2, <2>3 DEF PlanInv, PlanTypeOK
  <2>5. stage # "rejected" /\ stage # "new" /\ Valid'
    BY <2>1 DEF PlanInv, Valid, Deeper
  <2>6. \A m \in Nodes : m # n => attempts'[m] = attempts[m] /\ back'[m] = back[m]
    BY <2>1, <2>2
  <2>7. back'[n] = "none" => attempts'[n] <= nodeRetries[n]
    BY <2>1, <2>2
  <2>8. depends[n] \subseteq completed
    BY <2>1 DEF PlanInv
  <2>9. \A m \in Nodes : attempts'[m] > 0 => depends[m] \subseteq completed
    BY <2>6, <2>8 DEF PlanInv
  <2>10. \A m \in pending \ wave : attempts'[m] = 0
    BY <2>1, <2>2, <2>6 DEF PlanInv
  <2>11. \A m \in wave : back'[m] = "none" => attempts'[m] <= nodeRetries[m]
    BY <2>2, <2>6, <2>7 DEF PlanInv
  <2>. QED
    BY <2>1, <2>4, <2>5, <2>9, <2>10, <2>11 DEF PlanInv
<1>4. CASE EndWave
  <2>1. /\ stage = "running" /\ stage' \in {"done", "waves"}
        /\ completed' = completed \cup Returned("completed")
        /\ failed' = failed \cup Returned("failed")
        /\ pending' = pending \ wave /\ wave' = {}
        /\ depends' = depends /\ nodeRetries' = nodeRetries /\ writing' = writing
        /\ skipped' = skipped /\ attempts' = attempts /\ back' = back
    BY <1>4 DEF EndWave
  <2>2. Returned("completed") \subseteq wave /\ Returned("failed") \subseteq wave
    BY DEF Returned
  <2>3. PlanTypeOK'
    BY <2>1, <2>2 DEF PlanInv, PlanTypeOK, Stages
  <2>4. Valid'
    BY <2>1 DEF PlanInv, Valid, Deeper
  <2>5. \A n \in completed' : depends[n] \subseteq completed
    BY <2>1, <2>2 DEF PlanInv
  <2>. QED
    BY <2>1, <2>3, <2>4, <2>5 DEF PlanInv
<1>5. CASE UNCHANGED planVars
  <2>1. /\ depends' = depends /\ nodeRetries' = nodeRetries /\ writing' = writing
        /\ stage' = stage /\ pending' = pending /\ wave' = wave
        /\ completed' = completed /\ failed' = failed /\ skipped' = skipped
        /\ attempts' = attempts /\ back' = back
    BY <1>5 DEF planVars
  <2>. QED
    BY <2>1 DEF PlanInv, PlanTypeOK, Valid, Deeper
<1>. QED
  BY <1>1, <1>2, <1>3, <1>4, <1>5 DEF PlanStep

\* The nodes of a plan wait for each other, for any graph of any size, any
\* retries and any number of nodes at once.
THEOREM PlanInvariant == PlanSpec => []PlanInv
BY PlanStart, PlanKeeps, PTL DEF PlanSpec

\* No plan with a cycle runs, and no node is tried before all it needs,
\* directly or not, has completed (the waves of execute_dag).
THEOREM NodesWaitForAll == PlanSpec => []OnlyOnCompleted
<1>1. PlanInv => OnlyOnCompleted
  <2>. SUFFICES ASSUME PlanInv PROVE OnlyOnCompleted
    OBVIOUS
  <2>1. stage \notin {"new", "rejected"} => \A n \in Nodes : n \notin Needs(n)
    BY ValidHasNoCycle DEF PlanInv
  <2>2. \A n \in Nodes : attempts[n] > 0 => Needs(n) \subseteq completed
    BY CompletedIsClosed DEF PlanInv
  <2>. QED
    BY <2>1, <2>2 DEF OnlyOnCompleted
<1>. QED
  BY <1>1, PlanInvariant, PTL

-----------------------------------------------------------------------------
(* The models that serve a run *)

\* A set of places that is not empty has a first one: among the sets of those
\* below each of them one is minimal.
LEMMA FirstExists ==
    ASSUME NEW n \in Nat, NEW S \in SUBSET (1..n), S # {}
    PROVE  \E m \in S : \A j \in S : m <= j
<1>. DEFINE Below(i) == {j \in S : j < i}
<1>. DEFINE T == {Below(i) : i \in S}
<1>1. IsFiniteSet(S)
  <2>1. IsFiniteSet(1..n)
    BY FS_Interval
  <2>. QED
    BY <2>1, FS_Subset
<1>2. IsWellFoundedOn(StrictSubsetOrdering(S), FiniteSubsetsOf(S))
  BY FS_StrictSubsetOrderingWellFounded, Zenon
<1>3. T \subseteq FiniteSubsetsOf(S) /\ T # {}
  <2>1. \A i \in S : Below(i) \in SUBSET S
    OBVIOUS
  <2>2. FiniteSubsetsOf(S) = SUBSET S
    BY <1>1, FS_FiniteSubsetsOfFinite, Zenon
  <2>3. T \subseteq SUBSET S
    BY <2>1, Zenon
  <2>4. T # {}
    BY Zenon
  <2>. QED
    BY <2>2, <2>3, <2>4, Zenon
<1>4. PICK x \in T : \A y \in T : ~(<<y, x>> \in StrictSubsetOrdering(S))
  <2>. HIDE DEF T
  <2>. QED
    BY <1>2, <1>3, WFMin, Zenon
<1>5. PICK i \in S : x = Below(i)
  BY <1>4
<1>6. ASSUME NEW j \in S, j < i PROVE FALSE
  <2>1. Below(j) \subseteq Below(i) /\ j \in Below(i) /\ j \notin Below(j)
    <3>1. \A k \in S : k \in Int
      OBVIOUS
    <3>2. \A k \in S : k < j => k < i
      BY ONLY <1>6, <3>1, i \in S, j \in S
    <3>3. ~(j < j)
      BY <3>1
    <3>. QED
      BY <1>6, <3>2, <3>3, Zenon
  <2>2. <<Below(j), Below(i)>> \in (SUBSET S) \X (SUBSET S)
    OBVIOUS
  <2>3. <<Below(j), Below(i)>> \in StrictSubsetOrdering(S)
    <3>. HIDE DEF Below
    <3>. QED
      BY <2>1, <2>2 DEF StrictSubsetOrdering
  <2>. QED
    BY <2>3, <1>4, <1>5
<1>. QED
  BY <1>6

LEMMA ConfigFact ==
    ASSUME config \in Configs
    PROVE  /\ Price \in [Models -> Nat] /\ DefaultModel \in Models
           /\ MaxTurns \in Nat /\ MaxRecoveries \in Nat /\ MaxRepairs \in Nat
           /\ MaxContinues \in Nat
           /\ config.tiers \in [DOMAIN config.tiers -> Seq(Models)]
           /\ config.tierOf \in [RunStages -> DOMAIN config.tiers]
           /\ config.failover \in Seq(DOMAIN config.tiers) /\ config.spare \in Seq(Models)
BY ConfigAssumption

\* A stage is routed to a model that has a price.
LEMMA RoutedFact ==
    ASSUME config \in Configs, NEW s \in RunStages
    PROVE  Routed(s) \in Models
<1>. DEFINE tier == config.tiers[config.tierOf[s]]
<1>. DEFINE usable == {i \in DOMAIN tier : tier[i] \in Registered \cup {DefaultModel}}
<1>1. tier \in Seq(Models) /\ DefaultModel \in Models
  BY ConfigFact
<1>2. Len(tier) \in Nat /\ DOMAIN tier = 1..Len(tier)
  BY <1>1
<1>3. CASE usable = {}
  BY <1>1, <1>3, SMTT(20) DEF Routed, FirstKnown
<1>4. CASE usable # {}
  <2>. DEFINE first == CHOOSE i \in usable : \A j \in usable : i <= j
  <2>1. usable \in SUBSET (1..Len(tier))
    BY <1>2
  <2>2. \E i \in usable : \A j \in usable : i <= j
    <3>. HIDE DEF usable
    <3>. QED
      BY <1>2, <1>4, <2>1, FirstExists
  <2>3. first \in usable
    BY <2>2
  <2>4. tier[first] \in Models
    <3>1. first \in 1..Len(tier)
      BY <2>1, <2>3, Zenon
    <3>. HIDE DEF tier, first
    <3>. QED
      BY <1>1, <1>2, <3>1
  <2>5. Routed(s) \in {DefaultModel, tier[first]}
    BY DEF Routed, FirstKnown
  <2>. QED
    BY <1>1, <2>4, <2>5
<1>. QED
  BY <1>3, <1>4

\* What is offered are finitely many models.
LEMMA OffersFact ==
    ASSUME config \in Configs
    PROVE  /\ IsFiniteSet(Offers)
           /\ \A p \in Offers : Named(p) \in Models
           /\ \A p \in Offers : p = <<p[1], p[2]>> /\ p[1] \in Int /\ p[2] \in Int
<1>. DEFINE tiers == [i \in DOMAIN config.failover |-> config.tiers[config.failover[i]]]
<1>1. /\ config.tiers \in [DOMAIN config.tiers -> Seq(Models)]
      /\ config.failover \in Seq(DOMAIN config.tiers) /\ config.spare \in Seq(Models)
  BY ConfigFact
<1>2. tiers \in Seq(Seq(Models))
  <2>1. Len(config.failover) \in Nat /\ DOMAIN config.failover = 1..Len(config.failover)
    BY <1>1
  <2>2. \A i \in 1..Len(config.failover) : config.tiers[config.failover[i]] \in Seq(Models)
    BY <1>1, <2>1
  <2>3. tiers = [i \in 1..Len(config.failover) |-> config.tiers[config.failover[i]]]
    BY <2>1
  <2>4. tiers \in [1..Len(config.failover) -> Seq(Models)]
    BY <2>2, <2>3
  <2>. HIDE DEF tiers
  <2>. QED
    BY <2>1, <2>4
<1>3. Lists \in Seq(Seq(Models))
  <2>1. Lists = Append(tiers, config.spare)
    BY DEF Lists
  <2>. HIDE DEF tiers
  <2>. QED
    BY <1>1, <1>2, <2>1
<1>4. Len(Lists) \in Nat /\ DOMAIN Lists = 1..Len(Lists)
      /\ \A i \in DOMAIN Lists : Lists[i] \in Seq(Models)
  BY <1>3
<1>5. \A i \in DOMAIN Lists : /\ DOMAIN Lists[i] = 1..Len(Lists[i])
                              /\ \A j \in DOMAIN Lists[i] : Lists[i][j] \in Models
  BY <1>4
<1>. DEFINE row == [i \in DOMAIN Lists |-> {i} \X DOMAIN Lists[i]]
<1>. DEFINE rows == {row[i] : i \in DOMAIN Lists}
<1>6. IsFiniteSet(DOMAIN Lists)
  BY <1>4, FS_Interval
<1>7. row \in Surjection(DOMAIN Lists, rows)
  <2>1. row \in [DOMAIN Lists -> rows] /\ \A t \in rows : \E i \in DOMAIN Lists : row[i] = t
    BY Zenon
  <2>. HIDE DEF row, rows
  <2>. QED
    BY <2>1, Fun_IsSurj
<1>8. IsFiniteSet(rows)
  <2>. HIDE DEF row, rows
  <2>. QED
    BY <1>6, <1>7, FS_Surjection
<1>9. \A t \in rows : IsFiniteSet(t)
  <2>. SUFFICES ASSUME NEW i \in DOMAIN Lists PROVE IsFiniteSet({i} \X DOMAIN Lists[i])
    BY Zenon
  <2>1. Len(Lists[i]) \in Nat
    BY <1>4
  <2>2. IsFiniteSet({i}) /\ IsFiniteSet(DOMAIN Lists[i])
    <3>1. IsFiniteSet(1..Len(Lists[i]))
      BY <2>1, FS_Interval
    <3>. QED
      BY <1>5, <3>1, FS_Singleton
  <2>. QED
    BY <2>2, FS_Product
<1>10. Offers = UNION rows
  BY DEF Offers
<1>11. IsFiniteSet(Offers)
  <2>. HIDE DEF rows
  <2>. QED
    BY <1>8, <1>9, <1>10, FS_UNION
<1>12. \A p \in Offers : \E i \in DOMAIN Lists : \E j \in DOMAIN Lists[i] : p = <<i, j>>
  BY DEF Offers
<1>13. \A p \in Offers : Named(p) \in Models
  BY <1>5, <1>12 DEF Named
<1>14. \A p \in Offers : p = <<p[1], p[2]>> /\ p[1] \in Int /\ p[2] \in Int
  BY <1>4, <1>5, <1>12
<1>. QED
  BY <1>11, <1>13, <1>14

\* The fallbacks of a stage are a sequence of models: the offers are in a
\* total order, so each of their ranks is the rank of one of them.
LEMMA FallbacksFact ==
    ASSUME config \in Configs, NEW s
    PROVE  Fallbacks(s) \in Seq(Models)
<1>. DEFINE S == Offered(s)
<1>. DEFINE n == Cardinality(S)
<1>. DEFINE before(p) == {q \in S : Before(q, p)}
<1>1. /\ S \subseteq Offers /\ IsFiniteSet(S) /\ n \in Nat
      /\ \A p \in S : Named(p) \in Models
  <2>1. S \in SUBSET Offers
    BY DEF Offered
  <2>2. IsFiniteSet(S) /\ n \in Nat
    BY <2>1, OffersFact, FS_Subset, FS_CardinalityType
  <2>. QED
    BY <2>1, <2>2, OffersFact
<1>2. \A p \in S : p = <<p[1], p[2]>> /\ p[1] \in Int /\ p[2] \in Int
  BY <1>1, OffersFact
<1>3. \A p, q \in S : p # q => Before(p, q) \/ Before(q, p)
  BY <1>2 DEF Before
<1>4. \A p \in S : ~Before(p, p)
  BY <1>2 DEF Before
<1>5. \A p, q, r \in S : Before(p, q) /\ Before(q, r) => Before(p, r)
  BY <1>2 DEF Before
<1>6. ASSUME NEW p \in S
      PROVE  /\ before(p) \in SUBSET S /\ IsFiniteSet(before(p))
             /\ Cardinality(before(p)) \in 0..n - 1
  <2>1. before(p) \in SUBSET (S \ {p})
    BY <1>4
  <2>2. IsFiniteSet(S \ {p}) /\ Cardinality(S \ {p}) = n - 1
    <3>. HIDE DEF S
    <3>. QED
      BY <1>1, <1>6, FS_RemoveElement
  <2>3. IsFiniteSet(before(p)) /\ Cardinality(before(p)) <= n - 1
    <3>. HIDE DEF before, S
    <3>. QED
      BY <2>1, <2>2, FS_Subset
  <2>4. Cardinality(before(p)) \in Nat
    <3>. HIDE DEF before, S
    <3>. QED
      BY <2>3, FS_CardinalityType
  <2>. QED
    BY <1>1, <2>1, <2>3, <2>4
<1>t. \A p \in S : Cardinality(before(p)) \in Int
  <2>. HIDE DEF before, S
  <2>1. 0..n - 1 \subseteq Int
    BY <1>1
  <2>. QED
    BY <1>6, <2>1, Zenon
<1>7. ASSUME NEW p \in S, NEW q \in S, Before(p, q)
      PROVE  Cardinality(before(p)) < Cardinality(before(q))
  <2>1. before(p) \in SUBSET (before(q) \ {p}) /\ p \in before(q)
    BY <1>4, <1>5, <1>7
  <2>2. IsFiniteSet(before(q) \ {p}) /\ Cardinality(before(q) \ {p}) = Cardinality(before(q)) - 1
    <3>. HIDE DEF before, S
    <3>. QED
      BY <1>6, <2>1, FS_RemoveElement
  <2>3. Cardinality(before(p)) <= Cardinality(before(q)) - 1
    <3>. HIDE DEF before, S
    <3>. QED
      BY <2>1, <2>2, FS_Subset
  <2>4. Cardinality(before(p)) \in Int /\ Cardinality(before(q)) \in Int
    BY <1>t
  <2>. QED
    BY <2>3, <2>4
<1>. DEFINE rank == [p \in S |-> Cardinality({q \in S : Before(q, p)}) + 1]
<1>8. \A p \in S : rank[p] = Cardinality(before(p)) + 1
  OBVIOUS
<1>9. rank \in Injection(S, 1..n)
  <2>1. rank \in [S -> 1..n]
    <3>. SUFFICES ASSUME NEW p \in S PROVE rank[p] \in 1..n
      BY Zenon
    <3>1. Cardinality(before(p)) \in 0..n - 1 /\ rank[p] = Cardinality(before(p)) + 1
      BY <1>6, <1>8
    <3>. QED
      BY <1>1, <3>1
  <2>2. ASSUME NEW p \in S, NEW q \in S, p # q PROVE rank[p] # rank[q]
    <3>1. Cardinality(before(p)) \in Int /\ Cardinality(before(q)) \in Int
      BY <1>t
    <3>2. Cardinality(before(p)) < Cardinality(before(q))
          \/ Cardinality(before(q)) < Cardinality(before(p))
      BY <1>3, <1>7, <2>2
    <3>. QED
      BY <1>8, <3>1, <3>2
  <2>. HIDE DEF rank, S
  <2>. QED
    BY <2>1, <2>2, Fun_IsInj
<1>10. rank \in Surjection(S, 1..n)
  <2>1. IsFiniteSet(1..n) /\ Cardinality(1..n) = n
    BY <1>1, FS_Interval
  <2>. HIDE DEF rank, S
  <2>2. n = Cardinality(1..n) <=> rank \in Surjection(S, 1..n)
    BY <1>9, <2>1, FS_Injection
  <2>. QED
    BY <2>1, <2>2
<1>11. InOrder(S) \in [1..n -> S]
  <2>1. \A k \in 1..n : \E p \in S : rank[p] = k
    <3>. HIDE DEF rank, S
    <3>. QED
      BY <1>10, Fun_SurjectionProperties
  <2>2. \A k \in 1..n : \E p \in S : Cardinality({q \in S : Before(q, p)}) + 1 = k
    BY <2>1
  <2>. HIDE DEF S
  <2>3. InOrder(S) = [k \in 1..n |->
                        CHOOSE p \in S : Cardinality({q \in S : Before(q, p)}) + 1 = k]
    BY Zenon DEF InOrder
  <2>4. \A k \in 1..n : (CHOOSE p \in S : Cardinality({q \in S : Before(q, p)}) + 1 = k) \in S
    BY <2>2
  <2>. QED
    BY <2>3, <2>4, Zenon
<1>12. CASE config.enabled
  <2>. HIDE DEF S
  <2>1. Fallbacks(s) = [k \in 1..n |-> Named(InOrder(S)[k])]
    BY <1>11, <1>12, Zenon DEF Fallbacks, S
  <2>2. \A k \in 1..n : Named(InOrder(S)[k]) \in Models
    BY <1>1, <1>11
  <2>3. Fallbacks(s) \in [1..n -> Models]
    BY <2>1, <2>2
  <2>. QED
    BY <1>1, <2>3
<1>13. CASE ~config.enabled
  BY <1>13, ConfigFact DEF Fallbacks
<1>. QED
  BY <1>12, <1>13

\* The invariant holds before the task begins.
LEMMA RunStart == RunInit => RunInv
<1>. SUFFICES ASSUME RunInit PROVE RunInv
  OBVIOUS
<1>1. config \in Configs
  BY DEF RunInit
<1>2. /\ 0 \in 0..MaxRecoveries /\ 0 \in 0..MaxRepairs /\ 0 \in 0..MaxContinues + 1
      /\ 0 \in 0..MaxTurns /\ DefaultModel \in Models
  BY <1>1, ConfigFact
<1>3. /\ {charged, paid, tokens, counted, unfolded} \subseteq Nat
      /\ {strayed, tripped} \subseteq BOOLEAN
  <2>1. {charged, paid, tokens, counted, unfolded} \subseteq Nat
    BY DEF RunInit
  <2>2. {strayed, tripped} \subseteq BOOLEAN
    BY DEF RunInit
  <2>. QED
    BY <2>1, <2>2
<1>4. RunTypeOK
  BY <1>2, <1>3 DEF RunInit, RunTypeOK, RunOutcomes
<1>. QED
  <2>1. continues <= MaxContinues
    BY ConfigFact DEF RunInit
  <2>2. tokens = counted + unfolded + (IF tripped THEN 1 ELSE 0)
    BY DEF RunInit
  <2>. QED
    BY <1>4, <2>1, <2>2 DEF RunInit, RunInv, AtWork, ServedAndCounted, ServedByItsStage,
       AccountsAgree

\* What the steps before and after the requests leave alone.
LEMMA RunFact ==
    ASSUME RunInv
    PROVE  /\ config \in Configs /\ runStage \in RunStages /\ serving \in Models
           /\ Routed(runStage) \in Models /\ Routed("planning") \in Models
           /\ Routed("review") \in Models /\ Routed("repair") \in Models
           /\ \A m \in Models : Price[m] \in Nat
           /\ charged \in Nat /\ paid \in Nat /\ tokens \in Nat /\ counted \in Nat
           /\ unfolded \in Nat
           /\ MaxTurns \in Nat /\ MaxRecoveries \in Nat /\ MaxRepairs \in Nat
           /\ MaxContinues \in Nat
<1>1. config \in Configs /\ runStage \in RunStages /\ serving \in Models
  BY DEF RunInv, RunTypeOK, RunStages
<1>2. \A s \in RunStages : Routed(s) \in Models
  BY <1>1, RoutedFact
<1>3. {"planning", "repair", "review"} \subseteq RunStages
  BY DEF RunStages
<1>4. {charged, paid, tokens, counted, unfolded} \subseteq Nat
  BY DEF RunInv, RunTypeOK
<1>. QED
  BY <1>1, <1>2, <1>3, <1>4, ConfigFact

\* The route and the fallbacks depend on the deployment alone.
LEMMA RouteIsKept ==
    ASSUME config' = config
    PROVE  /\ \A s : Routed(s)' = Routed(s)
           /\ \A s : Fallbacks(s)' = Fallbacks(s)
           /\ \A s : Priced(s)' = Priced(s)
           /\ \A c : Exceeded(c)' <=> Exceeded(c)
<1>1. \A s : Routed(s)' = Routed(s)
  BY DEF Routed
<1>2. Lists' = Lists
  BY DEF Lists
<1>3. Offers' = Offers
  BY <1>2 DEF Offers
<1>4. \A s : Offered(s)' = Offered(s)
  BY <1>1, <1>2, <1>3 DEF Offered, Named
<1>5. \A p : Named(p)' = Named(p)
  BY <1>2 DEF Named
<1>6. \A s : Fallbacks(s)' = Fallbacks(s)
  <2>. SUFFICES ASSUME NEW s PROVE Fallbacks(s)' = Fallbacks(s)
    BY Zenon
  <2>1. InOrder(Offered(s))' = InOrder(Offered(s))
    BY <1>4
  <2>. QED
    BY <1>5, <2>1, Zenon DEF Fallbacks
<1>. QED
  BY <1>1, <1>6 DEF Priced, Exceeded

\* The route of the run while its stage stays.
LEMMA StageIsKept ==
    ASSUME config' = config, runStage' = runStage
    PROVE  /\ Routed(runStage)' = Routed(runStage)
           /\ Fallbacks(runStage)' = Fallbacks(runStage)
<1>1. Routed(runStage)' = Routed(runStage)
  BY DEF Routed
<1>2. Lists' = Lists
  BY DEF Lists
<1>3. Offers' = Offers /\ \A p : Named(p)' = Named(p)
  BY <1>2 DEF Offers, Named
<1>4. Offered(runStage)' = Offered(runStage)
  BY <1>1, <1>3 DEF Offered
<1>5. InOrder(Offered(runStage))' = InOrder(Offered(runStage))
  BY <1>4
<1>6. Fallbacks(runStage)' = Fallbacks(runStage)
  BY <1>3, <1>5, Zenon DEF Fallbacks
<1>. QED
  BY <1>1, <1>6

\* What holds at every step of the work.
LEMMA WorkFact ==
    ASSUME RunInv, runStep \in AtWork
    PROVE  /\ RunTypeOK /\ cursor = recoveries /\ runOutcome = "none"
           /\ providers = {"run", "review"}
           /\ serving \in {Routed(runStage)} \cup ToSet(Fallbacks(runStage))
           /\ tokens = counted + unfolded /\ ~tripped /\ (~strayed => charged = paid)
<1>1. /\ runStep \notin {"close", "end"}
      /\ tokens = counted + unfolded + (IF tripped THEN 1 ELSE 0)
      /\ counted \in Nat /\ unfolded \in Nat
  BY RunFact DEF RunInv, AtWork
<1>2. ~tripped
  BY <1>1 DEF RunInv
<1>3. tokens = counted + unfolded
  BY <1>1, <1>2
<1>. QED
  BY <1>2, <1>3 DEF RunInv

\* The fallbacks of stages that are routed to one model are the same.
LEMMA SameRoute ==
    ASSUME NEW s, NEW t, Routed(s) = Routed(t)
    PROVE  Fallbacks(s) = Fallbacks(t)
<1>1. Offered(s) = Offered(t)
  BY Zenon DEF Offered
<1>. QED
  BY <1>1, Zenon DEF Fallbacks

\* The task begins on the model of its first stage.
LEMMA BeginKeeps == ASSUME RunInv, Begin PROVE RunInv'
<1>1. /\ runStep = "begin" /\ config' = config /\ runStage' = runStage /\ cursor' = cursor
      /\ recoveries' = recoveries /\ repairs' = repairs /\ continues' = continues
      /\ requests' = requests /\ charged' = charged /\ tokens' = tokens
      /\ counted' = counted /\ unfolded' = unfolded /\ paid' = paid
      /\ strayed' = strayed /\ tripped' = tripped
  BY DEF Begin
<1>2. /\ RunTypeOK /\ cursor = recoveries /\ providers = {} /\ runOutcome = "none"
      /\ tokens = 0 /\ counted = 0 /\ unfolded = 0 /\ runStage = "planning"
      /\ ~tripped /\ (~strayed => charged = paid)
  BY <1>1 DEF RunInv
<1>3. \/ /\ runStep' = "end" /\ runOutcome' = "refused"
         /\ providers' = providers /\ serving' = serving
      \/ /\ providers' = {"run", "review"} /\ serving' = Routed("planning")
         /\ runStep' \in {"plan", "turn"} /\ runOutcome' = runOutcome
  BY DEF Begin, Proceed
<1>4. RunTypeOK'
  BY <1>1, <1>2, <1>3, RunFact DEF RunTypeOK, RunOutcomes
<1>5. Routed("planning")' = Routed("planning")
  BY <1>1, RouteIsKept
<1>. QED
  BY <1>1, <1>2, <1>3, <1>4, <1>5 DEF RunInv, AtWork, ServedAndCounted, ServedByItsStage,
     AccountsAgree

\* What the planner and its nodes use is kept for the end.
LEMMA PlannerKeeps == ASSUME RunInv, PreparePlanner \/ ExecuteDag PROVE RunInv'
<1>1. /\ runStep \in {"plan", "dag"} /\ config' = config /\ runStage' = runStage
      /\ serving' = serving /\ providers' = providers /\ cursor' = cursor
      /\ recoveries' = recoveries /\ repairs' = repairs /\ continues' = continues
      /\ requests' = requests /\ counted' = counted /\ strayed' = strayed
      /\ tripped' = tripped
  BY DEF PreparePlanner, ExecuteDag
<1>2. /\ RunTypeOK /\ cursor = recoveries /\ runOutcome = "none" /\ runStage = "planning"
      /\ providers = {"run", "review"} /\ serving = Routed("planning")
      /\ tokens = counted + unfolded /\ ~tripped /\ (~strayed => charged = paid)
  BY <1>1, WorkFact DEF RunInv, AtWork
<1>3. /\ \/ runStep' \in {"dag", "turn"} /\ runOutcome' = runOutcome
         \/ runStep' = "close" /\ runOutcome' = "raised"
      /\ \/ tokens' = tokens + 1 /\ unfolded' = unfolded + 1
         \/ tokens' = tokens /\ unfolded' = unfolded
      /\ \/ charged' = charged + Price[Routed("planning")] /\ paid' = paid + Price[serving]
         \/ charged' = charged /\ paid' = paid
  BY DEF PreparePlanner, ExecuteDag, Proceed, Ends, Priced
<1>4. /\ charged \in Nat /\ paid \in Nat /\ tokens \in Nat /\ counted \in Nat /\ unfolded \in Nat
      /\ Price[Routed("planning")] \in Nat /\ Price[serving] \in Nat
  BY RunFact
<1>5. charged' \in Nat /\ paid' \in Nat /\ tokens' \in Nat /\ unfolded' \in Nat
  BY <1>3, <1>4
<1>6. {charged', paid', tokens', counted', unfolded'} \subseteq Nat
  BY <1>1, <1>4, <1>5
<1>7. RunTypeOK'
  BY <1>1, <1>2, <1>3, <1>6 DEF RunTypeOK, RunOutcomes
<1>8. tokens' = counted' + unfolded'
  BY <1>1, <1>2, <1>3, <1>4
<1>9. ~strayed' => charged' = paid'
  BY <1>1, <1>2, <1>3
<1>10. Routed("planning")' = Routed("planning")
  BY <1>1, RouteIsKept
<1>. QED
  BY <1>1, <1>2, <1>3, <1>7, <1>8, <1>9, <1>10 DEF RunInv, AtWork, ServedAndCounted,
     ServedByItsStage, AccountsAgree

\* A request leaves only within the ceiling.
LEMMA TurnKeeps == ASSUME RunInv, RecordTurn PROVE RunInv'
<1>1. /\ runStep = "turn" /\ config' = config /\ runStage' = runStage
      /\ serving' = serving /\ providers' = providers /\ cursor' = cursor
      /\ recoveries' = recoveries /\ repairs' = repairs /\ continues' = continues
      /\ counted' = counted /\ strayed' = strayed /\ tripped' = tripped
      /\ charged' = charged /\ paid' = paid /\ tokens' = tokens /\ unfolded' = unfolded
  BY DEF RecordTurn
<1>2. /\ RunTypeOK /\ cursor = recoveries /\ runOutcome = "none"
      /\ providers = {"run", "review"}
      /\ serving \in {Routed(runStage)} \cup ToSet(Fallbacks(runStage))
      /\ tokens = counted + unfolded /\ ~tripped /\ (~strayed => charged = paid)
  BY <1>1, WorkFact DEF RunInv, AtWork
<1>3. /\ \/ runStep' = "answer" /\ runOutcome' = runOutcome /\ ~Exceeded(charged)
            /\ requests < MaxTurns /\ requests' = requests + 1
         \/ runStep' = "close" /\ runOutcome' = "error" /\ requests' = requests
  BY DEF RecordTurn, Proceed, Ends
<1>4. requests' \in 0..MaxTurns
  BY <1>2, <1>3, RunFact DEF RunTypeOK
<1>5. RunTypeOK'
  BY <1>1, <1>2, <1>3, <1>4 DEF RunTypeOK, RunOutcomes
<1>6. /\ Routed(runStage)' = Routed(runStage) /\ Fallbacks(runStage)' = Fallbacks(runStage)
      /\ Exceeded(charged)' <=> Exceeded(charged)
  BY <1>1, StageIsKept DEF Exceeded
<1>7. serving' \in {Routed(runStage)} \cup ToSet(Fallbacks(runStage))
  BY <1>1, <1>2
<1>8. serving' \in {Routed(runStage)'} \cup ToSet(Fallbacks(runStage)')
  BY <1>6, <1>7
<1>. QED
  BY <1>1, <1>2, <1>3, <1>5, <1>6, <1>8 DEF RunInv, AtWork, ServedAndCounted,
     ServedByItsStage, AccountsAgree

\* An answer is counted at once, what its sub-agents use at the end.
LEMMA AnswerKeeps == ASSUME RunInv, Answered PROVE RunInv'
<1>1. /\ runStep = "answer" /\ config' = config /\ runStage' = runStage
      /\ serving' = serving /\ providers' = providers /\ cursor' = cursor
      /\ recoveries' = recoveries /\ repairs' = repairs /\ continues' = continues
      /\ requests' = requests /\ tripped' = tripped
      /\ strayed' = (strayed \/ serving # Routed(runStage))
  BY DEF Answered
<1>2. PICK sub \in {0, 1} :
        /\ charged' = charged + Price[Routed(runStage)] /\ paid' = paid + Price[serving]
        /\ counted' = counted + 1 /\ tokens' = tokens + 1 + sub /\ unfolded' = unfolded + sub
        /\ \/ runStep' = "close" /\ runOutcome' = "error"
           \/ runStep' \in {"turn", "verify"} /\ runOutcome' = runOutcome
  BY DEF Answered, Priced, Proceed, Ends
<1>3. /\ RunTypeOK /\ cursor = recoveries /\ runOutcome = "none"
      /\ providers = {"run", "review"}
      /\ serving \in {Routed(runStage)} \cup ToSet(Fallbacks(runStage))
      /\ tokens = counted + unfolded /\ ~tripped /\ (~strayed => charged = paid)
  BY <1>1, WorkFact DEF AtWork
<1>4. /\ charged \in Nat /\ paid \in Nat /\ tokens \in Nat /\ counted \in Nat /\ unfolded \in Nat
      /\ Price[Routed(runStage)] \in Nat /\ Price[serving] \in Nat
  BY RunFact
<1>5. charged' \in Nat /\ paid' \in Nat /\ tokens' \in Nat /\ counted' \in Nat /\ unfolded' \in Nat
  BY <1>2, <1>4
<1>6. {charged', paid', tokens', counted', unfolded'} \subseteq Nat
  BY <1>5
<1>7. {strayed', tripped'} \subseteq BOOLEAN
  BY <1>1, <1>3 DEF RunTypeOK
<1>8. RunTypeOK'
  BY <1>1, <1>2, <1>3, <1>6, <1>7 DEF RunTypeOK, RunOutcomes
<1>9. tokens' = counted' + unfolded'
  BY <1>2, <1>3, <1>4
<1>10. ~strayed' => charged' = paid'
  BY <1>1, <1>2, <1>3
<1>11. Routed(runStage)' = Routed(runStage) /\ Fallbacks(runStage)' = Fallbacks(runStage)
  BY <1>1, StageIsKept
<1>12. serving' \in {Routed(runStage)'} \cup ToSet(Fallbacks(runStage)')
  BY <1>1, <1>3, <1>11
<1>. QED
  BY <1>1, <1>2, <1>3, <1>8, <1>9, <1>10, <1>12 DEF RunInv, AtWork, ServedAndCounted,
     ServedByItsStage, AccountsAgree

\* A failed request or a passed verification changes nothing that is counted.
LEMMA PassKeeps == ASSUME RunInv, Fail \/ Verified PROVE RunInv'
<1>1. /\ runStep \in {"answer", "verify"} /\ config' = config /\ runStage' = runStage
      /\ serving' = serving /\ providers' = providers /\ cursor' = cursor
      /\ recoveries' = recoveries /\ repairs' = repairs /\ continues' = continues
      /\ requests' = requests /\ counted' = counted /\ strayed' = strayed
      /\ tripped' = tripped /\ charged' = charged /\ paid' = paid /\ tokens' = tokens
      /\ unfolded' = unfolded
      /\ \/ runStep' = "close" /\ runOutcome' \in {"error", "cancelled"}
         \/ runStep' = "judge" /\ runOutcome' = runOutcome
  BY DEF Fail, Verified, Ends, Proceed
<1>2. /\ RunTypeOK /\ cursor = recoveries /\ runOutcome = "none"
      /\ providers = {"run", "review"}
      /\ serving \in {Routed(runStage)} \cup ToSet(Fallbacks(runStage))
      /\ tokens = counted + unfolded /\ ~tripped /\ (~strayed => charged = paid)
  BY <1>1, WorkFact DEF AtWork
<1>3. RunTypeOK'
  BY <1>1, <1>2 DEF RunTypeOK, RunOutcomes
<1>4. Routed(runStage)' = Routed(runStage) /\ Fallbacks(runStage)' = Fallbacks(runStage)
  BY <1>1, StageIsKept
<1>5. serving' \in {Routed(runStage)'} \cup ToSet(Fallbacks(runStage)')
  BY <1>1, <1>2, <1>4
<1>6. tokens' = counted' + unfolded' + (IF tripped' THEN 1 ELSE 0)
  BY <1>1, <1>2, RunFact
<1>. QED
  BY <1>1, <1>2, <1>3, <1>5, <1>6 DEF RunInv, AtWork, ServedAndCounted,
     ServedByItsStage, AccountsAgree

\* A recovery serves on the model of the stage or on one of its fallbacks.
LEMMA RecoverKeeps == ASSUME RunInv, Recover PROVE RunInv'
<1>. DEFINE spares == Fallbacks(runStage)
            model == IF spares # <<>> /\ cursor > 0
                     THEN spares[IF cursor < Len(spares) THEN cursor ELSE Len(spares)]
                     ELSE Routed(runStage)
<1>1. /\ runStep = "answer" /\ config' = config /\ runStage' = runStage
      /\ repairs' = repairs /\ continues' = continues
      /\ requests' = requests /\ counted' = counted /\ strayed' = strayed
      /\ tripped' = tripped /\ charged' = charged /\ paid' = paid /\ tokens' = tokens
      /\ unfolded' = unfolded
  BY DEF Recover
<1>2. /\ RunTypeOK /\ cursor = recoveries /\ runOutcome = "none"
      /\ providers = {"run", "review"}
      /\ serving \in {Routed(runStage)} \cup ToSet(Fallbacks(runStage))
      /\ tokens = counted + unfolded /\ ~tripped /\ (~strayed => charged = paid)
  BY <1>1, WorkFact DEF AtWork
<1>3. \/ /\ runStep' = "close" /\ runOutcome' = "error" /\ recoveries' = recoveries
         /\ cursor' = cursor /\ serving' = serving /\ providers' = providers
      \/ /\ recoveries # MaxRecoveries /\ recoveries' = recoveries + 1 /\ cursor' = cursor + 1
         /\ \/ /\ serving' = model /\ providers' = providers
               /\ runStep' = "turn" /\ runOutcome' = runOutcome
            \/ /\ providers' = providers \ {"run"} /\ serving' = serving
               /\ runStep' = "close" /\ runOutcome' = "raised"
  BY DEF Recover, RecoveryStage, Ends, Proceed
<1>4. model \in {Routed(runStage)} \cup ToSet(spares) /\ model \in Models
  <2>1. spares \in Seq(Models) /\ Routed(runStage) \in Models /\ cursor \in Nat
    BY <1>2, RunFact, FallbacksFact DEF RunTypeOK
  <2>. HIDE DEF spares
  <2>2. CASE spares # <<>> /\ cursor > 0
    <3>. DEFINE turn == IF cursor < Len(spares) THEN cursor ELSE Len(spares)
    <3>1. turn \in DOMAIN spares
      BY <2>1, <2>2
    <3>2. model = spares[turn]
      BY <2>2
    <3>. HIDE DEF turn, model
    <3>3. spares[turn] \in Models /\ spares[turn] \in ToSet(spares)
      BY <2>1, <3>1 DEF ToSet
    <3>. QED
      BY <3>2, <3>3
  <2>3. CASE ~(spares # <<>> /\ cursor > 0)
    BY <2>1, <2>3
  <2>. QED
    BY <2>2, <2>3
<1>. HIDE DEF spares, model
<1>5. serving' \in Models /\ serving' \in {Routed(runStage)} \cup ToSet(Fallbacks(runStage))
  BY <1>2, <1>3, <1>4, RunFact DEF spares
<1>6. recoveries' \in 0..MaxRecoveries /\ cursor' = recoveries'
  BY <1>2, <1>3, RunFact DEF RunTypeOK
<1>7. RunTypeOK'
  BY <1>1, <1>2, <1>3, <1>5, <1>6 DEF RunTypeOK, RunOutcomes
<1>8. Routed(runStage)' = Routed(runStage) /\ Fallbacks(runStage)' = Fallbacks(runStage)
  BY <1>1, StageIsKept
<1>9. serving' \in {Routed(runStage)'} \cup ToSet(Fallbacks(runStage)')
  BY <1>5, <1>8
<1>10. tokens' = counted' + unfolded' + (IF tripped' THEN 1 ELSE 0)
  BY <1>1, <1>2, RunFact
<1>. QED
  BY <1>1, <1>2, <1>3, <1>6, <1>7, <1>9, <1>10 DEF RunInv, AtWork, ServedAndCounted,
     ServedByItsStage, AccountsAgree

\* A repair serves on the model of its stage, which may be that of planning.
LEMMA RepairKeeps == ASSUME RunInv, Repair PROVE RunInv'
<1>1. /\ runStep = "verify" /\ config' = config /\ cursor' = cursor
      /\ recoveries' = recoveries /\ continues' = continues /\ providers' = providers
      /\ requests' = requests /\ counted' = counted /\ strayed' = strayed
      /\ tripped' = tripped /\ charged' = charged /\ paid' = paid /\ tokens' = tokens
      /\ unfolded' = unfolded
  BY DEF Repair
<1>2. /\ RunTypeOK /\ cursor = recoveries /\ runOutcome = "none"
      /\ providers = {"run", "review"}
      /\ serving \in {Routed(runStage)} \cup ToSet(Fallbacks(runStage))
      /\ tokens = counted + unfolded /\ ~tripped /\ (~strayed => charged = paid)
  BY <1>1, WorkFact DEF AtWork
<1>3. tokens' = counted' + unfolded' + (IF tripped' THEN 1 ELSE 0)
  BY <1>1, <1>2, RunFact
<1>4. CASE /\ runStep' = "close" /\ runOutcome' = "error" /\ repairs' = repairs
           /\ runStage' = runStage /\ serving' = serving
  <2>1. RunTypeOK'
    BY <1>1, <1>2, <1>4 DEF RunTypeOK, RunOutcomes
  <2>. QED
    BY <1>1, <1>2, <1>3, <1>4, <2>1 DEF RunInv, AtWork, ServedAndCounted,
       ServedByItsStage, AccountsAgree
<1>5. CASE /\ repairs # MaxRepairs /\ repairs' = repairs + 1 /\ runStage' = "repair"
           /\ runStep' = "turn" /\ runOutcome' = runOutcome
           /\ serving' = IF Routed("repair") # Routed("planning") THEN Routed("repair")
                                                                  ELSE serving
  <2>1. serving' \in Models /\ repairs' \in 0..MaxRepairs
    BY <1>2, <1>5, RunFact DEF RunTypeOK
  <2>2. RunTypeOK'
    BY <1>1, <1>2, <1>5, <2>1 DEF RunTypeOK, RunOutcomes
  <2>3. serving' \in {Routed("repair")} \cup ToSet(Fallbacks("repair"))
    <3>1. CASE Routed("repair") # Routed("planning")
      BY <1>5, <3>1
    <3>2. CASE Routed("repair") = Routed("planning")
      <4>1. Fallbacks("repair") = Fallbacks("planning")
        BY <3>2, SameRoute
      <4>2. runStage \in {"planning", "repair"}
        BY <1>2 DEF RunTypeOK
      <4>. QED
        BY <1>2, <1>5, <3>2, <4>1, <4>2
    <3>. QED
      BY <3>1, <3>2
  <2>4. Routed("repair")' = Routed("repair") /\ Fallbacks("repair")' = Fallbacks("repair")
    BY <1>1, RouteIsKept
  <2>5. Routed(runStage)' = Routed("repair")
    <3>1. Routed(runStage)' = Routed("repair")'
      BY <1>5 DEF Routed
    <3>. QED
      BY <2>4, <3>1, Zenon
  <2>6. Fallbacks(runStage)' = Fallbacks("repair")
    <3>1. Offered(runStage)' = Offered("repair")'
      BY <1>5 DEF Offered, Routed
    <3>. QED
      BY <2>4, <3>1, Zenon DEF Fallbacks
  <2>7. serving' \in {Routed(runStage)'} \cup ToSet(Fallbacks(runStage)')
    BY <2>3, <2>5, <2>6
  <2>. QED
    BY <1>1, <1>2, <1>3, <1>5, <2>2, <2>7 DEF RunInv, AtWork, ServedAndCounted,
       ServedByItsStage, AccountsAgree
<1>. QED
  BY <1>1, <1>4, <1>5 DEF Repair, Ends, Proceed

\* The usage of the judge is counted unless it passes the ceiling.
LEMMA ReviewKeeps == ASSUME RunInv, RecordReview PROVE RunInv'
<1>1. /\ runStep = "judge" /\ config' = config /\ runStage' = runStage
      /\ serving' = serving /\ providers' = providers /\ cursor' = cursor
      /\ recoveries' = recoveries /\ repairs' = repairs
      /\ requests' = requests /\ unfolded' = unfolded /\ strayed' = strayed
  BY DEF RecordReview
<1>2. PICK used \in {0, 1} :
        /\ tokens' = tokens + used
        /\ charged' = charged + used * Price[Routed("review")]
        /\ paid' = paid + used * Price[Routed("review")]
        /\ \/ /\ used = 1 /\ runStep' = "close" /\ runOutcome' = "error" /\ tripped' = TRUE
              /\ counted' = counted /\ continues' = continues
           \/ /\ counted' = counted + used /\ tripped' = tripped
              /\ \/ /\ runStep' = "close" /\ runOutcome' \in {"completed", "error"}
                    /\ continues' = continues
                 \/ /\ continues' = continues + 1
                    /\ \/ runStep' = "close" /\ runOutcome' = "error"
                       \/ /\ continues # MaxContinues
                          /\ runStep' = "turn" /\ runOutcome' = runOutcome
  BY DEF RecordReview, Priced, Ends, Proceed
<1>3. /\ RunTypeOK /\ cursor = recoveries /\ runOutcome = "none"
      /\ providers = {"run", "review"}
      /\ serving \in {Routed(runStage)} \cup ToSet(Fallbacks(runStage))
      /\ tokens = counted + unfolded /\ ~tripped /\ (~strayed => charged = paid)
  BY <1>1, WorkFact DEF AtWork
<1>. DEFINE price == Price[Routed("review")]
<1>4. /\ charged \in Nat /\ paid \in Nat /\ tokens \in Nat /\ counted \in Nat /\ unfolded \in Nat
      /\ price \in Nat
  BY RunFact
<1>5. used * price \in Nat
  BY <1>4
<1>. HIDE DEF price
<1>6. charged' \in Nat /\ paid' \in Nat /\ tokens' \in Nat /\ counted' \in Nat /\ unfolded' \in Nat
  BY <1>1, <1>2, <1>4, <1>5 DEF price
<1>7. {charged', paid', tokens', counted', unfolded'} \subseteq Nat
  BY <1>6
<1>8. continues' \in 0..MaxContinues + 1 /\ (runStep' = "turn" => continues' <= MaxContinues)
  <2>1. continues \in Nat /\ continues <= MaxContinues /\ MaxContinues \in Nat
    BY <1>1, RunFact DEF RunInv, RunTypeOK
  <2>2. \/ continues' = continues
        \/ continues' = continues + 1 /\ (runStep' = "turn" => continues # MaxContinues)
    BY <1>2
  <2>3. continues' = continues /\ runStep' = "turn" => FALSE
    BY <1>2, <2>1
  <2>. QED
    BY <2>1, <2>2, <2>3
<1>9. {strayed', tripped'} \subseteq BOOLEAN
  BY <1>1, <1>2, <1>3 DEF RunTypeOK
<1>10. RunTypeOK'
  BY <1>1, <1>2, <1>3, <1>7, <1>8, <1>9 DEF RunTypeOK, RunOutcomes
<1>11. /\ tokens' = counted' + unfolded' + (IF tripped' THEN 1 ELSE 0)
       /\ tripped' => runStep' = "close"
  BY <1>1, <1>2, <1>3, <1>4
<1>12. ~strayed' => charged' = paid'
  BY <1>1, <1>2, <1>3
<1>13. Routed(runStage)' = Routed(runStage) /\ Fallbacks(runStage)' = Fallbacks(runStage)
  BY <1>1, StageIsKept
<1>14. serving' \in {Routed(runStage)'} \cup ToSet(Fallbacks(runStage)')
  BY <1>1, <1>3, <1>13
<1>15. runStep' \in {"turn", "close"} /\ (runStep' = "turn" => runOutcome' = "none")
       /\ (runStep' = "close" => runOutcome' \notin {"none", "refused"})
  BY <1>2, <1>3
<1>. QED
  BY <1>1, <1>3, <1>8, <1>10, <1>11, <1>12, <1>14, <1>15 DEF RunInv, AtWork, ServedAndCounted,
     ServedByItsStage, AccountsAgree

\* In the end what was kept joins the result.
LEMMA CloseKeeps == ASSUME RunInv, Close PROVE RunInv'
<1>1. /\ runStep = "close" /\ runStep' = "end" /\ providers' = {}
      /\ counted' = IF runOutcome = "raised" THEN 0 ELSE counted + unfolded
      /\ config' = config /\ runStage' = runStage
      /\ serving' = serving /\ cursor' = cursor
      /\ recoveries' = recoveries /\ repairs' = repairs /\ continues' = continues
      /\ requests' = requests /\ charged' = charged /\ tokens' = tokens
      /\ unfolded' = unfolded /\ runOutcome' = runOutcome /\ paid' = paid
      /\ strayed' = strayed /\ tripped' = tripped
  BY DEF Close
<1>2. /\ RunTypeOK /\ cursor = recoveries
      /\ tokens = counted + unfolded + (IF tripped THEN 1 ELSE 0)
      /\ (~strayed => charged = paid)
  BY <1>1 DEF RunInv
<1>3. counted' \in Nat /\ {charged, paid, tokens, unfolded} \subseteq Nat
  BY <1>1, RunFact
<1>4. {charged', paid', tokens', counted', unfolded'} \subseteq Nat
  BY <1>1, <1>3
<1>5. RunTypeOK'
  BY <1>1, <1>2, <1>4 DEF RunTypeOK, RunOutcomes
<1>6. runOutcome' # "raised" => tokens' = counted' + (IF tripped' THEN 1 ELSE 0)
  BY <1>1, <1>2, RunFact
<1>. QED
  BY <1>1, <1>2, <1>5, <1>6 DEF RunInv, AtWork, ServedAndCounted, ServedByItsStage,
     AccountsAgree

LEMMA RunKeeps == RunInv /\ [RunNext]_runVars => RunInv'
<1>. SUFFICES ASSUME RunInv, [RunNext]_runVars PROVE RunInv'
  OBVIOUS
<1>1. CASE UNCHANGED runVars
  <2>1. /\ runStep' = runStep /\ config' = config /\ runStage' = runStage
        /\ serving' = serving /\ providers' = providers /\ cursor' = cursor
        /\ recoveries' = recoveries /\ repairs' = repairs /\ continues' = continues
        /\ requests' = requests /\ counted' = counted /\ strayed' = strayed
        /\ tripped' = tripped /\ charged' = charged /\ paid' = paid /\ tokens' = tokens
        /\ unfolded' = unfolded /\ runOutcome' = runOutcome
    BY <1>1 DEF runVars
  <2>2. /\ Routed(runStage)' = Routed(runStage) /\ Fallbacks(runStage)' = Fallbacks(runStage)
        /\ Routed("planning")' = Routed("planning") /\ (Exceeded(charged)' <=> Exceeded(charged))
    BY <2>1, StageIsKept, RouteIsKept DEF Exceeded
  <2>3. RunTypeOK'
    BY <2>1 DEF RunInv, RunTypeOK
  <2>4. serving \in {Routed(runStage)} \cup ToSet(Fallbacks(runStage))
        => serving' \in {Routed(runStage)'} \cup ToSet(Fallbacks(runStage)')
    BY <2>1, <2>2
  <2>. QED
    BY <2>1, <2>2, <2>3, <2>4 DEF RunInv, AtWork, ServedAndCounted, ServedByItsStage,
       AccountsAgree
<1>. QED
  BY <1>1, BeginKeeps, PlannerKeeps, TurnKeeps, AnswerKeeps, PassKeeps, RecoverKeeps,
     RepairKeeps, ReviewKeeps, CloseKeeps DEF RunNext

\* The providers, the tokens and the two prices of a run belong together, for
\* any deployments, prices and limits.
THEOREM RunInvariant == RunSpec => []RunInv
BY RunStart, RunKeeps, PTL DEF RunSpec

\* A request is of a model that its stage names, through an open provider and
\* below the ceiling; what a task reports and what it was charged are what it
\* used (StageRouter, Budget and the folding of usage in _chat_locked).
THEOREM RunsAreServedAndCounted == RunSpec => []ServedAndCounted
<1>1. RunInv => ServedAndCounted
  BY DEF RunInv
<1>. QED
  BY <1>1, RunInvariant, PTL

=============================================================================
