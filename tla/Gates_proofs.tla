----------------------------- MODULE Gates_proofs -----------------------------
(* Proofs about PermissionGate, HookRunner, Verification and EvidenceGate:  *)
(* what lets a tool call run, a result count and a change be certified, for *)
(* any calls, any files of rules, of hooks and of the workspace, any number *)
(* of calls and edits and any trail of events; and about SessionLocks and   *)
(* Approvals: what lets a request of the web service touch a session, for   *)
(* any requests, sessions, bound of the table, calls and answers.           *)
EXTENDS SessionLocks, Approvals, PermissionGate, HookRunner, Verification, EvidenceGate,
        SequenceTheorems, FiniteSetTheorems, TLAPS

-----------------------------------------------------------------------------
(* The permission gate *)

\* The cached rules are those of the file when a step looks at them.
LEMMA LookFact ==
    ASSUME CacheIsRight
    PROVE  /\ Look = policy
           /\ Looked => /\ policyCache' = [edition |-> edition, rules |-> policy]
                        /\ policy' = policy /\ edition' = edition
BY DEF CacheIsRight, Look, Looked

\* Every edit of the rules makes a new edition.
LEMMA EditionFact ==
    ASSUME PermitTypeOK, NEW text \in RuleFiles, EditRules(text)
    PROVE  /\ edition'[1] = edition[1] + 1 /\ edition[1] \in Nat
           /\ edition' \in (0..MaxTimes) \X (0..MaxTimes)
BY GateAssumption DEF PermitTypeOK, EditRules

\* "always" adds to the list, and to what the user said, the same rule.
LEMMA ListFact ==
    ASSUME PermitTypeOK, NEW wider \in BOOLEAN, NEW list \in Side
    PROVE  /\ Joined(list, Remembered(call, wider)) \in Side
           /\ \A axis \in DOMAIN Empty :
                Joined(list, Remembered(call, wider))[axis]
                    = list[axis] \cup Remembered(call, wider)[axis]
<1>1. Remembered(call, wider) \in Side
  <2>1. call \in Targets
    BY DEF PermitTypeOK
  <2>2. [tools |-> {call.tool}, paths |-> {}, commands |-> {}] \in Side
    BY <2>1, SMTT(20) DEF Side
  <2>. DEFINE some == IF call.tool = "bash" THEN {call.command} \ {Unset} ELSE {}
  <2>3. some \in SUBSET ({t.command : t \in Targets} \ {Unset})
    BY <2>1, SMTT(20)
  <2>. HIDE DEF some
  <2>4. [tools |-> {}, paths |-> {call.path} \ {Unset}, commands |-> some] \in Side
    BY <2>1, <2>3, SMTT(20) DEF Side
  <2>5. \/ Remembered(call, wider) = [tools |-> {call.tool}, paths |-> {}, commands |-> {}]
        \/ Remembered(call, wider)
             = [tools |-> {}, paths |-> {call.path} \ {Unset}, commands |-> some]
    BY Zenon DEF Remembered, some
  <2>. QED
    BY <2>2, <2>4, <2>5
<1>2. DOMAIN list = DOMAIN Empty
  BY DEF Side, Empty
<1>. QED
  BY <1>1, <1>2 DEF Joined, Side, Empty

\* What the policy passes, lifts or asks about is within the mode, and the
\* network is used on a grant or by the allowlist.
LEMMA AuthorizedFact ==
    ASSUME PermitTypeOK, NEW reasons, reasons = Reasons(call)
    PROVE  /\ reasons = {} \/ Lifted(reasons, call) \/ Asks(reasons, call) =>
                (mode = "plan" => call.risk = "readonly")
           /\ reasons = {} \/ Asks(reasons, call) =>
                (call.network => network \/ mode = "yolo")
<1>1. call.risk \in {"readonly", "write", "exec"}
  BY GateAssumption DEF PermitTypeOK
<1>2. reasons = {} => /\ mode = "plan" => call.risk = "readonly"
                      /\ call.network => network \/ mode = "yolo"
  BY <1>1 DEF Reasons
<1>3. Asks(reasons, call) => /\ mode = "plan" => call.risk = "readonly"
                             /\ call.network => network \/ mode = "yolo"
  BY <1>1 DEF Reasons, Asks
<1>4. Lifted(reasons, call) => mode # "plan"
  BY DEF Lifted
<1>. QED
  BY <1>2, <1>3, <1>4

\* What the allowlist covers the user has said, unless a clearing was overwritten.
LEMMA ListedFact ==
    ASSUME ListIsSaid, NEW reasons, Lifted(reasons, call)
    PROVE  clearRaced \/ Covers(said, call)
BY DEF ListIsSaid, Lifted, Covers, Empty

\* What a step settles: who lets the call pass, or that the user is asked.
LEMMA SettledFact ==
    ASSUME NEW reasons, Settle(reasons)
    PROVE  /\ gateStep' \in {"idle", "hook", "asked"}
           /\ gateStep' = "idle" => permit' = "refused" /\ by' = by
           /\ gateStep' # "idle" => permit' = permit
           /\ gateStep' = "asked" => by' = by /\ Asks(reasons, call)
           /\ gateStep' = "hook" =>
                \/ by' = "policy" /\ reasons = {}
                \/ by' = "session" /\ Lifted(reasons, call)
                \/ by' = "rule" /\ Asks(reasons, call)
           /\ granted' = (clearRaced \/ Covers(said, call))
BY DEF Settle, Pass, GoOn, TurnDown

\* Every gate starts closed.
LEMMA PermitStart == PermitInit => PermitInv
<1>. SUFFICES ASSUME PermitInit PROVE PermitInv
  OBVIOUS
<1>1. (CHOOSE c \in Targets : TRUE) \in Targets
  BY GateAssumption
<1>2. Empty \in Side
  BY DEF Empty, Side
<1>3. PermitTypeOK
  <2>1. edition \in (0..MaxTimes) \X (0..MaxTimes) /\ 0 \in 0..MaxAsked
    BY GateAssumption DEF PermitInit
  <2>. QED
    BY <1>1, <1>2, <2>1 DEF PermitInit, PermitTypeOK, Steps
<1>4. CacheIsRight
  BY DEF PermitInit, CacheIsRight
<1>5. VetoIsPast /\ WithinGrants /\ SessionIsGranted
  BY DEF PermitInit, VetoIsPast, InVeto, WithinGrants, SessionIsGranted, Decided
<1>6. ListIsSaid
  BY DEF PermitInit, ListIsSaid
<1>. QED
  BY <1>3, <1>4, <1>5, <1>6 DEF PermitInv

\* Every step keeps the cache of an earlier edition, or right.
LEMMA KeepCacheRight ==
    ASSUME PermitInv, [PermitNext]_permitVars
    PROVE  CacheIsRight'
<1>0. PermitTypeOK /\ CacheIsRight /\ VetoIsPast /\ WithinGrants /\ ListIsSaid /\ SessionIsGranted
  BY DEF PermitInv
<1>. USE <1>0, LookFact DEF grants, policyVars, caseVars, permitVars, CacheIsRight, PermitTypeOK
<1>1. CASE Veto
  BY <1>1 DEF Veto
<1>2. CASE AskGate
  BY <1>2 DEF AskGate
<1>3. CASE Authorize
  BY <1>3, SettledFact DEF Authorize
<1>4. CASE Answer
  BY <1>4 DEF Answer
<1>5. CASE ReadList
  BY <1>5 DEF ReadList
<1>6. CASE WriteList
  BY <1>6 DEF WriteList
<1>7. CASE AskHooks
  BY <1>7 DEF AskHooks
<1>8. CASE ClearList
  BY <1>8 DEF ClearList
<1>9. ASSUME NEW c \in Targets, Propose(c) PROVE CacheIsRight'
  BY <1>9 DEF Propose
<1>10. ASSUME NEW text \in RuleFiles, EditRules(text) PROVE CacheIsRight'
  BY <1>10, EditionFact DEF EditRules
<1>11. CASE UNCHANGED permitVars
  BY <1>11 DEF permitVars
<1>12. CASE MatchRules
  BY <1>12 DEF MatchRules, ToGate
<1>13. CASE MatchPaths
  BY <1>13 DEF MatchPaths, ToGate
<1>14. CASE Decide
  BY <1>14, SettledFact DEF Decide
<1>. QED
  BY <1>1, <1>2, <1>3, <1>4, <1>5, <1>6, <1>7, <1>8, <1>9, <1>10, <1>11, <1>12, <1>13, <1>14
     DEF PermitNext

\* Every step keeps the veto behind those that passed it.
LEMMA KeepVetoPast ==
    ASSUME PermitInv, [PermitNext]_permitVars
    PROVE  VetoIsPast'
<1>0. PermitTypeOK /\ CacheIsRight /\ VetoIsPast /\ WithinGrants /\ ListIsSaid /\ SessionIsGranted
  BY DEF PermitInv
<1>. USE <1>0, LookFact DEF grants, policyVars, caseVars, permitVars, TurnDown, Pass, GoOn, VetoIsPast, InVeto, Vetoed, Covers
<1>1. CASE Veto
  BY <1>1 DEF Veto
<1>2. CASE AskGate
  BY <1>2 DEF AskGate
<1>3. CASE Authorize
  BY <1>3, SettledFact DEF Authorize
<1>4. CASE Answer
  BY <1>4 DEF Answer
<1>5. CASE ReadList
  BY <1>5 DEF ReadList
<1>6. CASE WriteList
  BY <1>6 DEF WriteList
<1>7. CASE AskHooks
  BY <1>7 DEF AskHooks
<1>8. CASE ClearList
  BY <1>8 DEF ClearList
<1>9. ASSUME NEW c \in Targets, Propose(c) PROVE VetoIsPast'
  BY <1>9 DEF Propose
<1>10. ASSUME NEW text \in RuleFiles, EditRules(text) PROVE VetoIsPast'
  BY <1>10 DEF EditRules
<1>11. CASE UNCHANGED permitVars
  BY <1>11 DEF permitVars
<1>12. CASE MatchRules
  BY <1>12 DEF MatchRules, ToGate
<1>13. CASE MatchPaths
  BY <1>13 DEF MatchPaths, ToGate
<1>14. CASE Decide
  BY <1>14, SettledFact DEF Decide
<1>. QED
  BY <1>1, <1>2, <1>3, <1>4, <1>5, <1>6, <1>7, <1>8, <1>9, <1>10, <1>11, <1>12, <1>13, <1>14
     DEF PermitNext

\* Every step keeps what is decided within the mode and the grants.
LEMMA KeepWithin ==
    ASSUME PermitInv, [PermitNext]_permitVars
    PROVE  WithinGrants'
<1>0. PermitTypeOK /\ CacheIsRight /\ VetoIsPast /\ WithinGrants /\ ListIsSaid /\ SessionIsGranted
  BY DEF PermitInv
<1>. USE <1>0 DEF grants, policyVars, caseVars, permitVars, TurnDown, Pass, GoOn, WithinGrants, Decided, SessionIsGranted
<1>1. CASE Veto
  BY <1>1 DEF Veto
<1>2. CASE AskGate
  BY <1>2 DEF AskGate
<1>3. CASE Authorize
  <2>1. /\ policyEdited' = policyEdited /\ mode' = mode /\ network' = network /\ call' = call
        /\ gateStep = "authorize"
    BY <1>3 DEF Authorize
  <2>2. CASE Look.broken /\ Settle({"denied"})
    <3>1. policyEdited
      BY <2>1, <2>2, LookFact DEF VetoIsPast, Vetoed
    <3>. QED
      BY <2>1, <3>1
  <2>3. CASE GoOn("decide")
    BY <2>1, <2>3
  <2>. QED
    BY <1>3, <2>2, <2>3 DEF Authorize
<1>4. CASE Answer
  BY <1>4 DEF Answer
<1>5. CASE ReadList
  BY <1>5 DEF ReadList
<1>6. CASE WriteList
  BY <1>6 DEF WriteList
<1>7. CASE AskHooks
  BY <1>7 DEF AskHooks
<1>8. CASE ClearList
  BY <1>8 DEF ClearList
<1>9. ASSUME NEW c \in Targets, Propose(c) PROVE WithinGrants'
  BY <1>9 DEF Propose
<1>10. ASSUME NEW text \in RuleFiles, EditRules(text) PROVE WithinGrants'
  BY <1>10 DEF EditRules
<1>11. CASE UNCHANGED permitVars
  BY <1>11 DEF permitVars
<1>12. CASE MatchRules
  BY <1>12, GateAssumption DEF MatchRules, ToGate, NeedsGate, PermitTypeOK
<1>13. CASE MatchPaths
  BY <1>13, GateAssumption DEF MatchPaths, ToGate, NeedsGate, PermitTypeOK
<1>14. CASE Decide
  <2>1. /\ policyEdited' = policyEdited /\ mode' = mode /\ network' = network /\ call' = call
        /\ gateStep = "decide"
    BY <1>14 DEF Decide
  <2>2. SUFFICES ASSUME ~policyEdited, gateStep' \in Decided \/ permit' = "ran"
                 PROVE  /\ mode = "plan" => call.risk = "readonly"
                        /\ call.network => network \/ mode = "yolo" \/ by' = "session"
    BY <2>1
  <2>3. ~Covers(policy.deny, call)
    BY <2>1, <2>2 DEF VetoIsPast, Vetoed
  <2>4. Settle(Reasons(call))
    BY <1>14, <2>3, LookFact DEF Decide
  <2>5. CASE gateStep' \in {"hook", "asked"}
    BY <2>4, <2>5, SettledFact, AuthorizedFact
  <2>6. CASE gateStep' = "idle"
    BY <2>2, <2>4, <2>6, SettledFact
  <2>. QED
    BY <2>4, <2>5, <2>6, SettledFact
<1>. QED
  BY <1>1, <1>2, <1>3, <1>4, <1>5, <1>6, <1>7, <1>8, <1>9, <1>10, <1>11, <1>12, <1>13, <1>14
     DEF PermitNext

\* Every step keeps the allowlist to what the user said.
LEMMA KeepListSaid ==
    ASSUME PermitInv, [PermitNext]_permitVars
    PROVE  ListIsSaid'
<1>0. PermitTypeOK /\ CacheIsRight /\ VetoIsPast /\ WithinGrants /\ ListIsSaid /\ SessionIsGranted
  BY DEF PermitInv
<1>. USE <1>0 DEF grants, policyVars, caseVars, permitVars, TurnDown, Pass, GoOn, ListIsSaid, Empty
<1>1. CASE Veto
  BY <1>1 DEF Veto
<1>2. CASE AskGate
  BY <1>2 DEF AskGate
<1>3. CASE Authorize
  BY <1>3, SettledFact DEF Authorize
<1>4. CASE Answer
  BY <1>4 DEF Answer
<1>5. CASE ReadList
  <2>1. PICK wider \in BOOLEAN : /\ base' = Joined(allowlist, Remembered(call, wider))
                                /\ said' = Joined(said, Remembered(call, wider))
    BY <1>5 DEF ReadList
  <2>2. \A axis \in DOMAIN Empty :
          /\ base'[axis] = allowlist[axis] \cup Remembered(call, wider)[axis]
          /\ said'[axis] = said[axis] \cup Remembered(call, wider)[axis]
    BY <2>1, ListFact DEF PermitTypeOK
  <2>3. allowlist' = allowlist /\ clearRaced' = clearRaced
    BY <1>5 DEF ReadList
  <2>. QED
    BY <2>2, <2>3
<1>6. CASE WriteList
  BY <1>6 DEF WriteList
<1>7. CASE AskHooks
  BY <1>7 DEF AskHooks
<1>8. CASE ClearList
  BY <1>8 DEF ClearList
<1>9. ASSUME NEW c \in Targets, Propose(c) PROVE ListIsSaid'
  BY <1>9 DEF Propose
<1>10. ASSUME NEW text \in RuleFiles, EditRules(text) PROVE ListIsSaid'
  BY <1>10 DEF EditRules
<1>11. CASE UNCHANGED permitVars
  BY <1>11 DEF permitVars
<1>12. CASE MatchRules
  BY <1>12 DEF MatchRules, ToGate
<1>13. CASE MatchPaths
  BY <1>13 DEF MatchPaths, ToGate
<1>14. CASE Decide
  BY <1>14, SettledFact DEF Decide
<1>. QED
  BY <1>1, <1>2, <1>3, <1>4, <1>5, <1>6, <1>7, <1>8, <1>9, <1>10, <1>11, <1>12, <1>13, <1>14
     DEF PermitNext

\* Every step keeps the allowlist's name to the calls it covers.
LEMMA KeepSession ==
    ASSUME PermitInv, [PermitNext]_permitVars
    PROVE  SessionIsGranted'
<1>0. PermitTypeOK /\ CacheIsRight /\ VetoIsPast /\ WithinGrants /\ ListIsSaid /\ SessionIsGranted
  BY DEF PermitInv
<1>. USE <1>0 DEF grants, policyVars, caseVars, permitVars, TurnDown, Pass, GoOn, SessionIsGranted
<1>1. CASE Veto
  BY <1>1 DEF Veto
<1>2. CASE AskGate
  BY <1>2 DEF AskGate
<1>3. CASE Authorize
  BY <1>3, SettledFact, ListedFact DEF Authorize
<1>4. CASE Answer
  BY <1>4 DEF Answer
<1>5. CASE ReadList
  BY <1>5 DEF ReadList
<1>6. CASE WriteList
  BY <1>6 DEF WriteList
<1>7. CASE AskHooks
  BY <1>7 DEF AskHooks
<1>8. CASE ClearList
  BY <1>8 DEF ClearList
<1>9. ASSUME NEW c \in Targets, Propose(c) PROVE SessionIsGranted'
  BY <1>9 DEF Propose
<1>10. ASSUME NEW text \in RuleFiles, EditRules(text) PROVE SessionIsGranted'
  BY <1>10 DEF EditRules
<1>11. CASE UNCHANGED permitVars
  BY <1>11 DEF permitVars
<1>12. CASE MatchRules
  BY <1>12 DEF MatchRules, ToGate
<1>13. CASE MatchPaths
  BY <1>13 DEF MatchPaths, ToGate
<1>14. CASE Decide
  BY <1>14, SettledFact, ListedFact DEF Decide
<1>. QED
  BY <1>1, <1>2, <1>3, <1>4, <1>5, <1>6, <1>7, <1>8, <1>9, <1>10, <1>11, <1>12, <1>13, <1>14
     DEF PermitNext

\* Every step keeps the types.
LEMMA KeepPermitTypes ==
    ASSUME PermitInv, [PermitNext]_permitVars
    PROVE  PermitTypeOK'
<1>0. PermitTypeOK /\ CacheIsRight /\ VetoIsPast /\ WithinGrants /\ ListIsSaid /\ SessionIsGranted
  BY DEF PermitInv
<1>. USE <1>0, LookFact DEF grants, policyVars, caseVars, permitVars, TurnDown, Pass, GoOn, Steps, PermitTypeOK
<1>1. CASE Veto
  BY <1>1 DEF Veto
<1>2. CASE AskGate
  <2>1. covered' \in BOOLEAN
    BY <1>2 DEF AskGate
  <2>. QED
    BY <1>2, <2>1 DEF AskGate
<1>3. CASE Authorize
  <2>1. /\ granted' \in BOOLEAN /\ gateStep' \in Steps /\ permit' \in {"none", "ran", "refused"}
        /\ by' \in {"none", "policy", "rule", "session", "user"}
    BY <1>3, SettledFact DEF Authorize
  <2>. QED
    BY <1>3, <2>1 DEF Authorize
<1>4. CASE Answer
  BY <1>4 DEF Answer
<1>5. CASE ReadList
  <2>1. base' \in Side /\ said' \in Side
    BY <1>5, ListFact DEF ReadList
  <2>. QED
    BY <1>5, <2>1 DEF ReadList
<1>6. CASE WriteList
  BY <1>6 DEF WriteList
<1>7. CASE AskHooks
  BY <1>7 DEF AskHooks
<1>8. CASE ClearList
  BY <1>8 DEF ClearList, Side, Empty
<1>9. ASSUME NEW c \in Targets, Propose(c) PROVE PermitTypeOK'
  <2>1. vetoed' \in BOOLEAN /\ asked' \in 0..MaxAsked
    BY <1>9, GateAssumption DEF Propose, Vetoed
  <2>. QED
    BY <1>9, <2>1 DEF Propose
<1>10. ASSUME NEW text \in RuleFiles, EditRules(text) PROVE PermitTypeOK'
  BY <1>10, EditionFact DEF EditRules
<1>11. CASE UNCHANGED permitVars
  BY <1>11 DEF permitVars
<1>12. CASE MatchRules
  BY <1>12 DEF MatchRules, ToGate
<1>13. CASE MatchPaths
  BY <1>13 DEF MatchPaths, ToGate
<1>14. CASE Decide
  <2>1. /\ granted' \in BOOLEAN /\ gateStep' \in Steps /\ permit' \in {"none", "ran", "refused"}
        /\ by' \in {"none", "policy", "rule", "session", "user"}
    BY <1>14, SettledFact DEF Decide
  <2>. QED
    BY <1>14, <2>1 DEF Decide
<1>. QED
  BY <1>1, <1>2, <1>3, <1>4, <1>5, <1>6, <1>7, <1>8, <1>9, <1>10, <1>11, <1>12, <1>13, <1>14
     DEF PermitNext

\* The inductive invariant of the gate.
THEOREM PermitInvariant == PermitSpec => []PermitInv
<1>1. PermitInv /\ [PermitNext]_permitVars => PermitInv'
  BY KeepCacheRight, KeepVetoPast, KeepWithin, KeepListSaid, KeepSession, KeepPermitTypes
     DEF PermitInv
<1>. QED
  BY PermitStart, <1>1, PTL DEF PermitSpec

\* A rule that stood all the time while a call was decided has stopped it, unless
\* the rules were turned over between two looks of the veto; and as long as nobody
\* edits the rules meanwhile nothing runs beyond the mode, the grants of the task
\* and what the user said "always" to.
THEOREM PermittedIsGrantedHolds == PermitSpec => []PermittedIsGranted
<1>1. PermitInv => PermittedIsGranted
  BY DEF PermitInv, VetoIsPast, WithinGrants, SessionIsGranted, PermittedIsGranted
<1>. QED
  BY <1>1, PermitInvariant, PTL

-----------------------------------------------------------------------------
(* The hooks *)

\* Before the file is read no hook is in force.
LEMMA HookStart == HookInit => HookInv
<1>. SUFFICES ASSUME HookInit PROVE HookInv
  OBVIOUS
<1>1. entries \in Seq(Hooks) /\ Len(entries) \in 0..MaxHooks
  <2>1. CASE source = "object"
    <3>1. PICK n \in 0..MaxHooks : entries \in [1..n -> Hooks]
      BY <2>1 DEF HookInit
    <3>2. n \in Nat
      BY HooksAssumption
    <3>. QED
      BY <3>1, <3>2
  <2>2. CASE source # "object"
    BY <2>2, HooksAssumption DEF HookInit
  <2>. QED
    BY <2>1, <2>2
<1>2. HookTypeOK
  <2>1. entries \in Seq(Hooks) /\ hooks \in Seq(Hooks) /\ Len(hooks) <= MaxHooks
        /\ Len(entries) <= MaxHooks
    BY <1>1, HooksAssumption DEF HookInit
  <2>2. /\ hookAt \in 1..(MaxHooks + 1) /\ left \in 0..Budget /\ events \in 0..MaxEvents
        /\ hookTime \in Nat /\ heard \in [1..MaxHooks -> Outcomes \cup {"unheard"}]
    BY HooksAssumption DEF HookInit, Unheard
  <2>. QED
    BY <2>1, <2>2 DEF HookInit, HookTypeOK, Events
<1>3. FileIsTaken /\ AllPassed /\ TimeIsTaken /\ VetoHolds
  BY <1>1, HooksAssumption
     DEF HookInit, FileIsTaken, AllPassed, TimeIsTaken, VetoHolds
<1>. QED
  BY <1>2, <1>3 DEF HookInv

\* A hook takes a time, and the deadline loses that much or all it has left.
LEMMA TimeFact ==
    ASSUME HookTypeOK, RunHook
    PROVE  \E t \in Nat :
             /\ t <= left + Grace /\ left' = Minus(left, t) /\ hookTime' = hookTime + t
             /\ left' \in 0..Budget
<1>1. hooks[hookAt] \in Hooks /\ hooks[hookAt].limit \in Nat
  BY HooksAssumption DEF HookTypeOK, RunHook
<1>2. Allowed(hooks[hookAt]) \in 0..left
  BY <1>1, HooksAssumption DEF HookTypeOK, Allowed
<1>3. PICK o \in Outcomes, t \in Nat :
        /\ t <= Allowed(hooks[hookAt]) + Grace
        /\ left' = Minus(left, t) /\ hookTime' = hookTime + t
  BY <1>2, HooksAssumption, SMTT(20) DEF RunHook, HookTypeOK, Outcomes
<1>4. left' \in 0..Budget
  BY <1>3, HooksAssumption DEF HookTypeOK, Minus
<1>. QED
  BY <1>2, <1>3, <1>4, HooksAssumption, SMTT(20) DEF HookTypeOK

\* A hook that runs is heard, and what it says decides together with the others.
LEMMA HeardFact ==
    ASSUME HookTypeOK, RunHook
    PROVE  \E o \in Outcomes :
             /\ hookRuling' = Verdict(hooks[hookAt], o)
             /\ heard' = [heard EXCEPT ![hookAt] = o]
BY DEF RunHook, Outcomes

\* A file taken to its end is the whole file.
LEMMA WholeFact ==
    ASSUME HookTypeOK, FileIsTaken, hookStep = "parse", hookAt > Len(entries)
    PROVE  hooks = entries
<1>1. hooks \in Seq(Hooks) /\ entries \in Seq(Hooks) /\ Len(hooks) = Len(entries)
  BY DEF HookTypeOK, FileIsTaken
<1>2. \A i \in 1..Len(hooks) : hooks[i] = entries[i]
  BY <1>1 DEF FileIsTaken
<1>. QED
  BY <1>1, <1>2, SeqEqual

\* Every step keeps the types.
LEMMA KeepHookTypes ==
    ASSUME HookInv, [HookNext]_hookVars
    PROVE  HookTypeOK'
<1>0. HookTypeOK /\ FileIsTaken /\ AllPassed /\ TimeIsTaken /\ VetoHolds
  BY DEF HookInv
<1>. USE <1>0 DEF HookTypeOK
<1>1. CASE Load
  BY <1>1 DEF Load
<1>2. CASE Parse
  <2>1. CASE hookAt <= Len(entries) /\ entries[hookAt].wellFormed
    <3>1. hooks' = Append(hooks, entries[hookAt]) /\ hookAt' = hookAt + 1
          /\ Len(hooks) = hookAt - 1
      BY <1>2, <2>1 DEF Parse, FileIsTaken
    <3>2. hooks' \in Seq(Hooks) /\ Len(hooks') = hookAt /\ hookAt' \in 1..(MaxHooks + 1)
      BY <2>1, <3>1, HooksAssumption
    <3>. QED
      BY <1>2, <2>1, <3>2, HooksAssumption DEF Parse
  <2>2. CASE ~(hookAt <= Len(entries) /\ entries[hookAt].wellFormed)
    <3>1. hooks' \in {hooks, <<>>} /\ hookAt' = hookAt /\ loadError' \in BOOLEAN
      BY <1>2, <2>2 DEF Parse, Rejected
    <3>2. hooks' \in Seq(Hooks) /\ Len(hooks') <= MaxHooks
      <4>1. CASE hooks' = hooks
        BY <4>1
      <4>2. CASE hooks' = <<>>
        BY <4>2, HooksAssumption
      <4>. QED
        BY <3>1, <4>1, <4>2
    <3>. QED
      BY <1>2, <3>1, <3>2 DEF Parse
  <2>. QED
    BY <2>1, <2>2
<1>3. CASE Skip
  <2>1. hookAt' \in 1..(MaxHooks + 1)
    BY <1>3, HooksAssumption DEF Skip
  <2>. QED
    BY <1>3, <2>1 DEF Skip
<1>4. CASE RunHook
  <2>1. left' \in 0..Budget /\ hookTime' \in Nat
    BY <1>4, TimeFact
  <2>2. /\ hookRuling' \in {"allow", "deny"}
        /\ heard' \in [1..MaxHooks -> Outcomes \cup {"unheard"}]
    BY <1>4, HeardFact DEF Verdict
  <2>3. hookAt' \in 1..(MaxHooks + 1)
    BY <1>4, HooksAssumption, SMTT(20) DEF RunHook
  <2>. QED
    BY <1>4, <2>1, <2>2, <2>3 DEF RunHook
<1>5. CASE OutOfTime
  BY <1>5 DEF OutOfTime
<1>6. CASE LastHook
  BY <1>6 DEF LastHook
<1>7. CASE Obey
  BY <1>7 DEF Obey
<1>8. ASSUME NEW e \in Events, NEW t \in ToolNames \cup {NoTool}, Fire(e, t)
      PROVE  HookTypeOK'
  BY <1>8, HooksAssumption DEF Fire, Unheard
<1>9. CASE UNCHANGED hookVars
  BY <1>9 DEF hookVars
<1>. QED
  BY <1>1, <1>2, <1>3, <1>4, <1>5, <1>6, <1>7, <1>8, <1>9 DEF HookNext

\* Every step takes the file over entry by entry.
LEMMA KeepFileTaken ==
    ASSUME HookInv, [HookNext]_hookVars
    PROVE  FileIsTaken'
<1>0. HookTypeOK /\ FileIsTaken /\ AllPassed /\ TimeIsTaken /\ VetoHolds
  BY DEF HookInv
<1>. USE <1>0 DEF HookTypeOK, FileIsTaken
<1>1. CASE Load
  BY <1>1 DEF Load
<1>2. CASE Parse
  <2>1. CASE hookAt <= Len(entries) /\ entries[hookAt].wellFormed
    <3>1. /\ hooks' = Append(hooks, entries[hookAt]) /\ hookAt' = hookAt + 1
          /\ Len(hooks) = hookAt - 1 /\ entries[hookAt] \in Hooks
      BY <1>2, <2>1 DEF Parse
    <3>2. /\ Len(hooks') = hookAt
          /\ \A i \in 1..hookAt : hooks'[i] = IF i = hookAt THEN entries[hookAt] ELSE hooks[i]
      BY <3>1
    <3>. QED
      BY <1>2, <2>1, <3>1, <3>2 DEF Parse
  <2>2. CASE ~(hookAt <= Len(entries) /\ entries[hookAt].wellFormed)
    BY <1>2, <2>2 DEF Parse, Rejected
  <2>. QED
    BY <2>1, <2>2
<1>3. CASE Skip
  BY <1>3 DEF Skip
<1>4. CASE RunHook
  BY <1>4 DEF RunHook
<1>5. CASE OutOfTime
  BY <1>5 DEF OutOfTime
<1>6. CASE LastHook
  BY <1>6 DEF LastHook
<1>7. CASE Obey
  BY <1>7 DEF Obey
<1>8. ASSUME NEW e \in Events, NEW t \in ToolNames \cup {NoTool}, Fire(e, t)
      PROVE  FileIsTaken'
  BY <1>8 DEF Fire
<1>9. CASE UNCHANGED hookVars
  BY <1>9 DEF hookVars
<1>. QED
  BY <1>1, <1>2, <1>3, <1>4, <1>5, <1>6, <1>7, <1>8, <1>9 DEF HookNext

\* Every step keeps the hooks left behind among those that passed.
LEMMA KeepAllPassed ==
    ASSUME HookInv, [HookNext]_hookVars
    PROVE  AllPassed'
<1>0. HookTypeOK /\ FileIsTaken /\ AllPassed /\ TimeIsTaken /\ VetoHolds
  BY DEF HookInv
<1>. USE <1>0 DEF HookTypeOK, AllPassed, Passed, Matches
<1>1. CASE Load
  BY <1>1 DEF Load
<1>2. CASE Parse
  BY <1>2 DEF Parse
<1>3. CASE Skip
  BY <1>3 DEF Skip
<1>4. CASE RunHook
  <2>1. PICK o \in Outcomes : /\ hookRuling' = Verdict(hooks[hookAt], o)
                              /\ heard' = [heard EXCEPT ![hookAt] = o]
    BY <1>4, HeardFact
  <2>2. /\ hookStep = "event" /\ hookStep' = "event" /\ hookAt' = hookAt + 1
        /\ hooks' = hooks /\ event' = event /\ tool' = tool
        /\ hookAt \in 1..Len(hooks) /\ Len(hooks) <= MaxHooks
    BY <1>4 DEF RunHook
  <2>3. \A i \in 1..MaxHooks : heard'[i] = IF i = hookAt THEN o ELSE heard[i]
    BY <2>1
  <2>4. ASSUME hookRuling' = "allow", NEW i \in DOMAIN hooks', i < hookAt'
        PROVE  Passed(i)'
    <3>1. CASE i = hookAt
      <4>1. o # "deny" /\ (o = "zero" \/ ~hooks[hookAt].strict)
        BY <2>1, <2>4 DEF Verdict
      <4>2. heard'[i] = o /\ hooks'[i] = hooks[hookAt] /\ o # "unheard"
        BY <2>2, <2>3, <3>1, HooksAssumption, SMTT(20) DEF Outcomes
      <4>. QED
        BY <4>1, <4>2
    <3>2. CASE i # hookAt
      BY <2>1, <2>2, <2>3, <2>4, <3>2 DEF Verdict
    <3>. QED
      BY <3>1, <3>2
  <2>5. \A i \in hookAt'..MaxHooks : heard'[i] = "unheard"
    BY <2>2, <2>3, HooksAssumption
  <2>. QED
    BY <2>2, <2>4, <2>5
<1>5. CASE OutOfTime
  <2>1. /\ hookStep = "event" /\ hookStep' = "decided" /\ left = 0
        /\ UNCHANGED <<hooks, event, tool, left, hookRuling, heard>>
    BY <1>5 DEF OutOfTime
  <2>2. \A i \in DOMAIN hooks : i < hookAt \/ i \in hookAt..MaxHooks
    BY HooksAssumption
  <2>. QED
    BY <2>1, <2>2
<1>6. CASE LastHook
  BY <1>6 DEF LastHook
<1>7. CASE Obey
  BY <1>7 DEF Obey
<1>8. ASSUME NEW e \in Events, NEW t \in ToolNames \cup {NoTool}, Fire(e, t)
      PROVE  AllPassed'
  BY <1>8 DEF Fire, Unheard
<1>9. CASE UNCHANGED hookVars
  BY <1>9 DEF hookVars
<1>. QED
  BY <1>1, <1>2, <1>3, <1>4, <1>5, <1>6, <1>7, <1>8, <1>9 DEF HookNext

\* Every step takes its time from the deadline.
LEMMA KeepTimeTaken ==
    ASSUME HookInv, [HookNext]_hookVars
    PROVE  TimeIsTaken' /\ hookTime' <= Budget + Grace
<1>0. HookTypeOK /\ FileIsTaken /\ AllPassed /\ TimeIsTaken /\ VetoHolds
  BY DEF HookInv
<1>. USE <1>0 DEF HookTypeOK, TimeIsTaken, VetoHolds
<1>1. CASE Load
  BY <1>1 DEF Load
<1>2. CASE Parse
  BY <1>2 DEF Parse
<1>3. CASE Skip
  BY <1>3 DEF Skip
<1>4. CASE RunHook
  <2>1. PICK t \in Nat : /\ t <= left + Grace /\ left' = Minus(left, t)
                         /\ hookTime' = hookTime + t
    BY <1>4, TimeFact
  <2>2. left > 0 /\ left \in Nat /\ hookTime \in Nat /\ hookTime + left = Budget
    BY <1>4, HooksAssumption, SMTT(20) DEF RunHook
  <2>. QED
    BY <2>1, <2>2, HooksAssumption, SMTT(20) DEF Minus
<1>5. CASE OutOfTime
  BY <1>5 DEF OutOfTime
<1>6. CASE LastHook
  BY <1>6 DEF LastHook
<1>7. CASE Obey
  BY <1>7 DEF Obey
<1>8. ASSUME NEW e \in Events, NEW t \in ToolNames \cup {NoTool}, Fire(e, t)
      PROVE  TimeIsTaken' /\ hookTime' <= Budget + Grace
  BY <1>8, HooksAssumption DEF Fire
<1>9. CASE UNCHANGED hookVars
  BY <1>9 DEF hookVars
<1>. QED
  BY <1>1, <1>2, <1>3, <1>4, <1>5, <1>6, <1>7, <1>8, <1>9 DEF HookNext

\* Every step keeps the veto.
LEMMA KeepVetoHolds ==
    ASSUME HookInv, [HookNext]_hookVars
    PROVE  VetoHolds'
<1>0. HookTypeOK /\ FileIsTaken /\ AllPassed /\ TimeIsTaken /\ VetoHolds
  BY DEF HookInv
<1>10. hookTime' <= Budget + Grace
  BY KeepTimeTaken
<1>. USE <1>0 DEF HookTypeOK, VetoHolds, Matches
<1>1. CASE Load
  BY <1>1, <1>10 DEF Load, FileIsTaken
<1>2. CASE Parse
  BY <1>2, <1>10, WholeFact DEF Parse, Rejected, FileIsTaken
<1>3. CASE Skip
  BY <1>3, <1>10 DEF Skip, FileIsTaken
<1>4. CASE RunHook
  BY <1>4, <1>10 DEF RunHook, FileIsTaken
<1>5. CASE OutOfTime
  BY <1>5, <1>10 DEF OutOfTime, FileIsTaken
<1>6. CASE LastHook
  BY <1>6, <1>10 DEF LastHook, FileIsTaken
<1>7. CASE Obey
  BY <1>7, <1>10 DEF Obey, AllPassed, Passed, Blocked
<1>8. ASSUME NEW e \in Events, NEW t \in ToolNames \cup {NoTool}, Fire(e, t)
      PROVE  VetoHolds'
  BY <1>8, <1>10 DEF Fire, FileIsTaken
<1>9. CASE UNCHANGED hookVars
  BY <1>9, <1>10 DEF hookVars, FileIsTaken
<1>. QED
  BY <1>1, <1>2, <1>3, <1>4, <1>5, <1>6, <1>7, <1>8, <1>9 DEF HookNext

\* The inductive invariant of the hooks, with the veto.
THEOREM HookInvariant == HookSpec => []HookInv
<1>1. HookInv /\ [HookNext]_hookVars => HookInv'
  BY KeepHookTypes, KeepFileTaken, KeepAllPassed, KeepTimeTaken, KeepVetoHolds
     DEF HookInv
<1>. QED
  BY HookStart, <1>1, PTL DEF HookSpec

\* A call runs only past every hook of the file that is for it, and an event ends
\* within its deadline and one kill.
THEOREM VetoHoldsAlways == HookSpec => []VetoHolds
<1>1. HookInv => VetoHolds
  BY DEF HookInv
<1>. QED
  BY <1>1, HookInvariant, PTL

-----------------------------------------------------------------------------
(* The verifier *)

\* Nothing read, and the identity of that.
LEMMA ZeroFact ==
    /\ Unseen \in [Files -> 0..MaxContent] /\ Zero \in Scans
    /\ \A f \in Files : Unseen[f] = 0
BY FilesAssumption DEF Unseen, Zero, Scans

\* The places of a scan.
LEMMA WalkFact ==
    ASSUME VerificationTypeOK
    PROVE  /\ Cardinality(Files) \in Nat /\ scanned \in Nat \ {0}
           /\ Cardinality(Files) + 1 \in 1..(Cardinality(Files) + 1)
           /\ 1 \in 1..(Cardinality(Files) + 1)
           /\ scanned \in Files => scanned + 1 \in 1..(Cardinality(Files) + 1)
           /\ \A f \in Files : f \in Nat /\ f < Cardinality(Files) + 1
<1>1. Cardinality(Files) \in Nat
  BY FilesAssumption, FS_CardinalityType
<1>2. scanned \in 1..(Cardinality(Files) + 1) /\ Files = 1..Cardinality(Files)
  BY FilesAssumption DEF VerificationTypeOK
<1>. QED
  BY <1>1, <1>2

\* What the memo or the file says of a file no edit escaped is its content.
LEMMA DigestFact ==
    ASSUME VerificationTypeOK, StampTells, MemoIsRight, NEW f \in Files
    PROVE  /\ Digest(f) \in 0..MaxContent
           /\ f \notin blind => Digest(f) = content[f]
<1>1. /\ content[f] \in 0..MaxContent /\ stamp[f] \in 0..MaxContent
      /\ digests[f] \in [stamp : 0..MaxContent, digest : 0..MaxContent]
  BY DEF VerificationTypeOK
<1>2. Digest(f) \in 0..MaxContent
  BY <1>1 DEF Digest
<1>3. ASSUME f \notin blind PROVE Digest(f) = content[f]
  <2>1. 0 < stamp[f] /\ stamp[f] = content[f]
    BY <1>3 DEF StampTells
  <2>2. CASE digests[f].stamp = stamp[f]
    <3>1. digests[f] # NoDigest
      BY <2>1, <2>2, <1>1 DEF NoDigest
    <3>2. digests[f].digest = digests[f].stamp
      BY <3>1, <1>3 DEF MemoIsRight
    <3>. QED
      BY <3>2, <2>1, <2>2 DEF Digest
  <2>3. CASE digests[f].stamp # stamp[f]
    BY <2>3 DEF Digest
  <2>. QED
    BY <2>2, <2>3
<1>. QED
  BY <1>2, <1>3

-----------------------------------------------------------------------------
\* The invariant holds before the first verification.
LEMMA VerificationStart == VerificationInit => VerificationInv
<1>. SUFFICES ASSUME VerificationInit PROVE VerificationInv
  OBVIOUS
<1>0. 0 \in 0..MaxContent /\ 1 \in 0..MaxContent /\ MaxCalls \in Nat
  BY FilesAssumption
<1>1. VerificationTypeOK
  <2>1. {content, stamp, truth, earned, parts} \subseteq [Files -> 0..MaxContent]
    BY <1>0, ZeroFact DEF VerificationInit
  <2>2. digests \in [Files -> [stamp : 0..MaxContent, digest : 0..MaxContent]]
    BY <1>0 DEF VerificationInit, NoDigest
  <2>3. 1 \in 1..(Cardinality(Files) + 1)
    BY FilesAssumption, FS_CardinalityType
  <2>. QED
    BY <2>1, <2>2, <2>3, <1>0, ZeroFact DEF VerificationInit, VerificationTypeOK
<1>2. StampTells /\ MemoIsRight
  BY DEF VerificationInit, StampTells, MemoIsRight
<1>3. /\ ScanIsTrue /\ FitIsRead /\ NotYetRead /\ RunIsBetween /\ PassesAreTrue
      /\ PassIsCurrent
  BY ZeroFact
     DEF VerificationInit, ScanIsTrue, FitIsRead, NotYetRead, RunIsBetween, PassesAreTrue,
         PassIsCurrent
<1>. QED
  BY <1>1, <1>2, <1>3 DEF VerificationInv

\* A new verification starts its scan with nothing.
LEMMA VerifyKeeps ==
    ASSUME VerificationInv, NEW scripts \in BOOLEAN, Verify(scripts)
    PROVE  VerificationInv'
<1>. USE DEF VerificationInv
<1>0. \A f \in Files : content[f] \in Nat
  BY FilesAssumption DEF VerificationTypeOK
<1>1. VerificationTypeOK'
  <2>1. calls' \in 0..MaxCalls
    BY FilesAssumption DEF Verify, VerificationTypeOK
  <2>. QED
    BY <2>1, WalkFact, ZeroFact DEF Verify, disk, VerificationTypeOK
<1>2. StampTells' /\ MemoIsRight'
  BY DEF Verify, disk, StampTells, MemoIsRight
<1>3. ScanIsTrue' /\ FitIsRead' /\ NotYetRead' /\ RunIsBetween' /\ PassIsCurrent'
  BY <1>0, ZeroFact
     DEF Verify, disk, ScanIsTrue, FitIsRead, NotYetRead, RunIsBetween, PassIsCurrent
<1>4. PassesAreTrue'
  BY DEF Verify, disk, PassesAreTrue, ReadAs
<1>. QED
  BY <1>1, <1>2, <1>3, <1>4

\* One more file is in the scan: with its content, if no edit escaped its
\* signature, or not at all.
LEMMA ScanFileFact ==
    ASSUME VerificationInv, ScanFile
    PROVE  /\ parts' \in [Files -> 0..MaxContent]
           /\ \A f \in Files : f # scanned => parts'[f] = parts[f]
           /\ scanned \notin blind /\ parts'[scanned] # 0 =>
                parts'[scanned] = content[scanned]
           /\ digests' \in [Files -> [stamp : 0..MaxContent, digest : 0..MaxContent]]
           /\ MemoIsRight'
<1>. USE DEF VerificationInv
<1>0. scanned \in Files /\ UNCHANGED disk
  BY DEF ScanFile
<1>1. /\ parts \in [Files -> 0..MaxContent]
      /\ stamp[scanned] \in 0..MaxContent
      /\ Digest(scanned) \in 0..MaxContent
      /\ digests \in [Files -> [stamp : 0..MaxContent, digest : 0..MaxContent]]
  BY <1>0, DigestFact DEF VerificationTypeOK
<1>2. ASSUME NEW v \in 0..MaxContent, parts' = [parts EXCEPT ![scanned] = v]
      PROVE  /\ parts' \in [Files -> 0..MaxContent] /\ parts'[scanned] = v
             /\ \A f \in Files : f # scanned => parts'[f] = parts[f]
  BY <1>0, <1>1, <1>2
<1>3. CASE /\ UNCHANGED digests
           /\ parts' = [parts EXCEPT ![scanned] = stamp[scanned]]
  <2>1. scanned \notin blind => stamp[scanned] = content[scanned]
    BY <1>0 DEF StampTells
  <2>2. MemoIsRight'
    BY <1>0, <1>3 DEF disk, MemoIsRight
  <2>. QED
    BY <2>1, <2>2, <1>1, <1>2, <1>3
<1>4. CASE /\ parts' = [parts EXCEPT ![scanned] = Digest(scanned)]
           /\ Hashed(scanned, Digest(scanned))
  <2>1. scanned \notin blind =>
          Digest(scanned) = content[scanned] /\ stamp[scanned] = content[scanned]
    BY <1>0, DigestFact DEF StampTells
  <2>2. digests' = [digests EXCEPT ![scanned] =
                       [stamp |-> stamp[scanned], digest |-> Digest(scanned)]]
    BY <1>4 DEF Hashed
  <2>3. digests' \in [Files -> [stamp : 0..MaxContent, digest : 0..MaxContent]]
    BY <2>2, <1>1
  <2>4. MemoIsRight'
    <3>1. SUFFICES ASSUME NEW f \in Files \ blind, digests'[f] # NoDigest
                   PROVE  digests'[f].digest = digests'[f].stamp
      BY <1>0 DEF disk, MemoIsRight
    <3>2. CASE f = scanned
      BY <3>2, <2>1, <2>2, <1>0, <1>1
    <3>3. CASE f # scanned
      BY <3>1, <3>3, <2>2, <1>1 DEF MemoIsRight
    <3>. QED
      BY <3>2, <3>3
  <2>. QED
    BY <2>1, <2>3, <2>4, <1>1, <1>2, <1>4
<1>5. CASE UNCHANGED <<parts, digests>>
  <2>1. parts[scanned] = 0
    BY <1>0, WalkFact DEF NotYetRead, ScanFile
  <2>2. MemoIsRight'
    BY <1>0, <1>5 DEF disk, MemoIsRight
  <2>. QED
    BY <2>1, <2>2, <1>1, <1>5
<1>. QED
  BY <1>3, <1>4, <1>5 DEF ScanFile

\* A step of the walk.
LEMMA ScanFileKeeps ==
    ASSUME VerificationInv, ScanFile
    PROVE  VerificationInv'
<1>. USE DEF VerificationInv
<1>0. /\ scanned \in Files /\ scan \in {"before", "after"} /\ scanned' = scanned + 1
      /\ UNCHANGED <<disk, scan, current, allowed, passes, status, earned, calls>>
      /\ truth' = IF scan = "before" /\ parts'[scanned] # 0
                  THEN [truth EXCEPT ![scanned] = content[scanned]] ELSE truth
      /\ stable' \in BOOLEAN /\ (scan = "after" => stable' = stable)
  BY DEF ScanFile, VerificationTypeOK
<1>a. UNCHANGED <<unread, large, content, stamp, blind>>
  BY <1>0 DEF disk
<1>b. /\ truth \in [Files -> 0..MaxContent] /\ content \in [Files -> 0..MaxContent]
      /\ earned \in [Files -> 0..MaxContent]
  BY DEF VerificationTypeOK
<1>1. VerificationTypeOK'
  <2>1. truth' \in [Files -> 0..MaxContent]
    BY <1>0, <1>b
  <2>2. scanned' \in 1..(Cardinality(Files) + 1)
    BY <1>0, WalkFact
  <2>. QED
    BY <2>1, <2>2, <1>0, <1>a, ScanFileFact DEF VerificationTypeOK
<1>2. StampTells'
  BY <1>a DEF StampTells
<1>3. ScanIsTrue'
  <2>1. ASSUME scan = "before", NEW f \in Files
        PROVE  f \notin blind /\ parts'[f] # 0 => parts'[f] = truth'[f]
    <3>1. CASE f = scanned
      BY <2>1, <3>1, <1>0, <1>b, ScanFileFact
    <3>2. CASE f # scanned
      <4>1. truth'[f] = truth[f] /\ parts'[f] = parts[f]
        BY <3>2, <1>0, <1>b, ScanFileFact
      <4>. QED
        BY <4>1, <2>1 DEF ScanIsTrue
    <3>. QED
      BY <3>1, <3>2
  <2>2. ASSUME NEW f \in Files PROVE truth'[f] <= content[f]
    <3>1. truth[f] <= content[f] /\ content[f] \in Nat
      BY <1>0, <1>b DEF ScanIsTrue
    <3>. QED
      BY <3>1, <1>0, <1>b
  <2>3. scan = "after" => truth' = truth
    BY <1>0
  <2>. QED
    BY <2>1, <2>2, <2>3, <1>0, <1>a DEF ScanIsTrue, ReadAs
<1>4. NotYetRead'
  <2>1. SUFFICES ASSUME NEW f \in Files, f >= scanned + 1 PROVE parts'[f] = 0
    BY <1>0 DEF NotYetRead
  <2>2. f \in Nat /\ scanned \in Nat
    BY WalkFact
  <2>3. f # scanned /\ f >= scanned
    BY <2>1, <2>2
  <2>. QED
    BY <2>3, <1>0, ScanFileFact DEF NotYetRead
<1>5. RunIsBetween'
  <2>1. SUFFICES ASSUME scan = "after"
                 PROVE  /\ \A f \in Files : truth'[f] <= earned[f] /\ earned[f] <= content[f]
                        /\ \A f \in Files :
                             f \notin blind /\ parts'[f] # 0 => earned[f] <= parts'[f]
    BY <1>0, <1>a DEF RunIsBetween
  <2>2. \A f \in Files : truth'[f] <= earned[f] /\ earned[f] <= content[f]
    BY <2>1, <1>0 DEF RunIsBetween
  <2>3. ASSUME NEW f \in Files, f \notin blind, parts'[f] # 0
        PROVE  earned[f] <= parts'[f]
    <3>1. CASE f = scanned
      BY <3>1, <2>2, <2>3, ScanFileFact
    <3>2. CASE f # scanned
      BY <3>2, <2>1, <2>3, ScanFileFact DEF RunIsBetween
    <3>. QED
      BY <3>1, <3>2
  <2>. QED
    BY <2>2, <2>3
<1>6. PassesAreTrue' /\ FitIsRead'
  BY <1>0, <1>a DEF PassesAreTrue, ReadAs, FitIsRead
<1>7. PassIsCurrent'
  BY <1>0 DEF PassIsCurrent
<1>. QED
  BY <1>1, <1>2, <1>3, <1>4, <1>5, <1>6, <1>7, ScanFileFact

\* A walk that ends early has nothing of what it has not come to.
LEMMA StopWalkKeeps ==
    ASSUME VerificationInv, StopWalk
    PROVE  VerificationInv'
<1>. USE DEF VerificationInv
<1>0. /\ scan \in {"before", "after"} /\ scanned' = Cardinality(Files) + 1
      /\ UNCHANGED <<disk, digests, scan, parts, current, allowed, passes, status, earned,
                     truth, calls>>
      /\ stable' \in BOOLEAN /\ (scan = "after" => stable' = stable)
  BY DEF StopWalk, VerificationTypeOK
<1>a. UNCHANGED <<unread, large, content, stamp, blind>>
  BY <1>0 DEF disk
<1>1. VerificationTypeOK'
  BY <1>0, <1>a, WalkFact DEF VerificationTypeOK
<1>2. StampTells' /\ MemoIsRight' /\ PassesAreTrue' /\ FitIsRead'
  BY <1>0, <1>a DEF StampTells, MemoIsRight, PassesAreTrue, ReadAs, FitIsRead
<1>3. ScanIsTrue' /\ RunIsBetween' /\ PassIsCurrent'
  BY <1>0, <1>a DEF ScanIsTrue, ReadAs, RunIsBetween, PassIsCurrent
<1>4. NotYetRead'
  BY <1>0, WalkFact DEF NotYetRead
<1>. QED
  BY <1>1, <1>2, <1>3, <1>4

-----------------------------------------------------------------------------
\* The changed files end a scan: with their contents, with a signature that
\* tells, or not at all; a scan fit as a key has read them all, and the memo
\* knows what was read.
LEMMA IdentityFact ==
    ASSUME VerificationInv, NEW lost \in SUBSET Changed, EndScan(lost), UNCHANGED disk
    PROVE  /\ Identity(lost) \in Scans /\ Identity(lost)[1] = parts
           /\ \A f \in Changed :
                Identity(lost)[2][f] # 0 /\ (f \in large => f \notin blind) =>
                    Identity(lost)[2][f] = content[f]
           /\ stable' \in BOOLEAN /\ (scan = "after" => stable' = stable)
           /\ stable' /\ scan = "before" =>
                \A f \in Changed : Identity(lost)[2][f] # 0 /\ f \notin large
           /\ parts' = Unseen
           /\ digests' \in [Files -> [stamp : 0..MaxContent, digest : 0..MaxContent]]
           /\ MemoIsRight'
<1>. USE DEF VerificationInv
<1>. DEFINE read == [f \in Changed |-> IF f \in lost THEN 0
                                       ELSE IF f \in large THEN stamp[f] ELSE content[f]]
            inFull == Changed \ (large \cup lost)
<1>1. /\ content \in [Files -> 0..MaxContent] /\ stamp \in [Files -> 0..MaxContent]
      /\ digests \in [Files -> [stamp : 0..MaxContent, digest : 0..MaxContent]]
      /\ Changed \subseteq Files /\ parts \in [Files -> 0..MaxContent]
      /\ 0 \in 0..MaxContent
  BY FilesAssumption DEF VerificationTypeOK
<1>2. read \in [Changed -> 0..MaxContent]
  BY <1>1
<1>3. Identity(lost) = <<parts, read>>
  BY DEF Identity
<1>4. ASSUME NEW f \in Changed, read[f] # 0, f \in large => f \notin blind
      PROVE  read[f] = content[f]
  BY <1>1, <1>4 DEF StampTells
<1>5. /\ digests' = [f \in Files |-> IF f \in inFull
                                   THEN [stamp |-> stamp[f], digest |-> content[f]]
                                   ELSE digests[f]]
      /\ stable' = (stable /\ (scan = "after" \/ inFull = Changed))
      /\ parts' = Unseen
  BY DEF EndScan
<1>6. digests' \in [Files -> [stamp : 0..MaxContent, digest : 0..MaxContent]]
  BY <1>1, <1>5
<1>7. MemoIsRight'
  <2>1. SUFFICES ASSUME NEW f \in Files, f \notin blind, digests'[f] # NoDigest
                 PROVE  digests'[f].digest = digests'[f].stamp
    BY DEF disk, MemoIsRight
  <2>2. CASE f \in inFull
    <3>1. stamp[f] = content[f]
      BY <2>1 DEF StampTells
    <3>. QED
      BY <3>1, <2>2, <1>5
  <2>3. CASE f \notin inFull
    BY <2>1, <2>3, <1>5 DEF MemoIsRight
  <2>. QED
    BY <2>2, <2>3
<1>8. stable' \in BOOLEAN /\ (scan = "after" => stable' = stable)
  BY <1>5 DEF VerificationTypeOK
<1>9. ASSUME stable', scan = "before", NEW f \in Changed
      PROVE  read[f] # 0 /\ f \notin large
  <2>1. f \notin large /\ f \notin lost
    BY <1>5, <1>9
  <2>2. 0 < content[f]
    BY <1>1 DEF StampTells
  <2>. QED
    BY <2>1, <2>2
<1>. HIDE DEF read, inFull
<1>. QED
  BY <1>1, <1>2, <1>3, <1>4, <1>5, <1>6, <1>7, <1>8, <1>9 DEF Scans

\* The first scan ends: what it says is what this call has read, and a pass
\* remembered for it was earned on the same.
LEMMA ScanBeforeKeeps ==
    ASSUME VerificationInv, ScanBefore
    PROVE  VerificationInv'
<1>. USE DEF VerificationInv
<1>0. /\ scan = "before" /\ scanned \notin Files
      /\ UNCHANGED <<disk, scanned, allowed, passes, calls>>
      /\ truth' = [f \in Files |-> IF f \notin Changed THEN truth[f]
                                  ELSE IF current'[2][f] # 0 THEN content[f] ELSE 0]
  BY DEF ScanBefore
<1>l. PICK lost \in SUBSET Changed : EndScan(lost) /\ current' = Identity(lost)
  BY DEF ScanBefore
<1>a. UNCHANGED <<unread, large, content, stamp, blind>>
  BY <1>0 DEF disk
<1>b. /\ truth \in [Files -> 0..MaxContent] /\ content \in [Files -> 0..MaxContent]
      /\ earned \in [Files -> 0..MaxContent] /\ Changed \subseteq Files
      /\ passes \subseteq [id : Scans, allowed : BOOLEAN, on : [Files -> 0..MaxContent]]
      /\ 0 \in 0..MaxContent
  BY FilesAssumption DEF VerificationTypeOK
<1>c. /\ current' \in Scans /\ current'[1] = parts
      /\ \A f \in Changed : current'[2][f] # 0 /\ (f \in large => f \notin blind) =>
            current'[2][f] = content[f]
      /\ stable' \in BOOLEAN /\ parts' = Unseen
      /\ stable' => \A f \in Changed : current'[2][f] # 0 /\ f \notin large
      /\ digests' \in [Files -> [stamp : 0..MaxContent, digest : 0..MaxContent]]
      /\ MemoIsRight'
  BY <1>0, <1>l, IdentityFact
<1>d. truth' \in [Files -> 0..MaxContent] /\ parts' \in [Files -> 0..MaxContent]
  BY <1>0, <1>b, <1>c, ZeroFact
<1>e. \A f \in Files : /\ truth'[f] <= content[f]
                       /\ f \in Changed /\ current'[2][f] # 0 => truth'[f] = content[f]
                       /\ f \notin Changed => truth'[f] = truth[f]
  <2>1. \A f \in Files : truth[f] <= content[f]
    BY <1>0 DEF ScanIsTrue
  <2>2. \A f \in Files : content[f] \in Nat
    BY <1>b
  <2>. QED
    BY <2>1, <2>2, <1>0
<1>f. ReadAs(current', truth')
  <2>1. \A f \in Files \ (Changed \cup blind) :
           current'[1][f] # 0 => current'[1][f] = truth'[f]
    BY <1>0, <1>c, <1>e DEF ScanIsTrue
  <2>2. \A f \in Changed : current'[2][f] # 0 /\ (f \in large => f \notin blind) =>
            current'[2][f] = truth'[f]
    BY <1>b, <1>c, <1>e
  <2>. QED
    BY <2>1, <2>2 DEF ReadAs
<1>g. ScanIsTrue' /\ FitIsRead' /\ RunIsBetween' /\ NotYetRead'
  <2>1. scan' \in {"run", "done"}
    BY DEF ScanBefore
  <2>2. ReadAs(current, truth)'
    BY <1>a, <1>f DEF ReadAs
  <2>. QED
    BY <2>1, <2>2, <1>a, <1>c, <1>e, ZeroFact
       DEF ScanIsTrue, FitIsRead, RunIsBetween, NotYetRead
<1>h. StampTells' /\ PassesAreTrue'
  BY <1>0, <1>a DEF StampTells, PassesAreTrue, ReadAs
<1>1. CASE /\ scan' = "done" /\ status' = "passed"
           /\ earned' \in {p.on : p \in Known(current')}
  <2>1. PICK p \in passes : p.id = current' /\ earned' = p.on
    BY <1>1 DEF Known
  <2>2. ReadAs(current', earned') /\ earned' \in [Files -> 0..MaxContent]
    BY <2>1, <1>b DEF PassesAreTrue
  <2>3. PassIsCurrent'
    <3>1. SUFFICES ASSUME NEW f \in Files, Vouched(f)' \/ (stable' /\ f \in Changed)
                   PROVE  earned'[f] = truth'[f]
      BY DEF PassIsCurrent
    <3>2. CASE f \in Changed
      <4>1. current'[2][f] # 0 /\ (f \in large => f \notin blind)
        BY <3>1, <3>2, <1>a, <1>c DEF Vouched
      <4>. QED
        BY <4>1, <3>2, <2>2, <1>f DEF ReadAs
    <3>3. CASE f \notin Changed
      BY <3>1, <3>3, <2>2, <1>a, <1>f DEF ReadAs, Vouched
    <3>. QED
      BY <3>2, <3>3
  <2>4. VerificationTypeOK'
    BY <1>0, <1>1, <1>a, <1>c, <1>d, <2>2 DEF VerificationTypeOK, Statuses
  <2>. QED
    BY <2>3, <2>4, <1>c, <1>g, <1>h
<1>2. CASE /\ earned' = earned
           /\ \/ scan' = "run" /\ status' = status
              \/ scan' = "done" /\ status' = "cancelled"
  <2>1. VerificationTypeOK'
    BY <1>0, <1>2, <1>a, <1>c, <1>d DEF VerificationTypeOK, Statuses
  <2>2. PassIsCurrent'
    BY <1>2 DEF PassIsCurrent
  <2>. QED
    BY <2>1, <2>2, <1>c, <1>g, <1>h
<1>3. \/ /\ scan' = "done" /\ status' = "passed"
         /\ earned' \in {p.on : p \in Known(current')}
      \/ /\ earned' = earned
         /\ \/ scan' = "run" /\ status' = status
            \/ scan' = "done" /\ status' = "cancelled"
  BY DEF ScanBefore
<1>. QED
  BY <1>1, <1>2, <1>3

\* The commands run on what is there now.
LEMMA RunCommandsKeeps ==
    ASSUME VerificationInv, RunCommands
    PROVE  VerificationInv'
<1>. USE DEF VerificationInv
<1>0. /\ scan = "run" /\ status' \in Statuses /\ scan' \in {"after", "done"}
      /\ scan' = "after" => scanned' = 1 /\ earned' = content
      /\ scan' = "done" => UNCHANGED <<scanned, earned>> /\ status' # "passed"
      /\ UNCHANGED <<disk, digests, parts, stable, current, allowed, passes, truth, calls>>
  BY DEF RunCommands
<1>a. UNCHANGED <<unread, large, content, stamp, blind>>
  BY <1>0 DEF disk
<1>p. scan' = "after" => \A f \in Files : parts[f] = 0
  BY <1>0 DEF NotYetRead
<1>1. VerificationTypeOK'
  <2>1. scanned' \in 1..(Cardinality(Files) + 1)
    BY <1>0, WalkFact DEF VerificationTypeOK
  <2>2. {content, stamp, truth, earned, parts}' \subseteq [Files -> 0..MaxContent]
    BY <1>0, <1>a DEF VerificationTypeOK
  <2>. QED
    BY <2>1, <2>2, <1>0, <1>a DEF VerificationTypeOK
<1>2. StampTells' /\ MemoIsRight' /\ PassesAreTrue' /\ FitIsRead'
  BY <1>0, <1>a DEF StampTells, MemoIsRight, PassesAreTrue, ReadAs, FitIsRead
<1>3. ScanIsTrue'
  BY <1>0, <1>a DEF ScanIsTrue, ReadAs
<1>4. NotYetRead'
  BY <1>0, <1>p DEF NotYetRead
<1>5. RunIsBetween'
  <2>1. \A f \in Files : truth[f] <= content[f] /\ content[f] \in Nat
    BY <1>0 DEF ScanIsTrue, VerificationTypeOK
  <2>. QED
    BY <2>1, <1>0, <1>a, <1>p DEF RunIsBetween
<1>6. PassIsCurrent'
  BY <1>0 DEF PassIsCurrent
<1>. QED
  BY <1>1, <1>2, <1>3, <1>4, <1>5, <1>6

\* The second scan ends: if it says the same as the first, the commands ran
\* on what this call had read.
LEMMA ScanAfterKeeps ==
    ASSUME VerificationInv, ScanAfter
    PROVE  VerificationInv'
<1>. USE DEF VerificationInv
<1>0. /\ scan = "after" /\ scanned \notin Files /\ scan' = "done"
      /\ passes' = IF status' = "passed" /\ stable
                   THEN passes \cup {[id |-> current, allowed |-> allowed, on |-> earned]}
                   ELSE passes
      /\ UNCHANGED <<disk, scanned, current, allowed, earned, truth, calls>>
  BY DEF ScanAfter
<1>l. PICK lost \in SUBSET Changed :
         /\ EndScan(lost)
         /\ status' \in {IF Identity(lost) = current THEN "passed" ELSE "failed", "cancelled"}
  BY DEF ScanAfter
<1>s. /\ status' \in {"passed", "failed", "cancelled"}
      /\ status' = "passed" => Identity(lost) = current
  BY <1>l
<1>a. UNCHANGED <<unread, large, content, stamp, blind>>
  BY <1>0 DEF disk
<1>b. /\ truth \in [Files -> 0..MaxContent] /\ content \in [Files -> 0..MaxContent]
      /\ earned \in [Files -> 0..MaxContent] /\ Changed \subseteq Files
      /\ current \in Scans /\ allowed \in BOOLEAN
  BY FilesAssumption DEF VerificationTypeOK
<1>c. /\ Identity(lost)[1] = parts
      /\ \A f \in Changed :
            Identity(lost)[2][f] # 0 /\ (f \in large => f \notin blind) =>
                Identity(lost)[2][f] = content[f]
      /\ stable' = stable /\ stable' \in BOOLEAN /\ parts' = Unseen
      /\ digests' \in [Files -> [stamp : 0..MaxContent, digest : 0..MaxContent]]
      /\ MemoIsRight'
  BY <1>0, <1>l, IdentityFact
<1>d. ASSUME status' = "passed", NEW f \in Files, Vouched(f) \/ (stable /\ f \in Changed)
      PROVE  earned[f] = truth[f]
  <2>1. /\ truth[f] <= earned[f] /\ earned[f] <= content[f]
        /\ truth[f] \in Nat /\ earned[f] \in Nat /\ content[f] \in Nat
    BY <1>0, <1>b DEF RunIsBetween
  <2>2. Identity(lost) = current /\ ReadAs(current, truth)
    BY <1>0, <1>d, <1>s DEF ScanIsTrue
  <2>3. CASE f \in Changed
    <3>1. current[2][f] # 0 /\ (f \in large => f \notin blind)
      BY <1>0, <1>d, <2>3 DEF FitIsRead, Vouched
    <3>2. truth[f] = content[f]
      BY <2>2, <2>3, <3>1, <1>c DEF ReadAs
    <3>. QED
      BY <3>2, <2>1
  <2>4. CASE f \notin Changed
    <3>1. f \notin blind /\ current[1][f] # 0
      BY <1>d, <2>4 DEF Vouched
    <3>2. current[1][f] = truth[f] /\ parts[f] = current[1][f]
      BY <3>1, <2>2, <2>4, <1>c DEF ReadAs
    <3>3. earned[f] <= parts[f]
      BY <3>1, <3>2, <1>0 DEF RunIsBetween
    <3>. QED
      BY <3>2, <3>3, <2>1
  <2>. QED
    BY <2>3, <2>4
<1>1. VerificationTypeOK'
  <2>1. passes' \subseteq [id : Scans, allowed : BOOLEAN, on : [Files -> 0..MaxContent]]
    BY <1>0, <1>b DEF VerificationTypeOK
  <2>. QED
    BY <2>1, <1>0, <1>a, <1>c, <1>s, ZeroFact DEF VerificationTypeOK, Statuses
<1>2. StampTells'
  BY <1>a DEF StampTells
<1>3. ScanIsTrue' /\ FitIsRead' /\ NotYetRead' /\ RunIsBetween'
  BY <1>0, <1>a, <1>c, ZeroFact
     DEF ScanIsTrue, FitIsRead, ReadAs, NotYetRead, RunIsBetween
<1>4. PassesAreTrue'
  <2>1. SUFFICES ASSUME NEW p \in passes' PROVE ReadAs(p.id, p.on)
    BY <1>a DEF PassesAreTrue, ReadAs
  <2>2. CASE p \in passes
    BY <2>2 DEF PassesAreTrue
  <2>3. CASE p \notin passes
    <3>1. status' = "passed" /\ p.id = current /\ p.on = earned
      BY <2>1, <2>3, <1>0
    <3>2. ReadAs(current, truth)
      BY <1>0 DEF ScanIsTrue
    <3>3. ReadAs(current, earned)
      BY <3>1, <3>2, <1>b, <1>d DEF ReadAs, Vouched
    <3>. QED
      BY <3>1, <3>3
  <2>. QED
    BY <2>2, <2>3
<1>5. PassIsCurrent'
  BY <1>0, <1>a, <1>c, <1>d DEF PassIsCurrent, Vouched
<1>. QED
  BY <1>1, <1>2, <1>3, <1>4, <1>5, <1>c

\* An edit makes a newer content, under a new signature or a blind one.
LEMMA EditInputKeeps ==
    ASSUME VerificationInv, NEW e \in Files, EditInput(e)
    PROVE  VerificationInv'
<1>. USE DEF VerificationInv
<1>0. /\ content[e] < MaxContent /\ content' = [content EXCEPT ![e] = @ + 1]
      /\ \/ stamp' = [stamp EXCEPT ![e] = content'[e]] /\ blind' = blind
         \/ stamp' = stamp /\ blind' = blind \cup {e}
      /\ UNCHANGED <<unread, large, digests, scan, scanned, parts, stable, current,
                     allowed, passes, status, earned, truth, calls>>
  BY DEF EditInput
<1>b. /\ content \in [Files -> 0..MaxContent] /\ stamp \in [Files -> 0..MaxContent]
      /\ truth \in [Files -> 0..MaxContent] /\ earned \in [Files -> 0..MaxContent]
      /\ MaxContent \in Nat
  BY FilesAssumption DEF VerificationTypeOK
<1>c. /\ content' \in [Files -> 0..MaxContent] /\ stamp' \in [Files -> 0..MaxContent]
      /\ blind \subseteq blind' /\ blind' \subseteq blind \cup {e}
      /\ \A f \in Files : content[f] <= content'[f]
  <2>1. content[e] + 1 \in 0..MaxContent /\ content'[e] = content[e] + 1
    BY <1>0, <1>b
  <2>2. content' \in [Files -> 0..MaxContent] /\ stamp' \in [Files -> 0..MaxContent]
    BY <2>1, <1>0, <1>b
  <2>3. \A f \in Files : content[f] <= content'[f]
    BY <1>0, <1>b
  <2>. QED
    BY <2>2, <2>3, <1>0
<1>1. VerificationTypeOK'
  BY <1>0, <1>c DEF VerificationTypeOK
<1>2. StampTells'
  <2>1. SUFFICES ASSUME NEW f \in Files
                 PROVE  /\ 0 < stamp'[f] /\ stamp'[f] <= content'[f]
                        /\ f \notin blind' => stamp'[f] = content'[f]
    BY DEF StampTells
  <2>2. /\ 0 < stamp[f] /\ stamp[f] <= content[f]
        /\ f \notin blind => stamp[f] = content[f]
        /\ stamp[f] \in Nat /\ content[f] \in Nat
    BY <1>b DEF StampTells
  <2>3. CASE f = e
    <3>1. content'[f] = content[f] + 1
      BY <2>3, <1>0, <1>b
    <3>2. CASE stamp' = [stamp EXCEPT ![e] = content'[e]]
      <4>1. stamp'[f] = content'[f]
        BY <2>3, <3>2, <1>b
      <4>. QED
        BY <4>1, <3>1, <2>2
    <3>3. CASE stamp' = stamp /\ blind' = blind \cup {e}
      BY <2>2, <2>3, <3>1, <3>3
    <3>. QED
      BY <3>2, <3>3, <1>0
  <2>4. CASE f # e
    <3>1. stamp'[f] = stamp[f] /\ content'[f] = content[f]
      BY <2>4, <1>0, <1>b
    <3>. QED
      BY <3>1, <2>2, <1>c
  <2>. QED
    BY <2>3, <2>4
<1>3. MemoIsRight'
  BY <1>0, <1>c DEF MemoIsRight
<1>5. ScanIsTrue'
  <2>2. ASSUME scan \in {"before", "run", "after"}, NEW f \in Files
        PROVE  truth[f] <= content'[f]
    <3>1. truth[f] <= content[f]
      BY <2>2 DEF ScanIsTrue
    <3>. QED
      BY <3>1, <1>b, <1>c
  <2>3. ReadAs(current, truth) => ReadAs(current, truth)'
    BY <1>0, <1>c DEF ReadAs
  <2>. QED
    BY <2>2, <2>3, <1>0, <1>c DEF ScanIsTrue
<1>6. NotYetRead' /\ FitIsRead'
  BY <1>0 DEF NotYetRead, FitIsRead
<1>7. RunIsBetween'
  <2>1. ASSUME scan = "after", NEW f \in Files
        PROVE  truth[f] <= earned[f] /\ earned[f] <= content'[f]
    <3>1. truth[f] <= earned[f] /\ earned[f] <= content[f]
      BY <2>1 DEF RunIsBetween
    <3>. QED
      BY <3>1, <1>b, <1>c
  <2>. QED
    BY <2>1, <1>0, <1>c DEF RunIsBetween
<1>8. PassesAreTrue'
  BY <1>0, <1>c DEF PassesAreTrue, ReadAs
<1>9. PassIsCurrent'
  BY <1>0, <1>c DEF PassIsCurrent, Vouched
<1>. QED
  BY <1>1, <1>2, <1>3, <1>5, <1>6, <1>7, <1>8, <1>9

\* So every step keeps the invariant.
LEMMA VerificationStep ==
    VerificationInv /\ [VerificationNext]_verificationVars => VerificationInv'
<1>. SUFFICES ASSUME VerificationInv, [VerificationNext]_verificationVars
              PROVE  VerificationInv'
  OBVIOUS
<1>1. CASE UNCHANGED verificationVars
  BY <1>1 DEF verificationVars, disk, VerificationInv, VerificationTypeOK, StampTells,
              MemoIsRight, ScanIsTrue, FitIsRead, NotYetRead, RunIsBetween, PassesAreTrue,
              ReadAs, PassIsCurrent, Vouched
<1>2. ASSUME NEW scripts \in BOOLEAN, Verify(scripts) PROVE VerificationInv'
  BY <1>2, VerifyKeeps
<1>3. CASE ScanFile
  BY <1>3, ScanFileKeeps
<1>4. CASE ScanBefore
  BY <1>4, ScanBeforeKeeps
<1>5. CASE RunCommands
  BY <1>5, RunCommandsKeeps
<1>6. CASE ScanAfter
  BY <1>6, ScanAfterKeeps
<1>7. ASSUME NEW f \in Files, EditInput(f) PROVE VerificationInv'
  BY <1>7, EditInputKeeps
<1>8. CASE StopWalk
  BY <1>8, StopWalkKeeps
<1>. QED
  BY <1>1, <1>2, <1>3, <1>4, <1>5, <1>6, <1>7, <1>8 DEF VerificationNext

\* The invariant of the verifier: what its scans, its memo of digests and its
\* remembered passes say of the files, whatever is edited meanwhile.
THEOREM VerificationInvariant == VerificationSpec => []VerificationInv
<1>. QED
  BY VerificationStart, VerificationStep, PTL DEF VerificationSpec

\* A pass, run or replayed from the remembered ones, is of the inputs this
\* very call of Verifier.run has counted by something that tells; one that is
\* remembered or replayed is of the changed files in any case.
THEOREM PassIsCurrentHolds == VerificationSpec => []PassIsCurrent
<1>1. VerificationInv => PassIsCurrent
  BY DEF VerificationInv
<1>. QED
  BY <1>1, VerificationInvariant, PTL

-----------------------------------------------------------------------------
(* The review of the evidence *)

\* A set of places that is not empty has a last one: among the sets of those
\* above each of them one is minimal.
LEMMA LastExists ==
    ASSUME NEW n \in Nat, NEW S \in SUBSET (1..n), S # {}
    PROVE  \E m \in S : \A j \in S : j <= m
<1>. DEFINE Above(i) == {j \in S : j > i}
<1>. DEFINE T == {Above(i) : i \in S}
<1>1. IsFiniteSet(S)
  <2>1. IsFiniteSet(1..n)
    BY FS_Interval
  <2>. QED
    BY <2>1, FS_Subset
<1>2. IsWellFoundedOn(StrictSubsetOrdering(S), FiniteSubsetsOf(S))
  BY FS_StrictSubsetOrderingWellFounded, Zenon
<1>3. T \subseteq FiniteSubsetsOf(S) /\ T # {}
  <2>1. \A i \in S : Above(i) \in SUBSET S
    OBVIOUS
  <2>2. FiniteSubsetsOf(S) = SUBSET S
    BY <1>1, FS_FiniteSubsetsOfFinite, Zenon
  <2>3. T \subseteq SUBSET S
    BY <2>1, Zenon
  <2>4. T # {}
    BY Zenon
  <2>. QED
    BY <2>2, <2>3, <2>4, Zenon
<1>4. PICK x \in T : \A y \in T : ~(<<y, x>> \in StrictSubsetOrdering(S))
  <2>. HIDE DEF T
  <2>. QED
    BY <1>2, <1>3, WFMin, Zenon
<1>5. PICK i \in S : x = Above(i)
  BY <1>4
<1>6. ASSUME NEW j \in S, j > i PROVE FALSE
  <2>1. Above(j) \subseteq Above(i) /\ j \in Above(i) /\ j \notin Above(j)
    <3>1. \A k \in S : k \in Int
      OBVIOUS
    <3>2. \A k \in S : k > j => k > i
      BY ONLY <1>6, <3>1, i \in S, j \in S
    <3>3. ~(j > j)
      BY <3>1
    <3>. QED
      BY <1>6, <3>2, <3>3, Zenon
  <2>2. <<Above(j), Above(i)>> \in (SUBSET S) \X (SUBSET S)
    OBVIOUS
  <2>3. <<Above(j), Above(i)>> \in StrictSubsetOrdering(S)
    <3>. HIDE DEF Above
    <3>. QED
      BY <2>1, <2>2 DEF StrictSubsetOrdering
  <2>. QED
    BY <2>3, <1>4, <1>5
<1>. QED
  BY <1>6

\* The newest of some places.
LEMMA NewestFact ==
    ASSUME NEW n \in Nat, NEW S \in SUBSET (1..n), S # {}
    PROVE  Newest(S) \in S /\ Newest(S) \in 1..n /\ \A j \in S : j <= Newest(S)
BY LastExists DEF Newest

\* The invariant holds when the task starts.
LEMMA GateStart == GateInit => GateInv
<1>. SUFFICES ASSUME GateInit PROVE GateInv
  OBVIOUS
<1>1. DOMAIN trail = {} /\ Len(trail) = 0 /\ trail \in Seq(TrailEvents)
  BY DEF GateInit
<1>2. GateTypeOK
  <2>1. {talk, mayWrite, wroteCode} \subseteq BOOLEAN
    BY DEF GateInit
  <2>2. Len(trail) <= MaxTrail
    BY <1>1, TrailAssumption
  <2>. QED
    BY <1>1, <2>1, <2>2 DEF GateInit, GateTypeOK
<1>3. \A c \in Checks : ~LastFailed(c)
  BY <1>1 DEF LastFailed, RunsOf
<1>4. TrailIsTold
  BY <1>1, <1>3 DEF GateInit, TrailIsTold, Of
<1>. QED
  BY <1>2, <1>4 DEF GateInit, GateInv, CertifiedIsProven

\* What a new event changes about the places of a kind and of a check, and
\* about the last outcome of a check.
LEMMA TrailGrows ==
    ASSUME GateTypeOK, NEW e \in TrailEvents, trail' = Append(trail, e)
    PROVE  /\ Len(trail) \in Nat /\ trail' \in Seq(TrailEvents)
           /\ Len(trail') = Len(trail) + 1 /\ DOMAIN trail' = 1..Len(trail) + 1
           /\ DOMAIN trail = 1..Len(trail)
           /\ \A i \in DOMAIN trail : trail'[i] = trail[i]
           /\ trail'[Len(trail) + 1] = e
BY DEF GateTypeOK

LEMMA KindsGrow ==
    ASSUME GateTypeOK, NEW e \in TrailEvents, trail' = Append(trail, e), NEW K
    PROVE  /\ e.what \in K => Of(K)' = Of(K) \cup {Len(trail) + 1}
           /\ e.what \notin K => Of(K)' = Of(K)
           /\ Of(K) \subseteq 1..Len(trail)
<1>1. /\ Len(trail) \in Nat /\ DOMAIN trail' = DOMAIN trail \cup {Len(trail) + 1}
      /\ DOMAIN trail = 1..Len(trail)
      /\ \A i \in DOMAIN trail : trail'[i] = trail[i]
      /\ trail'[Len(trail) + 1] = e
  BY TrailGrows
<1>. QED
  BY <1>1, Zenon DEF Of

LEMMA OutcomeIsLast ==
    ASSUME GateTypeOK, NEW e \in TrailEvents, trail' = Append(trail, e), NEW c \in Checks
    PROVE  /\ e.check = c => (LastFailed(c)' <=> ~e.good)
           /\ e.check # c => (LastFailed(c)' <=> LastFailed(c))
<1>. DEFINE n == Len(trail)
<1>1. /\ n \in Nat /\ n + 1 \in Nat /\ DOMAIN trail' = DOMAIN trail \cup {n + 1}
      /\ DOMAIN trail = 1..n /\ DOMAIN trail' = 1..n + 1
      /\ \A i \in DOMAIN trail : trail'[i] = trail[i]
      /\ trail'[n + 1] = e
  BY TrailGrows
<1>2. RunsOf(c) \subseteq 1..n /\ RunsOf(c)' \subseteq 1..n + 1
  BY <1>1 DEF RunsOf
<1>3. CASE e.check = c
  <2>1. n + 1 \in RunsOf(c)'
    BY <1>1, <1>3 DEF RunsOf
  <2>2. Newest(RunsOf(c)') = n + 1
    <3>. DEFINE S == RunsOf(c)'
    <3>1. S \in SUBSET (1..n + 1) /\ S # {} /\ n + 1 \in S
      BY <1>2, <2>1
    <3>. HIDE DEF S
    <3>2. Newest(S) \in 1..n + 1 /\ n + 1 <= Newest(S)
      BY <1>1, <3>1, NewestFact
    <3>3. Newest(S) = n + 1
      BY <1>1, <3>2
    <3>. QED
      BY <3>3 DEF S
  <2>. QED
    BY <1>1, <1>3, <2>1, <2>2 DEF LastFailed, Newest
<1>4. CASE e.check # c
  <2>1. RunsOf(c)' = RunsOf(c)
    BY <1>1, <1>4, Zenon DEF RunsOf
  <2>2. RunsOf(c) # {} => Newest(RunsOf(c)) \in DOMAIN trail
    BY <1>1, <1>2, NewestFact
  <2>3. Newest(RunsOf(c))' = Newest(RunsOf(c))
    BY <2>1 DEF Newest
  <2>4. RunsOf(c) # {} => trail'[Newest(RunsOf(c))] = trail[Newest(RunsOf(c))]
    BY <1>1, <2>2
  <2>. QED
    BY <1>4, <2>1, <2>3, <2>4 DEF LastFailed
<1>. QED
  BY <1>3, <1>4

\* Work leaves a trail that is told.
LEMMA WorkIsTold ==
    ASSUME GateInv, NEW e \in TrailEvents, Work(e)
    PROVE  GateInv'
<1>. DEFINE n == Len(trail)
<1>1. /\ trail' = Append(trail, e) /\ ruling' = "none" /\ n < MaxTrail
      /\ talk' = talk /\ mayWrite' = mayWrite
      /\ GateTypeOK /\ TrailIsTold
  BY DEF GateInv, Work
<1>2. /\ n \in Nat /\ trail' \in Seq(TrailEvents) /\ Len(trail') = n + 1
      /\ DOMAIN trail = 1..n /\ DOMAIN trail' = 1..n + 1
      /\ \A i \in 1..n : trail'[i] = trail[i]
      /\ trail'[n + 1] = e
  BY <1>1, TrailGrows
<1>3. e.what \in {"run", "verify"} => e.check \in Checks /\ e.good \in BOOLEAN
  BY DEF TrailEvents, Plain
<1>4. e.what \notin {"run", "verify"} => e.check \notin Checks
  BY TrailAssumption DEF TrailEvents, Plain
<1>5. GateTypeOK'
  <2>1. Len(trail') <= MaxTrail
    BY <1>1, <1>2, TrailAssumption
  <2>2. red' \subseteq Checks
    BY <1>1, <1>3 DEF Work, GateTypeOK
  <2>3. wroteCode' \in BOOLEAN
    BY DEF Work
  <2>4. {talk', mayWrite', wroteCode'} \subseteq BOOLEAN
    BY <1>1, <2>3 DEF GateTypeOK
  <2>5. since' \in {"unwritten", "none", "look", "check"}
    BY <1>1 DEF Work, GateTypeOK
  <2>. QED
    BY <1>1, <1>2, <2>1, <2>2, <2>4, <2>5 DEF GateTypeOK
<1>6. ASSUME NEW c \in Checks PROVE c \in red' <=> LastFailed(c)'
  <2>1. /\ e.check = c => (LastFailed(c)' <=> ~e.good)
        /\ e.check # c => (LastFailed(c)' <=> LastFailed(c))
    BY <1>1, OutcomeIsLast
  <2>2. c \in red <=> LastFailed(c)
    BY <1>1 DEF TrailIsTold
  <2>. QED
    BY <1>3, <1>4, <2>1, <2>2, Zenon DEF Work
<1>7. wroteCode' <=> Of({"code"})' # {}
  <2>1. /\ e.what \in {"code"} => Of({"code"})' = Of({"code"}) \cup {n + 1}
        /\ e.what \notin {"code"} => Of({"code"})' = Of({"code"})
    BY <1>1, KindsGrow
  <2>. QED
    BY <1>1, <2>1 DEF TrailIsTold, Work
<1>8. /\ e.what \in Writings => Of(Writings)' = Of(Writings) \cup {n + 1}
      /\ e.what \notin Writings => Of(Writings)' = Of(Writings)
      /\ Of(Writings) \subseteq 1..n
  BY <1>1, KindsGrow
<1>9. since' = "unwritten" <=> Of(Writings)' = {}
  BY <1>1, <1>8 DEF TrailIsTold, Work, Writings, GateTypeOK
<1>10. ASSUME NEW i \in 1..n + 1, Of(Writings)' # {}, \A w \in Of(Writings)' : w < i
       PROVE  /\ trail'[i].good /\ trail'[i].what \in {"run", "verify"} => since' = "check"
              /\ trail'[i].what = "look" => since' \in {"look", "check"}
  <2>1. e.what \notin Writings
    <3>1. ~(n + 1 < i)
      BY <1>2, <1>10
    <3>. QED
      BY <1>8, <1>10, <3>1
  <2>2. Of(Writings) # {} /\ \A w \in Of(Writings) : w < i
    BY <1>8, <1>10, <2>1
  <2>3. since \in {"none", "look", "check"}
    BY <1>1, <2>2 DEF TrailIsTold, GateTypeOK
  <2>4. CASE i \in 1..n
    <3>1. /\ trail[i].good /\ trail[i].what \in {"run", "verify"} => since = "check"
          /\ trail[i].what = "look" => since \in {"look", "check"}
      BY <1>1, <1>2, <2>2, <2>4 DEF TrailIsTold
    <3>2. /\ since = "check" => since' = "check"
          /\ since = "look" => since' \in {"look", "check"}
      BY <2>1 DEF Work
    <3>. QED
      BY <1>2, <2>4, <3>1, <3>2
  <2>5. CASE i = n + 1
    <3>1. trail'[i] = e
      BY <1>2, <2>5
    <3>2. /\ e.good /\ e.what \in {"run", "verify"} => since' = "check"
          /\ e.what = "look" => since' \in {"look", "check"}
      BY <2>1, <2>3 DEF Work
    <3>. QED
      BY <3>1, <3>2
  <2>. QED
    BY <1>2, <2>4, <2>5
<1>11. TrailIsTold'
  BY <1>2, <1>6, <1>7, <1>9, <1>10 DEF TrailIsTold
<1>. QED
  BY <1>1, <1>5, <1>11 DEF GateInv, CertifiedIsProven

\* A ruling that certifies is held against the whole trail.
LEMMA JudgeIsTold ==
    ASSUME GateInv, Judge
    PROVE  GateInv'
<1>1. /\ ruling = "none"
      /\ trail' = trail /\ talk' = talk /\ mayWrite' = mayWrite
      /\ red' = red /\ wroteCode' = wroteCode /\ since' = since
      /\ GateTypeOK /\ TrailIsTold
  BY DEF GateInv, Judge
<1>2. PICK says \in Says, cite \in 0..(TalkItem + 1) :
        ruling' = IF Understood(says) = "complete" THEN Enforce(cite) ELSE Understood(says)
  BY DEF Judge
<1>3. Enforce(cite) \in {"complete", "continue", "unknown"}
  BY DEF Enforce
<1>4. GateTypeOK'
  BY <1>1, <1>2, <1>3 DEF GateTypeOK, Understood, Says
<1>5. TrailIsTold'
  BY <1>1, Zenon DEF TrailIsTold, LastFailed, RunsOf, Of
<1>6. ASSUME Enforce(cite) = "complete"
      PROVE  /\ red = {}
             /\ \/ since \in {"unwritten", "check"}
                \/ since = "look" /\ (~wroteCode \/ NothingToRun)
  <2>1. red = {}
    BY <1>1, <1>6, Zenon DEF Enforce, TrailIsTold, GateTypeOK
  <2>2. LastWrite = 0 \/ Observed
    BY <1>6 DEF Enforce
  <2>3. Len(trail) \in Nat /\ Of(Writings) \in SUBSET (1..Len(trail))
        /\ DOMAIN trail = 1..Len(trail)
    BY <1>1 DEF GateTypeOK, Of
  <2>4. CASE Of(Writings) = {}
    BY <1>1, <2>1, <2>4 DEF TrailIsTold
  <2>5. CASE Of(Writings) # {}
    <3>1. /\ LastWrite \in 1..Len(trail)
          /\ \A w \in Of(Writings) : w <= LastWrite
      BY <2>3, <2>5, NewestFact DEF LastWrite
    <3>2. PICK i \in (LastWrite + 1)..Len(trail) :
            \/ trail[i].good /\ (IsCheck(trail[i]) \/ trail[i].what = "verify")
            \/ LookSuffices /\ trail[i].what = "look"
      BY <2>2, <3>1 DEF Observed
    <3>3. i \in DOMAIN trail /\ \A w \in Of(Writings) : w < i
      BY <2>3, <3>1
    <3>4. /\ trail[i].good /\ trail[i].what \in {"run", "verify"} => since = "check"
          /\ trail[i].what = "look" => since \in {"look", "check"}
      BY <1>1, <2>5, <3>3 DEF TrailIsTold
    <3>5. LookSuffices => ~wroteCode \/ NothingToRun
      BY <1>1 DEF LookSuffices, TrailIsTold
    <3>. QED
      BY <2>1, <3>2, <3>4, <3>5 DEF IsCheck
  <2>. QED
    BY <2>4, <2>5
<1>7. NothingToRun' = NothingToRun
  BY <1>1 DEF NothingToRun, Of, Newest
<1>8. CertifiedIsProven'
  BY <1>1, <1>2, <1>6, <1>7 DEF CertifiedIsProven, Understood
<1>. QED
  BY <1>4, <1>5, <1>8 DEF GateInv

LEMMA GateStep == GateInv /\ [GateNext]_gateVars => GateInv'
<1>. SUFFICES ASSUME GateInv, [GateNext]_gateVars PROVE GateInv'
  OBVIOUS
<1>1. CASE Judge
  BY <1>1, JudgeIsTold
<1>2. CASE \E e \in TrailEvents : Work(e)
  BY <1>2, WorkIsTold
<1>3. CASE UNCHANGED gateVars
  <2>1. /\ trail' = trail /\ talk' = talk /\ mayWrite' = mayWrite /\ ruling' = ruling
        /\ red' = red /\ wroteCode' = wroteCode /\ since' = since
    BY <1>3 DEF gateVars
  <2>2. GateTypeOK'
    BY <2>1 DEF GateInv, GateTypeOK
  <2>3. TrailIsTold'
    BY <2>1, Zenon DEF GateInv, TrailIsTold, LastFailed, RunsOf, Of
  <2>4. CertifiedIsProven'
    BY <2>1, Zenon DEF GateInv, CertifiedIsProven, NothingToRun, Of
  <2>. QED
    BY <2>2, <2>3, <2>4 DEF GateInv
<1>. QED
  BY <1>1, <1>2, <1>3 DEF GateNext

\* What the reviewer derives from the trail is what happened, for any checks
\* and any length of the trail (is_verification_evidence and the newest of
\* each kind in _enforce_completion_evidence).
THEOREM EvidenceInvariant == GateSpec => []GateInv
BY GateStart, GateStep, PTL DEF GateSpec

\* No packet, citation or answer of the reviewer certifies a task whose last
\* check failed, or whose last write nobody looked at since.
THEOREM CertificatesAreProven == GateSpec => []CertifiedIsProven
<1>1. GateInv => CertifiedIsProven
  BY DEF GateInv
<1>. QED
  BY <1>1, EvidenceInvariant, PTL

-----------------------------------------------------------------------------
(* The locks of the sessions *)

\* Requests that have been handed a lock.
Asked == {r \in Requests : lockPc[r] # "new"}

\* A request asks once, so there are never more of them than requests.
LEMMA AskedBound ==
    IsFiniteSet(Asked) /\ Cardinality(Asked) \in Nat /\ Cardinality(Requests) \in Nat
        /\ Cardinality(Asked) <= Cardinality(Requests)
BY LocksAssumption, FS_Subset, FS_CardinalityType DEF Asked

\* One more has asked after a HandOut.
LEMMA AskedGrows ==
    ASSUME LocksTypeOK, NEW r \in Requests, HandOut(r)
    PROVE  Cardinality(Asked') = Cardinality(Asked) + 1
<1>1. Asked' = Asked \cup {r} /\ r \notin Asked
  BY DEF HandOut, Reaches, Asked, LocksTypeOK
<1>. QED
  BY <1>1, AskedBound, FS_AddElement

\* What HandOut does, with the eviction reduced to what matters: the evicted
\* entries are unlocked, and go from the table and from the marks "used".
LEMMA HandOutFact ==
    ASSUME LocksTypeOK, NEW r \in Requests, HandOut(r)
    PROVE  LET k == key[r] IN
           /\ lockPc[r] = "new" /\ lockPc' = [lockPc EXCEPT ![r] = "waiting"]
           /\ inflight' = inflight \cup {k} /\ UNCHANGED <<held, key>>
           /\ lock' = [lock EXCEPT ![r] = table'[k]] /\ k \in DOMAIN table'
           /\ made' = IF k \in DOMAIN table THEN made ELSE made + 1
           /\ table'[k] = IF k \in DOMAIN table THEN table[k] ELSE made + 1
           /\ DOMAIN table' \subseteq DOMAIN table \cup {k}
           /\ \A c \in DOMAIN table' : c # k => table'[c] = table[c]
           /\ used' \subseteq used /\ used \cap DOMAIN table' \subseteq used'
<1> DEFINE k == key[r]
           t == [c \in DOMAIN table \cup {k} |->
                    IF c = k /\ k \notin DOMAIN table THEN made + 1 ELSE table[c]]
           gone == Victims(t, k)
<1>1. k \notin gone
  BY DEF Victims, Evictable
<1>2. /\ table' = [c \in DOMAIN t \ gone |-> t[c]]
      /\ used' = used \ gone
      /\ lock' = [lock EXCEPT ![r] = t[k]]
      /\ lockPc[r] = "new" /\ lockPc' = [lockPc EXCEPT ![r] = "waiting"]
      /\ inflight' = inflight \cup {k} /\ UNCHANGED <<held, key>>
      /\ made' = IF k \in DOMAIN table THEN made ELSE made + 1
  BY DEF HandOut, Reaches
<1>. HIDE DEF gone
<1>3. DOMAIN table' = (DOMAIN table \cup {k}) \ gone
  BY <1>2
<1>4. \A c \in DOMAIN table' : table'[c] = t[c]
  BY <1>2
<1>5. t[k] = IF k \in DOMAIN table THEN table[k] ELSE made + 1
  OBVIOUS
<1>6. \A c \in DOMAIN table : c # k => t[c] = table[c]
  OBVIOUS
<1>. HIDE DEF t
<1>. QED
  BY <1>1, <1>2, <1>3, <1>4, <1>5, <1>6

-----------------------------------------------------------------------------
\* The invariant holds when nothing has been asked.
LEMMA LocksStart == LocksInit => LocksInv
<1>. SUFFICES ASSUME LocksInit PROVE LocksInv
  OBVIOUS
<1>1. LocksTypeOK
  BY DEF LocksInit, LocksTypeOK, NoEntries, LockPlaces, None
<1>2. OneKey
  BY DEF LocksInit, OneKey, NoEntries
<1>3. Handed
  BY AskedBound DEF LocksInit, Handed, Asked
<1>4. HeldByActive /\ InFlightIsActive /\ UsedOrComing
  BY DEF LocksInit, HeldByActive, InFlightIsActive, UsedOrComing, NoEntries
<1>. QED
  BY <1>1, <1>2, <1>3, <1>4 DEF LocksInv

\* Every step that hands out no lock leaves the locks handed out alone: it
\* moves one request that has asked to another place.
Onward(r) ==
    /\ lockPc[r] # "new"
    /\ \E p \in LockPlaces \ {"new"} : lockPc' = [lockPc EXCEPT ![r] = p]
    /\ UNCHANGED <<table, made, key, lock>>

LEMMA StepsOnward ==
    ASSUME NEW r \in Requests,
           \/ Acquire(r) \/ TimeOut(r) \/ WaitOn(r) \/ GiveBack(r)
           \/ MarkUsed(r) \/ Finish(r)
    PROVE  Onward(r)
BY DEF Onward, LockPlaces, Reaches, Acquire, TimeOut, WaitOn, GiveBack, MarkUsed, Finish

\* So it keeps the bound of the locks made and the key of each lock.
LEMMA OnwardKeeps ==
    ASSUME LocksTypeOK, OneKey, Handed, NEW r \in Requests, Onward(r)
    PROVE  OneKey' /\ Handed'
<1>1. Asked' = Asked
  BY DEF Onward, Asked, LocksTypeOK
<1>2. OneKey'
  BY DEF OneKey, Onward
<1>3. made' <= Cardinality({q \in Requests : lockPc'[q] # "new"})
  BY <1>1 DEF Handed, Onward, Asked
<1>4. \A q \in Requests : lockPc'[q] # "new" => lock'[q] # None
  BY DEF Handed, Onward, LocksTypeOK
<1>. QED
  BY <1>2, <1>3, <1>4 DEF Handed

\* Handing out a lock numbers it below the requests that have asked, ...
LEMMA HandOutNumbers ==
    ASSUME LocksTypeOK, Handed, NEW r \in Requests, HandOut(r)
    PROVE  /\ made' \in 0..Cardinality(Requests)
           /\ made' <= Cardinality(Asked')
           /\ made <= made' /\ lock'[r] \in 1..made'
<1>1. made \in Nat /\ made <= Cardinality(Asked)
  BY AskedBound DEF LocksTypeOK, Handed, Asked, Locks
<1>2. Cardinality(Asked') = Cardinality(Asked) + 1
  BY AskedGrows
<1>3. Cardinality(Asked') <= Cardinality(Requests)
  <2>1. Asked' \subseteq Requests
    BY DEF Asked
  <2>. QED
    BY <2>1, LocksAssumption, FS_Subset
<1>4. made' \in {made, made + 1}
  BY HandOutFact
<1>5. lock'[r] = table'[key[r]]
  BY HandOutFact DEF LocksTypeOK
<1>6. table'[key[r]] \in 1..made'
  BY <1>1, HandOutFact DEF LocksTypeOK
<1>. QED
  BY <1>1, <1>2, <1>3, <1>4, <1>5, <1>6, AskedBound

\* ... keeps the types ...
LEMMA HandOutTypes ==
    ASSUME LocksTypeOK, Handed, NEW r \in Requests, HandOut(r)
    PROVE  LocksTypeOK'
<1>1. key[r] \in Sessions
  BY DEF LocksTypeOK
<1>2. made \in Nat /\ made' \in Nat /\ made <= made' /\ made' \in {0} \cup Locks
  BY HandOutNumbers, AskedBound DEF LocksTypeOK, Locks
<1>3. DOMAIN table' \subseteq Sessions
  BY <1>1, HandOutFact DEF LocksTypeOK
<1>4. \A k \in DOMAIN table' : table'[k] \in 1..made'
  BY <1>2, HandOutFact DEF LocksTypeOK
<1>5. inflight' \subseteq Sessions /\ used' \subseteq Sessions
  BY <1>1, HandOutFact DEF LocksTypeOK
<1>6. held' \subseteq 1..made'
  <2>1. held' = held /\ held \subseteq 1..made
    BY HandOutFact DEF LocksTypeOK
  <2>. QED
    BY <2>1, <1>2
<1>7. lockPc' \in [Requests -> LockPlaces] /\ key' \in [Requests -> Sessions]
  BY HandOutFact DEF LocksTypeOK, LockPlaces
<1>8. lock' \in [Requests -> 0..made']
  <2>1. lock' = [lock EXCEPT ![r] = table'[key[r]]] /\ table'[key[r]] \in 0..made'
    BY <1>2, HandOutNumbers, HandOutFact DEF LocksTypeOK
  <2>2. \A q \in Requests : lock[q] \in 0..made'
    BY <1>2 DEF LocksTypeOK
  <2>. QED
    BY <2>1, <2>2 DEF LocksTypeOK
<1>. QED
  BY <1>2, <1>3, <1>4, <1>5, <1>6, <1>7, <1>8 DEF LocksTypeOK

\* ... and gives the key either its own lock or one nobody has.
LEMMA HandOutKeys ==
    ASSUME LocksTypeOK, OneKey, Handed, NEW r \in Requests, HandOut(r)
    PROVE  OneKey' /\ Handed'
<1> DEFINE k == key[r]
<1>1. made \in Nat /\ k \in DOMAIN table'
  BY HandOutFact, AskedBound DEF LocksTypeOK, Locks
<1>2. \A c \in DOMAIN table' : c # k => c \in DOMAIN table /\ table'[c] = table[c]
  BY HandOutFact
<1>3. \/ k \in DOMAIN table /\ table'[k] = table[k]
      \/ table'[k] = made + 1
  BY HandOutFact
<1>4. \A c \in DOMAIN table : table[c] # made + 1
  BY <1>1 DEF LocksTypeOK
<1>5. \A q \in Requests : lock[q] # made + 1
  BY <1>1 DEF LocksTypeOK
<1>6. lock' = [lock EXCEPT ![r] = table'[k]] /\ key' = key
  BY HandOutFact
<1>7. \A c, d \in DOMAIN table' : table'[c] = table'[d] => c = d
  BY <1>1, <1>2, <1>3, <1>4 DEF OneKey
<1>8. \A c \in DOMAIN table', q \in Requests : table'[c] = lock'[q] => key'[q] = c
  <2>. SUFFICES ASSUME NEW c \in DOMAIN table', NEW q \in Requests,
                       table'[c] = lock'[q]
                PROVE  key[q] = c
    BY <1>6
  <2>1. CASE q = r
    BY <2>1, <1>1, <1>6, <1>7 DEF LocksTypeOK
  <2>2. CASE q # r
    BY <2>2, <1>2, <1>3, <1>5, <1>6 DEF LocksTypeOK, OneKey
  <2>. QED
    BY <2>1, <2>2
<1>9. Handed'
  <2>1. made' <= Cardinality({q \in Requests : lockPc'[q] # "new"})
    BY HandOutNumbers DEF Asked
  <2>2. lock'[r] # None
    BY HandOutNumbers, AskedBound DEF None
  <2>3. \A q \in Requests : lockPc'[q] # "new" => lock'[q] # None
    BY <2>2, <1>6, HandOutFact DEF Handed, LocksTypeOK
  <2>. QED
    BY <2>1, <2>3 DEF Handed
<1>. QED
  BY <1>7, <1>8, <1>9 DEF OneKey

\* A lock that is locked keeps the request that will release it.
LEMMA StepHeld ==
    ASSUME LocksTypeOK, OneKey, HeldByActive, NEW r \in Requests,
           \/ HandOut(r) \/ Acquire(r) \/ TimeOut(r) \/ WaitOn(r)
           \/ GiveBack(r) \/ MarkUsed(r) \/ Finish(r)
    PROVE  HeldByActive'
<1>. SUFFICES ASSUME NEW l \in held'
              PROVE  \E q \in Requests :
                         lock'[q] = l /\ lockPc'[q] \in {"acquired", "running"}
  BY DEF HeldByActive
<1>1. CASE HandOut(r)
  <2>1. PICK q \in Requests : lock[q] = l /\ lockPc[q] \in {"acquired", "running"}
    BY <1>1, HandOutFact DEF HeldByActive
  <2>2. q # r
    BY <1>1, <2>1, HandOutFact
  <2>. QED
    BY <1>1, <2>1, <2>2, HandOutFact DEF LocksTypeOK
<1>2. CASE Acquire(r)
  <2>1. CASE l = lock[r]
    BY <1>2, <2>1 DEF Acquire, Reaches, LocksTypeOK
  <2>2. CASE l # lock[r]
    <3>1. PICK q \in Requests : lock[q] = l /\ lockPc[q] \in {"acquired", "running"}
      BY <1>2, <2>2 DEF Acquire, HeldByActive
    <3>. QED
      BY <1>2, <2>2, <3>1 DEF Acquire, Reaches, LocksTypeOK
  <2>. QED
    BY <2>1, <2>2
<1>3. CASE TimeOut(r) \/ WaitOn(r) \/ GiveBack(r) \/ MarkUsed(r)
  <2>1. PICK q \in Requests : lock[q] = l /\ lockPc[q] \in {"acquired", "running"}
    BY <1>3 DEF TimeOut, WaitOn, GiveBack, MarkUsed, HeldByActive
  <2>. QED
    BY <1>3, <2>1 DEF TimeOut, WaitOn, GiveBack, MarkUsed, Reaches, LocksTypeOK
<1>4. CASE Finish(r)
  <2>1. PICK q \in Requests : lock[q] = l /\ lockPc[q] \in {"acquired", "running"}
    BY <1>4 DEF Finish, HeldByActive
  <2>2. q # r
    BY <1>4, <2>1 DEF Finish
  <2>. QED
    BY <1>4, <2>1, <2>2 DEF Finish, Reaches, LocksTypeOK
<1>. QED
  BY <1>1, <1>2, <1>3, <1>4

\* A key in flight keeps a request that will clear the mark.
LEMMA StepInFlight ==
    ASSUME LocksTypeOK, InFlightIsActive, NEW r \in Requests,
           \/ HandOut(r) \/ Acquire(r) \/ TimeOut(r) \/ WaitOn(r)
           \/ GiveBack(r) \/ MarkUsed(r) \/ Finish(r)
    PROVE  InFlightIsActive'
<1>. SUFFICES ASSUME NEW k \in inflight'
              PROVE  \E q \in Requests :
                         /\ key'[q] = k
                         /\ lockPc'[q] \in {"waiting", "timedout", "acquired"}
  BY DEF InFlightIsActive
<1>1. CASE HandOut(r)
  <2>1. CASE k = key[r]
    BY <1>1, <2>1, HandOutFact DEF LocksTypeOK
  <2>2. CASE k # key[r]
    <3>1. PICK q \in Requests :
              key[q] = k /\ lockPc[q] \in {"waiting", "timedout", "acquired"}
      BY <1>1, <2>2, HandOutFact DEF InFlightIsActive
    <3>. QED
      BY <1>1, <2>2, <3>1, HandOutFact DEF LocksTypeOK
  <2>. QED
    BY <2>1, <2>2
<1>2. CASE Acquire(r) \/ TimeOut(r) \/ WaitOn(r)
  <2>1. PICK q \in Requests :
            key[q] = k /\ lockPc[q] \in {"waiting", "timedout", "acquired"}
    BY <1>2 DEF Acquire, TimeOut, WaitOn, InFlightIsActive, marks
  <2>. QED
    BY <1>2, <2>1 DEF Acquire, TimeOut, WaitOn, Reaches, LocksTypeOK
<1>3. CASE GiveBack(r) \/ MarkUsed(r)
  <2>1. k \in inflight /\ k # key[r]
    BY <1>3 DEF GiveBack, MarkUsed
  <2>2. PICK q \in Requests :
            key[q] = k /\ lockPc[q] \in {"waiting", "timedout", "acquired"}
    BY <2>1 DEF InFlightIsActive
  <2>. QED
    BY <1>3, <2>1, <2>2 DEF GiveBack, MarkUsed, Reaches, LocksTypeOK
<1>4. CASE Finish(r)
  <2>1. PICK q \in Requests :
            key[q] = k /\ lockPc[q] \in {"waiting", "timedout", "acquired"}
    BY <1>4 DEF Finish, InFlightIsActive, marks
  <2>. QED
    BY <1>4, <2>1 DEF Finish, Reaches, LocksTypeOK
<1>. QED
  BY <1>1, <1>2, <1>3, <1>4

\* An entry is marked as used, or a request is still on its way to mark it.
LEMMA StepComing ==
    ASSUME LocksTypeOK, OneKey, HeldByActive, UsedOrComing, NEW r \in Requests,
           \/ HandOut(r) \/ Acquire(r) \/ TimeOut(r) \/ WaitOn(r)
           \/ GiveBack(r) \/ MarkUsed(r) \/ Finish(r),
           NEW k \in DOMAIN table'
    PROVE  k \in used' \/ \E q \in Requests :
               key'[q] = k /\ lock'[q] = table'[k] /\ lockPc'[q] \in {"waiting", "acquired"}
<1>1. CASE HandOut(r)
  <2>1. CASE k = key[r]
    BY <1>1, <2>1, HandOutFact DEF LocksTypeOK
  <2>2. CASE k # key[r]
    <3>1. k \in DOMAIN table /\ table'[k] = table[k]
      BY <1>1, <2>2, HandOutFact
    <3>2. CASE k \in used
      BY <1>1, <3>2, HandOutFact
    <3>3. CASE k \notin used
      <4>1. PICK q \in Requests :
                key[q] = k /\ lock[q] = table[k] /\ lockPc[q] \in {"waiting", "acquired"}
        BY <3>1, <3>3 DEF UsedOrComing
      <4>2. q # r
        BY <4>1, <1>1, HandOutFact
      <4>. QED
        BY <1>1, <3>1, <4>1, <4>2, HandOutFact DEF LocksTypeOK
    <3>. QED
      BY <3>2, <3>3
  <2>. QED
    BY <2>1, <2>2
<1>2. CASE Acquire(r) \/ WaitOn(r) \/ GiveBack(r) \/ Finish(r)
  <2>1. k \in DOMAIN table /\ UNCHANGED <<table, used, key, lock>>
    BY <1>2 DEF Acquire, WaitOn, GiveBack, Finish, marks
  <2>2. \/ k \in used
        \/ \E q \in Requests :
               key[q] = k /\ lock[q] = table[k] /\ lockPc[q] \in {"waiting", "acquired"}
    BY <2>1 DEF UsedOrComing
  <2>. QED
    BY <1>2, <2>1, <2>2 DEF Acquire, WaitOn, GiveBack, Finish, Reaches, LocksTypeOK
<1>3. CASE TimeOut(r)
  <2>1. k \in DOMAIN table /\ UNCHANGED <<table, used, key, lock>>
    BY <1>3 DEF TimeOut, marks
  <2>. SUFFICES ASSUME k \notin used
                PROVE  \E q \in Requests : /\ key'[q] = k /\ lock'[q] = table'[k]
                                           /\ lockPc'[q] \in {"waiting", "acquired"}
    BY <2>1
  <2>2. PICK q \in Requests :
            key[q] = k /\ lock[q] = table[k] /\ lockPc[q] \in {"waiting", "acquired"}
    BY <2>1 DEF UsedOrComing
  <2>3. CASE q # r
    BY <1>3, <2>1, <2>2, <2>3 DEF TimeOut, Reaches, LocksTypeOK
  <2>4. CASE q = r
    <3>1. PICK h \in Requests :
              lock[h] = table[k] /\ lockPc[h] \in {"acquired", "running"}
      BY <1>3, <2>2, <2>4 DEF TimeOut, HeldByActive
    <3>2. key[h] = k
      BY <2>1, <3>1 DEF OneKey
    <3>3. lockPc[h] = "acquired"
      BY <2>1, <3>1, <3>2 DEF UsedOrComing
    <3>4. lockPc'[h] = "acquired"
      BY <1>3, <3>3 DEF TimeOut, Reaches, LocksTypeOK
    <3>. QED
      BY <2>1, <3>1, <3>2, <3>4
  <2>. QED
    BY <2>3, <2>4
<1>4. CASE MarkUsed(r)
  <2>1. k \in DOMAIN table /\ UNCHANGED <<table, key, lock>> /\ used' = used \cup {key[r]}
    BY <1>4 DEF MarkUsed
  <2>2. \/ k \in used
        \/ \E q \in Requests :
               key[q] = k /\ lock[q] = table[k] /\ lockPc[q] \in {"waiting", "acquired"}
    BY <2>1 DEF UsedOrComing
  <2>. QED
    BY <1>4, <2>1, <2>2 DEF MarkUsed, Reaches, LocksTypeOK
<1>. QED
  BY <1>1, <1>2, <1>3, <1>4

\* A request that runs on the lock of its entry has marked it.
LEMMA StepUsed ==
    ASSUME LocksTypeOK, OneKey, Handed, UsedOrComing, NEW r \in Requests,
           \/ HandOut(r) \/ Acquire(r) \/ TimeOut(r) \/ WaitOn(r)
           \/ GiveBack(r) \/ MarkUsed(r) \/ Finish(r),
           NEW q \in Requests, lockPc'[q] = "running", key'[q] \in DOMAIN table',
           table'[key'[q]] = lock'[q]
    PROVE  key'[q] \in used'
<1>1. CASE HandOut(r)
  <2>1. q # r /\ lockPc[q] = "running" /\ lock'[q] = lock[q] /\ key' = key
    BY <1>1, HandOutFact DEF LocksTypeOK
  <2>2. key[q] \in DOMAIN table /\ table[key[q]] = lock[q]
    <3>1. CASE key[q] \in DOMAIN table
      BY <1>1, <2>1, <3>1, HandOutFact
    <3>2. CASE key[q] \notin DOMAIN table
      <4>1. key[q] = key[r] /\ table'[key[q]] = made + 1
        BY <1>1, <2>1, <3>2, HandOutFact
      <4>2. lock[q] \in 0..made /\ made \in Nat
        BY AskedBound DEF LocksTypeOK, Locks
      <4>. QED
        BY <2>1, <4>1, <4>2
    <3>. QED
      BY <3>1, <3>2
  <2>3. key[q] \in used
    BY <2>1, <2>2 DEF UsedOrComing
  <2>. QED
    BY <1>1, <2>1, <2>3, HandOutFact
<1>2. CASE MarkUsed(r)
  <2>1. UNCHANGED <<table, key, lock>> /\ used' = used \cup {key[r]}
    BY <1>2 DEF MarkUsed
  <2>2. q # r => lockPc[q] = "running"
    BY <1>2 DEF MarkUsed, Reaches, LocksTypeOK
  <2>. QED
    BY <2>1, <2>2 DEF UsedOrComing
<1>3. CASE Acquire(r) \/ TimeOut(r) \/ WaitOn(r) \/ GiveBack(r) \/ Finish(r)
  <2>1. UNCHANGED <<table, used, key, lock>>
    BY <1>3 DEF Acquire, TimeOut, WaitOn, GiveBack, Finish, marks
  <2>2. lockPc[q] = "running"
    BY <1>3 DEF Acquire, TimeOut, WaitOn, GiveBack, Finish, Reaches, LocksTypeOK
  <2>. QED
    BY <2>1, <2>2 DEF UsedOrComing
<1>. QED
  BY <1>1, <1>2, <1>3

\* The types, of the steps that hand out nothing.
LEMMA OnwardTypes ==
    ASSUME LocksTypeOK, NEW r \in Requests,
           \/ Acquire(r) \/ TimeOut(r) \/ WaitOn(r) \/ GiveBack(r)
           \/ MarkUsed(r) \/ Finish(r),
           Handed
    PROVE  LocksTypeOK'
<1>1. Onward(r) /\ made' = made /\ lock' = lock
  BY StepsOnward DEF Onward
<1>2. inflight' \subseteq Sessions /\ used' \subseteq Sessions
  BY DEF Acquire, TimeOut, WaitOn, GiveBack, MarkUsed, Finish, marks, LocksTypeOK
<1>3. held' \subseteq 1..made'
  <2>1. CASE Acquire(r)
    <3>1. held' = held \cup {lock[r]} /\ lockPc[r] = "waiting"
      BY <2>1 DEF Acquire
    <3>2. lock[r] \in 0..made /\ lock[r] # 0
      BY <3>1 DEF Handed, LocksTypeOK, None
    <3>3. lock[r] \in 1..made
      BY <3>2, AskedBound DEF LocksTypeOK, Locks
    <3>4. held \subseteq 1..made
      BY DEF LocksTypeOK
    <3>. QED
      BY <1>1, <3>1, <3>3, <3>4
  <2>2. CASE ~Acquire(r)
    <3>1. held' \subseteq held
      BY <2>2 DEF TimeOut, WaitOn, GiveBack, MarkUsed, Finish
    <3>2. held \subseteq 1..made
      BY DEF LocksTypeOK
    <3>. QED
      BY <1>1, <3>1, <3>2
  <2>. QED
    BY <2>1, <2>2
<1>. QED
  BY <1>1, <1>2, <1>3 DEF Onward, LocksTypeOK

\* Every step keeps the invariant.
LEMMA LocksStep == LocksInv /\ [LocksNext]_locksVars => LocksInv'
<1>. SUFFICES ASSUME LocksInv, [LocksNext]_locksVars PROVE LocksInv'
  OBVIOUS
<1>1. LocksTypeOK /\ OneKey /\ Handed /\ HeldByActive /\ InFlightIsActive /\ UsedOrComing
  BY DEF LocksInv
<1>2. CASE UNCHANGED locksVars
  <2>1. LocksTypeOK' /\ OneKey' /\ Handed'
    BY <1>1, <1>2 DEF locksVars, marks, LocksTypeOK, OneKey, Handed
  <2>2. HeldByActive' /\ InFlightIsActive' /\ UsedOrComing'
    BY <1>1, <1>2 DEF locksVars, marks, HeldByActive, InFlightIsActive, UsedOrComing
  <2>. QED
    BY <2>1, <2>2 DEF LocksInv
<1>3. CASE LocksNext
  <2>1. PICK r \in Requests :
            \/ HandOut(r) \/ Acquire(r) \/ TimeOut(r) \/ WaitOn(r)
            \/ GiveBack(r) \/ MarkUsed(r) \/ Finish(r)
    BY <1>3 DEF LocksNext, LocksSystem
  <2>2. LocksTypeOK'
    BY <1>1, <2>1, HandOutTypes, OnwardTypes
  <2>3. OneKey' /\ Handed'
    BY <1>1, <2>1, HandOutKeys, StepsOnward, OnwardKeeps
  <2>4. HeldByActive' /\ InFlightIsActive'
    BY <1>1, <2>1, StepHeld, StepInFlight
  <2>5. UsedOrComing'
    <3>1. \A k \in DOMAIN table' : k \in used' \/ \E q \in Requests :
              key'[q] = k /\ lock'[q] = table'[k] /\ lockPc'[q] \in {"waiting", "acquired"}
      BY <1>1, <2>1, StepComing
    <3>2. \A q \in Requests :
              lockPc'[q] = "running" /\ key'[q] \in DOMAIN table' /\ table'[key'[q]] = lock'[q]
                  => key'[q] \in used'
      BY <1>1, <2>1, StepUsed
    <3>. QED
      BY <3>1, <3>2 DEF UsedOrComing
  <2>. QED
    BY <2>2, <2>3, <2>4, <2>5 DEF LocksInv
<1>. QED
  BY <1>2, <1>3

\* Every mark that protects an entry of the table from eviction has a request
\* behind it that will take it away (_release_session_lock_inflight,
\* _mark_session_lock_used, the release of the lock).
THEOREM LocksInvariant == LocksSpec => []LocksInv
<1>. QED
  BY LocksStart, LocksStep, PTL DEF LocksSpec

\* An entry no request is concerned with is marked as used, not in flight and
\* not locked.
LEMMA LocksAreEvictable == LocksInv => IdleIsEvictable
<1>. SUFFICES ASSUME LocksInv, NEW k \in DOMAIN table,
                     \A r \in Requests : key[r] = k => ~Active(r)
              PROVE  k \in used \ inflight /\ table[k] \notin held
  BY DEF IdleIsEvictable
<1>1. k \in used
  BY DEF LocksInv, UsedOrComing, Active
<1>2. k \notin inflight
  BY DEF LocksInv, InFlightIsActive, Active
<1>3. table[k] \notin held
  BY DEF LocksInv, HeldByActive, OneKey, Active
<1>. QED
  BY <1>1, <1>2, <1>3

\* So an entry no request is concerned with can be evicted, whatever its
\* requests went through: the table does not fill with entries that stay.
THEOREM IdleEntriesEvictable == LocksSpec => []IdleIsEvictable
BY LocksInvariant, LocksAreEvictable, PTL

\* A set of numbers that is not empty has a least one.
LEMMA LeastExists ==
    ASSUME NEW T \in SUBSET Nat, T # {}
    PROVE  \E m \in T : \A n \in T : m <= n
<1>. DEFINE Below(m) == 0..m
            F == {Below(m) : m \in T}
<1>1. F \subseteq FiniteSubsetsOf(Nat)
  <2>1. \A m \in T : Below(m) \in SUBSET Nat /\ IsFiniteSet(Below(m))
    BY FS_Interval
  <2>. QED
    BY <2>1 DEF FiniteSubsetsOf
<1>2. PICK D \in F : \A C \in F : ~ (<<C, D>> \in StrictSubsetOrdering(Nat))
  <2>1. F # {}
    OBVIOUS
  <2>. QED
    BY <1>1, <2>1, FS_StrictSubsetOrderingWellFounded, WFMin
<1>3. PICK m \in T : D = Below(m)
  OBVIOUS
<1>4. ASSUME NEW n \in T, n < m PROVE FALSE
  <2>1. Below(n) \in F /\ Below(n) \subseteq Below(m) /\ m \in Below(m) /\ m \notin Below(n)
    BY <1>4
  <2>2. <<Below(n), Below(m)>> \in StrictSubsetOrdering(Nat)
    BY <2>1 DEF StrictSubsetOrdering
  <2>. QED
    BY <1>2, <1>3, <2>1, <2>2
<1>. QED
  BY <1>4


\* Of a finite set whose members have different ages, as many as one likes are
\* among those that are older than all others but so many.
LEMMA OldestAreMany ==
    ASSUME NEW E, IsFiniteSet(E), NEW age \in [E -> Nat],
           \A c, d \in E : age[c] = age[d] => c = d,
           NEW n \in Nat, n <= Cardinality(E)
    PROVE  n <= Cardinality({c \in E : Cardinality({d \in E : age[d] < age[c]}) < n})
<1>. DEFINE Older(c) == {d \in E : age[d] < age[c]}
            Oldest(m) == {c \in E : Cardinality(Older(c)) < m}
            T == {m \in Nat : m <= Cardinality(E) /\ ~(m <= Cardinality(Oldest(m)))}
<1>1. Cardinality(E) \in Nat
  BY FS_CardinalityType
<1>2. \A S \in SUBSET E : /\ IsFiniteSet(S) /\ Cardinality(S) \in Nat
                          /\ \A R \in SUBSET S : Cardinality(R) <= Cardinality(S)
  BY FS_Subset, FS_CardinalityType
<1>3. \A m : Oldest(m) \in SUBSET E
  OBVIOUS
<1>4. \A c \in E : Older(c) \in SUBSET E
  OBVIOUS
<1>5. \A m : \A c \in E : c \in Oldest(m) <=> Cardinality(Older(c)) < m
  OBVIOUS
<1>6. \A c, d \in E : d \in Older(c) <=> age[d] < age[c]
  OBVIOUS
<1>. HIDE DEF Older, Oldest
<1>. SUFFICES ASSUME ~(n <= Cardinality(Oldest(n))) PROVE FALSE
  BY DEF Oldest, Older
<1>7. PICK m \in T : \A k \in T : m <= k
  <2>1. T \in SUBSET Nat /\ T # {}
    OBVIOUS
  <2>. HIDE DEF T
  <2>. QED
    BY <2>1, LeastExists
<1>8. m \in Nat /\ m <= Cardinality(E) /\ ~(m <= Cardinality(Oldest(m)))
  OBVIOUS
<1>9. m # 0
  BY <1>2, <1>3, <1>8
<1>. DEFINE l == m - 1
<1>10. l \in Nat /\ l < m /\ m = l + 1
  BY <1>8, <1>9
<1>11. l <= Cardinality(Oldest(l))
  BY <1>1, <1>7, <1>8, <1>10
<1>. HIDE DEF T, l
<1>12. Oldest(l) \subseteq Oldest(m)
  BY <1>2, <1>3, <1>4, <1>5, <1>10
<1>13. Cardinality(Oldest(l)) = l
  <2>1. Cardinality(Oldest(l)) <= Cardinality(Oldest(m))
    BY <1>2, <1>3, <1>12
  <2>2. Cardinality(Oldest(l)) \in Nat /\ Cardinality(Oldest(m)) \in Nat
    BY <1>2, <1>3
  <2>. QED
    BY <1>8, <1>10, <1>11, <2>1, <2>2
<1>14. E \ Oldest(l) # {}
  <2>1. Oldest(l) # E
    BY <1>1, <1>8, <1>10, <1>13
  <2>. QED
    BY <1>3, <2>1
<1>15. PICK c \in E \ Oldest(l) : \A d \in E \ Oldest(l) : age[c] <= age[d]
  <2>. DEFINE ages == {age[d] : d \in E \ Oldest(l)}
  <2>1. ages \in SUBSET Nat /\ ages # {}
    BY <1>14
  <2>2. \E a \in ages : \A b \in ages : a <= b
    <3>. HIDE DEF ages
    <3>. QED
      BY <2>1, LeastExists
  <2>. QED
    BY <2>2
<1>16. Older(c) \in SUBSET Oldest(l)
  <2>1. \A d \in Older(c) : d \in E /\ age[d] < age[c] /\ age[d] \in Nat /\ age[c] \in Nat
    BY <1>4, <1>6
  <2>2. \A d \in Older(c) : ~(age[c] <= age[d])
    BY <2>1
  <2>. QED
    BY <1>15, <2>1, <2>2
<1>17. c \in Oldest(m)
  <2>1. Cardinality(Older(c)) <= l
    BY <1>2, <1>3, <1>13, <1>16
  <2>2. Cardinality(Older(c)) \in Nat
    BY <1>2, <1>4
  <2>. QED
    BY <1>5, <1>10, <2>1, <2>2
<1>18. Cardinality(Oldest(l) \cup {c}) = l + 1
  BY <1>2, <1>3, <1>13, FS_AddElement
<1>19. Cardinality(Oldest(l) \cup {c}) <= Cardinality(Oldest(m))
  <2>1. Oldest(l) \cup {c} \in SUBSET Oldest(m)
    BY <1>12, <1>17
  <2>. QED
    BY <1>2, <1>3, <2>1
<1>. QED
  BY <1>8, <1>10, <1>18, <1>19

\* What may be evicted of a table that is too long is all of it, or enough.
LEMMA VictimsSuffice ==
    ASSUME NEW t, NEW k, IsFiniteSet(DOMAIN t), \A c \in DOMAIN t : t[c] \in Nat,
           \A c, d \in DOMAIN t : t[c] = t[d] => c = d
    PROVE  \/ Victims(t, k) = Evictable(t, k)
           \/ Cardinality(DOMAIN t \ Victims(t, k)) <= MaxTable
<1>. DEFINE E == Evictable(t, k)
            Older(c) == {d \in E : t[d] < t[c]}
            excess == Cardinality(DOMAIN t) - MaxTable
            gone == Victims(t, k)
<1>1. E \in SUBSET DOMAIN t
  BY DEF Evictable
<1>2. /\ \A S \in SUBSET DOMAIN t : /\ IsFiniteSet(S) /\ Cardinality(S) \in Nat
                                    /\ Cardinality(S) <= Cardinality(DOMAIN t)
      /\ Cardinality(DOMAIN t) \in Nat
  BY FS_Subset, FS_CardinalityType
<1>3. gone = {c \in E : Cardinality(Older(c)) < excess}
  BY DEF Victims
<1>4. MaxTable \in Nat
  BY LocksAssumption
<1>. HIDE DEF E, gone
<1>5. \A c \in E : Older(c) \in SUBSET DOMAIN t
  BY <1>1
<1>6. CASE ~(excess \in Nat)
  <2>1. Cardinality(DOMAIN t) <= MaxTable
    BY <1>2, <1>4, <1>6
  <2>2. DOMAIN t \ gone \in SUBSET DOMAIN t
    OBVIOUS
  <2>. QED
    BY <1>2, <1>4, <2>1, <2>2 DEF gone
<1>7. CASE excess \in Nat /\ excess <= Cardinality(E)
  <2>. DEFINE age == [c \in E |-> t[c]]
  <2>1. age \in [E -> Nat] /\ \A c, d \in E : age[c] = age[d] => c = d
    BY <1>1
  <2>2. excess <= Cardinality({c \in E : Cardinality({d \in E : age[d] < age[c]}) < excess})
    <3>. HIDE DEF age, excess
    <3>1. IsFiniteSet(E)
      BY <1>1, <1>2
    <3>. QED
      BY <1>7, <2>1, <3>1, OldestAreMany
  <2>3. {c \in E : Cardinality({d \in E : age[d] < age[c]}) < excess} = gone
    <3>1. \A c \in E : {d \in E : age[d] < age[c]} = Older(c)
      BY <1>1
    <3>. HIDE DEF age, Older
    <3>. QED
      BY <1>3, <3>1
  <2>4. gone \in SUBSET DOMAIN t
    BY <1>1, <1>3
  <2>5. Cardinality(DOMAIN t \ gone) = Cardinality(DOMAIN t) - Cardinality(gone)
    <3>1. gone \cap DOMAIN t = gone /\ DOMAIN t \cap gone = gone
      BY <2>4
    <3>. QED
      BY <3>1, FS_Difference
  <2>6. excess <= Cardinality(gone)
    BY <2>2, <2>3
  <2>7. Cardinality(DOMAIN t \ gone) <= MaxTable
    BY <1>2, <1>4, <2>4, <2>5, <2>6
  <2>. QED
    BY <2>7 DEF gone
<1>8. CASE excess \in Nat /\ ~(excess <= Cardinality(E))
  <2>1. \A c \in E : Cardinality(Older(c)) <= Cardinality(E)
    <3>1. \A c \in E : Older(c) \subseteq E
      OBVIOUS
    <3>2. IsFiniteSet(E)
      BY <1>1, <1>2
    <3>. HIDE DEF Older
    <3>. QED
      BY <3>1, <3>2, FS_Subset
  <2>2. Cardinality(E) \in Nat /\ \A c \in E : Cardinality(Older(c)) \in Nat
    BY <1>1, <1>2, <1>5
  <2>. HIDE DEF Older
  <2>3. \A c \in E : Cardinality(Older(c)) < excess
    BY <1>8, <2>1, <2>2
  <2>4. gone = E
    BY <1>3, <2>3
  <2>. QED
    BY <2>4 DEF gone, E
<1>. QED
  BY <1>6, <1>7, <1>8

\* After a HandOut the table is within its bound, or an entry that stayed is one
\* that could not go, so a request is concerned with it.
LEMMA HandOutCutsBack ==
    ASSUME LocksInv, NEW r \in Requests, HandOut(r)
    PROVE  \/ Cardinality(DOMAIN table') <= MaxTable
           \/ \A c \in DOMAIN table' : \E q \in Requests : key[q] = c /\ Active(q)'
<1>. DEFINE k == key[r]
            fresh == k \notin DOMAIN table
            t == [c \in DOMAIN table \cup {k} |->
                     IF c = k /\ fresh THEN made + 1 ELSE table[c]]
            gone == Victims(t, k)
<1>1. /\ lockPc[r] = "new" /\ lockPc' = [lockPc EXCEPT ![r] = "waiting"]
      /\ DOMAIN table' = DOMAIN t \ gone
  BY DEF HandOut, Reaches
<1>2. \A q \in Requests : Active(q) => Active(q)'
  BY <1>1 DEF Active, LocksInv, LocksTypeOK
<1>3. Active(r)'
  BY <1>1 DEF Active, LocksInv, LocksTypeOK
<1>4. /\ made \in Nat /\ \A c \in DOMAIN table : table[c] \in 1..made
      /\ \A c, d \in DOMAIN table : table[c] = table[d] => c = d
  BY AskedBound DEF LocksInv, LocksTypeOK, OneKey, Locks
<1>5. DOMAIN t = DOMAIN table \cup {k}
  OBVIOUS
<1>6. \A c \in DOMAIN t : t[c] \in Nat
  BY <1>4
<1>7. \A c, d \in DOMAIN t : t[c] = t[d] => c = d
  BY <1>4
<1>8. IsFiniteSet(DOMAIN t)
  <2>1. IsFiniteSet(DOMAIN table)
    <3>1. IsFiniteSet({table[c] : c \in DOMAIN table})
      <4>1. {table[c] : c \in DOMAIN table} \subseteq 1..made
        BY <1>4
      <4>2. IsFiniteSet(1..made)
        BY <1>4, FS_Interval
      <4>. QED
        BY <4>1, <4>2, FS_Subset
    <3>2. PICK f : f = [c \in DOMAIN table |-> table[c]]
      OBVIOUS
    <3>3. f \in Injection(DOMAIN table, {table[c] : c \in DOMAIN table})
      BY <1>4, <3>2 DEF Injection, IsInjective
    <3>. QED
      BY <3>1, <3>3, FS_Injection
  <2>. QED
    BY <1>5, <2>1, FS_AddElement
<1>9. \A c \in DOMAIN t \ Evictable(t, k) : \E q \in Requests : key[q] = c /\ Active(q)'
  <2>. SUFFICES ASSUME NEW c \in DOMAIN t, c \notin Evictable(t, k)
                PROVE  \E q \in Requests : key[q] = c /\ Active(q)'
    OBVIOUS
  <2>1. CASE c = k
    BY <1>3, <2>1
  <2>2. CASE c # k
    <3>1. c \in DOMAIN table /\ t[c] = table[c]
      BY <1>5, <2>2
    <3>2. c \in DOMAIN t \ {k}
      BY <2>2
    <3>. HIDE DEF t, k
    <3>3. table[c] \in held \/ c \in inflight \/ c \notin used
      BY <2>2, <3>1, <3>2 DEF Evictable
    <3>4. IdleIsEvictable
      BY LocksAreEvictable
    <3>. QED
      BY <1>2, <3>1, <3>3, <3>4 DEF IdleIsEvictable
  <2>. QED
    BY <2>1, <2>2
<1>. HIDE DEF t
<1>10. gone = Evictable(t, k) \/ Cardinality(DOMAIN t \ gone) <= MaxTable
  BY <1>6, <1>7, <1>8, VictimsSuffice
<1>. QED
  BY <1>1, <1>9, <1>10

\* The table is cut back to its bound whenever a lock is handed out, unless every
\* entry left in it has a request in progress: what the docstring of
\* _get_session_lock promises.
THEOREM TableIsCutBack == LocksSpec => CutBack
<1>. DEFINE Cut == \A r \in Requests : HandOut(r) =>
    \/ Cardinality(DOMAIN table') <= MaxTable
    \/ \A k \in DOMAIN table' : \E q \in Requests : key[q] = k /\ Active(q)'
<1>1. LocksInv /\ [LocksNext]_locksVars => [Cut]_locksVars
  BY HandOutCutsBack
<1>. QED
  BY <1>1, LocksInvariant, PTL DEF LocksSpec, CutBack

-----------------------------------------------------------------------------
(* The prompts *)

\* The invariant holds before the first call.
LEMMA AsksStart == AsksInit => AsksInv
<1>. SUFFICES ASSUME AsksInit PROVE AsksInv
  OBVIOUS
<1>1. AsksTypeOK
  BY DEF AsksInit, AsksTypeOK, CallPlaces, Decisions, Permits
<1>2. InPrompt /\ NobodyEarly
  BY DEF AsksInit, InPrompt, NobodyEarly
<1>3. AnswerStands /\ AudienceWaits
  BY DEF AsksInit, AnswerStands, AudienceWaits, Permits
<1>4. AnswerIsKept
  BY DEF AsksInit, AnswerIsKept, AnswerIsFollowed, PermitIsFresh, Permits
<1>. QED
  BY <1>1, <1>2, <1>3, <1>4 DEF AsksInv

-----------------------------------------------------------------------------
\* What Ask does: the call joins a prompt that is open and not resolved, or
\* opens its own, which nobody has answered.
LEMMA AskFact ==
    ASSUME AsksTypeOK, InPrompt, AnswerStands, NEW c \in Calls, Ask(c)
    PROVE  \E g \in Calls :
             /\ callPc[c] = "new" /\ callPc' = [callPc EXCEPT ![c] = "waiting"]
             /\ prompt' = [prompt EXCEPT ![c] = g]
             /\ waiters' = [waiters EXCEPT ![g] = @ \cup {c}]
             /\ byKey' = [byKey EXCEPT ![preview[c]] = g] /\ open' = open \cup {g}
             /\ UNCHANGED <<resolved, decision, rules, cancelledCalls, preview, verdict, history>>
             /\ g \notin resolved /\ answered[g] = "none"
             /\ g # c => prompt[g] = g
<1> DEFINE g == IF Joinable(preview[c]) # {}
                THEN CHOOSE j \in Joinable(preview[c]) : TRUE ELSE c
<1>1. /\ callPc[c] = "new" /\ callPc' = [callPc EXCEPT ![c] = "waiting"]
      /\ prompt' = [prompt EXCEPT ![c] = g]
      /\ waiters' = [waiters EXCEPT ![g] = @ \cup {c}]
      /\ byKey' = [byKey EXCEPT ![preview[c]] = g] /\ open' = open \cup {g}
      /\ UNCHANGED <<resolved, decision, rules, cancelledCalls, preview, verdict, history>>
  BY DEF Ask, Goto
<1>2. g \in Joinable(preview[c]) \/ g = c
  OBVIOUS
<1>. HIDE DEF g
<1>3. g = c => g \notin resolved
  BY <1>1, NobodyAssumption DEF InPrompt
<1>4. g \in Calls /\ g \notin resolved /\ (g # c => prompt[g] = g)
  BY <1>2, <1>3 DEF Joinable, AsksTypeOK, InPrompt
<1>5. answered[g] = "none"
  BY <1>4 DEF AnswerStands
<1>. QED
  BY <1>1, <1>4, <1>5

LEMMA AskStep ==
    ASSUME AsksInv, NEW c \in Calls, Ask(c)
    PROVE  AsksInv'
<1>1. AsksTypeOK /\ InPrompt /\ NobodyEarly /\ AnswerStands /\ AudienceWaits /\ AnswerIsKept
  BY DEF AsksInv
<1>2. PICK g \in Calls :
        /\ callPc[c] = "new" /\ callPc' = [callPc EXCEPT ![c] = "waiting"]
        /\ prompt' = [prompt EXCEPT ![c] = g]
        /\ waiters' = [waiters EXCEPT ![g] = @ \cup {c}]
        /\ byKey' = [byKey EXCEPT ![preview[c]] = g] /\ open' = open \cup {g}
        /\ UNCHANGED <<resolved, decision, rules, cancelledCalls, preview, verdict, history>>
        /\ g \notin resolved /\ answered[g] = "none"
        /\ g # c => prompt[g] = g
  BY <1>1, AskFact
<1>3. prompt[c] = Nobody /\ \A h \in Calls : c \notin waiters[h] /\ c \notin audience[h]
  BY <1>1, <1>2, NobodyAssumption DEF InPrompt, AudienceWaits
<1>4. AsksTypeOK'
  BY <1>1, <1>2 DEF AsksTypeOK, history, CallPlaces
<1>5. InPrompt'
  <2>1. \A d \in Calls : callPc'[d] = "new" => prompt'[d] = Nobody /\ verdict'[d] = "none"
    BY <1>1, <1>2 DEF InPrompt, AsksTypeOK
  <2>2. ASSUME NEW d \in Calls, callPc'[d] \in {"waiting", "leaving"}
        PROVE  prompt'[d] \in Calls /\ d \in waiters'[prompt'[d]]
    <3>1. CASE d = c
      BY <1>1, <1>2, <3>1 DEF AsksTypeOK
    <3>2. CASE d # c
      <4>1. prompt'[d] = prompt[d] /\ callPc[d] \in {"waiting", "leaving"}
        BY <1>1, <1>2, <2>2, <3>2 DEF AsksTypeOK
      <4>2. prompt[d] \in Calls /\ d \in waiters[prompt[d]]
        BY <1>1, <4>1 DEF InPrompt
      <4>. QED
        BY <1>1, <1>2, <4>1, <4>2 DEF AsksTypeOK
    <3>. QED
      BY <3>1, <3>2
  <2>3. ASSUME NEW h \in Calls, NEW d \in waiters'[h]
        PROVE  prompt'[d] = h
    <3>1. d \in waiters[h] \/ (d = c /\ h = g)
      BY <1>1, <1>2 DEF AsksTypeOK
    <3>2. d \in Calls
      BY <1>1, <3>1 DEF AsksTypeOK
    <3>3. d \in waiters[h] => d # c /\ prompt[d] = h
      BY <1>1, <1>3 DEF InPrompt
    <3>. QED
      BY <1>1, <1>2, <3>1, <3>2, <3>3 DEF AsksTypeOK
  <2>4. ASSUME NEW h \in open' \cup resolved'
        PROVE  prompt'[h] = h
    <3>1. h \in Calls
      BY <1>1, <1>2 DEF AsksTypeOK
    <3>2. h = c => h = g
      BY <1>1, <1>2, <1>3, NobodyAssumption DEF InPrompt
    <3>3. h # c => prompt[h] = h
      BY <1>1, <1>2 DEF InPrompt
    <3>. QED
      BY <1>1, <1>2, <3>1, <3>2, <3>3 DEF AsksTypeOK
  <2>. QED
    BY <2>1, <2>2, <2>3, <2>4 DEF InPrompt
<1>6. NobodyEarly'
  BY <1>1, <1>2 DEF NobodyEarly, Finished, AsksTypeOK
<1>7. AnswerStands'
  BY <1>1, <1>2 DEF AnswerStands, history
<1>8. AudienceWaits'
  <2>1. audience' = audience /\ answered' = answered
    BY <1>2 DEF history
  <2>2. \A d \in Calls : d # c => prompt'[d] = prompt[d] /\ callPc'[d] = callPc[d]
    BY <1>1, <1>2 DEF AsksTypeOK
  <2>3. prompt'[c] = g
    BY <1>1, <1>2 DEF AsksTypeOK
  <2>4. \A h \in Calls : audience[h] \subseteq Calls
    BY <1>1 DEF AsksTypeOK
  <2>. QED
    BY <1>1, <1>2, <1>3, <2>1, <2>2, <2>3, <2>4 DEF AudienceWaits
<1>9. AnswerIsKept'
  <2>1. verdict' = verdict /\ audience' = audience /\ answered' = answered
    BY <1>2 DEF history
  <2>2. \A d \in Calls : d # c => prompt'[d] = prompt[d] /\ callPc'[d] = callPc[d]
    BY <1>1, <1>2 DEF AsksTypeOK
  <2>3. AnswerIsFollowed'
    BY <1>1, <1>3, <2>1, <2>2 DEF AnswerIsKept, AnswerIsFollowed, Finished, AsksTypeOK
  <2>4. verdict[c] \notin Permits
    BY <1>1, <1>2 DEF InPrompt, Permits
  <2>5. PermitIsFresh'
    BY <1>1, <2>1, <2>2, <2>4 DEF AnswerIsKept, PermitIsFresh
  <2>. QED
    BY <2>3, <2>5 DEF AnswerIsKept
<1>. QED
  BY <1>4, <1>5, <1>6, <1>7, <1>8, <1>9 DEF AsksInv

-----------------------------------------------------------------------------
\* Unlist leaves a prompt in neither table.
LEMMA RemoveFact ==
    ASSUME AsksTypeOK, NEW g \in Calls, Unlist(g)
    PROVE  byKey' \in [Previews -> Calls \cup {Nobody}] /\ open' = open \ {g}
BY DEF Unlist, AsksTypeOK

\* A call ends with the decision of a prompt that is resolved.
LEMMA TakeStep ==
    ASSUME AsksInv, NEW c \in Calls, TakeDecision(c)
    PROVE  AsksInv'
<1> DEFINE g == prompt[c]
<1>1. AsksTypeOK /\ InPrompt /\ NobodyEarly /\ AnswerStands /\ AudienceWaits /\ AnswerIsKept
  BY DEF AsksInv
<1>2. /\ callPc[c] = "leaving" /\ g \in resolved /\ g \in Calls
      /\ verdict' = [verdict EXCEPT ![c] = decision[g]]
      /\ callPc' = [callPc EXCEPT ![c] = IF decision[g] = "always" THEN "remember" ELSE "done"]
      /\ UNCHANGED <<byKey, open, resolved, decision, waiters, rules, cancelledCalls, preview,
                     prompt, answered, audience>>
  BY <1>1 DEF TakeDecision, Take, Goto, groups, history, AsksTypeOK
<1>3. callPc'[c] \in {"remember", "done"} /\ verdict'[c] = decision[g]
  BY <1>1, <1>2 DEF AsksTypeOK
<1>4. \A d \in Calls : d # c => callPc'[d] = callPc[d] /\ verdict'[d] = verdict[d]
  BY <1>1, <1>2 DEF AsksTypeOK
<1>. HIDE DEF g
<1>5. AsksTypeOK'
  BY <1>1, <1>2 DEF AsksTypeOK, CallPlaces
<1>6. InPrompt'
  BY <1>1, <1>2, <1>3, <1>4 DEF InPrompt
<1>7. NobodyEarly'
  <2>. SUFFICES ASSUME NEW h \in Calls \ resolved, NEW d \in waiters[h]
                PROVE  callPc'[d] \notin {"remember", "done"}
    BY <1>2 DEF NobodyEarly, Finished
  <2>1. d \in Calls /\ prompt[d] = h
    BY <1>1 DEF InPrompt, AsksTypeOK
  <2>2. d # c
    BY <1>2, <2>1 DEF g
  <2>. QED
    BY <1>1, <1>4, <2>1, <2>2 DEF NobodyEarly, Finished
<1>8. AnswerStands'
  BY <1>1, <1>2 DEF AnswerStands
<1>9. AudienceWaits'
  BY <1>1, <1>2, <1>3, <1>4 DEF AudienceWaits
<1>10. AnswerIsFollowed'
  <2>. SUFFICES ASSUME NEW h \in Calls, answered[h] # "none", NEW d \in audience[h],
                       Finished(d)'
                PROVE  verdict'[d] = answered[h]
    BY <1>2 DEF AnswerIsFollowed
  <2>1. d \in Calls
    BY <1>1 DEF AsksTypeOK
  <2>2. CASE d = c
    <3>1. h = g
      BY <1>1, <2>2 DEF AudienceWaits, g
    <3>. QED
      BY <1>1, <1>3, <2>2, <3>1 DEF AnswerStands
  <2>3. CASE d # c
    BY <1>1, <1>4, <2>1, <2>3 DEF AnswerIsKept, AnswerIsFollowed, Finished
  <2>. QED
    BY <2>2, <2>3
<1>11. PermitIsFresh'
  <2>. SUFFICES ASSUME NEW d \in Calls, verdict'[d] \in Permits
                PROVE  answered[prompt[d]] = verdict'[d] /\ d \in audience[prompt[d]]
    BY <1>2 DEF PermitIsFresh
  <2>1. CASE d = c
    <3>1. answered[g] = decision[g] /\ answered[g] # "none"
      BY <1>1, <1>2, <1>3, <2>1 DEF AnswerStands, Permits
    <3>2. c \in audience[g]
      BY <1>1, <1>2, <3>1 DEF AudienceWaits, g
    <3>. QED
      BY <1>3, <2>1, <3>1, <3>2 DEF g
  <2>2. CASE d # c
    BY <1>1, <1>4, <2>2 DEF AnswerIsKept, PermitIsFresh
  <2>. QED
    BY <2>1, <2>2
<1>. QED
  BY <1>5, <1>6, <1>7, <1>8, <1>9, <1>10, <1>11 DEF AsksInv, AnswerIsKept

\* A call gives up: it ends the prompt that it opened, or leaves the one it
\* joined; with the word "no" either way.
LEMMA GiveUpStep ==
    ASSUME AsksInv, NEW c \in Calls, EndPrompt(c) \/ Detach(c)
    PROVE  AsksInv'
<1> DEFINE g == prompt[c]
<1>1. AsksTypeOK /\ InPrompt /\ NobodyEarly /\ AnswerStands /\ AudienceWaits /\ AnswerIsKept
  BY DEF AsksInv
<1>2. /\ callPc[c] = "leaving" /\ g \notin resolved /\ g \in Calls
      /\ verdict' = [verdict EXCEPT ![c] = "deny"] /\ callPc' = [callPc EXCEPT ![c] = "done"]
      /\ UNCHANGED <<rules, cancelledCalls, preview, prompt, answered, audience>>
  <2>1. callPc[c] = "leaving" /\ Take(c, "deny") /\ g \notin resolved
        /\ UNCHANGED <<rules, cancelledCalls, preview, prompt, answered, audience>>
    BY DEF EndPrompt, Detach, Owner, history
  <2>2. g \in Calls
    BY <1>1, <2>1 DEF InPrompt
  <2>. QED
    BY <2>1, <2>2 DEF Take, Goto
<1>3. \/ /\ g = c /\ resolved' = resolved \cup {g}
         /\ decision' = [decision EXCEPT ![g] = "deny"]
         /\ waiters' = waiters /\ open' = open \ {g}
         /\ byKey' \in [Previews -> Calls \cup {Nobody}]
      \/ /\ waiters' = [waiters EXCEPT ![g] = @ \ {c}]
         /\ UNCHANGED <<byKey, open, resolved, decision>> /\ g # c
  BY <1>1, RemoveFact DEF EndPrompt, Detach, Owner
<1>4. callPc'[c] = "done" /\ verdict'[c] = "deny"
      /\ \A d \in Calls : d # c => callPc'[d] = callPc[d] /\ verdict'[d] = verdict[d]
  BY <1>1, <1>2 DEF AsksTypeOK
<1>5. prompt[c] = g
  OBVIOUS
<1>. HIDE DEF g
<1>6. \A h \in Calls : waiters'[h] \subseteq waiters[h] /\ (waiters[h] \ {c}) \subseteq waiters'[h]
  BY <1>1, <1>2, <1>3 DEF AsksTypeOK
<1>7. answered[g] = "none"
  BY <1>1, <1>2 DEF AnswerStands
<1>8. AsksTypeOK'
  <2>1. callPc' \in [Calls -> CallPlaces] /\ verdict' \in [Calls -> Decisions \cup {"none", "rule"}]
    BY <1>1, <1>2 DEF AsksTypeOK, CallPlaces, Decisions
  <2>2. decision' \in [Calls -> Decisions]
    BY <1>1, <1>2, <1>3 DEF AsksTypeOK, Decisions
  <2>3. waiters' \in [Calls -> SUBSET Calls]
    BY <1>1, <1>2, <1>3 DEF AsksTypeOK
  <2>4. open' \subseteq Calls /\ resolved' \subseteq Calls
    BY <1>1, <1>2, <1>3 DEF AsksTypeOK
  <2>. QED
    BY <1>1, <1>2, <1>3, <2>1, <2>2, <2>3, <2>4 DEF AsksTypeOK
<1>9. InPrompt'
  <2>1. \A d \in Calls : callPc'[d] = "new" => prompt'[d] = Nobody /\ verdict'[d] = "none"
    BY <1>1, <1>2, <1>4 DEF InPrompt
  <2>2. \A d \in Calls : callPc'[d] \in {"waiting", "leaving"} =>
            prompt'[d] \in Calls /\ d \in waiters'[prompt'[d]]
    BY <1>1, <1>2, <1>4, <1>6 DEF InPrompt
  <2>3. \A h \in Calls : \A d \in waiters'[h] : prompt'[d] = h
    BY <1>1, <1>2, <1>6 DEF InPrompt
  <2>4. \A h \in open' \cup resolved' : prompt'[h] = h
    BY <1>1, <1>2, <1>3, <1>5 DEF InPrompt
  <2>. QED
    BY <2>1, <2>2, <2>3, <2>4 DEF InPrompt
<1>10. NobodyEarly'
  <2>. SUFFICES ASSUME NEW h \in Calls \ resolved', NEW d \in waiters'[h]
                PROVE  callPc'[d] \notin {"remember", "done"}
    BY DEF NobodyEarly, Finished
  <2>1. d \in waiters[h] /\ d \in Calls /\ h \notin resolved /\ prompt[d] = h
    BY <1>1, <1>3, <1>6 DEF AsksTypeOK, InPrompt
  <2>2. d # c
    BY <1>1, <1>2, <1>3, <1>5, <2>1 DEF AsksTypeOK
  <2>. QED
    BY <1>1, <1>4, <2>1, <2>2 DEF NobodyEarly, Finished
<1>11. AnswerStands'
  <2>1. open' \cap resolved' = {}
    BY <1>1, <1>3 DEF AnswerStands
  <2>2. \A h \in Calls : answered'[h] # "none" => h \in resolved' /\ decision'[h] = answered'[h]
    BY <1>1, <1>2, <1>3, <1>7 DEF AnswerStands, AsksTypeOK
  <2>3. \A h \in Calls : decision'[h] \in Permits => answered'[h] = decision'[h]
    BY <1>1, <1>2, <1>3 DEF AnswerStands, AsksTypeOK, Permits
  <2>. QED
    BY <2>1, <2>2, <2>3 DEF AnswerStands
<1>12. AudienceWaits'
  BY <1>1, <1>2, <1>4 DEF AudienceWaits
<1>13. AnswerIsFollowed'
  <2>. SUFFICES ASSUME NEW h \in Calls, answered[h] # "none", NEW d \in audience[h],
                       Finished(d)'
                PROVE  verdict'[d] = answered[h]
    BY <1>2 DEF AnswerIsFollowed
  <2>1. d \in Calls /\ prompt[d] = h
    BY <1>1 DEF AsksTypeOK, AudienceWaits
  <2>2. d # c
    BY <1>5, <1>7, <2>1
  <2>. QED
    BY <1>1, <1>4, <2>1, <2>2 DEF AnswerIsKept, AnswerIsFollowed, Finished
<1>14. PermitIsFresh'
  BY <1>1, <1>2, <1>4 DEF AnswerIsKept, PermitIsFresh, Permits
<1>. QED
  BY <1>8, <1>9, <1>10, <1>11, <1>12, <1>13, <1>14 DEF AsksInv, AnswerIsKept

\* The user answers a prompt: its audience are those who wait for it.
LEMMA ResolveStep ==
    ASSUME AsksInv, NEW g \in Calls, NEW d \in Decisions, Resolve(g, d)
    PROVE  AsksInv'
<1>1. AsksTypeOK /\ InPrompt /\ NobodyEarly /\ AnswerStands /\ AudienceWaits /\ AnswerIsKept
  BY DEF AsksInv
<1>2. /\ g \in open /\ g \notin resolved
      /\ resolved' = resolved \cup {g} /\ decision' = [decision EXCEPT ![g] = d]
      /\ answered' = [answered EXCEPT ![g] = d]
      /\ audience' = [audience EXCEPT ![g] = waiters[g]]
      /\ UNCHANGED <<waiters, rules, cancelledCalls, callPc, preview, prompt, verdict>>
      /\ open' = open \ {g} /\ byKey' \in [Previews -> Calls \cup {Nobody}]
  BY <1>1, RemoveFact DEF Resolve
<1>3. answered[g] = "none" /\ d # "none"
  BY <1>1, <1>2 DEF AnswerStands, Decisions, Permits
<1>4. AsksTypeOK'
  <2>1. decision' \in [Calls -> Decisions] /\ answered' \in [Calls -> Decisions \cup {"none"}]
    BY <1>1, <1>2 DEF AsksTypeOK
  <2>2. audience' \in [Calls -> SUBSET Calls]
    BY <1>1, <1>2 DEF AsksTypeOK
  <2>. QED
    BY <1>1, <1>2, <2>1, <2>2 DEF AsksTypeOK
<1>5. InPrompt'
  BY <1>1, <1>2 DEF InPrompt
<1>6. NobodyEarly'
  BY <1>1, <1>2 DEF NobodyEarly, Finished
<1>7. AnswerStands'
  BY <1>1, <1>2 DEF AnswerStands, AsksTypeOK
<1>8. AudienceWaits'
  <2>1. \A c \in audience'[g] : prompt[c] = g
    BY <1>1, <1>2 DEF InPrompt, AsksTypeOK
  <2>2. \A c \in Calls : callPc[c] \in {"waiting", "leaving"} /\ prompt[c] = g
                             => c \in audience'[g]
    BY <1>1, <1>2 DEF InPrompt, AsksTypeOK
  <2>3. \A h \in Calls : h # g => audience'[h] = audience[h] /\ answered'[h] = answered[h]
    BY <1>1, <1>2 DEF AsksTypeOK
  <2>. QED
    BY <1>1, <1>2, <2>1, <2>2, <2>3 DEF AudienceWaits
<1>9. AnswerIsFollowed'
  <2>. SUFFICES ASSUME NEW h \in Calls, answered'[h] # "none", NEW c \in audience'[h],
                       Finished(c)
                PROVE  verdict[c] = answered'[h]
    BY <1>2 DEF AnswerIsFollowed, Finished
  <2>1. CASE h = g
    <3>1. c \in waiters[g]
      BY <1>1, <1>2, <2>1 DEF AsksTypeOK
    <3>. QED
      BY <1>1, <1>2, <3>1 DEF NobodyEarly
  <2>2. CASE h # g
    BY <1>1, <1>2, <2>2 DEF AnswerIsKept, AnswerIsFollowed, AsksTypeOK
  <2>. QED
    BY <2>1, <2>2
<1>10. PermitIsFresh'
  <2>. SUFFICES ASSUME NEW c \in Calls, verdict[c] \in Permits
                PROVE  answered'[prompt[c]] = verdict[c] /\ c \in audience'[prompt[c]]
    BY <1>2 DEF PermitIsFresh
  <2>1. answered[prompt[c]] = verdict[c] /\ c \in audience[prompt[c]]
    BY <1>1 DEF AnswerIsKept, PermitIsFresh
  <2>2. prompt[c] # g
    BY <1>3, <2>1 DEF Permits
  <2>. QED
    BY <1>1, <1>2, <2>1, <2>2 DEF AsksTypeOK
<1>. QED
  BY <1>4, <1>5, <1>6, <1>7, <1>8, <1>9, <1>10 DEF AsksInv, AnswerIsKept

\* The shutdown denies every prompt that is open.
LEMMA DenyStep == AsksInv /\ DenyAll => AsksInv'
<1>. SUFFICES ASSUME AsksInv, DenyAll PROVE AsksInv'
  OBVIOUS
<1>1. AsksTypeOK /\ InPrompt /\ NobodyEarly /\ AnswerStands /\ AudienceWaits /\ AnswerIsKept
  BY DEF AsksInv
<1>2. /\ resolved' = resolved \cup open /\ open' = {}
      /\ decision' = [g \in Calls |-> IF g \in open \ resolved THEN "deny" ELSE decision[g]]
      /\ byKey' = [k \in Previews |-> Nobody]
      /\ UNCHANGED <<waiters, rules, cancelledCalls, callPc, preview, prompt, verdict, answered,
                     audience>>
  BY DEF DenyAll, history
<1>3. AsksTypeOK'
  BY <1>1, <1>2 DEF AsksTypeOK, Decisions
<1>4. InPrompt'
  BY <1>1, <1>2 DEF InPrompt
<1>5. NobodyEarly'
  BY <1>1, <1>2 DEF NobodyEarly, Finished
<1>6. AnswerStands'
  BY <1>1, <1>2 DEF AnswerStands, Permits
<1>7. AudienceWaits'
  BY <1>1, <1>2 DEF AudienceWaits
<1>8. AnswerIsKept'
  BY <1>1, <1>2 DEF AnswerIsKept, AnswerIsFollowed, PermitIsFresh, Finished
<1>. QED
  BY <1>3, <1>4, <1>5, <1>6, <1>7, <1>8 DEF AsksInv

\* The steps of a call that concern no prompt.
LEMMA AloneStep ==
    ASSUME AsksInv, NEW c \in Calls,
           PassByRule(c) \/ CancelTask(c) \/ Wake(c) \/ Remember(c)
    PROVE  AsksInv'
<1>1. AsksTypeOK /\ InPrompt /\ NobodyEarly /\ AnswerStands /\ AudienceWaits /\ AnswerIsKept
  BY DEF AsksInv
<1>2. UNCHANGED <<byKey, open, resolved, decision, waiters, preview, prompt, answered,
                  audience>>
  BY DEF PassByRule, CancelTask, Wake, Remember, groups, history
<1>3. CASE PassByRule(c)
  <2>1. /\ callPc[c] = "new" /\ callPc'[c] = "done" /\ verdict'[c] = "rule"
        /\ \A d \in Calls : d # c => callPc'[d] = callPc[d] /\ verdict'[d] = verdict[d]
        /\ UNCHANGED <<rules, cancelledCalls>>
    BY <1>1, <1>3 DEF PassByRule, Goto, AsksTypeOK
  <2>2. prompt[c] = Nobody /\ \A h \in Calls : c \notin waiters[h] /\ c \notin audience[h]
    BY <1>1, <2>1, NobodyAssumption DEF InPrompt, AudienceWaits
  <2>3. AsksTypeOK'
    BY <1>1, <1>2, <1>3 DEF PassByRule, Goto, AsksTypeOK, CallPlaces
  <2>4. InPrompt'
    BY <1>1, <1>2, <2>1 DEF InPrompt
  <2>5. NobodyEarly'
    BY <1>1, <1>2, <2>1, <2>2 DEF NobodyEarly, Finished, AsksTypeOK
  <2>6. AnswerStands' /\ AudienceWaits'
    BY <1>1, <1>2, <2>1 DEF AnswerStands, AudienceWaits
  <2>7. AnswerIsFollowed'
    BY <1>1, <1>2, <2>1, <2>2 DEF AnswerIsKept, AnswerIsFollowed, Finished, AsksTypeOK
  <2>8. PermitIsFresh'
    BY <1>1, <1>2, <2>1 DEF AnswerIsKept, PermitIsFresh, Permits
  <2>. QED
    BY <2>3, <2>4, <2>5, <2>6, <2>7, <2>8 DEF AsksInv, AnswerIsKept
<1>4. CASE CancelTask(c)
  BY <1>1, <1>2, <1>4 DEF CancelTask, AsksInv, AsksTypeOK, InPrompt, NobodyEarly, AnswerStands,
     AudienceWaits, AnswerIsKept, AnswerIsFollowed, PermitIsFresh, Finished
<1>5. CASE Wake(c) \/ Remember(c)
  <2>1. /\ \/ callPc[c] = "waiting" /\ callPc'[c] = "leaving"
           \/ callPc[c] = "remember" /\ callPc'[c] = "done"
        /\ \A d \in Calls : d # c => callPc'[d] = callPc[d]
        /\ UNCHANGED <<cancelledCalls, verdict>>
    BY <1>1, <1>5 DEF Wake, Remember, Goto, AsksTypeOK
  <2>2. AsksTypeOK'
    BY <1>1, <1>2, <1>5 DEF Wake, Remember, Goto, AsksTypeOK, CallPlaces
  <2>3. InPrompt'
    BY <1>1, <1>2, <2>1 DEF InPrompt
  <2>4. NobodyEarly'
    BY <1>1, <1>2, <2>1 DEF NobodyEarly, Finished, AsksTypeOK
  <2>5. AnswerStands' /\ AudienceWaits'
    BY <1>1, <1>2, <2>1 DEF AnswerStands, AudienceWaits
  <2>6. AnswerIsKept'
    BY <1>1, <1>2, <2>1 DEF AnswerIsKept, AnswerIsFollowed, PermitIsFresh, Finished, AsksTypeOK
  <2>. QED
    BY <2>2, <2>3, <2>4, <2>5, <2>6 DEF AsksInv
<1>. QED
  BY <1>3, <1>4, <1>5

\* Every step keeps the invariant.
LEMMA AsksStep == AsksInv /\ [AsksNext]_asksVars => AsksInv'
<1>. SUFFICES ASSUME AsksInv, [AsksNext]_asksVars PROVE AsksInv'
  OBVIOUS
<1>1. CASE Progress
  BY <1>1, AloneStep, TakeStep, GiveUpStep DEF Progress
<1>2. CASE \E c \in Calls : PassByRule(c) \/ Ask(c) \/ CancelTask(c)
  BY <1>2, AloneStep, AskStep
<1>3. CASE \E g \in Calls, d \in Decisions : Resolve(g, d)
  BY <1>3, ResolveStep
<1>4. CASE DenyAll
  BY <1>4, DenyStep
<1>5. CASE UNCHANGED asksVars
  BY <1>5 DEF asksVars, groups, history, AsksInv, AsksTypeOK, InPrompt, NobodyEarly, AnswerStands,
     AudienceWaits, AnswerIsKept, AnswerIsFollowed, PermitIsFresh, Finished
<1>. QED
  BY <1>1, <1>2, <1>3, <1>4, <1>5 DEF AsksNext

\* A prompt is resolved once, nobody leaves it with a verdict before, and those
\* who wait when the user answers are those the answer is for.
THEOREM AsksInvariant == AsksSpec => []AsksInv
<1>. QED
  BY AsksStart, AsksStep, PTL DEF AsksSpec

\* The answer of the user reaches the calls it was given to, all of them and no
\* other, for any number of calls, sessions and previews.
THEOREM AnswersAreKept == AsksSpec => []AnswerIsKept
<1>1. AsksInv => AnswerIsKept
  BY DEF AsksInv
<1>. QED
  BY AsksInvariant, <1>1, PTL
=============================================================================
