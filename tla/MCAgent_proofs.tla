--------------------------- MODULE MCAgent_proofs ---------------------------
(***************************************************************************)
(* The composition that the runs of MCAgent check implements each of its   *)
(* parts, so that what is proved of a part alone holds of the whole, for   *)
(* any set of parts at work and any value of the constants.                *)
(***************************************************************************)
EXTENDS MCAgent, Chat_proofs, Gates_proofs, Agent_proofs, Files_proofs

-----------------------------------------------------------------------------
\* In a chat each part starts as it does alone, and moves only by itself.
LEMMA ChatRunsLocks == Spec => LocksSpec
<1>1. Init => LocksInit
  BY DEF Init
<1>2. [Next]_vars => [LocksNext]_locksVars
  BY DEF Next, vars
<1>. QED
  BY <1>1, <1>2, PTL DEF Spec, LocksSpec

LEMMA ChatRunsPrompts == Spec => AsksSpec
<1>1. Init => AsksInit
  BY DEF Init
<1>2. [Next]_vars => [AsksNext]_asksVars
  BY DEF Next, vars
<1>. QED
  BY <1>1, <1>2, PTL DEF Spec, AsksSpec

LEMMA ChatRunsPermissions == Spec => PermitSpec
<1>1. Init => PermitInit
  BY DEF Init
<1>2. [Next]_vars => [PermitNext]_permitVars
  BY DEF Next, vars
<1>. QED
  BY <1>1, <1>2, PTL DEF Spec, PermitSpec

LEMMA ChatRunsHooks == Spec => HookSpec
<1>1. Init => HookInit
  BY DEF Init
<1>2. [Next]_vars => [HookNext]_hookVars
  BY DEF Next, vars
<1>. QED
  BY <1>1, <1>2, PTL DEF Spec, HookSpec

LEMMA ChatRunsVerifier == Spec => VerificationSpec
<1>1. Init => VerificationInit
  BY DEF Init
<1>2. [Next]_vars => [VerificationNext]_verificationVars
  BY DEF Next, vars
<1>. QED
  BY <1>1, <1>2, PTL DEF Spec, VerificationSpec

LEMMA ChatRunsReview == Spec => GateSpec
<1>1. Init => GateInit
  BY DEF Init
<1>2. [Next]_vars => [GateNext]_gateVars
  BY DEF Next, vars
<1>. QED
  BY <1>1, <1>2, PTL DEF Spec, GateSpec

LEMMA ChatRunsLoop == Spec => LoopSpec
<1>1. Init => LoopInit
  BY DEF Init
<1>2. [Next]_vars => [LoopNext \/ \E require \in BOOLEAN : Start(require)]_loopVars
  BY DEF Next, vars, Chat
<1>. QED
  BY <1>1, <1>2, PTL DEF Spec, LoopSpec

LEMMA ChatRunsSubAgents == Spec => SubSpec
<1>1. Init => SubInit
  BY DEF Init
<1>2. [Next]_vars => [SubNext]_subVars
  BY DEF Next, vars
<1>. QED
  BY <1>1, <1>2, PTL DEF Spec, SubSpec

LEMMA ChatRunsClients == Spec => McpSpec
<1>1. Init => McpInit
  BY DEF Init
<1>2. [Next]_vars => [McpNext]_mcpVars
  BY DEF Next, vars
<1>. QED
  BY <1>1, <1>2, PTL DEF Spec, McpSpec

LEMMA ChatRunsPlan == Spec => PlanSpec
<1>1. Init => PlanInit
  BY DEF Init
<1>2. [Next]_vars => [PlanStep]_planVars
  BY DEF Next, vars
<1>. QED
  BY <1>1, <1>2, PTL DEF Spec, PlanSpec

LEMMA ChatRunsModels == Spec => RunSpec
<1>1. Init => RunInit
  BY DEF Init
<1>2. [Next]_vars => [RunNext]_runVars
  BY DEF Next, vars
<1>. QED
  BY <1>1, <1>2, PTL DEF Spec, RunSpec

LEMMA ChatRunsRollback == Spec => RollSpec
<1>1. Init => RollInit
  BY DEF Init
<1>2. [Next]_vars => [RollNext]_rollVars
  BY DEF Next, vars
<1>. QED
  BY <1>1, <1>2, PTL DEF Spec, RollSpec

LEMMA ChatRunsEditor == Spec => EditSpec
<1>1. Init => EditInit
  BY DEF Init
<1>2. [Next]_vars => [EditNext]_editVars
  BY DEF Next, vars
<1>. QED
  BY <1>1, <1>2, PTL DEF Spec, EditSpec

LEMMA ChatRunsFiles == Spec => FilesSpec
<1>1. Init => FilesInit
  BY DEF Init
<1>2. [Next]_vars => [FilesNext]_filesVars
  BY DEF Next, vars
<1>. QED
  BY <1>1, <1>2, PTL DEF Spec, FilesSpec

LEMMA ChatRunsShells == Spec => ShellsSpec
<1>1. Init => ShellsInit
  BY DEF Init
<1>2. [Next]_vars => [ShellsNext]_shellVars
  BY DEF Next, vars
<1>. QED
  BY <1>1, <1>2, PTL DEF Spec, ShellsSpec

LEMMA ChatRunsCommands == Spec => CommandSpec
<1>1. Init => CommandInit
  BY DEF Init
<1>2. [Next]_vars => [CommandNext]_commandVars
  BY DEF Next, vars
<1>. QED
  BY <1>1, <1>2, PTL DEF Spec, CommandSpec

LEMMA ChatRunsIndex == Spec => IndexSpec
<1>1. Init => IndexInit
  BY DEF Init
<1>2. [Next]_vars => [IndexNext]_indexVars
  BY DEF Next, vars
<1>. QED
  BY <1>1, <1>2, PTL DEF Spec, IndexSpec

LEMMA ChatRunsPanel == Spec => SummarySpec
<1>1. Init => SummaryInit
  BY DEF Init
<1>2. [Next]_vars => [SummaryNext]_summaryVars
  BY DEF Next, vars
<1>. QED
  BY <1>1, <1>2, PTL DEF Spec, SummarySpec

LEMMA ChatRunsHistory == Spec => TalkSpec
<1>1. Init => TalkInit
  BY DEF Init
<1>2. [Next]_vars => [TalkNext]_talkVars
  BY DEF Next, vars
<1>. QED
  BY <1>1, <1>2, PTL DEF Spec, TalkSpec

LEMMA ChatRunsModel == Spec => ChatSpec
<1>1. Init => ChatInit
  BY DEF Init
<1>2. [Next]_vars => [ChatNext]_chatVars
  BY DEF Next, vars
<1>. QED
  BY <1>1, <1>2, PTL DEF Spec, ChatSpec

LEMMA ChatRunsWire == Spec => AnthropicSpec
<1>1. Init => AnthropicInit
  BY DEF Init
<1>2. [Next]_vars => [AnthropicNext]_anthropicVars
  BY DEF Next, vars
<1>. QED
  BY <1>1, <1>2, PTL DEF Spec, AnthropicSpec

LEMMA ChatRunsServers == Spec => ServersSpec
<1>1. Init => ServersInit
  BY DEF Init
<1>2. [Next]_vars => [ServersNext]_serverVars
  BY DEF Next, vars
<1>. QED
  BY <1>1, <1>2, PTL DEF Spec, ServersSpec

-----------------------------------------------------------------------------
(* Polls of a shell return nothing twice and own up to what they leave out *)
(* of what its ring holds; a command is reported as it ended, its output   *)
(* whole or said to be cut; and the model is quoted as it spoke, wherever  *)
(* its streams broke.                                                      *)
THEOREM OutputsAreTold == Spec => []OutputIsTold
<1>1. NewOutputOnce /\ ResultIsTold /\ AnswerIsWhole => OutputIsTold
  BY DEF OutputIsTold
<1>. QED
  BY <1>1, ChatRunsShells, ChatRunsCommands, ChatRunsModel, NewOutputIsToldOnce,
     ResultIsToldRight, AnswersAreWhole, PTL

(* What the index of evidence and the changes panel tell is the workspace  *)
(* as it is, or as it was no longer ago than their caches may keep it, but *)
(* for what a failing directory, git or stat keeps from them.              *)
THEOREM ToldIsAlwaysCurrent == Spec => []ToldIsCurrent
<1>1. IndexIsCurrent /\ SummaryIsCurrent => ToldIsCurrent
  BY DEF ToldIsCurrent
<1>. QED
  BY <1>1, ChatRunsIndex, ChatRunsPanel, IndexIsCurrentAlways, SummaryIsCurrentAlways, PTL

(* What the Anthropic provider makes of a history it may send fits it, and *)
(* is answered once; and whatever is compacted, rewound, forked or lost,   *)
(* no request is refused for its history.                                  *)
THEOREM TalkIsAlwaysWhole == Spec => []TalkIsWhole
<1>1. RequestAnswered /\ HistoryIsWhole => TalkIsWhole
  BY DEF TalkIsWhole
<1>. QED
  BY <1>1, ChatRunsWire, ChatRunsHistory, RequestsAreAnswered, HistoriesAreWhole, PTL

\* The part at work is the one chosen at the start.
LEMMA PartStays == Spec => [](part \in Parts)
<1>1. Init => part \in Parts
  BY DEF Init
<1>2. part \in Parts /\ [Next]_vars => (part \in Parts)'
  BY DEF Next, vars
<1>. QED
  BY <1>1, <1>2, PTL DEF Spec

(* The inductive invariants of all parts hold in every chat: whichever     *)
(* part is at work, it is well typed and in a state that its code can be   *)
(* in.                                                                     *)
THEOREM PartsAreInvariant == Spec => []PartsInv
<1>1. Spec => /\ []LocksInv /\ []AsksInv /\ []RollInv /\ []SubInv /\ []PermitInv
              /\ []LoopInv /\ []PlanInv
  BY ChatRunsLocks, LocksInvariant, ChatRunsPrompts, AsksInvariant, ChatRunsRollback,
     RollInvariant, ChatRunsSubAgents, SubInvariant, ChatRunsPermissions, PermitInvariant,
     ChatRunsLoop, LoopInvariant, ChatRunsPlan, PlanInvariant
<1>2. Spec => /\ []ShellsInv /\ []McpInv /\ []ChatInv /\ []TalkInv /\ []VerificationInv
              /\ []GateInv /\ []EditInv /\ []RunInv
  BY ChatRunsShells, ShellsInvariant, ChatRunsClients, ClientInvariant, ChatRunsModel,
     ChatInvariant, ChatRunsHistory, TalkInvariant, ChatRunsVerifier, VerificationInvariant,
     ChatRunsReview, EvidenceInvariant, ChatRunsEditor, EditInvariant, ChatRunsModels,
     RunInvariant
<1>3. Spec => /\ []HookInv /\ []CommandInv /\ []IndexInv /\ []SummaryInv /\ []WireInv
              /\ []ServersInv /\ []FilesTypeOK /\ []FilesInv
  BY ChatRunsHooks, HookInvariant, ChatRunsCommands, CommandInvariant, ChatRunsIndex,
     IndexInvariant, ChatRunsPanel, SummaryInvariant, ChatRunsWire, WireInvariant,
     ChatRunsServers, ServersInvariant, ChatRunsFiles, FilesAreTyped, FilesInvariant
<1>4. /\ part \in Parts
      /\ LocksInv /\ AsksInv /\ RollInv /\ SubInv /\ PermitInv /\ LoopInv /\ PlanInv
      /\ ShellsInv /\ McpInv /\ ChatInv /\ TalkInv /\ VerificationInv /\ GateInv /\ EditInv
      /\ RunInv
      /\ HookInv /\ CommandInv /\ IndexInv /\ SummaryInv /\ WireInv /\ ServersInv
      /\ FilesTypeOK /\ FilesInv
      => PartsInv
  BY DEF PartsInv
<1>. QED
  BY <1>1, <1>2, <1>3, <1>4, PartStays, PTL

(* What the properties of a chat say of its other parts: a session in use  *)
(* keeps its lock and the table of locks is cut back; an answer is given   *)
(* once; no call runs that was not granted; a pass is of the inputs there  *)
(* are, a verdict of a proof and an answer of a pass; no edit is blind and *)
(* none is lost; a node waits for what it needs; money and tokens are      *)
(* counted; a client gets its own answers.                                 *)
THEOREM ChatIsSafe ==
    Spec => /\ []IdleIsEvictable /\ CutBack
            /\ []AnswerIsKept
            /\ []PermittedIsGranted
            /\ []PassIsCurrent
            /\ []CertifiedIsProven
            /\ []AnswerIsVerified /\ NoBlindEdit
            /\ []UserWorkKept
            /\ []EntriesKept
            /\ []OnlyOnCompleted
            /\ []SpendFolded
            /\ []ServedAndCounted
            /\ []AnswerIsOwn
            /\ []HistoryIsWhole
<1>1. Spec => []IdleIsEvictable /\ CutBack
  BY ChatRunsLocks, IdleEntriesEvictable, TableIsCutBack
<1>2. Spec => []AnswerIsKept
  BY ChatRunsPrompts, AnswersAreKept
<1>3. Spec => []PermittedIsGranted
  BY ChatRunsPermissions, PermittedIsGrantedHolds
<1>4. Spec => []PassIsCurrent
  BY ChatRunsVerifier, PassIsCurrentHolds
<1>5. Spec => []CertifiedIsProven
  BY ChatRunsReview, CertificatesAreProven
<1>6. Spec => []AnswerIsVerified /\ NoBlindEdit
  BY ChatRunsLoop, AnswersAreVerified, NoEditIsBlind
<1>7. Spec => []UserWorkKept
  BY ChatRunsRollback, UserWorkIsKept
<1>8. Spec => []EntriesKept
  BY ChatRunsFiles, EntriesAreKept
<1>9. Spec => []OnlyOnCompleted
  BY ChatRunsPlan, NodesWaitForAll
<1>10. Spec => []SpendFolded
  BY ChatRunsSubAgents, SpendIsFolded
<1>11. Spec => []ServedAndCounted
  BY ChatRunsModels, RunsAreServedAndCounted
<1>12. Spec => []AnswerIsOwn
  BY ChatRunsClients, AnswersAreOwn
<1>13. Spec => []HistoryIsWhole
  BY ChatRunsHistory, HistoriesAreWhole
<1>. QED
  BY <1>1, <1>2, <1>3, <1>4, <1>5, <1>6, <1>7, <1>8, <1>9, <1>10, <1>11, <1>12, <1>13, PTL
=============================================================================
