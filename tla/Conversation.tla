---------------------------- MODULE Conversation ----------------------------
(***************************************************************************)
(* The messages of one session: the list a run works on, the file it is    *)
(* saved to, and everything that cuts or rewrites them.  A result of a     *)
(* tool answers a call of the round just before it, and gateways use call  *)
(* ids again in later rounds, so a cut at the wrong place leaves a history *)
(* the model API refuses.                                                  *)
(*                                                                         *)
(* Runs of one session take turns (SessionLocks); rewinds and forks come   *)
(* from HTTP threads at any time, and the terminal can interrupt a run.    *)
(***************************************************************************)
EXTENDS Naturals, Sequences, FiniteSets, SequencesExt, FiniteSetsExt

CONSTANTS
    CallIds,       \* ids of the calls of a round
    MaxLength,     \* bound: messages of a conversation
    KeepRecent     \* keep_recent of a compaction

ASSUME TalkAssumption ==
    IsFiniteSet(CallIds) /\ MaxLength \in Nat /\ KeepRecent \in Nat

Messages == [role : {"system", "user", "assistant", "tool", "checkpoint"},
             calls : SUBSET CallIds, call : CallIds \cup {0}]
Message(role) == [role |-> role, calls |-> {}, call |-> 0]
Asking(calls) == [Message("assistant") EXCEPT !.calls = calls]
Result(id)    == [Message("tool") EXCEPT !.call = id]
Results(ids)  == [k \in DOMAIN SetToSeq(ids) |-> Result(SetToSeq(ids)[k])]

VARIABLES
    messages,      \* the list in memory
    holding,       \* the process that holds it is there
    running,       \* a run works on it
    stored         \* the messages of the session file

talkVars == <<messages, holding, running, stored>>

TalkTypeOK ==
    /\ messages \in Seq(Messages) /\ stored \in Seq(Messages)
    /\ holding \in BOOLEAN /\ running \in BOOLEAN
    /\ running => holding

TalkInit ==
    /\ messages = <<Message("system")>> /\ stored = <<>>
    /\ holding = FALSE /\ running = FALSE

-----------------------------------------------------------------------------
(* The calls still to be answered after the k-th message (tool_round_walk):  *)
(* those of the last message that is no result, but for the results since.  *)
Waiting(s, k) ==
    {c \in CallIds : \E b \in 1..k :
        /\ s[b].role # "tool" /\ c \in s[b].calls
        /\ \A j \in b + 1..k : s[j].role = "tool" /\ s[j].call # c}

Unanswered(s) == Waiting(s, Len(s))

(* validate_tool_protocol *)
ValidProtocol(s) ==
    /\ \A k \in DOMAIN s :
         IF s[k].role = "tool" THEN s[k].call \in Waiting(s, k - 1)
         ELSE Waiting(s, k - 1) = {} /\ (s[k].calls # {} => s[k].role = "assistant")
    /\ Unanswered(s) = {}

(* repair_interrupted_tool_rounds: what a round lacks is closed as unknown. *)
Repaired(s) ==
    LET closed(k) == (IF s[k].role = "tool" THEN <<>> ELSE Results(Waiting(s, k - 1)))
                         \o <<s[k]>>
    IN FlattenSeq([k \in DOMAIN s |-> closed(k)]) \o Results(Unanswered(s))

(* Mutant of CutAt: the cut is made where it was asked for. *)
CutThere(s, keep) == SubSeq(s, 1, keep)

(* _keep_through_tool_results: a cut grows over the results its last round *)
(* waits for.                                                              *)
KeepThrough(s, keep) ==
    Max({n \in keep..Len(s) :
           \A j \in keep + 1..n : s[j].role = "tool" /\ s[j].call \in Waiting(s, j - 1)})

CutAt(s, keep) == SubSeq(s, 1, KeepThrough(s, keep))

(* _recent_boundary: the cut moves back to the call of every result kept.  *)
Boundary(s) ==
    LET wanted == Max({0, Len(s) - Max({1, KeepRecent})})
        asked(k) == {j \in 1..k : s[k].call \in s[j].calls}
        kept == {k \in wanted + 1..Len(s) : s[k].role = "tool" /\ asked(k) # {}}
    IN Min({wanted} \cup {Max(asked(k)) - 1 : k \in kept})

(* The messages of some roles, in their order. *)
Those(s, roles) ==
    FlattenSeq([k \in DOMAIN s |-> IF s[k].role \in roles THEN <<s[k]>> ELSE <<>>])

(* compact_with_checkpoint beyond its threshold *)
Compacted(s) ==
    LET rest == Those(s, {"user", "assistant", "tool"})
        cut == Boundary(rest)
    IN IF Len(rest) <= KeepRecent \/ cut = 0 THEN s
       ELSE Those(s, {"system"}) \o <<Message("checkpoint")>> \o SubSeq(rest, cut + 1, Len(rest))

(* SessionStore.load renews the system prompt. *)
Loaded(s) ==
    <<Message("system")>> \o
        (IF s # <<>> /\ s[1].role = "system" THEN Tail(s) ELSE s)

-----------------------------------------------------------------------------
Room(n) == Len(messages) + n <= MaxLength
SaveHistory == stored' = messages'
Append1(m) == messages' = Append(messages, m)

(* A session is opened: a chat loads the file; the terminal keeps its list *)
(* from prompt to prompt.                                                  *)
LoadHistory ==
    /\ ~running /\ messages' = Loaded(stored) /\ holding' = TRUE
    /\ UNCHANGED <<running, stored>>

(* The user's turn is saved by a chat, not by the terminal; run_agent then *)
(* repairs what the history lacks.                                         *)
StartRun ==
    /\ holding /\ ~running /\ Room(1) /\ running' = TRUE
    /\ LET said == Append(messages, Message("user"))
       IN /\ messages' = Repaired(said)
          /\ stored' \in {stored, said}
    /\ UNCHANGED holding

(* Before each request: compaction once the list is long, then the check. *)
Compact ==
    /\ running /\ Unanswered(messages) = {} /\ messages' = Compacted(messages)
    /\ UNCHANGED <<holding, running, stored>>

(* validate_tool_protocol stops every other request. *)
MayRequest == running /\ ValidProtocol(messages)

Call(ids) ==
    /\ MayRequest /\ Room(1 + Cardinality(ids)) /\ Append1(Asking(ids))
    /\ UNCHANGED <<holding, running, stored>>

(* All results of a round are appended together, and the round is saved by *)
(* a chat.                                                                 *)
FinishRound ==
    /\ running /\ Unanswered(messages) # {}
    /\ messages' = messages \o Results(Unanswered(messages))
    /\ stored' \in {stored, messages'}
    /\ UNCHANGED <<holding, running>>

(* A guard of the loop asks the model again; nothing is called. *)
Nudge(role) ==
    /\ MayRequest /\ Room(2)
    /\ messages' = messages \o <<Message("assistant"), Message(role)>>
    /\ UNCHANGED <<holding, running, stored>>

AnswerTurn ==
    /\ MayRequest /\ Room(1) /\ Append1(Message("assistant")) /\ SaveHistory /\ running' = FALSE
    /\ UNCHANGED holding

(* Ctrl-C in the terminal leaves the list as it is. *)
Interrupt ==
    /\ running /\ running' = FALSE
    /\ UNCHANGED <<messages, holding, stored>>

(* The terminal's /compact and /clear, and any other save between runs. *)
Checkpoint ==
    /\ holding /\ ~running
    /\ messages' \in {messages, Compacted(messages), SubSeq(messages, 1, 1)}
    /\ SaveHistory
    /\ UNCHANGED <<holding, running>>

LoseProcess ==
    /\ holding /\ holding' = FALSE /\ running' = FALSE /\ messages' = Loaded(<<>>)
    /\ UNCHANGED <<stored>>

(* An HTTP thread rewinds the file, whatever a run is doing.  (The backup  *)
(* it leaves is for the user alone; nothing reads it.)                     *)
Rewind(keep) ==
    /\ keep < Len(stored)
    /\ stored' = CutAt(stored, keep)
    /\ UNCHANGED <<messages, holding, running>>

(* The user goes on in a fork; the source is not touched. *)
Fork(keep) ==
    /\ keep <= Len(stored) /\ ~holding
    /\ stored' = CutAt(stored, keep)
    /\ UNCHANGED <<messages, holding, running>>

TalkNext ==
    \/ LoadHistory \/ StartRun \/ Compact \/ FinishRound \/ AnswerTurn
    \/ Interrupt \/ Checkpoint \/ LoseProcess
    \/ \E ids \in SUBSET CallIds \ {{}} : Call(ids)
    \/ \E role \in {"user", "system"} : Nudge(role)
    \/ \E keep \in 1..MaxLength : Rewind(keep) \/ Fork(keep)

TalkSpec == TalkInit /\ [][TalkNext]_talkVars

-----------------------------------------------------------------------------
(* No request is ever refused by the validator: interrupts, crashes,       *)
(* rewinds, forks, compactions and ids used again always leave a history   *)
(* that, once a run has started on it, is a conversation the API accepts.  *)
NeverRefused == running /\ Unanswered(messages) = {} => ValidProtocol(messages)

(* A cut of a complete history is a complete history, wherever it is made, *)
(* so that a rewound or forked session needs no repair                     *)
(* (_keep_through_tool_results).                                           *)
CutsAreWhole ==
    ValidProtocol(stored) => \A keep \in 1..Len(stored) : ValidProtocol(CutAt(stored, keep))

(* Histories stay conversations the API accepts.                           *)
HistoryIsWhole == NeverRefused /\ CutsAreWhole

(* A history the repair can mend: a result answers a call that waits for   *)
(* it, only the assistant calls.  In a clean one every round is answered   *)
(* before the next message, but for the last.                              *)
Mendable(s) ==
    \A k \in DOMAIN s : /\ s[k].role = "tool" => s[k].call \in Waiting(s, k - 1)
                        /\ s[k].calls # {} => s[k].role = "assistant"
Clean(s) ==
    Mendable(s) /\ \A k \in DOMAIN s : s[k].role # "tool" => Waiting(s, k - 1) = {}

(* What is held or stored can be mended; what a run works on is clean.     *)
TalkInv ==
    /\ TalkTypeOK /\ messages # <<>> /\ Mendable(messages) /\ Mendable(stored)
    /\ running => Clean(messages)
=============================================================================
