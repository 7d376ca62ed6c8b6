------------------------------- MODULE McpClient -------------------------------
(***************************************************************************)
(* The stdio client of mcp.py behind the manager a workspace shares: each  *)
(* chat discovers the tools of a server, which starts its process at the   *)
(* first time, and then calls them.  Requests of all chats go through one  *)
(* pipe and their answers through one queue, read by whoever waits; an     *)
(* answer for somebody else is dropped.  The server may answer late, in    *)
(* any order, or never, and may die.                                       *)
(*                                                                         *)
(* There is one server.  The handshake of a new client is part of starting *)
(* it, since nobody else has the client yet.                               *)
(***************************************************************************)
EXTENDS Naturals, Sequences, FiniteSets

CONSTANTS
    Chats,         \* threads of chats that use the server
    MaxRequests    \* bound: requests sent

ASSUME RequestBound == MaxRequests \in Nat

VARIABLES
    cached,        \* McpManager.clients: "none", "client" or "dead"
    locked,        \* the chat that holds _client_lock, if any
    server,        \* its process: "none", "up" or "gone"
    starts,        \* history: processes started
    dead,          \* McpStdioClient._dead
    counter,       \* _counter
    received,      \* requests the server has and has not answered
    answers,       \* _responses
    chat           \* what each chat does

mcpVars == <<cached, locked, server, starts, dead, counter, received, answers, chat>>

(* existed, started: existed and spawned_now of tool_specs; serving: it has *)
(* the client in its tools; id: its request; got: the id it was answered.   *)
NoCall == [pc |-> "idle", existed |-> FALSE, started |-> FALSE, serving |-> FALSE,
           id |-> 0, got |-> 0]

ChatPlaces == {"idle", "client", "starting", "sending", "waiting", "failed"}

McpTypeOK ==
    /\ cached \in {"none", "client", "dead"} /\ server \in {"none", "up", "gone"}
    /\ locked \subseteq Chats /\ starts \in Nat /\ dead \in BOOLEAN
    /\ counter \in 0..MaxRequests /\ received \subseteq 1..MaxRequests
    /\ answers \in Seq(1..MaxRequests)
    /\ chat \in [Chats -> [pc : ChatPlaces, existed : BOOLEAN, started : BOOLEAN,
                           serving : BOOLEAN, id : 0..MaxRequests, got : 0..MaxRequests]]

McpInit ==
    /\ cached = "none" /\ locked = {} /\ server = "none" /\ starts = 0
    /\ dead = FALSE /\ counter = 0 /\ received = {} /\ answers = <<>>
    /\ chat = [c \in Chats |-> NoCall]

ChatGoes(c, place) == chat' = [chat EXCEPT ![c].pc = place]
pipe == <<dead, counter, received, answers>>

(* tool_specs looks for the server before it takes the lock.               *)
Discover(c) ==
    /\ chat[c].pc = "idle" /\ ~chat[c].serving
    /\ chat' = [chat EXCEPT ![c] = [NoCall EXCEPT !.pc = "client", !.existed = cached # "none"]]
    /\ UNCHANGED <<cached, locked, server, starts, pipe>>

(* McpManager._client for a server that was met before.                    *)
GetClient(c) ==
    /\ chat[c].pc = "client" /\ locked = {} /\ cached # "none"
    /\ IF cached = "dead" THEN ChatGoes(c, "failed")
       ELSE chat' = [chat EXCEPT ![c].started = ~chat[c].existed,
                                 ![c].pc = IF dead \/ server = "gone" THEN "failed" ELSE "sending"]
    /\ UNCHANGED <<cached, locked, server, starts, pipe>>

StartServer(c) ==
    /\ chat[c].pc = "client" /\ locked = {} /\ cached = "none"
    /\ locked' = {c} /\ server' = "up" /\ starts' = starts + 1
    /\ ChatGoes(c, "starting")
    /\ UNCHANGED <<cached, pipe>>

Started(c) ==
    /\ chat[c].pc = "starting" /\ server = "up"
    /\ cached' = "client" /\ locked' = {}
    /\ chat' = [chat EXCEPT ![c].started = TRUE, ![c].pc = "sending"]
    /\ UNCHANGED <<server, starts, pipe>>

(* No handshake: the process is closed and never tried again.              *)
StartFails(c) ==
    /\ chat[c].pc = "starting"
    /\ cached' = "dead" /\ locked' = {} /\ server' = "gone" /\ dead' = TRUE
    /\ ChatGoes(c, "failed")
    /\ UNCHANGED <<starts, counter, received, answers>>

CallTool(c) ==
    /\ chat[c].pc = "idle" /\ chat[c].serving /\ ChatGoes(c, "sending")
    /\ UNCHANGED <<cached, locked, server, starts, pipe>>

(* The identifier and the line of a request go out under _write_lock.      *)
SendRequest(c) ==
    /\ chat[c].pc = "sending" /\ ~dead /\ server = "up" /\ counter < MaxRequests
    /\ counter' = counter + 1 /\ received' = received \cup {counter'}
    /\ chat' = [chat EXCEPT ![c].pc = "waiting", ![c].id = counter', ![c].got = 0]
    /\ UNCHANGED <<cached, locked, server, starts, dead, answers>>

SendFails(c) ==
    /\ chat[c].pc = "sending" /\ (dead \/ server = "gone")
    /\ dead' = TRUE /\ ChatGoes(c, "failed")
    /\ UNCHANGED <<cached, locked, server, starts, counter, received, answers>>

(* Mutant of TakeAnswer: whoever waits takes the answer that is there.     *)
TakeAny(c) ==
    /\ chat[c].pc = "waiting" /\ answers # <<>>
    /\ answers' = Tail(answers)
    /\ chat' = [chat EXCEPT ![c].pc = "idle", ![c].serving = TRUE, ![c].got = Head(answers)]
    /\ UNCHANGED <<cached, locked, server, starts, dead, counter, received>>

(* What a waiting chat finds at the head of the queue; its own answer may  *)
(* be an error.                                                            *)
TakeAnswer(c) ==
    /\ chat[c].pc = "waiting" /\ answers # <<>>
    /\ answers' = Tail(answers)
    /\ IF Head(answers) = chat[c].id
       THEN \/ chat' = [chat EXCEPT ![c].pc = "idle", ![c].serving = TRUE,
                                    ![c].got = Head(answers)]
            \/ ChatGoes(c, "failed")
       ELSE UNCHANGED chat
    /\ UNCHANGED <<cached, locked, server, starts, dead, counter, received>>

(* An empty slice shows a dead reader or process; else the deadline ends it. *)
WaitFails(c) ==
    /\ chat[c].pc = "waiting" /\ ChatGoes(c, "failed")
    /\ \/ answers = <<>> /\ (dead \/ server = "gone") /\ dead' = TRUE
       \/ UNCHANGED dead
    /\ UNCHANGED <<cached, locked, server, starts, counter, received, answers>>

(* A failed discovery marks the server dead, and closes it when this pass  *)
(* takes itself to have started it; a failed call is only an error.        *)
GivesUp(c) ==
    /\ chat[c].pc = "failed" /\ ChatGoes(c, "idle")
    /\ IF chat[c].serving THEN UNCHANGED <<cached, server, dead>>
       ELSE /\ cached' = "dead"
            /\ IF chat[c].started /\ cached = "client"
               THEN server' = "gone" /\ dead' = TRUE
               ELSE UNCHANGED <<server, dead>>
    /\ UNCHANGED <<locked, starts, counter, received, answers>>

(* The server and the reader thread.                                       *)
ServerAnswers(i) ==
    /\ server = "up" /\ ~dead /\ i \in received
    /\ received' = received \ {i} /\ answers' = Append(answers, i)
    /\ UNCHANGED <<cached, locked, server, starts, dead, counter, chat>>

ServerDies ==
    /\ server = "up" /\ server' = "gone"
    /\ UNCHANGED <<cached, locked, starts, pipe, chat>>

ReaderEnds ==
    /\ server = "gone" /\ ~dead /\ dead' = TRUE
    /\ UNCHANGED <<cached, locked, server, starts, counter, received, answers, chat>>

McpStep == \E c \in Chats :
    \/ GetClient(c) \/ StartServer(c) \/ Started(c) \/ StartFails(c)
    \/ SendRequest(c) \/ SendFails(c) \/ TakeAnswer(c) \/ WaitFails(c) \/ GivesUp(c)

McpNext ==
    \/ McpStep
    \/ \E c \in Chats : Discover(c) \/ CallTool(c)
    \/ \E i \in 1..MaxRequests : ServerAnswers(i)
    \/ ServerDies \/ ReaderEnds

McpSpec == McpInit /\ [][McpNext]_mcpVars

-----------------------------------------------------------------------------
(* A chat only ever gets the answer to its own request, although answers   *)
(* come late, in any order and through one queue, and although requests    *)
(* that timed out leave theirs behind.                                     *)
AnswerIsOwn ==
    \A c \in Chats : /\ chat[c].got \in {0, chat[c].id}
                     /\ \A d \in Chats : chat[c].got # 0 /\ chat[c].got = chat[d].got => c = d

-----------------------------------------------------------------------------
(* A request has an id of its own, none is above the counter, and whoever  *)
(* is answered has sent it.                                                *)
IdsAreOwn ==
    /\ received \subseteq 1..counter
    /\ \A i \in DOMAIN answers : answers[i] <= counter
    /\ \A c \in Chats : /\ chat[c].id <= counter
                        /\ chat[c].pc = "waiting" => chat[c].id # 0
                        /\ \A d \in Chats : chat[c].id # 0 /\ chat[c].id = chat[d].id => c = d

(* The process is started by the chat that holds the lock, and by nobody   *)
(* else while there is a client.                                           *)
OneStart ==
    /\ \A c \in Chats : chat[c].pc = "starting" <=> c \in locked
    /\ \A c, d \in locked : c = d
    /\ locked # {} => cached = "none"
    /\ cached = "none" /\ locked = {} => server = "none" /\ starts = 0
    /\ cached # "none" \/ locked # {} => starts = 1 /\ server # "none"

(* Nobody has got past discovery before there is a client.                 *)
NobodyServed ==
    cached = "none" =>
        \A c \in Chats : chat[c].pc \in {"idle", "client", "starting"} /\ ~chat[c].serving

McpInv == McpTypeOK /\ IdsAreOwn /\ OneStart /\ NobodyServed /\ AnswerIsOwn
=============================================================================
