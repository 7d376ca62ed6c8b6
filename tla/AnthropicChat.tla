---------------------------- MODULE AnthropicChat ----------------------------
(***************************************************************************)
(* One request of the Anthropic provider.  The messages of the history     *)
(* become turns; the request goes out on the paid channel, and on the plan *)
(* channel for good once the paid one is exhausted; a stream shows its     *)
(* text as it comes and may break.  The answer is the same whenever it is  *)
(* given, so a text is the sequence of its pieces by number.               *)
(***************************************************************************)
EXTENDS Naturals, Sequences, SequencesExt, FiniteSetsExt

CONSTANTS
    MaxHistory, \* bound: messages
    MaxRound,   \* bound: calls of a message
    MaxPieces,  \* bound: pieces of text of an answer
    MaxBlocks,  \* bound: tool blocks of an answer
    GivenIds,   \* ids a gateway gives them: a name and numbers, 2 for -dup2
    NoId,       \* or leaves out
    WireRetries \* max_retries

ASSUME WireAssumption ==
    /\ {MaxHistory, MaxRound, MaxPieces, MaxBlocks, WireRetries} \subseteq Nat
    /\ \A id \in GivenIds : id.dups \in Seq(Nat)

VARIABLES
    wireHistory, \* the messages, until they are converted
    streaming,   \* on_delta is given
    hasPlan,     \* plan_base_url
    channel,     \* "paid" or "plan"
    request,     \* attempt of this channel
    wireStep,    \* "convert", "send", "read", "answered" or "failed"
    heardText,   \* text_parts
    toolBlocks,  \* tool blocks by index: id, named
    answer,      \* content of the LLMResponse
    toolCalls,   \* ids of its tool calls in order
    shownText,   \* history: what on_delta was given for this request
    sent         \* history: requests that left
anthropicVars == <<wireHistory, streaming, hasPlan, channel, request, wireStep, heardText,
                   toolBlocks, answer, toolCalls, shownText, sent>>

(* A message: who speaks, the calls it makes, and whether it says nothing. *)
WireMessages ==
    {m \in [role : {"system", "user", "said", "blank", "result", "asked"},
             calls : 0..MaxRound] : m.role = "asked" <=> m.calls > 0}
Histories == UNION {[1..n -> WireMessages] : n \in 1..MaxHistory}

(* What validate_tool_protocol lets pass: the results follow their round.  *)
Accepted(s) ==
    \E owed \in [0..Len(s) -> 0..MaxRound] :
        /\ owed[0] = 0 /\ owed[Len(s)] = 0
        /\ \A k \in DOMAIN s : IF s[k].role = "result" THEN owed[k - 1] = owed[k] + 1
                               ELSE owed[k - 1] = 0 /\ owed[k] = s[k].calls

FirstPieces(n) == [i \in 1..n |-> i]
Missing == [open |-> FALSE, id |-> NoId, named |-> FALSE]
AnthropicTypeOK ==
    /\ wireHistory \in Histories \cup {<<>>} /\ {streaming, hasPlan} \subseteq BOOLEAN
    /\ channel \in {"paid", "plan"} /\ request \in 1..(WireRetries + 1)
    /\ wireStep \in {"convert", "send", "read", "answered", "failed"}
    /\ heardText \in {FirstPieces(n) : n \in 0..MaxPieces}
    /\ toolBlocks \in [1..MaxBlocks ->
                           [open : BOOLEAN, id : GivenIds \cup {NoId}, named : BOOLEAN]]
    /\ sent \in Nat

AnthropicInit ==
    /\ wireHistory \in {s \in Histories : Accepted(s)}
    /\ streaming \in BOOLEAN /\ hasPlan \in BOOLEAN /\ channel = "paid" /\ request = 1
    /\ wireStep = "convert" /\ heardText = <<>> /\ toolBlocks = [b \in 1..MaxBlocks |-> Missing]
    /\ answer = <<>> /\ toolCalls = <<>> /\ shownText = <<>> /\ sent = 0

-----------------------------------------------------------------------------
(* messages_to_anthropic.  A turn is made of messages of the history, by   *)
(* number.  Results wait until the next message that is no result and then *)
(* make one turn of the user; a turn joins its neighbour of the same role  *)
(* unless one of them carries results; a message that says nothing makes   *)
(* no turn.                                                                *)
WireTurn(role, results, of) == [role |-> role, results |-> results, of |-> of]

AppendTurn(turns, t) ==
    LET last == turns[Len(turns)]
    IN IF turns # <<>> /\ last.role = t.role /\ ~last.results /\ ~t.results
       THEN [turns EXCEPT ![Len(turns)] = WireTurn(t.role, FALSE, last.of \cup t.of)]
       ELSE Append(turns, t)

Flushed(state) ==
    IF state.pending = {} THEN state
    ELSE [turns |-> AppendTurn(state.turns, WireTurn("user", TRUE, state.pending)),
          pending |-> {}]

Converted(state, s, k) ==
    LET flushed == Flushed(state)
        speaker == IF s[k].role = "user" THEN "user" ELSE "assistant"
    IN CASE s[k].role = "system" -> state
         [] s[k].role = "result" -> [state EXCEPT !.pending = @ \cup {k}]
         [] s[k].role = "blank" -> flushed
         [] OTHER -> [flushed EXCEPT !.turns = AppendTurn(@, WireTurn(speaker, FALSE, {k}))]

Conversion(s) ==
    LET after[k \in 0..Len(s)] == IF k = 0 THEN [turns |-> <<>>, pending |-> {}]
                                  ELSE Converted(after[k - 1], s, k)
    IN after

Turns(s) == Flushed(Conversion(s)[Len(s)]).turns

Convert ==
    /\ wireStep = "convert" /\ wireStep' = "send" /\ wireHistory' = <<>>
    /\ UNCHANGED <<streaming, hasPlan, channel, request, heardText, toolBlocks, answer,
                   toolCalls, shownText, sent>>

-----------------------------------------------------------------------------
FailRequest == wireStep' = "failed" /\ UNCHANGED <<request, channel>>
RetryRequest ==
    IF request <= WireRetries
    THEN request' = request + 1 /\ wireStep' = "send" /\ UNCHANGED channel
    ELSE FailRequest

(* No connection, a status that may pass, a refusal, or an empty quota: on *)
(* the paid channel that leads to the plan, with its own attempts.         *)
SendHistory ==
    /\ wireStep = "send" /\ sent' = sent + 1
    /\ \/ RetryRequest
       \/ FailRequest
       \/ /\ hasPlan /\ channel = "paid" /\ channel' = "plan" /\ request' = 1
          /\ UNCHANGED wireStep
       \/ wireStep' = "read" /\ UNCHANGED <<request, channel>>
    /\ heardText' = <<>> /\ toolBlocks' = [b \in 1..MaxBlocks |-> Missing]
    /\ UNCHANGED <<wireHistory, streaming, hasPlan, answer, toolCalls, shownText>>

(* Of the events of a stream those that make the answer; a JSON body holds *)
(* the same blocks.                                                        *)
TextDelta ==
    /\ wireStep = "read" /\ Len(heardText) < MaxPieces
    /\ heardText' = Append(heardText, Len(heardText) + 1)
    /\ shownText' = IF streaming THEN Append(shownText, Len(heardText) + 1) ELSE shownText
    /\ UNCHANGED <<wireHistory, streaming, hasPlan, channel, request, wireStep, toolBlocks,
                   answer, toolCalls, sent>>

OpenBlock(b) ==
    /\ wireStep = "read" /\ ~toolBlocks[b].open
    /\ \E id \in GivenIds \cup {NoId}, named \in BOOLEAN :
         toolBlocks' = [toolBlocks EXCEPT ![b] = [open |-> TRUE, id |-> id, named |-> named]]
    /\ UNCHANGED <<wireHistory, streaming, hasPlan, channel, request, wireStep, heardText,
                   answer, toolCalls, shownText, sent>>

(* A stream that breaks after visible text is not repeated; nor is one     *)
(* that reports an error or breaks for another reason than the transport.  *)
Break ==
    /\ wireStep = "read"
    /\ IF heardText # <<>> /\ streaming THEN FailRequest ELSE FailRequest \/ RetryRequest
    /\ UNCHANGED <<wireHistory, streaming, hasPlan, heardText, toolBlocks, answer, toolCalls,
                   shownText, sent>>

(* unique_tool_call_id: what is missing gets the name of its place, and    *)
(* what is taken the first number that is free.                            *)
FreeId(base, seen) ==
    LET dup(n) == [name |-> base.name, dups |-> Append(base.dups, n)]
    IN IF base \notin seen THEN base
       ELSE dup(Min({n \in 2..(Cardinality(seen) + 2) : dup(n) \notin seen}))

(* The ids of the blocks of an answer in their order, after each of them;  *)
(* a block without a name is dropped.                                      *)
IdsAfter ==
    LET base(b) == IF toolBlocks[b].id = NoId THEN [name |-> "tool", dups |-> <<b>>]
                   ELSE toolBlocks[b].id
        after[b \in 0..MaxBlocks] ==
            IF b = 0 THEN <<>>
            ELSE IF toolBlocks[b].open /\ toolBlocks[b].named
                 THEN Append(after[b - 1], FreeId(base(b), ToSet(after[b - 1])))
                 ELSE after[b - 1]
    IN after

(* The end of the body is the end of the answer, and its usage goes to the *)
(* channel that gave it.                                                   *)
FinishRequest ==
    /\ wireStep = "read" /\ wireStep' = "answered" /\ answer' = heardText
    /\ toolCalls' = IdsAfter[MaxBlocks]
    /\ UNCHANGED <<wireHistory, streaming, hasPlan, channel, request, heardText, toolBlocks,
                   shownText, sent>>

AnthropicNext ==
    \/ Convert \/ SendHistory \/ TextDelta \/ Break \/ FinishRequest
    \/ \E b \in 1..MaxBlocks : OpenBlock(b)

AnthropicSpec == AnthropicInit /\ [][AnthropicNext]_anthropicVars

-----------------------------------------------------------------------------
(* The turns of an accepted history are made of the messages that say      *)
(* something, all of them and in their order; each round's results make    *)
(* one turn right after the turn of their round; one role speaks twice in  *)
(* a row only beside results.                                              *)
TurnsFit(s) ==
    LET turns == Turns(s)
    IN /\ UNION {turns[k].of : k \in DOMAIN turns}
            = {i \in DOMAIN s : s[i].role \notin {"system", "blank"}}
       /\ \A j, k \in DOMAIN turns : j < k => \A x \in turns[j].of, y \in turns[k].of : x < y
       /\ \A k \in DOMAIN turns : \A i \in turns[k].of :
            /\ turns[k].results = (s[i].role = "result")
            /\ turns[k].role = IF s[i].role \in {"user", "result"} THEN "user" ELSE "assistant"
       /\ \A i \in DOMAIN s : s[i].calls > 0 => \E k \in 1..Len(turns) - 1 :
            i \in turns[k].of /\ turns[k + 1].of = i + 1..i + s[i].calls
       /\ \A k \in 1..Len(turns) - 1 : turns[k].role = turns[k + 1].role
            => turns[k].results \/ turns[k + 1].results

(* What was shown for an answered request is its text, once; its calls     *)
(* have different ids; and the attempts end.                               *)
RequestAnswered ==
    /\ wireStep = "convert" => TurnsFit(wireHistory)
    /\ wireStep = "answered" => /\ streaming => shownText = answer
                                /\ IsInjective(toolCalls)
    /\ sent <= (IF hasPlan THEN 2 ELSE 1) * (WireRetries + 1)

(* While a body is read what was shown is what was heard; nothing is shown *)
(* before a request goes out (again), and each attempt sends one.          *)
WireInv ==
    /\ AnthropicTypeOK /\ RequestAnswered
    /\ wireStep = "convert" => Accepted(wireHistory) /\ wireHistory # <<>> /\ sent = 0
    /\ wireStep = "read" /\ streaming => shownText = heardText
    /\ wireStep \in {"convert", "send"} => shownText = <<>>
    /\ ~streaming => shownText = <<>>
    /\ channel = "plan" => hasPlan
    /\ sent <= request + (IF channel = "plan" THEN WireRetries + 1 ELSE 0)
                 - (IF wireStep \in {"convert", "send"} THEN 1 ELSE 0)
=============================================================================
