----------------------------- MODULE ProviderChat -----------------------------
(***************************************************************************)
(* OpenAICompatibleProvider.chat of llm/openai_provider.py: one turn of a  *)
(* model, negotiated with a gateway that may reject the protocol, tools or *)
(* the reasoning effort, may run out of quota, and may break a stream, and *)
(* the assembly of a streamed text from fragments and retries              *)
(* (llm/stream_merge.py).                                                  *)
(*                                                                         *)
(* The model answers each request with the same text.  A gateway streams   *)
(* it in fragments (incremental) or in growing snapshots (cumulative), and *)
(* starts anew when a request is made again.  Retries of a request before  *)
(* its stream opens are part of opening it.                                *)
(***************************************************************************)
EXTENDS Naturals, Sequences, FiniteSets, SequencesExt, FiniteSetsExt

CONSTANTS
    Letters,       \* the alphabet of the text
    MaxText,       \* bound: its length
    Levels,        \* the length of REASONING_FALLBACKS
    ChatRetries,   \* max_retries
    Streak         \* CUMULATIVE_STREAK

ASSUME ChatAssumption ==
    /\ MaxText \in Nat /\ Levels \in Nat /\ ChatRetries \in Nat
    /\ Streak \in Nat \ {0}

Texts == UNION {[1..n -> Letters] : n \in 1..MaxText}
Wires == [protocol : {"responses", "completions"}, native : BOOLEAN, effort : 0..Levels,
          channel : {"paid", "plan"}]
Pieces == [text : Seq(Letters), previous : Seq(Letters), streak : 0..Streak,
           cumulative : BOOLEAN]

VARIABLES
    text,          \* what the model says
    dialect,       \* how the gateway streams it
    plan,          \* there is a plan channel
    auto,          \* the protocol is not locked
    wire,          \* protocol, tool mode, reasoning level, channel
    tries,         \* iterations of the loop of chat
    place,         \* where the turn is
    attempt,       \* attempts of the current stream
    got,           \* how much of the text this attempt has received
    piece,         \* AttemptTextAssembler of the attempt
    committed,     \* committed_text, then the content of the answer
    shown,         \* history: what on_delta showed for this request
    rebased        \* history: the request's buffer was rebased on a snapshot

setting  == <<text, dialect, plan, auto>>
assembly == <<attempt, got, piece, committed, shown, rebased>>
chatVars == <<setting, wire, tries, place, assembly>>

NoPiece == [text |-> <<>>, previous |-> <<>>, streak |-> 0, cumulative |-> FALSE]

ChatTypeOK ==
    /\ text \in Texts /\ dialect \in {"incremental", "cumulative"}
    /\ plan \in BOOLEAN /\ auto \in BOOLEAN /\ rebased \in BOOLEAN /\ wire \in Wires
    /\ tries \in 1..Levels + 3
    /\ place \in {"asking", "streaming", "answered", "failed", "exhausted"}
    /\ attempt \in 0..ChatRetries + 1 /\ got \in 0..Len(text) /\ piece \in Pieces

ChatInit ==
    /\ text \in Texts /\ dialect \in {"incremental", "cumulative"}
    /\ plan \in BOOLEAN /\ auto \in BOOLEAN
    /\ wire \in [protocol : {"responses", "completions"}, native : BOOLEAN,
                 effort : {0, Levels}, channel : {"paid"}]
    /\ auto => wire.protocol = "responses"
    /\ tries = 1 /\ place = "asking" /\ attempt = 0 /\ got = 0
    /\ piece = NoPiece /\ committed = <<>> /\ shown = <<>>
    /\ rebased = FALSE

-----------------------------------------------------------------------------
(* Assembling text. *)

(* AttemptTextAssembler.feed: append, until fragments have repeated their  *)
(* predecessor often enough.                                               *)
Feed(p, fragment) ==
    LET grows == /\ p.previous # <<>> /\ Len(fragment) > Len(p.previous)
                 /\ IsPrefix(p.previous, fragment)
        streak == IF p.cumulative THEN p.streak ELSE IF grows THEN p.streak + 1 ELSE 0
        snapshot == IF p.cumulative THEN IsPrefix(p.text, fragment) ELSE streak = Streak
    IN [text |-> IF snapshot THEN fragment ELSE p.text \o fragment,
        previous |-> fragment, streak |-> streak,
        cumulative |-> p.cumulative \/ streak = Streak]

Overlap(a, b) ==
    Max({k \in 0..Min({Len(a), Len(b)}) : IsSuffix(SubSeq(b, 1, k), a)})

(* Mutant of Suffix: only a repetition of the whole is recognised.         *)
PrefixOnly(previous, current) ==
    IF IsPrefix(previous, current)
    THEN SubSeq(current, Len(previous) + 1, Len(current)) ELSE current

(* merge_retry_snapshot: what is new in current. *)
Suffix(previous, current) ==
    IF IsPrefix(current, previous) THEN <<>>
    ELSE IF IsPrefix(previous, current)
         THEN SubSeq(current, Len(previous) + 1, Len(current))
         ELSE SubSeq(current, Overlap(previous, current) + 1, Len(current))

-----------------------------------------------------------------------------
(* Negotiation. *)

(* The next request of the turn, in a new iteration or in the same one.    *)
Request(iteration) ==
    /\ place' = IF iteration > Levels + 3 THEN "exhausted" ELSE "asking"
    /\ tries' = IF iteration > Levels + 3 THEN tries ELSE iteration
    /\ attempt' = 0 /\ got' = 0 /\ piece' = NoPiece
    /\ committed' = <<>> /\ shown' = <<>> /\ rebased' = FALSE

(* What chat and _attempt_once make of an error.                           *)
Handle(error) ==
    CASE error = "quota" /\ wire.channel = "paid" /\ plan ->
           wire' = [wire EXCEPT !.channel = "plan"] /\ Request(tries)
      [] error \in {"protocol", "transport"} /\ wire.protocol = "responses" /\ auto ->
           wire' = [wire EXCEPT !.protocol = "completions"] /\ Request(tries + 1)
      [] error = "tools" /\ wire.native ->
           wire' = [wire EXCEPT !.native = FALSE] /\ Request(tries + 1)
      [] error = "reasoning" /\ wire.effort > 0 ->
           wire' = [wire EXCEPT !.effort = @ - 1] /\ Request(tries + 1)
      [] OTHER -> place' = "failed" /\ UNCHANGED <<wire, tries, assembly>>

(* The gateway refuses a request, or the retries of its opening are used   *)
(* up.  A quota may also run out after a part of the text was shown.       *)
RefuseRequest(error) ==
    /\ place = "asking" /\ Handle(error)
    /\ UNCHANGED setting

(* Without native tools the answer is fetched as a whole.                  *)
Fetch ==
    /\ place = "asking" /\ ~wire.native
    /\ place' = "answered" /\ committed' = text
    /\ UNCHANGED <<setting, wire, tries, attempt, got, piece, shown, rebased>>

OpenStream ==
    /\ place = "asking" /\ wire.native
    /\ place' = "streaming" /\ attempt' = attempt + 1
    /\ got' = 0 /\ piece' = NoPiece
    /\ UNCHANGED <<setting, wire, tries, committed, shown, rebased>>

(* The next n letters arrive. *)
ReceiveResponse(n) ==
    /\ place = "streaming" /\ wire.protocol = "responses" /\ got + n <= Len(text)
    /\ got' = got + n /\ shown' = shown \o SubSeq(text, got + 1, got + n)
    /\ UNCHANGED <<setting, wire, tries, place, attempt, piece, committed, rebased>>

ReceiveChunk(n) ==
    LET start == IF dialect = "cumulative" THEN 1 ELSE got + 1
    IN /\ place = "streaming" /\ wire.protocol = "completions" /\ got + n <= Len(text)
       /\ got' = got + n /\ piece' = Feed(piece, SubSeq(text, start, got'))
       /\ LET suffix == Suffix(committed, piece'.text)
              latched == piece'.cumulative /\ ~piece.cumulative
          IN /\ shown' = shown \o suffix
             /\ committed' = IF latched THEN piece'.text ELSE committed \o suffix
             /\ rebased' = (rebased \/ latched)
       /\ UNCHANGED <<setting, wire, tries, place, attempt>>

(* The final event of a Responses stream carries the whole answer.         *)
Complete ==
    /\ place = "streaming" /\ got = Len(text) /\ place' = "answered"
    /\ committed' = IF wire.protocol = "responses" THEN text ELSE committed
    /\ UNCHANGED <<setting, wire, tries, attempt, got, piece, shown, rebased>>

(* A broken stream is opened again; one of Responses only before it has    *)
(* shown anything, else its break is an error that carries its cause.      *)
BreakStream ==
    /\ place = "streaming"
    /\ LET again == /\ attempt <= ChatRetries
                    /\ wire.protocol = "responses" => got = 0
       IN IF again THEN place' = "asking" /\ UNCHANGED <<wire, tries, assembly>>
          ELSE Handle("transport")
    /\ UNCHANGED setting

ChatNext ==
    \/ \E error \in {"quota", "protocol", "transport", "tools", "reasoning", "other"} :
         RefuseRequest(error)
    \/ Fetch \/ OpenStream \/ Complete \/ BreakStream
    \/ \E n \in 1..MaxText : ReceiveResponse(n) \/ ReceiveChunk(n)

ChatSpec == ChatInit /\ [][ChatNext]_chatVars

-----------------------------------------------------------------------------
(* The answer is the text of the model, and what was shown for the request *)
(* is the answer or nothing: no retry duplicates, drops or splices text,   *)
(* wherever streams broke.  Where a gateway sends snapshots this is known  *)
(* only once they are recognised, and fragments that are taken for some    *)
(* are the price of it (merge_retry_snapshot, feed).                       *)
AnswerIsWhole ==
    place = "answered" =>
        /\ wire.protocol = "responses" \/ ~wire.native => committed = text
        /\ dialect = "incremental" /\ ~rebased => committed = text
        /\ dialect = "cumulative" /\ piece.cumulative => committed = text
        /\ ~rebased /\ shown # <<>> => shown = committed

(* What was said up to the m-th letter. *)
Said(m) == SubSeq(text, 1, m)

(* A stream of Responses shows what it has received, and is not repeated   *)
(* once that is something; without native tools nothing is shown.  Else    *)
(* what is shown is what is kept, which never goes back behind what an     *)
(* attempt has received.                                                   *)
ChatInv ==
    /\ ChatTypeOK
    /\ place = "asking" => attempt <= ChatRetries
    /\ ~piece.cumulative => piece.streak < Streak
    /\ piece.cumulative => rebased
    /\ ~wire.native => place # "streaming" /\ shown = <<>> /\ ~piece.cumulative
    /\ place = "answered" => IF wire.native THEN got = Len(text) ELSE committed = text
    /\ wire.native /\ wire.protocol = "responses" =>
         /\ shown = Said(got)
         /\ place = "asking" => got = 0
         /\ place = "answered" => committed = text
    /\ wire.native /\ wire.protocol = "completions" =>
         /\ ~rebased => shown = committed
         /\ dialect = "incremental" /\ ~rebased =>
              /\ piece.text = Said(got)
              /\ \E m \in got..Len(text) : committed = Said(m)
         /\ dialect = "cumulative" /\ piece.cumulative /\ place \in {"streaming", "answered"} =>
              piece.text = Said(got) /\ committed = Said(got)
    /\ AnswerIsWhole
=============================================================================
