--------------------------- MODULE BackgroundShells ---------------------------
(***************************************************************************)
(* Background commands of tools/bash.py: a bounded table of shells, each   *)
(* with a process, a thread that drains its output into a ring buffer, and *)
(* tool calls that poll and kill it.  A process may fork: a descendant can *)
(* keep the output pipe open after the shell itself has exited.            *)
(*                                                                         *)
(* Output is numbered by position; shells are numbered in their order.     *)
(***************************************************************************)
EXTENDS Naturals, Sequences, FiniteSets

CONSTANTS
    MaxShells,     \* bound: commands started
    MaxOutput,     \* bound: positions a command writes
    MaxRunning,    \* MAX_CONCURRENT_BACKGROUND
    MaxKept,       \* MAX_FINISHED_SHELLS_KEPT
    Ring,          \* MAX_RETAINED_BG_BYTES
    HeadChars,     \* HEAD_CHARS, less the line with the status
    TailChars      \* TAIL_CHARS

ASSUME ShellsAssumption ==
    {MaxShells, MaxOutput, Ring, HeadChars, TailChars} \subseteq Nat

Shells == 1..MaxShells

VARIABLES
    known,         \* the keys of _BG_SHELLS
    started,       \* commands started so far
    shell          \* each _BackgroundShell with its process and threads

shellVars == <<known, started, shell>>

(* leader: the shell process runs; open: somebody holds the write end;     *)
(* wrote: positions written; draining: the thread _bg_reader reads;        *)
(* killing: a kill is between its two sections; got: history, what polls   *)
(* have returned; twice: history, a poll returned something again; hidden: *)
(* history, what polls left out of an answer that says it is truncated.    *)
Born == [leader |-> TRUE, open |-> TRUE, wrote |-> 0, draining |-> TRUE,
         buffer |-> <<>>, dropped |-> 0, cursor |-> 0, finished |-> FALSE,
         killing |-> FALSE, got |-> {}, twice |-> FALSE, hidden |-> {}]

Records == [leader : BOOLEAN, open : BOOLEAN, wrote : 0..MaxOutput, draining : BOOLEAN,
            buffer : Seq(1..MaxOutput), dropped : 0..MaxOutput, cursor : 0..MaxOutput,
            finished : BOOLEAN, killing : BOOLEAN, got : SUBSET (1..MaxOutput),
            twice : BOOLEAN, hidden : SUBSET (1..MaxOutput)]

ShellsTypeOK ==
    /\ known \subseteq 1..started /\ started \in 0..MaxShells
    /\ shell \in [Shells -> Records]

ShellsInit ==
    /\ known = {} /\ started = 0 /\ shell = [s \in Shells |-> Born]

(* _bg_prune_locked: the oldest finished ones beyond what is kept.         *)
PrunedShells ==
    LET ended == {s \in known : shell[s].finished}
    IN {s \in ended : Cardinality({t \in ended : t > s}) >= MaxKept}

Running(some) == {s \in some : ~shell[s].finished}

StartShell ==
    /\ started < MaxShells
    /\ IF Cardinality(Running(known)) < MaxRunning
       THEN /\ started' = started + 1 /\ known' = (known \ PrunedShells) \cup {started'}
       ELSE known' = known \ PrunedShells /\ UNCHANGED started
    /\ UNCHANGED shell

Alive(s) == s <= started

(* The command: it writes, exits, and may leave the pipe to a descendant.  *)
Emit(s) ==
    /\ Alive(s) /\ shell[s].open /\ shell[s].wrote < MaxOutput
    /\ shell' = [shell EXCEPT ![s].wrote = @ + 1]
    /\ UNCHANGED <<known, started>>

ShellExits(s) ==
    /\ Alive(s) /\ shell[s].leader
    /\ \E open \in {shell[s].open, FALSE} :
         shell' = [shell EXCEPT ![s].leader = FALSE, ![s].open = open]
    /\ UNCHANGED <<known, started>>

CloseOutput(s) ==
    /\ Alive(s) /\ shell[s].open
    /\ shell' = [shell EXCEPT ![s].open = FALSE]
    /\ UNCHANGED <<known, started>>

Drained(s) == shell[s].dropped + Len(shell[s].buffer)

(* Mutant of ReadChunk: the ring is not cut. *)
ReadUncut(s) ==
    /\ Alive(s) /\ shell[s].draining
    /\ \E end \in Drained(s) + 1 .. shell[s].wrote :
         LET chunk == [i \in 1..end - Drained(s) |-> Drained(s) + i]
         IN shell' = [shell EXCEPT ![s].buffer = @ \o chunk]
    /\ UNCHANGED <<known, started>>

(* _bg_reader appends a chunk and drops what exceeds the ring.             *)
ReadChunk(s) ==
    /\ Alive(s) /\ shell[s].draining
    /\ \E end \in Drained(s) + 1 .. shell[s].wrote :
         LET chunk == [i \in 1..end - Drained(s) |-> Drained(s) + i]
             full  == shell[s].buffer \o chunk
             over  == IF Len(full) > Ring THEN Len(full) - Ring ELSE 0
         IN shell' = [shell EXCEPT ![s].buffer = SubSeq(full, over + 1, Len(full)),
                                   ![s].dropped = @ + over]
    /\ UNCHANGED <<known, started>>

(* At the end of the output it waits a while for the exit status.          *)
OutputEnds(s) ==
    /\ Alive(s) /\ shell[s].draining /\ ~shell[s].open
    /\ Drained(s) = shell[s].wrote
    /\ shell' = [shell EXCEPT ![s].draining = FALSE, ![s].finished = TRUE]
    /\ UNCHANGED <<known, started>>

(* split_output: of a text that is too long only both ends are shown.      *)
TooLong(first, last) == last + 1 - first > HeadChars + TailChars

BothEnds(first, last) ==
    {i \in first..last : TooLong(first, last) => (i < first + HeadChars \/ i > last - TailChars)}

(* Mutant of PollShell: the cursor is an index of the ring, not a position. *)
PollRing(s, sinceStart) ==
    LET sh    == shell[s]
        start == IF sinceStart \/ sh.cursor < sh.dropped THEN sh.dropped ELSE sh.cursor
        first == start - sh.dropped + 1
        last  == Len(sh.buffer)
        told  == {sh.buffer[i] : i \in BothEnds(first, last)}
        left  == {sh.buffer[i] : i \in (first..last) \ BothEnds(first, last)}
    IN /\ s \in known
       /\ shell' = [shell EXCEPT ![s].cursor = last, ![s].got = @ \cup told,
                                 ![s].hidden = @ \cup IF TooLong(first, last) THEN left ELSE {},
                                 ![s].twice = @ \/ (~sinceStart /\ told \cap sh.got # {})]
       /\ UNCHANGED <<known, started>>

(* poll_background_shell: both ends of buffer[offset:], and the cursor     *)
(* moves behind all of it.                                                 *)
PollShell(s, sinceStart) ==
    LET sh    == shell[s]
        start == IF sinceStart \/ sh.cursor < sh.dropped THEN sh.dropped ELSE sh.cursor
        first == start - sh.dropped + 1
        last  == Len(sh.buffer)
        told  == {sh.buffer[i] : i \in BothEnds(first, last)}
        left  == {sh.buffer[i] : i \in (first..last) \ BothEnds(first, last)}
    IN /\ s \in known
       /\ shell' = [shell EXCEPT ![s].cursor = Drained(s), ![s].got = @ \cup told,
                                 ![s].hidden = @ \cup IF TooLong(first, last) THEN left ELSE {},
                                 ![s].twice = @ \/ (~sinceStart /\ told \cap sh.got # {})]
       /\ UNCHANGED <<known, started>>

(* kill_background_shell: end the process group while the shell leads it,  *)
(* then record the end; in between the reader and the polls go on.         *)
KillTree(s) ==
    /\ s \in known /\ ~shell[s].killing
    /\ \E open \in (IF shell[s].leader THEN {shell[s].open, FALSE} ELSE {shell[s].open}) :
         shell' = [shell EXCEPT ![s].leader = FALSE, ![s].open = open,
                                ![s].killing = TRUE]
    /\ UNCHANGED <<known, started>>

KillRecord(s) ==
    /\ Alive(s) /\ shell[s].killing
    /\ shell' = [shell EXCEPT ![s].killing = FALSE, ![s].finished = TRUE]
    /\ UNCHANGED <<known, started>>

ShellsNext ==
    \/ StartShell
    \/ \E s \in Shells :
         \/ Emit(s) \/ ShellExits(s) \/ CloseOutput(s) \/ ReadChunk(s) \/ OutputEnds(s)
         \/ PollShell(s, TRUE) \/ PollShell(s, FALSE) \/ KillTree(s) \/ KillRecord(s)

ShellsSpec == ShellsInit /\ [][ShellsNext]_shellVars

-----------------------------------------------------------------------------
(* Polls that ask for what is new return no byte twice, and pass over none *)
(* that the ring still holds without saying so, in spite of the ring       *)
(* moving on between them: what is before the cursor was returned, or the  *)
(* ring has dropped it, or the answer that left it out said that it is     *)
(* truncated; also when the shell is killed or read from the start in      *)
(* between.                                                                *)
NewOutputOnce ==
    \A s \in Shells :
        /\ ~shell[s].twice
        /\ \A x \in 1..shell[s].cursor :
             x \in shell[s].got \/ x \in shell[s].hidden \/ x <= shell[s].dropped
        /\ shell[s].cursor <= Drained(s)

(* The ring is the end of what was drained, within its limit; polls told   *)
(* nothing behind the cursor, and all before it that was not dropped.      *)
ShellsInv ==
    /\ ShellsTypeOK
    /\ \A s \in Shells :
         /\ Len(shell[s].buffer) <= Ring /\ Drained(s) <= shell[s].wrote
         /\ \A i \in DOMAIN shell[s].buffer : shell[s].buffer[i] = shell[s].dropped + i
         /\ shell[s].got \subseteq 1..shell[s].cursor
    /\ NewOutputOnce
=============================================================================
