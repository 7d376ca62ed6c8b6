---------------------------- MODULE Chat_proofs ----------------------------
(***************************************************************************)
(* What the parts of a chat tell: the output of background shells, the     *)
(* results of foreground commands, the index of the workspace, the list of *)
(* changes, the answers of the model, each on its own; and AnthropicChat,  *)
(* for any histories, ids and numbers of attempts, blocks and pieces of    *)
(* text, and McpServers, for any servers, tools and folding of names.      *)
(***************************************************************************)
EXTENDS BackgroundShells, ForegroundCommand, EvidenceIndex, ChangeSummary, ProviderChat,
        AnthropicChat, McpServers, Files_proofs

-----------------------------------------------------------------------------
(* The output of a background shell *)

\* The invariant holds before anything is started.
LEMMA ShellsStart == ShellsInit => ShellsInv
<1>. SUFFICES ASSUME ShellsInit PROVE ShellsInv
  OBVIOUS
<1>1. Born \in Records
  BY ShellsAssumption DEF Born, Records
<1>2. ShellsTypeOK
  BY <1>1, ShellsAssumption DEF ShellsInit, ShellsTypeOK
<1>3. \A s \in Shells : shell[s] = Born
  BY DEF ShellsInit
<1>. QED
  BY <1>2, <1>3, ShellsAssumption DEF ShellsInv, NewOutputOnce, Drained, Born

\* What is said of one shell, for a step that changes no other.
ShellInv(r) ==
    /\ r \in Records /\ Len(r.buffer) <= Ring /\ r.dropped + Len(r.buffer) <= r.wrote
    /\ \A i \in DOMAIN r.buffer : r.buffer[i] = r.dropped + i
    /\ r.got \subseteq 1..r.cursor /\ ~r.twice
    /\ \A x \in 1..r.cursor : x \in r.got \/ x \in r.hidden \/ x <= r.dropped
    /\ r.cursor <= r.dropped + Len(r.buffer)

LEMMA ShellByShell ==
    ShellsInv <=> /\ known \subseteq 1..started /\ started \in 0..MaxShells
                  /\ shell = [s \in Shells |-> shell[s]]
                  /\ \A s \in Shells : ShellInv(shell[s])
<1>1. ShellsTypeOK <=> /\ known \subseteq 1..started /\ started \in 0..MaxShells
                       /\ shell = [s \in Shells |-> shell[s]]
                       /\ \A s \in Shells : shell[s] \in Records
  BY DEF ShellsTypeOK
<1>. QED
  BY <1>1 DEF ShellsInv, ShellInv, NewOutputOnce, Drained

\* So it is enough to see each shell after a step.
LEMMA ShellsAfter ==
    ASSUME known' \subseteq 1..started', started' \in 0..MaxShells,
           shell' = [s \in Shells |-> shell'[s]],
           \A s \in Shells : ShellInv(shell'[s])
    PROVE  ShellsInv'
<1>1. ShellsTypeOK'
  <2>1. \A s \in Shells : shell'[s] \in Records
    BY DEF ShellInv
  <2>. QED
    BY <2>1 DEF ShellsTypeOK
<1>. QED
  BY <1>1 DEF ShellsInv, ShellInv, NewOutputOnce, Drained

LEMMA OneShell ==
    ASSUME ShellsInv, NEW s \in Shells, UNCHANGED <<known, started>>, NEW r,
           shell' = [shell EXCEPT ![s] = r], ShellInv(r)
    PROVE  ShellsInv'
<1>1. /\ known' \subseteq 1..started' /\ started' \in 0..MaxShells
      /\ \A t \in Shells : shell'[t] = IF t = s THEN r ELSE shell[t]
      /\ shell' = [t \in Shells |-> shell'[t]]
  BY ShellByShell
<1>2. \A t \in Shells : ShellInv(shell'[t])
  BY <1>1, ShellByShell
<1>. QED
  BY <1>1, <1>2, ShellsAfter

\* What holds of a record, with the types its steps need.
LEMMA ShellFact ==
    ASSUME ShellsInv, NEW s \in Shells
    PROVE  /\ ShellInv(shell[s]) /\ shell[s] \in Records /\ shell[s].buffer \in Seq(1..MaxOutput)
           /\ shell[s].wrote \in 0..MaxOutput /\ shell[s].dropped \in Nat
           /\ shell[s].cursor \in Nat /\ Len(shell[s].buffer) \in Nat /\ MaxOutput \in Nat
           /\ Ring \in Nat
<1>1. ShellInv(shell[s])
  BY ShellByShell
<1>. QED
  BY <1>1, ShellsAssumption DEF ShellInv, Records

\* A start only adds a shell to the table, or none.
LEMMA StartKeeps == ASSUME ShellsInv, StartShell PROVE ShellsInv'
<1>1. /\ shell' = shell /\ started < MaxShells
      /\ \/ started' = started + 1 /\ known' = (known \ PrunedShells) \cup {started'}
         \/ started' = started /\ known' = known \ PrunedShells
  BY DEF StartShell
<1>2. known' \subseteq 1..started' /\ started' \in 0..MaxShells
  BY <1>1, ShellByShell, ShellsAssumption
<1>. QED
  BY <1>1, <1>2, ShellByShell, ShellsAfter

\* What the command, the ends and a kill change is not its output, but that
\* it grows.
LEMMA MarksKeep ==
    ASSUME ShellsInv, NEW s \in Shells,
           \/ Emit(s) \/ ShellExits(s) \/ CloseOutput(s) \/ OutputEnds(s) \/ KillTree(s)
           \/ KillRecord(s)
    PROVE  ShellsInv'
<1>. DEFINE r == shell[s]
<1>f. ShellInv(r) /\ r \in Records /\ r.wrote \in 0..MaxOutput /\ MaxOutput \in Nat
      /\ r.dropped \in Nat /\ Len(r.buffer) \in Nat
  BY ShellFact
<1>1. CASE Emit(s)
  <2>. DEFINE q == [r EXCEPT !.wrote = @ + 1]
  <2>1. UNCHANGED <<known, started>> /\ shell' = [shell EXCEPT ![s] = q] /\ r.wrote < MaxOutput
    BY <1>1, ShellByShell DEF Emit
  <2>w. r.wrote + 1 \in 0..MaxOutput /\ r.wrote + 1 > r.wrote
    BY <1>f, <2>1
  <2>2. /\ q \in Records /\ q.wrote = r.wrote + 1 /\ q.buffer = r.buffer
        /\ q.dropped = r.dropped /\ q.got = r.got /\ q.twice = r.twice /\ q.cursor = r.cursor
        /\ q.hidden = r.hidden
    BY <1>f, <2>w DEF Records
  <2>3. ShellInv(q)
    <3>. HIDE DEF r, q
    <3>. QED
      BY <1>f, <2>2, <2>w DEF ShellInv
  <2>. QED
    BY <2>1, <2>3, OneShell
<1>2. ASSUME NEW leader \in BOOLEAN, NEW stillOpen \in BOOLEAN, NEW draining \in BOOLEAN,
             NEW finished \in BOOLEAN, NEW killing \in BOOLEAN,
             UNCHANGED <<known, started>>,
             shell' = [shell EXCEPT ![s] =
                  [r EXCEPT !.leader = leader, !.open = stillOpen, !.draining = draining,
                            !.finished = finished, !.killing = killing]]
      PROVE  ShellsInv'
  <2>. DEFINE q == [r EXCEPT !.leader = leader, !.open = stillOpen, !.draining = draining,
                             !.finished = finished, !.killing = killing]
  <2>1. q \in Records
    BY <1>f DEF Records
  <2>2. ShellInv(q)
    BY <1>f, <2>1 DEF ShellInv, Records
  <2>. QED
    BY <1>2, <2>2, OneShell
<1>b. {r.leader, r.open, r.draining, r.finished, r.killing} \subseteq BOOLEAN
  BY <1>f DEF Records
<1>3. CASE ShellExits(s)
  <2>1. PICK stillOpen \in {r.open, FALSE} :
          shell' = [shell EXCEPT ![s] = [r EXCEPT !.leader = FALSE, !.open = stillOpen]]
    BY <1>3, ShellByShell DEF ShellExits
  <2>2. [r EXCEPT !.leader = FALSE, !.open = stillOpen] =
        [r EXCEPT !.leader = FALSE, !.open = stillOpen, !.draining = r.draining,
                  !.finished = r.finished, !.killing = r.killing]
    BY <1>f DEF Records
  <2>3. stillOpen \in BOOLEAN
    BY <2>1, <1>b
  <2>4. UNCHANGED <<known, started>>
    BY <1>3 DEF ShellExits
  <2>5. shell' = [shell EXCEPT ![s] =
           [r EXCEPT !.leader = FALSE, !.open = stillOpen, !.draining = r.draining,
                     !.finished = r.finished, !.killing = r.killing]]
    BY <2>1, <2>2
  <2>. HIDE DEF r
  <2>. QED
    BY <1>b, <1>2, <2>3, <2>4, <2>5
<1>4. CASE CloseOutput(s)
  <2>1. [r EXCEPT !.open = FALSE] =
        [r EXCEPT !.leader = r.leader, !.open = FALSE, !.draining = r.draining,
                  !.finished = r.finished, !.killing = r.killing]
    BY <1>f DEF Records
  <2>2. shell' = [shell EXCEPT ![s] = [r EXCEPT !.open = FALSE]]
        /\ UNCHANGED <<known, started>>
    BY <1>4, ShellByShell DEF CloseOutput
  <2>. QED
    BY <1>b, <1>2, <2>1, <2>2
<1>5. CASE OutputEnds(s)
  <2>1. [r EXCEPT !.draining = FALSE, !.finished = TRUE] =
        [r EXCEPT !.leader = r.leader, !.open = r.open, !.draining = FALSE,
                  !.finished = TRUE, !.killing = r.killing]
    BY <1>f DEF Records
  <2>2. shell' = [shell EXCEPT ![s] = [r EXCEPT !.draining = FALSE, !.finished = TRUE]]
        /\ UNCHANGED <<known, started>>
    BY <1>5, ShellByShell DEF OutputEnds
  <2>. QED
    BY <1>b, <1>2, <2>1, <2>2
<1>6. CASE KillTree(s)
  <2>1. PICK stillOpen \in {r.open, FALSE} :
          shell' = [shell EXCEPT ![s] = [r EXCEPT !.leader = FALSE, !.open = stillOpen,
                                                  !.killing = TRUE]]
    BY <1>6, ShellByShell DEF KillTree
  <2>2. [r EXCEPT !.leader = FALSE, !.open = stillOpen, !.killing = TRUE] =
        [r EXCEPT !.leader = FALSE, !.open = stillOpen, !.draining = r.draining,
                  !.finished = r.finished, !.killing = TRUE]
    BY <1>f DEF Records
  <2>. QED
    BY <1>6, <1>b, <1>2, <2>1, <2>2, ZenonT(40) DEF KillTree
<1>7. CASE KillRecord(s)
  <2>1. [r EXCEPT !.killing = FALSE, !.finished = TRUE] =
        [r EXCEPT !.leader = r.leader, !.open = r.open, !.draining = r.draining,
                  !.finished = TRUE, !.killing = FALSE]
    BY <1>f DEF Records
  <2>2. shell' = [shell EXCEPT ![s] = [r EXCEPT !.killing = FALSE, !.finished = TRUE]]
        /\ UNCHANGED <<known, started>>
    BY <1>7, ShellByShell DEF KillRecord
  <2>. QED
    BY <1>b, <1>2, <2>1, <2>2
<1>. QED
  BY <1>1, <1>3, <1>4, <1>5, <1>6, <1>7

\* A window of the output, from a position on, stays one when what follows is
\* appended, and when its start is dropped.
Window(buffer, gone) == \A i \in 1..Len(buffer) : buffer[i] = gone + i

LEMMA WindowGrows ==
    ASSUME NEW M \in Nat, NEW buffer \in Seq(1..M), NEW chunk \in Seq(1..M), NEW gone \in Nat,
           Window(buffer, gone), Window(chunk, gone + Len(buffer))
    PROVE  /\ buffer \o chunk \in Seq(1..M) /\ Len(buffer \o chunk) = Len(buffer) + Len(chunk)
           /\ Window(buffer \o chunk, gone)
<1>1. /\ Len(buffer) \in Nat /\ Len(chunk) \in Nat /\ buffer \o chunk \in Seq(1..M)
      /\ Len(buffer \o chunk) = Len(buffer) + Len(chunk)
  OBVIOUS
<1>2. ASSUME NEW i \in 1..Len(buffer \o chunk) PROVE (buffer \o chunk)[i] = gone + i
  <2>1. CASE i <= Len(buffer)
    <3>1. (buffer \o chunk)[i] = buffer[i]
      BY <2>1, <1>1
    <3>. QED
      BY <2>1, <3>1, <1>1 DEF Window
  <2>2. CASE i > Len(buffer)
    <3>1. i - Len(buffer) \in 1..Len(chunk) /\ i \in Nat
      BY <2>2, <1>1
    <3>2. (buffer \o chunk)[i] = chunk[i - Len(buffer)]
      BY <2>2, <3>1, <1>1
    <3>3. chunk[i - Len(buffer)] = gone + Len(buffer) + (i - Len(buffer))
      BY <3>1 DEF Window
    <3>. QED
      BY <3>1, <3>2, <3>3, <1>1
  <2>. QED
    BY <2>1, <2>2, <1>1
<1>. QED
  BY <1>1, <1>2 DEF Window

LEMMA WindowMoves ==
    ASSUME NEW M \in Nat, NEW full \in Seq(1..M), NEW gone \in Nat, NEW over \in Nat,
           over <= Len(full), Window(full, gone)
    PROVE  /\ SubSeq(full, over + 1, Len(full)) \in Seq(1..M)
           /\ Len(SubSeq(full, over + 1, Len(full))) = Len(full) - over
           /\ Window(SubSeq(full, over + 1, Len(full)), gone + over)
<1>1. Len(full) \in Nat /\ \A i \in over + 1 .. Len(full) : full[i] \in 1..M
  OBVIOUS
<1>2. /\ SubSeq(full, over + 1, Len(full)) \in Seq(1..M)
      /\ Len(SubSeq(full, over + 1, Len(full))) = Len(full) - over
      /\ \A i \in 1..Len(full) - over : SubSeq(full, over + 1, Len(full))[i] = full[over + i]
  BY <1>1, SubSeqProperties
<1>3. \A i \in 1..Len(full) - over : over + i \in 1..Len(full) /\ gone + (over + i) = gone + over + i
  BY <1>1
<1>. QED
  BY <1>2, <1>3 DEF Window

\* What a window holds behind a position of it.
Told(buffer, gone, from) == {buffer[i] : i \in from - gone + 1 .. Len(buffer)}
Behind(end, from) == {x \in 1..end : x > from}

LEMMA WindowTells ==
    ASSUME NEW M \in Nat, NEW buffer \in Seq(1..M), NEW gone \in Nat, NEW from \in Nat,
           gone <= from, from <= gone + Len(buffer),
           Window(buffer, gone)
    PROVE  Told(buffer, gone, from) = Behind(gone + Len(buffer), from)
<1>. DEFINE handed == {buffer[i] : i \in from - gone + 1 .. Len(buffer)}
            all    == {x \in 1..gone + Len(buffer) : x > from}
<1>0. Len(buffer) \in Nat
  OBVIOUS
<1>1. ASSUME NEW x \in handed PROVE x \in all
  <2>1. PICK i \in from - gone + 1 .. Len(buffer) : x = buffer[i]
    OBVIOUS
  <2>2. i \in Nat /\ i >= from - gone + 1 /\ i <= Len(buffer) /\ i \in 1..Len(buffer)
    BY <1>0
  <2>3. x = gone + i
    BY <2>1, <2>2 DEF Window
  <2>. QED
    BY <2>2, <2>3, <1>0
<1>2. ASSUME NEW x \in all PROVE x \in handed
  <2>1. x \in Nat /\ x > from /\ x <= gone + Len(buffer)
    BY <1>0
  <2>2. x - gone \in from - gone + 1 .. Len(buffer) /\ x - gone \in 1..Len(buffer)
    BY <2>1, <1>0
  <2>3. buffer[x - gone] = x
    BY <2>1, <2>2 DEF Window
  <2>. QED
    BY <2>2, <2>3
<1>. HIDE DEF handed, all
<1>3. handed = all
  BY <1>1, <1>2
<1>. QED
  BY <1>3 DEF handed, all, Told, Behind

\* A chunk moves the ring along: its positions stay a window of the output.
LEMMA ReadKeeps ==
    ASSUME ShellsInv, NEW s \in Shells, ReadChunk(s)
    PROVE  ShellsInv'
<1>. DEFINE r == shell[s]
<1>f. /\ ShellInv(r) /\ r \in Records /\ r.wrote \in 0..MaxOutput /\ MaxOutput \in Nat
      /\ r.buffer \in Seq(1..MaxOutput) /\ r.dropped \in Nat /\ Len(r.buffer) \in Nat
      /\ Ring \in Nat /\ r.cursor \in Nat
  BY ShellFact, SMTT(20)
<1>1. PICK end \in (r.dropped + Len(r.buffer)) + 1 .. r.wrote :
        LET chunk == [i \in 1..end - (r.dropped + Len(r.buffer)) |->
                                        r.dropped + Len(r.buffer) + i]
            full  == r.buffer \o chunk
            over  == IF Len(full) > Ring THEN Len(full) - Ring ELSE 0
        IN shell' = [shell EXCEPT ![s].buffer = SubSeq(full, over + 1, Len(full)),
                                  ![s].dropped = @ + over]
  BY DEF ReadChunk, Drained
<1>2. end \in Nat /\ end > r.dropped + Len(r.buffer) /\ end <= r.wrote /\ end <= MaxOutput
  <2>. HIDE DEF r
  <2>1. r.dropped + Len(r.buffer) \in Nat
    BY <1>f
  <2>. QED
    BY <1>f, <2>1
<1>. DEFINE chunk == [i \in 1..end - (r.dropped + Len(r.buffer)) |->
                                        r.dropped + Len(r.buffer) + i]
            full  == r.buffer \o chunk
            over  == IF Len(full) > Ring THEN Len(full) - Ring ELSE 0
            ring  == SubSeq(full, over + 1, Len(full))
            away  == r.dropped + over
            q     == [r EXCEPT !.buffer = ring, !.dropped = away]
<1>3. Window(r.buffer, r.dropped)
  BY <1>f, SMTT(20) DEF ShellInv, Window
<1>4. shell' = [shell EXCEPT ![s] = q] /\ UNCHANGED <<known, started>>
  BY <1>1, ShellByShell DEF ReadChunk
<1>. HIDE DEF r
<1>5. chunk \in Seq(1..MaxOutput) /\ Len(chunk) = end - (r.dropped + Len(r.buffer))
      /\ Window(chunk, r.dropped + Len(r.buffer))
  <2>. DEFINE many == end - (r.dropped + Len(r.buffer))
              edge == r.dropped + Len(r.buffer)
  <2>1. many \in Nat /\ edge \in Nat /\ \A i \in 1..many : edge + i \in 1..MaxOutput
    BY <1>f, <1>2, SMTT(20)
  <2>2. chunk = [i \in 1..many |-> edge + i]
    OBVIOUS
  <2>. HIDE DEF many, edge, chunk
  <2>3. chunk \in Seq(1..MaxOutput) /\ Len(chunk) = many /\ Window(chunk, edge)
    BY <2>1, <2>2 DEF Window
  <2>. QED
    BY <2>3 DEF many, edge
<1>. HIDE DEF chunk
<1>a. full \in Seq(1..MaxOutput) /\ Len(full) = end - r.dropped /\ Window(full, r.dropped)
  <2>1. full \in Seq(1..MaxOutput) /\ Len(full) = Len(r.buffer) + Len(chunk)
        /\ Window(full, r.dropped)
    BY <1>f, <1>3, <1>5, WindowGrows
  <2>. QED
    BY <2>1, <1>5, <1>f, <1>2
<1>. HIDE DEF full
<1>b. Len(full) \in Nat
  BY <1>a
<1>c. over \in Nat /\ over <= Len(full) /\ Len(full) - over <= Ring
  BY <1>b, <1>f
<1>. HIDE DEF over
<1>d. /\ ring \in Seq(1..MaxOutput) /\ Len(ring) = Len(full) - over
      /\ Window(ring, r.dropped + over)
  <2>1. MaxOutput \in Nat /\ r.dropped \in Nat /\ over \in Nat /\ over <= Len(full)
    BY <1>c, <1>f
  <2>2. full \in Seq(1..MaxOutput) /\ Window(full, r.dropped)
    BY <1>a
  <2>. HIDE DEF away, q
  <2>. QED
    BY <2>1, <2>2, WindowMoves, Zenon
<1>. HIDE DEF ring
<1>6. /\ away \in Nat /\ away \in 0..MaxOutput /\ away + Len(ring) = end /\ r.dropped <= away
      /\ \A i \in 1..Len(ring) : ring[i] = away + i
      /\ Len(ring) \in Nat /\ Len(ring) <= Ring
  <2>1. Len(ring) \in Nat /\ Len(ring) <= Ring
    BY <1>b, <1>c, <1>d
  <2>2. away \in Nat /\ r.dropped <= away
    BY <1>c, <1>f, SMTT(20)
  <2>3. away + Len(ring) = end
    BY <1>a, <1>b, <1>c, <1>d, <1>2, <1>f, SMTT(20)
  <2>4. away \in 0..MaxOutput
    BY <2>1, <2>2, <2>3, <1>2, <1>f
  <2>5. \A i \in 1..Len(ring) : ring[i] = away + i
    BY <1>d DEF Window
  <2>. QED
    BY <2>1, <2>2, <2>3, <2>4, <2>5
<1>. HIDE DEF away
<1>7. q \in Records
  BY <1>f, <1>d, <1>6 DEF Records
<1>8. /\ q.buffer = ring /\ q.dropped = away /\ q.wrote = r.wrote
      /\ q.got = r.got /\ q.twice = r.twice /\ q.cursor = r.cursor /\ q.hidden = r.hidden
  BY <1>f DEF Records
<1>. HIDE DEF q
<1>9. ShellInv(q)
  <2>1. r.cursor <= end
    BY <1>f, <1>2 DEF ShellInv
  <2>2. \A x \in 1..r.cursor : x \in r.got \/ x \in r.hidden \/ x <= away
    BY <1>f, <1>6 DEF ShellInv
  <2>3. r.got \subseteq 1..r.cursor /\ ~r.twice
    BY <1>f DEF ShellInv
  <2>. QED
    BY <2>1, <2>2, <2>3, <1>2, <1>d, <1>6, <1>7, <1>8 DEF ShellInv
<1>. QED
  BY <1>4, <1>9, OneShell

\* Of a stretch both ends are told, and what is left out lies in it.
RingPlaces(buffer, some) == {buffer[i] : i \in some}

LEMMA EndsTell ==
    ASSUME NEW buffer, NEW first, NEW last
    PROVE  /\ RingPlaces(buffer, BothEnds(first, last)) \subseteq RingPlaces(buffer, first..last)
           /\ RingPlaces(buffer, (first..last) \ BothEnds(first, last))
                \subseteq RingPlaces(buffer, first..last)
           /\ \A x \in RingPlaces(buffer, first..last) :
                \/ x \in RingPlaces(buffer, BothEnds(first, last))
                \/ /\ x \in RingPlaces(buffer, (first..last) \ BothEnds(first, last))
                   /\ TooLong(first, last)
<1>1. BothEnds(first, last) \subseteq first..last
  BY DEF BothEnds
<1>2. ~TooLong(first, last) => BothEnds(first, last) = first..last
  BY DEF BothEnds
<1>. QED
  BY <1>1, <1>2 DEF RingPlaces

\* A poll tells both ends of the window from its start or from the cursor, and
\* moves the cursor to its end.
LEMMA PollKeeps ==
    ASSUME ShellsInv, NEW s \in Shells, NEW sinceStart \in BOOLEAN, PollShell(s, sinceStart)
    PROVE  ShellsInv'
<1>. DEFINE r     == shell[s]
            from  == IF sinceStart \/ r.cursor < r.dropped THEN r.dropped ELSE r.cursor
            first == from - r.dropped + 1
            last  == Len(r.buffer)
            handed == RingPlaces(r.buffer, first..last)
            heard == RingPlaces(r.buffer, BothEnds(first, last))
            left  == RingPlaces(r.buffer, (first..last) \ BothEnds(first, last))
            end   == r.dropped + Len(r.buffer)
            again == r.twice \/ (~sinceStart /\ heard \cap r.got # {})
            gotten == r.got \cup heard
            unsaid == r.hidden \cup IF TooLong(first, last) THEN left ELSE {}
            q     == [r EXCEPT !.cursor = end, !.got = gotten, !.hidden = unsaid,
                               !.twice = again]
<1>f. /\ ShellInv(r) /\ r \in Records /\ r.wrote \in 0..MaxOutput /\ MaxOutput \in Nat
      /\ r.buffer \in Seq(1..MaxOutput) /\ r.dropped \in Nat /\ Len(r.buffer) \in Nat
      /\ Ring \in Nat /\ r.cursor \in Nat
  BY ShellFact
<1>1. shell' = [shell EXCEPT ![s] = q] /\ UNCHANGED <<known, started>>
  BY ShellByShell DEF PollShell, Drained, RingPlaces
<1>i. /\ r.cursor <= end /\ end <= r.wrote /\ r.got \subseteq 1..r.cursor /\ ~r.twice
      /\ \A x \in 1..r.cursor : x \in r.got \/ x \in r.hidden \/ x <= r.dropped
      /\ \A i \in 1..Len(r.buffer) : r.buffer[i] = r.dropped + i
  BY <1>f DEF ShellInv
<1>. HIDE DEF r
<1>2. from \in Nat /\ from >= r.dropped /\ from <= end /\ end \in Nat /\ end \in 0..MaxOutput
  BY <1>f, <1>i
<1>b. from = r.dropped \/ from = r.cursor
  OBVIOUS
<1>c. ~sinceStart => from >= r.cursor
  BY <1>f
<1>. HIDE DEF from
<1>3. handed = {x \in 1..end : x > from}
  <2>1. Window(r.buffer, r.dropped)
    BY <1>i DEF Window
  <2>. HIDE DEF again, gotten, unsaid, q, end, heard, left
  <2>2. /\ MaxOutput \in Nat /\ r.buffer \in Seq(1..MaxOutput) /\ r.dropped \in Nat
        /\ from \in Nat /\ r.dropped <= from /\ from <= r.dropped + Len(r.buffer)
    BY <1>f, <1>2 DEF end
  <2>. HIDE DEF handed
  <2>3. Told(r.buffer, r.dropped, from) = Behind(r.dropped + Len(r.buffer), from)
    BY <2>1, <2>2, WindowTells, Zenon
  <2>. QED
    BY <2>3, Zenon DEF handed, RingPlaces, end, Told, Behind
<1>e. /\ heard \subseteq handed /\ left \subseteq handed
      /\ \A x \in handed : x \in heard \/ (x \in left /\ TooLong(first, last))
  <2>. HIDE DEF first, last
  <2>. QED
    BY EndsTell
<1>. HIDE DEF handed, heard, left, first, last
<1>4. ~again
  <2>1. \A x \in heard \cap r.got : x > from /\ x <= r.cursor /\ x \in Nat
    BY <1>3, <1>e, <1>i, <1>f, <1>2
  <2>2. ~sinceStart => heard \cap r.got = {}
    BY <2>1, <1>c, <1>2, <1>f
  <2>. QED
    BY <2>2, <1>i
<1>5. gotten \subseteq 1..end /\ unsaid \subseteq r.hidden \cup 1..end
  <2>1. handed \subseteq 1..end
    BY <1>3
  <2>2. r.got \subseteq 1..end
    BY <1>i, <1>2, <1>f
  <2>. QED
    BY <2>1, <2>2, <1>e
<1>6. ASSUME NEW x \in 1..end PROVE x \in gotten \/ x \in unsaid \/ x <= r.dropped
  <2>1. x \in handed \/ x <= from
    BY <1>3, <1>2
  <2>2. CASE from = r.cursor /\ x <= from
    <3>1. x \in 1..r.cursor
      BY <2>2, <1>2, <1>f
    <3>. QED
      BY <3>1, <1>i
  <2>3. CASE x \in handed
    BY <2>3, <1>e
  <2>. QED
    BY <2>1, <2>2, <2>3, <1>b
<1>7. Len(r.buffer) <= Ring
  BY <1>f DEF ShellInv
<1>8. end = r.dropped + Len(r.buffer)
  OBVIOUS
<1>a. again \in BOOLEAN
  BY Zenon
<1>. HIDE DEF again, end, gotten, unsaid
<1>9. q \in Records
  <2>1. gotten \in SUBSET (1..MaxOutput) /\ unsaid \in SUBSET (1..MaxOutput)
    <3>1. r.hidden \subseteq 1..MaxOutput
      BY <1>f DEF Records
    <3>. QED
      BY <3>1, <1>5, <1>2, <1>f
  <2>2. again \in BOOLEAN /\ end \in 0..MaxOutput
    BY <1>a, <1>2
  <2>. QED
    BY <2>1, <2>2, <1>f DEF Records
<1>10. /\ q.cursor = end /\ q.got = gotten /\ q.hidden = unsaid /\ ~q.twice
       /\ q.buffer = r.buffer
       /\ q.dropped = r.dropped /\ q.wrote = r.wrote
  BY <1>4, <1>f DEF Records
<1>. HIDE DEF q
<1>11. ShellInv(q)
  BY <1>2, <1>5, <1>6, <1>7, <1>8, <1>9, <1>10, <1>i, <1>f DEF ShellInv
<1>. QED
  BY <1>1, <1>11, OneShell

\* Nothing of it depends on what else the variables of the chat do.
LEMMA ShellsStutter == ShellsInv /\ UNCHANGED shellVars => ShellsInv'
BY DEF ShellsInv, ShellsTypeOK, NewOutputOnce, Drained, shellVars

LEMMA ShellsKeeps == ShellsInv /\ [ShellsNext]_shellVars => ShellsInv'
BY StartKeeps, MarksKeep, ReadKeeps, PollKeeps, ShellsStutter DEF ShellsNext

\* Polls and rings of shells keep to what was written.
LEMMA ShellsInvariant == ShellsSpec => []ShellsInv
BY ShellsStart, ShellsKeeps, PTL DEF ShellsSpec

(* Polls of a background shell that ask for what is new return nothing     *)
(* twice and pass over nothing its ring still holds without saying so,     *)
(* whatever the ring has dropped in between and however much a poll has to *)
(* leave out of its answer.                                                *)
THEOREM NewOutputIsToldOnce == ShellsSpec => []NewOutputOnce
<1>1. ShellsInv => NewOutputOnce
  BY DEF ShellsInv
<1>. QED
  BY <1>1, ShellsInvariant, PTL
-----------------------------------------------------------------------------
(* The result of a command *)

\* The invariant holds before the command is started.
LEMMA CommandStarts == CommandInit => CommandInv
<1>. SUFFICES ASSUME CommandInit PROVE CommandInv
  OBVIOUS
<1>1. NoBytes \in Counts
  BY CommandAssumption DEF NoBytes, Counts
<1>2. CommandTypeOK
  BY <1>1 DEF CommandInit, CommandTypeOK
<1>. QED
  BY <1>2 DEF CommandInit, CommandInv, NoBytes, ResultIsTold

\* What happens to the process, its pipes left alone.
LEMMA CancelKeeps == CommandInv /\ CancelCommand => CommandInv'
BY DEF CancelCommand, CommandInv, CommandTypeOK, ResultIsTold, family, drained, toolResult

LEMMA ExpireKeeps == CommandInv /\ Expire => CommandInv'
BY DEF Expire, CommandInv, CommandTypeOK, ResultIsTold, family, drained, toolResult

LEMMA StartKeepsIt == CommandInv /\ StartCommand => CommandInv'
<1>. SUFFICES ASSUME CommandInv, StartCommand PROVE CommandInv'
  OBVIOUS
<1>1. CommandTypeOK'
  BY DEF StartCommand, CommandInv, CommandTypeOK
<1>2. process = "none" /\ written = NoBytes /\ captured = NoBytes /\ whole /\ exit = "none"
      /\ reading = {} /\ ~holder
  BY DEF StartCommand, CommandInv
<1>3. ResultIsTold'
  BY <1>2 DEF StartCommand, ResultIsTold
<1>4. UNCHANGED <<commandStop, overdue, commandEnd, code, holder, written, read, kept,
                  overflow, whole, captured, exit, abandoned>>
      /\ \/ commandPc' = "done" /\ UNCHANGED <<process, reading>>
         \/ commandPc' = "poll" /\ process' = "running" /\ reading' = Pipes
  BY DEF StartCommand
<1>5. commandEnd = "none" /\ code = "none"
  BY <1>2 DEF CommandInv, StartCommand
<1>6. CASE commandPc' = "done"
  BY <1>1, <1>2, <1>3, <1>4, <1>5, <1>6 DEF CommandInv
<1>7. CASE commandPc' = "poll"
  BY <1>1, <1>2, <1>3, <1>4, <1>5, <1>7 DEF CommandInv
<1>. QED
  BY <1>4, <1>6, <1>7

LEMMA DescendantKeeps == CommandInv /\ LeaveDescendant => CommandInv'
BY DEF LeaveDescendant, CommandInv, CommandTypeOK, ResultIsTold, thread, drained, toolResult

LEMMA LetGoKeeps == CommandInv /\ LetGo => CommandInv'
<1>. SUFFICES ASSUME CommandInv, LetGo PROVE CommandInv'
  OBVIOUS
<1>1. CommandTypeOK'
  BY DEF LetGo, CommandInv, CommandTypeOK, thread, drained, toolResult
<1>2. ResultIsTold'
  BY DEF LetGo, CommandInv, ResultIsTold, thread, drained, toolResult
<1>. QED
  BY <1>1, <1>2 DEF LetGo, CommandInv, thread, drained, toolResult

LEMMA ExitKeeps ==
    ASSUME CommandInv, NEW how \in {"zero", "nonzero"}, ExitCommand(how)
    PROVE  CommandInv'
BY DEF ExitCommand, CommandInv, CommandTypeOK, ResultIsTold, thread, drained, toolResult

LEMMA PollKeepsIt == CommandInv /\ PollCommand => CommandInv'
<1>. SUFFICES ASSUME CommandInv, PollCommand PROVE CommandInv'
  OBVIOUS
<1>0. UNCHANGED <<commandStop, overdue, written, read, kept, overflow, reading,
                  resultStatus, whole, captured, exit, abandoned>>
  BY DEF PollCommand, drained, toolResult
<1>1. commandPc = "poll" /\ commandPc' = "join" /\ commandEnd = "none"
  BY DEF PollCommand, CommandInv
<1>2. \/ /\ commandEnd' \in {"cancelled", "timed_out"}
         /\ \/ /\ process = "running" /\ process' = "dead"
               /\ code' \in {"zero", "nonzero", "killed"} /\ holder' \in {holder, FALSE}
            \/ UNCHANGED <<process, code, holder>>
      \/ commandEnd' = "none" /\ process = "dead" /\ UNCHANGED <<process, code, holder>>
  BY DEF PollCommand, Terminate, family
<1>3. CommandTypeOK'
  BY <1>0, <1>1, <1>2 DEF CommandInv, CommandTypeOK
<1>4. ResultIsTold'
  BY <1>1 DEF ResultIsTold
<1>5. (code' = "none") <=> process' # "dead"
  BY <1>2 DEF CommandInv
<1>6. code' = "killed" => commandEnd' # "none"
  BY <1>1, <1>2 DEF CommandInv
<1>h. holder' => holder
  <2>1. holder' \in {holder, FALSE} \/ holder' = holder
    BY <1>2
  <2>. QED
    BY <2>1, Zenon
<1>7. /\ process' = "none" => ~holder' /\ process = "none"
      /\ commandEnd' = "none" => process' = "dead"
  BY <1>2, <1>h DEF CommandInv
<1>8. ASSUME NEW p \in Pipes \ reading
      PROVE  ~holder' /\ process' # "running" /\ read[p] = written[p]
  <2>1. ~holder /\ process # "running" /\ read[p] = written[p]
    BY DEF CommandInv
  <2>. QED
    BY <2>1, <1>2, <1>h
<1>. QED
  BY <1>0, <1>1, <1>3, <1>4, <1>5, <1>6, <1>7, <1>8 DEF CommandInv

LEMMA JoinKeeps == CommandInv /\ JoinReaders => CommandInv'
<1>. SUFFICES ASSUME CommandInv, JoinReaders PROVE CommandInv'
  OBVIOUS
<1>0. UNCHANGED <<commandStop, overdue, commandEnd, process, code, holder, written, read,
                  kept, overflow, reading>>
  BY DEF JoinReaders, family, drained
<1>1. commandPc = "join" /\ commandPc' = "done" /\ captured' = kept /\ exit' = code
      /\ abandoned' = reading /\ whole' \in BOOLEAN /\ (whole' <=> overflow = {})
  BY DEF JoinReaders
<1>2. resultStatus' = IF commandEnd # "none" THEN commandEnd
                      ELSE IF code = "zero" THEN "ok" ELSE "error"
  BY DEF JoinReaders
<1>3. CommandTypeOK'
  BY <1>0, <1>1, <1>2 DEF CommandInv, CommandTypeOK
<1>4. ResultIsTold'
  <2>1. resultStatus' = "ok" => exit' = "zero" /\ process' = "dead"
    BY <1>0, <1>1, <1>2 DEF CommandInv, CommandTypeOK
  <2>2. resultStatus' = "error" => exit' \in {"none", "nonzero"}
    BY <1>0, <1>1, <1>2 DEF CommandInv, CommandTypeOK
  <2>3. ASSUME NEW p \in Pipes \ reading, overflow = {} PROVE kept[p] = written[p]
    BY <2>3 DEF CommandInv
  <2>4. ASSUME NEW p \in overflow PROVE p \in Pipes /\ kept[p] = Cap /\ written[p] > Cap
    <3>1. p \in Pipes /\ kept[p] = Cap /\ read[p] > Cap /\ read[p] <= written[p]
      BY <2>4 DEF CommandInv, CommandTypeOK
    <3>2. read[p] \in Nat /\ written[p] \in Nat /\ Cap \in Nat
      BY <3>1, CommandAssumption DEF CommandInv, CommandTypeOK, Counts
    <3>. QED
      BY <3>1, <3>2
  <2>. QED
    BY <1>0, <1>1, <2>1, <2>2, <2>3, <2>4 DEF ResultIsTold
<1>. QED
  BY <1>0, <1>1, <1>3, <1>4 DEF CommandInv

LEMMA WriteKeeps ==
    ASSUME CommandInv, NEW p \in Pipes, WriteByte(p)
    PROVE  CommandInv'
<1>0. UNCHANGED <<commandPc, commandStop, overdue, commandEnd, process, code, holder, read,
                  kept, overflow, reading, resultStatus, whole, captured, exit, abandoned>>
  BY DEF WriteByte, thread, family, drained, toolResult
<1>1. /\ process = "running" \/ holder
      /\ written[p] < MaxWritten /\ written' = [written EXCEPT ![p] = @ + 1]
  BY DEF WriteByte
<1>2. written \in Counts /\ read \in Counts /\ captured \in Counts /\ MaxWritten \in Nat
      /\ Cap \in Nat
  BY CommandAssumption DEF CommandInv, CommandTypeOK
<1>3. written' \in Counts /\ \A x \in Pipes : written'[x] >= written[x]
  BY <1>1, <1>2 DEF Counts
<1>4. p \in reading /\ \A x \in Pipes \ {p} : written'[x] = written[x]
  BY <1>1, <1>2 DEF CommandInv, Counts
<1>5. CommandTypeOK'
  BY <1>0, <1>3 DEF CommandInv, CommandTypeOK
<1>6. \A x \in Pipes : read[x] <= written'[x]
  BY <1>2, <1>3 DEF CommandInv, Counts
<1>7. ResultIsTold'
  <2>1. commandPc = "done" => p \in abandoned
    BY <1>4 DEF CommandInv
  <2>2. \A x \in Pipes : written[x] > Cap => written'[x] > Cap
    BY <1>2, <1>3 DEF Counts
  <2>. QED
    BY <1>0, <1>4, <2>1, <2>2 DEF CommandInv, ResultIsTold
<1>8. process # "none"
  BY <1>1 DEF CommandInv
<1>. QED
  BY <1>0, <1>1, <1>4, <1>5, <1>6, <1>7, <1>8 DEF CommandInv

LEMMA DrainKeeps ==
    ASSUME CommandInv, NEW p \in Pipes, Drain(p)
    PROVE  CommandInv'
BY CommandAssumption DEF Drain, Least, Overflows, CommandInv, CommandTypeOK, Counts,
       ResultIsTold, thread, family, toolResult

LEMMA EndOfFileKeeps ==
    ASSUME CommandInv, NEW p \in Pipes, EndOfFile(p)
    PROVE  CommandInv'
BY DEF EndOfFile, CommandInv, CommandTypeOK, Counts, ResultIsTold, thread, family, toolResult

LEMMA CommandStutters == CommandInv /\ UNCHANGED commandVars => CommandInv'
BY DEF CommandInv, CommandTypeOK, ResultIsTold, commandVars, thread, family, drained, toolResult

LEMMA CommandKeeps == CommandInv /\ [CommandNext]_commandVars => CommandInv'
BY CancelKeeps, ExpireKeeps, StartKeepsIt, DescendantKeeps, LetGoKeeps, ExitKeeps, PollKeepsIt,
   JoinKeeps, WriteKeeps, DrainKeeps, EndOfFileKeeps, CommandStutters DEF CommandNext

\* A command keeps account of its bytes and of its end.
LEMMA CommandInvariant == CommandSpec => []CommandInv
BY CommandStarts, CommandKeeps, PTL DEF CommandSpec

(* A command is told to have succeeded only if it did, and its output is   *)
(* whole or said to be cut.                                                *)
THEOREM ResultIsToldRight == CommandSpec => []ResultIsTold
<1>1. CommandInv => ResultIsTold
  BY DEF CommandInv
<1>. QED
  BY <1>1, CommandInvariant, PTL

-----------------------------------------------------------------------------
(* The records of the index *)

\* The types the steps count with.
LEMMA IndexFacts ==
    ASSUME IndexTypeOK
    PROVE  /\ {clock, now, sign, MaxAge, MaxBody} \subseteq Nat
           /\ \A p \in Paths :
                /\ {body[p], mark[p], served[p], floor[p]} \subseteq 0..MaxBody
                /\ {body[p], mark[p], served[p], floor[p], builtAt[p], built[p], readAt[p]}
                       \subseteq Nat
                /\ store[p] \in Entry /\ next[p] \in Entry
BY IndexAssumption DEF IndexTypeOK

LEMMA EntryFacts ==
    /\ NoRecord \in Entry /\ NoRecord.body = 0
    /\ \A e \in Entry : e.mark \in 0..MaxBody /\ e.body \in 0..MaxBody /\ e.body \in Nat
                        /\ e.mark \in Nat
BY IndexAssumption DEF Entry, NoRecord

LEMMA IndexStarts == IndexInit => IndexInv
<1>. SUFFICES ASSUME IndexInit PROVE IndexInv
  OBVIOUS
<1>1. body \in [Paths -> 0..MaxBody] /\ NoTimeYet \in [Paths -> 0..MaxBody]
      /\ NoTimeYet \in [Paths -> 0..MaxClock]
  BY IndexAssumption DEF IndexInit, NoTimeYet
<1>2. store \in [Paths -> Entry]
  BY EntryFacts DEF IndexInit
<1>z. 0 \in 0..MaxBody /\ 0 \in 0..MaxClock
  BY IndexAssumption
<1>3. IndexTypeOK
  <2>1. /\ {body, mark, served, floor} \subseteq [Paths -> 0..MaxBody]
        /\ {builtAt, built, readAt} \subseteq [Paths -> 0..MaxClock]
    BY <1>1 DEF IndexInit
  <2>2. {store, next} \subseteq [Paths -> Entry]
    BY <1>2 DEF IndexInit
  <2>. QED
    BY <2>1, <2>2, <1>z DEF IndexInit, IndexTypeOK
<1>4. \A p \in Paths : /\ body[p] = 1 /\ mark[p] = 1 /\ floor[p] = 0 /\ readAt[p] = 0
                       /\ served[p] = 0 /\ store[p] = NoRecord
  BY DEF IndexInit, NoTimeYet
<1>. QED
  BY <1>3, <1>4, EntryFacts DEF IndexInit, IndexInv, IndexIsCurrent, RecordInv

\* People only make contents newer and what is asked of the walk less.
LEMMA OutsideKeeps ==
    ASSUME IndexInv, WalkAside, IndexTypeOK',
           barredAll' \subseteq barred', barredAll' \subseteq barredAll,
           openAll' \subseteq there' \ barred', openAll' \subseteq openAll,
           clock <= clock', blunt \subseteq blunt',
           \A p \in Paths : /\ body[p] <= body'[p]
                            /\ p \notin blunt' => mark'[p] = body'[p]
    PROVE  IndexInv'
<1>1. UNCHANGED <<store, builtAt, served, census, walkStep, todo, cut, missed, sign, now, next,
                  built, floor, readAt>>
  BY DEF WalkAside
<1>2. IndexTypeOK
  BY DEF IndexInv
<1>n. now' <= clock'
  BY <1>1, <1>2, IndexFacts DEF IndexInv, IndexTypeOK
<1>3. ASSUME NEW p \in Paths
      PROVE  body'[p] > 0 /\ floor'[p] <= body'[p] /\ readAt'[p] <= clock'
  <2>1. /\ body[p] \in Nat /\ body'[p] \in Nat /\ floor[p] \in Nat /\ readAt[p] \in Nat
        /\ clock \in Nat /\ clock' \in Nat
    BY <1>2, IndexFacts, IndexAssumption DEF IndexTypeOK
  <2>2. body[p] > 0 /\ floor[p] <= body[p] /\ readAt[p] <= clock
    BY DEF IndexInv
  <2>. QED
    BY <1>1, <2>1, <2>2
<1>4. ASSUME NEW p \in Paths, NEW e \in Entry, NEW age, RecordInv(p, e, age)
      PROVE  RecordInv(p, e, age)'
  <2>1. body[p] \in Nat /\ body'[p] \in Nat /\ body[p] <= body'[p] /\ e.body \in Nat
    BY <1>2, IndexFacts, EntryFacts, IndexAssumption DEF IndexTypeOK
  <2>. QED
    BY <1>1, <1>4, <2>1 DEF RecordInv
<1>5. ASSUME NEW p \in Paths PROVE RecordInv(p, store[p], builtAt[p])'
  BY <1>1, <1>4, <1>2, IndexFacts DEF IndexInv
<1>6. ASSUME NEW p \in Paths, walkStep # "idle" PROVE WalkInv(p)'
  <2>1. WalkInv(p) /\ next[p] \in Entry
    BY <1>6, <1>2, IndexFacts DEF IndexInv
  <2>2. RecordInv(p, next[p], built[p])'
    BY <1>1, <1>4, <2>1 DEF WalkInv
  <2>3. walkStep = "body" /\ FirstTodo(p) /\ p \notin blunt' => sign <= body'[p]
    <3>1. /\ body[p] \in Nat /\ body'[p] \in Nat /\ sign \in Nat
          /\ walkStep = "body" /\ FirstTodo(p) /\ p \notin blunt' => sign <= body[p]
      BY <2>1, <1>2, IndexFacts, IndexAssumption DEF IndexTypeOK, WalkInv
    <3>. QED
      BY <3>1
  <2>. QED
    BY <1>1, <2>1, <2>2, <2>3 DEF WalkInv, FirstTodo
<1>7. IndexIsCurrent'
  BY <1>1 DEF IndexInv, IndexIsCurrent
<1>. QED
  BY <1>1, <1>n, <1>3, <1>5, <1>6, <1>7 DEF IndexInv

LEMMA PeopleKeep ==
    ASSUME IndexInv, NEW p, \/ p \in Paths /\ (Edit(p) \/ Delete(p) \/ Forbid(p))
                            \/ Tick
    PROVE  IndexInv'
<1>0. WalkAside
  BY DEF Edit, Delete, Forbid, Tick
<1>1. IndexTypeOK
  BY DEF IndexInv
<1>a. /\ barredAll \subseteq barred /\ openAll \subseteq there \ barred
      /\ \A x \in Paths : x \notin blunt => mark[x] = body[x]
  BY DEF IndexInv
<1>b. /\ \A x \in Paths : body[x] \in Nat
      /\ clock \in Nat /\ MaxClock \in Nat /\ MaxBody \in Nat
  BY <1>1, IndexFacts, IndexAssumption
<1>t. ASSUME body' \in [Paths -> 0..MaxBody], mark' \in [Paths -> 0..MaxBody],
             there' \subseteq Paths, barred' \subseteq Paths, barredAll' \subseteq Paths,
             openAll' \subseteq Paths, blunt' \subseteq Paths, clock' \in 0..MaxClock
      PROVE  IndexTypeOK'
  BY <1>0, <1>1, <1>t DEF IndexTypeOK, WalkAside
<1>2. CASE p \in Paths /\ Edit(p)
  <2>1. /\ body[p] < MaxBody /\ body' = [body EXCEPT ![p] = @ + 1] /\ there' = there \cup {p}
        /\ \/ mark' = [mark EXCEPT ![p] = body'[p]] /\ UNCHANGED blunt
           \/ UNCHANGED mark /\ blunt' = blunt \cup {p}
        /\ UNCHANGED <<barred, clock, barredAll, openAll>>
    BY <1>2 DEF Edit
  <2>b. body \in [Paths -> 0..MaxBody] /\ body[p] + 1 \in 0..MaxBody
    BY <1>2, <2>1, <1>1, <1>b DEF IndexTypeOK
  <2>2. /\ body' \in [Paths -> 0..MaxBody]
        /\ \A x \in Paths : body'[x] = IF x = p THEN body[p] + 1 ELSE body[x]
        /\ \A x \in Paths : body[x] <= body'[x]
    BY <1>2, <2>1, <2>b, <1>b
  <2>3. mark' \in [Paths -> 0..MaxBody]
        /\ \A x \in Paths : x \notin blunt' => mark'[x] = body'[x]
    BY <1>2, <2>1, <2>2, <1>1, <1>a DEF IndexTypeOK
  <2>4. IndexTypeOK'
    BY <1>2, <2>1, <2>2, <2>3, <1>t, <1>1 DEF IndexTypeOK
  <2>. QED
    BY <1>0, <1>a, <1>b, <2>1, <2>2, <2>3, <2>4, OutsideKeeps
<1>3. CASE p \in Paths /\ Delete(p)
  <2>1. /\ there' = there \ {p} /\ openAll' = openAll \ {p}
        /\ UNCHANGED <<body, mark, barred, clock, barredAll, blunt>>
    BY <1>3 DEF Delete
  <2>2. IndexTypeOK'
    BY <2>1, <1>t, <1>1 DEF IndexTypeOK
  <2>. QED
    BY <1>0, <1>a, <1>b, <2>1, <2>2, OutsideKeeps
<1>4. CASE p \in Paths /\ Forbid(p)
  <2>1. /\ barred' = (barred \ {p}) \cup ({p} \ barred)
        /\ barredAll' = barredAll \ {p} /\ openAll' = openAll \ {p}
        /\ UNCHANGED <<there, body, mark, clock, blunt>>
    BY <1>4 DEF Forbid
  <2>2. IndexTypeOK'
    BY <1>4, <2>1, <1>t, <1>1 DEF IndexTypeOK
  <2>. QED
    BY <1>0, <1>a, <1>b, <2>1, <2>2, OutsideKeeps
<1>5. CASE Tick
  <2>1. /\ clock < MaxClock /\ clock' = clock + 1
        /\ UNCHANGED <<tree, barredAll, openAll, blunt>>
    BY <1>5 DEF Tick
  <2>2. IndexTypeOK'
    BY <2>1, <1>t, <1>1, <1>b DEF IndexTypeOK, tree
  <2>. QED
    BY <1>0, <1>a, <1>b, <2>1, <2>2, OutsideKeeps DEF tree
<1>. QED
  BY <1>2, <1>3, <1>4, <1>5

\* A walk begins: all that is there is before it, or it says that it is cut.
LEMMA WalkKeeps == ASSUME IndexInv, Walk PROVE IndexInv'
<1>1. IndexTypeOK
  BY DEF IndexInv
<1>2. PICK found \in SUBSET there :
         /\ \E seen \in SUBSET (found \ Guidance) :
              /\ todo' = (found \cap Guidance) \cup seen
              /\ cut' \in {TRUE, seen # found \ Guidance \/ Cardinality(seen) = MaxFiles}
         /\ openAll' = found \ barred
  BY DEF Walk
<1>s. PICK seen \in SUBSET (found \ Guidance) :
         /\ todo' = (found \cap Guidance) \cup seen
         /\ cut' \in {TRUE, seen # found \ Guidance \/ Cardinality(seen) = MaxFiles}
  BY <1>2
<1>3. /\ walkStep' = "file" /\ now' = clock /\ missed' = FALSE
      /\ next' = [p \in Paths |-> NoRecord] /\ built' = NoTimeYet
      /\ floor' = body /\ barredAll' = barred /\ openAll' \subseteq there \ barred
      /\ UNCHANGED <<there, body, mark, barred, clock, store, builtAt, served, census, sign,
                     readAt, blunt>>
  BY <1>2 DEF Walk, tree
<1>4. cut' \in BOOLEAN /\ (~cut' => openAll' \subseteq todo')
  <2>1. cut' = TRUE \/ cut' = (seen # found \ Guidance \/ Cardinality(seen) = MaxFiles)
    BY <1>s
  <2>2. seen = found \ Guidance => openAll' \subseteq todo'
    BY <1>2, <1>s
  <2>. QED
    BY <2>1, <2>2, Zenon
<1>5. todo' \subseteq Paths
  BY <1>1, <1>2, <1>s DEF IndexTypeOK
<1>6. built' \in [Paths -> 0..MaxClock] /\ next' \in [Paths -> Entry]
  BY <1>3, EntryFacts, IndexAssumption DEF NoTimeYet
<1>7. IndexTypeOK'
  BY <1>1, <1>3, <1>4, <1>5, <1>6, ZenonT(40) DEF IndexTypeOK
<1>8. ASSUME NEW p \in Paths PROVE WalkInv(p)'
  <2>1. next'[p] = NoRecord
    BY <1>3
  <2>. QED
    BY <2>1, <1>3, <1>4 DEF WalkInv, RecordInv
<1>9. ASSUME NEW p \in Paths PROVE RecordInv(p, store[p], builtAt[p])'
  BY <1>3 DEF IndexInv, RecordInv
<1>10. \A p \in Paths : body[p] \in Nat
  BY <1>1, IndexFacts
<1>11. clock \in Nat
  BY <1>1, IndexFacts
<1>. QED
  BY <1>3, <1>7, <1>8, <1>9, <1>10, <1>11 DEF IndexInv, IndexIsCurrent

\* The new records are those of the walk, also when they equal the old.
LEMMA PublishKeeps == ASSUME IndexInv, Publish PROVE IndexInv'
<1>1. IndexTypeOK
  BY DEF IndexInv
<1>2. /\ walkStep = "file" /\ todo = {} /\ walkStep' = "idle" /\ builtAt' = built
      /\ census' = (IF cut \/ missed THEN "short" ELSE "complete")
      /\ cut' = FALSE /\ missed' = FALSE /\ sign' = 0 /\ built' = NoTimeYet
      /\ next' = [p \in Paths |-> NoRecord]
      /\ UNCHANGED <<there, body, mark, barred, clock, todo, now, floor, barredAll, openAll,
                     readAt, blunt>>
  BY DEF Publish, tree
<1>3. store' = next /\ served' \in [Paths -> 0..MaxBody]
      /\ \A p \in Paths : served'[p] = next[p].body
  <2>1. CASE next = store /\ UNCHANGED <<store, served>>
    BY <2>1, <1>1 DEF IndexInv, IndexTypeOK
  <2>2. CASE store' = next /\ served' = [p \in Paths |-> next[p].body]
    BY <2>2, <1>1, IndexFacts, EntryFacts
  <2>. QED
    BY <2>1, <2>2 DEF Publish
<1>4. built' \in [Paths -> 0..MaxClock] /\ next' \in [Paths -> Entry]
  BY <1>2, EntryFacts, IndexAssumption DEF NoTimeYet
<1>5. IndexTypeOK'
  <2>1. 0 \in 0..MaxBody /\ census' \in {"none", "complete", "short"}
    BY <1>2, IndexAssumption
  <2>2. {store', next'} \subseteq [Paths -> Entry]
    BY <1>1, <1>3, <1>4 DEF IndexTypeOK
  <2>3. /\ {body', mark', served', floor'} \subseteq [Paths -> 0..MaxBody]
        /\ {builtAt', built', readAt'} \subseteq [Paths -> 0..MaxClock]
    BY <1>1, <1>2, <1>3, <1>4 DEF IndexTypeOK
  <2>. QED
    BY <1>1, <1>2, <2>1, <2>2, <2>3 DEF IndexTypeOK
<1>6. \A p \in Paths : WalkInv(p) /\ next[p] \in Entry
  BY <1>1, <1>2, IndexFacts DEF IndexInv
<1>7. ASSUME NEW p \in Paths PROVE RecordInv(p, store[p], builtAt[p])'
  BY <1>2, <1>3, <1>6 DEF WalkInv, RecordInv
<1>8. \A p \in Paths : next[p] = NoRecord <=> next[p].body = 0
  <2>1. ASSUME NEW p \in Paths, next[p] # NoRecord PROVE next[p].body # 0
    BY <2>1, <1>6, <1>1, IndexFacts DEF WalkInv, RecordInv
  <2>. QED
    BY <2>1, EntryFacts
<1>9. IndexIsCurrent'
  <2>. SUFFICES ASSUME NEW p \in Paths
                PROVE  /\ next[p].body # 0 /\ next[p].body < floor[p]
                             => p \in blunt /\ now - readAt[p] < MaxAge
                       /\ p \in barredAll => next[p].body = 0
                       /\ census' = "complete" /\ p \in openAll => next[p].body # 0
    BY <1>2, <1>3 DEF IndexIsCurrent
  <2>1. census' = "complete" => ~cut /\ ~missed
    BY <1>2
  <2>. QED
    BY <1>2, <1>6, <1>8, <2>1 DEF WalkInv
<1>. QED
  BY <1>2, <1>3, <1>5, <1>7, <1>9 DEF IndexInv

\* A file is left out, used again or about to be read.
LEMMA VisitKeeps ==
    ASSUME IndexInv, NEW p \in Paths, Visit(p)
    PROVE  IndexInv'
<1>1. IndexTypeOK
  BY DEF IndexInv
<1>2. /\ walkStep = "file" /\ FirstTodo(p) /\ p \in todo
      /\ UNCHANGED <<there, body, mark, barred, clock, store, builtAt, served, census, cut, now,
                     floor, barredAll, openAll, blunt, readAt>>
  BY DEF Visit, Unread, tree, FirstTodo
<1>3. \A x \in Paths : WalkInv(x) /\ RecordInv(x, store[x], builtAt[x])
  BY <1>2 DEF IndexInv
<1>4. ASSUME NEW x \in Paths PROVE RecordInv(x, store[x], builtAt[x])'
  BY <1>2, <1>3 DEF RecordInv
<1>5. ASSUME IndexTypeOK', walkStep' # "idle", \A x \in Paths : WalkInv(x)'
      PROVE  IndexInv'
  BY <1>2, <1>4, <1>5 DEF IndexInv, IndexIsCurrent
<1>6. CASE /\ p \in barred \/ p \notin there
           /\ todo' = todo \ {p} /\ missed' = (missed \/ p \notin barred)
           /\ UNCHANGED <<walkStep, sign, next, built>>
  <2>1. missed' \in BOOLEAN
    BY <1>6, Zenon
  <2>2. IndexTypeOK'
    BY <1>1, <1>2, <1>6, <2>1 DEF IndexTypeOK
  <2>3. p \notin openAll
    BY <1>6 DEF IndexInv
  <2>4. missed => missed'
    BY <1>6, Zenon
  <2>5. ASSUME NEW x \in Paths PROVE WalkInv(x)'
    BY <1>2, <1>3, <1>6, <2>3, <2>4 DEF WalkInv, RecordInv
  <2>. QED
    BY <1>2, <1>5, <1>6, <2>2, <2>5
<1>7. CASE /\ p \in there \ barred /\ FreshRecord(p)
           /\ todo' = todo \ {p} /\ next' = [next EXCEPT ![p] = store[p]]
           /\ built' = [built EXCEPT ![p] = builtAt[p]]
           /\ UNCHANGED <<walkStep, sign, missed>>
  <2>1. /\ next' \in [Paths -> Entry] /\ built' \in [Paths -> 0..MaxClock]
        /\ next'[p] = store[p] /\ built'[p] = builtAt[p]
        /\ \A x \in Paths \ {p} : next'[x] = next[x] /\ built'[x] = built[x]
    BY <1>1, <1>7 DEF IndexTypeOK
  <2>2. IndexTypeOK'
    BY <1>1, <1>2, <1>7, <2>1 DEF IndexTypeOK
  <2>3. p \notin barredAll
    BY <1>7 DEF IndexInv
  <2>4. store[p].body < floor[p] => p \in blunt /\ now - readAt[p] < MaxAge
    <3>1. /\ {body[p], mark[p], floor[p], builtAt[p], readAt[p], now, MaxAge} \subseteq Nat
          /\ store[p].mark \in Nat /\ store[p].body \in Nat
      BY <1>1, IndexFacts, EntryFacts
    <3>2. /\ store[p].mark = mark[p] /\ now - builtAt[p] < MaxAge /\ builtAt[p] <= readAt[p]
          /\ floor[p] <= body[p]
          /\ p \notin blunt => store[p].mark <= store[p].body /\ mark[p] = body[p]
      BY <1>3, <1>7 DEF IndexInv, RecordInv, FreshRecord
    <3>. QED
      BY <3>1, <3>2
  <2>5. ASSUME NEW x \in Paths \ {p} PROVE WalkInv(x)'
    BY <1>2, <1>3, <1>7, <2>1 DEF WalkInv, RecordInv
  <2>6. WalkInv(p)'
    BY <1>2, <1>3, <1>7, <2>1, <2>3, <2>4 DEF WalkInv, RecordInv, FreshRecord
  <2>. QED
    BY <1>2, <1>5, <1>7, <2>2, <2>5, <2>6
<1>8. CASE /\ p \in there \ barred /\ ~FreshRecord(p)
           /\ walkStep' = "body" /\ sign' = mark[p]
           /\ UNCHANGED <<todo, missed, next, built>>
  <2>1. IndexTypeOK'
    BY <1>1, <1>2, <1>8, IndexFacts DEF IndexTypeOK
  <2>2. p \notin barredAll /\ (p \notin blunt => sign' <= body[p])
    BY <1>1, <1>8, IndexFacts DEF IndexInv
  <2>3. \A x \in Paths : FirstTodo(x)' => x = p
    BY <1>2, <1>8, IndexAssumption DEF FirstTodo
  <2>4. ASSUME NEW x \in Paths PROVE WalkInv(x)'
    BY <1>2, <1>3, <1>8, <2>2, <2>3 DEF WalkInv, RecordInv
  <2>. QED
    BY <1>5, <1>8, <2>1, <2>4
<1>. QED
  BY <1>6, <1>7, <1>8 DEF Visit

\* A file is read, or did not open.
LEMMA ReadBodyKeeps ==
    ASSUME IndexInv, NEW p \in Paths, ReadBody(p)
    PROVE  IndexInv'
<1>1. IndexTypeOK
  BY DEF IndexInv
<1>2. /\ walkStep = "body" /\ FirstTodo(p) /\ p \in todo /\ walkStep' = "file" /\ todo' = todo \ {p}
      /\ UNCHANGED <<there, body, mark, barred, clock, store, builtAt, served, census, cut, now,
                     floor, barredAll, openAll, blunt, sign>>
  BY DEF ReadBody, Unread, tree, FirstTodo
<1>3. \A x \in Paths : WalkInv(x) /\ RecordInv(x, store[x], builtAt[x])
  BY <1>2 DEF IndexInv
<1>4. CASE /\ p \in there
           /\ next' = [next EXCEPT ![p] = [mark |-> sign, body |-> body[p]]]
           /\ built' = [built EXCEPT ![p] = now] /\ readAt' = [readAt EXCEPT ![p] = clock]
           /\ UNCHANGED missed
  <2>f. /\ {body[p], floor[p], readAt[p], builtAt[p], now, clock, sign} \subseteq Nat
        /\ body[p] > 0 /\ floor[p] <= body[p] /\ readAt[p] <= clock /\ now <= clock
    BY <1>1, IndexFacts DEF IndexInv
  <2>0. [mark |-> sign, body |-> body[p]] \in Entry /\ now \in 0..MaxClock /\ clock \in 0..MaxClock
    BY <1>1 DEF IndexTypeOK, Entry
  <2>1. /\ next' \in [Paths -> Entry] /\ built' \in [Paths -> 0..MaxClock]
        /\ readAt' \in [Paths -> 0..MaxClock]
        /\ next'[p] = [mark |-> sign, body |-> body[p]] /\ built'[p] = now /\ readAt'[p] = clock
        /\ \A x \in Paths \ {p} : next'[x] = next[x] /\ built'[x] = built[x]
                                  /\ readAt'[x] = readAt[x]
    BY <1>1, <1>4, <2>0 DEF IndexTypeOK
  <2>2. IndexTypeOK'
    BY <1>1, <1>2, <1>4, <2>1 DEF IndexTypeOK
  <2>3. next'[p] # NoRecord
    BY <2>1, <2>f DEF NoRecord
  <2>4. p \notin barredAll /\ (p \notin blunt => sign <= body[p])
    BY <1>2, <1>3 DEF WalkInv
  <2>5. ASSUME NEW x \in Paths \ {p} PROVE WalkInv(x)'
    BY <1>2, <1>3, <1>4, <2>1 DEF WalkInv, RecordInv
  <2>6. WalkInv(p)'
    BY <1>2, <2>1, <2>3, <2>4, <2>f DEF WalkInv, RecordInv
  <2>7. ASSUME NEW x \in Paths
        PROVE  RecordInv(x, store[x], builtAt[x])' /\ readAt'[x] <= clock
    <3>1. CASE x = p
      <4>1. builtAt[p] <= readAt[p] => builtAt[p] <= readAt'[p]
        BY <2>1, <2>f
      <4>. QED
        BY <3>1, <4>1, <1>2, <1>3, <2>1, <2>f DEF RecordInv
    <3>2. CASE x # p
      BY <3>2, <1>2, <1>3, <2>1 DEF RecordInv, IndexInv
    <3>. QED
      BY <3>1, <3>2
  <2>. QED
    BY <1>2, <2>2, <2>5, <2>6, <2>7 DEF IndexInv, IndexIsCurrent
<1>5. CASE missed' = TRUE /\ UNCHANGED <<next, built, readAt>>
  <2>1. IndexTypeOK'
    BY <1>1, <1>2, <1>5 DEF IndexTypeOK
  <2>2. ASSUME NEW x \in Paths PROVE WalkInv(x)' /\ RecordInv(x, store[x], builtAt[x])'
    BY <1>2, <1>3, <1>5 DEF WalkInv, RecordInv
  <2>. QED
    BY <1>2, <1>5, <2>1, <2>2 DEF IndexInv, IndexIsCurrent
<1>. QED
  BY <1>4, <1>5 DEF ReadBody

LEMMA IndexStutters == IndexInv /\ UNCHANGED indexVars => IndexInv'
BY DEF IndexInv, IndexTypeOK, RecordInv, WalkInv, FirstTodo, IndexIsCurrent, indexVars, tree

LEMMA IndexKeeps == IndexInv /\ [IndexNext]_indexVars => IndexInv'
BY WalkKeeps, PublishKeeps, VisitKeeps, ReadBodyKeeps, PeopleKeep, IndexStutters DEF IndexNext

\* The records of the index are as old as they may be.
LEMMA IndexInvariant == IndexSpec => []IndexInv
BY IndexStarts, IndexKeeps, PTL DEF IndexSpec

(* Whatever people do meanwhile, after a refresh no record is older than   *)
(* it may be, none is of a denied file, and none lacks of a full census of *)
(* the directories that could be listed.                                   *)
THEOREM IndexIsCurrentAlways == IndexSpec => []IndexIsCurrent
<1>1. IndexInv => IndexIsCurrent
  BY DEF IndexInv
<1>. QED
  BY <1>1, IndexInvariant, PTL

-----------------------------------------------------------------------------
(* The list of changes *)

\* The types the steps count with.
LEMMA SummaryFacts ==
    ASSUME SummaryTypeOK
    PROVE  /\ 1 \in DOMAIN Commits /\ MaxSaves \in Nat
           /\ \A h \in DOMAIN Commits : Commits[h] \in [Tracked -> 0..MaxSaves]
           /\ \A f \in AllFiles :
                /\ {work[f], time[f], times[f]} \subseteq Nat
                /\ {work[f], time[f], times[f]} \subseteq 0..MaxSaves
           /\ \A f \in Tracked : f \in AllFiles /\ Commits[head][f] \in 0..MaxSaves
BY SummaryAssumption DEF SummaryTypeOK, AllFiles

LEMMA CountFacts ==
    /\ Nil \in Count
    /\ \A v \in 0..MaxSaves, w \in 0..MaxSaves : [from |-> v, to |-> w] \in Count
    /\ 0 \in 0..MaxSaves
    /\ NoCounts \in [AllFiles -> Count] /\ NoTimes \in [AllFiles -> 0..MaxSaves]
    /\ Unlisted \in [AllFiles -> Raws]
BY SummaryAssumption DEF Nil, Count, NoCounts, NoTimes, Unlisted, Raws

\* What git and the audit trail say of a file.
LEMMA RawFacts ==
    ASSUME SummaryTypeOK, NEW f \in AllFiles
    PROVE  /\ \A works \in BOOLEAN, names \in {audited, {}} : Raw(f, works, names) \in Raws
           /\ f \in Tracked /\ Commits[head][f] # work[f] =>
                TrueRaw(f) \in {"??", "D", "M"} /\ (TrueRaw(f) = "??" => Commits[head][f] = 0)
           /\ f \in Tracked /\ Commits[head][f] = work[f] =>
                TrueRaw(f) = "-" \/ (TrueRaw(f) = "audit" /\ work[f] # 0)
<1>1. CASE f \in Tracked /\ Commits[head][f] # work[f]
  <2>1. CASE Commits[head][f] = 0
    BY <1>1, <2>1 DEF Raw, TrueRaw, Raws
  <2>2. CASE Commits[head][f] # 0 /\ work[f] = 0
    BY <1>1, <2>2 DEF Raw, TrueRaw, Raws
  <2>3. CASE Commits[head][f] # 0 /\ work[f] # 0
    BY <1>1, <2>3 DEF Raw, TrueRaw, Raws
  <2>. QED
    BY <1>1, <2>1, <2>2, <2>3
<1>2. CASE ~(f \in Tracked /\ Commits[head][f] # work[f])
  BY <1>2 DEF Raw, TrueRaw, Raws
<1>. QED
  BY <1>1, <1>2

\* What should be answered, and that it is what is counted of a current list.
Due(f) == IF Commits[head][f] = work[f] THEN Nil
          ELSE [from |-> Commits[head][f], to |-> work[f]]

LEMMA CountIsDue ==
    ASSUME SummaryTypeOK, NEW f \in Tracked
    PROVE  IF TrueRaw(f) = "-" THEN Due(f) = Nil ELSE Due(f) = CountOf(TrueRaw(f), head, f, work[f])
<1>1. f \in AllFiles /\ (head = 1 => Commits[head][f] = 0)
  BY SummaryAssumption DEF AllFiles
<1>. QED
  BY <1>1, RawFacts DEF Due, CountOf

LEMMA SummaryStarts == SummaryInit => SummaryInv
<1>. SUFFICES ASSUME SummaryInit PROVE SummaryInv
  OBVIOUS
<1>1. 1 \in DOMAIN Commits /\ \A h \in DOMAIN Commits : Commits[h] \in [Tracked -> 0..MaxSaves]
  BY SummaryAssumption
<1>2. work \in [AllFiles -> 0..MaxSaves] /\ time = work
  BY <1>1, SummaryAssumption DEF SummaryInit, AllFiles
<1>3. saved.print \in Fingerprints
  BY <1>1, CountFacts DEF SummaryInit, Fingerprints
<1>4. SummaryTypeOK
  <2>1. {work, time, times} \subseteq [AllFiles -> 0..MaxSaves]
    BY <1>2, CountFacts DEF SummaryInit
  <2>2. {counts, saved.counts} \subseteq [AllFiles -> Count] /\ saved.known \in BOOLEAN
    BY CountFacts DEF SummaryInit
  <2>3. list \in [AllFiles -> Raws] /\ moves \in 0..MaxMoves
    BY CountFacts, SummaryAssumption DEF SummaryInit
  <2>. QED
    BY <1>1, <1>3, <2>1, <2>2, <2>3 DEF SummaryInit, SummaryTypeOK
<1>. QED
  BY <1>2, <1>4 DEF SummaryInit, SummaryInv, SummaryIsCurrent

\* A request asks git.
LEMMA StatusKeeps == ASSUME SummaryInv, Status PROVE SummaryInv'
<1>1. SummaryTypeOK
  BY DEF SummaryInv
<1>2. PICK works \in BOOLEAN, names \in {audited, {}} :
         list' = [f \in AllFiles |-> Raw(f, works, names)]
  BY DEF Status
<1>3. /\ phase \in {"idle", "answered"} /\ phase' = "sign" /\ quiet' = TRUE
      /\ troubled' = (\E f \in AllFiles : list'[f] # TrueRaw(f))
      /\ UNCHANGED <<head, work, time, audited, times, fromHead, saved, counts, moves,
                     straddled, spoilt>>
  BY DEF Status, repository
<1>4. list' \in [AllFiles -> Raws] /\ troubled' \in BOOLEAN
  <2>1. \A f \in AllFiles : Raw(f, works, names) \in Raws
    BY <1>1, RawFacts
  <2>. QED
    BY <1>2, <1>3, <2>1
<1>5. SummaryTypeOK'
  BY <1>1, <1>3, <1>4 DEF SummaryTypeOK
<1>6. ~troubled' => \A f \in AllFiles : list'[f] = TrueRaw(f)'
  <2>1. \A f \in AllFiles : TrueRaw(f)' = TrueRaw(f)
    BY <1>3 DEF TrueRaw, Raw
  <2>. QED
    BY <1>3, <2>1
<1>7. saved'.known /\ ~spoilt' => \A f \in Tracked : CachedInv(f)'
  BY <1>3 DEF SummaryInv, CachedInv, CountOf
<1>8. ~straddled
  BY <1>3 DEF SummaryInv
<1>. QED
  BY <1>3, <1>5, <1>6, <1>7, <1>8 DEF SummaryInv, SummaryIsCurrent

\* It takes the signatures of the listed files.
LEMMA SignKeeps == ASSUME SummaryInv, Sign PROVE SummaryInv'
<1>1. SummaryTypeOK
  BY DEF SummaryInv
<1>2. PICK lost \in SUBSET {f \in Signed : work[f] # 0} :
         /\ times' = [f \in AllFiles |-> IF f \in Signed \ lost /\ work[f] # 0 THEN time[f] ELSE 0]
         /\ troubled' = (troubled \/ lost # {})
  BY DEF Sign
<1>3. /\ phase = "sign" /\ phase' = "head"
      /\ UNCHANGED <<head, work, time, audited, list, fromHead, saved, counts, moves, quiet,
                     straddled, spoilt>>
  BY DEF Sign, repository
<1>4. times' \in [AllFiles -> 0..MaxSaves] /\ troubled' \in BOOLEAN
  BY <1>1, <1>2, SummaryFacts, CountFacts
<1>5. SummaryTypeOK'
  BY <1>1, <1>3, <1>4 DEF SummaryTypeOK
<1>6. ASSUME NEW f \in AllFiles
      PROVE  /\ times'[f] <= time[f]
             /\ ~troubled' => times'[f] = IF list[f] # "-" THEN work[f] ELSE 0
  <2>1. work[f] \in {0, time[f]} /\ time[f] \in Nat
    BY <1>1, SummaryFacts DEF SummaryInv
  <2>2. ~troubled' => lost = {}
    BY <1>2
  <2>. QED
    BY <1>2, <2>1, <2>2 DEF Signed, Listed
<1>7. quiet /\ ~troubled' => \A f \in AllFiles : list[f] = TrueRaw(f)'
  <2>1. ~troubled' => ~troubled
    BY <1>2
  <2>. QED
    BY <1>3, <2>1 DEF SummaryInv, TrueRaw, Raw
<1>8. saved'.known /\ ~spoilt' => \A f \in Tracked : CachedInv(f)'
  BY <1>3 DEF SummaryInv, CachedInv, CountOf
<1>9. ~straddled
  BY <1>3 DEF SummaryInv
<1>. QED
  BY <1>3, <1>5, <1>6, <1>7, <1>8, <1>9 DEF SummaryInv, SummaryIsCurrent

\* The cache answers only a request whose list and texts are those it counted.
LEMMA CacheIsDue ==
    ASSUME SummaryInv, quiet, ~troubled, ~spoilt, phase = "head", saved.known,
           saved.print = Fingerprint(head), NEW f \in Tracked
    PROVE  saved.counts[f] = Due(f)
<1>1. SummaryTypeOK /\ f \in AllFiles
  BY DEF SummaryInv, AllFiles
<1>2. /\ saved.print.base = head /\ saved.print.raws[f] = list[f]
      /\ saved.print.times[f] = times[f]
  BY <1>1 DEF Fingerprint, Signed, Listed
<1>3. list[f] = TrueRaw(f) /\ times[f] = (IF list[f] # "-" THEN work[f] ELSE 0)
      /\ work[f] \in {0, time[f]} /\ CachedInv(f)
  BY <1>1 DEF SummaryInv
<1>4. CASE TrueRaw(f) = "-"
  BY <1>1, <1>2, <1>3, <1>4, CountIsDue DEF CachedInv
<1>5. CASE TrueRaw(f) # "-"
  <2>1. times[f] = work[f] /\ times[f] <= time[f] /\ time[f] \in Nat
    BY <1>1, <1>2, <1>3, <1>5, SummaryFacts DEF SummaryInv
  <2>2. work[f] # 0 => time[f] = work[f]
    BY <1>3
  <2>3. saved.counts[f] = CountOf(TrueRaw(f), head, f, work[f])
    BY <1>2, <1>3, <1>5, <2>1, <2>2 DEF CachedInv
  <2>. QED
    BY <1>1, <1>5, <2>3, CountIsDue
<1>. QED
  BY <1>4, <1>5

LEMMA LookUpKeeps == ASSUME SummaryInv, LookUp PROVE SummaryInv'
<1>1. SummaryTypeOK
  BY DEF SummaryInv
<1>2. PICK base \in {head, 1} :
         /\ IF saved.known /\ saved.print = Fingerprint(base)
            THEN /\ phase' = "answered" /\ counts' = saved.counts /\ Forget
            ELSE /\ phase' = "count" /\ fromHead' = base /\ UNCHANGED <<counts, list, times>>
         /\ troubled' = (troubled \/ base # head)
  BY DEF LookUp
<1>3. /\ phase = "head"
      /\ UNCHANGED <<head, work, time, audited, saved, moves, quiet, straddled, spoilt>>
  BY DEF LookUp, repository
<1>4. troubled' \in BOOLEAN /\ (~troubled' => ~troubled /\ base = head)
  BY <1>2
<1>5. saved'.known /\ ~spoilt' => \A f \in Tracked : CachedInv(f)'
  BY <1>3 DEF SummaryInv, CachedInv, CountOf
<1>6. ~straddled
  BY <1>3 DEF SummaryInv
<1>7. CASE /\ saved.known /\ saved.print = Fingerprint(base)
           /\ phase' = "answered" /\ counts' = saved.counts /\ Forget
  <2>1. SummaryTypeOK'
    BY <1>1, <1>3, <1>4, <1>7, CountFacts, SummaryFacts DEF SummaryTypeOK, Forget
  <2>2. SummaryIsCurrent'
    <3>1. quiet /\ ~troubled' /\ ~spoilt => \A f \in Tracked : saved.counts[f] = Due(f)
      BY <1>3, <1>4, <1>7, CacheIsDue
    <3>. QED
      BY <1>3, <1>7, <3>1 DEF SummaryIsCurrent, Due
  <2>. QED
    BY <1>3, <1>5, <1>6, <1>7, <2>1, <2>2 DEF SummaryInv
<1>8. CASE phase' = "count" /\ fromHead' = base /\ UNCHANGED <<counts, list, times>>
  <2>1. SummaryTypeOK'
    BY <1>1, <1>3, <1>4, <1>8, SummaryFacts DEF SummaryTypeOK
  <2>2. quiet /\ ~troubled' => \A f \in AllFiles : list[f] = TrueRaw(f)'
    BY <1>3, <1>4 DEF SummaryInv, TrueRaw, Raw
  <2>3. \A f \in AllFiles :
           /\ times'[f] <= time'[f]
           /\ quiet' /\ ~troubled' => times'[f] = IF list'[f] # "-" THEN work'[f] ELSE 0
    BY <1>3, <1>4, <1>8 DEF SummaryInv
  <2>. QED
    BY <1>3, <1>4, <1>5, <1>6, <1>8, <2>1, <2>2, <2>3 DEF SummaryInv, SummaryIsCurrent
<1>. QED
  BY <1>2, <1>7, <1>8

\* What is counted now, and what is kept of it for the next request.
LEMMA CountKeeps == ASSUME SummaryInv, CountLines PROVE SummaryInv'
<1>1. SummaryTypeOK
  BY DEF SummaryInv
<1>2. PICK numbered \in {head # 1, FALSE}, locked \in SUBSET Listed :
         counts' = [f \in AllFiles |-> Counted(f, numbered, locked)]
  BY DEF CountLines
<1>3. /\ phase = "count" /\ phase' = "answered"
      /\ saved' = [known |-> TRUE, print |-> Fingerprint(fromHead), counts |-> counts']
      /\ list' = Unlisted /\ times' = NoTimes /\ fromHead' = 1 /\ straddled' = FALSE
      /\ UNCHANGED <<head, work, time, audited, moves, quiet, troubled>>
  BY DEF CountLines, Forget, repository
<1>4. /\ spoilt' \in BOOLEAN
      /\ ~spoilt' => /\ ~straddled /\ \A f \in Listed : times[f] = 0 => work[f] = 0
                     /\ \A f \in AllFiles : counts'[f] = TrueCount(f)
  <2>1. spoilt' = (\/ straddled \/ \E f \in Listed : times[f] = 0 /\ work[f] # 0
                   \/ \E f \in AllFiles : counts'[f] # TrueCount(f))
    BY DEF CountLines
  <2>. QED
    BY <2>1, Zenon
<1>5. ASSUME NEW f \in AllFiles PROVE Counted(f, numbered, locked) \in Count
  <2>1. work[f] \in 0..MaxSaves /\ (f \in Tracked => Commits[head][f] \in 0..MaxSaves)
    BY <1>1, SummaryFacts
  <2>. QED
    BY <2>1, CountFacts DEF Counted
<1>6. Fingerprint(fromHead) \in Fingerprints
  BY <1>1 DEF SummaryTypeOK, Fingerprint, Fingerprints, Raws
<1>7. SummaryTypeOK'
  <2>1. counts' \in [AllFiles -> Count] /\ saved'.counts = counts' /\ saved'.known \in BOOLEAN
        /\ saved'.print \in Fingerprints
    BY <1>2, <1>3, <1>5, <1>6
  <2>2. fromHead' \in DOMAIN Commits /\ list' \in [AllFiles -> Raws]
        /\ times' \in [AllFiles -> 0..MaxSaves]
    BY <1>3, <1>1, SummaryFacts, CountFacts
  <2>. QED
    BY <1>1, <1>3, <1>4, <2>1, <2>2 DEF SummaryTypeOK
<1>8. ASSUME NEW f \in Tracked, fromHead \in {head, 1}
      PROVE  TrueCount(f) = IF list[f] = "-" THEN Nil
                            ELSE CountOf(list[f], fromHead, f, work[f])
  BY <1>8 DEF TrueCount, Counted, CountOf
<1>9. ASSUME ~spoilt', NEW f \in Tracked PROVE CachedInv(f)'
  <2>1. f \in AllFiles /\ fromHead \in {head, 1}
    BY <1>3, <1>4, <1>9 DEF SummaryInv, AllFiles
  <2>2. /\ saved'.print.base = fromHead /\ saved'.print.raws[f] = list[f]
        /\ saved'.print.times[f] = times[f] /\ saved'.counts[f] = TrueCount(f)
    BY <1>3, <1>4, <1>9, <2>1 DEF Fingerprint, Signed, Listed
  <2>3. CASE list[f] = "-"
    BY <1>8, <2>1, <2>2, <2>3 DEF CachedInv
  <2>4. CASE list[f] # "-"
    <3>1. /\ times[f] <= time[f] /\ work[f] \in {0, time[f]}
          /\ {times[f], time[f], work[f]} \subseteq Nat
          /\ times[f] = 0 => work[f] = 0
      BY <1>1, <1>3, <1>4, <1>9, <2>1, <2>4, SummaryFacts DEF SummaryInv, Listed
    <3>2. \/ times[f] = work[f]
          \/ times[f] # 0 /\ (time[f] > times[f] \/ work[f] = 0)
      BY <3>1
    <3>3. TrueCount(f) = CountOf(list[f], fromHead, f, work[f])
      BY <1>8, <2>1, <2>4
    <3>. QED
      BY <1>3, <2>2, <2>4, <3>1, <3>2, <3>3 DEF CachedInv, CountOf
  <2>. QED
    BY <2>3, <2>4
<1>10. SummaryIsCurrent'
  <2>. SUFFICES ASSUME quiet, ~troubled, ~spoilt', NEW f \in Tracked PROVE counts'[f] = Due(f)
    BY <1>3 DEF SummaryIsCurrent, Due
  <2>1. f \in AllFiles /\ fromHead = head /\ list[f] = TrueRaw(f) /\ counts'[f] = TrueCount(f)
    BY <1>3, <1>4 DEF SummaryInv, AllFiles
  <2>. QED
    BY <1>1, <1>8, <2>1, CountIsDue
<1>. QED
  BY <1>3, <1>4, <1>7, <1>9, <1>10 DEF SummaryInv

\* Whoever saves a file gives it a signature it has never had.
LEMMA SaveKeeps ==
    ASSUME SummaryInv, NEW f \in AllFiles, NEW byAgent \in BOOLEAN, Save(f, byAgent)
    PROVE  SummaryInv'
<1>1. SummaryTypeOK
  BY DEF SummaryInv
<1>2. /\ time[f] < MaxSaves
      /\ \/ work' = [work EXCEPT ![f] = time[f] + 1] /\ time' = [time EXCEPT ![f] = @ + 1]
         \/ work[f] # 0 /\ work' = [work EXCEPT ![f] = 0] /\ UNCHANGED time
      /\ audited' = (IF byAgent THEN audited \cup {f} ELSE audited)
      /\ quiet' = FALSE
      /\ UNCHANGED <<head, moves, straddled, phase, list, times, fromHead, saved, counts,
                     troubled, spoilt>>
  BY DEF Save, PanelAside
<1>3. /\ work \in [AllFiles -> 0..MaxSaves] /\ time \in [AllFiles -> 0..MaxSaves]
      /\ time[f] + 1 \in 0..MaxSaves /\ 0 \in 0..MaxSaves
  BY <1>1, <1>2, SummaryFacts DEF SummaryTypeOK
<1>4. /\ work' \in [AllFiles -> 0..MaxSaves] /\ time' \in [AllFiles -> 0..MaxSaves]
      /\ \A x \in AllFiles : x # f => work'[x] = work[x] /\ time'[x] = time[x]
      /\ \/ work'[f] = time[f] + 1 /\ time'[f] = time[f] + 1
         \/ work'[f] = 0 /\ time'[f] = time[f]
  BY <1>2, <1>3
<1>5. audited' \subseteq AllFiles
  BY <1>1, <1>2 DEF SummaryTypeOK
<1>6. SummaryTypeOK'
  BY <1>1, <1>2, <1>4, <1>5 DEF SummaryTypeOK
<1>7. ASSUME NEW x \in AllFiles
      PROVE  work'[x] \in {0, time'[x]} /\ time[x] <= time'[x]
             /\ {time[x], time'[x], times[x]} \subseteq Nat
  <2>1. {time[x], time'[x], times[x]} \subseteq Nat /\ work[x] \in {0, time[x]}
    BY <1>1, <1>4, SummaryFacts DEF SummaryInv
  <2>. QED
    BY <1>4, <2>1
<1>8. phase \in {"head", "count"} => \A x \in AllFiles : times[x] <= time'[x]
  BY <1>7 DEF SummaryInv
<1>9. ASSUME saved.known, ~spoilt, NEW x \in Tracked PROVE CachedInv(x)'
  <2>1. CachedInv(x) /\ x \in AllFiles /\ saved.print.times[x] \in Nat
    BY <1>1, <1>9 DEF SummaryInv, AllFiles, SummaryTypeOK, Fingerprints
  <2>2. CASE x = f
    <3>1. time[f] <= time'[f] /\ {time[f], time'[f]} \subseteq Nat
      BY <1>7
    <3>2. time'[f] > time[f] \/ work'[f] = 0
      BY <1>4, <3>1
    <3>3. saved.print.times[f] <= time[f] =>
            /\ saved.print.times[f] <= time'[f]
            /\ time[f] > saved.print.times[f] => time'[f] > saved.print.times[f]
            /\ time'[f] > saved.print.times[f] \/ work'[f] = 0
      BY <2>1, <2>2, <3>1, <3>2
    <3>. QED
      BY <1>2, <2>1, <2>2, <3>3 DEF CachedInv, CountOf
  <2>3. CASE x # f
    BY <1>2, <1>4, <2>1, <2>3 DEF CachedInv, CountOf
  <2>. QED
    BY <2>2, <2>3
<1>. QED
  BY <1>2, <1>6, <1>7, <1>8, <1>9 DEF SummaryInv, SummaryIsCurrent

LEMMA MoveHeadKeeps ==
    ASSUME SummaryInv, NEW h \in DOMAIN Commits, MoveHead(h)
    PROVE  SummaryInv'
<1>1. SummaryTypeOK
  BY DEF SummaryInv
<1>2. /\ moves < MaxMoves /\ moves' = moves + 1 /\ head' = h
      /\ quiet' = FALSE /\ straddled' = (phase = "count")
      /\ UNCHANGED <<work, time, audited, phase, list, times, fromHead, saved, counts,
                     troubled, spoilt>>
  BY DEF MoveHead, PanelAside
<1>3. moves' \in 0..MaxMoves
  BY <1>1, <1>2, SummaryAssumption DEF SummaryTypeOK
<1>4. straddled' \in BOOLEAN /\ (straddled' <=> phase = "count")
  BY <1>2
<1>5. SummaryTypeOK'
  BY <1>1, <1>2, <1>3, <1>4 DEF SummaryTypeOK
<1>6. saved'.known /\ ~spoilt' => \A f \in Tracked : CachedInv(f)'
  BY <1>2 DEF SummaryInv, CachedInv, CountOf
<1>. QED
  BY <1>2, <1>4, <1>5, <1>6 DEF SummaryInv, SummaryIsCurrent

LEMMA SummaryStutters == SummaryInv /\ UNCHANGED summaryVars => SummaryInv'
BY DEF SummaryInv, SummaryTypeOK, SummaryIsCurrent, CachedInv, CountOf, TrueRaw, Raw,
       summaryVars, repository

LEMMA SummaryKeeps == SummaryInv /\ [SummaryNext]_summaryVars => SummaryInv'
BY StatusKeeps, SignKeeps, LookUpKeeps, CountKeeps, SaveKeeps, MoveHeadKeeps, SummaryStutters
DEF SummaryNext

\* The list of changes and its cache belong to what they were made from.
LEMMA SummaryInvariant == SummarySpec => []SummaryInv
BY SummaryStarts, SummaryKeeps, PTL DEF SummarySpec

(* What a request answers while nobody works on is the workspace as it is, *)
(* counted or from the cache, unless git or a stat failed in this request, *)
(* or the cached counts were spoilt by a failure or a race.                *)
THEOREM SummaryIsCurrentAlways == SummarySpec => []SummaryIsCurrent
<1>1. SummaryInv => SummaryIsCurrent
  BY DEF SummaryInv
<1>. QED
  BY <1>1, SummaryInvariant, PTL

-----------------------------------------------------------------------------
(* The text of an OpenAI compatible provider *)

LEMMA TextFacts == ASSUME ChatTypeOK PROVE text \in Seq(Letters) /\ Len(text) \in Nat
<1>1. PICK n \in 1..MaxText : text \in [1..n -> Letters]
  BY DEF ChatTypeOK, Texts
<1>. QED
  BY <1>1, ChatAssumption

\* What a text has up to a place, and what follows up to a later one.
LEMMA PartFacts ==
    ASSUME NEW t \in Seq(Letters), NEW a \in Nat, NEW b \in 0..Len(t), a <= b
    PROVE  /\ SubSeq(t, a + 1, b) \in Seq(Letters) /\ Len(SubSeq(t, a + 1, b)) = b - a
           /\ \A i \in 1..b - a : SubSeq(t, a + 1, b)[i] = t[a + i]
BY SubSeqProperties

LEMMA FirstFacts ==
    ASSUME NEW t \in Seq(Letters), NEW b \in 0..Len(t)
    PROVE  /\ SubSeq(t, 1, b) \in Seq(Letters) /\ Len(SubSeq(t, 1, b)) = b
           /\ \A i \in 1..b : SubSeq(t, 1, b)[i] = t[i]
BY SubSeqProperties

LEMMA PartsJoin ==
    ASSUME NEW t \in Seq(Letters), NEW a \in Nat, NEW b \in 0..Len(t), a <= b
    PROVE  SubSeq(t, 1, a) \o SubSeq(t, a + 1, b) = SubSeq(t, 1, b)
<1>. DEFINE u == SubSeq(t, 1, a)
            v == SubSeq(t, a + 1, b)
            w == SubSeq(t, 1, b)
<1>1. a \in 0..Len(t) /\ Len(t) \in Nat
  OBVIOUS
<1>2. /\ u \in Seq(Letters) /\ Len(u) = a /\ \A i \in 1..a : u[i] = t[i]
      /\ w \in Seq(Letters) /\ Len(w) = b /\ \A i \in 1..b : w[i] = t[i]
  BY <1>1, FirstFacts
<1>3. v \in Seq(Letters) /\ Len(v) = b - a /\ \A i \in 1..b - a : v[i] = t[a + i]
  BY PartFacts
<1>. HIDE DEF u, v, w
<1>4. u \o v \in Seq(Letters) /\ Len(u \o v) = b
  BY <1>1, <1>2, <1>3
<1>5. ASSUME NEW i \in 1..b PROVE (u \o v)[i] = w[i]
  <2>1. CASE i <= a
    <3>1. i \in 1..Len(u) /\ i \in 1..a
      BY <1>1, <1>2, <2>1
    <3>2. (u \o v)[i] = u[i]
      BY <1>2, <1>3, <3>1
    <3>. QED
      BY <1>2, <3>1, <3>2
  <2>2. CASE i > a
    <3>1. i - a \in 1..b - a /\ a + (i - a) = i /\ i \in 1..Len(u) + Len(v) /\ i > Len(u)
      BY <1>1, <1>2, <1>3, <2>2
    <3>2. (u \o v)[i] = v[i - a]
      BY <1>2, <1>3, <3>1
    <3>3. v[i - a] = t[a + (i - a)]
      BY <1>3, <3>1
    <3>. QED
      BY <1>2, <3>1, <3>2, <3>3
  <2>3. i <= a \/ i > a
    BY <1>1
  <2>. QED
    BY <2>1, <2>2, <2>3
<1>6. u \o v = w
  BY <1>2, <1>4, <1>5, SeqEqual
<1>. QED
  BY <1>6 DEF u, v, w

\* The beginning of a beginning.
LEMMA FirstOfFirst ==
    ASSUME NEW t \in Seq(Letters), NEW a \in Nat, NEW b \in 0..Len(t), a <= b
    PROVE  /\ SubSeq(SubSeq(t, 1, b), 1, a) = SubSeq(t, 1, a)
           /\ SubSeq(SubSeq(t, 1, b), a + 1, b) = SubSeq(t, a + 1, b)
<1>. DEFINE w == SubSeq(t, 1, b)
<1>1. a \in 0..Len(t) /\ Len(t) \in Nat
  OBVIOUS
<1>2. w \in Seq(Letters) /\ Len(w) = b /\ \A i \in 1..b : w[i] = t[i]
  BY FirstFacts
<1>. HIDE DEF w
<1>3. SubSeq(w, 1, a) = SubSeq(t, 1, a)
  <2>1. /\ SubSeq(w, 1, a) \in Seq(Letters) /\ Len(SubSeq(w, 1, a)) = a
        /\ \A i \in 1..a : SubSeq(w, 1, a)[i] = w[i]
    BY <1>1, <1>2, FirstFacts
  <2>2. /\ SubSeq(t, 1, a) \in Seq(Letters) /\ Len(SubSeq(t, 1, a)) = a
        /\ \A i \in 1..a : SubSeq(t, 1, a)[i] = t[i]
    BY <1>1, FirstFacts
  <2>3. \A i \in 1..a : SubSeq(w, 1, a)[i] = SubSeq(t, 1, a)[i]
    BY <1>1, <1>2, <2>1, <2>2
  <2>. QED
    BY <2>1, <2>2, <2>3, SeqEqual
<1>4. SubSeq(w, a + 1, b) = SubSeq(t, a + 1, b)
  <2>1. /\ SubSeq(w, a + 1, b) \in Seq(Letters) /\ Len(SubSeq(w, a + 1, b)) = b - a
        /\ \A i \in 1..b - a : SubSeq(w, a + 1, b)[i] = w[a + i]
    BY <1>2, PartFacts
  <2>2. /\ SubSeq(t, a + 1, b) \in Seq(Letters) /\ Len(SubSeq(t, a + 1, b)) = b - a
        /\ \A i \in 1..b - a : SubSeq(t, a + 1, b)[i] = t[a + i]
    BY PartFacts
  <2>3. \A i \in 1..b - a : SubSeq(w, a + 1, b)[i] = SubSeq(t, a + 1, b)[i]
    <3>1. \A i \in 1..b - a : a + i \in 1..b
      BY <1>1
    <3>. QED
      BY <1>2, <2>1, <2>2, <3>1
  <2>. QED
    BY <2>1, <2>2, <2>3, SeqEqual
<1>. QED
  BY <1>3, <1>4 DEF w

LEMMA WholeAndNone ==
    ASSUME NEW t \in Seq(Letters)
    PROVE  SubSeq(t, 1, Len(t)) = t /\ SubSeq(t, 1, 0) = <<>>
<1>1. /\ SubSeq(t, 1, Len(t)) \in Seq(Letters) /\ Len(SubSeq(t, 1, Len(t))) = Len(t)
      /\ \A i \in 1..Len(t) : SubSeq(t, 1, Len(t))[i] = t[i]
  BY FirstFacts
<1>2. SubSeq(t, 1, Len(t)) = t
  BY <1>1, SeqEqual
<1>3. SubSeq(t, 1, 0) \in Seq(Letters) /\ Len(SubSeq(t, 1, 0)) = 0
  BY FirstFacts
<1>. QED
  BY <1>2, <1>3

\* Of two beginnings of a text one is a beginning of the other.
LEMMA BeginningsCompare ==
    ASSUME NEW t \in Seq(Letters), NEW a \in 0..Len(t), NEW b \in 0..Len(t)
    PROVE  IsPrefix(SubSeq(t, 1, a), SubSeq(t, 1, b)) <=> a <= b
<1>1. Len(SubSeq(t, 1, a)) = a /\ Len(SubSeq(t, 1, b)) = b
  BY FirstFacts
<1>2. CASE a <= b
  <2>1. SubSeq(SubSeq(t, 1, b), 1, a) = SubSeq(t, 1, a)
    BY <1>2, FirstOfFirst
  <2>2. SubSeq(SubSeq(t, 1, a), 1, a) = SubSeq(t, 1, a)
    BY FirstOfFirst
  <2>. QED
    BY <1>1, <1>2, <2>1, <2>2 DEF IsPrefix
<1>. QED
  BY <1>1, <1>2 DEF IsPrefix

\* A retry that has come as far as b adds what is new, whatever an earlier
\* attempt has left.
LEMMA SuffixOfText ==
    ASSUME NEW t \in Seq(Letters), NEW a \in 0..Len(t), NEW b \in 0..Len(t)
    PROVE  SubSeq(t, 1, a) \o Suffix(SubSeq(t, 1, a), SubSeq(t, 1, b))
               = SubSeq(t, 1, IF a < b THEN b ELSE a)
<1>1. Len(SubSeq(t, 1, a)) = a /\ Len(SubSeq(t, 1, b)) = b
      /\ SubSeq(t, 1, a) \in Seq(Letters)
  BY FirstFacts
<1>2. CASE a < b
  <2>1. Suffix(SubSeq(t, 1, a), SubSeq(t, 1, b)) = SubSeq(SubSeq(t, 1, b), a + 1, b)
    <3>1. ~IsPrefix(SubSeq(t, 1, b), SubSeq(t, 1, a)) /\ IsPrefix(SubSeq(t, 1, a), SubSeq(t, 1, b))
      BY <1>2, BeginningsCompare
    <3>. QED
      BY <1>1, <3>1 DEF Suffix
  <2>2. SubSeq(SubSeq(t, 1, b), a + 1, b) = SubSeq(t, a + 1, b)
    BY <1>2, FirstOfFirst
  <2>3. SubSeq(t, 1, a) \o SubSeq(t, a + 1, b) = SubSeq(t, 1, b)
    BY <1>2, PartsJoin
  <2>. QED
    BY <1>2, <2>1, <2>2, <2>3
<1>3. CASE ~(a < b)
  <2>1. IsPrefix(SubSeq(t, 1, b), SubSeq(t, 1, a))
    BY <1>3, BeginningsCompare
  <2>2. Suffix(SubSeq(t, 1, a), SubSeq(t, 1, b)) = <<>>
    BY <2>1 DEF Suffix
  <2>3. SubSeq(t, 1, a) \o <<>> = SubSeq(t, 1, a)
    BY <1>1
  <2>. QED
    BY <1>3, <2>2, <2>3
<1>. QED
  BY <1>2, <1>3

LEMMA FragmentFacts ==
    ASSUME ChatTypeOK, NEW p \in Pieces, NEW n \in 1..MaxText, NEW start \in 1..got + 1,
           got + n <= Len(text), ~p.cumulative => p.streak < Streak
    PROVE  /\ got + n \in 0..Len(text) /\ got \in Nat /\ n \in Nat /\ n > 0
           /\ SubSeq(text, start, got + n) \in Seq(Letters)
           /\ Feed(p, SubSeq(text, start, got + n)) \in Pieces
           /\ LET q == Feed(p, SubSeq(text, start, got + n))
              IN ~q.cumulative => q.streak < Streak
<1>1. /\ text \in Seq(Letters) /\ Len(text) \in Nat /\ got \in 0..Len(text) /\ n \in Nat /\ n > 0
      /\ MaxText \in Nat /\ Streak \in Nat \ {0}
  BY TextFacts, ChatAssumption DEF ChatTypeOK
<1>2. got + n \in 0..Len(text) /\ got \in Nat
  BY <1>1
<1>3. PICK a \in Nat : start = a + 1 /\ a <= got + n
  <2>1. start - 1 \in Nat /\ start = (start - 1) + 1 /\ start - 1 <= got + n
    BY <1>1
  <2>. QED
    BY <2>1
<1>. DEFINE f == SubSeq(text, start, got + n)
<1>4. f \in Seq(Letters)
  BY <1>1, <1>2, <1>3, PartFacts
<1>. HIDE DEF f
<1>5. /\ p.text \in Seq(Letters) /\ p.previous \in Seq(Letters) /\ p.streak \in 0..Streak
      /\ p.cumulative \in BOOLEAN
  BY DEF Pieces
<1>. DEFINE q == Feed(p, f)
<1>6. /\ q.text \in {f, p.text \o f} /\ q.previous = f
      /\ q.streak \in IF p.cumulative THEN {p.streak} ELSE {p.streak + 1, 0}
      /\ q.cumulative = (p.cumulative \/ q.streak = Streak)
      /\ q = [text |-> q.text, previous |-> q.previous, streak |-> q.streak,
              cumulative |-> q.cumulative]
  BY DEF Feed
<1>. HIDE DEF q
<1>7. p.text \o f \in Seq(Letters) /\ q.cumulative \in BOOLEAN
  BY <1>4, <1>5, <1>6
<1>8. q.streak \in 0..Streak /\ (~q.cumulative => q.streak < Streak)
  <2>1. CASE p.cumulative
    BY <1>5, <1>6, <2>1
  <2>2. CASE ~p.cumulative
    <3>1. p.streak \in Nat /\ p.streak + 1 <= Streak /\ q.streak \in {p.streak + 1, 0}
      BY <1>1, <1>5, <1>6, <2>2
    <3>2. q.cumulative \/ q.streak # Streak
      BY <1>6, Zenon
    <3>. QED
      BY <1>1, <3>1, <3>2
  <2>. QED
    BY <2>1, <2>2
<1>9. q \in Pieces
  BY <1>4, <1>6, <1>7, <1>8 DEF Pieces
<1>. QED
  BY <1>1, <1>2, <1>4, <1>8, <1>9 DEF q, f

LEMMA ChatStarts == ChatInit => ChatInv
<1>. SUFFICES ASSUME ChatInit PROVE ChatInv
  OBVIOUS
<1>1. text \in Seq(Letters) /\ Len(text) \in Nat
  <2>1. PICK n \in 1..MaxText : text \in [1..n -> Letters]
    BY DEF ChatInit, Texts
  <2>. QED
    BY <2>1, ChatAssumption
<1>2. wire \in Wires /\ tries \in 1..Levels + 3 /\ piece \in Pieces
  BY ChatAssumption DEF ChatInit, Wires, Pieces, NoPiece
<1>3. ChatTypeOK
  <2>1. 0 \in 0..Len(text) /\ 0 \in 0..ChatRetries + 1
    BY <1>1, ChatAssumption
  <2>2. FALSE \in BOOLEAN
    OBVIOUS
  <2>. QED
    BY <1>2, <2>1, <2>2 DEF ChatInit, ChatTypeOK
<1>4. Said(0) = <<>>
  BY <1>1, WholeAndNone DEF Said
<1>5. /\ place = "asking" /\ attempt = 0 /\ got = 0 /\ piece = NoPiece
      /\ committed = <<>> /\ shown = <<>> /\ rebased = FALSE
  BY DEF ChatInit
<1>6. NoPiece.text = <<>> /\ ~NoPiece.cumulative /\ NoPiece.streak = 0
  BY DEF NoPiece
<1>7. 0 \in got..Len(text)
  BY <1>1, <1>5
<1>. QED
  BY <1>3, <1>4, <1>5, <1>6, <1>7, ChatAssumption DEF ChatInv, AnswerIsWhole

\* A request that is made anew has shown nothing yet.
LEMMA RequestKeeps ==
    ASSUME ChatTypeOK, NEW iteration \in 1..Levels + 4, Request(iteration),
           UNCHANGED setting, wire' \in Wires
    PROVE  ChatInv'
<1>1. text \in Seq(Letters) /\ Len(text) \in Nat /\ text' = text
  BY TextFacts DEF setting
<1>2. /\ place' \in {"asking", "exhausted"} /\ attempt' = 0 /\ got' = 0 /\ piece' = NoPiece
      /\ committed' = <<>> /\ shown' = <<>> /\ rebased' = FALSE
  BY DEF Request
<1>3. tries' \in 1..Levels + 3
  BY ChatAssumption DEF Request, ChatTypeOK
<1>4. NoPiece.text = <<>> /\ ~NoPiece.cumulative /\ NoPiece.streak = 0 /\ NoPiece \in Pieces
  BY ChatAssumption DEF NoPiece, Pieces
<1>5. ChatTypeOK'
  <2>1. 0 \in 0..Len(text) /\ 0 \in 0..ChatRetries + 1
    BY <1>1, ChatAssumption
  <2>2. text' = text /\ dialect' = dialect /\ plan' = plan /\ auto' = auto
    BY DEF setting
  <2>3. rebased' \in BOOLEAN
    BY <1>2
  <2>. QED
    BY <1>2, <1>3, <1>4, <2>1, <2>2, <2>3 DEF ChatTypeOK
<1>6. Said(0) = <<>>
  BY <1>1, WholeAndNone DEF Said
<1>7. Said(0)' = <<>> /\ Said(got)' = <<>> /\ 0 \in got'..Len(text')
  BY <1>1, <1>2, <1>6 DEF Said
<1>8. \E m \in got'..Len(text') : committed' = Said(m)'
  BY <1>1, <1>2, <1>7
<1>. QED
  BY <1>2, <1>4, <1>5, <1>7, <1>8, ChatAssumption DEF ChatInv, AnswerIsWhole

LEMMA HandleKeeps ==
    ASSUME ChatInv, place # "answered", NEW error, Handle(error), UNCHANGED setting
    PROVE  ChatInv'
<1>1. wire \in Wires /\ tries \in 1..Levels + 3 /\ ChatTypeOK /\ Levels \in Nat
  BY ChatAssumption DEF ChatInv, ChatTypeOK
<1>2. \/ wire' = [wire EXCEPT !.channel = "plan"] /\ Request(tries)
      \/ /\ wire' \in {[wire EXCEPT !.protocol = "completions"], [wire EXCEPT !.native = FALSE]}
         /\ Request(tries + 1)
      \/ /\ wire.effort > 0 /\ wire' = [wire EXCEPT !.effort = @ - 1]
         /\ Request(tries + 1)
      \/ place' = "failed" /\ UNCHANGED <<wire, tries, assembly>>
  BY DEF Handle
<1>3. /\ [wire EXCEPT !.channel = "plan"] \in Wires
      /\ [wire EXCEPT !.protocol = "completions"] \in Wires
      /\ [wire EXCEPT !.native = FALSE] \in Wires
  BY <1>1 DEF Wires
<1>4. wire.effort > 0 => [wire EXCEPT !.effort = @ - 1] \in Wires
  BY <1>1 DEF Wires
<1>5. CASE place' = "failed" /\ UNCHANGED <<wire, tries, assembly>>
  BY <1>5 DEF ChatInv, ChatTypeOK, AnswerIsWhole, Said, assembly, setting
<1>6. CASE wire' \in Wires /\ \E n \in 1..Levels + 4 : Request(n)
  BY <1>1, <1>6, RequestKeeps
<1>7. tries \in 1..Levels + 4 /\ tries + 1 \in 1..Levels + 4
  BY <1>1
<1>. QED
  BY <1>2, <1>3, <1>4, <1>5, <1>6, <1>7

LEMMA FetchKeeps == ChatInv /\ Fetch => ChatInv'
<1>. SUFFICES ASSUME ChatInv, Fetch PROVE ChatInv'
  OBVIOUS
<1>1. /\ place = "asking" /\ ~wire.native /\ place' = "answered" /\ committed' = text
      /\ UNCHANGED <<setting, wire, tries, attempt, got, piece, shown, rebased>>
  BY DEF Fetch
<1>2. ChatTypeOK'
  BY <1>1 DEF ChatInv, ChatTypeOK, setting
<1>. QED
  BY <1>1, <1>2 DEF ChatInv, AnswerIsWhole, setting

LEMMA OpenKeeps == ChatInv /\ OpenStream => ChatInv'
<1>. SUFFICES ASSUME ChatInv, OpenStream PROVE ChatInv'
  OBVIOUS
<1>1. /\ place = "asking" /\ wire.native /\ place' = "streaming" /\ attempt' = attempt + 1
      /\ got' = 0 /\ piece' = NoPiece /\ text' = text /\ dialect' = dialect
      /\ UNCHANGED <<setting, wire, tries, committed, shown, rebased>>
  BY DEF OpenStream, setting
<1>2. text \in Seq(Letters) /\ Len(text) \in Nat /\ got \in 0..Len(text)
  BY TextFacts DEF ChatInv, ChatTypeOK
<1>3. NoPiece.text = <<>> /\ ~NoPiece.cumulative /\ NoPiece.streak = 0 /\ NoPiece \in Pieces
  BY ChatAssumption DEF NoPiece, Pieces
<1>4. attempt' \in 0..ChatRetries + 1 /\ got' \in 0..Len(text)
  BY <1>1, <1>2, ChatAssumption DEF ChatInv, ChatTypeOK
<1>5. ChatTypeOK'
  BY <1>1, <1>3, <1>4 DEF ChatInv, ChatTypeOK, setting
<1>6. Said(0) = <<>>
  BY <1>2, WholeAndNone DEF Said
<1>7. \A m : Said(m)' = Said(m)
  BY <1>1 DEF Said
<1>8. wire.protocol = "responses" => shown' = Said(got)'
  BY <1>1, <1>7 DEF ChatInv
<1>9. ASSUME wire.protocol = "completions", dialect = "incremental", ~rebased
      PROVE  piece'.text = Said(got)' /\ \E m \in got'..Len(text') : committed' = Said(m)'
  <2>1. PICK m \in got..Len(text) : committed = Said(m)
    BY <1>1, <1>9 DEF ChatInv
  <2>2. m \in got'..Len(text') /\ committed' = Said(m)'
    BY <1>1, <1>2, <1>7, <2>1
  <2>3. piece'.text = Said(got)'
    BY <1>1, <1>3, <1>6, <1>7
  <2>. QED
    BY <2>2, <2>3
<1>. QED
  BY <1>1, <1>3, <1>5, <1>7, <1>8, <1>9, ChatAssumption DEF ChatInv, AnswerIsWhole

LEMMA ResponseKeeps ==
    ASSUME ChatInv, NEW n \in 1..MaxText, ReceiveResponse(n)
    PROVE  ChatInv'
<1>1. /\ place = "streaming" /\ wire.protocol = "responses" /\ got + n <= Len(text)
      /\ got' = got + n /\ shown' = shown \o SubSeq(text, got + 1, got + n)
      /\ text' = text /\ dialect' = dialect
      /\ UNCHANGED <<setting, wire, tries, place, attempt, piece, committed, rebased>>
  BY DEF ReceiveResponse, setting
<1>2. text \in Seq(Letters) /\ Len(text) \in Nat /\ got \in 0..Len(text) /\ n \in Nat
  BY TextFacts, ChatAssumption DEF ChatInv, ChatTypeOK
<1>3. got + n \in 0..Len(text) /\ got \in Nat /\ got <= got + n
  BY <1>1, <1>2
<1>4. wire.native /\ shown = Said(got)
  BY <1>1 DEF ChatInv
<1>5. shown' = Said(got + n)
  BY <1>1, <1>2, <1>3, <1>4, PartsJoin DEF Said
<1>6. Said(got)' = Said(got + n)
  BY <1>1 DEF Said
<1>7. ChatTypeOK'
  BY <1>1, <1>3 DEF ChatInv, ChatTypeOK, setting
<1>. QED
  BY <1>1, <1>4, <1>5, <1>6, <1>7 DEF ChatInv, AnswerIsWhole

LEMMA CompleteKeeps == ChatInv /\ Complete => ChatInv'
<1>. SUFFICES ASSUME ChatInv, Complete PROVE ChatInv'
  OBVIOUS
<1>1. /\ place = "streaming" /\ got = Len(text) /\ place' = "answered"
      /\ committed' = IF wire.protocol = "responses" THEN text ELSE committed
      /\ text' = text /\ dialect' = dialect
      /\ UNCHANGED <<setting, wire, tries, attempt, got, piece, shown, rebased>>
  BY DEF Complete, setting
<1>2. text \in Seq(Letters) /\ Len(text) \in Nat
  BY TextFacts DEF ChatInv
<1>3. Said(got) = text /\ Said(got)' = text /\ \A m : Said(m)' = Said(m)
  BY <1>1, <1>2, WholeAndNone DEF Said
<1>4. ChatTypeOK'
  BY <1>1 DEF ChatInv, ChatTypeOK, setting
<1>5. wire.native /\ wire.protocol \in {"responses", "completions"}
  BY <1>1 DEF ChatInv, ChatTypeOK, Wires
<1>6. CASE wire.protocol = "responses"
  <2>1. shown = text /\ committed' = text
    BY <1>1, <1>3, <1>5, <1>6 DEF ChatInv
  <2>. QED
    BY <1>1, <1>3, <1>4, <1>5, <1>6, <2>1 DEF ChatInv, AnswerIsWhole
<1>7. CASE wire.protocol = "completions"
  <2>1. committed' = committed
    BY <1>1, <1>7
  <2>2. dialect = "incremental" /\ ~rebased => piece.text = text /\ committed = text
    <3>. SUFFICES ASSUME dialect = "incremental", ~rebased
                  PROVE  piece.text = text /\ committed = text
      OBVIOUS
    <3>1. PICK m \in got..Len(text) : committed = Said(m)
      BY <1>5, <1>7 DEF ChatInv
    <3>2. m = got
      BY <1>1, <1>2, <3>1
    <3>. QED
      BY <1>3, <1>5, <1>7, <3>1, <3>2 DEF ChatInv
  <2>3. dialect = "cumulative" /\ piece.cumulative => piece.text = text /\ committed = text
    BY <1>1, <1>3, <1>5, <1>7 DEF ChatInv
  <2>4. got \in got..Len(text) /\ got' \in got'..Len(text')
    BY <1>1, <1>2
  <2>5. ~rebased => shown = committed
    BY <1>5, <1>7 DEF ChatInv
  <2>6. dialect' = "incremental" /\ ~rebased' =>
          /\ piece'.text = Said(got)'
          /\ \E m \in got'..Len(text') : committed' = Said(m)'
    BY <1>1, <1>3, <2>1, <2>2, <2>4
  <2>7. AnswerIsWhole'
    BY <1>1, <1>5, <1>7, <2>1, <2>2, <2>3, <2>5 DEF AnswerIsWhole
  <2>. QED
    BY <1>1, <1>3, <1>4, <1>5, <1>7, <2>1, <2>3, <2>5, <2>6, <2>7 DEF ChatInv
<1>. QED
  BY <1>5, <1>6, <1>7

\* What a fragment does to the text of an attempt.
LEMMA FeedFacts ==
    ASSUME NEW p \in Pieces, NEW f
    PROVE  LET q == Feed(p, f)
           IN /\ ~q.cumulative => ~p.cumulative /\ q.text = p.text \o f
              /\ ~p.cumulative /\ q.cumulative => q.text = f
              /\ p.cumulative => q.cumulative /\ (IsPrefix(p.text, f) => q.text = f)
<1>. DEFINE grows == /\ p.previous # <<>> /\ Len(f) > Len(p.previous)
                     /\ IsPrefix(p.previous, f)
            tally == IF p.cumulative THEN p.streak ELSE IF grows THEN p.streak + 1 ELSE 0
            anew == IF p.cumulative THEN IsPrefix(p.text, f) ELSE tally = Streak
            q == Feed(p, f)
<1>1. q = [text |-> IF anew THEN f ELSE p.text \o f, previous |-> f, streak |-> tally,
           cumulative |-> p.cumulative \/ tally = Streak]
  BY DEF Feed
<1>. HIDE DEF q, tally
<1>2. q.text = (IF anew THEN f ELSE p.text \o f)
      /\ (q.cumulative <=> p.cumulative \/ tally = Streak)
  BY <1>1, Zenon
<1>3. /\ ~q.cumulative => ~p.cumulative /\ q.text = p.text \o f
      /\ ~p.cumulative /\ q.cumulative => q.text = f
      /\ p.cumulative => q.cumulative /\ (IsPrefix(p.text, f) => q.text = f)
  BY <1>2, Zenon
<1>. QED
  BY <1>3, Zenon DEF q

LEMMA ChunkKeeps ==
    ASSUME ChatInv, NEW n \in 1..MaxText, ReceiveChunk(n)
    PROVE  ChatInv'
<1>. DEFINE start == IF dialect = "cumulative" THEN 1 ELSE got + 1
            f == SubSeq(text, start, got + n)
            q == Feed(piece, f)
            suffix == Suffix(committed, q.text)
            latched == q.cumulative /\ ~piece.cumulative
<1>1. /\ place = "streaming" /\ wire.protocol = "completions" /\ got + n <= Len(text)
      /\ got' = got + n /\ piece' = q
      /\ shown' = shown \o suffix
      /\ committed' = (IF latched THEN q.text ELSE committed \o suffix)
      /\ rebased' = (rebased \/ latched)
      /\ text' = text /\ dialect' = dialect /\ plan' = plan /\ auto' = auto
      /\ wire' = wire /\ tries' = tries /\ place' = place /\ attempt' = attempt
  BY Zenon DEF ReceiveChunk, setting
<1>2. /\ text \in Seq(Letters) /\ Len(text) \in Nat /\ got \in 0..Len(text) /\ ChatTypeOK
      /\ piece \in Pieces /\ dialect \in {"incremental", "cumulative"} /\ wire.native
      /\ ~piece.cumulative => piece.streak < Streak
      /\ piece.cumulative => rebased
  BY <1>1, TextFacts DEF ChatInv, ChatTypeOK
<1>3. start \in 1..got + 1
  BY <1>2
<1>4. /\ got + n \in 0..Len(text) /\ got \in Nat /\ n \in Nat /\ n > 0 /\ f \in Seq(Letters)
      /\ q \in Pieces /\ (~q.cumulative => q.streak < Streak)
  BY <1>1, <1>2, <1>3, FragmentFacts
<1>5. /\ ~q.cumulative => ~piece.cumulative /\ q.text = piece.text \o f
      /\ ~piece.cumulative /\ q.cumulative => q.text = f
      /\ piece.cumulative => q.cumulative /\ (IsPrefix(piece.text, f) => q.text = f)
  BY <1>2, FeedFacts, Zenon
<1>6. /\ dialect = "cumulative" => f = Said(got + n)
      /\ dialect = "incremental" => f = SubSeq(text, got + 1, got + n)
  BY DEF Said
<1>7. rebased' \in BOOLEAN
  BY <1>1
<1>. HIDE DEF q, f, start, suffix
<1>8. ChatTypeOK'
  BY <1>1, <1>2, <1>4, <1>7 DEF ChatTypeOK
<1>9. \A m : Said(m)' = Said(m)
  BY <1>1 DEF Said
<1>10. q.cumulative => rebased'
  BY <1>1, <1>2
<1>11. ~rebased' => ~rebased /\ ~latched /\ ~q.cumulative
  BY <1>1, <1>10
<1>12. ASSUME ~rebased' PROVE shown' = committed'
  BY <1>1, <1>2, <1>11, <1>12 DEF ChatInv
<1>13. ASSUME dialect = "incremental", ~rebased'
       PROVE  q.text = Said(got + n) /\ \E m \in got + n..Len(text) : committed' = Said(m)
  <2>1. piece.text = Said(got)
    BY <1>1, <1>2, <1>11, <1>13 DEF ChatInv
  <2>2. PICK m \in got..Len(text) : committed = Said(m)
    BY <1>1, <1>2, <1>11, <1>13 DEF ChatInv
  <2>3. q.text = Said(got + n)
    <3>1. q.text = Said(got) \o SubSeq(text, got + 1, got + n)
      BY <1>5, <1>6, <1>11, <1>13, <2>1
    <3>. QED
      BY <1>2, <1>4, <3>1, PartsJoin DEF Said
  <2>. DEFINE far == IF m < got + n THEN got + n ELSE m
  <2>4. m \in 0..Len(text) /\ far \in got + n..Len(text)
    BY <1>2, <1>4, <2>2
  <2>5. committed' = Said(m) \o Suffix(Said(m), Said(got + n))
    BY <1>1, <1>11, <1>13, <2>2, <2>3 DEF suffix
  <2>6. Said(m) \o Suffix(Said(m), Said(got + n)) = Said(far)
    BY <1>2, <1>4, <2>4, SuffixOfText DEF Said
  <2>. QED
    BY <2>3, <2>4, <2>5, <2>6
<1>14. ASSUME dialect = "cumulative", q.cumulative
       PROVE  q.text = Said(got + n) /\ committed' = Said(got + n)
  <2>1. CASE ~piece.cumulative
    BY <1>1, <1>5, <1>6, <1>14, <2>1
  <2>2. CASE piece.cumulative
    <3>1. piece.text = Said(got) /\ committed = Said(got)
      BY <1>1, <1>2, <1>14, <2>2 DEF ChatInv
    <3>2. IsPrefix(Said(got), Said(got + n))
      BY <1>2, <1>4, BeginningsCompare DEF Said
    <3>3. q.text = Said(got + n)
      BY <1>5, <1>6, <1>14, <2>2, <3>1, <3>2
    <3>4. committed' = Said(got) \o Suffix(Said(got), Said(got + n))
      BY <1>1, <2>2, <3>1, <3>3 DEF suffix
    <3>5. got \in 0..Len(text) /\ got < got + n
      BY <1>2, <1>4
    <3>6. Said(got) \o Suffix(Said(got), Said(got + n)) = Said(got + n)
      BY <1>2, <1>4, <3>5, SuffixOfText DEF Said
    <3>. QED
      BY <3>3, <3>4, <3>6
  <2>. QED
    BY <2>1, <2>2
<1>15. dialect' = "incremental" /\ ~rebased' =>
         /\ piece'.text = Said(got)'
         /\ \E m \in got'..Len(text') : committed' = Said(m)'
  BY <1>1, <1>9, <1>13
<1>16. dialect' = "cumulative" /\ piece'.cumulative =>
         piece'.text = Said(got)' /\ committed' = Said(got)'
  BY <1>1, <1>9, <1>14
<1>17. ~piece'.cumulative => piece'.streak < Streak
  BY <1>1, <1>4
<1>. QED
  BY <1>1, <1>2, <1>8, <1>10, <1>12, <1>15, <1>16, <1>17 DEF ChatInv, AnswerIsWhole

LEMMA BreakKeeps == ChatInv /\ BreakStream => ChatInv'
<1>. SUFFICES ASSUME ChatInv, BreakStream PROVE ChatInv'
  OBVIOUS
<1>1. place = "streaming" /\ UNCHANGED setting
  BY DEF BreakStream
<1>2. CASE Handle("transport")
  BY <1>1, <1>2, HandleKeeps
<1>3. CASE /\ attempt <= ChatRetries /\ (wire.protocol = "responses" => got = 0)
           /\ place' = "asking" /\ UNCHANGED <<wire, tries, assembly>>
  BY <1>1, <1>3 DEF ChatInv, ChatTypeOK, AnswerIsWhole, Said, assembly, setting
<1>. QED
  BY <1>2, <1>3 DEF BreakStream

LEMMA ChatStutters == ChatInv /\ UNCHANGED chatVars => ChatInv'
BY DEF ChatInv, ChatTypeOK, AnswerIsWhole, Said, chatVars, assembly, setting

LEMMA ChatKeeps == ChatInv /\ [ChatNext]_chatVars => ChatInv'
<1>1. ASSUME ChatInv, NEW error, RefuseRequest(error) PROVE ChatInv'
  BY <1>1, HandleKeeps DEF RefuseRequest
<1>. QED
  BY <1>1, FetchKeeps, OpenKeeps, CompleteKeeps, BreakKeeps, ResponseKeeps, ChunkKeeps,
     ChatStutters DEF ChatNext

\* What a provider keeps of a stream is what the model said of it.
LEMMA ChatInvariant == ChatSpec => []ChatInv
BY ChatStarts, ChatKeeps, PTL DEF ChatSpec

(* Whatever streams break and requests are refused, the answer of a turn   *)
(* is the text of the model, without a piece that is lost, doubled or put  *)
(* in twice, and what was shown is the answer or nothing.                  *)
THEOREM AnswersAreWhole == ChatSpec => []AnswerIsWhole
<1>1. ChatInv => AnswerIsWhole
  BY DEF ChatInv
<1>. QED
  BY <1>1, ChatInvariant, PTL

-----------------------------------------------------------------------------
(* Names that are free *)

\* Of one more names than are taken one is free, and there is a first.
LEMMA FreeNumber ==
    ASSUME NEW T, IsFiniteSet(T), NEW a \in Nat, NEW f,
           \A m, n \in a..a + Cardinality(T) : f[m] = f[n] => m = n
    PROVE  LET free == {n \in a..a + Cardinality(T) : f[n] \notin T}
           IN Min(free) \in free
<1>. DEFINE c == Cardinality(T)
            N == a..a + c
            free == {n \in N : f[n] \notin T}
<1>1. c \in Nat
  BY FS_CardinalityType
<1>2. IsFiniteSet(N) /\ Cardinality(N) = c + 1
  <2>1. a \in Int /\ a + c \in Int /\ ~(a > a + c) /\ (a + c) - a + 1 = c + 1
    BY <1>1
  <2>2. IsFiniteSet(a..(a + c)) /\ Cardinality(a..(a + c)) = (a + c) - a + 1
    BY <2>1, FS_Interval, Zenon
  <2>. QED
    BY <2>1, <2>2
<1>3. ASSUME free = {} PROVE FALSE
  <2>. DEFINE g == [n \in N |-> f[n]]
  <2>1. g \in [N -> T]
    BY <1>3
  <2>. HIDE DEF g, N
  <2>2. \E x, y \in N : x # y /\ g[x] = g[y]
    BY <1>1, <1>2, <2>1, FS_PigeonHole
  <2>. QED
    BY <2>2 DEF g, N
<1>4. free \in SUBSET (0..a + c) /\ a + c \in Nat
  BY <1>1
<1>. HIDE DEF free
<1>. QED
  BY <1>3, <1>4, Smallest DEF free

\* What unique_tool_call_id gives is not yet seen, and counts like an id.
LEMMA FreeIdFact ==
    ASSUME NEW base, base.dups \in Seq(Nat), NEW seen, IsFiniteSet(seen)
    PROVE  LET id == FreeId(base, seen)
           IN /\ id \notin seen
              /\ id = base \/ \E d \in Seq(Nat) : id = [name |-> base.name, dups |-> d]
<1>. DEFINE dup(n) == [name |-> base.name, dups |-> Append(base.dups, n)]
            f == [n \in Nat |-> dup(n)]
            c == Cardinality(seen)
            free == {n \in 2..2 + c : f[n] \notin seen}
<1>1. CASE base \notin seen
  BY <1>1 DEF FreeId
<1>2. CASE base \in seen
  <2>1. c \in Nat
    BY FS_CardinalityType
  <2>2. \A m, n \in 2..2 + c : f[m] = f[n] => m = n
    <3>. SUFFICES ASSUME NEW m \in 2..2 + c, NEW n \in 2..2 + c, f[m] = f[n] PROVE m = n
      OBVIOUS
    <3>1. m \in Nat /\ n \in Nat
      BY <2>1
    <3>2. Append(base.dups, m) = Append(base.dups, n)
      BY <3>1
    <3>. QED
      BY <3>1, <3>2
  <2>. HIDE DEF f
  <2>3. Min(free) \in free
    BY <2>2, FreeNumber
  <2>4. free = {n \in 2..(Cardinality(seen) + 2) : dup(n) \notin seen}
    BY <2>1 DEF f
  <2>5. FreeId(base, seen) = dup(Min(free))
    BY <1>2, <2>4 DEF FreeId
  <2>. HIDE DEF free
  <2>6. Cardinality(seen) + 2 \in Nat
    BY <2>1
  <2>. HIDE DEF c
  <2>7. Min(free) \in Nat /\ dup(Min(free)) \notin seen
    BY <2>3, <2>4, <2>6
  <2>8. Append(base.dups, Min(free)) \in Seq(Nat)
    BY <2>7
  <2>. QED
    BY <2>5, <2>7, <2>8
<1>. QED
  BY <1>1, <1>2

\* f starts with x and goes on by g.
GoesOn(f, n, S, x, g) ==
    /\ f \in [0..n -> S]
    /\ f = [k \in 0..n |-> IF k = 0 THEN x ELSE g[<<k, f[k - 1]>>]]

\* A function that is defined from each number to the next is there.
LEMMA Unfolds ==
    ASSUME NEW n \in Nat, NEW S, NEW x \in S, NEW g \in [(1..n) \X S -> S]
    PROVE  \E f : GoesOn(f, n, S, x, g)
<1>. DEFINE Is(f, m) == /\ f \in [0..m -> S] /\ f[0] = x
                        /\ \A k \in 1..m : f[k] = g[<<k, f[k - 1]>>]
            M == {m \in 0..n : \E f : Is(f, m)}
<1>1. 0 \in M
  <2>. DEFINE e == [k \in 0..0 |-> x]
  <2>1. Is(e, 0)
    OBVIOUS
  <2>. HIDE DEF Is
  <2>. QED
    BY <2>1
<1>2. ASSUME NEW m \in 0..n - 1, m \in M PROVE m + 1 \in M
  <2>1. PICK f : Is(f, m)
    BY <1>2
  <2>. DEFINE h == [k \in 0..m + 1 |-> IF k <= m THEN f[k] ELSE g[<<m + 1, f[m]>>]]
  <2>2. m \in Nat /\ m + 1 \in 1..n /\ m \in 0..m /\ m + 1 \in 0..n
    OBVIOUS
  <2>3. f[m] \in S /\ g[<<m + 1, f[m]>>] \in S
    <3>1. f[m] \in S
      BY <2>1, <2>2
    <3>2. <<m + 1, f[m]>> \in (1..n) \X S
      BY <2>2, <3>1
    <3>. QED
      BY <3>1, <3>2
  <2>4. h \in [0..m + 1 -> S] /\ h[0] = x
    BY <2>1, <2>2, <2>3
  <2>5. \A k \in 1..m + 1 : h[k] = g[<<k, h[k - 1]>>]
    <3>. SUFFICES ASSUME NEW k \in 1..m + 1 PROVE h[k] = g[<<k, h[k - 1]>>]
      OBVIOUS
    <3>1. k \in 0..m + 1 /\ k - 1 \in 0..m + 1 /\ k - 1 <= m /\ h[k - 1] = f[k - 1]
      BY <2>2
    <3>2. CASE k <= m
      <4>1. k \in 1..m /\ h[k] = f[k]
        BY <3>1, <3>2, <2>2
      <4>. QED
        BY <2>1, <3>1, <4>1
    <3>3. CASE k = m + 1
      BY <2>2, <3>1, <3>3
    <3>. QED
      BY <2>2, <3>2, <3>3
  <2>6. Is(h, m + 1)
    BY <2>4, <2>5
  <2>. HIDE DEF Is
  <2>. QED
    BY <2>2, <2>6
<1>3. n \in M
  <2>. HIDE DEF M
  <2>1. \A i \in 0..n : i \in M
    BY <1>1, <1>2, Climb
  <2>. QED
    BY <2>1
<1>4. PICK f : Is(f, n)
  BY <1>3
<1>5. f = [k \in 0..n |-> IF k = 0 THEN x ELSE g[<<k, f[k - 1]>>]]
  <2>1. f \in [0..n -> S]
    BY <1>4
  <2>2. \A k \in 0..n : f[k] = IF k = 0 THEN x ELSE g[<<k, f[k - 1]>>]
    BY <1>4
  <2>. QED
    BY <2>1, <2>2
<1>. QED
  BY <1>4, <1>5 DEF GoesOn

\* A sequence has finitely many elements.
LEMMA FewElements == ASSUME NEW S, NEW s \in Seq(S) PROVE IsFiniteSet(ToSet(s))
<1>1. Len(s) \in Nat /\ DOMAIN s = 1..Len(s) /\ s \in [1..Len(s) -> ToSet(s)]
  BY DEF ToSet
<1>2. s \in Surjection(1..Len(s), ToSet(s))
  BY <1>1 DEF Surjection, ToSet
<1>3. IsFiniteSet(1..Len(s))
  BY <1>1, FS_Interval
<1>. QED
  BY <1>2, <1>3, FS_Surjection

-----------------------------------------------------------------------------
(* The ids of calls *)

BaseId(b) == IF toolBlocks[b].id = NoId THEN [name |-> "tool", dups |-> <<b>>]
             ELSE toolBlocks[b].id

\* What an id may become.
SafeIds == {BaseId(b) : b \in 1..MaxBlocks}
           \cup [name : {BaseId(b).name : b \in 1..MaxBlocks}, dups : Seq(Nat)]

WithCall(ids, b) == Append(ids, FreeId(BaseId(b), ToSet(ids)))

\* An id that is free is no id of the calls before.
LEMMA CallIsNew ==
    ASSUME AnthropicTypeOK, NEW ids \in Seq(SafeIds), NEW b \in 1..MaxBlocks
    PROVE  /\ WithCall(ids, b) \in Seq(SafeIds)
           /\ IsInjective(ids) => IsInjective(WithCall(ids, b))
<1>. DEFINE id == FreeId(BaseId(b), ToSet(ids))
            more == Append(ids, id)
<1>1. BaseId(b).dups \in Seq(Nat)
  <2>1. b \in Nat /\ toolBlocks[b].id \in GivenIds \cup {NoId}
    BY WireAssumption DEF AnthropicTypeOK
  <2>2. CASE toolBlocks[b].id = NoId
    BY <2>1, <2>2 DEF BaseId
  <2>3. CASE toolBlocks[b].id # NoId
    BY <2>1, <2>3, WireAssumption DEF BaseId
  <2>. QED
    BY <2>2, <2>3
<1>2. /\ id \notin ToSet(ids)
      /\ id = BaseId(b) \/ \E d \in Seq(Nat) : id = [name |-> BaseId(b).name, dups |-> d]
  BY <1>1, FewElements, FreeIdFact
<1>. HIDE DEF id
<1>3. id \in SafeIds
  <2>1. BaseId(b) \in SafeIds /\ BaseId(b).name \in {BaseId(c).name : c \in 1..MaxBlocks}
    BY DEF SafeIds
  <2>2. CASE id = BaseId(b)
    BY <2>1, <2>2
  <2>3. CASE \E d \in Seq(Nat) : id = [name |-> BaseId(b).name, dups |-> d]
    <3>1. id \in [name : {BaseId(c).name : c \in 1..MaxBlocks}, dups : Seq(Nat)]
      BY <2>1, <2>3
    <3>. QED
      BY <3>1 DEF SafeIds
  <2>. QED
    BY <1>2, <2>2, <2>3
<1>4. /\ more \in Seq(SafeIds) /\ DOMAIN more = 1..Len(ids) + 1 /\ Len(ids) \in Nat
      /\ DOMAIN ids = 1..Len(ids)
      /\ \A i \in 1..Len(ids) : more[i] = ids[i]
      /\ more[Len(ids) + 1] = id
  BY <1>3
<1>5. \A i \in 1..Len(ids) : ids[i] # id
  BY <1>2, <1>4 DEF ToSet
<1>6. ASSUME IsInjective(ids) PROVE IsInjective(more)
  <2>1. \A i, j \in 1..Len(ids) : ids[i] = ids[j] => i = j
    BY <1>4, <1>6 DEF IsInjective
  <2>. HIDE DEF more
  <2>2. \A i, j \in 1..Len(ids) + 1 : more[i] = more[j] => i = j
    BY <1>4, <1>5, <2>1
  <2>. QED
    BY <1>4, <2>2 DEF IsInjective
<1>. QED
  BY <1>4, <1>6 DEF WithCall, id

\* The ids after each block are what the next adds to those before it.
LEMMA IdsUnfold ==
    ASSUME AnthropicTypeOK
    PROVE  IdsAfter = [b \in 0..MaxBlocks |->
               IF b = 0 THEN <<>>
               ELSE IF toolBlocks[b].open /\ toolBlocks[b].named
                    THEN WithCall(IdsAfter[b - 1], b) ELSE IdsAfter[b - 1]]
<1>. DEFINE n == MaxBlocks
            S == Seq(SafeIds)
            after(ids, b) == IF toolBlocks[b].open /\ toolBlocks[b].named
                            THEN WithCall(ids, b) ELSE ids
            Is(f) == f = [b \in 0..n |-> IF b = 0 THEN <<>> ELSE after(f[b - 1], b)]
            g == [p \in (1..n) \X S |-> after(p[2], p[1])]
<1>1. n \in Nat /\ <<>> \in S
  BY WireAssumption
<1>2. g \in [(1..n) \X S -> S]
  <2>. SUFFICES ASSUME NEW p \in (1..n) \X S PROVE after(p[2], p[1]) \in S
    OBVIOUS
  <2>1. p[1] \in 1..n /\ p[2] \in S
    OBVIOUS
  <2>. QED
    BY <2>1, CallIsNew
<1>a. PICK f : GoesOn(f, n, S, <<>>, g)
  <2>. HIDE DEF g, S, n
  <2>. QED
    BY <1>1, <1>2, Unfolds
<1>3. f \in [0..n -> S] /\ f = [k \in 0..n |-> IF k = 0 THEN <<>> ELSE g[<<k, f[k - 1]>>]]
  BY <1>a DEF GoesOn
<1>4. ASSUME NEW k \in 1..n PROVE f[k] = after(f[k - 1], k)
  <2>1. k \in 0..n /\ k # 0 /\ k - 1 \in 0..n
    BY <1>1
  <2>2. f[k - 1] \in S
    BY <1>3, <2>1
  <2>3. <<k, f[k - 1]>> \in (1..n) \X S
    BY <2>2
  <2>4. f[k] = g[<<k, f[k - 1]>>]
    <3>. HIDE DEF g, S, n
    <3>. QED
      BY <1>3, <2>1
  <2>. HIDE DEF S
  <2>. QED
    BY <2>3, <2>4
<1>5. Is(f)
  <2>1. f[0] = <<>>
    <3>. HIDE DEF g, S
    <3>. QED
      BY <1>1, <1>3
  <2>2. \A k \in 0..n : f[k] = IF k = 0 THEN <<>> ELSE after(f[k - 1], k)
    <3>. HIDE DEF after, g, S
    <3>. QED
      BY <1>4, <2>1
  <2>3. f = [k \in 0..n |-> f[k]]
    BY <1>3
  <2>. HIDE DEF after, g, S, n
  <2>. QED
    BY <2>2, <2>3, Zenon
<1>6. IdsAfter = CHOOSE h : Is(h)
  BY DEF IdsAfter, BaseId, WithCall
<1>7. Is(IdsAfter)
  <2>. HIDE DEF Is
  <2>. QED
    BY <1>5, <1>6
<1>. QED
  BY <1>7

\* The calls of an answer have different ids.
LEMMA IdsDiffer == AnthropicTypeOK => IsInjective(IdsAfter[MaxBlocks])
<1>. SUFFICES ASSUME AnthropicTypeOK PROVE IsInjective(IdsAfter[MaxBlocks])
  OBVIOUS
<1>. DEFINE n == MaxBlocks
            M == {b \in 0..n : IdsAfter[b] \in Seq(SafeIds) /\ IsInjective(IdsAfter[b])}
<1>1. n \in Nat
  BY WireAssumption
<1>2. 0 \in M
  <2>1. 0 \in 0..n
    BY <1>1
  <2>2. IdsAfter[0] = <<>>
    BY <2>1, IdsUnfold
  <2>3. IsInjective(<<>>) /\ <<>> \in Seq(SafeIds)
    BY DEF IsInjective
  <2>. QED
    BY <2>1, <2>2, <2>3
<1>3. ASSUME NEW b \in 0..n - 1, b \in M PROVE b + 1 \in M
  <2>1. b + 1 \in 1..n /\ b + 1 \in 0..n /\ b + 1 # 0 /\ (b + 1) - 1 = b
    BY <1>1
  <2>2. IdsAfter[b + 1] = WithCall(IdsAfter[b], b + 1) \/ IdsAfter[b + 1] = IdsAfter[b]
    <3>1. IdsAfter[b + 1] = IF toolBlocks[b + 1].open /\ toolBlocks[b + 1].named
                            THEN WithCall(IdsAfter[(b + 1) - 1], b + 1)
                            ELSE IdsAfter[(b + 1) - 1]
      BY <2>1, IdsUnfold
    <3>. QED
      BY <2>1, <3>1
  <2>. QED
    BY <1>3, <2>1, <2>2, CallIsNew
<1>4. n \in M
  <2>. HIDE DEF M
  <2>1. \A b \in 0..n : b \in M
    BY <1>1, <1>2, <1>3, Climb
  <2>. QED
    BY <1>1, <2>1
<1>. QED
  BY <1>4

-----------------------------------------------------------------------------
(* The turns of a history *)

WireTurns == [role : {"user", "assistant"}, results : BOOLEAN, of : SUBSET Nat]
InTurns == [turns : Seq(WireTurns), pending : SUBSET Nat]

\* A turn becomes the last one, or a part of it.
LEMMA TurnAdded ==
    ASSUME NEW ts \in Seq(WireTurns), NEW t \in WireTurns
    PROVE  LET more == AppendTurn(ts, t)
               n == Len(ts)
               last == ts[n]
           IN /\ more \in Seq(WireTurns)
              /\ \/ more = Append(ts, t)
                    /\ (ts # <<>> /\ last.role = t.role => last.results \/ t.results)
                 \/ /\ ts # <<>> /\ last.role = t.role /\ ~last.results /\ ~t.results
                    /\ Len(more) = n /\ \A m \in 1..n : m # n => more[m] = ts[m]
                    /\ more[n] = WireTurn(t.role, FALSE, last.of \cup t.of)
<1>. DEFINE more == AppendTurn(ts, t)
            n == Len(ts)
            last == ts[n]
            both == WireTurn(t.role, FALSE, last.of \cup t.of)
<1>1. n \in Nat /\ DOMAIN ts = 1..n /\ (ts # <<>> => n \in 1..n /\ last \in WireTurns)
  OBVIOUS
<1>2. CASE ts # <<>> /\ last.role = t.role /\ ~last.results /\ ~t.results
  <2>1. more = [ts EXCEPT ![n] = both]
    BY <1>2 DEF AppendTurn
  <2>2. both \in WireTurns
    <3>1. last.of \in SUBSET Nat /\ t.of \in SUBSET Nat /\ t.role \in {"user", "assistant"}
      BY <1>1, <1>2 DEF WireTurns
    <3>. QED
      BY <3>1 DEF WireTurns, WireTurn
  <2>. HIDE DEF both
  <2>3. /\ more \in Seq(WireTurns) /\ Len(more) = n /\ more[n] = both
        /\ \A m \in 1..n : m # n => more[m] = ts[m]
    <3>. HIDE DEF more
    <3>1. ts \in [1..n -> WireTurns] /\ n \in 1..n
      BY <1>1, <1>2
    <3>2. /\ more \in [1..n -> WireTurns] /\ more[n] = both
          /\ \A m \in 1..n : m # n => more[m] = ts[m]
      BY <2>1, <2>2, <3>1
    <3>. HIDE DEF n
    <3>3. more \in Seq(WireTurns) /\ Len(more) = n
      BY <1>1, <3>2
    <3>. QED
      BY <3>2, <3>3
  <2>. QED
    BY <1>2, <2>3 DEF both
<1>3. CASE ~(ts # <<>> /\ last.role = t.role /\ ~last.results /\ ~t.results)
  <2>1. more = Append(ts, t)
    BY <1>3 DEF AppendTurn
  <2>2. more \in Seq(WireTurns)
    BY <2>1
  <2>3. ts # <<>> /\ last.role = t.role => last.results \/ t.results
    BY <1>3
  <2>. QED
    BY <2>1, <2>2, <2>3
<1>. QED
  BY <1>2, <1>3

\* Results that wait become a turn of their own.
LEMMA FlushedFact ==
    ASSUME NEW st \in InTurns
    PROVE  LET t == WireTurn("user", TRUE, st.pending)
           IN /\ Flushed(st) \in InTurns /\ Flushed(st).pending = {}
              /\ st.pending = {} => Flushed(st) = st
              /\ st.pending # {} => Flushed(st).turns = Append(st.turns, t)
<1>. DEFINE t == WireTurn("user", TRUE, st.pending)
<1>1. st.turns \in Seq(WireTurns) /\ st.pending \in SUBSET Nat
  BY DEF InTurns
<1>2. t \in WireTurns /\ t.results
  BY <1>1 DEF WireTurn, WireTurns
<1>3. AppendTurn(st.turns, t) = Append(st.turns, t) /\ Append(st.turns, t) \in Seq(WireTurns)
  <2>. HIDE DEF t
  <2>. QED
    BY <1>1, <1>2 DEF AppendTurn
<1>4. CASE st.pending = {}
  BY <1>4 DEF Flushed
<1>5. CASE st.pending # {}
  <2>1. Flushed(st) = [turns |-> Append(st.turns, t), pending |-> {}]
    BY <1>3, <1>5 DEF Flushed
  <2>. HIDE DEF t
  <2>2. Flushed(st) \in InTurns
    BY <1>3, <2>1 DEF InTurns
  <2>3. Flushed(st).pending = {} /\ Flushed(st).turns = Append(st.turns, t)
    BY <2>1
  <2>. QED
    BY <1>5, <2>2, <2>3 DEF t
<1>. QED
  BY <1>4, <1>5

Speaker(role) == IF role = "user" THEN "user" ELSE "assistant"

\* What one message does.
LEMMA ConvertedFact ==
    ASSUME NEW st \in InTurns, NEW s \in Seq(WireMessages), NEW k \in 1..Len(s)
    PROVE  LET role == s[k].role
               after == Converted(st, s, k)
               flushed == Flushed(st)
           IN /\ after \in InTurns
              /\ role \in {"system", "user", "said", "blank", "result", "asked"}
              /\ role = "system" => after = st
              /\ role = "blank" => after = flushed
              /\ role = "result" =>
                   after.turns = st.turns /\ after.pending = st.pending \cup {k}
              /\ role \in {"user", "said", "asked"} =>
                   /\ after.pending = {}
                   /\ after.turns
                        = AppendTurn(flushed.turns, WireTurn(Speaker(role), FALSE, {k}))
<1>. DEFINE role == s[k].role
            after == Converted(st, s, k)
            flushed == Flushed(st)
            t == WireTurn(Speaker(role), FALSE, {k})
<1>1. k \in Nat /\ role \in {"system", "user", "said", "blank", "result", "asked"}
  BY DEF WireMessages
<1>2. /\ st.turns \in Seq(WireTurns) /\ st.pending \in SUBSET Nat
      /\ st = [turns |-> st.turns, pending |-> st.pending]
  BY DEF InTurns
<1>3. flushed \in InTurns /\ flushed.pending = {} /\ flushed.turns \in Seq(WireTurns)
  BY FlushedFact DEF InTurns
<1>4. t \in WireTurns
  BY <1>1 DEF WireTurns, WireTurn, Speaker
<1>5. CASE role = "system"
  BY <1>5 DEF Converted
<1>6. CASE role = "result"
  <2>1. after = [st EXCEPT !.pending = @ \cup {k}]
    BY <1>6 DEF Converted
  <2>2. after = [turns |-> st.turns, pending |-> st.pending \cup {k}]
    BY <1>2, <2>1
  <2>. QED
    BY <1>1, <1>2, <1>6, <2>2 DEF InTurns
<1>7. CASE role = "blank"
  BY <1>3, <1>7 DEF Converted
<1>8. CASE role \in {"user", "said", "asked"}
  <2>1. after = [flushed EXCEPT !.turns = AppendTurn(@, t)]
    BY <1>8 DEF Converted, Speaker
  <2>. HIDE DEF t, flushed, after
  <2>2. after = [turns |-> AppendTurn(flushed.turns, t), pending |-> {}]
    BY <1>3, <2>1 DEF InTurns
  <2>3. AppendTurn(flushed.turns, t) \in Seq(WireTurns)
    BY <1>3, <1>4, TurnAdded
  <2>4. after \in InTurns /\ after.pending = {} /\ after.turns = AppendTurn(flushed.turns, t)
    BY <2>2, <2>3 DEF InTurns
  <2>. QED
    BY <1>8, <2>4 DEF t, flushed, after
<1>. QED
  BY <1>1, <1>5, <1>6, <1>7, <1>8

Speaks(role) == role \notin {"system", "blank"}

\* What says something is in a turn or waits.
AllHeld(s, k, ts, p) ==
    \A i : i \in p \/ (\E m \in DOMAIN ts : i \in ts[m].of) <=> i \in 1..k /\ Speaks(s[i].role)

\* The turns are in the order of the messages, and what waits comes after them.
InLine(ts, p) ==
    /\ \A j, m \in DOMAIN ts : j < m => \A x \in ts[j].of, y \in ts[m].of : x < y
    /\ \A m \in DOMAIN ts : \A x \in ts[m].of, y \in p : x < y

\* A turn has the role of its messages.
RolesFit(s, ts, p) ==
    /\ \A m \in DOMAIN ts : \A i \in ts[m].of :
         /\ ts[m].results = (s[i].role = "result")
         /\ ts[m].role = IF s[i].role \in {"user", "result"} THEN "user" ELSE "assistant"
    /\ \A i \in p : s[i].role = "result"

\* The results of a round are in the next turn.
RoundClosed(s, ts, i) ==
    \E m \in 1..Len(ts) - 1 :
        i \in ts[m].of /\ ts[m + 1].of = i + 1..i + s[i].calls /\ ts[m + 1].results

\* Those that are there wait, after the turn of their round.
RoundOpen(s, k, ts, p, o, i) ==
    /\ ts # <<>> /\ i \in ts[Len(ts)].of /\ o <= s[i].calls
    /\ p = i + 1..i + s[i].calls - o
    /\ o > 0 => i + s[i].calls - o = k

RoundsFit(s, k, ts, p, o) ==
    \A i \in 1..k : s[i].calls > 0 => RoundClosed(s, ts, i) \/ RoundOpen(s, k, ts, p, o, i)

RolesAlternate(ts) ==
    \A m \in 1..Len(ts) - 1 : ts[m].role = ts[m + 1].role => ts[m].results \/ ts[m + 1].results

\* The turns of the first k messages, o results of the last round still to come.
Fits(s, k, ts, p, o) ==
    /\ AllHeld(s, k, ts, p) /\ InLine(ts, p) /\ RolesFit(s, ts, p)
    /\ RoundsFit(s, k, ts, p, o) /\ RolesAlternate(ts)

\* One more turn leaves the others where they are.
LEMMA OneTurnMore ==
    ASSUME NEW ts \in Seq(WireTurns), NEW t \in WireTurns
    PROVE  LET more == Append(ts, t)
           IN /\ more \in Seq(WireTurns) /\ Len(ts) \in Nat /\ Len(more) = Len(ts) + 1
              /\ DOMAIN ts = 1..Len(ts) /\ DOMAIN more = 1..Len(ts) + 1
              /\ \A m \in 1..Len(ts) : more[m] = ts[m]
              /\ more[Len(ts) + 1] = t
  OBVIOUS

\* A complete round is closed when its results become a turn.
LEMMA FlushFits ==
    ASSUME NEW s \in Seq(WireMessages), NEW k \in 0..Len(s), NEW st \in InTurns,
           Fits(s, k, st.turns, st.pending, 0)
    PROVE  LET ts == Flushed(st).turns
           IN Fits(s, k, ts, {}, 0) /\ \A i \in 1..k : s[i].calls > 0 => RoundClosed(s, ts, i)
<1>. DEFINE ts == st.turns
            p == st.pending
            t == WireTurn("user", TRUE, p)
            more == Flushed(st).turns
            n == Len(ts)
<1>1. ts \in Seq(WireTurns) /\ p \in SUBSET Nat /\ n \in Nat /\ DOMAIN ts = 1..n
  BY DEF InTurns
<1>2. /\ AllHeld(s, k, ts, p) /\ InLine(ts, p) /\ RolesFit(s, ts, p)
      /\ RoundsFit(s, k, ts, p, 0) /\ RolesAlternate(ts)
  BY DEF Fits
<1>0. k \in Nat /\ \A i \in 1..k : i \in Nat /\ s[i].calls \in Nat
  BY WireAssumption DEF WireMessages
<1>3. CASE p = {}
  <2>1. more = ts
    BY <1>3, FlushedFact
  <2>2. \A i \in 1..k : s[i].calls > 0 => RoundClosed(s, ts, i)
    <3>. SUFFICES ASSUME NEW i \in 1..k, s[i].calls > 0, RoundOpen(s, k, ts, p, 0, i)
                  PROVE  FALSE
      BY <1>2 DEF RoundsFit
    <3>1. p = i + 1..i + s[i].calls - 0
      BY DEF RoundOpen
    <3>2. i + 1 \in p
      BY <1>0, <3>1
    <3>. QED
      BY <1>3, <3>2
  <2>. QED
    BY <1>2, <1>3, <2>1, <2>2 DEF Fits
<1>4. CASE p # {}
  <2>1. more = Append(ts, t)
    BY <1>4, FlushedFact
  <2>2. t \in WireTurns /\ t.role = "user" /\ t.results = TRUE /\ t.of = p
    BY <1>1 DEF WireTurn, WireTurns
  <2>. HIDE DEF t, ts, p, more
  <2>3. /\ n + 1 = Len(more) /\ DOMAIN more = 1..n + 1 /\ more[n + 1] = t
        /\ \A m \in 1..n : more[m] = ts[m]
    BY <1>1, <2>1, <2>2, OneTurnMore
  <2>. HIDE DEF n
  <2>4. AllHeld(s, k, more, {})
    <3>1. ASSUME NEW i
          PROVE  (\E m \in DOMAIN more : i \in more[m].of)
                   <=> (i \in p \/ \E m \in DOMAIN ts : i \in ts[m].of)
      BY <1>1, <2>2, <2>3
    <3>. QED
      BY <1>2, <3>1 DEF AllHeld
  <2>5. InLine(more, {})
    <3>. SUFFICES ASSUME NEW j \in 1..n + 1, NEW m \in 1..n + 1, j < m,
                         NEW x \in more[j].of, NEW y \in more[m].of
                  PROVE  x < y
      BY <2>3 DEF InLine
    <3>0. j \in 1..n /\ more[j] = ts[j] /\ x \in ts[j].of
      <4>1. j \in 1..n
        BY <1>1
      <4>. QED
        BY <2>3, <4>1
    <3>1. CASE m = n + 1
      <4>1. y \in p
        BY <2>2, <2>3, <3>1
      <4>. QED
        BY <1>1, <1>2, <3>0, <4>1 DEF InLine
    <3>2. CASE m # n + 1
      <4>1. m \in 1..n /\ y \in ts[m].of
        BY <1>1, <2>3, <3>2
      <4>. QED
        BY <1>1, <1>2, <3>0, <4>1 DEF InLine
    <3>. QED
      BY <3>1, <3>2
  <2>6. RolesFit(s, more, {})
    <3>. SUFFICES ASSUME NEW m \in 1..n + 1, NEW i \in more[m].of
                  PROVE  /\ more[m].results = (s[i].role = "result")
                         /\ more[m].role = IF s[i].role \in {"user", "result"} THEN "user"
                                           ELSE "assistant"
      BY <2>3 DEF RolesFit
    <3>1. CASE m = n + 1
      BY <1>2, <2>2, <2>3, <3>1 DEF RolesFit
    <3>2. CASE m # n + 1
      <4>1. m \in 1..n
        BY <1>1, <3>2
      <4>2. m \in DOMAIN ts /\ more[m] = ts[m] /\ i \in ts[m].of
        BY <1>1, <2>3, <4>1
      <4>. QED
        BY <1>2, <4>2 DEF RolesFit
    <3>. QED
      BY <3>1, <3>2
  <2>7. ASSUME NEW i \in 1..k, s[i].calls > 0 PROVE RoundClosed(s, more, i)
    <3>1. CASE RoundClosed(s, ts, i)
      <4>1. PICK m \in 1..n - 1 :
              i \in ts[m].of /\ ts[m + 1].of = i + 1..i + s[i].calls /\ ts[m + 1].results
        BY <3>1 DEF RoundClosed, n
      <4>2. m \in 1..Len(more) - 1 /\ more[m] = ts[m] /\ more[m + 1] = ts[m + 1]
        BY <1>1, <2>3, <4>1
      <4>. QED
        BY <4>1, <4>2 DEF RoundClosed
    <3>2. CASE RoundOpen(s, k, ts, p, 0, i)
      <4>1. n # 0 /\ i \in ts[n].of /\ p = i + 1..i + s[i].calls
        BY <1>0, <1>1, <2>7, <3>2 DEF RoundOpen, n
      <4>2. /\ n \in 1..Len(more) - 1 /\ more[n] = ts[n]
            /\ more[n + 1].of = p /\ more[n + 1].results
        BY <1>1, <2>2, <2>3, <4>1
      <4>. QED
        BY <4>1, <4>2 DEF RoundClosed
    <3>. QED
      BY <1>2, <2>7, <3>1, <3>2 DEF RoundsFit
  <2>8. RolesAlternate(more)
    <3>. SUFFICES ASSUME NEW m \in 1..n, more[m].role = more[m + 1].role
                  PROVE  more[m].results \/ more[m + 1].results
      BY <1>1, <2>3 DEF RolesAlternate
    <3>1. CASE m = n
      BY <2>2, <2>3, <3>1
    <3>2. CASE m # n
      <4>0. n = Len(ts)
        BY DEF n
      <4>2. m \in 1..n /\ m + 1 \in 1..n /\ m \in 1..n - 1
        BY <1>1, <3>2
      <4>1. m \in 1..Len(ts) - 1 /\ more[m] = ts[m] /\ more[m + 1] = ts[m + 1]
        BY <2>3, <4>0, <4>2
      <4>. QED
        BY <1>2, <4>1 DEF RolesAlternate
    <3>. QED
      BY <3>1, <3>2
  <2>. QED
    BY <2>4, <2>5, <2>6, <2>7, <2>8 DEF Fits, RoundsFit, more
<1>. QED
  BY <1>3, <1>4

\* The messages of the turns are messages that were converted.
LEMMA HeldBefore ==
    ASSUME NEW s, NEW k, NEW ts, NEW p, AllHeld(s, k, ts, p)
    PROVE  /\ \A m \in DOMAIN ts : \A i \in ts[m].of : i \in 1..k
           /\ \A i \in p : i \in 1..k
BY DEF AllHeld

\* A message that is no result becomes a turn, its round waits for results.
LEMMA SpeakAppends ==
    ASSUME NEW s \in Seq(WireMessages), NEW k \in 0..Len(s) - 1, NEW ts \in Seq(WireTurns),
           Fits(s, k, ts, {}, 0), \A i \in 1..k : s[i].calls > 0 => RoundClosed(s, ts, i),
           s[k + 1].role \in {"user", "said", "asked"},
           ts # <<>> /\ ts[Len(ts)].role = Speaker(s[k + 1].role) => ts[Len(ts)].results
    PROVE  Fits(s, k + 1, Append(ts, WireTurn(Speaker(s[k + 1].role), FALSE, {k + 1})), {},
                s[k + 1].calls)
<1>. DEFINE role == s[k + 1].role
            t == WireTurn(Speaker(role), FALSE, {k + 1})
            more == Append(ts, t)
            n == Len(ts)
<1>1. /\ AllHeld(s, k, ts, {}) /\ InLine(ts, {}) /\ RolesFit(s, ts, {}) /\ RolesAlternate(ts)
      /\ \A m \in DOMAIN ts : \A i \in ts[m].of : i \in 1..k
  BY HeldBefore DEF Fits
<1>2. k \in Nat /\ k + 1 \in Nat /\ k + 1 \in 1..Len(s) /\ s[k + 1].calls \in Nat
  <2>1. k \in Nat /\ k + 1 \in Nat /\ k + 1 \in 1..Len(s)
    OBVIOUS
  <2>. QED
    BY <2>1, WireAssumption DEF WireMessages
<1>3. t \in WireTurns /\ t.role = Speaker(role) /\ t.results = FALSE /\ t.of = {k + 1}
  BY <1>2 DEF WireTurn, WireTurns, Speaker
<1>. HIDE DEF t
<1>4. /\ n \in Nat /\ n + 1 = Len(more) /\ DOMAIN ts = 1..n
      /\ DOMAIN more = 1..n + 1 /\ more[n + 1] = t /\ \A m \in 1..n : more[m] = ts[m]
  BY <1>3, OneTurnMore
<1>. HIDE DEF more, n
<1>5. AllHeld(s, k + 1, more, {})
  <2>1. ASSUME NEW i
        PROVE  (\E m \in DOMAIN more : i \in more[m].of)
                 <=> (i = k + 1 \/ \E m \in DOMAIN ts : i \in ts[m].of)
    BY <1>3, <1>4
  <2>2. ASSUME NEW i
        PROVE  i \in 1..k + 1 /\ Speaks(s[i].role)
                 <=> (i = k + 1 \/ (i \in 1..k /\ Speaks(s[i].role)))
    <3>1. Speaks(s[k + 1].role)
      BY DEF Speaks
    <3>2. i \in 1..k + 1 <=> i = k + 1 \/ i \in 1..k
      BY <1>2
    <3>. QED
      BY <3>1, <3>2
  <2>. QED
    BY <1>1, <2>1, <2>2 DEF AllHeld
<1>6. InLine(more, {})
  <2>. SUFFICES ASSUME NEW j \in 1..n + 1, NEW m \in 1..n + 1, j < m,
                       NEW x \in more[j].of, NEW y \in more[m].of
                PROVE  x < y
    BY <1>4 DEF InLine
  <2>1. j \in 1..n /\ more[j] = ts[j] /\ x \in ts[j].of
    <3>1. j \in 1..n
      BY <1>4
    <3>. QED
      BY <1>4, <3>1
  <2>2. CASE m = n + 1
    <3>1. y = k + 1 /\ x \in 1..k
      BY <1>1, <1>3, <1>4, <2>1, <2>2
    <3>. QED
      BY <1>2, <3>1
  <2>3. CASE m # n + 1
    <3>1. m \in 1..n
      BY <1>4, <2>3
    <3>2. y \in ts[m].of
      BY <1>4, <3>1
    <3>. QED
      BY <1>1, <1>4, <2>1, <3>1, <3>2 DEF InLine
  <2>. QED
    BY <2>2, <2>3
<1>7. RolesFit(s, more, {})
  <2>. SUFFICES ASSUME NEW m \in 1..n + 1, NEW i \in more[m].of
                PROVE  /\ more[m].results = (s[i].role = "result")
                       /\ more[m].role = IF s[i].role \in {"user", "result"} THEN "user"
                                         ELSE "assistant"
    BY <1>4 DEF RolesFit
  <2>1. CASE m = n + 1
    <3>1. i = k + 1 /\ more[m] = t
      BY <1>3, <1>4, <2>1
    <3>. QED
      BY <1>3, <3>1 DEF Speaker
  <2>2. CASE m # n + 1
    <3>1. m \in 1..n
      BY <1>4, <2>2
    <3>2. m \in DOMAIN ts /\ more[m] = ts[m] /\ i \in ts[m].of
      BY <1>4, <3>1
    <3>. QED
      BY <1>1, <3>2 DEF RolesFit
  <2>. QED
    BY <2>1, <2>2
<1>8. RoundsFit(s, k + 1, more, {}, s[k + 1].calls)
  <2>. SUFFICES ASSUME NEW i \in 1..k + 1, s[i].calls > 0
                PROVE  \/ RoundClosed(s, more, i)
                       \/ RoundOpen(s, k + 1, more, {}, s[k + 1].calls, i)
    BY DEF RoundsFit
  <2>1. CASE i = k + 1
    <3>1. more # <<>> /\ i \in more[Len(more)].of
      BY <1>3, <1>4, <2>1
    <3>2. {} = i + 1..i + s[i].calls - s[i].calls /\ i + s[i].calls - s[i].calls = k + 1
      BY <1>2, <2>1
    <3>3. s[k + 1].calls <= s[k + 1].calls
      BY <1>2
    <3>. QED
      BY <2>1, <3>1, <3>2, <3>3 DEF RoundOpen
  <2>2. CASE i # k + 1
    <3>1. i \in 1..k
      BY <1>2, <2>2
    <3>2. PICK m \in 1..n - 1 :
            i \in ts[m].of /\ ts[m + 1].of = i + 1..i + s[i].calls /\ ts[m + 1].results
      BY <3>1 DEF RoundClosed, n
    <3>3. m \in 1..n /\ m + 1 \in 1..n /\ m \in 1..Len(more) - 1
      BY <1>4
    <3>. QED
      BY <1>4, <3>2, <3>3 DEF RoundClosed
  <2>. QED
    BY <2>1, <2>2
<1>9. RolesAlternate(more)
  <2>. SUFFICES ASSUME NEW m \in 1..n, more[m].role = more[m + 1].role
                PROVE  more[m].results \/ more[m + 1].results
    BY <1>4 DEF RolesAlternate
  <2>1. CASE m = n
    <3>1. more[m] = ts[Len(ts)] /\ ts # <<>> /\ more[m + 1] = t
      BY <1>4, <2>1 DEF n
    <3>. QED
      BY <1>3, <3>1
  <2>2. CASE m # n
    <3>0. n = Len(ts)
      BY DEF n
    <3>1. m \in 1..n /\ m + 1 \in 1..n /\ m \in 1..n - 1
      BY <1>4, <2>2
    <3>2. m \in 1..Len(ts) - 1 /\ more[m] = ts[m] /\ more[m + 1] = ts[m + 1]
      BY <1>4, <3>0, <3>1
    <3>. QED
      BY <1>1, <3>2 DEF RolesAlternate
  <2>. QED
    BY <2>1, <2>2
<1>. QED
  BY <1>5, <1>6, <1>7, <1>8, <1>9 DEF Fits, more, t

\* Or it joins the last turn, which is none of results.
LEMMA SpeakJoins ==
    ASSUME NEW s \in Seq(WireMessages), NEW k \in 0..Len(s) - 1, NEW ts \in Seq(WireTurns),
           Fits(s, k, ts, {}, 0), \A i \in 1..k : s[i].calls > 0 => RoundClosed(s, ts, i),
           s[k + 1].role \in {"user", "said", "asked"},
           ts # <<>>, ts[Len(ts)].role = Speaker(s[k + 1].role), ~ts[Len(ts)].results,
           NEW more \in Seq(WireTurns), Len(more) = Len(ts),
           \A m \in 1..Len(ts) : m # Len(ts) => more[m] = ts[m],
           more[Len(ts)] = WireTurn(Speaker(s[k + 1].role), FALSE, ts[Len(ts)].of \cup {k + 1})
    PROVE  Fits(s, k + 1, more, {}, s[k + 1].calls)
<1>. DEFINE n == Len(ts)
<1>1. /\ AllHeld(s, k, ts, {}) /\ InLine(ts, {}) /\ RolesFit(s, ts, {}) /\ RolesAlternate(ts)
      /\ \A m \in DOMAIN ts : \A i \in ts[m].of : i \in 1..k
  BY HeldBefore DEF Fits
<1>2. k \in Nat /\ k + 1 \in Nat /\ k + 1 \in 1..Len(s) /\ s[k + 1].calls \in Nat
  <2>1. k \in Nat /\ k + 1 \in Nat /\ k + 1 \in 1..Len(s)
    OBVIOUS
  <2>. QED
    BY <2>1, WireAssumption DEF WireMessages
<1>3. /\ n \in Nat \ {0} /\ n = Len(more) /\ DOMAIN ts = 1..n /\ DOMAIN more = 1..n
      /\ \A m \in 1..n : m # n => more[m] = ts[m]
      /\ n \in 1..n
  OBVIOUS
<1>a. n \in Nat /\ n >= 1 /\ n = Len(more) /\ n = Len(ts)
  OBVIOUS
<1>4. /\ more[n].role = ts[n].role /\ more[n].results = FALSE
      /\ more[n].of = ts[n].of \cup {k + 1} /\ more[n].role = Speaker(s[k + 1].role)
      /\ ts[n].results = FALSE
  <2>1. ts[n] \in WireTurns
    OBVIOUS
  <2>2. ts[n].results \in BOOLEAN
    BY <2>1 DEF WireTurns
  <2>. QED
    BY <2>2 DEF WireTurn
<1>. HIDE DEF n
<1>5. AllHeld(s, k + 1, more, {})
  <2>1. ASSUME NEW i
        PROVE  (\E m \in DOMAIN more : i \in more[m].of)
                 <=> (i = k + 1 \/ \E m \in DOMAIN ts : i \in ts[m].of)
    BY <1>3, <1>4
  <2>2. ASSUME NEW i
        PROVE  i \in 1..k + 1 /\ Speaks(s[i].role)
                 <=> (i = k + 1 \/ (i \in 1..k /\ Speaks(s[i].role)))
    <3>1. Speaks(s[k + 1].role)
      BY DEF Speaks
    <3>2. i \in 1..k + 1 <=> i = k + 1 \/ i \in 1..k
      BY <1>2
    <3>. QED
      BY <3>1, <3>2
  <2>. QED
    BY <1>1, <2>1, <2>2 DEF AllHeld
<1>6. InLine(more, {})
  <2>. SUFFICES ASSUME NEW j \in 1..n, NEW m \in 1..n, j < m,
                       NEW x \in more[j].of, NEW y \in more[m].of
                PROVE  x < y
    BY <1>3 DEF InLine
  <2>1. more[j] = ts[j] /\ x \in ts[j].of /\ x \in 1..k
    <3>1. j # n
      BY <1>a
    <3>. QED
      BY <1>1, <1>3, <3>1
  <2>2. y = k + 1 \/ y \in ts[m].of
    BY <1>3, <1>4
  <2>3. CASE y = k + 1
    BY <1>2, <2>1, <2>3
  <2>4. CASE y \in ts[m].of
    BY <1>1, <1>3, <2>1, <2>4 DEF InLine
  <2>. QED
    BY <2>2, <2>3, <2>4
<1>7. RolesFit(s, more, {})
  <2>. SUFFICES ASSUME NEW m \in 1..n, NEW i \in more[m].of
                PROVE  /\ more[m].results = (s[i].role = "result")
                       /\ more[m].role = IF s[i].role \in {"user", "result"} THEN "user"
                                         ELSE "assistant"
    BY <1>3 DEF RolesFit
  <2>1. CASE i = k + 1
    <3>1. m = n
      <4>. SUFFICES ASSUME m # n PROVE FALSE
        OBVIOUS
      <4>1. i \in 1..k
        BY <1>1, <1>3
      <4>. QED
        BY <1>2, <2>1, <4>1
    <3>. QED
      BY <1>4, <2>1, <3>1 DEF Speaker
  <2>2. CASE i # k + 1
    <3>1. i \in ts[m].of /\ more[m].results = ts[m].results /\ more[m].role = ts[m].role
      BY <1>3, <1>4, <2>2
    <3>. QED
      BY <1>1, <1>3, <3>1 DEF RolesFit
  <2>. QED
    BY <2>1, <2>2
<1>8. RoundsFit(s, k + 1, more, {}, s[k + 1].calls)
  <2>. SUFFICES ASSUME NEW i \in 1..k + 1, s[i].calls > 0
                PROVE  \/ RoundClosed(s, more, i)
                       \/ RoundOpen(s, k + 1, more, {}, s[k + 1].calls, i)
    BY DEF RoundsFit
  <2>1. CASE i = k + 1
    <3>1. more # <<>> /\ i \in more[Len(more)].of
      BY <1>3, <1>4, <2>1
    <3>2. {} = i + 1..i + s[i].calls - s[i].calls /\ i + s[i].calls - s[i].calls = k + 1
      BY <1>2, <2>1
    <3>3. s[k + 1].calls <= s[k + 1].calls
      BY <1>2
    <3>. QED
      BY <2>1, <3>1, <3>2, <3>3 DEF RoundOpen
  <2>2. CASE i # k + 1
    <3>1. i \in 1..k
      BY <1>2, <2>2
    <3>2. PICK m \in 1..n - 1 :
            i \in ts[m].of /\ ts[m + 1].of = i + 1..i + s[i].calls /\ ts[m + 1].results
      BY <3>1 DEF RoundClosed, n
    <3>3. m \in 1..n /\ m # n /\ m + 1 \in 1..n /\ m \in 1..Len(more) - 1
      BY <1>a
    <3>4. m + 1 # n
      BY <1>4, <3>2
    <3>. QED
      BY <1>3, <3>2, <3>3, <3>4 DEF RoundClosed
  <2>. QED
    BY <2>1, <2>2
<1>9. RolesAlternate(more)
  <2>. SUFFICES ASSUME NEW m \in 1..n - 1, more[m].role = more[m + 1].role
                PROVE  more[m].results \/ more[m + 1].results
    BY <1>3 DEF RolesAlternate
  <2>0. n = Len(ts) /\ m \in 1..n /\ m # n /\ m + 1 \in 1..n
    BY <1>a
  <2>1. /\ more[m] = ts[m] /\ ts[m + 1].role = more[m + 1].role
        /\ ts[m + 1].results = more[m + 1].results
    BY <1>3, <1>4, <2>0
  <2>2. m \in 1..Len(ts) - 1 /\ ts[m].role = ts[m + 1].role
    BY <2>0, <2>1
  <2>3. ts[m].results \/ ts[m + 1].results
    BY <1>1, <2>2 DEF RolesAlternate
  <2>. QED
    BY <2>1, <2>3
<1>. QED
  BY <1>5, <1>6, <1>7, <1>8, <1>9 DEF Fits

\* A result waits with the others of its round.
LEMMA HearFits ==
    ASSUME NEW s \in Seq(WireMessages), NEW k \in 0..Len(s) - 1, NEW ts \in Seq(WireTurns),
           NEW p, NEW o \in Nat, Fits(s, k, ts, p, o + 1), s[k + 1].role = "result"
    PROVE  Fits(s, k + 1, ts, p \cup {k + 1}, o)
<1>1. /\ AllHeld(s, k, ts, p) /\ InLine(ts, p) /\ RolesFit(s, ts, p) /\ RolesAlternate(ts)
      /\ RoundsFit(s, k, ts, p, o + 1)
      /\ \A m \in DOMAIN ts : \A i \in ts[m].of : i \in 1..k
  BY HeldBefore DEF Fits
<1>2. k \in Nat /\ k + 1 \in Nat /\ k + 1 \in 1..Len(s) /\ s[k + 1].calls = 0
  <2>1. k \in Nat /\ k + 1 \in Nat /\ k + 1 \in 1..Len(s)
    OBVIOUS
  <2>2. s[k + 1] \in WireMessages
    BY <2>1
  <2>3. s[k + 1].calls \in Nat /\ ~(s[k + 1].calls > 0)
    BY <2>2, WireAssumption DEF WireMessages
  <2>. QED
    BY <2>1, <2>3
<1>3. AllHeld(s, k + 1, ts, p \cup {k + 1})
  <2>1. ASSUME NEW i
        PROVE  i \in 1..k + 1 /\ Speaks(s[i].role)
                 <=> (i = k + 1 \/ (i \in 1..k /\ Speaks(s[i].role)))
    <3>1. Speaks(s[k + 1].role)
      BY DEF Speaks
    <3>2. i \in 1..k + 1 <=> i = k + 1 \/ i \in 1..k
      BY <1>2
    <3>. QED
      BY <3>1, <3>2
  <2>. QED
    BY <1>1, <2>1 DEF AllHeld
<1>4. InLine(ts, p \cup {k + 1})
  <2>1. ASSUME NEW m \in DOMAIN ts, NEW x \in ts[m].of PROVE x < k + 1
    <3>1. x \in 1..k
      BY <1>1
    <3>. QED
      BY <1>2, <3>1
  <2>. QED
    BY <1>1, <2>1 DEF InLine
<1>5. RolesFit(s, ts, p \cup {k + 1})
  BY <1>1 DEF RolesFit
<1>6. RoundsFit(s, k + 1, ts, p \cup {k + 1}, o)
  <2>. SUFFICES ASSUME NEW i \in 1..k + 1, s[i].calls > 0
                PROVE  \/ RoundClosed(s, ts, i)
                       \/ RoundOpen(s, k + 1, ts, p \cup {k + 1}, o, i)
    BY DEF RoundsFit
  <2>1. i \in 1..k /\ i \in Nat
    BY <1>2
  <2>2. CASE RoundClosed(s, ts, i)
    BY <2>2
  <2>3. CASE RoundOpen(s, k, ts, p, o + 1, i)
    <3>. DEFINE c == s[i].calls
    <3>1. c \in Nat
      <4>1. s[i] \in WireMessages
        BY <2>1, <1>2
      <4>. QED
        BY <4>1, WireAssumption DEF WireMessages
    <3>2. /\ ts # <<>> /\ i \in ts[Len(ts)].of /\ o + 1 <= c /\ p = i + 1..i + c - (o + 1)
          /\ i + c - (o + 1) = k
      BY <2>3 DEF RoundOpen
    <3>. HIDE DEF c
    <3>3. o <= c /\ i + c - o = k + 1 /\ i <= k
      <4>1. o + 1 <= c /\ i + c - (o + 1) = k
        BY <3>2
      <4>2. i \in Nat /\ k \in Nat /\ i <= k
        BY <1>2, <2>1
      <4>. QED
        BY <3>1, <4>1, <4>2
    <3>4. p \cup {k + 1} = i + 1..i + c - o
      BY <1>2, <2>1, <3>1, <3>2, <3>3
    <3>. QED
      BY <3>2, <3>3, <3>4 DEF RoundOpen, c
  <2>. QED
    BY <1>1, <2>1, <2>2, <2>3 DEF RoundsFit
<1>. QED
  BY <1>1, <1>3, <1>4, <1>5, <1>6 DEF Fits

\* A message that says nothing changes nothing.
LEMMA SkipFits ==
    ASSUME NEW s \in Seq(WireMessages), NEW k \in 0..Len(s) - 1, NEW ts, NEW p,
           Fits(s, k, ts, p, 0), s[k + 1].role \in {"system", "blank"}
    PROVE  Fits(s, k + 1, ts, p, 0)
<1>1. k \in Nat /\ k + 1 \in Nat /\ k + 1 \in 1..Len(s) /\ s[k + 1].calls = 0
  <2>1. k \in Nat /\ k + 1 \in Nat /\ k + 1 \in 1..Len(s)
    OBVIOUS
  <2>2. s[k + 1] \in WireMessages
    BY <2>1
  <2>3. s[k + 1].calls \in Nat /\ ~(s[k + 1].calls > 0)
    BY <2>2, WireAssumption DEF WireMessages
  <2>. QED
    BY <2>1, <2>3
<1>2. AllHeld(s, k + 1, ts, p)
  <2>1. ASSUME NEW i
        PROVE  i \in 1..k + 1 /\ Speaks(s[i].role) <=> i \in 1..k /\ Speaks(s[i].role)
    <3>1. ~Speaks(s[k + 1].role)
      BY DEF Speaks
    <3>2. i \in 1..k + 1 <=> i = k + 1 \/ i \in 1..k
      BY <1>1
    <3>. QED
      BY <3>1, <3>2
  <2>. QED
    BY <2>1 DEF Fits, AllHeld
<1>3. RoundsFit(s, k + 1, ts, p, 0)
  <2>. SUFFICES ASSUME NEW i \in 1..k + 1, s[i].calls > 0
                PROVE  RoundClosed(s, ts, i) \/ RoundOpen(s, k + 1, ts, p, 0, i)
    BY DEF RoundsFit
  <2>1. i \in 1..k
    BY <1>1
  <2>2. RoundClosed(s, ts, i) \/ RoundOpen(s, k, ts, p, 0, i)
    BY <2>1 DEF Fits, RoundsFit
  <2>. QED
    BY <2>2 DEF RoundOpen
<1>. QED
  BY <1>2, <1>3 DEF Fits

\* One message more.
LEMMA ConvertFits ==
    ASSUME NEW s \in Seq(WireMessages), NEW k \in 0..Len(s) - 1, NEW st \in InTurns,
           NEW o \in Nat, NEW after \in Nat, Fits(s, k, st.turns, st.pending, o),
           IF s[k + 1].role = "result" THEN o = after + 1 ELSE o = 0 /\ after = s[k + 1].calls
    PROVE  LET then == Converted(st, s, k + 1)
           IN then \in InTurns /\ Fits(s, k + 1, then.turns, then.pending, after)
<1>. DEFINE role == s[k + 1].role
            then == Converted(st, s, k + 1)
            flushed == Flushed(st)
            t == WireTurn(Speaker(role), FALSE, {k + 1})
<1>1. k + 1 \in 1..Len(s) /\ st.turns \in Seq(WireTurns) /\ k \in 0..Len(s)
  BY DEF InTurns
<1>2. /\ then \in InTurns
      /\ role \in {"system", "user", "said", "blank", "result", "asked"}
      /\ role = "system" => then = st
      /\ role = "blank" => then = flushed
      /\ role = "result" => then.turns = st.turns /\ then.pending = st.pending \cup {k + 1}
      /\ role \in {"user", "said", "asked"} =>
           then.pending = {} /\ then.turns = AppendTurn(flushed.turns, t)
  BY <1>1, ConvertedFact
<1>. HIDE DEF then
<1>3. CASE role = "result"
  <2>1. Fits(s, k, st.turns, st.pending, after + 1)
    BY <1>3
  <2>2. Fits(s, k + 1, st.turns, st.pending \cup {k + 1}, after)
    BY <1>1, <1>3, <2>1, HearFits
  <2>. QED
    BY <1>2, <1>3, <2>2 DEF then
<1>4. CASE role # "result"
  <2>1. o = 0 /\ after = s[k + 1].calls /\ Fits(s, k, st.turns, st.pending, 0)
    BY <1>4
  <2>2. /\ flushed \in InTurns /\ flushed.pending = {} /\ flushed.turns \in Seq(WireTurns)
        /\ Fits(s, k, flushed.turns, {}, 0)
        /\ \A i \in 1..k : s[i].calls > 0 => RoundClosed(s, flushed.turns, i)
    BY <1>1, <2>1, FlushedFact, FlushFits DEF InTurns
  <2>. HIDE DEF flushed
  <2>3. ASSUME role \in {"system", "blank"} PROVE after = 0
    <3>1. s[k + 1] \in WireMessages
      BY <1>1
    <3>. QED
      BY <2>1, <2>3, <3>1, WireAssumption DEF WireMessages
  <2>4. CASE role = "system"
    BY <1>2, <2>1, <2>3, <2>4, SkipFits DEF then
  <2>5. CASE role = "blank"
    BY <1>2, <2>2, <2>3, <2>5, SkipFits DEF then
  <2>6. CASE role \in {"user", "said", "asked"}
    <3>. DEFINE ts == flushed.turns
                more == AppendTurn(ts, t)
                n == Len(ts)
    <3>1. t \in WireTurns /\ t.role = Speaker(role) /\ t.results = FALSE /\ t.of = {k + 1}
      BY <1>1 DEF WireTurn, WireTurns, Speaker
    <3>2. /\ more \in Seq(WireTurns)
          /\ \/ /\ more = Append(ts, t)
                /\ ts # <<>> /\ ts[n].role = t.role => ts[n].results \/ t.results
             \/ /\ ts # <<>> /\ ts[n].role = t.role /\ ~ts[n].results
                /\ Len(more) = n /\ \A m \in 1..n : m # n => more[m] = ts[m]
                /\ more[n] = WireTurn(t.role, FALSE, ts[n].of \cup t.of)
      <4>. HIDE DEF t
      <4>. QED
        BY <2>2, <3>1, TurnAdded
    <3>3. CASE /\ more = Append(ts, t)
               /\ ts # <<>> /\ ts[n].role = t.role => ts[n].results \/ t.results
      <4>1. Fits(s, k + 1, Append(ts, t), {}, s[k + 1].calls)
        <5>1. ts # <<>> /\ ts[Len(ts)].role = Speaker(s[k + 1].role) => ts[Len(ts)].results
          BY <3>1, <3>3
        <5>. HIDE DEF ts
        <5>. QED
          BY <2>2, <2>6, <5>1, SpeakAppends DEF ts
      <4>. QED
        BY <1>2, <2>1, <2>6, <3>3, <4>1 DEF then
    <3>4. CASE /\ ts # <<>> /\ ts[n].role = t.role /\ ~ts[n].results
               /\ Len(more) = n /\ \A m \in 1..n : m # n => more[m] = ts[m]
               /\ more[n] = WireTurn(t.role, FALSE, ts[n].of \cup t.of)
      <4>1. /\ ts[Len(ts)].role = Speaker(s[k + 1].role)
            /\ more[Len(ts)]
                 = WireTurn(Speaker(s[k + 1].role), FALSE, ts[Len(ts)].of \cup {k + 1})
        BY <3>1, <3>4
      <4>2. Fits(s, k + 1, more, {}, s[k + 1].calls)
        <5>. HIDE DEF ts, more
        <5>. QED
          BY <2>2, <2>6, <3>2, <3>4, <4>1, SpeakJoins DEF ts
      <4>. QED
        BY <1>2, <2>1, <2>6, <4>2 DEF then
    <3>. QED
      BY <3>2, <3>3, <3>4
  <2>. QED
    BY <1>2, <1>4, <2>4, <2>5, <2>6
<1>. QED
  BY <1>3, <1>4

\* The conversion goes from message to message.
LEMMA ConversionUnfolds ==
    ASSUME NEW s \in Seq(WireMessages)
    PROVE  /\ Conversion(s)[0] = [turns |-> <<>>, pending |-> {}]
           /\ \A k \in 1..Len(s) : Conversion(s)[k] = Converted(Conversion(s)[k - 1], s, k)
<1>. DEFINE n == Len(s)
            S == InTurns
            none == [turns |-> <<>>, pending |-> {}]
            after(st, k) == Converted(st, s, k)
            Is(f) == f = [k \in 0..n |-> IF k = 0 THEN none ELSE after(f[k - 1], k)]
            g == [p \in (1..n) \X S |-> after(p[2], p[1])]
<1>1. n \in Nat /\ none \in S
  BY DEF InTurns
<1>2. g \in [(1..n) \X S -> S]
  <2>. SUFFICES ASSUME NEW p \in (1..n) \X S PROVE after(p[2], p[1]) \in S
    OBVIOUS
  <2>1. p[1] \in 1..n /\ p[2] \in S
    OBVIOUS
  <2>. QED
    BY <2>1, ConvertedFact
<1>a. PICK f : GoesOn(f, n, S, none, g)
  <2>. HIDE DEF g, S, n, none
  <2>. QED
    BY <1>1, <1>2, Unfolds
<1>3. f \in [0..n -> S] /\ f = [k \in 0..n |-> IF k = 0 THEN none ELSE g[<<k, f[k - 1]>>]]
  BY <1>a DEF GoesOn
<1>4. ASSUME NEW k \in 1..n PROVE f[k] = after(f[k - 1], k)
  <2>1. k \in 0..n /\ k # 0 /\ k - 1 \in 0..n
    BY <1>1
  <2>2. f[k - 1] \in S
    BY <1>3, <2>1
  <2>3. <<k, f[k - 1]>> \in (1..n) \X S
    BY <2>2
  <2>4. f[k] = g[<<k, f[k - 1]>>]
    <3>. HIDE DEF g, S, n, none
    <3>. QED
      BY <1>3, <2>1
  <2>. HIDE DEF S
  <2>. QED
    BY <2>3, <2>4
<1>5. Is(f)
  <2>1. f[0] = none
    <3>. HIDE DEF g, S, none
    <3>. QED
      BY <1>1, <1>3
  <2>2. \A k \in 0..n : f[k] = IF k = 0 THEN none ELSE after(f[k - 1], k)
    <3>. HIDE DEF after, g, S, none
    <3>. QED
      BY <1>4, <2>1
  <2>3. f = [k \in 0..n |-> f[k]]
    BY <1>3
  <2>. HIDE DEF after, g, S, n, none
  <2>. QED
    BY <2>2, <2>3, Zenon
<1>6. Conversion(s) = CHOOSE h : Is(h)
  BY DEF Conversion
<1>7. Is(Conversion(s))
  <2>. HIDE DEF Is
  <2>. QED
    BY <1>5, <1>6
<1>8. 0 \in 0..n
  BY <1>1
<1>. HIDE DEF after, none
<1>9. Conversion(s)[0] = none
  BY <1>7, <1>8
<1>10. ASSUME NEW k \in 1..n PROVE Conversion(s)[k] = after(Conversion(s)[k - 1], k)
  <2>1. k \in 0..n /\ k # 0
    BY <1>1
  <2>. HIDE DEF n
  <2>. QED
    BY <1>7, <2>1
<1>. QED
  BY <1>9, <1>10 DEF after, none

\* The turns of an accepted history fit it.
LEMMA AcceptedFits ==
    ASSUME NEW s \in Seq(WireMessages), Accepted(s)
    PROVE  TurnsFit(s)
<1>. DEFINE n == Len(s)
<1>1. PICK owed \in [0..n -> 0..MaxRound] :
        /\ owed[0] = 0 /\ owed[n] = 0
        /\ \A k \in DOMAIN s : IF s[k].role = "result" THEN owed[k - 1] = owed[k] + 1
                               ELSE owed[k - 1] = 0 /\ owed[k] = s[k].calls
  BY DEF Accepted
<1>2. n \in Nat /\ DOMAIN s = 1..n /\ \A k \in 0..n : owed[k] \in Nat
  BY WireAssumption
<1>. DEFINE st(k) == Conversion(s)[k]
            M == {k \in 0..n : /\ st(k) \in InTurns
                               /\ Fits(s, k, st(k).turns, st(k).pending, owed[k])}
<1>3. 0 \in M
  <2>1. st(0) = [turns |-> <<>>, pending |-> {}]
    BY ConversionUnfolds
  <2>2. st(0) \in InTurns /\ st(0).turns = <<>> /\ st(0).pending = {}
    BY <2>1 DEF InTurns
  <2>3. Fits(s, 0, <<>>, {}, 0)
    BY DEF Fits, AllHeld, InLine, RolesFit, RoundsFit, RolesAlternate
  <2>4. 0 \in 0..n
    BY <1>2
  <2>. HIDE DEF st
  <2>. QED
    BY <1>1, <2>2, <2>3, <2>4
<1>4. ASSUME NEW k \in 0..n - 1, k \in M PROVE k + 1 \in M
  <2>1. /\ k + 1 \in 1..n /\ (k + 1) - 1 = k /\ k \in 0..n /\ k + 1 \in 0..n
        /\ k \in 0..Len(s) - 1
    BY <1>2
  <2>2. IF s[k + 1].role = "result" THEN owed[k] = owed[k + 1] + 1
        ELSE owed[k] = 0 /\ owed[k + 1] = s[k + 1].calls
    <3>1. IF s[k + 1].role = "result" THEN owed[(k + 1) - 1] = owed[k + 1] + 1
          ELSE owed[(k + 1) - 1] = 0 /\ owed[k + 1] = s[k + 1].calls
      BY <1>1, <1>2, <2>1
    <3>. QED
      BY <2>1, <3>1
  <2>3. st(k) \in InTurns /\ Fits(s, k, st(k).turns, st(k).pending, owed[k])
    BY <1>4
  <2>4. owed[k] \in Nat /\ owed[k + 1] \in Nat
    BY <1>2, <2>1
  <2>5. st(k + 1) = Converted(st(k), s, k + 1)
    <3>1. st(k + 1) = Converted(st((k + 1) - 1), s, k + 1)
      BY <2>1, ConversionUnfolds
    <3>. QED
      BY <2>1, <3>1
  <2>. HIDE DEF st
  <2>6. Converted(st(k), s, k + 1) \in InTurns
        /\ Fits(s, k + 1, Converted(st(k), s, k + 1).turns, Converted(st(k), s, k + 1).pending,
                owed[k + 1])
    BY <2>1, <2>2, <2>3, <2>4, ConvertFits
  <2>. QED
    BY <2>1, <2>5, <2>6
<1>5. n \in M
  <2>. HIDE DEF M
  <2>1. \A k \in 0..n : k \in M
    BY <1>2, <1>3, <1>4, Climb
  <2>. QED
    BY <1>2, <2>1
<1>. DEFINE ts == Turns(s)
<1>6. Fits(s, n, ts, {}, 0) /\ \A i \in 1..n : s[i].calls > 0 => RoundClosed(s, ts, i)
  <2>1. n \in 0..Len(s) /\ st(n) \in InTurns /\ Fits(s, n, st(n).turns, st(n).pending, 0)
    BY <1>1, <1>2, <1>5
  <2>2. ts = Flushed(st(n)).turns
    BY DEF Turns
  <2>. HIDE DEF st, ts
  <2>. QED
    BY <2>1, <2>2, FlushFits
<1>. HIDE DEF ts
<1>7. UNION {ts[k].of : k \in DOMAIN ts}
        = {i \in DOMAIN s : s[i].role \notin {"system", "blank"}}
  <2>1. \A i : (\E m \in DOMAIN ts : i \in ts[m].of) <=> i \in 1..n /\ Speaks(s[i].role)
    BY <1>6 DEF Fits, AllHeld
  <2>. QED
    BY <1>2, <2>1 DEF Speaks
<1>8. \A j, k \in DOMAIN ts : j < k => \A x \in ts[j].of, y \in ts[k].of : x < y
  BY <1>6 DEF Fits, InLine
<1>9. \A k \in DOMAIN ts : \A i \in ts[k].of :
            /\ ts[k].results = (s[i].role = "result")
            /\ ts[k].role = IF s[i].role \in {"user", "result"} THEN "user" ELSE "assistant"
  BY <1>6 DEF Fits, RolesFit
<1>10. \A i \in DOMAIN s : s[i].calls > 0 => \E k \in 1..Len(ts) - 1 :
            i \in ts[k].of /\ ts[k + 1].of = i + 1..i + s[i].calls
  BY <1>2, <1>6 DEF RoundClosed
<1>11. \A k \in 1..Len(ts) - 1 : ts[k].role = ts[k + 1].role
            => ts[k].results \/ ts[k + 1].results
  BY <1>6 DEF Fits, RolesAlternate
<1>. QED
  BY <1>7, <1>8, <1>9, <1>10, <1>11 DEF TurnsFit, ts

-----------------------------------------------------------------------------
(* A request of the second provider *)

\* One piece more.
LEMMA PieceMore ==
    ASSUME NEW n \in Nat
    PROVE  /\ Len(FirstPieces(n)) = n
           /\ Append(FirstPieces(n), n + 1) = FirstPieces(n + 1)
<1>1. FirstPieces(n) \in Seq(Nat) /\ Len(FirstPieces(n)) = n
      /\ \A i \in 1..n : FirstPieces(n)[i] = i
  BY DEF FirstPieces
<1>2. FirstPieces(n + 1) \in Seq(Nat) /\ Len(FirstPieces(n + 1)) = n + 1
      /\ \A i \in 1..n + 1 : FirstPieces(n + 1)[i] = i
  BY DEF FirstPieces
<1>. DEFINE a == Append(FirstPieces(n), n + 1)
            b == FirstPieces(n + 1)
<1>3. a \in Seq(Nat) /\ Len(a) = n + 1 /\ \A i \in 1..n + 1 : a[i] = i
  BY <1>1
<1>4. b \in Seq(Nat) /\ Len(b) = n + 1 /\ \A i \in 1..n + 1 : b[i] = i
  BY <1>2
<1>. HIDE DEF a, b
<1>5. a = b
  BY <1>3, <1>4
<1>. QED
  BY <1>1, <1>5 DEF a, b

\* The attempts that were made, by the attempt of the channel.
WireCount == sent <= request + (IF channel = "plan" THEN WireRetries + 1 ELSE 0)
                 - (IF wireStep \in {"convert", "send"} THEN 1 ELSE 0)

\* The attempts end.
LEMMA AttemptsEnd ==
    AnthropicTypeOK /\ WireCount /\ (channel = "plan" => hasPlan)
      => sent <= (IF hasPlan THEN 2 ELSE 1) * (WireRetries + 1)
<1>. SUFFICES ASSUME AnthropicTypeOK, WireCount, channel = "plan" => hasPlan
              PROVE  sent <= (IF hasPlan THEN 2 ELSE 1) * (WireRetries + 1)
  OBVIOUS
<1>1. WireRetries \in Nat /\ sent \in Nat /\ request \in Nat /\ request <= WireRetries + 1
  BY WireAssumption DEF AnthropicTypeOK
<1>2. CASE hasPlan
  BY <1>1, <1>2 DEF WireCount
<1>3. CASE ~hasPlan
  BY <1>1, <1>3 DEF WireCount
<1>. QED
  BY <1>2, <1>3

\* The invariant but for what follows from the rest.
WireCore ==
    /\ AnthropicTypeOK
    /\ wireStep = "convert" => Accepted(wireHistory) /\ wireHistory # <<>> /\ sent = 0
    /\ wireStep = "read" /\ streaming => shownText = heardText
    /\ wireStep \in {"convert", "send"} => shownText = <<>>
    /\ ~streaming => shownText = <<>>
    /\ channel = "plan" => hasPlan
    /\ wireStep = "answered" => (streaming => shownText = answer) /\ IsInjective(toolCalls)
    /\ WireCount

LEMMA WireCoreSuffices == WireCore <=> WireInv
<1>1. ASSUME WireCore PROVE WireInv
  <2>1. wireStep = "convert" => TurnsFit(wireHistory)
    <3>. SUFFICES ASSUME wireStep = "convert" PROVE TurnsFit(wireHistory)
      OBVIOUS
    <3>1. wireHistory \in Histories /\ Accepted(wireHistory)
      BY <1>1 DEF WireCore, AnthropicTypeOK
    <3>2. wireHistory \in Seq(WireMessages)
      <4>1. PICK n \in 1..MaxHistory : wireHistory \in [1..n -> WireMessages]
        BY <3>1 DEF Histories
      <4>2. n \in Nat
        BY WireAssumption
      <4>. QED
        BY <4>1, <4>2
    <3>. QED
      BY <3>1, <3>2, AcceptedFits
  <2>2. sent <= (IF hasPlan THEN 2 ELSE 1) * (WireRetries + 1)
    BY <1>1, AttemptsEnd DEF WireCore
  <2>3. RequestAnswered
    BY <1>1, <2>1, <2>2 DEF WireCore, RequestAnswered
  <2>. QED
    BY <1>1, <2>3 DEF WireCore, WireInv, WireCount
<1>2. ASSUME WireInv PROVE WireCore
  BY <1>2 DEF WireCore, WireInv, WireCount, RequestAnswered
<1>. QED
  BY <1>1, <1>2

LEMMA WireInitially == AnthropicInit => WireInv
<1>. SUFFICES ASSUME AnthropicInit PROVE WireCore
  BY WireCoreSuffices
<1>1. {MaxPieces, MaxBlocks, WireRetries} \subseteq Nat
  BY WireAssumption
<1>2. wireHistory \in Histories /\ Accepted(wireHistory)
  BY DEF AnthropicInit
<1>3. wireHistory # <<>>
  <2>1. PICK n \in 1..MaxHistory : wireHistory \in [1..n -> WireMessages]
    BY <1>2 DEF Histories
  <2>2. 1 \in 1..n /\ DOMAIN wireHistory = 1..n
    BY <2>1, WireAssumption
  <2>. QED
    BY <2>2
<1>4. heardText \in {FirstPieces(n) : n \in 0..MaxPieces}
  <2>1. FirstPieces(0) = <<>>
    BY DEF FirstPieces
  <2>2. 0 \in 0..MaxPieces
    BY <1>1
  <2>. QED
    BY <2>1, <2>2 DEF AnthropicInit
<1>5. AnthropicTypeOK
  BY <1>1, <1>2, <1>4 DEF AnthropicInit, AnthropicTypeOK, Missing
<1>. QED
  BY <1>1, <1>2, <1>3, <1>5 DEF AnthropicInit, WireCore, WireCount

LEMMA WireStutters == WireInv /\ UNCHANGED anthropicVars => WireInv'
<1>. SUFFICES ASSUME WireInv, UNCHANGED anthropicVars PROVE WireInv'
  OBVIOUS
<1>. USE DEF anthropicVars
<1>1. AnthropicTypeOK'
  BY DEF WireInv, AnthropicTypeOK
<1>2. RequestAnswered'
  BY DEF WireInv, RequestAnswered
<1>. QED
  BY <1>1, <1>2 DEF WireInv

\* The step of the request that is left or repeated.
LEMMA RetryKeeps ==
    ASSUME AnthropicTypeOK, RetryRequest \/ FailRequest
    PROVE  /\ request' \in 1..(WireRetries + 1) /\ channel' = channel
           /\ \/ wireStep' = "send" /\ request' = request + 1
              \/ wireStep' = "failed" /\ request' = request
<1>1. request \in 1..(WireRetries + 1) /\ WireRetries \in Nat
  BY WireAssumption DEF AnthropicTypeOK
<1>2. CASE FailRequest
  BY <1>1, <1>2 DEF FailRequest
<1>3. CASE RetryRequest
  <2>1. CASE request <= WireRetries
    BY <1>1, <1>3, <2>1 DEF RetryRequest
  <2>2. CASE ~(request <= WireRetries)
    BY <1>1, <1>3, <2>2 DEF RetryRequest, FailRequest
  <2>. QED
    BY <2>1, <2>2
<1>. QED
  BY <1>2, <1>3

\* Each step of a request keeps its invariant.
LEMMA WireGoesOn == WireInv /\ AnthropicNext => WireInv'
<1>a. WireCore' => WireInv'
  BY WireCoreSuffices, PTL
<1>. SUFFICES ASSUME WireCore, AnthropicNext PROVE WireCore'
  BY <1>a, WireCoreSuffices
<1>0. /\ {MaxPieces, MaxBlocks, WireRetries} \subseteq Nat /\ AnthropicTypeOK
      /\ request \in 1..(WireRetries + 1) /\ sent \in Nat /\ streaming \in BOOLEAN
      /\ hasPlan \in BOOLEAN
      /\ <<>> \in {FirstPieces(n) : n \in 0..MaxPieces}
  <2>1. FirstPieces(0) = <<>> /\ MaxPieces \in Nat
    BY WireAssumption DEF FirstPieces
  <2>2. 0 \in 0..MaxPieces
    BY <2>1
  <2>. QED
    BY <2>1, <2>2, WireAssumption DEF WireCore, AnthropicTypeOK
<1>1. CASE Convert
  <2>1. AnthropicTypeOK'
    BY <1>0, <1>1 DEF AnthropicTypeOK, Convert
  <2>2. WireCount'
    BY <1>1 DEF WireCore, WireCount, Convert
  <2>. QED
    BY <1>1, <2>1, <2>2 DEF WireCore, Convert
<1>2. CASE SendHistory
  <2>1. toolBlocks' \in
          [1..MaxBlocks -> [open : BOOLEAN, id : GivenIds \cup {NoId}, named : BOOLEAN]]
    BY <1>2 DEF SendHistory, Missing
  <2>2. /\ wireStep = "send" /\ sent' = sent + 1 /\ heardText' = <<>> /\ shownText = <<>>
        /\ UNCHANGED <<wireHistory, streaming, hasPlan, answer, toolCalls, shownText>>
        /\ \/ RetryRequest \/ FailRequest
           \/ /\ hasPlan /\ channel = "paid" /\ channel' = "plan" /\ request' = 1
              /\ wireStep' = "send"
           \/ wireStep' = "read" /\ UNCHANGED <<request, channel>>
    BY <1>2 DEF SendHistory, WireCore
  <2>3. /\ request' \in 1..(WireRetries + 1) /\ channel' \in {"paid", "plan"}
        /\ wireStep' \in {"send", "read", "failed"} /\ WireCount'
        /\ channel' = "plan" => hasPlan
    <3>1. WireRetries \in Nat /\ channel \in {"paid", "plan"} /\ WireCount
          /\ (channel = "plan" => hasPlan)
      BY <1>0 DEF WireCore, AnthropicTypeOK
    <3>2. CASE RetryRequest \/ FailRequest
      BY <1>0, <2>2, <3>1, <3>2, RetryKeeps DEF WireCount
    <3>3. CASE /\ hasPlan /\ channel = "paid" /\ channel' = "plan" /\ request' = 1
               /\ wireStep' = "send"
      BY <1>0, <2>2, <3>1, <3>3 DEF WireCount
    <3>4. CASE wireStep' = "read" /\ UNCHANGED <<request, channel>>
      BY <1>0, <2>2, <3>1, <3>4 DEF WireCount
    <3>. QED
      BY <2>2, <3>2, <3>3, <3>4
  <2>4. AnthropicTypeOK'
    BY <1>0, <2>1, <2>2, <2>3 DEF AnthropicTypeOK
  <2>. QED
    BY <2>2, <2>3, <2>4 DEF WireCore
<1>3. CASE TextDelta
  <2>1. PICK n \in 0..MaxPieces : heardText = FirstPieces(n)
    BY <1>0 DEF AnthropicTypeOK
  <2>2. n \in Nat /\ n < MaxPieces /\ Len(heardText) = n
    BY <1>0, <1>3, <2>1, PieceMore DEF TextDelta
  <2>3. heardText' = FirstPieces(n + 1) /\ n + 1 \in 0..MaxPieces
    <3>1. n + 1 \in 0..MaxPieces
      BY <1>0, <2>2
    <3>2. heardText' = Append(FirstPieces(n), n + 1)
      BY <1>3, <2>1, <2>2 DEF TextDelta
    <3>. QED
      BY <2>2, <3>1, <3>2, PieceMore
  <2>4. AnthropicTypeOK'
    BY <1>0, <1>3, <2>3 DEF AnthropicTypeOK, TextDelta
  <2>5. WireCount'
    BY <1>3 DEF WireCore, WireCount, TextDelta
  <2>6. IF streaming THEN shownText' = heardText' ELSE shownText' = <<>>
    BY <1>3 DEF WireCore, TextDelta
  <2>. QED
    BY <1>3, <2>4, <2>5, <2>6 DEF WireCore, TextDelta
<1>4. ASSUME NEW b \in 1..MaxBlocks, OpenBlock(b) PROVE WireCore'
  <2>1. AnthropicTypeOK'
    <3>1. toolBlocks' \in
            [1..MaxBlocks -> [open : BOOLEAN, id : GivenIds \cup {NoId}, named : BOOLEAN]]
      BY <1>0, <1>4 DEF AnthropicTypeOK, OpenBlock
    <3>. QED
      BY <1>0, <1>4, <3>1 DEF AnthropicTypeOK, OpenBlock
  <2>2. WireCount'
    BY <1>4 DEF WireCore, WireCount, OpenBlock
  <2>. QED
    BY <1>4, <2>1, <2>2 DEF WireCore, OpenBlock
<1>5. CASE Break
  <2>1. /\ wireStep = "read" /\ (RetryRequest \/ FailRequest)
        /\ UNCHANGED <<wireHistory, streaming, hasPlan, heardText, toolBlocks, answer,
                       toolCalls, shownText, sent>>
    BY <1>5 DEF Break
  <2>2. wireStep' = "send" => shownText = <<>>
    <3>. SUFFICES ASSUME wireStep' = "send", shownText # <<>> PROVE FALSE
      OBVIOUS
    <3>1. streaming /\ heardText = shownText
      BY <1>0, <2>1 DEF WireCore
    <3>2. FailRequest
      BY <1>5, <3>1 DEF Break
    <3>. QED
      BY <3>2 DEF FailRequest
  <2>3. /\ request' \in 1..(WireRetries + 1) /\ channel' = channel
        /\ wireStep' \in {"send", "failed"} /\ WireCount'
    BY <1>0, <2>1, RetryKeeps DEF WireCore, WireCount
  <2>4. AnthropicTypeOK'
    BY <1>0, <2>1, <2>3 DEF AnthropicTypeOK
  <2>. QED
    BY <2>1, <2>2, <2>3, <2>4 DEF WireCore
<1>6. CASE FinishRequest
  <2>1. AnthropicTypeOK'
    BY <1>0, <1>6 DEF AnthropicTypeOK, FinishRequest
  <2>2. IsInjective(toolCalls')
    BY <1>0, <1>6, IdsDiffer DEF FinishRequest
  <2>3. WireCount'
    BY <1>6 DEF WireCore, WireCount, FinishRequest
  <2>. QED
    BY <1>6, <2>1, <2>2, <2>3 DEF WireCore, FinishRequest
<1>. QED
  BY <1>1, <1>2, <1>3, <1>4, <1>5, <1>6 DEF AnthropicNext

\* Of the Anthropic provider: all turns fit, what was shown is the answer and
\* calls differ (messages_to_anthropic, _read_stream, unique_tool_call_id).
THEOREM WireInvariant == AnthropicSpec => []WireInv
<1>1. AnthropicInit => WireInv
  BY WireInitially
<1>2. WireInv /\ [AnthropicNext]_anthropicVars => WireInv'
  BY WireGoesOn, WireStutters
<1>. QED
  BY <1>1, <1>2, PTL DEF AnthropicSpec

(* What the Anthropic provider makes of a history it may send is that      *)
(* history: roles alternate but at results, and a call is followed by its  *)
(* results.  What was shown for an answered request is its text, once, its *)
(* calls have different ids, and the attempts end.                         *)
THEOREM RequestsAreAnswered == AnthropicSpec => []RequestAnswered
<1>1. WireInv => RequestAnswered
  BY DEF WireInv
<1>. QED
  BY <1>1, WireInvariant, PTL

-----------------------------------------------------------------------------
(* The names of tools *)

\* A name that a tool gets is not taken.
LEMMA FreeNameFact ==
    ASSUME NEW full, NEW taken, IsFiniteSet(taken)
    PROVE  /\ FreeName(full, taken) \notin taken
           /\ FreeName(full, taken) \in {<<Folded[full]>>}
                                         \cup {<<Cut[Folded[full]], full, n>> : n \in Nat}
<1>. DEFINE hashed(n) == <<Cut[Folded[full]], full, n>>
            f == [n \in Nat |-> hashed(n)]
            c == Cardinality(taken)
            free == {n \in 1..1 + c : f[n] \notin taken}
            simple == Cut[Folded[full]] = Folded[full] /\ <<Folded[full]>> \notin taken
<1>1. CASE simple
  BY <1>1 DEF FreeName
<1>2. CASE ~simple
  <2>1. c \in Nat
    BY FS_CardinalityType
  <2>2. \A m, n \in 1..1 + c : f[m] = f[n] => m = n
    <3>. SUFFICES ASSUME NEW m \in 1..1 + c, NEW n \in 1..1 + c, f[m] = f[n] PROVE m = n
      OBVIOUS
    <3>1. m \in Nat /\ n \in Nat
      BY <2>1
    <3>. QED
      BY <3>1
  <2>. HIDE DEF f
  <2>3. Min(free) \in free
    BY <2>2, FreeNumber
  <2>4. free = {n \in 1..(Cardinality(taken) + 1) : hashed(n) \notin taken}
    BY <2>1 DEF f
  <2>5. FreeName(full, taken) = hashed(Min(free))
    BY <1>2, <2>4 DEF FreeName
  <2>. HIDE DEF free
  <2>6. hashed(Min(free)) \notin taken /\ Min(free) \in Nat
    <3>1. Cardinality(taken) + 1 \in Nat
      BY <2>1
    <3>. HIDE DEF c
    <3>. QED
      BY <2>3, <2>4, <3>1
  <2>. QED
    BY <2>5, <2>6
<1>. QED
  BY <1>1, <1>2

\* The names of a list of specs.
NamesIn(row) == {row[i].name : i \in DOMAIN row}

WithTool(row, t) ==
    Append(row, [name |-> FreeName(FullName[<<nth, t>>], NamesIn(row)),
                  server |-> nth, tool |-> t])

\* What names there may be while a list is registered.
NameSpace ==
    NamesIn(specs)
    \cup {<<Folded[FullName[<<nth, t>>]]>> : t \in ServedTools}
    \cup {<<Cut[Folded[FullName[<<nth, t>>]]], FullName[<<nth, t>>], n>> :
              t \in ServedTools, n \in Nat}

SpecsOfPass == [name : NameSpace, server : Servers, tool : ServedTools]

NamesDiffer(row) == \A i, j \in DOMAIN row : i # j => row[i].name # row[j].name

\* The servers of a list are those of the specs and the one a pass is at.
FromPass(row) ==
    \A i \in DOMAIN row :
        row[i].server = nth \/ \E j \in DOMAIN specs : specs[j].server = row[i].server

\* A list has finitely many names.
LEMMA FewNames == ASSUME NEW S, NEW row \in Seq(S) PROVE IsFiniteSet(NamesIn(row))
<1>. DEFINE names == [i \in 1..Len(row) |-> row[i].name]
<1>1. Len(row) \in Nat /\ DOMAIN row = 1..Len(row)
  OBVIOUS
<1>2. names \in Seq(NamesIn(row)) /\ ToSet(names) = NamesIn(row)
  BY <1>1 DEF ToSet, NamesIn
<1>. HIDE DEF names
<1>. QED
  BY <1>2, FewElements

\* A tool more has a name of its own and belongs to the server of the pass.
LEMMA ToolAdded ==
    ASSUME NEW row \in Seq(SpecsOfPass), NEW t \in ServedTools, nth \in Servers
    PROVE  /\ WithTool(row, t) \in Seq(SpecsOfPass)
           /\ NamesDiffer(row) => NamesDiffer(WithTool(row, t))
           /\ FromPass(row) => FromPass(WithTool(row, t))
<1>. DEFINE full == FullName[<<nth, t>>]
            name == FreeName(full, NamesIn(row))
            e == [name |-> name, server |-> nth, tool |-> t]
            more == Append(row, e)
            n == Len(row)
<1>1. /\ name \notin NamesIn(row)
      /\ name \in {<<Folded[full]>>} \cup {<<Cut[Folded[full]], full, k>> : k \in Nat}
  <2>. HIDE DEF full
  <2>. QED
    BY FewNames, FreeNameFact
<1>2. name \in NameSpace
  <2>. HIDE DEF name
  <2>. QED
    BY <1>1 DEF NameSpace
<1>. HIDE DEF name
<1>3. e \in SpecsOfPass /\ e.name = name /\ e.server = nth
  BY <1>2 DEF SpecsOfPass
<1>. HIDE DEF e
<1>4. /\ more \in Seq(SpecsOfPass) /\ n \in Nat /\ DOMAIN row = 1..n /\ DOMAIN more = 1..n + 1
      /\ \A i \in 1..n : more[i] = row[i]
      /\ more[n + 1] = e
  BY <1>3
<1>. HIDE DEF more, n
<1>5. ASSUME NamesDiffer(row) PROVE NamesDiffer(more)
  <2>1. \A i \in 1..n : more[i].name = row[i].name /\ more[i].name # name
    BY <1>1, <1>4 DEF NamesIn
  <2>2. more[n + 1].name = name
    BY <1>3, <1>4
  <2>. SUFFICES ASSUME NEW i \in 1..n + 1, NEW j \in 1..n + 1, i # j
                PROVE  more[i].name # more[j].name
    BY <1>4 DEF NamesDiffer
  <2>3. (i \in 1..n \/ i = n + 1) /\ (j \in 1..n \/ j = n + 1)
    BY <1>4
  <2>4. CASE i \in 1..n /\ j \in 1..n
    BY <1>4, <1>5, <2>1, <2>4 DEF NamesDiffer
  <2>. QED
    BY <2>1, <2>2, <2>3, <2>4
<1>6. ASSUME FromPass(row) PROVE FromPass(more)
  <2>. SUFFICES ASSUME NEW i \in 1..n + 1
                PROVE  \/ more[i].server = nth
                       \/ \E j \in DOMAIN specs : specs[j].server = more[i].server
    BY <1>4 DEF FromPass
  <2>1. CASE i \in 1..n
    BY <1>4, <1>6, <2>1 DEF FromPass
  <2>2. CASE i = n + 1
    BY <1>3, <1>4, <2>2
  <2>. QED
    BY <1>4, <2>1, <2>2
<1>. QED
  BY <1>4, <1>5, <1>6 DEF WithTool, more, e, name

\* The specs after each tool are what it adds to those before it.
LEMMA SpecsUnfold ==
    ASSUME specs \in Seq(SpecsOfPass), nth \in Servers, NEW theirs \in Seq(ServedTools)
    PROVE  /\ SpecsAfter(theirs)[0] = specs
           /\ \A k \in 1..Len(theirs) :
                SpecsAfter(theirs)[k] = WithTool(SpecsAfter(theirs)[k - 1], theirs[k])
<1>. DEFINE n == Len(theirs)
            S == Seq(SpecsOfPass)
            after(row, k) == WithTool(row, theirs[k])
            Is(f) == f = [k \in 0..n |-> IF k = 0 THEN specs ELSE after(f[k - 1], k)]
            g == [p \in (1..n) \X S |-> after(p[2], p[1])]
<1>1. n \in Nat
  OBVIOUS
<1>2. g \in [(1..n) \X S -> S]
  <2>. SUFFICES ASSUME NEW p \in (1..n) \X S PROVE after(p[2], p[1]) \in S
    OBVIOUS
  <2>1. p[1] \in 1..n /\ p[2] \in S /\ theirs[p[1]] \in ServedTools
    OBVIOUS
  <2>. QED
    BY <2>1, ToolAdded
<1>a. PICK f : GoesOn(f, n, S, specs, g)
  <2>. HIDE DEF g, n
  <2>. QED
    BY <1>1, <1>2, Unfolds
<1>3. f \in [0..n -> S] /\ f = [k \in 0..n |-> IF k = 0 THEN specs ELSE g[<<k, f[k - 1]>>]]
  BY <1>a DEF GoesOn
<1>4. ASSUME NEW k \in 1..n PROVE f[k] = after(f[k - 1], k)
  <2>1. k \in 0..n /\ k # 0 /\ k - 1 \in 0..n
    BY <1>1
  <2>2. f[k - 1] \in S
    BY <1>3, <2>1
  <2>3. <<k, f[k - 1]>> \in (1..n) \X S
    BY <2>2
  <2>4. f[k] = g[<<k, f[k - 1]>>]
    <3>. HIDE DEF g, S, n
    <3>. QED
      BY <1>3, <2>1
  <2>. HIDE DEF S
  <2>. QED
    BY <2>3, <2>4
<1>5. Is(f)
  <2>1. f[0] = specs
    <3>. HIDE DEF g, S
    <3>. QED
      BY <1>1, <1>3
  <2>2. \A k \in 0..n : f[k] = IF k = 0 THEN specs ELSE after(f[k - 1], k)
    <3>. HIDE DEF after, g, S
    <3>. QED
      BY <1>4, <2>1
  <2>3. f = [k \in 0..n |-> f[k]]
    BY <1>3
  <2>. HIDE DEF after, g, S, n
  <2>. QED
    BY <2>2, <2>3, Zenon
<1>6. SpecsAfter(theirs) = CHOOSE h : Is(h)
  BY DEF SpecsAfter, WithTool, NamesIn
<1>7. Is(SpecsAfter(theirs))
  <2>. HIDE DEF Is
  <2>. QED
    BY <1>5, <1>6
<1>8. 0 \in 0..n
  BY <1>1
<1>. HIDE DEF after
<1>9. SpecsAfter(theirs)[0] = specs
  BY <1>7, <1>8
<1>10. ASSUME NEW k \in 1..n PROVE SpecsAfter(theirs)[k] = after(SpecsAfter(theirs)[k - 1], k)
  <2>1. k \in 0..n /\ k # 0
    BY <1>1
  <2>. HIDE DEF n
  <2>. QED
    BY <1>7, <2>1
<1>. QED
  BY <1>9, <1>10 DEF after

\* What a server's list makes of the specs.
LEMMA RegisterFact ==
    ASSUME specs \in Seq(SpecsOfPass), nth \in Servers, NamesDiffer(specs), Register
    PROVE  /\ specs' \in Seq(SpecsOfPass) /\ NamesDiffer(specs') /\ FromPass(specs')
           /\ UNCHANGED <<clients, processes, fresh, skips, dropped>>
<1>1. PICK theirs \in UNION {[1..n -> ServedTools] : n \in 0..MaxServed} :
        specs' = SpecsAfter(theirs)[Len(theirs)]
  BY DEF Register
<1>2. theirs \in Seq(ServedTools)
  <2>1. PICK n \in 0..MaxServed : theirs \in [1..n -> ServedTools]
    BY <1>1
  <2>2. n \in Nat
    BY ServersAssumption
  <2>. QED
    BY <2>1, <2>2
<1>. DEFINE n == Len(theirs)
            M == {k \in 0..n : /\ SpecsAfter(theirs)[k] \in Seq(SpecsOfPass)
                               /\ NamesDiffer(SpecsAfter(theirs)[k])
                               /\ FromPass(SpecsAfter(theirs)[k])}
<1>3. n \in Nat
  BY <1>2
<1>4. 0 \in M
  <2>1. 0 \in 0..n /\ SpecsAfter(theirs)[0] = specs
    BY <1>2, <1>3, SpecsUnfold
  <2>2. FromPass(specs)
    BY DEF FromPass
  <2>. QED
    BY <2>1, <2>2
<1>5. ASSUME NEW k \in 0..n - 1, k \in M PROVE k + 1 \in M
  <2>1. k + 1 \in 1..n /\ k + 1 \in 0..n /\ (k + 1) - 1 = k /\ theirs[k + 1] \in ServedTools
    BY <1>2, <1>3
  <2>2. SpecsAfter(theirs)[k + 1] = WithTool(SpecsAfter(theirs)[k], theirs[k + 1])
    <3>1. SpecsAfter(theirs)[k + 1] = WithTool(SpecsAfter(theirs)[(k + 1) - 1], theirs[k + 1])
      BY <1>2, <2>1, SpecsUnfold
    <3>. QED
      BY <2>1, <3>1
  <2>. QED
    BY <1>5, <2>1, <2>2, ToolAdded
<1>6. n \in M
  <2>. HIDE DEF M
  <2>1. \A k \in 0..n : k \in M
    BY <1>3, <1>4, <1>5, Climb
  <2>. QED
    BY <1>3, <2>1
<1>. QED
  BY <1>1, <1>6 DEF Register

-----------------------------------------------------------------------------
(* The invariant of the manager, part by part *)

ServersKinds ==
    /\ accepted \subseteq Servers /\ clients \in [Servers -> {"none", "client", "dead"}]
    /\ processes \in [Servers -> {"none", "up", "gone"}] /\ nth \in 1..(ServerCount + 1)
    /\ errand \in {"load", "absent", "idle", "tools", "context", "post", "closed"}
    /\ fresh \subseteq Servers /\ skips \subseteq Servers /\ dropped \subseteq Servers
    /\ reason \in {"init", "note", "tools", "context", "call"} /\ hops \in 0..MaxRedirects
    /\ posted \in Origins /\ lent \subseteq Origins /\ visited \subseteq Origins
    /\ rounds \in 0..MaxRounds

SpecsNamed ==
    /\ specs \in Seq([name : NamesIn(specs), server : Servers, tool : ServedTools])
    /\ NamesDiffer(specs)

SpecsHeld ==
    \A i \in DOMAIN specs :
        specs[i].server \notin skips /\ clients[specs[i].server] # "none"

SkipsDead == \A s \in skips : clients[s] = "dead"

InBounds == lent \subseteq {"own"} /\ "private" \notin visited /\ posted # "private"

SpecsBehind == Discovering => \A i \in DOMAIN specs : specs[i].server < nth

FreshOwn ==
    errand = "context" \/ (errand = "post" /\ reason # "call" /\ ~Discovering) => fresh = {}

AtPost ==
    errand = "post" =>
        /\ nth \in Servers \ LocalServers
        /\ reason \in {"init", "note"} => clients[nth] = "none"
        /\ reason = "tools" => clients[nth] = "client"

ProcessesHeld ==
    \A s \in LocalServers : processes[s] = "up" => clients[s] = "client" \/ s \in dropped

LeftBehind ==
    errand = "closed" => \A s \in LocalServers : processes[s] = "up" => s \in dropped

ServersCore ==
    /\ ServersKinds /\ SpecsNamed /\ SpecsHeld /\ SkipsDead /\ InBounds /\ SpecsBehind
    /\ FreshOwn /\ AtPost /\ ProcessesHeld /\ LeftBehind

LEMMA ServersCoreSuffices == ServersCore <=> ServersInv
<1>1. ServersTypeOK /\ NamesDiffer(specs) <=> ServersKinds /\ SpecsNamed
  BY DEF ServersTypeOK, ServersKinds, SpecsNamed, NamesIn
<1>2. SkipsDead => \A s \in skips : Health(s) = "dead"
  BY DEF SkipsDead, Health, Dead
<1>3. \A s : Health(s) # "unspawned" <=> clients[s] # "none"
  BY DEF Health
<1>4. ServersInv <=>
        /\ ServersTypeOK /\ NamesDiffer(specs)
        /\ \A i \in DOMAIN specs : specs[i].server \notin skips
        /\ \A i \in DOMAIN specs : Health(specs[i].server) # "unspawned"
        /\ \A i \in DOMAIN specs : clients[specs[i].server] # "none"
        /\ \A s \in skips : Health(s) = "dead"
        /\ SkipsDead /\ InBounds /\ SpecsBehind /\ FreshOwn /\ AtPost /\ ProcessesHeld
        /\ LeftBehind
  BY DEF ServersInv, ServersInHand, NamesDiffer, SkipsDead, InBounds, SpecsBehind, FreshOwn,
         AtPost, ProcessesHeld, LeftBehind
<1>5. SpecsHeld <=> /\ \A i \in DOMAIN specs : specs[i].server \notin skips
                    /\ \A i \in DOMAIN specs : clients[specs[i].server] # "none"
  BY DEF SpecsHeld
<1>. QED
  BY <1>1, <1>2, <1>3, <1>4, <1>5 DEF ServersCore

LEMMA ServersStart == ServersInit => ServersCore
<1>. SUFFICES ASSUME ServersInit PROVE ServersCore
  OBVIOUS
<1>. USE DEF ServersInit
<1>1. ServersKinds
  BY ServersAssumption DEF ServersKinds, Origins
<1>2. SpecsNamed
  BY DEF SpecsNamed, NamesDiffer
<1>3. SpecsHeld /\ SkipsDead /\ InBounds /\ SpecsBehind
  BY DEF SpecsHeld, SkipsDead, InBounds, SpecsBehind
<1>4. FreshOwn /\ AtPost /\ LeftBehind
  BY DEF FreshOwn, AtPost, LeftBehind
<1>5. ProcessesHeld
  BY ServersAssumption DEF ProcessesHeld
<1>. QED
  BY <1>1, <1>2, <1>3, <1>4, <1>5 DEF ServersCore

LEMMA SpecServers ==
    ASSUME SpecsNamed, NEW i \in DOMAIN specs
    PROVE  specs[i].server \in Servers /\ specs[i].server \in Nat
<1>. DEFINE kind == [name : NamesIn(specs), server : Servers, tool : ServedTools]
<1>1. specs \in Seq(kind)
  BY DEF SpecsNamed
<1>2. specs[i] \in kind
  <2>. HIDE DEF kind
  <2>. QED
    BY <1>1
<1>. QED
  BY <1>2, ServersAssumption DEF Servers

\* Where the specs, the clients and the processes stay.
LEMMA ManagedStays ==
    ASSUME ServersCore, UNCHANGED managed
    PROVE  SpecsNamed' /\ SpecsHeld' /\ SkipsDead' /\ ProcessesHeld'
BY DEF ServersCore, managed, SpecsNamed, SpecsHeld, SkipsDead, ProcessesHeld, NamesIn,
       NamesDiffer

LEMMA ServersStutter == ServersCore /\ UNCHANGED serverVars => ServersCore'
<1>. SUFFICES ASSUME ServersCore, UNCHANGED serverVars PROVE ServersCore'
  OBVIOUS
<1>1. UNCHANGED managed /\ UNCHANGED posting /\ UNCHANGED <<accepted, errand, nth, rounds>>
  BY DEF serverVars
<1>2. SpecsNamed' /\ SpecsHeld' /\ SkipsDead' /\ ProcessesHeld'
  BY <1>1, ManagedStays
<1>3. ServersKinds'
  BY <1>1 DEF managed, posting, ServersCore, ServersKinds
<1>4. InBounds' /\ LeftBehind' /\ AtPost'
  BY <1>1 DEF managed, posting, ServersCore, InBounds, LeftBehind, AtPost
<1>5. SpecsBehind' /\ FreshOwn'
  BY <1>1 DEF managed, posting, ServersCore, SpecsBehind, FreshOwn, Discovering
<1>. QED
  BY <1>2, <1>3, <1>4, <1>5 DEF ServersCore

LEMMA LoadKeeps == ServersCore /\ LoadServers => ServersCore'
<1>. SUFFICES ASSUME ServersCore, LoadServers PROVE ServersCore'
  OBVIOUS
<1>1. SpecsNamed' /\ SpecsHeld' /\ SkipsDead' /\ ProcessesHeld'
  BY ManagedStays DEF LoadServers
<1>2. ServersKinds' /\ InBounds' /\ LeftBehind' /\ AtPost' /\ SpecsBehind' /\ FreshOwn'
  BY DEF LoadServers, managed, posting, ServersCore, ServersKinds, InBounds, LeftBehind,
         AtPost, SpecsBehind, FreshOwn, Discovering
<1>. QED
  BY <1>1, <1>2 DEF ServersCore

LEMMA BeginPassKeeps ==
    ASSUME ServersCore, NEW what \in {"tools", "context"}, BeginPass(what) PROVE ServersCore'
<1>1. ServersKinds'
  BY ServersAssumption DEF BeginPass, ServersCore, ServersKinds
<1>2. SpecsNamed' /\ SpecsHeld'
  <2>1. CASE what = "tools"
    BY <2>1 DEF BeginPass, ServersCore, SpecsNamed, SpecsHeld, NamesDiffer
  <2>2. CASE what # "tools"
    BY <2>2 DEF BeginPass, ServersCore, SpecsNamed, SpecsHeld, NamesDiffer, NamesIn
  <2>. QED
    BY <2>1, <2>2
<1>3. SkipsDead' /\ ProcessesHeld'
  BY DEF BeginPass, ServersCore, SkipsDead, ProcessesHeld
<1>4. InBounds' /\ LeftBehind' /\ AtPost' /\ SpecsBehind' /\ FreshOwn'
  BY DEF BeginPass, ServersCore, InBounds, LeftBehind, AtPost, SpecsBehind, FreshOwn,
         Discovering
<1>. QED
  BY <1>1, <1>2, <1>3, <1>4 DEF ServersCore

LEMMA CallKeeps == ServersCore /\ CallRemote => ServersCore'
<1>. SUFFICES ASSUME ServersCore, CallRemote PROVE ServersCore'
  OBVIOUS
<1>1. SpecsNamed' /\ SpecsHeld' /\ SkipsDead' /\ ProcessesHeld'
  BY ManagedStays DEF CallRemote
<1>2. PICK i \in DOMAIN specs : specs[i].server \notin LocalServers /\ nth' = specs[i].server
  BY DEF CallRemote
<1>3. nth' \in Servers \ LocalServers
  BY <1>2, SpecServers DEF ServersCore
<1>4. nth' \in 1..(ServerCount + 1)
  BY <1>3, ServersAssumption DEF Servers
<1>5. ServersKinds'
  BY <1>4, ServersAssumption DEF CallRemote, Post, managed, ServersCore, ServersKinds, Origins
<1>6. InBounds' /\ LeftBehind' /\ AtPost' /\ SpecsBehind' /\ FreshOwn'
  BY <1>3 DEF CallRemote, Post, managed, ServersCore, InBounds, LeftBehind, AtPost, SpecsBehind,
              FreshOwn, Discovering
<1>. QED
  BY <1>1, <1>5, <1>6 DEF ServersCore

LEMMA EndKeeps == ServersCore /\ EndPass => ServersCore'
<1>. SUFFICES ASSUME ServersCore, EndPass PROVE ServersCore'
  OBVIOUS
<1>1. SpecsNamed' /\ SpecsHeld' /\ SkipsDead' /\ ProcessesHeld'
  BY ManagedStays DEF EndPass
<1>2. ServersKinds'
  BY ServersAssumption DEF EndPass, managed, posting, ServersCore, ServersKinds
<1>3. InBounds' /\ LeftBehind' /\ AtPost' /\ SpecsBehind' /\ FreshOwn'
  BY DEF EndPass, managed, posting, ServersCore, InBounds, LeftBehind, AtPost, SpecsBehind,
         FreshOwn, Discovering
<1>. QED
  BY <1>1, <1>2, <1>3 DEF ServersCore

\* A server is given up in a discovery, before it has any of the tools.
LEMMA GiveUpFact ==
    ASSUME ServersCore, Discovering, nth \in Servers, GiveUpServer
    PROVE  /\ SpecsNamed' /\ SpecsHeld' /\ SkipsDead' /\ ProcessesHeld'
           /\ clients' \in [Servers -> {"none", "client", "dead"}]
           /\ processes' \in [Servers -> {"none", "up", "gone"}]
           /\ skips' \subseteq Servers /\ dropped' \subseteq Servers
           /\ UNCHANGED <<fresh, specs>>
<1>1. /\ clients \in [Servers -> {"none", "client", "dead"}]
      /\ processes \in [Servers -> {"none", "up", "gone"}]
      /\ skips \subseteq Servers /\ dropped \subseteq Servers /\ nth \in Nat
      /\ LocalServers \subseteq Servers
  BY ServersAssumption DEF ServersCore, ServersKinds
<1>2. /\ clients' = [clients EXCEPT ![nth] = "dead"] /\ skips' = skips \cup {nth}
      /\ UNCHANGED <<fresh, specs>>
  BY DEF GiveUpServer
<1>3. \/ processes' = [processes EXCEPT ![nth] = "gone"] /\ dropped' = dropped
      \/ /\ processes' = processes
         /\ dropped' = IF clients[nth] = "client" THEN dropped \cup {nth} ELSE dropped
  BY DEF GiveUpServer
<1>4. SpecsNamed'
  BY <1>2 DEF ServersCore, SpecsNamed, NamesIn, NamesDiffer
<1>5. SpecsHeld'
  <2>. SUFFICES ASSUME NEW i \in DOMAIN specs
                PROVE  specs[i].server \notin skips' /\ clients'[specs[i].server] # "none"
    BY <1>2 DEF SpecsHeld
  <2>1. specs[i].server < nth /\ specs[i].server \notin skips
        /\ clients[specs[i].server] # "none" /\ specs[i].server \in Servers
    BY SpecServers DEF ServersCore, SpecsBehind, SpecsHeld
  <2>2. specs[i].server # nth
    BY <1>1, <2>1
  <2>. QED
    BY <1>1, <1>2, <2>1, <2>2
<1>6. SkipsDead'
  BY <1>1, <1>2 DEF ServersCore, SkipsDead
<1>7. ProcessesHeld'
  BY <1>1, <1>2, <1>3 DEF ServersCore, ProcessesHeld
<1>8. /\ clients' \in [Servers -> {"none", "client", "dead"}]
      /\ processes' \in [Servers -> {"none", "up", "gone"}]
      /\ skips' \subseteq Servers /\ dropped' \subseteq Servers
  BY <1>1, <1>2, <1>3
<1>. QED
  BY <1>2, <1>4, <1>5, <1>6, <1>7, <1>8

\* The next server of a discovery or of a context.
LEMMA NextFact ==
    ASSUME ServersCore, nth \in Servers
    PROVE  nth + 1 \in 1..(ServerCount + 1) /\ nth \in Nat
BY ServersAssumption DEF Servers

LEMMA PassOverKeeps == ServersCore /\ PassOver => ServersCore'
<1>. SUFFICES ASSUME ServersCore, PassOver PROVE ServersCore'
  OBVIOUS
<1>1. nth \in Servers /\ errand \in {"tools", "context"}
  BY ServersAssumption DEF PassOver, ServersCore, ServersKinds, Servers
<1>2. /\ nth' = nth + 1 /\ errand' = errand /\ nth + 1 \in 1..(ServerCount + 1) /\ nth \in Nat
      /\ UNCHANGED <<accepted, posting, rounds>>
  BY <1>1, NextFact DEF PassOver, NextServer
<1>3. /\ SpecsNamed' /\ SpecsHeld' /\ SkipsDead' /\ ProcessesHeld'
      /\ clients' \in [Servers -> {"none", "client", "dead"}]
      /\ processes' \in [Servers -> {"none", "up", "gone"}]
      /\ skips' \subseteq Servers /\ dropped' \subseteq Servers
      /\ UNCHANGED <<fresh, specs>>
  <2>1. CASE errand = "tools"
    <3>1. GiveUpServer /\ Discovering
      BY <2>1 DEF PassOver, Discovering
    <3>. QED
      BY <1>1, <3>1, GiveUpFact
  <2>2. CASE errand # "tools"
    <3>1. /\ clients' = [clients EXCEPT ![nth] = "dead"]
          /\ UNCHANGED <<processes, fresh, specs, skips, dropped>>
          /\ clients \in [Servers -> {"none", "client", "dead"}]
      BY <2>2 DEF PassOver, ServersCore, ServersKinds
    <3>2. SpecsNamed'
      BY <3>1 DEF ServersCore, SpecsNamed, NamesIn, NamesDiffer
    <3>3. SpecsHeld' /\ SkipsDead'
      BY <3>1, <1>1 DEF ServersCore, SpecsHeld, SkipsDead
    <3>4. ProcessesHeld'
      BY <3>1, <1>1 DEF PassOver, Dead, ServersCore, ProcessesHeld
    <3>. QED
      BY <3>1, <3>2, <3>3, <3>4 DEF ServersCore, ServersKinds
  <2>. QED
    BY <2>1, <2>2
<1>4. ServersKinds'
  BY <1>1, <1>2, <1>3 DEF posting, ServersCore, ServersKinds
<1>5. SpecsBehind' /\ FreshOwn'
  <2>1. errand = "tools" => \A i \in DOMAIN specs : specs[i].server < nth + 1
    <3>1. errand = "tools" => \A i \in DOMAIN specs : specs[i].server < nth
      BY DEF ServersCore, SpecsBehind, Discovering
    <3>2. \A i \in DOMAIN specs : specs[i].server \in Nat
      BY SpecServers DEF ServersCore
    <3>. QED
      BY <1>2, <3>1, <3>2
  <2>2. SpecsBehind'
    BY <1>1, <1>2, <1>3, <2>1 DEF SpecsBehind, Discovering
  <2>3. FreshOwn'
    BY <1>1, <1>2, <1>3 DEF ServersCore, FreshOwn
  <2>. QED
    BY <2>2, <2>3
<1>6. InBounds' /\ LeftBehind' /\ AtPost'
  BY <1>1, <1>2 DEF posting, ServersCore, InBounds, LeftBehind, AtPost
<1>. QED
  BY <1>3, <1>4, <1>5, <1>6 DEF ServersCore

\* A sequence of members of S that are all in T.
LEMMA InSeq ==
    ASSUME NEW S, NEW T, NEW s \in Seq(S), \A i \in DOMAIN s : s[i] \in S => s[i] \in T
    PROVE  s \in Seq(T)
OBVIOUS

\* A list is one of the names that it has.
LEMMA OwnNames ==
    ASSUME NEW N, NEW row \in Seq([name : N, server : Servers, tool : ServedTools])
    PROVE  row \in Seq([name : NamesIn(row), server : Servers, tool : ServedTools])
<1>. DEFINE kind == [name : N, server : Servers, tool : ServedTools]
            own == [name : NamesIn(row), server : Servers, tool : ServedTools]
<1>1. ASSUME NEW i \in DOMAIN row, row[i] \in kind PROVE row[i] \in own
  <2>1. row[i].name \in NamesIn(row)
    BY DEF NamesIn
  <2>. QED
    BY <1>1, <2>1
<1>2. row \in Seq(kind)
  OBVIOUS
<1>. HIDE DEF kind, own
<1>3. row \in Seq(own)
  BY <1>1, <1>2, InSeq
<1>. QED
  BY <1>3 DEF own

\* A list becomes tools of a discovery.
LEMMA RegisterHeld ==
    ASSUME ServersCore, Discovering, nth \in Servers, clients[nth] = "client", Register
    PROVE  /\ SpecsNamed' /\ SpecsHeld' /\ SkipsDead' /\ ProcessesHeld'
           /\ \A i \in DOMAIN specs' : specs'[i].server < nth + 1
           /\ UNCHANGED <<clients, processes, fresh, skips, dropped>>
<1>1. specs \in Seq(SpecsOfPass)
  <2>1. NamesIn(specs) \subseteq NameSpace
    BY DEF NameSpace
  <2>2. [name : NamesIn(specs), server : Servers, tool : ServedTools] \subseteq SpecsOfPass
    BY <2>1 DEF SpecsOfPass
  <2>. DEFINE own == [name : NamesIn(specs), server : Servers, tool : ServedTools]
  <2>3. specs \in Seq(own)
    BY DEF ServersCore, SpecsNamed
  <2>4. own \subseteq SpecsOfPass
    BY <2>2
  <2>. HIDE DEF own
  <2>. QED
    BY <2>3, <2>4, InSeq
<1>2. /\ specs' \in Seq(SpecsOfPass) /\ NamesDiffer(specs') /\ FromPass(specs')
      /\ UNCHANGED <<clients, processes, fresh, skips, dropped>>
  BY <1>1, RegisterFact DEF ServersCore, SpecsNamed
<1>3. SpecsNamed'
  <2>1. specs' \in Seq([name : NamesIn(specs'), server : Servers, tool : ServedTools])
    BY <1>2, OwnNames DEF SpecsOfPass
  <2>2. NamesIn(specs') = NamesIn(specs)' /\ NamesDiffer(specs') = NamesDiffer(specs)'
    BY DEF NamesIn, NamesDiffer
  <2>. QED
    BY <1>2, <2>1 DEF SpecsNamed
<1>4. ASSUME NEW i \in DOMAIN specs'
      PROVE  \/ specs'[i].server = nth
             \/ \E j \in DOMAIN specs : specs[j].server = specs'[i].server
  BY <1>2 DEF FromPass
<1>5. nth \in Nat /\ nth \notin skips
  BY ServersAssumption DEF Servers, ServersCore, SkipsDead
<1>6. SpecsHeld'
  <2>. SUFFICES ASSUME NEW i \in DOMAIN specs'
                PROVE  specs'[i].server \notin skips /\ clients[specs'[i].server] # "none"
    BY <1>2 DEF SpecsHeld
  <2>. QED
    BY <1>4, <1>5 DEF ServersCore, SpecsHeld
<1>7. ASSUME NEW i \in DOMAIN specs' PROVE specs'[i].server < nth + 1
  <2>1. \A j \in DOMAIN specs : specs[j].server \in Nat /\ specs[j].server < nth
    BY SpecServers DEF ServersCore, SpecsBehind
  <2>. QED
    BY <1>4, <1>5, <2>1
<1>8. SkipsDead' /\ ProcessesHeld'
  BY <1>2 DEF ServersCore, SkipsDead, ProcessesHeld
<1>. QED
  BY <1>2, <1>3, <1>6, <1>7, <1>8

LEMMA SpawnKeeps == ServersCore /\ SpawnServer => ServersCore'
<1>. SUFFICES ASSUME ServersCore, SpawnServer PROVE ServersCore'
  OBVIOUS
<1>1. /\ nth \in Servers /\ nth \in LocalServers /\ clients[nth] = "none"
      /\ errand \in {"tools", "context"} /\ LocalServers \subseteq Servers
      /\ nth + 1 \in 1..(ServerCount + 1) /\ nth \in Nat
      /\ clients \in [Servers -> {"none", "client", "dead"}]
      /\ processes \in [Servers -> {"none", "up", "gone"}] /\ fresh \subseteq Servers
      /\ skips \subseteq Servers /\ nth \in 1..(ServerCount + 1)
      /\ UNCHANGED <<accepted, specs, dropped, errand, posting, rounds>>
  BY ServersAssumption, NextFact DEF SpawnServer, ServersCore, ServersKinds
<1>2. SpecsNamed'
  BY <1>1 DEF ServersCore, SpecsNamed, NamesIn, NamesDiffer
<1>3. InBounds' /\ LeftBehind' /\ AtPost'
  BY <1>1 DEF posting, ServersCore, InBounds, LeftBehind, AtPost
<1>4. CASE /\ clients' = [clients EXCEPT ![nth] = "client"]
           /\ processes' = [processes EXCEPT ![nth] = "up"]
           /\ fresh' = IF errand = "tools" THEN fresh \cup {nth} ELSE fresh
           /\ UNCHANGED <<skips, nth>>
  <2>1. ServersKinds'
    BY <1>1, <1>4 DEF posting, ServersCore, ServersKinds
  <2>2. SpecsHeld' /\ SkipsDead' /\ ProcessesHeld'
    BY <1>1, <1>4 DEF ServersCore, SpecsHeld, SkipsDead, ProcessesHeld
  <2>3. SpecsBehind' /\ FreshOwn'
    BY <1>1, <1>4 DEF posting, ServersCore, SpecsBehind, FreshOwn, Discovering
  <2>. QED
    BY <1>2, <1>3, <2>1, <2>2, <2>3 DEF ServersCore
<1>5. CASE /\ clients' = [clients EXCEPT ![nth] = "dead"]
           /\ processes' = [processes EXCEPT ![nth] = "gone"]
           /\ skips' = IF errand = "tools" THEN skips \cup {nth} ELSE skips
           /\ nth' = nth + 1 /\ UNCHANGED fresh
  <2>1. ServersKinds'
    BY <1>1, <1>5 DEF posting, ServersCore, ServersKinds
  <2>2. \A i \in DOMAIN specs : specs[i].server \in Nat
                                 /\ (errand = "tools" => specs[i].server < nth)
    BY SpecServers DEF ServersCore, SpecsBehind, Discovering
  <2>3. SpecsHeld' /\ SkipsDead' /\ ProcessesHeld'
    BY <1>1, <1>5, <2>2 DEF ServersCore, SpecsHeld, SkipsDead, ProcessesHeld
  <2>4. SpecsBehind'
    <3>1. \A i \in DOMAIN specs : errand = "tools" => specs[i].server < nth + 1
      BY <1>1, <2>2
    <3>. QED
      BY <1>1, <1>5, <3>1 DEF SpecsBehind, Discovering
  <2>5. FreshOwn'
    BY <1>1, <1>5 DEF ServersCore, FreshOwn
  <2>. QED
    BY <1>2, <1>3, <2>1, <2>3, <2>4, <2>5 DEF ServersCore
<1>. QED
  BY <1>4, <1>5 DEF SpawnServer

LEMMA ConnectKeeps == ServersCore /\ Connect => ServersCore'
<1>. SUFFICES ASSUME ServersCore, Connect PROVE ServersCore'
  OBVIOUS
<1>1. /\ nth \in Servers \ LocalServers /\ clients[nth] = "none"
      /\ errand \in {"tools", "context"} /\ fresh \subseteq Servers
      /\ fresh' = IF errand = "tools" THEN fresh \cup {nth} ELSE fresh
      /\ errand' = "post" /\ reason' = "init" /\ posted' = "own" /\ hops' = 0
      /\ UNCHANGED <<accepted, clients, processes, specs, skips, dropped, nth, lent, visited,
                     rounds>>
  BY DEF Connect, Post, ServersCore, ServersKinds
<1>2. ServersKinds'
  BY <1>1, ServersAssumption DEF ServersCore, ServersKinds, Origins
<1>3. SpecsNamed'
  BY <1>1 DEF ServersCore, SpecsNamed, NamesIn, NamesDiffer
<1>4. SpecsHeld' /\ SkipsDead' /\ ProcessesHeld' /\ InBounds' /\ LeftBehind' /\ AtPost'
  BY <1>1 DEF ServersCore, SpecsHeld, SkipsDead, ProcessesHeld, InBounds, LeftBehind, AtPost
<1>5. CASE errand = "tools"
  BY <1>1, <1>2, <1>3, <1>4, <1>5 DEF ServersCore, SpecsBehind, FreshOwn, Discovering
<1>6. CASE errand = "context"
  <2>1. fresh = {} /\ fresh' = {}
    BY <1>1, <1>6 DEF ServersCore, FreshOwn
  <2>. QED
    BY <1>1, <1>2, <1>3, <1>4, <2>1 DEF ServersCore, SpecsBehind, FreshOwn, Discovering
<1>. QED
  BY <1>1, <1>5, <1>6

LEMMA ListKeeps == ServersCore /\ ListLocal => ServersCore'
<1>. SUFFICES ASSUME ServersCore, ListLocal PROVE ServersCore'
  OBVIOUS
<1>1. /\ nth \in Servers /\ clients[nth] = "client" /\ errand \in {"tools", "context"}
      /\ nth + 1 \in 1..(ServerCount + 1) /\ nth \in Nat
      /\ nth' = nth + 1 /\ errand' = errand /\ UNCHANGED <<accepted, posting, rounds>>
  BY ServersAssumption, NextFact DEF ListLocal, NextServer
<1>2. /\ SpecsNamed' /\ SpecsHeld' /\ SkipsDead' /\ ProcessesHeld'
      /\ clients' \in [Servers -> {"none", "client", "dead"}]
      /\ processes' \in [Servers -> {"none", "up", "gone"}]
      /\ skips' \subseteq Servers /\ dropped' \subseteq Servers /\ UNCHANGED fresh
      /\ errand = "tools" => \A i \in DOMAIN specs' : specs'[i].server < nth + 1
  <2>1. CASE errand = "tools" /\ Register
    <3>1. Discovering
      BY <2>1 DEF Discovering
    <3>. QED
      BY <1>1, <2>1, <3>1, RegisterHeld DEF ServersCore, ServersKinds
  <2>2. CASE errand = "tools" /\ GiveUpServer
    <3>1. Discovering
      BY <2>2 DEF Discovering
    <3>2. \A i \in DOMAIN specs : specs[i].server \in Nat /\ specs[i].server < nth
      BY <3>1, SpecServers DEF ServersCore, SpecsBehind
    <3>3. \A i \in DOMAIN specs : specs[i].server < nth + 1
      BY <1>1, <3>2
    <3>4. UNCHANGED specs
      BY <1>1, <2>2, <3>1, GiveUpFact
    <3>. QED
      BY <1>1, <2>2, <3>1, <3>3, <3>4, GiveUpFact
  <2>3. CASE errand # "tools"
    <3>1. UNCHANGED managed
      BY <2>3 DEF ListLocal
    <3>. QED
      BY <2>3, <3>1, ManagedStays DEF managed, ServersCore, ServersKinds
  <2>. QED
    BY <2>1, <2>2, <2>3 DEF ListLocal
<1>3. ServersKinds'
  BY <1>1, <1>2 DEF posting, ServersCore, ServersKinds
<1>4. InBounds' /\ LeftBehind' /\ AtPost' /\ FreshOwn' /\ SpecsBehind'
  BY <1>1, <1>2 DEF posting, ServersCore, InBounds, LeftBehind, AtPost, FreshOwn, SpecsBehind,
                    Discovering
<1>. QED
  BY <1>2, <1>3, <1>4 DEF ServersCore

LEMMA AskKeeps == ServersCore /\ AskRemote => ServersCore'
<1>. SUFFICES ASSUME ServersCore, AskRemote PROVE ServersCore'
  OBVIOUS
<1>1. SpecsNamed' /\ SpecsHeld' /\ SkipsDead' /\ ProcessesHeld'
  BY ManagedStays DEF AskRemote
<1>2. ServersKinds'
  BY ServersAssumption DEF AskRemote, Post, managed, ServersCore, ServersKinds, Origins
<1>3. InBounds' /\ LeftBehind' /\ AtPost' /\ FreshOwn' /\ SpecsBehind'
  BY DEF AskRemote, Post, managed, ServersCore, InBounds, LeftBehind, AtPost, FreshOwn,
         SpecsBehind, Discovering
<1>. QED
  BY <1>1, <1>2, <1>3 DEF ServersCore

LEMMA DiesKeeps == ASSUME ServersCore, NEW s \in LocalServers, LocalDies(s) PROVE ServersCore'
<1>1. /\ s \in Servers /\ processes' = [processes EXCEPT ![s] = "gone"]
      /\ processes \in [Servers -> {"none", "up", "gone"}] /\ LocalServers \subseteq Servers
      /\ errand # "closed"
      /\ UNCHANGED <<accepted, clients, fresh, specs, skips, dropped, errand, nth, posting,
                     rounds>>
  BY ServersAssumption DEF LocalDies, ServersCore, ServersKinds
<1>2. ServersKinds'
  BY <1>1 DEF posting, ServersCore, ServersKinds
<1>3. SpecsNamed' /\ SpecsHeld' /\ SkipsDead'
  BY <1>1 DEF ServersCore, SpecsNamed, NamesIn, NamesDiffer, SpecsHeld, SkipsDead
<1>4. ProcessesHeld' /\ LeftBehind'
  BY <1>1 DEF ServersCore, ProcessesHeld, LeftBehind
<1>5. InBounds' /\ AtPost' /\ FreshOwn' /\ SpecsBehind'
  BY <1>1 DEF posting, ServersCore, InBounds, AtPost, FreshOwn, SpecsBehind, Discovering
<1>. QED
  BY <1>2, <1>3, <1>4, <1>5 DEF ServersCore

LEMMA CloseServersKeeps == ServersCore /\ CloseServers => ServersCore'
<1>. SUFFICES ASSUME ServersCore, CloseServers PROVE ServersCore'
  OBVIOUS
<1>1. /\ processes' = [s \in Servers |->
                          IF clients[s] = "client" /\ s \in LocalServers THEN "gone"
                          ELSE processes[s]]
      /\ processes \in [Servers -> {"none", "up", "gone"}] /\ LocalServers \subseteq Servers
      /\ errand' = "closed"
      /\ UNCHANGED <<accepted, clients, fresh, specs, skips, dropped, nth, posting, rounds>>
  BY ServersAssumption DEF CloseServers, ServersCore, ServersKinds
<1>2. ServersKinds'
  BY <1>1 DEF posting, ServersCore, ServersKinds
<1>3. SpecsNamed' /\ SpecsHeld' /\ SkipsDead'
  BY <1>1 DEF ServersCore, SpecsNamed, NamesIn, NamesDiffer, SpecsHeld, SkipsDead
<1>4. ProcessesHeld' /\ LeftBehind'
  BY <1>1 DEF ServersCore, ProcessesHeld, LeftBehind
<1>5. InBounds' /\ AtPost' /\ FreshOwn' /\ SpecsBehind'
  BY <1>1 DEF posting, ServersCore, InBounds, AtPost, FreshOwn, SpecsBehind, Discovering
<1>. QED
  BY <1>2, <1>3, <1>4, <1>5 DEF ServersCore

\* What a request that fails leaves.
LEMMA DeclinedKeeps ==
    ASSUME ServersCore, errand = "post", Declined,
           UNCHANGED <<accepted, rounds, reason, posted, hops>>
    PROVE  /\ SpecsNamed' /\ SpecsHeld' /\ SkipsDead' /\ ProcessesHeld'
           /\ ServersKinds' \/ ~(lent' \subseteq Origins /\ visited' \subseteq Origins)
           /\ SpecsBehind' /\ FreshOwn' /\ errand' \in {"tools", "context", "idle"}
<1>1. /\ nth \in Servers \ LocalServers /\ nth + 1 \in 1..(ServerCount + 1) /\ nth \in Nat
      /\ reason \in {"init", "note"} => clients[nth] = "none"
      /\ ServersKinds
      /\ \A i \in DOMAIN specs : specs[i].server \in Nat
  BY NextFact, SpecServers DEF ServersCore, AtPost
<1>. DEFINE past == lent' \subseteq Origins /\ visited' \subseteq Origins
<1>2. CASE reason \in {"init", "note"}
  <2>1. /\ clients' = [clients EXCEPT ![nth] = "dead"] /\ nth' = nth + 1
        /\ errand' = IF nth \in fresh THEN "tools" ELSE "context"
        /\ skips' = IF nth \in fresh THEN skips \cup {nth} ELSE skips
        /\ fresh' = fresh \ {nth} /\ UNCHANGED <<processes, specs, dropped>>
    BY <1>2 DEF Declined, AskedFor
  <2>2. nth \in fresh => Discovering
    BY <1>2 DEF Discovering
  <2>3. nth \in fresh => \A i \in DOMAIN specs : specs[i].server < nth
    BY <2>2 DEF ServersCore, SpecsBehind
  <2>4. nth \notin fresh => fresh = {}
    BY <1>2 DEF ServersCore, FreshOwn, Discovering
  <2>5. past => ServersKinds'
    BY <1>1, <2>1 DEF ServersKinds
  <2>6. SpecsNamed'
    BY <2>1 DEF ServersCore, SpecsNamed, NamesIn, NamesDiffer
  <2>7. SpecsHeld'
    BY <1>1, <2>1, <2>3 DEF ServersCore, SpecsHeld, ServersKinds
  <2>8. SkipsDead' /\ ProcessesHeld'
    BY <1>1, <2>1, ServersAssumption DEF ServersCore, SkipsDead, ProcessesHeld, ServersKinds
  <2>9. SpecsBehind'
    <3>1. nth \in fresh => \A i \in DOMAIN specs : specs[i].server < nth + 1
      BY <1>1, <2>3
    <3>. QED
      BY <2>1, <3>1 DEF SpecsBehind, Discovering
  <2>10. FreshOwn'
    BY <2>1, <2>4 DEF FreshOwn
  <2>. QED
    BY <2>1, <2>5, <2>6, <2>7, <2>8, <2>9, <2>10
<1>3. CASE reason = "tools"
  <2>1. GiveUpServer /\ nth' = nth + 1 /\ errand' = "tools" /\ Discovering
    BY <1>3 DEF Declined, Discovering
  <2>2. /\ SpecsNamed' /\ SpecsHeld' /\ SkipsDead' /\ ProcessesHeld'
        /\ clients' \in [Servers -> {"none", "client", "dead"}]
        /\ processes' \in [Servers -> {"none", "up", "gone"}]
        /\ skips' \subseteq Servers /\ dropped' \subseteq Servers
        /\ UNCHANGED <<fresh, specs>>
    BY <1>1, <2>1, GiveUpFact
  <2>3. past => ServersKinds'
    BY <1>1, <2>1, <2>2 DEF ServersKinds
  <2>4. SpecsBehind' /\ FreshOwn'
    <3>1. \A i \in DOMAIN specs : specs[i].server < nth
      BY <2>1 DEF ServersCore, SpecsBehind
    <3>2. \A i \in DOMAIN specs : specs[i].server < nth + 1
      BY <1>1, <3>1
    <3>. QED
      BY <2>1, <2>2, <3>2 DEF SpecsBehind, FreshOwn
  <2>. QED
    BY <2>1, <2>2, <2>3, <2>4
<1>4. CASE reason \in {"context", "call"}
  <2>1. /\ UNCHANGED managed
        /\ \/ reason = "context" /\ nth' = nth + 1 /\ errand' = "context"
           \/ reason = "call" /\ nth' = 1 /\ errand' = "idle"
    BY <1>4 DEF Declined
  <2>2. past => ServersKinds'
    BY <1>1, <2>1, ServersAssumption DEF ServersKinds, managed
  <2>3. SpecsBehind' /\ FreshOwn'
    BY <2>1 DEF SpecsBehind, FreshOwn, Discovering, managed, ServersCore
  <2>. QED
    BY <2>1, <2>2, <2>3, ManagedStays
<1>. QED
  BY <1>1, <1>2, <1>3, <1>4 DEF ServersKinds

LEMMA HopKeeps == ServersCore /\ Hop => ServersCore'
<1>. SUFFICES ASSUME ServersCore, Hop PROVE ServersCore'
  OBVIOUS
<1>1. /\ errand = "post" /\ UNCHANGED <<accepted, rounds>>
      /\ nth \in Servers \ LocalServers /\ nth + 1 \in 1..(ServerCount + 1) /\ nth \in Nat
      /\ reason \in {"init", "note"} => clients[nth] = "none"
      /\ reason = "tools" => clients[nth] = "client"
      /\ ServersKinds
  BY NextFact DEF Hop, ServersCore, AtPost
<1>2. /\ visited' = visited \cup {posted}
      /\ lent' = IF Carries(posted) THEN lent \cup {posted} ELSE lent
  BY DEF Hop
<1>3. /\ lent' \subseteq Origins /\ visited' \subseteq Origins
      /\ lent' \subseteq {"own"} /\ "private" \notin visited'
  BY <1>1, <1>2 DEF ServersKinds, ServersCore, InBounds, Carries
<1>4. CASE Declined /\ UNCHANGED <<reason, posted, hops>>
  <2>1. /\ SpecsNamed' /\ SpecsHeld' /\ SkipsDead' /\ ProcessesHeld' /\ ServersKinds'
        /\ SpecsBehind' /\ FreshOwn' /\ errand' \in {"tools", "context", "idle"}
    BY <1>1, <1>3, <1>4, DeclinedKeeps
  <2>2. InBounds' /\ LeftBehind' /\ AtPost'
    BY <1>3, <1>4, <2>1 DEF InBounds, LeftBehind, AtPost, ServersCore
  <2>. QED
    BY <2>1, <2>2 DEF ServersCore
<1>5. CASE Responded
  <2>1. CASE reason = "init"
    <3>1. /\ errand' = "post" /\ reason' = "note" /\ posted' = "own" /\ hops' = 0
          /\ UNCHANGED managed /\ UNCHANGED nth
      BY <1>5, <2>1 DEF Responded, Post
    <3>2. ServersKinds'
      BY <1>1, <1>3, <3>1, ServersAssumption DEF ServersKinds, managed, Origins
    <3>3. InBounds' /\ LeftBehind' /\ AtPost' /\ FreshOwn' /\ SpecsBehind'
      BY <1>1, <1>3, <2>1, <3>1 DEF managed, ServersCore, InBounds, LeftBehind, AtPost,
                                    FreshOwn, SpecsBehind, Discovering
    <3>. QED
      BY <3>1, <3>2, <3>3, ManagedStays DEF ServersCore
  <2>2. CASE reason = "note"
    <3>1. /\ clients' = [clients EXCEPT ![nth] = "client"]
          /\ errand' = IF nth \in fresh THEN "tools" ELSE "context"
          /\ UNCHANGED <<processes, fresh, specs, skips, dropped, nth, reason, posted, hops>>
      BY <1>5, <2>2 DEF Responded, AskedFor
    <3>2. ServersKinds'
      BY <1>1, <1>3, <3>1 DEF ServersKinds
    <3>3. SpecsNamed'
      BY <3>1 DEF ServersCore, SpecsNamed, NamesIn, NamesDiffer
    <3>4. SpecsHeld' /\ SkipsDead' /\ ProcessesHeld'
      BY <1>1, <2>2, <3>1, ServersAssumption
         DEF ServersCore, SpecsHeld, SkipsDead, ProcessesHeld, ServersKinds
    <3>5. InBounds' /\ LeftBehind' /\ AtPost'
      BY <1>3, <3>1 DEF ServersCore, InBounds, LeftBehind, AtPost
    <3>6. FreshOwn' /\ SpecsBehind'
      BY <1>1, <2>2, <3>1 DEF ServersCore, FreshOwn, SpecsBehind, Discovering
    <3>. QED
      BY <3>2, <3>3, <3>4, <3>5, <3>6 DEF ServersCore
  <2>3. CASE reason = "tools"
    <3>1. /\ Register /\ nth' = nth + 1 /\ errand' = "tools" /\ Discovering
          /\ UNCHANGED <<reason, posted, hops>>
      BY <1>1, <1>5, <2>3 DEF Responded, Discovering
    <3>2. /\ SpecsNamed' /\ SpecsHeld' /\ SkipsDead' /\ ProcessesHeld'
          /\ \A i \in DOMAIN specs' : specs'[i].server < nth + 1
          /\ UNCHANGED <<clients, processes, fresh, skips, dropped>>
      BY <1>1, <2>3, <3>1, RegisterHeld
    <3>3. ServersKinds'
      BY <1>1, <1>3, <3>1, <3>2 DEF ServersKinds
    <3>4. InBounds' /\ LeftBehind' /\ AtPost' /\ FreshOwn' /\ SpecsBehind'
      BY <1>3, <3>1, <3>2 DEF ServersCore, InBounds, LeftBehind, AtPost, FreshOwn, SpecsBehind
    <3>. QED
      BY <3>2, <3>3, <3>4 DEF ServersCore
  <2>4. CASE reason \notin {"init", "note", "tools"}
    <3>1. Declined /\ UNCHANGED <<reason, posted, hops>>
      BY <1>5, <2>4 DEF Responded
    <3>. QED
      BY <1>4, <3>1
  <2>. QED
    BY <2>1, <2>2, <2>3, <2>4
<1>6. ASSUME NEW after \in Origins, ~(after = "private" \/ hops = MaxRedirects),
             posted' = after, hops' = hops + 1, UNCHANGED <<managed, reason, errand, nth>>
      PROVE  ServersCore'
  <2>1. UNCHANGED managed
    BY <1>6
  <2>2. hops + 1 \in 0..MaxRedirects
    BY <1>1, <1>6, ServersAssumption DEF ServersKinds
  <2>3. ServersKinds'
    BY <1>1, <1>3, <1>6, <2>2 DEF ServersKinds, managed
  <2>4. InBounds' /\ LeftBehind' /\ AtPost' /\ FreshOwn' /\ SpecsBehind'
    BY <1>1, <1>3, <1>6 DEF managed, ServersCore, InBounds, LeftBehind, AtPost, FreshOwn,
                            SpecsBehind, Discovering
  <2>. QED
    BY <2>1, <2>3, <2>4, ManagedStays DEF ServersCore
<1>. QED
  BY <1>4, <1>5, <1>6 DEF Hop

LEMMA ServersGoOn == ServersCore /\ ServersNext => ServersCore'
BY LoadKeeps, BeginPassKeeps, CallKeeps, EndKeeps, PassOverKeeps, SpawnKeeps, ConnectKeeps,
   ListKeeps, AskKeeps, HopKeeps, CloseServersKeeps, DiesKeeps DEF ServersNext

\* Of the manager of the MCP servers: tools have names of their own and lead to
\* servers that were started and not given up, requests stay where they may be,
\* and no process is left behind.
THEOREM ServersInvariant == ServersSpec => []ServersInv
<1>1. ServersInit => ServersCore
  BY ServersStart
<1>2. ServersCore /\ [ServersNext]_serverVars => ServersCore'
  BY ServersGoOn, ServersStutter
<1>3. ServersCore => ServersInv
  BY ServersCoreSuffices
<1>. QED
  BY <1>1, <1>2, <1>3, PTL DEF ServersSpec

(* Whatever servers fail to start, to shake hands or to list, die, or are  *)
(* given up, the tools of a discovery have names of their own and lead to  *)
(* servers in hand, no request leaves where it may go, and a closed        *)
(* manager leaves no process behind but of clients it gave up.             *)
THEOREM ServersAreInHand == ServersSpec => []ServersInHand
<1>1. ServersInv => ServersInHand
  BY DEF ServersInv
<1>. QED
  BY <1>1, ServersInvariant, PTL
=============================================================================
